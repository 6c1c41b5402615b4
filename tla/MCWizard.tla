------------------------------ MODULE MCWizard ------------------------------
(* The wizard on two loans and two programs whose checklists differ.       *)
EXTENDS Wizard

CONSTANTS dscr, bank

MCProducts == {dscr, bank}
MCRequired == [p \in MCProducts \cup {NoProduct} |->
                 IF p = dscr THEN {"rent", "reserves"} ELSE {"reserves"}]
Full == Parts \ {"co"}
MCBursts == {{"setup"}, {"property"}, Full}

Quiet == [edits |-> 0, fails |-> 0, uploads |-> 0, archives |-> 0, moves |-> 1, clicks |-> 0, savers |-> 1,
          typing |-> {Full}, programs |-> {dscr}, clears |-> FALSE, loans |-> 1, cos |-> 0]

(* Two saves at once; a reload or a failure; an address or all figures     *)
(* cleared; a co-borrower removed and added again.                         *)
Races == [Quiet EXCEPT !.edits = 2, !.clicks = 1, !.savers = 2, !.typing = {{"setup"}, Full}]
Crash == [Quiet EXCEPT !.edits = 2, !.fails = 1, !.moves = 2]
Clear == [Quiet EXCEPT !.edits = 2, !.moves = 2, !.typing = {{"property"}, Full}, !.clears = TRUE]
Again == [Quiet EXCEPT !.edits = 1, !.clicks = 3, !.cos = 2]

(* Two loans, one of which starts while the other is open: with their      *)
(* texts, and with their documents.                                        *)
Loans2 == [Quiet EXCEPT !.edits = 2, !.moves = 3, !.loans = 2]
Return == [Loans2 EXCEPT !.edits = 1, !.moves = 4]
Marks  == [Return EXCEPT !.uploads = 1, !.typing = {}]

(* A submission, which may fail and be tried again; an archived document.  *)
Retry   == [Quiet EXCEPT !.edits = 1, !.fails = 1, !.moves = 3, !.uploads = 1, !.programs = {bank}]
Archive == [Quiet EXCEPT !.edits = 1, !.moves = 3, !.clicks = 1, !.uploads = 1, !.archives = 1,
                         !.typing = {}]

MCLimits == {Races, Crash, Clear, Again, Loans2, Return, Marks, Retry, Archive}
MCRaces == {Races}
=============================================================================
