----------------------------- MODULE Workspace -----------------------------
(***************************************************************************)
(* A loan's workspace (LoanWorkspaceShell.tsx): the page, and in it one    *)
(* section at a time, a form or a list.                                    *)
(***************************************************************************)
EXTENDS Forms, Lists

vars == <<pageVars, causes, formVars, listVars>>

Init == PageInit /\ FormsInit /\ ListsInit

(* The address or the loan changes: what is mounted follows, and what is   *)
(* under way is left to itself.                                            *)
LeftUnderWay ==
    {w.loan : w \in Pending(panel)} \cup (UNION {LoansOf(w) : w \in {v \in acts : OurAct(v)}})
        \cup {ld.loan : ld \in loads' \cap loads}

Turn(step) ==
    /\ step /\ Remount /\ Relist
    /\ mounts' = IF \/ panel' # NoPanel /\ panel'.mount > mounts
                    \/ list' # NoList /\ list'.mount > mounts THEN mounts + 1 ELSE mounts
    /\ causes' = IF panel' = panel /\ list' = list THEN causes ELSE Blame(LeftUnderWay, "left")

InForm(step) == step /\ UNCHANGED listVars
InList(step) == step /\ UNCHANGED formVars

User == Turn(Navigate) \/ Turn(GoTo) \/ InForm(FormUser) \/ InList(ListUser)
Background == Turn(LoanArrives) \/ InForm(FormBackground) \/ InList(ListBackground)
Others == InForm(CreatedElsewhere) \/ InList(AddedElsewhere)
Failure == Turn(LoanNotFound) \/ InForm(LoadFails) \/ InList(\E ld \in loads : ListLoadFails(ld))

Next == User \/ Others \/ Background \/ Failure

(* Answers come and are taken; the users owe nothing. *)
Spec == Init /\ [][Next]_vars /\ WF_vars(Background)

---------------------------------------------------------------------------
TypeOK ==
    /\ route.loan \in Loan /\ route.section \in limit.sections
    /\ shown \in Loan \cup {NoLoan} /\ asked \in BOOLEAN
    /\ panel # NoPanel => /\ panel.kind \in FormKinds /\ panel.mount \in 1..mounts
                          /\ panel.row \in 0..Len(rows) /\ panel.form \cup panel.saved \subseteq 0..Len(typed)
    /\ list # NoList => /\ list.kind \in ListKinds /\ list.mount \in 1..mounts
                        /\ DOMAIN list.seen \subseteq DOMAIN items /\ list.busy \subseteq 0..Len(items)
    /\ panel = NoPanel \/ list = NoList
    /\ list = NoList => loads = {}
    /\ \A w \in writes : w.kind \in FormKinds /\ w.row \in 0..Len(rows) /\ w.form \subseteq 1..Len(typed)
    /\ \A w \in acts : w.kind \in ListKinds /\ w.n \in 0..Len(items) /\ w.left \in 0..2

Quiet(l, cs) == causes[l] \cap cs = {}

(* What a loan's record holds was typed on that loan's pages. It may not   *)
(* be so where a form met the next loan without a record of it ("empty")   *)
(* or with a failed load ("failed"), where a save was answered after the   *)
(* loan had changed ("late"), or where one typed or saved before the next  *)
(* loan's record was there ("early"). (WorkspaceAppraisal.tsx:78-96 and    *)
(* its like keep the former loan's id and form.)                           *)
RowOfItsLoan ==
    \A n \in DOMAIN rows : \A e \in rows[n].form :
        \/ typed[e].loan = rows[n].loan
        \/ ~Quiet(rows[n].loan, {"empty", "failed", "late", "early"})

Untouched == panel # NoPanel /\ panel.load = "done" /\ ~panel.busy /\ panel.form = panel.saved

Record == IF By(panel.kind) = "id" THEN panel.row ELSE Found(panel.kind, panel.loan).at
Held == IF Record = 0 THEN {} ELSE rows[Record].form

(* A form with nothing to save shows what the server holds, as far as its  *)
(* fields are taken: through typing during a save, saves of the whole form *)
(* and cancelled edits. Not after the above, nor where a save was left or  *)
(* its answer lost.                                                        *)
SavedIsStored ==
    Untouched /\ By(panel.kind) # "none"
        => \/ Taken(panel.form) = Held
           \/ panel.kind = "urla" /\ Taken(panel.form) \subseteq Held
           \/ ~Quiet(panel.loan, {"empty", "failed", "late", "early", "left", "unanswered"})

(* A loan gets one appraisal order and one title order, although creating  *)
(* one looks for none on the server: there is a second only if a load      *)
(* failed, a creation was left or unanswered, or another user created one  *)
(* too (handleCreate).                                                     *)
OneRecord ==
    \A l \in Loan, k \in {"appraisal", "title"} :
        Cardinality(RowsOf(k, l)) > 1 => ~Quiet(l, {"failed", "left", "unanswered", "shared"})

Settled == list # NoList /\ list.shows /\ ~list.broken /\ loads = {} /\ acts = {}

(* A list at rest shows the loan's items as the server has them, patched   *)
(* or loaded again. Not so after a failed load, where an answer came late  *)
(* for another loan, two requests crossed, one was left or unanswered, an  *)
(* item was removed - the 204 cannot be parsed and the item stays - or     *)
(* another user added one, which only a load would show.                   *)
ListIsServer ==
    Settled => \/ list.seen = Live(list.kind, list.loan)
               \/ ~Quiet(list.loan, {"failed", "late", "crossed", "left", "unanswered", "unparsed", "shared"})

Renumbered(l) ==
    \E n \in DOMAIN items : items[n].kind = "conditions" /\ items[n].loan = l /\ items[n].status = "deleted"

(* The conditions of a loan have different numbers, though the page takes  *)
(* the number from how many it shows (conditions.length + 1). They may not *)
(* where one was removed, where another loan's were counted, where one was *)
(* added while a template was applied, where another user added one, or    *)
(* where requests were left or unanswered.                                 *)
NumbersDistinct ==
    \A m, n \in DOMAIN items :
        /\ items[m].kind = "conditions" /\ items[n].kind = "conditions" /\ m # n
        /\ items[m].loan = items[n].loan /\ items[m].num = items[n].num
      => \/ Renumbered(items[n].loan)
         \/ ~Quiet(items[n].loan, {"miscounted", "overlap", "left", "unanswered", "shared"})

(* A cleared, waived or rejected condition stays so or is removed, however *)
(* old the card it is acted on from: the server checks each step. Not when *)
(* two steps were both checked before either was committed (conditions.py  *)
(* locks nothing).                                                         *)
VerdictStays ==
    [][\A n \in DOMAIN items :
         items[n].status \in Final
            => items'[n].status \in {items[n].status, "deleted"} \/ ~Quiet(items[n].loan, {"raced"})]_vars

(* Once the user stops, no section is left saving or loading: every save   *)
(* ends, and a list that was hidden to be loaded again is shown.           *)
ComesToRest ==
    <>[](/\ ~asked
         /\ panel # NoPanel => ~panel.busy /\ ~Loading
         /\ list # NoList => list.shows /\ list.busy = {})

---------------------------------------------------------------------------
(* What the code does not do.                                              *)

(* A status is moved on the loan whose status the user confirmed to move.  *)
MovesLoanSeen == \A w \in acts : w.kind = "status" => items[w.n].loan = w.saw
============================================================================
