---------------------------- MODULE MCWorkspace ----------------------------
(***************************************************************************)
(* The workspace on two loans: each behaviour is in one section, or in two *)
(* that share something, with the edits, items, moves and failures that    *)
(* its record of bounds allows; in some another user adds a record or an   *)
(* item ("shared").                                                        *)
(***************************************************************************)
EXTENDS Workspace

FormBound(ss, fs, n) ==
    [sections |-> ss, fields |-> fs, edits |-> n, items |-> 0, moves |-> 3, fails |-> 1]
ListBound(k, fs) ==
    [sections |-> {k}, fields |-> fs, edits |-> 0, items |-> 1, moves |-> 3, fails |-> 1]

NoFailure(bound) == [bound EXCEPT !.fails = 0]

FormLimits ==
    {FormBound({k}, {"plain", "ignored", "rate", "local"}, 2) : k \in {"appraisal", "property", "escrow", "terms"}}
        \cup {NoFailure(FormBound({"urla"}, {"plain", "added", "local", "add"}, 2)),
              FormBound({"urla"}, {"plain", "co", "remove"}, 2),
              FormBound({"income"}, {"local"}, 1),
              [NoFailure(FormBound({"title", "processing"}, {"plain"}, 1)) EXCEPT !.moves = 4],
              NoFailure(FormBound({"appraisal"}, {"plain", "shared"}, 1))}
ListLimits ==
    {ListBound(k, {"add", "remove"}) : k \in {"credit", "audit", "runs", "status", "documents", "conversation"}}
        \cup {NoFailure(ListBound(k, {"add", "remove"})) :
                k \in {"exceptions", "titleExceptions", "activity", "tasks", "conditions"}}
        \cup {NoFailure(ListBound("tasks", {"template"})), NoFailure(ListBound("conditions", {"add", "template"}))}
        \cup {[ListBound(k, {"template"}) EXCEPT !.moves = 2] : k \in {"tasks", "conditions"}}
        \cup {ListBound("conditions", {"add"})}
        \cup {NoFailure(ListBound(k, {"add", "shared"})) : k \in {"conditions", "tasks"}}
        \cup {[NoFailure(ListBound("conditions", {"add"})) EXCEPT !.items = n, !.moves = 4] : n \in 0..1}

MCLimits == FormLimits \cup ListLimits

StatusLimits == {NoFailure(ListBound("status", {}))}
=============================================================================
