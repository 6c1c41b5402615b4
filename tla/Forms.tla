------------------------------- MODULE Forms -------------------------------
(***************************************************************************)
(* The sections of a loan's workspace that are forms: appraisal, title,    *)
(* subject property, escrow, loan estimate, borrower URLA, and those that  *)
(* have nothing behind them (processing, underwriting, income). Each loads *)
(* its record when it mounts and when the loan under it changes, is typed  *)
(* in, and is saved whole from the save bar.                               *)
(*                                                                         *)
(* A form is the set of the edits it contains; edit e was typed on loan    *)
(* typed[e].loan, in a field of the kind typed[e].field.                   *)
(***************************************************************************)
EXTENDS LoanPage, SequencesExt

VARIABLES
    panel,     \* the form mounted, or NoPanel
    writes,    \* the creations and saves under way, of this panel and of former ones
    rows,      \* the server's records
    typed      \* every edit: where it was typed

formVars == <<panel, writes, rows, typed>>

(* The sections: where the record comes from (a list of the loan's, the    *)
(* loan's own record, useLoanDetail, nowhere), what it is saved by (its    *)
(* id, the loan, nothing), whether the page offers to create one, and its  *)
(* kinds of fields. A plain field is stored as typed; reviewed_by and      *)
(* cleared_by are not in the update schemas and are ignored; the rate is   *)
(* stored rounded; a field of the co-borrower goes with that borrower, one *)
(* of a borrower just added is not among those saved; a local one has no   *)
(* endpoint.                                                               *)
AppraisalForm == [from |-> "list", by |-> "id", create |-> TRUE, fields |-> {"plain", "ignored"}]
TitleForm == [from |-> "list", by |-> "id", create |-> TRUE, fields |-> {"plain", "ignored"}]
PropertyForm == [from |-> "list", by |-> "id", create |-> FALSE, fields |-> {"plain"}]
EscrowForm == [from |-> "loan", by |-> "loan", create |-> TRUE, fields |-> {"plain"}]
TermsForm == [from |-> "detail", by |-> "loan", create |-> FALSE, fields |-> {"plain", "rate"}]
UrlaForm == [from |-> "detail", by |-> "id", create |-> FALSE, fields |-> {"plain", "co", "added", "local"}]
IncomeForm == [from |-> "detail", by |-> "none", create |-> FALSE, fields |-> {"local"}]
ProcessingForm == [from |-> "nowhere", by |-> "none", create |-> FALSE, fields |-> {"local"}]
UnderwritingForm == ProcessingForm

Sections ==
    [appraisal |-> AppraisalForm, title |-> TitleForm, property |-> PropertyForm, escrow |-> EscrowForm,
     terms |-> TermsForm, urla |-> UrlaForm, income |-> IncomeForm,
     processing |-> ProcessingForm, underwriting |-> UnderwritingForm]
FormKinds == DOMAIN Sections
From(k) == Sections[k].from
By(k) == Sections[k].by

Taken(form) == {e \in form : typed[e].field \in {"plain", "co"}}

NotRead == [at |-> 0, form |-> {0}]
NoRow == [at |-> 0, form |-> {}]
NoPanel == [kind |-> "none"]

RowsOf(k, l) == {n \in DOMAIN rows : rows[n].kind = k /\ rows[n].loan = l}

(* The record a load finds: the newest, which is the primary one.          *)
Found(k, l) ==
    IF RowsOf(k, l) = {} THEN NoRow
    ELSE LET n == Max(RowsOf(k, l)) IN [at |-> n, form |-> rows[n].form]

StoredAtFirst(ls) ==
    {[kind |-> k, loan |-> l, form |-> {}, co |-> TRUE] : k \in limit.sections \cap FormKinds, l \in ls}

FormsInit ==
    /\ panel = NoPanel /\ writes = {} /\ typed = <<>>
    /\ \E ls \in SUBSET Loan : rows = SetToSeq(StoredAtFirst(ls))

(* The loans a mounted form has to do with. *)
Involved ==
    {panel.loan} \cup {typed[e].loan : e \in panel.form \cup panel.saved}
        \cup (IF panel.row = 0 THEN {} ELSE {rows[panel.row].loan})

---------------------------------------------------------------------------
(* Mounting, and the loan changing under a mounted form: its effect runs   *)
(* again and the former load is cancelled. A detail-loaded form goes on    *)
(* being shown meanwhile, an error of it for good.                         *)
Fresh(k, l) ==
    [kind |-> k, mount |-> mounts + 1, loan |-> l, load |-> IF From(k) = "nowhere" THEN "done" ELSE "first",
     read |-> NotRead, row |-> 0, form |-> {}, saved |-> {}, busy |-> FALSE, added |-> FALSE]

Switched(l) ==
    [panel EXCEPT !.loan = l, !.read = NotRead,
                  !.load = IF @ = "done" /\ From(panel.kind) # "nowhere" THEN "again" ELSE @]

Pending(p) == {w \in writes : p # NoPanel /\ w.mount = p.mount}

Remount ==
    LET stay == panel # NoPanel /\ shown' # NoLoan /\ route'.section = panel.kind
    IN  /\ panel' = IF stay THEN (IF shown' = panel.loan THEN panel ELSE Switched(shown'))
                    ELSE IF shown' # NoLoan /\ route'.section \in FormKinds
                         THEN Fresh(route'.section, shown')
                    ELSE NoPanel
        /\ UNCHANGED <<writes, rows, typed>>

---------------------------------------------------------------------------
(* Loading                                                                 *)

Loading == panel # NoPanel /\ panel.load \in {"first", "again"}

LoadRead ==
    /\ Loading /\ panel.read = NotRead
    /\ panel' = [panel EXCEPT !.read = Found(panel.kind, panel.loan)]
    /\ UNCHANGED <<pageVars, writes, rows, typed, causes>>

(* What a load leaves in the form. A list-loaded form without a record     *)
(* keeps what it had, id and all, and so does income without financials;   *)
(* so do the terms when there were none before either; escrow goes by      *)
(* whether there is one; the URLA form starts empty on every loan.         *)
LoadedFormKeepsEdits(r) == [panel EXCEPT !.load = "done", !.row = r.at]
LoadedForm(r) ==
    LET p == [panel EXCEPT !.load = "done"]
    IN  CASE p.kind = "urla" -> [p EXCEPT !.row = r.at, !.form = {}, !.saved = {}]
          [] p.kind = "terms" /\ r.at # p.row -> [p EXCEPT !.row = r.at, !.form = r.form, !.saved = r.form]
          [] p.kind = "escrow" /\ r.at = 0 -> [p EXCEPT !.row = 0]
          [] OTHER -> IF r.at = 0 THEN p
                      ELSE [p EXCEPT !.row = r.at, !.form = r.form, !.saved = r.form]

LoadAnswered ==
    /\ Loading /\ panel.read # NotRead
    /\ panel' = LoadedForm(panel.read)
    /\ causes' = IF panel.read.at = 0 /\ (panel.row # 0 \/ panel.form \cup panel.saved # {})
                 THEN Blame(Involved, "empty") ELSE causes
    /\ UNCHANGED <<pageVars, writes, rows, typed>>

(* A load that fails: a list-loaded form stays as it was, without a word;  *)
(* escrow takes it for no record; the others show the error from then on.  *)
LoadFails ==
    /\ Loading /\ fails < limit.fails /\ fails' = fails + 1
    /\ panel' = [panel EXCEPT !.load = IF From(panel.kind) = "detail" THEN "error" ELSE "done",
                              !.row = IF panel.kind = "escrow" THEN 0 ELSE @]
    /\ causes' = Blame(Involved, "failed")
    /\ UNCHANGED <<route, shown, asked, mounts, limit, moves, writes, rows, typed>>

---------------------------------------------------------------------------
(* Typing                                                                  *)

(* The fields are there: for escrow, appraisal and title once there is a   *)
(* record, for detail-loaded forms once one was loaded.                    *)
Editable ==
    /\ panel # NoPanel
    /\ IF From(panel.kind) = "detail" THEN panel.load \in {"again", "done"}
       ELSE panel.load = "done" /\ (Sections[panel.kind].create => panel.row # 0)

Type ==
    /\ Editable /\ Len(typed) < limit.edits
    /\ \E f \in Sections[panel.kind].fields \cap limit.fields :
         /\ f = "added" => panel.added
         /\ panel.kind = "urla" /\ panel.row = 0 => f = "added"
         /\ typed' = Append(typed, [loan |-> shown, field |-> f])
    /\ panel' = [panel EXCEPT !.form = @ \cup {Len(typed) + 1}]
    /\ causes' = IF panel.load = "again" THEN Blame(Involved \cup {shown}, "early") ELSE causes
    /\ UNCHANGED <<pageVars, writes, rows>>

Dirty == panel # NoPanel /\ panel.form # panel.saved
SaveBar == Dirty /\ ~panel.busy /\ (From(panel.kind) = "detail" => panel.load \notin {"first", "error"})

CancelEdits ==
    /\ SaveBar /\ Click
    /\ panel' = [panel EXCEPT !.form = panel.saved]
    /\ UNCHANGED <<route, shown, asked, mounts, limit, fails, writes, rows, typed, causes>>

---------------------------------------------------------------------------
(* Creating and saving                                                     *)

Write(op) ==
    [op |-> op, mount |-> panel.mount, kind |-> panel.kind, loan |-> panel.loan,
     row |-> panel.row, form |-> panel.form, done |-> FALSE]

NewRow(k, l) == [kind |-> k, loan |-> l, form |-> {}, co |-> TRUE]

(* handleCreate: offered when there is no record. *)
CreateRecord ==
    /\ panel # NoPanel /\ Sections[panel.kind].create /\ panel.load = "done"
    /\ panel.row = 0 /\ Click
    /\ \A w \in Pending(panel) : w.op # "create"
    /\ writes' = writes \cup {Write("create")}
    /\ UNCHANGED <<route, shown, asked, mounts, limit, fails, panel, rows, typed, causes>>

(* Another user's handleCreate, in another browser and on a page loaded    *)
(* whenever: no handler looks for a record that is there already.          *)
CreatedElsewhere ==
    /\ "shared" \in limit.fields /\ Click
    /\ \E k \in {"appraisal", "title"} \cap limit.sections, l \in Loan :
         /\ rows' = Append(rows, NewRow(k, l))
         /\ causes' = Blame({l}, "shared")
    /\ UNCHANGED <<route, shown, asked, mounts, limit, fails, panel, writes, typed>>

(* handleSave: the whole form as it is now, to the record by its id or to  *)
(* the loan. A form without a record has nothing to save to.               *)
SaveForm ==
    /\ SaveBar /\ Click
    /\ From(panel.kind) = "list" => panel.row # 0
    /\ writes' = writes \cup {Write("save")}
    /\ panel' = [panel EXCEPT !.busy = TRUE]
    /\ causes' = IF panel.load = "again" THEN Blame(Involved, "early") ELSE causes
    /\ UNCHANGED <<route, shown, asked, mounts, limit, fails, rows, typed>>

(* handleAddBorrower and handleRemoveBorrower of the URLA form. *)
ChangeBorrowers ==
    /\ panel.kind = "urla" /\ panel.load = "done" /\ Click
    /\ \E op \in {"add", "remove"} :
         /\ op \in limit.fields /\ \A w \in Pending(panel) : w.op # op
         /\ op = "remove" => panel.row # 0
         /\ writes' = writes \cup {Write(op)}
    /\ UNCHANGED <<route, shown, asked, mounts, limit, fails, panel, rows, typed, causes>>

Storable(w) ==
    {e \in Taken(w.form) : typed[e].field = "co" => w.row # 0 /\ rows[w.row].co}

(* What the server does with a write. PUT /escrow wants the loan in its    *)
(* body too, which the form does not send: it is refused. The URLA form    *)
(* sends a patch for each borrower it loaded: those of a removed one are   *)
(* refused.                                                                *)
Refused(w) ==
    w.kind = "escrow" \/ (w.op = "save" /\ Storable(w) # Taken(w.form))

Target(w) == IF By(w.kind) = "id" THEN w.row ELSE Found(w.kind, w.loan).at

Put(w, part) ==
    LET n == Target(w)
    IN  IF By(w.kind) = "none" \/ (w.kind = "urla" /\ n = 0) THEN rows
        ELSE IF n = 0 THEN Append(rows, [kind |-> w.kind, loan |-> w.loan, form |-> part, co |-> TRUE])
        ELSE [rows EXCEPT ![n].form = IF w.kind = "urla" THEN @ \cup part ELSE part]

Executed(w) ==
    CASE w.op = "create" -> Append(rows, NewRow(w.kind, w.loan))
      [] w.op = "save"   -> Put(w, Taken(w.form))
      [] w.op = "remove" -> [rows EXCEPT ![w.row].co = FALSE]
      [] OTHER           -> rows

WriteRuns(w) ==
    /\ ~w.done /\ ~Refused(w)
    /\ rows' = Executed(w)
    /\ writes' = (writes \ {w}) \cup {[w EXCEPT !.done = TRUE, !.row = IF w.op = "create" THEN Len(rows) + 1 ELSE @]}
    /\ UNCHANGED <<pageVars, panel, typed, causes>>

Ours(w) == panel # NoPanel /\ panel.mount = w.mount

SaveAnsweredUnsent(w) == [panel EXCEPT !.saved = panel.form, !.busy = FALSE]

(* The answer of a save: what was sent is now what is saved, typing since  *)
(* then stays.                                                             *)
SaveAnswered(w) == [panel EXCEPT !.saved = w.form, !.busy = FALSE]

AnsweredWithoutId(w) ==
    IF w.op = "save" THEN SaveAnswered(w) ELSE [panel EXCEPT !.form = {}, !.saved = {}]
Answered(w) ==
    CASE w.op = "create" -> [panel EXCEPT !.row = w.row, !.form = {}, !.saved = {}]
      [] w.op = "save"   -> SaveAnswered(w)
      [] OTHER           -> [panel EXCEPT !.added = TRUE]

WriteAnswered(w) ==
    /\ w.done /\ w.op # "remove"
    /\ writes' = writes \ {w}
    /\ panel' = IF Ours(w) THEN Answered(w) ELSE panel
    /\ causes' = IF Ours(w) /\ panel.loan # w.loan THEN Blame(Involved \cup {w.loan}, "late") ELSE causes
    /\ UNCHANGED <<pageVars, rows, typed>>

(* A write that fails, before or after the server ran it; a removal always *)
(* does, since its 204 has no body to parse. Of the patches of a URLA save *)
(* some may have been stored.                                              *)
WriteFails(w) ==
    /\ IF Refused(w) \/ (w.done /\ w.op = "remove") THEN UNCHANGED fails
       ELSE By(w.kind) # "none" /\ fails < limit.fails /\ fails' = fails + 1
    /\ \/ UNCHANGED rows
       \/ /\ ~w.done /\ w.kind = "urla" /\ w.op = "save"
          /\ \E part \in SUBSET Storable(w) : rows' = Put(w, part)
    /\ writes' = writes \ {w}
    /\ panel' = IF Ours(w) /\ w.op = "save" THEN [panel EXCEPT !.busy = FALSE] ELSE panel
    /\ causes' = IF w.done \/ rows' # rows THEN Blame({w.loan}, "unanswered") ELSE causes
    /\ UNCHANGED <<route, shown, asked, mounts, limit, moves, typed>>

FormUser == Type \/ CancelEdits \/ CreateRecord \/ SaveForm \/ ChangeBorrowers
FormBackground ==
    LoadRead \/ LoadAnswered \/ \E w \in writes : WriteRuns(w) \/ WriteAnswered(w) \/ WriteFails(w)
===========================================================================
