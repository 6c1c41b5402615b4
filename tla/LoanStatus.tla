----------------------------- MODULE LoanStatus -----------------------------
(***************************************************************************)
(* The status of loan files: the status column of loans, the history in    *)
(* loan_status_events, the domain events of the moves, and the requests of *)
(* concurrent users that write them.                                       *)
(*                                                                         *)
(* A request is a database transaction under READ COMMITTED that locks     *)
(* nothing it reads: Arrive starts it, to look up the user, Begin... loads *)
(* the loan and checks its status, ReadGate and ReadCount read what the    *)
(* handler looks at next, Commit... writes the new status, over whatever   *)
(* it has become meanwhile, if it differs from the one loaded.  Every      *)
(* handler touches the row, or inserts a row that references it, so none   *)
(* commits on a loan deleted meanwhile.  Numbers that clients give to      *)
(* loans themselves are left out.                                          *)
(*                                                                         *)
(* The history is read in the order of occurred_at, which is now(), the    *)
(* start of the transaction that wrote the entry, whenever that committed. *)
(* Starts are numbered from 1 for each loan, and 0 is that of its creation.*)
(*                                                                         *)
(* The funding gate reads the exceptions of the loan.  Here they are the   *)
(* environment's: the variable blocked, the loans that have a required     *)
(* condition pending.  Underwriting puts the exceptions in its place.      *)
(***************************************************************************)
EXTENDS Naturals, FiniteSets

CONSTANTS
  Loan,        \* loan files, before and after they exist
  Session,     \* database sessions that can be open at once
  Overrides,   \* the statuses that clients set directly, by PATCH or POST
  MaxStarts,   \* bound: starts of requests on one loan
  Null         \* SQL NULL

ASSUME LoanAssumption == IsFiniteSet(Loan)
ASSUME StartsAssumption == MaxStarts \in Nat

VARIABLES
  loans,       \* status and number of each loan
  history,     \* loan_status_events of each loan
  outbox,      \* the domain events of each loan
  req,         \* the open request of each session
  blocked      \* the loans with a pending required condition

tables == <<loans, history, outbox>>
vars == <<loans, history, outbox, req, blocked>>

-----------------------------------------------------------------------------
(* The workflow.                                                           *)

Status ==
  {"new_draft", "submitted", "conditions_review", "approved_pending",
   "approved", "funded", "closed", "post_closing", "denied", "withdrawn",
   "cancelled", "archived"}

Workflow ==
  [new_draft |-> {"submitted", "withdrawn", "cancelled"},
   submitted |-> {"conditions_review", "denied", "withdrawn", "cancelled"},
   conditions_review |->
     {"approved_pending", "approved", "denied", "withdrawn", "cancelled"},
   approved_pending |-> {"approved", "denied", "withdrawn", "cancelled"},
   approved |-> {"funded", "denied", "withdrawn", "cancelled"},
   funded |-> {"closed", "post_closing"},
   closed |-> {"post_closing", "archived"},
   post_closing |-> {"archived"},
   denied |-> {}, withdrawn |-> {}, cancelled |-> {}, archived |-> {}]

\* Mutant: an approved loan can be closed before it is funded.
AllowedFromClosing(s) ==
  Workflow[s] \cup IF s = "approved" THEN {"closed"} ELSE {}

\* ALLOWED_TRANSITIONS.
AllowedFrom(s) == Workflow[s]

\* archive_loan refuses these.
Unarchivable == {"funded", "closed", "post_closing"}

ASSUME OverridesAssumption == Overrides \subseteq Status
ASSUME NullAssumption == Null \notin Status

-----------------------------------------------------------------------------
(* Rows and requests.                                                      *)

\* Number n stands for OR-(1000 + n), and 0 for NULL.
Row == [status: Status \cup {"none", "deleted"}, number: 0 .. Cardinality(Loan)]

NoRow == [status |-> "none", number |-> 0]

\* at is when the request of the entry started, late a ghost: the request
\* loaded the loan after one that started no earlier had committed.
Entry == [from: Status \cup {Null}, to: Status, at: 0 .. MaxStarts,
          late: BOOLEAN]

\* The to_status of an event, and the start of its request, which names it.
\* The event's own stamp is the time of the call that emits it.
Event == [to: Status, at: 0 .. MaxStarts]

Op == {"none", "transition", "submit", "post", "patch", "archive", "delete"}

Request ==
  [pc: {"idle", "open", "loaded", "ready"}, op: Op, loan: Loan \cup {Null},
   from: Status \cup {Null}, to: Status \cup {Null},
   number: 0 .. Cardinality(Loan), at: 0 .. MaxStarts, late: BOOLEAN]

NoRequest ==
  [pc |-> "idle", op |-> "none", loan |-> Null, from |-> Null, to |-> Null,
   number |-> 0, at |-> 0, late |-> FALSE]

Exists(l) == loans[l].status \in Status

\* Mutant: the count includes the loan to come.
LoanCountOfNext == 1 + Cardinality({l \in Loan : Exists(l)})

\* The rows a tenant counts.
LoanCount == Cardinality({l \in Loan : Exists(l)})

TablesInit ==
  /\ loans = [l \in Loan |-> NoRow]
  /\ history = [l \in Loan |-> {}]
  /\ outbox = [l \in Loan |-> {}]
  /\ req = [w \in Session |-> NoRequest]

Init == TablesInit /\ blocked = {}

Idle(w) == req[w].pc = "idle"

Ready(w, op) == req[w].pc = "ready" /\ req[w].op = op

\* The starts of what was written and of what is under way on loan l.
Starts(l) ==
  {0} \cup {e.at : e \in history[l]} \cup
  {req[v].at : v \in {v \in Session : req[v].loan = l}}

\* A request on loan l arrives: get_current_user opens its transaction.
Arrive(w, l, n) ==
  /\ Idle(w)
  /\ Exists(l)
  /\ n - 1 \in Starts(l)
  /\ \A m \in Starts(l) : m < n
  /\ req' = [req EXCEPT ![w].pc = "open", ![w].loan = l, ![w].at = n]
  /\ UNCHANGED tables

Begin(w, l, op, to, pc) ==
  /\ req[w].pc = "open"
  /\ req[w].loan = l
  /\ Exists(l)
  /\ req' = [req EXCEPT ![w] =
               [pc |-> pc, op |-> op, loan |-> l, from |-> loans[l].status,
                to |-> to, number |-> loans[l].number, at |-> req[w].at,
                late |-> \E e \in history[l] : e.at >= req[w].at]]
  /\ UNCHANGED tables

\* The UPDATE of a request that loaded status s and sets status t.
Moved(row, s, t) == [row EXCEPT !.status = IF s = t THEN @ ELSE t]

\* The entry of a request.
EntryOf(r) == [from |-> r.from, to |-> r.to, at |-> r.at, late |-> r.late]

\* Mutant: the entry is skipped when the status has moved on.
LoggedIfCurrent(w) ==
  IF loans[req[w].loan].status = req[w].from
  THEN [history EXCEPT ![req[w].loan] = @ \cup {EntryOf(req[w])}]
  ELSE history

Logged(w) == [history EXCEPT ![req[w].loan] = @ \cup {EntryOf(req[w])}]

\* emit_event.
Emitted(w) ==
  [outbox EXCEPT ![req[w].loan] = @ \cup {[to |-> req[w].to, at |-> req[w].at]}]

\* The commit of session w: loan l gets row and its log and events, and its
\* number must satisfy idx_loans_tenant_loan_number.
Commit(w, l, row, log, events) ==
  /\ Exists(l)
  /\ row.number # 0 =>
       \A k \in Loan \ {l} : Exists(k) => loans[k].number # row.number
  /\ loans' = [loans EXCEPT ![l] = row]
  /\ history' = log
  /\ outbox' = events
  /\ req' = [req EXCEPT ![w] = NoRequest]

\* A request ends without commit: refused by a check or by the database, its
\* connection lost, the server down.
Rollback(w) ==
  /\ ~ Idle(w)
  /\ req' = [req EXCEPT ![w] = NoRequest]
  /\ UNCHANGED tables

-----------------------------------------------------------------------------
(* POST /loans: create_loan.  The client chooses the status, the first     *)
(* entry of the history does not follow it.                                *)

CreateLoan(l, s) ==
  /\ loans[l].status = "none"
  /\ s \in {"new_draft"} \cup Overrides
  /\ loans' = [loans EXCEPT ![l].status = s]
  /\ history' = [history EXCEPT ![l] = {EntryOf([from |-> Null,
                     to |-> "new_draft", at |-> 0, late |-> FALSE])}]
  /\ UNCHANGED <<outbox, req>>

-----------------------------------------------------------------------------
(* POST /loans/{id}/status/transition: transition_status.                  *)

BeginTransition(w, l, t) ==
  /\ Exists(l)
  /\ t \in AllowedFrom(loans[l].status)
  /\ Begin(w, l, "transition", t, IF t = "funded" THEN "loaded" ELSE "ready")

\* Mutant: the gate is not asked.
ReadGateUnchecked(w) ==
  /\ req[w].pc = "loaded"
  /\ req[w].op = "transition"
  /\ req' = [req EXCEPT ![w].pc = "ready"]
  /\ UNCHANGED tables

\* The funding gate: no required condition of the loan is pending.
ReadGate(w) ==
  /\ req[w].pc = "loaded"
  /\ req[w].op = "transition"
  /\ req[w].loan \notin blocked
  /\ req' = [req EXCEPT ![w].pc = "ready"]
  /\ UNCHANGED tables

CommitTransition(w) ==
  LET r == req[w]
      l == r.loan
  IN  /\ Ready(w, "transition")
      /\ Commit(w, l, Moved(loans[l], r.from, r.to),
                Logged(w), Emitted(w))

-----------------------------------------------------------------------------
(* POST /loans/{id}/submit: submit_loan.                                   *)

BeginSubmit(w, l) ==
  /\ loans[l].status = "new_draft"
  /\ Begin(w, l, "submit", "submitted", "loaded")

\* A loan that was loaded without a number gets the number of loans for one.
\* A draft that has one, put back by a client, keeps it.
ReadCount(w) ==
  /\ req[w].pc = "loaded"
  /\ req[w].op = "submit"
  /\ req' = [req EXCEPT ![w].pc = "ready",
                        ![w].number = IF @ = 0 THEN LoanCount ELSE 0]
  /\ UNCHANGED tables

\* Mutant: no domain event of a submission.
SubmissionEventsNone(w) == outbox

SubmissionEvents(w) == Emitted(w)

CommitSubmit(w) ==
  LET r == req[w]
      l == r.loan
      row == Moved(loans[l], r.from, "submitted")
  IN  /\ Ready(w, "submit")
      /\ Commit(w, l,
                [row EXCEPT !.number = IF r.number = 0 THEN @ ELSE r.number],
                Logged(w), SubmissionEvents(w))

-----------------------------------------------------------------------------
(* The handlers that set a status without the workflow.                    *)

\* POST /loans/{id}/status-events: create_status_event.
BeginPost(w, l, t) ==
  /\ t \in Overrides
  /\ Begin(w, l, "post", t, "ready")

CommitPost(w) ==
  LET r == req[w]
      l == r.loan
  IN  /\ Ready(w, "post")
      /\ Commit(w, l, Moved(loans[l], r.from, r.to), Logged(w), outbox)

\* PATCH /loans/{id}: update_loan with a status in the payload.
BeginPatch(w, l, t) ==
  /\ t \in Overrides
  /\ Begin(w, l, "patch", t, "ready")

\* PATCH /loans/{id}/archive: archive_loan.
BeginArchive(w, l) ==
  /\ loans[l].status \notin Unarchivable
  /\ Begin(w, l, "archive", "archived", "ready")

CommitUnlogged(w) ==
  LET r == req[w]
      l == r.loan
  IN  /\ Ready(w, "patch") \/ Ready(w, "archive")
      /\ Commit(w, l, Moved(loans[l], r.from, r.to), history, outbox)

\* DELETE /loans/{id}: delete_loan.  The history goes with the row.
BeginDelete(w, l) == Begin(w, l, "delete", Null, "ready")

CommitDelete(w) ==
  LET l == req[w].loan
  IN  /\ Ready(w, "delete")
      /\ Commit(w, l, [status |-> "deleted", number |-> 0],
                [history EXCEPT ![l] = {}], outbox)

-----------------------------------------------------------------------------
\* The handlers' first steps, on loan l by session w, for each client input.
Handler(w, l) ==
  \/ \E n \in 1 .. MaxStarts : Arrive(w, l, n)
  \/ \E t \in Status : BeginTransition(w, l, t)
  \/ BeginSubmit(w, l)
  \/ \E t \in Overrides : BeginPost(w, l, t) \/ BeginPatch(w, l, t)
  \/ BeginArchive(w, l)
  \/ BeginDelete(w, l)

Step(w) ==
  \/ ReadGate(w) \/ ReadCount(w)
  \/ CommitTransition(w) \/ CommitSubmit(w) \/ CommitPost(w)
  \/ CommitUnlogged(w)
  \/ Rollback(w)

\* The conditions of the loans' exceptions come and go.
Environment(B) ==
  /\ \A l \in B : Exists(l)
  /\ blocked' = B
  /\ UNCHANGED <<tables, req>>

\* The exceptions of a deleted loan go with it.
Next ==
  \/ \E l \in Loan, s \in Status : CreateLoan(l, s) /\ UNCHANGED blocked
  \/ \E w \in Session, l \in Loan : Handler(w, l) /\ UNCHANGED blocked
  \/ \E w \in Session : Step(w) /\ UNCHANGED blocked
  \/ \E w \in Session : CommitDelete(w) /\ blocked' = blocked \ {req[w].loan}
  \/ \E B \in SUBSET Loan : Environment(B)

Spec == Init /\ [][Next]_vars

-----------------------------------------------------------------------------
(* Properties.                                                             *)

\* Rows, histories, events and requests have the shapes of the schema.
TypeOK ==
  /\ loans \in [Loan -> Row]
  /\ history \in [Loan -> SUBSET Entry]
  /\ outbox \in [Loan -> SUBSET Event]
  /\ req \in [Session -> Request]
  /\ blocked \subseteq Loan

\* The history, read by occurred_at as the API serves it, can be followed from
\* the draft on, whatever requests overlap: every entry after the first leaves
\* a status that an entry before it entered, or one that is set without an
\* entry, by a client or by archive_loan, unless its request loaded the loan
\* after one that started no earlier had committed.
HistoryConnected ==
  \A l \in Loan :
    \A e \in history[l] :
      \/ e.from \in {Null, "archived"} \cup Overrides
      \/ e.late
      \/ \E f \in history[l] : f.at < e.at /\ f.to = e.from

\* Nothing gets past funding unfunded: a loan that is funded, closed or in
\* post-closing has an entry in its history that says that it was funded,
\* unless a client set such a status directly.
ThroughFunding ==
  \A l \in Loan :
    loans[l].status \in Unarchivable /\ Overrides \cap Unarchivable = {} =>
      \E e \in history[l] : e.to = "funded"

\* The moves among the events of the outbox, or the entries of a history: all
\* but the creation and what clients may have posted.
Moves(S) == {[to |-> e.to, at |-> e.at] : e \in {e \in S : e.to \notin Overrides}}

\* The consumers of the outbox hear of each move in the history of a loan, and
\* of no other: the transactions that wrote the one wrote the other.
Announced ==
  \A l \in Loan :
    Exists(l) => Moves(outbox[l]) = Moves({e \in history[l] : e.from # Null})

\* What submit_loan says it requires is enough: a draft can be submitted
\* once its session is done counting, if nothing else happens.
DraftsSubmittable ==
  \A w \in Session :
    Ready(w, "submit") /\ loans[req[w].loan].status = "new_draft" =>
      \A l \in Loan \ {req[w].loan} :
        Exists(l) => loans[l].number # req[w].number

=============================================================================
