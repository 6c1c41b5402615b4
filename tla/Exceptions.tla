----------------------------- MODULE Exceptions -----------------------------
(***************************************************************************)
(* Underwriting exceptions: requests to depart from a guideline, the       *)
(* decisions on them, the conditions that decisions impose, and the link   *)
(* of an exception that was decided before there was a loan file.          *)
(*                                                                         *)
(* As in LoanStatus a request is a transaction that locks nothing it       *)
(* reads: Begin... loads the rows and checks their status, Commit...       *)
(* writes.  Requests without authority to decide are refused, hence left   *)
(* out, and so are comments, documents and edits, which leave the status   *)
(* alone.  The loans are the environment's: the variable files.            *)
(*                                                                         *)
(* The log is read by occurred_at and the decisions by decided_at, which   *)
(* are stamped before the commit: when requests race, neither order says   *)
(* which of them wrote the row last.  So the log is kept as how many       *)
(* events of each type it has, and the number of a decision is only its    *)
(* name: no property looks at it.                                          *)
(***************************************************************************)
EXTENDS Naturals, Sequences, FiniteSets, Functions

CONSTANTS
  Loan,          \* loan files
  Exc,           \* exceptions, before and after they exist
  Reviewer,      \* database sessions that can be open at once
  Demand,        \* whether conditions are required: a set of Booleans
  MaxEvents,     \* bound: events of one exception
  MaxDecisions,  \* bound: decisions on one exception
  Null           \* SQL NULL

VARIABLES
  exceptions,    \* status, loan and decider of each exception
  decisions,     \* its decisions, numbered, each with its condition
  events,        \* how many events of each type its log has
  work,          \* the open request of each session
  files          \* the loans that exist

xtables == <<exceptions, decisions, events>>
xvars == <<exceptions, decisions, events, work, files>>

-----------------------------------------------------------------------------
(* Statuses, and the steps between them.  No handler sets draft,           *)
(* under_review or closed, nor expired for a condition.                    *)

\* _DECISION_STATUS_MAP.
DecisionStatus ==
  [as_requested |-> "approved",
   with_conditions |-> "approved_with_conditions",
   denied |-> "denied",
   information_requested |-> "additional_info_requested"]

\* _TERMINAL_DECISION_TYPES.
Terminal == {"as_requested", "with_conditions", "denied"}

Decided == {DecisionStatus[d] : d \in Terminal}

\* Mutant: a denial can be decided again.
DecidableAfterDenial ==
  {"open", "submitted", "assigned", "additional_info_requested", "denied"}

\* _DECIDABLE, without the statuses that nobody sets.
Decidable == {"open", "submitted", "assigned", "additional_info_requested"}

\* Mutant: an assigned exception is under review.
MovesUnderReview ==
  [exception_submitted |->
     [from |-> {"open", "additional_info_requested"}, to |-> "submitted"],
   exception_assigned |-> [from |-> {"submitted"}, to |-> "under_review"],
   withdrawn |-> [from |-> Decidable, to |-> "withdrawn"]]

\* The other handlers: the statuses they start from and the one they set.
Moves ==
  [exception_submitted |->
     [from |-> {"open", "additional_info_requested"}, to |-> "submitted"],
   exception_assigned |-> [from |-> {"submitted"}, to |-> "assigned"],
   withdrawn |-> [from |-> Decidable, to |-> "withdrawn"]]

Status == {"open", "withdrawn", "submitted", "assigned"} \cup
          {DecisionStatus[d] : d \in DOMAIN DecisionStatus}

\* The status that an event of the log announces.
Announces(ev) ==
  IF ev = "created" THEN "open"
  ELSE IF ev \in DOMAIN Moves THEN Moves[ev].to ELSE DecisionStatus[ev]

-----------------------------------------------------------------------------
(* Rows and requests.  A decision event stands under its decision's type.  *)

ExcRow == [status: Status \cup {"none", "deleted"}, loan: Loan \cup {Null},
           decided: BOOLEAN]

NoExc(s) == [status |-> s, loan |-> Null, decided |-> FALSE]

\* A decision imposes no condition, or one that is required or not.
ConditionStatus == {"none", "pending", "satisfied", "waived"}

Decision == [type: DOMAIN DecisionStatus, required: BOOLEAN,
             condition: ConditionStatus]

Event == {"created"} \cup DOMAIN Moves \cup DOMAIN DecisionStatus

NoEvents == [ev \in Event |-> 0]

Work == [op: Event \cup {"idle", "settle", "link", "delete"},
         exc: Exc \cup {Null}, seen: ExcRow, arg: Decision \cup Loan \cup
           [nr: Nat, to: ConditionStatus] \cup {Null}]

NoWork ==
  [op |-> "idle", exc |-> Null, seen |-> NoExc("none"), arg |-> Null]

Alive(e) == exceptions[e].status \in Status

\* The funding gate's query: a conditional approval of the loan has a required
\* condition pending.
Holds(e, l) ==
  /\ exceptions[e].loan = l
  /\ exceptions[e].status = "approved_with_conditions"
  /\ \E i \in DOMAIN decisions[e] :
       decisions[e][i].required /\ decisions[e][i].condition = "pending"

Pending(l) == \E e \in Exc : Holds(e, l)

XTablesInit ==
  /\ exceptions = [e \in Exc |-> NoExc("none")]
  /\ decisions = [e \in Exc |-> <<>>]
  /\ events = [e \in Exc |-> NoEvents]
  /\ work = [u \in Reviewer |-> NoWork]

Begin(u, e, op, arg) ==
  /\ work[u].op = "idle"
  /\ Alive(e)
  /\ work' = [work EXCEPT ![u] =
                [op |-> op, exc |-> e, seen |-> exceptions[e], arg |-> arg]]
  /\ UNCHANGED xtables

Done(u) == work' = [work EXCEPT ![u] = NoWork]

\* Mutant: the UPDATE writes the whole row as loaded and changed.
WrittenWhole(row, seen, status, decided) ==
  [seen EXCEPT !.status = status, !.decided = @ \/ decided]

\* The UPDATE of a row that was loaded as seen has the columns that differ: a
\* second request for information writes no status.
Written(row, seen, status, decided) ==
  [row EXCEPT !.status = IF status = seen.status THEN @ ELSE status,
              !.decided = @ \/ decided]

\* How many events the log of e has.
Length(e) == FoldFunction(LAMBDA n, m : n + m, 0, events[e])

\* Mutant: the entry is written when it is the first of its type.
LogEventOnce(e, ev) ==
  /\ Length(e) < MaxEvents
  /\ events' = [events EXCEPT ![e][ev] = 1]

\* The entry that a handler adds with log_event.
LogEvent(e, ev) ==
  /\ Length(e) < MaxEvents
  /\ events' = [events EXCEPT ![e][ev] = @ + 1]

-----------------------------------------------------------------------------
\* POST /exceptions: create_exception, for a loan or before there is one.
CreateException(e, l) ==
  /\ exceptions[e].status = "none"
  /\ l \in files \cup {Null}
  /\ exceptions' = [exceptions EXCEPT ![e] = [@ EXCEPT !.status = "open",
                                                       !.loan = l]]
  /\ events' = [events EXCEPT ![e]["created"] = 1]
  /\ UNCHANGED <<decisions, work>>

\* submit_exception, assign_exception and withdraw_exception.
BeginMove(u, e, ev) ==
  /\ exceptions[e].status \in Moves[ev].from
  /\ Begin(u, e, ev, Null)

CommitMove(u) ==
  LET r == work[u]
  IN  /\ r.op \in DOMAIN Moves
      /\ Alive(r.exc)
      /\ exceptions' = [exceptions EXCEPT
                          ![r.exc] = Written(@, r.seen, Moves[r.op].to, FALSE)]
      /\ LogEvent(r.exc, r.op)
      /\ Done(u)
      /\ UNCHANGED decisions

\* decide_exception; approve_exception and deny_exception wrap it.  The client
\* may add a condition to any type of decision.
BeginDecide(u, e, d) ==
  /\ exceptions[e].status \in Decidable
  /\ \/ d.condition = "none" /\ ~ d.required
     \/ d.condition = "pending" /\ d.required \in Demand
  /\ Begin(u, e, d.type, d)

CommitDecide(u) ==
  LET r == work[u]
      e == r.exc
      to == DecisionStatus[r.op]
  IN  /\ r.op \in DOMAIN DecisionStatus
      /\ Alive(e)
      /\ exceptions' = [exceptions EXCEPT
                          ![e] = Written(@, r.seen, to, r.op \in Terminal)]
      /\ Len(decisions[e]) < MaxDecisions
      /\ decisions' = [decisions EXCEPT ![e] = Append(@, r.arg)]
      /\ LogEvent(e, r.op)
      /\ Done(u)

\* satisfy_condition and waive_condition, whatever became of the exception.
BeginSettle(u, e, i, to) ==
  /\ to \in {"satisfied", "waived"}
  /\ decisions[e][i].condition = "pending"
  /\ Begin(u, e, "settle", [nr |-> i, to |-> to])

CommitSettle(u) ==
  LET r == work[u]
  IN  /\ r.op = "settle"
      /\ Alive(r.exc)
      /\ decisions' = [decisions EXCEPT ![r.exc][r.arg.nr].condition = r.arg.to]
      /\ Done(u)
      /\ UNCHANGED <<exceptions, events>>

\* link_exception_to_loan.
BeginLink(u, e, l) ==
  /\ exceptions[e].loan = Null
  /\ exceptions[e].status \in {"approved", "approved_with_conditions"}
  /\ l \in files
  /\ Begin(u, e, "link", l)

\* The event linked_to_loan announces no status.
CommitLink(u) ==
  LET r == work[u]
  IN  /\ r.op = "link"
      /\ Alive(r.exc)
      /\ r.arg \in files
      /\ exceptions' = [exceptions EXCEPT ![r.exc].loan = r.arg]
      /\ Done(u)
      /\ UNCHANGED <<decisions, events>>

\* DELETE /exceptions/{id}: delete_exception.
BeginDeleteException(u, e) == Begin(u, e, "delete", Null)

\* Decisions, conditions and events go with their exception.
Remove(gone) ==
  /\ exceptions' = [e \in Exc |->
       IF e \in gone THEN NoExc("deleted") ELSE exceptions[e]]
  /\ decisions' = [e \in Exc |-> IF e \in gone THEN <<>> ELSE decisions[e]]
  /\ events' = [e \in Exc |-> IF e \in gone THEN NoEvents ELSE events[e]]

CommitDeleteException(u) ==
  /\ work[u].op = "delete"
  /\ Alive(work[u].exc)
  /\ Remove({work[u].exc})
  /\ Done(u)

\* Refused, failed or lost before its commit.
Abandon(u) ==
  /\ work[u].op # "idle"
  /\ Done(u)
  /\ UNCHANGED xtables

-----------------------------------------------------------------------------
\* Mutant: the exceptions of a deleted loan stay, with the loan they had.
LoanGoneOrphans(l) == UNCHANGED xtables

\* A loan is deleted, and its exceptions with it.
LoanGone(l) == Remove({e \in Exc : exceptions[e].loan = l})

Review(u, e) ==
  \/ \E ev \in DOMAIN Moves : BeginMove(u, e, ev)
  \/ \E d \in Decision : BeginDecide(u, e, d)
  \/ \E i \in DOMAIN decisions[e], to \in ConditionStatus :
       BeginSettle(u, e, i, to)
  \/ \E l \in Loan : BeginLink(u, e, l)
  \/ BeginDeleteException(u, e)

ReviewCommit(u) ==
  \/ CommitMove(u) \/ CommitDecide(u) \/ CommitSettle(u)
  \/ CommitLink(u) \/ CommitDeleteException(u)

XStep ==
  \/ \E e \in Exc, l \in Loan \cup {Null} : CreateException(e, l)
  \/ \E u \in Reviewer :
       \/ \E e \in Exc : Review(u, e)
       \/ ReviewCommit(u)
       \/ Abandon(u)

\* The loans come and go.
XNext ==
  \/ XStep /\ UNCHANGED files
  \/ \E l \in files :
       LoanGone(l) /\ files' = files \ {l} /\ UNCHANGED work

XInit == XTablesInit /\ files = Loan

XSpec == XInit /\ [][XNext]_xvars

-----------------------------------------------------------------------------
(* Properties.                                                             *)

\* Rows, decisions, events and requests have the shapes of the schema.
XTypeOK ==
  /\ exceptions \in [Exc -> ExcRow]
  /\ decisions \in [Exc -> Seq(Decision)]
  /\ events \in [Exc -> [Event -> Nat]]
  /\ work \in [Reviewer -> Work]
  /\ files \subseteq Loan

\* The decisions of e of type d.
OfType(e, d) == {i \in DOMAIN decisions[e] : decisions[e][i].type = d}

\* The log accounts for the exception, whatever requests raced: an event of it
\* announces the status, and it tells of every decision once and of no other.
LogAccounts ==
  \A e \in Exc : Alive(e) =>
    /\ \E ev \in Event :
         events[e][ev] > 0 /\ Announces(ev) = exceptions[e].status
    /\ \A d \in DOMAIN DecisionStatus :
         events[e][d] = Cardinality(OfType(e, d))

\* An approved or denied exception is so by a verdict in its record, and one
\* with a verdict says that it was decided, whatever requests raced with it:
\* the columns of the verdict are not undone when the status is overwritten.
VerdictStands ==
  \A e \in Exc :
    /\ exceptions[e].decided <=> \E d \in Terminal : OfType(e, d) # {}
    /\ exceptions[e].status \in Decided =>
         \E d \in Terminal :
           OfType(e, d) # {} /\ exceptions[e].status = DecisionStatus[d]

\* Only a race undoes a decision: a decided exception gets another status, and
\* a linked one another loan, only by a request that loaded it before it was.
DecidedStays ==
  [][\A e \in Exc : exceptions'[e].status \in Status =>
       /\ exceptions[e].status \in Decided =>
            \/ exceptions'[e].status = exceptions[e].status
            \/ \E u \in Reviewer : /\ work[u].exc = e
                                   /\ work[u].seen.status \notin Decided
       /\ exceptions[e].loan # Null =>
            \/ exceptions'[e].loan = exceptions[e].loan
            \/ \E u \in Reviewer : /\ work[u].exc = e
                                   /\ work[u].seen.loan = Null]_xvars

=============================================================================
