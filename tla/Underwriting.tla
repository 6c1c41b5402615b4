---------------------------- MODULE Underwriting ----------------------------
(***************************************************************************)
(* The status workflow and the exceptions of the loans together, joined by *)
(* the funding gate, which reads the conditions of the exceptions, and by  *)
(* the foreign key, by which a deleted loan takes its exceptions along.    *)
(***************************************************************************)
EXTENDS Naturals, Sequences, FiniteSets

CONSTANTS
  Loan, Exc,                         \* rows
  Session, Reviewer,                 \* requests on loans and on exceptions
  Overrides, Demand,                 \* what clients choose
  MaxStarts, MaxEvents, MaxDecisions,
  Null

VARIABLES
  loans, history, outbox, req,            \* of LoanStatus
  exceptions, decisions, events, work,    \* of Exceptions
  since        \* ghost: the exceptions on which a request committed that could
               \* block a loan, since each session was ready to commit

loanVars == <<loans, history, outbox, req>>
excVars == <<exceptions, decisions, events, work>>
uvars == <<loanVars, excVars, since>>

EX == INSTANCE Exceptions
        WITH files <- {l \in Loan : loans[l].status \notin {"none", "deleted"}}

\* What the funding gate finds.
Blocked == {l \in Loan : EX!Pending(l)}

LS == INSTANCE LoanStatus WITH blocked <- Blocked

ASSUME LoanAssumption == IsFiniteSet(Loan)
ASSUME NullAssumption == Null \notin Loan
ASSUME StartsAssumption == MaxStarts \in Nat
ASSUME OverridesAssumption == Overrides \subseteq LS!Status

UInit == LS!TablesInit /\ EX!XTablesInit /\ since = [w \in Session |-> {}]

LoanStep ==
  /\ \/ \E l \in Loan, s \in LS!Status : LS!CreateLoan(l, s)
     \/ \E w \in Session : \/ \E l \in Loan : LS!Handler(w, l)
                           \/ LS!Step(w)
  /\ since' = [w \in Session |-> IF req'[w].pc = "ready" THEN since[w] ELSE {}]
  /\ UNCHANGED excVars

DeleteLoan ==
  \E w \in Session :
    /\ LS!CommitDelete(w)
    /\ EX!LoanGone(req[w].loan)
    /\ UNCHANGED <<work, since>>

\* The exceptions on which this step commits a request that can block a loan:
\* a conditional approval, a request for information, which may come with a
\* condition and leaves the status alone, or the link to the loan.
Blocking ==
  {work[u].exc : u \in {u \in Reviewer :
     /\ work[u].op \in {"with_conditions", "information_requested", "link"}
     /\ work'[u] # work[u]
     /\ ~ UNCHANGED EX!xtables}}

ExceptionStep ==
  /\ EX!XStep
  /\ since' = [w \in Session |->
       IF req[w].pc = "ready" THEN since[w] \cup Blocking ELSE since[w]]
  /\ UNCHANGED loanVars

UNext == LoanStep \/ DeleteLoan \/ ExceptionStep

USpec == UInit /\ [][UNext]_uvars

-----------------------------------------------------------------------------
(* Properties.                                                             *)

\* All that gets past the gate is what it could not see: when a session is
\* about to fund a loan, each exception that has a required condition of it
\* pending was decided or linked since the gate was read.  No settlement,
\* submission, assignment, withdrawal or deletion blocks a loan, whatever its
\* request had loaded.
OnlyRacesPass ==
  \A w \in Session :
    LS!Ready(w, "transition") /\ req[w].to = "funded" =>
      \A e \in Exc : EX!Holds(e, req[w].loan) => e \in since[w]

\* The composition does to the loans what LoanStatus says, with an arbitrary
\* environment for the exceptions.
ImplementsStatus == LS!Spec

\* Conditions are settled before funding: no loan becomes funded that has a
\* required condition of a conditional approval pending.
FundedUnblocked ==
  [][\A l \in Loan :
       loans[l].status # "funded" /\ loans'[l].status = "funded" =>
         l \notin Blocked]_uvars

=============================================================================
