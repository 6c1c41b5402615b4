----------------------------- MODULE LoanPage -----------------------------
(***************************************************************************)
(* The page of a loan (pages/loans/[loanId].tsx, hooks/useLoans.ts,        *)
(* LoanWorkspaceShell.tsx): the address names a loan and a section; the    *)
(* loan's summary is asked for, and until it comes the page goes on        *)
(* showing the loan it had, in the section of the address. What is shown   *)
(* is not keyed by the loan: a section stays mounted when the loan under   *)
(* it changes.                                                             *)
(***************************************************************************)
EXTENDS Naturals, Sequences, FiniteSets

CONSTANTS
    Loan,     \* the loans
    NoLoan,   \* none: not found, or not here yet
    Limits    \* bounds of a behaviour: one record of them is chosen at the start

ASSUME PageAssumption ==
    /\ NoLoan \notin Loan /\ IsFiniteSet(Loan)
    /\ \A m \in Limits : m.moves \in Nat /\ m.fails \in Nat

VARIABLES
    route,     \* the loan and the section of the address
    shown,     \* useLoan's loan
    asked,     \* its request is under way
    mounts,    \* how many times a section was mounted
    limit,     \* bounds: moves, failures and what the sections add
    moves, fails,
    causes     \* for each loan, what happened to its sections that they do not survive

pageVars == <<route, shown, asked, mounts, limit, moves, fails>>

PageInit ==
    /\ limit \in Limits
    /\ \E l \in Loan, s \in limit.sections : route = [loan |-> l, section |-> s]
    /\ shown = NoLoan /\ asked = TRUE /\ mounts = 0 /\ moves = 0 /\ fails = 0
    /\ causes = [l \in Loan |-> {}]

Blame(ls, cause) == [l \in Loan |-> causes[l] \cup IF l \in ls THEN {cause} ELSE {}]

(* A click, of this user or of another one. *)
Click == moves < limit.moves /\ moves' = moves + 1

(* A link, back or forward: the address changes; another loan is asked for *)
(* and the former request cancelled.                                       *)
Navigate ==
    /\ Click
    /\ \E l \in Loan, s \in limit.sections :
         /\ <<l, s>> # <<route.loan, route.section>>
         /\ route' = [loan |-> l, section |-> s]
         /\ asked' = (asked \/ l # route.loan)
    /\ UNCHANGED <<shown, fails, limit>>

(* goTo, from the rail or the command bar: a section of the loan shown,    *)
(* which may not be the one just asked for.                                *)
GoTo ==
    /\ Click /\ shown # NoLoan
    /\ \E s \in limit.sections :
         /\ s # route.section
         /\ route' = [loan |-> shown, section |-> s]
         /\ asked' = (asked \/ shown # route.loan)
    /\ UNCHANGED <<shown, fails, limit>>

(* The summary comes, or cannot be had: getLoanById turns any failure into *)
(* "not found".                                                            *)
LoanArrives ==
    /\ asked /\ asked' = FALSE
    /\ shown' = route.loan
    /\ UNCHANGED <<route, moves, fails, limit>>

LoanNotFound ==
    /\ asked /\ asked' = FALSE
    /\ fails < limit.fails /\ fails' = fails + 1
    /\ shown' = NoLoan
    /\ UNCHANGED <<route, moves, limit>>
===========================================================================
