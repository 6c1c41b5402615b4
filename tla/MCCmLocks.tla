----------------------------- MODULE MCCmLocks -----------------------------
(***************************************************************************)
(* CmLocks on small instances: two users who can act on each other's locks *)
(* and two sessions that overlap in every way.                             *)
(***************************************************************************)
EXTENDS CmLocks, TLC

CONSTANTS low, high, nofico

\* The loan's FICO score is in one of two bands, or missing.
Inputs == {low, high, nofico}
LowOrNone == {low, nofico}
Priced == {low, high}
OneInput == {low}

\* Every change between these crosses a band or makes the score come or go.
BandCrossings == {p \in LoanData \X LoanData : p[1] # p[2]}

Sym ==
  Permutations(User) \cup Permutations(Worker) \cup Permutations(Loan)
    \cup Permutations(Priceable)

=============================================================================
