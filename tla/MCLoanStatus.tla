---------------------------- MODULE MCLoanStatus ----------------------------
(***************************************************************************)
(* LoanStatus on small instances.                                          *)
(***************************************************************************)
EXTENDS LoanStatus, TLC

Sym == Permutations(Session) \cup Permutations(Loan)

=============================================================================
