---------------------------- MODULE MCExceptions ----------------------------
(***************************************************************************)
(* Exceptions on small instances.                                          *)
(***************************************************************************)
EXTENDS Exceptions, TLC

Sym == Permutations(Reviewer) \cup Permutations(Loan) \cup Permutations(Exc)

=============================================================================
