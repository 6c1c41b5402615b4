--------------------------- MODULE MCUnderwriting ---------------------------
(***************************************************************************)
(* Underwriting on small instances.                                        *)
(***************************************************************************)
EXTENDS Underwriting, TLC

Sym == Permutations(Loan) \cup Permutations(Exc)

=============================================================================
