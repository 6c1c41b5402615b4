------------------------------ MODULE MCOutbox ------------------------------
(***************************************************************************)
(* Outbox on small instances.  Symmetry would not be sound for Drained.    *)
(***************************************************************************)
EXTENDS Outbox, TLC

=============================================================================
