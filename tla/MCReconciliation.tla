-------------------------- MODULE MCReconciliation --------------------------
(* Small instances of Reconciliation for TLC. *)
EXTENDS Reconciliation

CONSTANTS o1, o2, i1, i2
=============================================================================
