-------------------------- MODULE MCReconciliation --------------------------
(* Reconciliation for TLC. *)
EXTENDS Reconciliation
=============================================================================
