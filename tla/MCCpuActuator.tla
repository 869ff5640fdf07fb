--------------------------- MODULE MCCpuActuator ---------------------------
(* Three limits, one of which happens to equal stock. *)
EXTENDS CpuActuator
=============================================================================
