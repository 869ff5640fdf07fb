----------------------------- MODULE MCReadback -----------------------------
(* The streaks are given by each configuration: shortened ones where every *)
(* state is visited, those of the code where a run looks for one behaviour. *)
EXTENDS Readback
=============================================================================
