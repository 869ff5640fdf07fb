----------------------------- MODULE MCStepTest -----------------------------
(* StepTest for TLC. *)
EXTENDS StepTest

\* Samples a second apart, and one that comes late.
MCGaps == {1, 2}
\* A session that holds a CPU cap above the floor.
MCPairs == {[cpu |-> 2, gpu |-> 1]}
=============================================================================
