--------------------------- MODULE MCTargetSource ---------------------------
(* TargetSource for TLC: a cool curve and a warm one. *)
EXTENDS TargetSource

MCKeys == {"cool", "warm"}
MCTreadOf == [k \in MCKeys |-> IF k = "cool" THEN 1 ELSE 3]
=============================================================================
