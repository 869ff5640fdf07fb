------------------------------ MODULE MCShutdown ------------------------------
(* Small instances of Shutdown: one queued command besides Quit and one    *)
(* queued sample, with every fault but a hanging terminal.                 *)
EXTENDS Shutdown, TLC

Hardware == {"controller", "sampler"}
Threads  == {"main", "controller"}
Releases == {"unlock", "toggle", "toggleBack"}
===============================================================================
