----------------------------- MODULE MCWatchdog -----------------------------
(* Streaks short enough that both complete, interleave and restart.        *)
EXTENDS WatchdogHistory
=============================================================================
