------------------------------ MODULE Watchdog ------------------------------
(***************************************************************************)
(* The global thermal watchdog of src/control/watchdog.rs as a pure        *)
(* machine: its streaks, its latch, and what one sample does to them.      *)
(* The controller owns one and feeds it every sample in every mode.        *)
(***************************************************************************)
EXTENDS Naturals

CONSTANTS
  TripStreak,  \* consecutive hot samples that trip the watchdog (3)
  LostStreak   \* consecutive samples without a CPU temperature that trip it (10)

ASSUME WatchdogAssumption ==
  /\ TripStreak \in Nat \ {0}
  /\ LostStreak \in Nat \ {0}

\* A temperature as the watchdog sees it: absent, below its trip point, at or above.
Reading == {"invalid", "cool", "hot"}

\* What the watchdog reads of a sample: each device's valid flag and trip comparison.
Temperatures == [cpu : Reading, gpu : Reading]

Trips == {"None", "Thermal", "SensorLost"}

\* The streaks stop growing at their trip point: a tripped watchdog observes nothing.
WatchdogStates == [hot : 0..TripStreak, lost : 0..LostStreak, tripped : BOOLEAN]

\* ThermalWatchdog::new, and what rearm leaves behind.
Armed == [hot |-> 0, lost |-> 0, tripped |-> FALSE]

HotSample(t) == t.cpu = "hot" \/ t.gpu = "hot"

\* Evidence of cooling; a sample in which both readings are invalid is no evidence.
CoolSample(t) == ~HotSample(t) /\ (t.cpu # "invalid" \/ t.gpu # "invalid")

\* The trip one sample causes: the lost streak is scored before the hot streak.
TripOf(wd, t) ==
  CASE wd.tripped -> "None"
    [] ~wd.tripped /\ t.cpu = "invalid" /\ wd.lost + 1 >= LostStreak -> "SensorLost"
    [] OTHER -> IF HotSample(t) /\ wd.hot + 1 >= TripStreak THEN "Thermal" ELSE "None"

\* Mutation: the latched watchdog goes on counting.
ObserveLatched(wd, t) ==
  [hot     |-> IF HotSample(t) THEN wd.hot + 1 ELSE IF CoolSample(t) THEN 0 ELSE wd.hot,
   lost    |-> IF t.cpu = "invalid" THEN wd.lost + 1 ELSE 0,
   tripped |-> wd.tripped \/ TripOf(wd, t) # "None"]

\* Mutation: a sample without any reading ends the hot streak.
ObserveForgetful(wd, t) ==
  IF wd.tripped THEN wd
  ELSE [hot     |-> IF HotSample(t) THEN wd.hot + 1 ELSE 0,
        lost    |-> IF t.cpu = "invalid" THEN wd.lost + 1 ELSE 0,
        tripped |-> TripOf(wd, t) # "None"]

\* The streaks and the latch after one sample; the SensorLost return skips the hot streak.
Observe(wd, t) ==
  IF wd.tripped THEN wd
  ELSE [hot     |-> CASE TripOf(wd, t) = "SensorLost" -> wd.hot
                      [] TripOf(wd, t) # "SensorLost" /\ HotSample(t) -> wd.hot + 1
                      [] TripOf(wd, t) # "SensorLost" /\ CoolSample(t) -> 0
                      [] OTHER -> wd.hot,
        lost    |-> IF t.cpu = "invalid" THEN wd.lost + 1 ELSE 0,
        tripped |-> TripOf(wd, t) # "None"]
=============================================================================
