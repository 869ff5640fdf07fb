-------------------------- MODULE WatchdogHistory ---------------------------
(***************************************************************************)
(* The watchdog's counters against the definition they implement: a trip   *)
(* decided from the whole history of samples since the watchdog was last   *)
(* armed.  The history is kept in a variable the watchdog never reads.     *)
(***************************************************************************)
EXTENDS Watchdog, Sequences, FiniteSets

CONSTANT MaxHistory  \* bound on the samples observed between two re-arms

ASSUME HistoryAssumption == MaxHistory \in Nat

VARIABLES
  watchdog, \* its counters and latch
  history,  \* the samples it observed since it was armed, oldest first
  trip      \* what the last observe returned

historyVars == <<watchdog, history, trip>>

HistoryInit == watchdog = Armed /\ history = << >> /\ trip = "None"

ObserveSample(t) ==
  /\ Len(history) < MaxHistory
  /\ trip' = TripOf(watchdog, t)
  /\ watchdog' = Observe(watchdog, t)
  /\ history' = IF watchdog.tripped THEN history ELSE Append(history, t)

Rearm == watchdog' = Armed /\ history' = << >> /\ trip' = "None"

HistoryNext == Rearm \/ \E t \in Temperatures : ObserveSample(t)

HistorySpec == HistoryInit /\ [][HistoryNext]_historyVars

-----------------------------------------------------------------------------
\* The newest n samples are all in the set of indices Good.
LastAll(n, Good) == Len(history) >= n /\ \A i \in (Len(history) - n + 1)..Len(history) : i \in Good

NoCpu   == {i \in DOMAIN history : history[i].cpu = "invalid"}
HotOnes == {i \in DOMAIN history : HotSample(history[i])}
Cool    == {i \in DOMAIN history : CoolSample(history[i])}

\* The sensor is lost when the newest LostStreak samples all lack a CPU temperature.
LostByHistory == LastAll(LostStreak, NoCpu)

\* The hot samples with no evidence of cooling after them; samples without any reading
\* may separate them.
HotSinceCool == {i \in HotOnes : \A j \in Cool : j < i}

\* The machine overheats when the newest sample is hot and completes TripStreak of them.
OverheatByHistory ==
  /\ Len(history) \in HotOnes
  /\ Cardinality(HotSinceCool) >= TripStreak

\* What the counters and the bounded history may hold.
HistoryTypeOK ==
  /\ watchdog \in WatchdogStates
  /\ history \in Seq(Temperatures)
  /\ trip \in Trips

\* The trip latched by the counters is the trip the history calls for: none is missed
\* while the watchdog is armed, none is raised by a hot streak that a cool reading
\* interrupted, and when both causes coincide SensorLost wins (watchdog.rs observe).
TripMatchesHistory ==
  /\ HistoryTypeOK
  /\ watchdog.tripped <=> (LostByHistory \/ OverheatByHistory)
  /\ trip = "SensorLost" => LostByHistory
  /\ trip = "Thermal" => OverheatByHistory /\ ~LostByHistory

\* The strengthening: until a trip the two streaks are counts of the history, exactly, and
\* short of their trip points.  A latched watchdog counts no more, but neither does the
\* history it is compared with.
Below(w) == ~w.tripped => w.hot < TripStreak /\ w.lost < LostStreak

\* k samples without a CPU temperature end the history, and no more than k.
LostFor(k) ==
  /\ LastAll(k, NoCpu)
  /\ k = Len(history) \/ Len(history) - k \notin NoCpu

HistoryIInv ==
  /\ TripMatchesHistory /\ Below(watchdog)
  /\ ~watchdog.tripped => LostFor(watchdog.lost) /\ watchdog.hot = Cardinality(HotSinceCool)
=============================================================================
