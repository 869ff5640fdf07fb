-------------------------- MODULE ControllerProofs --------------------------
(***************************************************************************)
(* Safety of the controller and of its watchdog for all streak lengths.    *)
(* The controller's IInv is inductive, and it gives the type invariant,    *)
(* the emergency and session invariants, the two action properties about   *)
(* raising a cap, and the refinement of CapAuthority.  The watchdog's      *)
(* counters trip exactly when the whole history calls for it.              *)
(***************************************************************************)
EXTENDS Controller, WatchdogHistory, FiniteSetTheorems, TLAPS

-----------------------------------------------------------------------------
(* The watchdog: what one observation does, for all streak lengths.        *)

\* The initial and the re-armed watchdog is in range and armed (ThermalWatchdog::new, rearm).
LEMMA ArmedOK == Armed \in WatchdogStates /\ Below(Armed) /\ ~Armed.tripped
  BY WatchdogAssumption DEF Armed, WatchdogStates, Below

\* A latched watchdog trips no more and is not changed by a sample (observe's early return).
LEMMA LatchedStays ==
  ASSUME NEW w \in WatchdogStates, NEW t \in Temperatures, w.tripped
  PROVE  TripOf(w, t) = "None" /\ Observe(w, t) = w
  BY DEF TripOf, Observe, WatchdogStates

\* The latch goes up exactly with a trip, of a known kind.
LEMMA LatchIsTrip ==
  ASSUME NEW w \in WatchdogStates, NEW t \in Temperatures, ~w.tripped
  PROVE  /\ TripOf(w, t) \in Trips
         /\ Observe(w, t).tripped <=> TripOf(w, t) # "None"
  BY DEF TripOf, Observe, Trips, WatchdogStates

\* One sample keeps the counters within their trip points, and short of them unless the
\* watchdog trips: no streak completes without a trip (watchdog.rs observe).
THEOREM ObserveOK ==
  ASSUME NEW w \in WatchdogStates, NEW t \in Temperatures, Below(w)
  PROVE  Observe(w, t) \in WatchdogStates /\ Below(Observe(w, t))
<1>1. CASE w.tripped
  BY <1>1, LatchedStays
<1>2. CASE ~w.tripped
  <2> DEFINE o == Observe(w, t)
  <2>1. /\ w.hot \in 0..TripStreak /\ w.lost \in 0..LostStreak
        /\ w.hot < TripStreak /\ w.lost < LostStreak
    BY <1>2 DEF Below, WatchdogStates
  <2>2. HotSample(t) => ~CoolSample(t)
    BY DEF CoolSample
  <2>3. o.tripped \in BOOLEAN /\ (o.tripped <=> TripOf(w, t) # "None")
    BY <1>2 DEF Observe
  <2>4. o.lost = IF t.cpu = "invalid" THEN w.lost + 1 ELSE 0
    BY <1>2 DEF Observe
  <2>5. \/ o.hot = w.hot
        \/ o.hot = 0
        \/ TripOf(w, t) # "SensorLost" /\ HotSample(t) /\ o.hot = w.hot + 1
    BY <1>2, <2>2 DEF Observe
  <2>6. o = [hot |-> o.hot, lost |-> o.lost, tripped |-> o.tripped]
    BY <1>2 DEF Observe
  <2>7. o \in WatchdogStates
    <3> HIDE DEF o
    <3>1. o.hot \in 0..TripStreak
      BY <2>1, <2>5, WatchdogAssumption
    <3>2. o.lost \in 0..LostStreak
      BY <2>1, <2>4, WatchdogAssumption
    <3> QED BY <2>3, <2>6, <3>1, <3>2 DEF WatchdogStates
  <2>8. TripOf(w, t) = "None" => ~(t.cpu = "invalid" /\ w.lost + 1 >= LostStreak)
    BY <1>2 DEF TripOf
  <2>9. TripOf(w, t) = "None" => ~(HotSample(t) /\ w.hot + 1 >= TripStreak)
    BY <1>2, <2>8 DEF TripOf
  <2>10. Below(o)
    <3> HIDE DEF o
    <3>1. TripOf(w, t) = "None" => o.hot < TripStreak
      BY <2>1, <2>5, <2>9, WatchdogAssumption
    <3>2. TripOf(w, t) = "None" => o.lost < LostStreak
      BY <2>1, <2>4, <2>8, WatchdogAssumption
    <3> QED BY <2>3, <3>1, <3>2 DEF Below
  <2> QED BY <2>7, <2>10
<1> QED BY <1>1, <1>2
-----------------------------------------------------------------------------
(* What the operations on one actuator return.                             *)

\* Every outcome of an operation on a limit and a cap is a limit and a cap.
LEMMA OutcomesInCaps ==
  ASSUME NEW d \in Device, NEW c \in Caps
  PROVE  /\ Unverified(d, c) \subseteq Caps
         /\ Written(d, c) \subseteq Caps
         /\ Restored(c) \subseteq Caps
         /\ Released(c) \subseteq Caps
         /\ Aborted(d, c) \subseteq Caps
<1>1. Capped \in Caps /\ c.hw \in BOOLEAN /\ \A h \in BOOLEAN : [c EXCEPT !.hw = h] \in Caps
  BY DEF Capped, Caps
<1>2. Unverified(d, c) \subseteq Caps
  <2> SUFFICES ASSUME NEW h \in {c.hw} \cup (IF d = "cpu" THEN {TRUE} ELSE {})
               PROVE  [c EXCEPT !.hw = h] \in Caps
    BY DEF Unverified
  <2>1. h \in BOOLEAN
    BY <1>1
  <2> QED BY <1>1, <2>1
<1>3. Written(d, c) \subseteq Caps
  BY <1>1, <1>2 DEF Written
<1>4. Restored(c) \subseteq Caps
  BY <1>1 DEF Restored
<1>5. Released(c) \subseteq Caps
  <2>1. \A h \in BOOLEAN : [limit |-> FALSE, hw |-> h] \in Caps
    BY DEF Caps
  <2> QED BY <1>1, <2>1 DEF Released
<1>6. Aborted(d, c) \subseteq Caps
  BY <1>3 DEF Aborted
<1> QED BY <1>2, <1>3, <1>4, <1>5, <1>6

\* A release forgets the limit, and neither it nor a restore at exit raises the cap.
LEMMA ReleaseForgets ==
  ASSUME NEW c \in Caps
  PROVE  /\ \A r \in Released(c) : ~r.limit /\ (r.hw => c.hw)
         /\ \A r \in Restored(c) : r.limit = c.limit /\ (r.hw => c.hw)
  BY DEF Released, Restored, Caps

\* Maintenance of an actuator without a recorded limit does nothing.
LEMMA NothingToReassert ==
  ASSUME NEW d \in Device, NEW c \in Caps, ~c.limit
  PROVE  Reasserted(d, c) = {c}
  BY DEF Reasserted

\* A choice of outcomes gives every actuator one of its own.
LEMMA CapsInChoice ==
  ASSUME NEW o, NEW f \in CapsIn(o)
  PROVE  f \in [Device -> Caps] /\ \A d \in Device : f[d] \in o[d]
  BY DEF CapsIn
-----------------------------------------------------------------------------
(* What the watchdog becomes in a sample.                                  *)

\* A serviced sample keeps the watchdog in range and short of its trip points, and never
\* latches one that is not: a trip with nothing commanded re-arms at once.
LEMMA ServicedWatch ==
  ASSUME IInv, NEW t \in Temperatures, Serviced(t)
  PROVE  /\ wd' \in WatchdogStates /\ StreaksBelow'
         /\ wd'.tripped <=> wd.tripped
         /\ wd.tripped => wd' = wd
         /\ alarm' = alarm /\ alive' = alive /\ fence' = fence /\ alive /\ ~fence
<1>1. wd \in WatchdogStates /\ Below(wd)
  BY DEF IInv, TypeOK, StreaksBelow, Below
<1>2. wd' = Watched(t)
  BY DEF Serviced
<1>3. CASE wd.tripped
  <2>1. wd' = wd
    BY <1>1, <1>2, <1>3, LatchedStays DEF Watched
  <2> QED BY <1>1, <1>3, <2>1 DEF Serviced, threadVars, StreaksBelow
<1>4. CASE ~wd.tripped
  <2>1. CASE TripOf(wd, t) = "None"
    <3>1. wd' = Observe(wd, t)
      BY <1>2, <2>1 DEF Watched
    <3>2. wd' \in WatchdogStates /\ Below(wd')
      BY <1>1, <3>1, ObserveOK
    <3>3. ~wd'.tripped
      BY <1>1, <1>4, <2>1, <3>1, LatchIsTrip
    <3> QED BY <1>4, <3>2, <3>3 DEF Serviced, threadVars, StreaksBelow, Below
  <2>2. CASE TripOf(wd, t) # "None"
    <3>1. wd' = Armed
      BY <1>2, <2>2 DEF Watched, Serviced
    <3> QED BY <1>4, <3>1, ArmedOK DEF Serviced, threadVars, StreaksBelow, Below
  <2> QED BY <2>1, <2>2
<1> QED BY <1>3, <1>4

\* A trip that acts latches the watchdog, from an armed one, with a known kind.
LEMMA TripLatches ==
  ASSUME IInv, NEW t \in Temperatures, TripSample(t)
  PROVE  /\ wd' \in WatchdogStates /\ StreaksBelow'
         /\ ~wd.tripped /\ wd'.tripped
         /\ TripOf(wd, t) \in {"Thermal", "SensorLost"}
<1>1. wd \in WatchdogStates /\ Below(wd)
  BY DEF IInv, TypeOK, StreaksBelow, Below
<1>2. TripOf(wd, t) # "None" /\ wd' = Observe(wd, t)
  BY DEF TripSample, Watched
<1>3. ~wd.tripped
  BY <1>1, <1>2, LatchedStays
<1>4. wd' \in WatchdogStates /\ Below(wd')
  BY <1>1, <1>2, ObserveOK
<1>5. wd'.tripped /\ TripOf(wd, t) \in Trips
  BY <1>1, <1>2, <1>3, LatchIsTrip
<1> QED BY <1>2, <1>3, <1>4, <1>5 DEF StreaksBelow, Below, Trips
-----------------------------------------------------------------------------
(* The type invariant.                                                     *)

\* The controller starts in range.
LEMMA InitType == Init => TypeOK
<1> SUFFICES ASSUME Init PROVE TypeOK
  OBVIOUS
<1>1. wd \in WatchdogStates
  BY ArmedOK DEF Init
<1>2. cap \in [Device -> Caps]
  BY DEF Init, Caps, Stock
<1> QED BY <1>1, <1>2 DEF Init, TypeOK, Modes, Alarms

\* Every command keeps the variables in range.
LEMMA CommandType == IInv /\ Command => TypeOK'
<1> SUFFICES ASSUME IInv, Command PROVE TypeOK'
  OBVIOUS
<1> USE DEF IInv
<1>1. CASE Acknowledge
  BY <1>1, ArmedOK DEF Acknowledge, Acknowledged, TypeOK, sessionVars, calibVars, threadVars
<1>2. CASE ReleaseAll
  BY <1>2, CapsInChoice DEF ReleaseAll, DropSession, TypeOK, Modes, calibVars, watchVars, threadVars
<1>3. CASE EnterAuto
  BY <1>3 DEF EnterAuto, TypeOK, Modes, calibVars, watchVars, threadVars
<1>4. CASE StartCalibration
  BY <1>4 DEF StartCalibration, TypeOK, Modes, sessionVars, watchVars, threadVars
<1>5. CASE AbortCalibration
  BY <1>5, CapsInChoice DEF AbortCalibration, EndCalibration, ResumesAuto, TypeOK, Modes,
                            sessionVars, watchVars, threadVars
<1>6. ASSUME NEW d \in Device, SetLimit(d) PROVE TypeOK'
  <2>1. cap[d] \in Caps /\ Unverified(d, cap[d]) \subseteq Caps /\ Capped \in Caps
    BY OutcomesInCaps DEF TypeOK, Capped, Caps
  <2>2. \E c \in Caps : cap' = [cap EXCEPT ![d] = c]
    BY <1>6, <2>1 DEF SetLimit
  <2>3. cap' \in [Device -> Caps]
    BY <2>2 DEF TypeOK
  <2>4. mode' \in Modes
    BY <1>6 DEF SetLimit, TypeOK, Modes
  <2> QED BY <1>6, <2>3, <2>4 DEF SetLimit, TypeOK, sessionVars, calibVars, watchVars, threadVars
<1> QED BY <1>1, <1>2, <1>3, <1>4, <1>5, <1>6 DEF Command

\* Every sample keeps the variables in range.
LEMMA SampleType == IInv /\ Sample => TypeOK'
<1> SUFFICES ASSUME IInv, NEW t \in Temperatures,
                    \/ TripSample(t) \/ CalibSample(t) \/ ManualSample(t)
                    \/ \E view \in Views : HoldSample(t, view)
                                           \/ \E changed \in BOOLEAN : AutoSample(t, view, changed)
             PROVE TypeOK'
  BY DEF Sample
<1>0. TypeOK
  BY DEF IInv
<1>1. CASE TripSample(t)
  <2>1. wd' \in WatchdogStates
    BY <1>1, TripLatches
  <2>2. EmergencyRelease(TripOf(wd, t)) /\ UNCHANGED threadVars
    BY <1>1 DEF TripSample
  <2> HIDE DEF Armed
  <2> QED BY <1>0, <2>1, <2>2, CapsInChoice
          DEF EmergencyRelease, DropSession, ResumesAuto, TypeOK, Modes, Alarms, threadVars
<1>2. CASE CalibSample(t)
  <2>1. Serviced(t)
    BY <1>2 DEF CalibSample
  <2> QED BY <1>0, <1>2, <2>1, ServicedWatch, CapsInChoice
          DEF CalibSample, EndCalibration, ResumesAuto, TypeOK, Modes, sessionVars
<1>3. CASE ManualSample(t)
  <2>1. Serviced(t)
    BY <1>3 DEF ManualSample
  <2> QED BY <1>0, <1>3, <2>1, ServicedWatch, CapsInChoice
          DEF ManualSample, TypeOK, sessionVars, calibVars
<1>4. ASSUME NEW view \in Views, HoldSample(t, view) PROVE TypeOK'
  <2>1. Serviced(t)
    BY <1>4 DEF HoldSample
  <2> QED BY <1>0, <1>4, <2>1, ServicedWatch DEF HoldSample, TypeOK
<1>5. ASSUME NEW view \in Views, NEW changed \in BOOLEAN, AutoSample(t, view, changed)
      PROVE TypeOK'
  <2>1. Serviced(t)
    BY <1>5 DEF AutoSample
  <2> QED BY <1>0, <1>5, <2>1, ServicedWatch, CapsInChoice DEF AutoSample, TypeOK, calibVars
<1> QED BY <1>1, <1>2, <1>3, <1>4, <1>5

\* The surroundings keep the variables in range.
LEMMA EnvironmentType == IInv /\ Environment => TypeOK'
<1> SUFFICES ASSUME IInv, Environment PROVE TypeOK'
  OBVIOUS
<1> USE DEF IInv
<1>1. CASE RaiseFence
  BY <1>1 DEF RaiseFence, TypeOK, sessionVars, calibVars, watchVars
<1>2. CASE Quit
  BY <1>2, CapsInChoice DEF Quit, EndCalibration, ResumesAuto, TypeOK, Modes, calibVars, watchVars
<1>3. CASE Disconnect
  BY <1>3, CapsInChoice DEF Disconnect, TypeOK, sessionVars, watchVars
<1>4. ASSUME NEW d \in Device, FirmwareReset(d) PROVE TypeOK'
  <2>1. cap' \in [Device -> Caps]
    BY <1>4 DEF FirmwareReset, TypeOK, Caps
  <2> QED BY <1>4, <2>1 DEF FirmwareReset, TypeOK, sessionVars, calibVars, watchVars, threadVars
<1> QED BY <1>1, <1>2, <1>3, <1>4 DEF Environment
-----------------------------------------------------------------------------
(* The rest of the inductive invariant, one step of the proof per action.  *)

\* What IInv says beside the types.
Rest == StreaksBelow /\ LatchMatchesAlarm /\ EmergencyHoldsReleased /\ SessionShape

\* The controller starts armed, with nothing commanded.
LEMMA InitRest == Init => Rest
<1> SUFFICES ASSUME Init PROVE Rest
  OBVIOUS
<1>1. ~wd.tripped /\ StreaksBelow
  BY ArmedOK DEF Init, StreaksBelow, Below
<1> QED BY <1>1 DEF Init, Rest, LatchMatchesAlarm, EmergencyHoldsReleased, SessionShape

\* Commands: the acknowledgement clears the latch and every flag with it, and behind the
\* latch only a release gets through.
LEMMA CommandRest == IInv /\ Command => Rest'
<1> SUFFICES ASSUME IInv, Command PROVE Rest'
  OBVIOUS
<1> USE DEF IInv, Rest, StreaksBelow
<1>1. CASE Acknowledge
  <2>1. ~wd'.tripped /\ StreaksBelow'
    BY <1>1, ArmedOK DEF Acknowledge, Below
  <2>2. alarm' = {}
    BY <1>1 DEF Acknowledge, Acknowledged, TypeOK, Alarms
  <2> QED BY <1>1, <2>1, <2>2 DEF Acknowledge, LatchMatchesAlarm, EmergencyHoldsReleased,
                                  SessionShape, sessionVars, calibVars, threadVars
<1>2. CASE ReleaseAll
  <2>1. \A d \in Device : ~cap'[d].limit
    BY <1>2, CapsInChoice, ReleaseForgets DEF ReleaseAll, TypeOK
  <2> QED BY <1>2, <2>1 DEF ReleaseAll, DropSession, LatchMatchesAlarm, EmergencyHoldsReleased,
                            AnythingCommanded, SessionShape, calibVars, watchVars, threadVars
<1>3. CASE EnterAuto
  BY <1>3 DEF EnterAuto, Gated, LatchMatchesAlarm, EmergencyHoldsReleased, SessionShape,
              calibVars, watchVars, threadVars
<1>4. CASE StartCalibration
  BY <1>4 DEF StartCalibration, Gated, LatchMatchesAlarm, EmergencyHoldsReleased, SessionShape,
              sessionVars, watchVars, threadVars
<1>5. CASE AbortCalibration
  <2>1. ~wd.tripped
    BY <1>5 DEF AbortCalibration, EmergencyHoldsReleased
  <2> QED BY <1>5, <2>1 DEF AbortCalibration, EndCalibration, ResumesAuto, LatchMatchesAlarm,
                            EmergencyHoldsReleased, SessionShape, sessionVars, watchVars, threadVars
<1>6. ASSUME NEW d \in Device, SetLimit(d) PROVE Rest'
  BY <1>6 DEF SetLimit, MaySet, Gated, LatchMatchesAlarm, EmergencyHoldsReleased, SessionShape,
              sessionVars, calibVars, watchVars, threadVars
<1> QED BY <1>1, <1>2, <1>3, <1>4, <1>5, <1>6 DEF Command

\* Samples: a trip releases and raises its flag; behind the latch only a Monitor sample
\* runs, and it finds nothing to maintain.
LEMMA SampleRest == IInv /\ Sample => Rest'
<1> SUFFICES ASSUME IInv, NEW t \in Temperatures,
                    \/ TripSample(t) \/ CalibSample(t) \/ ManualSample(t)
                    \/ \E view \in Views : HoldSample(t, view)
                                           \/ \E changed \in BOOLEAN : AutoSample(t, view, changed)
             PROVE Rest'
  BY DEF Sample
<1>0. TypeOK /\ LatchMatchesAlarm /\ EmergencyHoldsReleased /\ SessionShape
  BY DEF IInv
<1>1. CASE TripSample(t)
  <2>1. wd'.tripped /\ StreaksBelow'
    BY <1>1, TripLatches
  <2>2. alarm' # {}
    BY <1>1 DEF TripSample, EmergencyRelease
  <2>3. \A d \in Device : ~cap'[d].limit
    <3>1. \A d \in Device : cap'[d] \in UNION {Released(c) : c \in Aborted(d, cap[d])}
      BY <1>1, CapsInChoice DEF TripSample, EmergencyRelease
    <3>2. \A d \in Device : Aborted(d, cap[d]) \subseteq Caps
      BY <1>0, OutcomesInCaps DEF TypeOK
    <3> QED BY <3>1, <3>2, ReleaseForgets
  <2>4. mode' = "Monitor" /\ ~session' /\ calib' = "none" /\ ~burner' /\ ~fromAuto'
    BY <1>1 DEF TripSample, EmergencyRelease, DropSession
  <2> QED BY <2>1, <2>2, <2>3, <2>4
          DEF Rest, LatchMatchesAlarm, EmergencyHoldsReleased, AnythingCommanded, SessionShape
<1>2. CASE CalibSample(t)
  <2>1. Serviced(t) /\ mode = "Calibrating"
    BY <1>2 DEF CalibSample
  <2>2. ~wd.tripped
    BY <1>0, <2>1 DEF EmergencyHoldsReleased, AnythingCommanded
  <2> QED BY <1>0, <1>2, <2>1, <2>2, ServicedWatch
          DEF CalibSample, EndCalibration, ResumesAuto, Rest, LatchMatchesAlarm,
              EmergencyHoldsReleased, SessionShape, sessionVars
<1>3. CASE ManualSample(t)
  <2>1. Serviced(t)
    BY <1>3 DEF ManualSample
  <2>2. wd.tripped => \A d \in Device : ~cap'[d].limit
    <3> SUFFICES ASSUME wd.tripped, NEW d \in Device PROVE ~cap'[d].limit
      OBVIOUS
    <3>1. cap[d] \in Caps /\ ~cap[d].limit
      BY <1>0 DEF EmergencyHoldsReleased, AnythingCommanded, TypeOK
    <3>2. cap'[d] \in Reasserted(d, cap[d])
      BY <1>3, CapsInChoice DEF ManualSample
    <3> QED BY <3>1, <3>2, NothingToReassert
  <2> QED BY <1>0, <1>3, <2>1, <2>2, ServicedWatch
          DEF ManualSample, Rest, LatchMatchesAlarm, EmergencyHoldsReleased, AnythingCommanded,
              SessionShape, sessionVars, calibVars
<1>4. ASSUME NEW view \in Views, HoldSample(t, view) PROVE Rest'
  <2>1. Serviced(t) /\ mode = "Auto"
    BY <1>4 DEF HoldSample
  <2>2. ~wd.tripped
    BY <1>0, <2>1 DEF EmergencyHoldsReleased, AnythingCommanded
  <2> QED BY <1>0, <1>4, <2>1, <2>2, ServicedWatch
          DEF HoldSample, Rest, LatchMatchesAlarm, EmergencyHoldsReleased, SessionShape
<1>5. ASSUME NEW view \in Views, NEW changed \in BOOLEAN, AutoSample(t, view, changed)
      PROVE Rest'
  <2>1. Serviced(t) /\ mode = "Auto"
    BY <1>5 DEF AutoSample
  <2>2. ~wd.tripped
    BY <1>0, <2>1 DEF EmergencyHoldsReleased, AnythingCommanded
  <2>3. UNCHANGED <<mode, session, calibVars>>
    BY <1>5 DEF AutoSample
  <2> QED BY <1>0, <2>1, <2>2, <2>3, ServicedWatch
          DEF Rest, LatchMatchesAlarm, EmergencyHoldsReleased, SessionShape, calibVars
<1> QED BY <1>1, <1>2, <1>3, <1>4, <1>5

\* The surroundings: an ended controller keeps what the latch promises.
LEMMA EnvironmentRest == IInv /\ Environment => Rest'
<1> SUFFICES ASSUME IInv, Environment PROVE Rest'
  OBVIOUS
<1> USE DEF IInv, Rest, StreaksBelow
<1>1. CASE RaiseFence
  BY <1>1 DEF RaiseFence, LatchMatchesAlarm, EmergencyHoldsReleased, AnythingCommanded,
              SessionShape, sessionVars, calibVars, watchVars
<1>2. \A d \in Device : Quit \/ Disconnect => cap'[d].limit = cap[d].limit
  BY CapsInChoice, ReleaseForgets DEF Quit, Disconnect, TypeOK
<1>3. CASE Quit
  BY <1>2, <1>3 DEF Quit, EndCalibration, LatchMatchesAlarm, EmergencyHoldsReleased,
                    AnythingCommanded, SessionShape, calibVars, watchVars
<1>4. CASE Disconnect
  BY <1>2, <1>4 DEF Disconnect, LatchMatchesAlarm, EmergencyHoldsReleased, AnythingCommanded,
                    SessionShape, sessionVars, watchVars
<1>5. ASSUME NEW d \in Device, FirmwareReset(d) PROVE Rest'
  <2>1. \A e \in Device : cap'[e].limit = cap[e].limit
    BY <1>5 DEF FirmwareReset, TypeOK, Caps
  <2> QED BY <1>5, <2>1 DEF FirmwareReset, LatchMatchesAlarm, EmergencyHoldsReleased,
                            AnythingCommanded, SessionShape, sessionVars, calibVars, watchVars,
                            threadVars
<1> QED BY <1>1, <1>3, <1>4, <1>5 DEF Environment
-----------------------------------------------------------------------------
(* The inductive invariant and the theorems it gives.                      *)

\* The strengthened invariant holds initially and is kept by every step.
LEMMA Inductive == (Init => IInv) /\ (IInv /\ [Next]_vars => IInv')
<1>1. Init => IInv
  BY InitType, InitRest DEF IInv, Rest
<1>2. IInv /\ Next => IInv'
  BY CommandType, SampleType, EnvironmentType, CommandRest, SampleRest, EnvironmentRest
     DEF Next, IInv, Rest
<1>3. IInv /\ UNCHANGED vars => IInv'
  BY DEF vars, sessionVars, calibVars, watchVars, threadVars, IInv, TypeOK, StreaksBelow,
         LatchMatchesAlarm, EmergencyHoldsReleased, AnythingCommanded, SessionShape
<1> QED BY <1>1, <1>2, <1>3

\* Every reachable state of the controller satisfies the strengthened invariant.
THEOREM AlwaysIInv == Spec => []IInv
  BY Inductive, PTL DEF Spec

\* Every variable of the controller stays in its range.
THEOREM TypeCorrect == Spec => []TypeOK
<1>1. IInv => TypeOK
  BY DEF IInv
<1> QED BY <1>1, AlwaysIInv, PTL

\* The latch and the emergency flags move in lockstep (the acknowledge gate's premise).
THEOREM LatchCorrect == Spec => []LatchMatchesAlarm
<1>1. IInv => LatchMatchesAlarm
  BY DEF IInv
<1> QED BY <1>1, AlwaysIInv, PTL

\* Behind a latched emergency nothing is commanded, held, calibrating or burning.
THEOREM EmergencyCorrect == Spec => []EmergencyHoldsReleased
<1>1. IInv => EmergencyHoldsReleased
  BY DEF IInv
<1> QED BY <1>1, AlwaysIInv, PTL

\* Sessions, calibrations and the burner live only in the modes that own them.
THEOREM SessionCorrect == Spec => []SessionShape
<1>1. IInv => SessionShape
  BY DEF IInv
<1> QED BY <1>1, AlwaysIInv, PTL
-----------------------------------------------------------------------------
(* Who may raise a cap.                                                    *)

\* Behind a latched emergency, and behind the fence, no step raises a cap: the setters are
\* gated, the session's and the runner's samples cannot run, maintenance has no limit to
\* maintain, and what is left releases.
LEMMA NothingRaises == IInv /\ Next /\ (wd.tripped \/ fence) => ~Raises
<1> SUFFICES ASSUME IInv, Next, wd.tripped \/ fence, NEW d \in Device, ~cap[d].hw
             PROVE  ~cap'[d].hw
  BY DEF Raises
<1>0. TypeOK /\ EmergencyHoldsReleased /\ cap[d] \in Caps
  BY DEF IInv, TypeOK
<1>1. cap'[d] \in Released(cap[d]) \/ cap'[d] \in Restored(cap[d]) => ~cap'[d].hw
  BY <1>0, ReleaseForgets
<1>2. CASE Acknowledge \/ EnterAuto \/ StartCalibration \/ RaiseFence
  BY <1>2 DEF Acknowledge, EnterAuto, StartCalibration, RaiseFence
<1>3. CASE ReleaseAll
  BY <1>1, <1>3, CapsInChoice DEF ReleaseAll
<1>4. CASE Quit \/ Disconnect
  BY <1>1, <1>4, CapsInChoice DEF Quit, Disconnect
<1>5. CASE AbortCalibration
  <2>1. fence
    BY <1>0, <1>5 DEF AbortCalibration, EmergencyHoldsReleased
  <2>2. cap'[d] \in {cap[d]}
    BY <1>5, <2>1, CapsInChoice DEF AbortCalibration, Aborted
  <2> QED BY <2>2
<1>6. ASSUME NEW e \in Device, SetLimit(e) PROVE FALSE
  BY <1>6 DEF SetLimit, MaySet, Gated
<1>7. ASSUME NEW e \in Device, FirmwareReset(e) PROVE ~cap'[d].hw
  BY <1>0, <1>7 DEF FirmwareReset, TypeOK, Caps
<1>8. ASSUME Sample PROVE ~cap'[d].hw
  <2> PICK t \in Temperatures :
        \/ TripSample(t) \/ CalibSample(t) \/ ManualSample(t)
        \/ \E view \in Views : HoldSample(t, view)
                               \/ \E changed \in BOOLEAN : AutoSample(t, view, changed)
    BY <1>8 DEF Sample
  <2>1. wd.tripped
    BY DEF TripSample, CalibSample, ManualSample, HoldSample, AutoSample, Serviced
  <2>2. mode = "Monitor" /\ ~cap[d].limit
    BY <1>0, <2>1 DEF EmergencyHoldsReleased, AnythingCommanded
  <2>3. ~TripSample(t)
    BY <2>1, TripLatches
  <2>4. ManualSample(t)
    BY <2>2, <2>3 DEF CalibSample, HoldSample, AutoSample
  <2>5. cap'[d] \in {cap[d]}
    BY <1>0, <2>2, <2>4, CapsInChoice, NothingToReassert DEF ManualSample
  <2> QED BY <2>5
<1> QED BY <1>2, <1>3, <1>4, <1>5, <1>6, <1>7, <1>8 DEF Next, Command, Environment

\* No step of any kind raises a cap between a trip and its acknowledgement.
THEOREM NoRaiseCorrect == Spec => NoRaiseWhileTripped
<1>1. IInv /\ [Next]_vars => [wd.tripped => ~Raises]_vars
  BY NothingRaises
<1> QED BY <1>1, AlwaysIInv, PTL DEF Spec, NoRaiseWhileTripped

\* No handler raises a cap once main's shutdown flag is up.
THEOREM FenceCorrect == Spec => FencedNeverRaises
<1>1. IInv /\ [Next]_vars => [fence => ~Raises]_vars
  BY NothingRaises
<1> QED BY <1>1, AlwaysIInv, PTL DEF Spec, FencedNeverRaises
-----------------------------------------------------------------------------
(* The refinement of CapAuthority.                                         *)

\* The controller starts without authority.
LEMMA InitAuthority == Init => Promise!Init
<1> SUFFICES ASSUME Init PROVE Authority = "none"
  BY DEF Promise!Init
<1>1. ~wd.tripped
  BY ArmedOK DEF Init
<1>2. ~AnythingCommanded
  BY DEF Init, AnythingCommanded, Stock
<1> QED BY <1>1, <1>2 DEF Authority, Init

\* How the latch moves: a trip finds something commanded and ends with nothing commanded;
\* an acknowledgement commands nothing; every other step keeps the latch.
LEMMA LatchMoves ==
  ASSUME IInv, Next, IInv'
  PROVE  /\ alive' => alive
         /\ wd.tripped # wd'.tripped =>
              \/ ~wd.tripped /\ AnythingCommanded /\ ~AnythingCommanded'
              \/ wd.tripped /\ ~AnythingCommanded'
<1>0. EmergencyHoldsReleased /\ EmergencyHoldsReleased' /\ TypeOK
  BY DEF IInv
<1>1. CASE Acknowledge
  BY <1>0, <1>1 DEF Acknowledge, EmergencyHoldsReleased, AnythingCommanded, threadVars
<1>2. CASE ReleaseAll \/ EnterAuto \/ StartCalibration \/ AbortCalibration
  BY <1>2 DEF ReleaseAll, EnterAuto, StartCalibration, AbortCalibration, watchVars, threadVars
<1>3. CASE \E d \in Device : SetLimit(d) \/ FirmwareReset(d)
  BY <1>3 DEF SetLimit, FirmwareReset, watchVars, threadVars
<1>4. CASE RaiseFence \/ Quit \/ Disconnect
  BY <1>4 DEF RaiseFence, Quit, Disconnect, watchVars
<1>5. ASSUME NEW t \in Temperatures, TripSample(t) PROVE
         alive' = alive /\ ~wd.tripped /\ wd'.tripped /\ AnythingCommanded
  <2>1. ~wd.tripped /\ wd'.tripped
    BY <1>5, TripLatches
  <2> QED BY <1>5, <2>1 DEF TripSample, threadVars
<1>6. ASSUME NEW t \in Temperatures, Serviced(t)
      PROVE  alive' = alive /\ (wd'.tripped <=> wd.tripped)
  BY <1>6, ServicedWatch
<1>7. CASE Sample
  <2> PICK t \in Temperatures : TripSample(t) \/ Serviced(t)
    BY <1>7 DEF Sample, CalibSample, ManualSample, HoldSample, AutoSample
  <2>1. CASE TripSample(t)
    BY <1>0, <1>5, <2>1 DEF EmergencyHoldsReleased
  <2>2. CASE Serviced(t)
    <3>1. alive' = alive /\ wd'.tripped = wd.tripped
      BY <1>0, <1>6, <2>2 DEF TypeOK, IInv, WatchdogStates
    <3> QED BY <3>1
  <2> QED BY <2>1, <2>2
<1> QED BY <1>1, <1>2, <1>3, <1>4, <1>7 DEF Next, Command, Environment

\* Every step of the controller is a step of the authority or a stutter.
LEMMA StepAuthority == IInv /\ IInv' /\ [Next]_vars => [Promise!Next]_Authority
<1> SUFFICES ASSUME IInv, IInv', [Next]_vars PROVE [Promise!Next]_Authority
  OBVIOUS
<1> USE DEF Promise!Next, Promise!Take, Promise!Give, Promise!Trip, Promise!Acknowledge, Promise!Stop
<1>1. CASE UNCHANGED vars
  <2>1. Authority' = Authority
    BY <1>1 DEF vars, sessionVars, calibVars, watchVars, threadVars, Authority, AnythingCommanded
  <2> QED BY <2>1
<1>2. CASE Next
  <2>1. TypeOK /\ TypeOK' /\ EmergencyHoldsReleased /\ EmergencyHoldsReleased'
    BY DEF IInv
  <2>2. wd.tripped \in BOOLEAN /\ wd'.tripped \in BOOLEAN /\ alive \in BOOLEAN /\ alive' \in BOOLEAN
    BY <2>1 DEF TypeOK, WatchdogStates
  <2>3. AnythingCommanded \in BOOLEAN /\ AnythingCommanded' \in BOOLEAN
    BY DEF AnythingCommanded
  <2>4. /\ alive' => alive
        /\ wd.tripped # wd'.tripped =>
             \/ ~wd.tripped /\ AnythingCommanded /\ ~AnythingCommanded'
             \/ wd.tripped /\ ~AnythingCommanded'
    BY <1>2, LatchMoves
  <2> QED BY <2>1, <2>2, <2>3, <2>4 DEF Authority, EmergencyHoldsReleased
<1> QED BY <1>1, <1>2

\* The controller implements the authority it promises.
THEOREM ImplementsAuthority == Spec => KeepsAuthority
<1>1. IInv /\ [Next]_vars => IInv'
  BY Inductive
<1> QED BY <1>1, InitAuthority, StepAuthority, AlwaysIInv, PTL DEF Spec, KeepsAuthority, Promise!Spec
-----------------------------------------------------------------------------
(* The watchdog's counters are exact (LostFor, HotSinceCool) until the     *)
(* trip.  Each lemma says what one more sample does to one of the two      *)
(* counts, and what its comparison with the trip point says of the history *)
(* of the samples, which no variable of the controller keeps.              *)

\* One more sample is one more element of each set of samples it belongs to.
LEMMA Grown ==
  ASSUME HistoryTypeOK, NEW t \in Temperatures, history' = Append(history, t)
  PROVE  /\ Len(history) \in Nat /\ Len(history') = Len(history) + 1
         /\ NoCpu' = NoCpu \cup (IF t.cpu = "invalid" THEN {Len(history) + 1} ELSE {})
         /\ HotOnes' = HotOnes \cup (IF HotSample(t) THEN {Len(history) + 1} ELSE {})
         /\ Cool' = Cool \cup (IF CoolSample(t) THEN {Len(history) + 1} ELSE {})
<1> DEFINE n == Len(history)
<1>1. history \in Seq(Temperatures) /\ n \in Nat /\ DOMAIN history = 1..n
  BY DEF HistoryTypeOK
<1>2. /\ Len(history') = n + 1 /\ DOMAIN history' = 1..(n + 1)
      /\ history'[n + 1] = t
      /\ \A i \in 1..n : history'[i] = history[i]
  BY <1>1
<1>3. \A i : i \in 1..(n + 1) <=> (i \in 1..n \/ i = n + 1)
  BY <1>1
<1>4. NoCpu' = NoCpu \cup (IF t.cpu = "invalid" THEN {n + 1} ELSE {})
  BY <1>1, <1>2, <1>3 DEF NoCpu
<1>5. HotOnes' = HotOnes \cup (IF HotSample(t) THEN {n + 1} ELSE {})
  BY <1>1, <1>2, <1>3 DEF HotOnes, HotSample
<1>6. Cool' = Cool \cup (IF CoolSample(t) THEN {n + 1} ELSE {})
  BY <1>1, <1>2, <1>3 DEF Cool, CoolSample, HotSample
<1> QED BY <1>1, <1>2, <1>4, <1>5, <1>6

\* The sets of samples are indices of the history.
LEMMA Indices ==
  ASSUME HistoryTypeOK
  PROVE  /\ NoCpu \subseteq 1..Len(history) /\ HotOnes \subseteq 1..Len(history)
         /\ Cool \subseteq 1..Len(history)
  BY DEF HistoryTypeOK, NoCpu, HotOnes, Cool

\* An exact count of the samples without a CPU temperature is what the comparison needs.
LEMMA CountDecides ==
  HistoryTypeOK /\ LostFor(watchdog.lost) => (LostByHistory <=> watchdog.lost >= LostStreak)
<1> SUFFICES ASSUME HistoryTypeOK, NEW k \in Nat, k = watchdog.lost, LostFor(k)
             PROVE  LostByHistory <=> k >= LostStreak
  BY DEF HistoryTypeOK, WatchdogStates
<1>1. Len(history) \in Nat /\ LostStreak \in Nat /\ k <= Len(history)
  BY WatchdogAssumption DEF HistoryTypeOK, LostFor, LastAll
<1>2. ASSUME k >= LostStreak PROVE LostByHistory
  BY <1>1, <1>2 DEF LostByHistory, LostFor, LastAll
<1>3. ASSUME LostByHistory, k < LostStreak PROVE FALSE
  <2>1. Len(history) >= LostStreak
    BY <1>3 DEF LostByHistory, LastAll
  <2>2. Len(history) - k \in (Len(history) - LostStreak + 1)..Len(history)
    BY <1>1, <1>3, <2>1
  <2> QED BY <1>1, <1>3, <2>1, <2>2 DEF LostByHistory, LostFor, LastAll
<1> QED BY <1>1, <1>2, <1>3

\* The lost streak goes on counting what it counts.
LEMMA LostGrows ==
  ASSUME HistoryTypeOK, HistoryTypeOK', NEW t \in Temperatures, history' = Append(history, t), NEW k \in Nat, LostFor(k)
  PROVE  LostFor(IF t.cpu = "invalid" THEN k + 1 ELSE 0)'
<1> DEFINE n == Len(history)
<1>1. n \in Nat /\ Len(history') = n + 1
      /\ NoCpu' = NoCpu \cup (IF t.cpu = "invalid" THEN {n + 1} ELSE {})
      /\ NoCpu \subseteq 1..n
  BY Grown, Indices
<1>2. CASE t.cpu = "invalid"
  <2>1. n >= k /\ (\A i \in (n - k + 1)..n : i \in NoCpu) /\ (k = n \/ n - k \notin NoCpu)
    BY DEF LostFor, LastAll
  <2>2. \A i \in ((n + 1) - (k + 1) + 1)..(n + 1) : i \in (n - k + 1)..n \/ i = n + 1
    BY <1>1
  <2>3. (n + 1) - (k + 1) = n - k /\ n - k # n + 1
    BY <1>1
  <2>4. LastAll(k + 1, NoCpu)'
    BY <1>1, <1>2, <2>1, <2>2 DEF LastAll
  <2>5. (k + 1 = Len(history) \/ Len(history) - (k + 1) \notin NoCpu)'
    BY <1>1, <1>2, <2>1, <2>3
  <2> QED BY <1>2, <2>4, <2>5 DEF LostFor
<1>3. CASE t.cpu # "invalid"
  <2>1. LastAll(0, NoCpu)'
    BY <1>1 DEF LastAll
  <2>2. Len(history') - 0 \notin NoCpu'
    BY <1>1, <1>3
  <2> QED BY <1>3, <2>1, <2>2 DEF LostFor
<1> QED BY <1>2, <1>3

\* The hot streak: a hot sample is counted, evidence of cooling empties the count, and a
\* sample without a reading leaves it alone.
LEMMA HotGrows ==
  ASSUME HistoryTypeOK, NEW t \in Temperatures, history' = Append(history, t)
  PROVE  /\ Cardinality(HotSinceCool) \in Nat
         /\ HotSample(t) => Cardinality(HotSinceCool') = Cardinality(HotSinceCool) + 1
         /\ CoolSample(t) => Cardinality(HotSinceCool') = 0
         /\ ~HotSample(t) /\ ~CoolSample(t) => HotSinceCool' = HotSinceCool
<1> DEFINE n == Len(history)
<1>1. n \in Nat
      /\ HotOnes' = HotOnes \cup (IF HotSample(t) THEN {n + 1} ELSE {})
      /\ Cool' = Cool \cup (IF CoolSample(t) THEN {n + 1} ELSE {})
      /\ HotOnes \subseteq 1..n /\ Cool \subseteq 1..n
  BY Grown, Indices
<1>2. HotSinceCool \in SUBSET (1..n) /\ n + 1 \notin HotSinceCool
  <2>1. HotSinceCool \subseteq HotOnes
    BY DEF HotSinceCool
  <2>2. n + 1 \notin 1..n
    BY <1>1
  <2> QED BY <1>1, <2>1, <2>2
<1>3. IsFiniteSet(HotSinceCool)
  <2>1. IsFiniteSet(1..n)
    BY <1>1, FS_Interval
  <2> QED BY <1>2, <2>1, FS_Subset
<1>4. Cardinality(HotSinceCool) \in Nat
  BY <1>3, FS_CardinalityType
<1>5. CASE HotSample(t)
  <2>1. ~CoolSample(t)
    BY <1>5 DEF CoolSample
  <2>2. \A j \in Cool : j < n + 1
    BY <1>1
  <2>3. HotSinceCool' = HotSinceCool \cup {n + 1}
    BY <1>1, <1>5, <2>1, <2>2 DEF HotSinceCool
  <2>4. Cardinality(HotSinceCool \cup {n + 1}) = Cardinality(HotSinceCool) + 1
    BY <1>2, <1>3, FS_AddElement
  <2> QED BY <1>4, <1>5, <2>1, <2>3, <2>4
<1>6. CASE CoolSample(t)
  <2>1. ~HotSample(t)
    BY <1>6 DEF CoolSample
  <2>2. \A i \in HotOnes : ~(n + 1 < i)  /\ i <= n
    BY <1>1
  <2>3. HotSinceCool' = {}
    BY <1>1, <1>6, <2>1, <2>2 DEF HotSinceCool
  <2> QED BY <1>4, <1>6, <2>1, <2>3, FS_EmptySet
<1>7. CASE ~HotSample(t) /\ ~CoolSample(t)
  <2>1. HotSinceCool' = HotSinceCool
    BY <1>1, <1>7 DEF HotSinceCool
  <2> QED BY <1>4, <1>7, <2>1
<1> QED BY <1>5, <1>6, <1>7

\* The newest sample decides: it overheats the machine when it is hot and completes the count.
LEMMA HotDecides ==
  ASSUME HistoryTypeOK, NEW t \in Temperatures, history' = Append(history, t)
  PROVE  OverheatByHistory' <=> HotSample(t) /\ Cardinality(HotSinceCool) + 1 >= TripStreak
<1>1. /\ Len(history) \in Nat /\ Len(history') = Len(history) + 1
      /\ HotOnes' = HotOnes \cup (IF HotSample(t) THEN {Len(history) + 1} ELSE {})
      /\ HotOnes \subseteq 1..Len(history)
  BY Grown, Indices
<1>2. Len(history') \in HotOnes' <=> HotSample(t)
  BY <1>1
<1>3. HotSample(t) => Cardinality(HotSinceCool') = Cardinality(HotSinceCool) + 1
  BY HotGrows
<1> QED BY <1>2, <1>3 DEF OverheatByHistory
-----------------------------------------------------------------------------
(* The invariant.                                                          *)

\* With nothing observed both counts are zero and nothing calls for a trip.
LEMMA EmptyOK ==
  watchdog = Armed /\ history = << >> /\ trip = "None" => HistoryIInv
<1> SUFFICES ASSUME watchdog = Armed, history = << >>, trip = "None" PROVE HistoryIInv
  OBVIOUS
<1>1. HistoryTypeOK /\ Below(watchdog) /\ ~watchdog.tripped
  <2>1. Armed \in WatchdogStates /\ Below(Armed) /\ ~Armed.tripped
    BY ArmedOK
  <2>2. history \in Seq(Temperatures)
    OBVIOUS
  <2> QED BY <2>1, <2>2 DEF Below, HistoryTypeOK, Trips
<1>2. Len(history) = 0 /\ HotOnes = {} /\ HotSinceCool = {} /\ NoCpu = {}
  BY DEF HotOnes, HotSinceCool, NoCpu
<1>3. ~LostByHistory /\ ~OverheatByHistory
  BY <1>2, WatchdogAssumption DEF LostByHistory, LastAll, OverheatByHistory
<1>4. LostFor(watchdog.lost) /\ watchdog.hot = Cardinality(HotSinceCool)
  BY <1>2, FS_EmptySet DEF LostFor, LastAll, Armed
<1> QED BY <1>1, <1>3, <1>4 DEF HistoryIInv, TripMatchesHistory

\* A sample keeps the counters exact, or trips as the history of then calls for.
LEMMA SampleOK ==
  ASSUME HistoryIInv, NEW t \in Temperatures, ObserveSample(t)
  PROVE  HistoryIInv'
<1>1. HistoryTypeOK /\ Below(watchdog) /\ watchdog \in WatchdogStates
  BY DEF HistoryIInv, TripMatchesHistory, HistoryTypeOK
<1>2. trip' = TripOf(watchdog, t) /\ watchdog' = Observe(watchdog, t)
  BY DEF ObserveSample
<1>3. CASE watchdog.tripped
  <2>1. watchdog' = watchdog /\ trip' = "None" /\ history' = history
    BY <1>1, <1>2, <1>3, LatchedStays DEF ObserveSample
  <2> QED BY <1>3, <2>1 DEF HistoryIInv, TripMatchesHistory, HistoryTypeOK, Trips, Below, LostByHistory, LastAll, NoCpu,
       OverheatByHistory, HotOnes, HotSinceCool, Cool
<1>4. CASE ~watchdog.tripped
  <2>1. history' = Append(history, t) /\ LostFor(watchdog.lost) /\ watchdog.hot = Cardinality(HotSinceCool)
    BY <1>4 DEF ObserveSample, HistoryIInv
  <2>2. watchdog' \in WatchdogStates /\ Below(watchdog') /\ trip' \in Trips /\ (watchdog'.tripped <=> trip' # "None")
    <3>1. watchdog \in WatchdogStates /\ t \in Temperatures /\ Below(watchdog)
      BY <1>1 DEF Below
    <3>2. watchdog' = Observe(watchdog, t) /\ trip' = TripOf(watchdog, t)
      BY <1>2
    <3>3. watchdog' \in WatchdogStates /\ Below(watchdog') /\ trip' \in Trips /\ (watchdog'.tripped <=> trip' # "None")
      BY <1>4, <3>1, <3>2, ObserveOK, LatchIsTrip
    <3> QED BY <3>3 DEF Below
  <2>3. HistoryTypeOK'
    BY <1>1, <2>1, <2>2 DEF HistoryTypeOK
  <2>4. watchdog'.lost = IF t.cpu = "invalid" THEN watchdog.lost + 1 ELSE 0
    BY <1>2, <1>4 DEF Observe
  <2>5. watchdog.lost \in Nat /\ watchdog'.lost \in Nat /\ watchdog.hot \in Nat
    BY <1>1, <2>2 DEF WatchdogStates
  <2>6. LostFor(watchdog.lost)'
    <3>1. PICK k \in Nat : k = watchdog.lost
      BY <2>5
    <3>2. LostFor(IF t.cpu = "invalid" THEN k + 1 ELSE 0)'
      BY <1>1, <2>1, <2>3, <3>1, LostGrows
    <3> QED BY <2>4, <3>1, <3>2 DEF LostFor, LastAll
  <2>7. LostByHistory' <=> t.cpu = "invalid" /\ watchdog.lost + 1 >= LostStreak
    <3>1. (HistoryTypeOK /\ LostFor(watchdog.lost) => (LostByHistory <=> watchdog.lost >= LostStreak))'
      BY CountDecides, PTL
    <3>2. LostByHistory' <=> watchdog'.lost >= LostStreak
      BY <2>3, <2>6, <3>1
    <3> QED BY <2>4, <2>5, <3>2, WatchdogAssumption
  <2>8. OverheatByHistory' <=> HotSample(t) /\ watchdog.hot + 1 >= TripStreak
    BY <1>1, <2>1, HotDecides
  <2>9. TripMatchesHistory'
    BY <1>2, <1>4, <2>2, <2>3, <2>7, <2>8 DEF TripOf, TripMatchesHistory
  <2>10. ASSUME ~watchdog'.tripped PROVE watchdog'.hot = Cardinality(HotSinceCool)'
    <3>1. TripOf(watchdog, t) = "None"
      BY <1>2, <2>2, <2>10
    <3>2. /\ HotSample(t) => watchdog'.hot = watchdog.hot + 1
          /\ CoolSample(t) => watchdog'.hot = 0
          /\ ~HotSample(t) /\ ~CoolSample(t) => watchdog'.hot = watchdog.hot
      BY <1>2, <1>4, <3>1 DEF Observe, CoolSample
    <3> QED BY <1>1, <2>1, <3>2, HotGrows
  <2> QED BY <2>2, <2>6, <2>9, <2>10 DEF HistoryIInv
<1> QED BY <1>3, <1>4

\* Every step keeps the invariant.
LEMMA HistoryGrows == ASSUME HistoryIInv, [HistoryNext]_historyVars PROVE HistoryIInv'
<1>1. ASSUME NEW t \in Temperatures, ObserveSample(t) PROVE HistoryIInv'
  BY <1>1, SampleOK
<1>2. ASSUME Rearm PROVE HistoryIInv'
  <2>1. (watchdog = Armed /\ history = << >> /\ trip = "None" => HistoryIInv)'
    BY EmptyOK, PTL
  <2> QED BY <1>2, <2>1 DEF Rearm
<1>3. ASSUME UNCHANGED historyVars PROVE HistoryIInv'
  BY <1>3 DEF historyVars, HistoryIInv, TripMatchesHistory, HistoryTypeOK, Below, LostFor, LostByHistory, LastAll, NoCpu,
    OverheatByHistory, HotOnes, HotSinceCool, Cool
<1> QED BY <1>1, <1>2, <1>3 DEF HistoryNext

\* Until a trip the counters are exact counts of the history, for all streak lengths.
THEOREM CountersExact == HistorySpec => []HistoryIInv
<1>1. HistoryInit => HistoryIInv
  BY EmptyOK DEF HistoryInit
<1> QED BY <1>1, HistoryGrows, PTL DEF HistorySpec

\* The watchdog trips exactly when the history since it was armed calls for a trip, with the
\* cause the history names, whatever order cool, hot and missing readings come in.
THEOREM HistoryCorrect == HistorySpec => []TripMatchesHistory
<1>1. HistoryIInv => TripMatchesHistory
  BY DEF HistoryIInv
<1> QED BY <1>1, CountersExact, PTL
=============================================================================
