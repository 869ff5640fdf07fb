----------------------------- MODULE Controller -----------------------------
(***************************************************************************)
(* The controller of src/control/controller.rs: the command handlers, the  *)
(* sample handler, and the life cycle they share, namely the mode, the     *)
(* Auto session, the calibration session that may suspend it, the global   *)
(* watchdog with its acknowledge gate, the shutdown fence, and per         *)
(* actuator the limit the status records beside the cap the hardware has.  *)
(*                                                                         *)
(* Watts and megahertz are abstracted to "capped or stock".  What a        *)
(* DeviceLoop asks for, what the read-back finds and whether a timer is    *)
(* due are choices, so a handler here allows every outcome the numbers     *)
(* could produce; the read-back verdicts themselves are in Readback.tla.   *)
(* A handler is one step: the controller thread runs one at a time.        *)
(***************************************************************************)
EXTENDS Watchdog

VARIABLES
  mode,         \* status.mode
  session,      \* auto.is_some()
  viewInit,     \* AutoState.view_initialised
  gains,        \* whether the session's loops got the gains of a view's key
  tstar,        \* status.tstar_state
  calib,        \* calib: no runner, a fresh one, or one that established its pair
  fromAuto,     \* calib_started_from_auto
  reentryHold,  \* calib_reentry_hold
  burner,       \* burner.is_some()
  wd,           \* watchdog
  alarm,        \* the emergency flags up in status.flags
  cap,          \* per actuator: the limit in the status, the cap in the hardware
  fence,        \* main's shutdown flag
  alive         \* the controller thread serves its channels

sessionVars == <<session, viewInit, gains, tstar>>
calibVars   == <<calib, fromAuto, reentryHold, burner>>
watchVars   == <<wd, alarm>>
threadVars  == <<fence, alive>>
vars == <<mode, sessionVars, calibVars, watchVars, cap, threadVars>>

Device == {"cpu", "gpu"}
Modes  == {"Monitor", "Manual", "Auto", "Calibrating"}
Caps   == [limit : BOOLEAN, hw : BOOLEAN]
Alarms == {"ThermalEmergency", "SensorLost"}
Stock  == [limit |-> FALSE, hw |-> FALSE]
Capped == [limit |-> TRUE, hw |-> TRUE]

Init ==
  /\ mode = "Monitor"
  /\ session = FALSE /\ viewInit = FALSE /\ gains = "default" /\ tstar = "none"
  /\ calib = "none" /\ fromAuto = FALSE /\ reentryHold = FALSE /\ burner = FALSE
  /\ wd = Armed /\ alarm = {}
  /\ cap = [d \in Device |-> Stock]
  /\ fence = FALSE /\ alive = TRUE
-----------------------------------------------------------------------------
(* What one actuator's limit and cap may be after an operation on them.    *)

\* A write that was not verified leaves the status unchanged.  A ryzenadj write that could
\* not be read back may be in force; a failed NVML call is not.
Unverified(d, c) ==
  {[c EXCEPT !.hw = h] : h \in {c.hw} \cup (IF d = "cpu" THEN {TRUE} ELSE {})}

\* A write: verified and recorded, or not.
Written(d, c) == {Capped} \cup Unverified(d, c)

\* A guard's restore at exit: the hardware goes back to stock unless the restore fails.
Restored(c) == {[c EXCEPT !.hw = h] : h \in {FALSE, c.hw}}

\* Mutation: a release that leaves the limit in the status.
ReleasedButRecorded(c) == Restored(c)

\* A release: the status forgets the limit whether or not the restore succeeded.
Released(c) == {[limit |-> FALSE, hw |-> h] : h \in {FALSE, c.hw}}

\* Maintenance of a recorded limit: nothing due, a repair, or in a session the release of
\* an actuator that keeps failing its read-back, after a last attempt to repair it.
Reasserted(d, c) ==
  IF ~c.limit THEN {c}
  ELSE {c, Capped} \cup (IF session /\ d = "cpu" THEN Released(Capped) ELSE {})

\* One tick of the session's loop: no write, a write, or a release on a bad verdict.
Decided(d, c) ==
  LET attempts == {c} \cup Written(d, c)
  IN  attempts \cup (IF d = "cpu" THEN UNION {Released(a) : a \in attempts} ELSE Released(c))

\* What a session's sample does to an actuator: resume reassert, the tick, then the
\* stickiness and periodic reasserts.
Ticked(d, c) ==
  UNION {Reasserted(d, a) : a \in UNION {Decided(d, b) : b \in Reasserted(d, c)}}

\* The first sample in the Released state gives the caps up, whatever the errors.
GivenUp(d, c) == UNION {Released(a) : a \in Reasserted(d, c)}

\* What a runner's abort writes: the pair it established, unless main is shutting down.
Aborted(d, c) == IF calib = "held" /\ ~fence THEN Written(d, c) ELSE {c}

\* All assignments that pick for each actuator one of its outcomes.
CapsIn(outcomes) == {f \in [Device -> Caps] : \A d \in Device : f[d] \in outcomes[d]}

AnythingCommanded == mode # "Monitor" \/ \E d \in Device : cap[d].limit
-----------------------------------------------------------------------------
(* Shared tails of the handlers.                                           *)

\* exit_auto_and_persist and the status half of release_to_stock.
DropSession ==
  /\ session' = FALSE /\ viewInit' = FALSE /\ gains' = "default" /\ tstar' = "none"

\* Mutation: a calibration that always ends in Monitor.
NeverResumes == FALSE

\* Whether end_calibration resumes the Auto session the calibration suspended.
ResumesAuto == fromAuto /\ session

\* end_calibration.
EndCalibration ==
  /\ calib' = "none" /\ burner' = FALSE /\ fromAuto' = FALSE
  /\ mode' = IF ResumesAuto THEN "Auto" ELSE "Monitor"
  /\ reentryHold' = ResumesAuto

\* emergency_release: abort a calibration, leave Auto, release, raise the flag.
EmergencyRelease(trip) ==
  /\ cap' \in CapsIn([d \in Device |-> UNION {Released(c) : c \in Aborted(d, cap[d])}])
  /\ mode' = "Monitor"
  /\ DropSession
  /\ calib' = "none" /\ burner' = FALSE /\ fromAuto' = FALSE
  /\ reentryHold' = IF calib # "none" THEN ResumesAuto ELSE reentryHold
  /\ alarm' = alarm \cup {IF trip = "Thermal" THEN "ThermalEmergency" ELSE "SensorLost"}
-----------------------------------------------------------------------------
(* Commands.  A handler that only warns and returns is a stutter step.     *)

\* Mutation: only one of the two emergency flags is cleared.
HeatAcknowledged == alarm \ {"ThermalEmergency"}

\* The flags an acknowledgement leaves up.
Acknowledged == alarm \ {"ThermalEmergency", "SensorLost"}

\* The acknowledge gate: the first actuating command after a trip is swallowed.
Acknowledge ==
  /\ alive /\ wd.tripped
  /\ wd' = Armed /\ alarm' = Acknowledged
  /\ UNCHANGED <<mode, sessionVars, calibVars, cap, threadVars>>

\* Mutations: the gate forgotten, the fence forgotten in the setters.
Ungated == alive
Unfenced == alive /\ ~wd.tripped /\ mode \in {"Monitor", "Manual"}

\* An actuating command passes the acknowledge gate.
Gated == alive /\ ~wd.tripped

\* A manual setter reaches its actuator.
MaySet == Gated /\ mode \in {"Monitor", "Manual"} /\ ~fence

\* SetCpuW and SetGpuMaxClock: only a verified write is recorded and enters Manual.
SetLimit(d) ==
  /\ MaySet
  /\ \/ cap' = [cap EXCEPT ![d] = Capped] /\ mode' = "Manual"
     \/ cap' \in {[cap EXCEPT ![d] = c] : c \in Unverified(d, cap[d])} /\ UNCHANGED mode
  /\ UNCHANGED <<sessionVars, calibVars, watchVars, threadVars>>

\* ReleaseAll, and SetAuto(false) which does the same from Auto only.
ReleaseAll ==
  /\ alive /\ mode # "Calibrating"
  /\ DropSession
  /\ cap' \in CapsIn([d \in Device |-> Released(cap[d])])
  /\ mode' = "Monitor"
  /\ UNCHANGED <<calibVars, watchVars, threadVars>>

\* SetAuto(true): a fresh AutoState; recorded limits stay for the first sample to replace.
EnterAuto ==
  /\ Gated /\ mode \in {"Monitor", "Manual"}
  /\ mode' = "Auto" /\ session' = TRUE
  /\ viewInit' = FALSE /\ gains' = "default"
  /\ UNCHANGED <<tstar, calibVars, watchVars, cap, threadVars>>

\* StartCalibration suspends Monitor or Auto; the runner writes nothing yet.
StartCalibration ==
  /\ Gated /\ mode \in {"Monitor", "Auto"}
  /\ mode' = "Calibrating" /\ calib' = "started"
  /\ fromAuto' = (mode = "Auto") /\ reentryHold' = FALSE
  /\ UNCHANGED <<burner, sessionVars, watchVars, cap, threadVars>>

\* AbortCalibration: the runner restores its pair, then the session ends.
AbortCalibration ==
  /\ alive /\ calib # "none"
  /\ cap' \in CapsIn([d \in Device |-> Aborted(d, cap[d])])
  /\ EndCalibration
  /\ UNCHANGED <<sessionVars, watchVars, threadVars>>

\* Quit, which main sends only with its shutdown flag up: the runner's abort is fenced,
\* the guard restores both actuators, the thread leaves its loop.
Quit ==
  /\ alive /\ fence /\ alive' = FALSE
  /\ cap' \in CapsIn([d \in Device |-> Restored(cap[d])])
  /\ IF calib # "none" THEN EndCalibration ELSE UNCHANGED <<mode, calibVars>>
  /\ session' = FALSE /\ viewInit' = FALSE /\ gains' = "default"
  /\ tstar' = IF session THEN "none" ELSE tstar
  /\ UNCHANGED <<watchVars, fence>>

\* Main is gone without a Quit: the loop ends and the guard restores; dropping the
\* controller stops the burner.
Disconnect ==
  /\ alive /\ alive' = FALSE /\ burner' = FALSE
  /\ cap' \in CapsIn([d \in Device |-> Restored(cap[d])])
  /\ UNCHANGED <<mode, sessionVars, calib, fromAuto, reentryHold, watchVars, fence>>
-----------------------------------------------------------------------------
(* Samples.  A queued sample is drained unserviced once the fence is up.   *)

\* Mutation: a trip with nothing to release stays latched.
WatchedIdle(t) == Observe(wd, t)

\* The watchdog after a sample: a trip with nothing commanded re-arms on the spot.
Watched(t) ==
  IF TripOf(wd, t) # "None" /\ ~AnythingCommanded THEN Armed ELSE Observe(wd, t)

\* A trip while anything is commanded: release everything and return.
TripSample(t) ==
  /\ alive /\ ~fence
  /\ TripOf(wd, t) # "None" /\ AnythingCommanded
  /\ wd' = Watched(t)
  /\ EmergencyRelease(TripOf(wd, t))
  /\ UNCHANGED threadVars

\* Every other sample passes the watchdog first.
Serviced(t) ==
  /\ alive /\ ~fence
  /\ TripOf(wd, t) = "None" \/ ~AnythingCommanded
  /\ wd' = Watched(t)
  /\ UNCHANGED <<alarm, threadVars>>

\* on_calib_sample: maintenance of the CPU cap and the runner's writes.  The first one
\* starts the burner and establishes the pair; a runner that is done, because both steps
\* concluded or because it aborted itself, restores the pair and ends the session.
CalibSample(t) ==
  /\ Serviced(t)
  /\ mode = "Calibrating"
  /\ cap' \in CapsIn([d \in Device |-> Written(d, cap[d])])
  /\ \/ calib' = "held" /\ burner' = TRUE /\ UNCHANGED <<mode, fromAuto, reentryHold>>
     \/ EndCalibration
  /\ UNCHANGED sessionVars

\* reseed_auto_after_calibration: the held sample, which writes nothing.
HoldSample(t, view) ==
  /\ Serviced(t)
  /\ mode = "Auto" /\ reentryHold
  /\ reentryHold' = FALSE
  /\ viewInit' = (view = "fresh")
  /\ UNCHANGED <<mode, session, gains, tstar, calib, fromAuto, burner, cap>>

Views == {"absent", "stale", "fresh"}

\* Gains are looked up on every replacement of the view and until one was usable.
Resolves(view, changed) == view # "absent" /\ (changed \/ ~viewInit)

\* on_auto_sample_v4 with the rest of on_sample: a Released target source drops the
\* engagement and releases the caps on entry only; a usable one drives the loops.
AutoSample(t, view, changed) ==
  /\ Serviced(t)
  /\ mode = "Auto" /\ ~reentryHold
  /\ gains' = IF Resolves(view, changed) THEN "resolved" ELSE gains
  /\ \/ /\ tstar' = "Released" /\ viewInit' = FALSE
        /\ cap' \in CapsIn([d \in Device |-> IF tstar = "Released" THEN Reasserted(d, cap[d])
                                                               ELSE GivenUp(d, cap[d])])
     \/ /\ tstar' = "usable" /\ viewInit' = (viewInit \/ view = "fresh")
        /\ cap' \in CapsIn([d \in Device |-> Ticked(d, cap[d])])
  /\ UNCHANGED <<mode, session, calibVars>>

\* Monitor and Manual: stickiness and periodic maintenance of what is recorded.
ManualSample(t) ==
  /\ Serviced(t)
  /\ mode \in {"Monitor", "Manual"}
  /\ cap' \in CapsIn([d \in Device |-> Reasserted(d, cap[d])])
  /\ UNCHANGED <<mode, sessionVars, calibVars>>
-----------------------------------------------------------------------------
(* The surroundings.                                                       *)

\* Firmware, a suspend or another power daemon puts an actuator back to stock.
FirmwareReset(d) ==
  /\ cap[d].hw
  /\ cap' = [cap EXCEPT ![d].hw = FALSE]
  /\ UNCHANGED <<mode, sessionVars, calibVars, watchVars, threadVars>>

\* Main raises the shutdown flag, before it sends Quit.
RaiseFence ==
  /\ ~fence /\ fence' = TRUE
  /\ UNCHANGED <<mode, sessionVars, calibVars, watchVars, cap, alive>>

Command ==
  \/ Acknowledge \/ ReleaseAll \/ EnterAuto \/ StartCalibration \/ AbortCalibration
  \/ \E d \in Device : SetLimit(d)

Sample ==
  \E t \in Temperatures :
    \/ TripSample(t) \/ CalibSample(t) \/ ManualSample(t)
    \/ \E view \in Views : HoldSample(t, view) \/ \E changed \in BOOLEAN : AutoSample(t, view, changed)

Environment == RaiseFence \/ Quit \/ Disconnect \/ \E d \in Device : FirmwareReset(d)

Next == Command \/ Sample \/ Environment

Spec == Init /\ [][Next]_vars
-----------------------------------------------------------------------------
(* Properties.                                                             *)

\* Every variable stays in the range the code gives it.
TypeOK ==
  /\ mode \in Modes
  /\ session \in BOOLEAN /\ viewInit \in BOOLEAN
  /\ gains \in {"default", "resolved"} /\ tstar \in {"none", "usable", "Released"}
  /\ calib \in {"none", "started", "held"}
  /\ fromAuto \in BOOLEAN /\ reentryHold \in BOOLEAN /\ burner \in BOOLEAN
  /\ wd \in WatchdogStates /\ alarm \subseteq Alarms
  /\ cap \in [Device -> Caps]
  /\ fence \in BOOLEAN /\ alive \in BOOLEAN

\* The latch and the emergency flags move in lockstep, whatever interleaving of idle
\* re-arms, trips and acknowledgements led here: gating on one is gating on the other.
LatchMatchesAlarm == wd.tripped <=> alarm # {}

\* While an emergency is latched nothing is commanded and nothing that could command
\* is left: no mode, no session, no calibration, no burner, no recorded limit.
EmergencyHoldsReleased ==
  wd.tripped =>
    /\ ~AnythingCommanded
    /\ ~session /\ calib = "none" /\ ~burner

\* The Auto session lives exactly in Auto and in a calibration that suspended Auto; a
\* runner exists exactly in Calibrating, and the burner never outlives its runner.
SessionShape ==
  alive =>
    /\ session <=> (mode = "Auto" \/ (mode = "Calibrating" /\ fromAuto))
    /\ calib # "none" <=> mode = "Calibrating"
    /\ burner => mode = "Calibrating"
    /\ fromAuto => mode = "Calibrating"

\* Some actuator goes from stock to capped in this step.
Raises == \E d \in Device : ~cap[d].hw /\ cap'[d].hw

\* A latched emergency release holds: no command, sample or maintenance caps an actuator
\* until the user has acknowledged, and not in the acknowledging command either.
NoRaiseWhileTripped == [][wd.tripped => ~Raises]_vars

\* The stop fence: no handler that begins with main's flag up, command, sample, abort or
\* Quit, caps an actuator.  A handler the flag overtakes is Shutdown's FencedIssuesNoWrite.
FencedNeverRaises == [][fence => ~Raises]_vars

\* The streaks of an armed watchdog are short of their trip points.
StreaksBelow == ~wd.tripped => wd.hot < TripStreak /\ wd.lost < LostStreak

\* The inductive strengthening of the invariants above.
IInv ==
  /\ TypeOK /\ StreaksBelow
  /\ LatchMatchesAlarm /\ EmergencyHoldsReleased /\ SessionShape

\* Who holds the authority to cap, in the terms of CapAuthority.
Authority ==
  CASE ~alive -> "over"
    [] alive /\ wd.tripped -> "latched"
    [] alive /\ ~wd.tripped /\ AnythingCommanded -> "commanded"
    [] OTHER -> "none"

Promise == INSTANCE CapAuthority WITH authority <- Authority

\* The controller implements the authority it promises: a trip takes what was commanded
\* and latches, only an acknowledgement that commands nothing unlatches.
KeepsAuthority == Promise!Spec
-----------------------------------------------------------------------------
(* What comments and design documents say and the code does not do; TLC    *)
(* refutes each (README, Disagreements).                                   *)

\* "Resolve on the first usable view as well as on every view replacement"
\* (on_auto_sample_v4): once Auto has initialised itself from a view, its loops have
\* the gains of that view's key.
FirstViewResolvesGains == mode = "Auto" /\ viewInit => gains = "resolved"

\* "Released ... caps released to stock" (design, target source states): a sample that
\* finds the target source Released leaves no limit recorded.
ReleasedMeansStock ==
  [][\A t \in Temperatures, view \in Views, changed \in BOOLEAN :
       AutoSample(t, view, changed) /\ tstar' = "Released" => \A d \in Device : ~cap'[d].limit]_vars
=============================================================================
