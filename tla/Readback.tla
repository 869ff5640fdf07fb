------------------------------ MODULE Readback ------------------------------
(***************************************************************************)
(* Whether the commanded limits hold: the read-back verdicts of the Auto   *)
(* session (VerdictState), the GPU lock verifier that feeds one of them,   *)
(* the RAPL stickiness watchdog, the maintenance of recorded limits, and   *)
(* the two status flags they share (src/control/controller.rs).            *)
(*                                                                         *)
(* A sample is one step at 1 Hz: it runs resume reassert, the writes of    *)
(* the tick, the stickiness check and the periodic reassert in this order, *)
(* each on the result w of the one before, over every reading the hardware *)
(* could give.  Watts and clocks are abstracted to the verdict they earn.  *)
(* A DeviceLoop may or may not ask for a write, a period may or may not be *)
(* over.  The shutdown fence is Controller's.                              *)
(***************************************************************************)
EXTENDS Naturals, FiniteSetsExt

CONSTANTS
  MismatchStrikes,  \* MISMATCH_RELEASE_STRIKES
  BlindStrikes,     \* READBACK_BLIND_STRIKES
  VerifyStrikes,    \* VERIFY_STRIKES of the GPU lock verifier
  SuppressTicks,    \* ON_AC_EDGE_SUPPRESS_S at 1 Hz
  StickSamples,     \* STICKINESS_SAMPLES
  StrictSamples     \* STICKINESS_SAMPLES_STRICT

ASSUME StrikesAssumption ==
  /\ {MismatchStrikes, BlindStrikes, VerifyStrikes, StrictSamples} \subseteq Nat \ {0}
  /\ SuppressTicks \in Nat
  /\ StickSamples \in Nat /\ StrictSamples <= StickSamples

VARIABLES
  phase,    \* the session: none, Auto, a calibration, one that suspended Auto, the held sample
  source,   \* status.tstar_state: whether the target source was last seen Released
  quiet,    \* ticks left in which the last on_ac edge suppresses mismatches
  acKnown,  \* last_on_ac.is_some()
  strict,   \* the stricter stickiness window after a resume is open
  w         \* what the stages of a sample work on, see Work

vars == <<phase, source, quiet, acKnown, strict, w>>

Phases   == {"idle", "auto", "calib", "suspended", "hold"}
Flags    == {"LimitNotSticking", "ReadbackBlind"}
Verdicts == [mis : 0..MismatchStrikes - 1, unr : 0..BlindStrikes, released : BOOLEAN, blind : BOOLEAN]

\* cv, gv: the verdict states; limit, lock: recorded in the status; cmd, streak: completed
\* GPU commands and the verifier's violation_streak; stick: stick_violations; done: a
\* reassert was attempted in this sample.
Work ==
  [cv : Verdicts, gv : Verdicts, limit : BOOLEAN, lock : BOOLEAN, flags : SUBSET Flags,
   cmd : BOOLEAN, streak : 0..VerifyStrikes,
   stick : 0..StickSamples - 1, done : BOOLEAN]

Fresh == [mis |-> 0, unr |-> 0, released |-> FALSE, blind |-> FALSE]

Init ==
  /\ phase = "idle" /\ source = "usable" /\ quiet = 0 /\ acKnown = FALSE /\ strict = FALSE
  /\ w = [cv |-> Fresh, gv |-> Fresh, limit |-> FALSE, lock |-> FALSE, flags |-> {},
          cmd |-> FALSE, streak |-> 0, stick |-> 0, done |-> FALSE]
-----------------------------------------------------------------------------
(* The verdict state machine.                                              *)

InEpisode(v) == v.mis > 0 \/ v.released
Trouble(s) == InEpisode(s.cv) \/ InEpisode(s.gv)

\* The release strike.
GivesUp(v, verdict, suppress) ==
  verdict = "Mismatch" /\ ~suppress /\ v.mis + 1 >= MismatchStrikes

\* Counters saturate; past the blind threshold they are told apart no more.
Blinder(v) ==
  LET n == Min({v.unr + 1, BlindStrikes})
  IN  [v EXCEPT !.unr = n, !.blind = @ \/ n = BlindStrikes]

\* Mutation: mismatches count inside the suppression window too.
ObservedUnsuppressed(v, verdict, suppress) ==
  CASE verdict = "Verified" -> Fresh
    [] verdict = "Unreadable" -> IF suppress THEN v ELSE Blinder(v)
    [] verdict = "Unverifiable" -> [v EXCEPT !.unr = 0]
    [] OTHER -> [v EXCEPT !.unr = 0, !.mis = (v.mis + 1) % MismatchStrikes,
                          !.released = @ \/ v.mis + 1 >= MismatchStrikes]

\* VerdictState::observe of a confirmed verdict.
Observed(v, verdict, suppress) ==
  CASE verdict = "Verified" -> Fresh
    [] verdict = "Unreadable" -> IF suppress THEN v ELSE Blinder(v)
    [] verdict = "Unverifiable" -> [v EXCEPT !.unr = 0]
    [] OTHER -> IF suppress THEN [v EXCEPT !.unr = 0]
                ELSE IF GivesUp(v, verdict, suppress)
                     THEN [v EXCEPT !.unr = 0, !.mis = 0, !.released = TRUE]
                     ELSE [v EXCEPT !.unr = 0, !.mis = @ + 1]

\* sync_limit_not_sticking only adds, sync_readback_blind follows both ways.
Synced(s) ==
  LET sticking == IF Trouble(s) THEN s.flags \cup {"LimitNotSticking"} ELSE s.flags
  IN  [s EXCEPT !.flags = IF s.cv.blind \/ s.gv.blind THEN sticking \cup {"ReadbackBlind"}
                                                     ELSE sticking \ {"ReadbackBlind"}]

\* A confirmed CPU verdict in a session: scored, released on the last strike, synced.
CpuScored(s, verdict, suppress) ==
  Synced([s EXCEPT !.cv = Observed(@, verdict, suppress),
                   !.limit = @ /\ ~GivesUp(s.cv, verdict, suppress)])

\* What a CPU write or check can find.
CpuVerdicts == {"Verified", "Mismatch", "Unreadable"}

\* Mutation: a write is recorded whatever its verdict.
RecordedBlindly(s, suppress) ==
  {s} \cup {[CpuScored(s, v, suppress) EXCEPT !.limit = TRUE] : v \in CpuVerdicts}

\* The CPU half of write_device_decisions: no write asked for or due, or a write (with its
\* corrective second one) whose verdict is scored; a verified one is recorded.
CpuWritten(s, suppress) ==
  {s} \cup {CpuScored([s EXCEPT !.limit = @ \/ v = "Verified"], v, suppress) : v \in CpuVerdicts}
-----------------------------------------------------------------------------
(* The GPU: its clock is read before the tick's own write.                 *)

\* A clock sample: invalid, under the load floor, within or over the lock.
GpuReadings == {"none", "idle", "held", "over"}

\* verify_paired: the verdict a clock reading earns against the completed commands.
GpuVerdict(s, reading) ==
  CASE ~s.cmd \/ reading = "idle" -> "Unverifiable"
    [] reading = "held" -> "Verified"
    [] OTHER -> IF s.streak + 1 >= VerifyStrikes THEN "Mismatch" ELSE "Unverifiable"

\* The verifier's streak after a reading.
GpuRead(s, reading) ==
  IF ~s.cmd THEN s
  ELSE [s EXCEPT !.streak = IF reading = "over" THEN Min({@ + 1, VerifyStrikes}) ELSE 0]

GpuScored(s, verdict, suppress) ==
  Synced([s EXCEPT !.gv = Observed(@, verdict, suppress),
                   !.lock = @ /\ ~GivesUp(s.gv, verdict, suppress)])

\* A lock write: it fails, or it is recorded and its command kept.  The verifier's streak
\* stays: no lock write replaces the verifier.
GpuWritten(s) == {s, [s EXCEPT !.lock = TRUE, !.cmd = TRUE]}

\* The GPU half of write_device_decisions: no write in the sample that released the lock.
GpuDecided(s, suppress, resumed) ==
  UNION {
    IF reading = "none" THEN {s} \cup GpuWritten(s)
    ELSE LET verdict == GpuVerdict(s, reading)
             scored  == GpuScored(GpuRead(s, reading), verdict, suppress)
         IN  IF GivesUp(s.gv, verdict, suppress) THEN {scored}
             ELSE {scored} \cup GpuWritten(scored)
    : reading \in IF resumed THEN {"none"} ELSE GpuReadings }
-----------------------------------------------------------------------------
(* Maintenance and stickiness.                                             *)

\* The lock half of reassert_actuators; only a session keeps the command.
LockReasserted(s, inAuto) ==
  IF s.lock THEN {[s EXCEPT !.done = TRUE], [s EXCEPT !.done = TRUE, !.cmd = @ \/ inAuto]} ELSE {s}

\* reassert_actuators: the CPU cap is read, repaired on a mismatch and scored in a session;
\* a read that merely matches is not an attempt.
Reasserted(s, suppress, inAuto) ==
  LET checked ==
        IF ~s.limit THEN {s}
        ELSE UNION {
          LET scored == IF inAuto THEN CpuScored(s, v, suppress) ELSE s
          IN  {[scored EXCEPT !.done = TRUE]} \cup (IF v = "Verified" THEN {scored} ELSE {})
          : v \in CpuVerdicts }
  IN  UNION {LockReasserted(c, inAuto) : c \in checked}

\* Mutation: a compliant sample clears the flag in the middle of an episode.
CompliantAlways(s) == [s EXCEPT !.stick = 0, !.flags = @ \ {"LimitNotSticking"}]

\* A sample within the limit ends the streak, and the flag unless a verdict is in trouble.
Compliant(s) ==
  [s EXCEPT !.stick = 0, !.flags = IF Trouble(s) THEN @ ELSE @ \ {"LimitNotSticking"}]

\* A sample above the limit: at the end of the streak the limits are reasserted and flagged.
Violating(s, needed, suppress, inAuto) ==
  IF s.stick + 1 < needed THEN {[s EXCEPT !.stick = @ + 1]}
  ELSE {[r EXCEPT !.flags = @ \cup {"LimitNotSticking"}]
        : r \in Reasserted([s EXCEPT !.stick = 0], suppress, inAuto)}

\* The stickiness watchdog; RAPL may have nothing valid to say.
Stickiness(s, needed, suppress, inAuto) ==
  IF s.limit THEN {s, Compliant(s)} \cup Violating(s, needed, suppress, inAuto) ELSE {s}

\* The periodic reassert, due or not, never in a sample that already attempted one.
Periodic(s, suppress, inAuto) ==
  {s} \cup (IF s.done THEN {} ELSE Reasserted(s, suppress, inAuto))

\* The tail every Monitor, Manual and Auto sample shares.
Maintained(s, needed, suppress, inAuto) ==
  UNION {Periodic(a, suppress, inAuto) : a \in Stickiness(s, needed, suppress, inAuto)}

\* The streak at which the stickiness watchdog fires.
Needed(isStrict) == IF isStrict THEN StrictSamples ELSE StickSamples

\* A sample starts with no attempt made, and ends with the mark forgotten.
Settled(results) == {[r EXCEPT !.done = FALSE] : r \in results}
-----------------------------------------------------------------------------
(* Samples.                                                                *)

\* A session whose verdicts and GPU evidence start over.
Rearmed(s) ==
  [s EXCEPT !.cv = Fresh, !.gv = Fresh, !.cmd = FALSE, !.streak = 0]

\* What the resume of a session does before the tick.
Resumed(s, inAuto) == Reasserted(IF inAuto THEN Rearmed(s) ELSE s, FALSE, inAuto)

\* The first sample in Released gives the limits up; all end the device engagement, and
\* leave the reassert baseline to be pinned anew.
Disengaged(s) ==
  LET down == [Rearmed(s) EXCEPT !.stick = 0, !.flags = {}, !.done = TRUE]
  IN  IF source = "Released" THEN down ELSE [down EXCEPT !.limit = FALSE, !.lock = FALSE]

\* The stricter window opens on a resume and closes after a while.
Window(resumed) ==
  strict' \in IF resumed THEN {TRUE} ELSE IF strict THEN BOOLEAN ELSE {FALSE}

\* Ticks an on_ac edge still suppresses; a resume gap outlasts them.
QuietAfter(edge, resumed) ==
  IF edge THEN SuppressTicks ELSE IF resumed \/ quiet = 0 THEN 0 ELSE quiet - 1

\* on_auto_sample_v4 between the resume reassert and the shared tail.
AutoSample(edge, resumed) ==
  /\ phase = "auto"
  /\ edge => acKnown
  /\ acKnown' = TRUE /\ quiet' = QuietAfter(edge, resumed) /\ Window(resumed)
  /\ LET suppress == quiet' > 0
         begun    == IF resumed THEN Resumed(w, TRUE) ELSE {w}
         written  == UNION {GpuDecided(c, suppress, resumed)
                            : c \in UNION {CpuWritten(b, suppress) : b \in begun}}
     IN  \/ /\ source' = "usable"
            /\ w' \in Settled(UNION {Maintained(a, Needed(strict'), suppress, TRUE) : a \in written})
         \/ /\ source' = "Released"
            /\ w' \in Settled(UNION {Maintained(Disengaged(b), Needed(strict'), suppress, TRUE)
                                     : b \in begun})
  /\ UNCHANGED phase

\* Monitor and Manual: the same maintenance without verdicts.
ManualSample(resumed) ==
  /\ phase = "idle"
  /\ Window(resumed)
  /\ \E b \in IF resumed THEN Resumed(w, FALSE) ELSE {w} :
       w' \in Settled(Maintained(b, Needed(strict'), FALSE, FALSE))
  /\ UNCHANGED <<phase, source, quiet, acKnown>>

\* The writes of a calibration sample record limits and score nothing.
CalibSample ==
  /\ phase \in {"calib", "suspended"}
  /\ \E limit \in {w.limit, TRUE}, lock \in {w.lock, TRUE} :
       w' = [w EXCEPT !.limit = limit, !.lock = lock]
  /\ UNCHANGED <<phase, source, quiet, acKnown, strict>>

\* The held sample after a calibration takes on_ac as it finds it.
HoldSample ==
  /\ phase = "hold" /\ phase' = "auto"
  /\ quiet' = 0 /\ acKnown' = TRUE
  /\ UNCHANGED <<source, strict, w>>
-----------------------------------------------------------------------------
(* Commands and the end of a calibration.                                  *)

\* SetCpuW verified, SetGpuMaxClock accepted.
SetLimit ==
  /\ phase = "idle"
  /\ w' \in {[w EXCEPT !.limit = TRUE, !.stick = 0], [w EXCEPT !.lock = TRUE]}
  /\ UNCHANGED <<phase, source, quiet, acKnown, strict>>

\* SetAuto(true): an AutoState whose verdicts start fresh.
EnterAuto ==
  /\ phase = "idle" /\ phase' = "auto"
  /\ quiet' = 0 /\ acKnown' = FALSE
  /\ w' = Rearmed(w)
  /\ UNCHANGED <<source, strict>>

\* Mutation: the flags of the session survive its release.
FlagsKept(s) == [Rearmed(s) EXCEPT !.limit = FALSE, !.lock = FALSE, !.stick = 0]

\* release_to_stock and the drop of the session.
ReleasedToStock(s) ==
  [Rearmed(s) EXCEPT !.limit = FALSE, !.lock = FALSE, !.flags = {}, !.stick = 0]

\* ReleaseAll, SetAuto(false), or an emergency, which ends a calibration too.
Release ==
  /\ phase' = "idle" /\ source' = "usable" /\ quiet' = 0 /\ acKnown' = FALSE
  /\ w' = ReleasedToStock(w)
  /\ UNCHANGED strict

\* A calibration suspends what it finds.
StartCalibration ==
  /\ phase \in {"idle", "auto"}
  /\ phase' = IF phase = "auto" THEN "suspended" ELSE "calib"
  /\ UNCHANGED <<source, quiet, acKnown, strict, w>>

\* end_calibration, after the restoring writes: a suspended session resumes, verdicts over.
EndCalibration ==
  /\ phase \in {"calib", "suspended"}
  /\ \E limit \in {w.limit, TRUE}, lock \in {w.lock, TRUE} :
       LET ended == [w EXCEPT !.limit = limit, !.lock = lock]
       IN  IF phase = "suspended" THEN phase' = "hold" /\ w' = Rearmed(ended)
                                  ELSE phase' = "idle" /\ w' = ended
  /\ UNCHANGED <<source, quiet, acKnown, strict>>

Sample ==
  \/ CalibSample \/ HoldSample
  \/ \E resumed \in BOOLEAN : ManualSample(resumed) \/ \E edge \in BOOLEAN : AutoSample(edge, resumed)

Next == Sample \/ SetLimit \/ EnterAuto \/ Release \/ StartCalibration \/ EndCalibration

Spec == Init /\ [][Next]_vars
-----------------------------------------------------------------------------
(* Properties.                                                             *)

\* Every variable stays in the range the code gives it.
TypeOK ==
  /\ phase \in Phases /\ source \in {"usable", "Released"}
  /\ quiet \in 0..SuppressTicks /\ acKnown \in BOOLEAN /\ strict \in BOOLEAN
  /\ w \in Work

\* The flags of a work record say what its verdicts do.
Flagged(s) ==
  /\ Trouble(s) => "LimitNotSticking" \in s.flags
  /\ s.cv.blind \/ s.gv.blind => "ReadbackBlind" \in s.flags

\* Two owners share LimitNotSticking, the verdicts add and the stickiness watchdog removes:
\* in no order of theirs is the flag down while a session's actuator is in an episode.
\* A session whose read-back went blind says so, in a suspending calibration too.
TroubleIsFlagged == TypeOK /\ Flagged(w)

\* A released CPU has no limit.
ReleasedOK(s) == s.cv.released => ~s.limit

\* Once its verdicts released the CPU, Auto has no CPU limit recorded until a write is
\* verified again: stickiness and maintenance cannot bring the old one back.
ReleasedCpuHasNoLimit == phase = "auto" => ReleasedOK(w)

\* Without a session to clear it there is no flag.
NoOrphan(s) ==
  /\ "ReadbackBlind" \notin s.flags
  /\ "LimitNotSticking" \in s.flags => s.limit

\* Outside a session no flag is left that nothing there could clear: a blind read-back is
\* the session's, and stickiness only watches a recorded limit.
NoOrphanFlag == phase \in {"idle", "calib"} => NoOrphan(w)

\* The strengthening that makes the three inductive: they hold after every stage of a sample, and
\* only a session has verdicts, which it lends to the calibration that suspends it and to nothing else.
NoVerdicts(s) == s.cv = Fresh /\ s.gv = Fresh

IInv ==
  /\ TypeOK
  /\ Flagged(w)
  /\ phase = "auto" => ReleasedOK(w)
  /\ phase \in {"idle", "calib", "hold"} => NoVerdicts(w)
  /\ phase \in {"idle", "calib"} => NoOrphan(w)

\* A mismatch was scored against the actuator in this step.
Strike(v, u) == u.mis > v.mis \/ (u.released /\ ~v.released)

\* While the suppression after an on_ac edge runs down, no path of a sample, write, clock
\* reading, stickiness or periodic reassert, scores a mismatch.
QuietScoresNothing ==
  [][0 < quiet' /\ quiet' < quiet => ~Strike(w.cv, w'.cv) /\ ~Strike(w.gv, w'.gv)]_vars
-----------------------------------------------------------------------------
(* What comments say and the code does not do (README, Disagreements).     *)

\* "Feed one tick's CONFIRMED WriteVerdict" (VerdictState::observe): one sample does not
\* take the CPU from no strike to its release.
OneVerdictPerTick == [][w'.cv.released /\ ~w.cv.released => w.cv.mis > 0]_vars
=============================================================================
