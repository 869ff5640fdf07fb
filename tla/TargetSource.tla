---------------------------- MODULE TargetSource ----------------------------
(***************************************************************************)
(* The shared temperature target T* of an Auto session                     *)
(* (src/control/tstar.rs): derived from the fan curve when the view of     *)
(* fw-fanctrl has earned it, else held and trimmed by the fan speed.       *)
(*                                                                         *)
(* A tick is one sample.  The variant Uncontrollable of the code's state   *)
(* is left out: nothing enters it.  Temperatures are levels under the      *)
(* ceiling of the hot guards; what the groups give at entry and what the   *)
(* fan speed asks of a held target are any level and any small step.       *)
(***************************************************************************)
EXTENDS Integers

CONSTANTS
  Keys,       \* curves with the duty that is asked of them
  TreadOf,    \* the temperature of each, under the ceiling
  Top,        \* the ceiling
  HeldStep,   \* HELD_MAX_STEP_C
  GateT,      \* ENTRY_HYSTERESIS_S
  DebounceN,  \* ARGMAX_DEBOUNCE_SAMPLES
  StuckT,     \* STUCK_WINDOW_S
  RecoverN    \* QUARANTINE_RECOVERY_SAMPLES

ASSUME TargetAssumption ==
  /\ {HeldStep, GateT, DebounceN, StuckT, RecoverN, Top} \subseteq Nat \ {0}
  /\ TreadOf \in [Keys -> 0..Top]

VARIABLES
  src,      \* the TStarSource
  out,      \* what the last tick told the controller
  evidence  \* samples in a row that speak for Curve, and their hottest label

sourceVars == <<src, out, evidence>>

Nothing == "none"
NoNumber == -1
Controllable == {"cpu", "gpu"}
Labels == Controllable \cup {"ambient", "unknown", Nothing}
Quarantine == {NoNumber} \cup 0..(RecoverN - 1)
Run(bound) == [label : Labels, n : 0..bound]
NoRun == [label |-> Nothing, n |-> 0]
Lower(a, b) == IF a < b THEN a ELSE b
EvidenceN == GateT + DebounceN

Sources ==
  [state : {"Held", "Curve", "Released"}, target : {NoNumber} \cup 0..Top, gate : Run(GateT),
   argmax : Run(DebounceN), trusted : BOOLEAN, key : {Nothing} \cup Keys,
   stuck : {NoNumber} \cup 0..StuckT, quarantine : Quarantine]

SourceTypeOK ==
  /\ src \in Sources
  /\ out \in [restored : BOOLEAN, resync : BOOLEAN]
  /\ evidence \in Run(EvidenceN)

SourceInit ==
  /\ src = [state |-> "Held", target |-> NoNumber, gate |-> NoRun, argmax |-> NoRun, trusted |-> TRUE,
            key |-> Nothing, stuck |-> NoNumber, quarantine |-> NoNumber]
  /\ out = [restored |-> FALSE, resync |-> FALSE]
  /\ evidence = NoRun
-----------------------------------------------------------------------------
(* The parts of a tick.                                                    *)

\* One more sample of a label, up to the bound that matters.
Longer(run, label, bound) ==
  IF run.label = label THEN [run EXCEPT !.n = Lower(run.n + 1, bound)] ELSE [label |-> label, n |-> 1]

\* Mutation: the streak ends one sample late.
RecoveringLate(i) ==
  IF src.quarantine = NoNumber THEN NoNumber
  ELSE IF i.gap \/ ~(i.fresh /\ i.moved) THEN 0
  ELSE IF src.quarantine >= RecoverN THEN NoNumber ELSE src.quarantine + 1

\* update_quarantine_recovery: the label is let out after samples in a row away from its value.
Recovering(i) ==
  IF src.quarantine = NoNumber THEN NoNumber
  ELSE IF i.gap \/ ~(i.fresh /\ i.moved) THEN 0
  ELSE IF src.quarantine + 1 >= RecoverN THEN NoNumber ELSE src.quarantine + 1

\* Mutation: only a clear lead counts towards the debounce.
ArgmaxOfClearLead(s, i) ==
  IF i.fresh /\ i.decisive THEN Longer(s.argmax, i.argmax, DebounceN) ELSE NoRun

\* advance_argmax_debounce.
Argmax(s, i) ==
  IF i.fresh /\ i.argmax \in Controllable \cup {"ambient"} THEN Longer(s.argmax, i.argmax, DebounceN) ELSE NoRun
Debounced(run, i) == run.label # Nothing /\ (i.decisive \/ run.n >= DebounceN)

\* observe_stuck: how long the board sensor has led without moving.
Stuck(s, i, debounced) ==
  IF ~(i.fresh /\ i.argmax = "ambient" /\ debounced /\ s.quarantine = NoNumber) THEN NoNumber
  ELSE IF s.stuck = NoNumber \/ ~i.flat THEN 0 ELSE Lower(s.stuck + 1, StuckT)

\* Mutation: the gate counts samples of any controllable label.
GateOfAny(s, label, eligible) ==
  IF eligible THEN [label |-> label, n |-> Lower(s.gate.n + 1, GateT)] ELSE NoRun

\* advance_gate.
Gate(s, label, eligible) ==
  IF eligible THEN Longer(s.gate, label, GateT) ELSE NoRun

\* A recovery starts every count anew, before this sample and after it.
Afresh(s) == [s EXCEPT !.gate = NoRun, !.argmax = NoRun]

\* Mutation: a label put in quarantine is no reason to resynchronise the loops.
ResyncedAtEntry(seeded, recovered, found) == seeded \/ recovered

Resynced(seeded, recovered, found) == seeded \/ recovered \/ found

\* drive_held: the fan speed moves a held target, by a bounded step and under the ceiling.
Driven(s, i) ==
  IF s.state # "Held" \/ i.gap THEN {s}
  ELSE {[s EXCEPT !.target = t] : t \in {x \in 0..Top : x - s.target \in (-HeldStep)..HeldStep}}

\* A tick without the fan or the EC.
Release(s) == [s EXCEPT !.state = "Released", !.gate = NoRun, !.stuck = NoNumber]

\* What a tick that is engaged does about the state, once the counts have advanced.
Routed(s, i, key0, stays, debounced) ==
  LET usable == i.fresh /\ i.trusted /\ i.key # Nothing
      controllable == usable /\ i.argmax \in Controllable
      ambient == usable /\ i.argmax = "ambient"
      curve == [s EXCEPT !.state = "Curve", !.target = TreadOf[i.key]]
      restores == TreadOf[i.key] > s.target /\ s.key # key0
  IN  IF stays \/ s.quarantine # NoNumber \/ i.argmax = "unknown"
      THEN [src |-> [s EXCEPT !.state = "Held"], restored |-> FALSE]
      ELSE IF (s.state = "Curve" /\ controllable)
              \/ (s.state = "Held" /\ controllable /\ debounced /\ s.gate.n >= GateT)
      THEN [src |-> curve, restored |-> restores]
      ELSE IF s.state = "Curve" /\ ambient /\ ~debounced THEN [src |-> s, restored |-> FALSE]
      ELSE [src |-> [s EXCEPT !.state = "Held"], restored |-> FALSE]

\* tick: the sources it can be left with, and what it tells the controller.
Tick(i) ==
  LET quarantine == Recovering(i)
      out0 == src.quarantine # NoNumber /\ quarantine = NoNumber
      regained == src.trusted = FALSE /\ i.trusted
      gapped == IF i.gap THEN [src EXCEPT !.stuck = NoNumber, !.gate = NoRun, !.argmax = NoRun] ELSE src
      s0 == [gapped EXCEPT !.quarantine = quarantine, !.trusted = i.trusted]
      reengaged == src.state = "Released"
      seeded == src.target = NoNumber \/ reengaged
      anew == reengaged \/ out0 \/ regained
      s1 == IF anew THEN [Afresh(s0) EXCEPT !.state = "Held", !.stuck = NoNumber] ELSE s0
      argmax == Argmax(s1, i)
      debounced == Debounced(argmax, i)
      eligible == /\ s1.state = "Held" /\ i.fresh /\ i.trusted /\ i.key # Nothing /\ debounced
                  /\ i.argmax \in Controllable /\ s1.quarantine = NoNumber
      stuck == Stuck(s1, i, debounced)
      found == stuck >= StuckT
      s2 == [s1 EXCEPT !.argmax = argmax, !.key = IF i.key = Nothing THEN @ ELSE i.key,
                       !.gate = Gate(s1, i.argmax, eligible),
                       !.stuck = IF found THEN NoNumber ELSE stuck,
                       !.quarantine = IF found THEN 0 ELSE @]
      targets == IF seeded \/ found THEN 0..Top ELSE {src.target}
  IN  IF i.off THEN {[src |-> Release(s0), out |-> [restored |-> FALSE, resync |-> FALSE]]}
      ELSE UNION { LET r == Routed([s2 EXCEPT !.target = t], i, s1.key, anew, debounced)
                       done == IF anew THEN Afresh(r.src) ELSE r.src
                   IN  { [src |-> d, out |-> [restored |-> r.restored, resync |-> Resynced(seeded, anew, found)]]
                         : d \in IF reengaged THEN {done} ELSE Driven(done, i) }
                   : t \in targets }
-----------------------------------------------------------------------------
(* The controller, which samples what it reads.                            *)

TickInputs ==
  {i \in [off : BOOLEAN, gap : BOOLEAN, fresh : BOOLEAN, trusted : BOOLEAN, key : {Nothing} \cup Keys,
          argmax : Labels, decisive : BOOLEAN, flat : BOOLEAN, moved : BOOLEAN] :
     /\ i.off => i.key = Nothing /\ i.argmax = Nothing
     /\ i.decisive => i.fresh /\ i.argmax \in Controllable \cup {"ambient"}
     /\ i.flat => i.fresh /\ i.argmax = "ambient"
     /\ i.moved => i.fresh /\ ~i.gap}

\* The samples in a row that each speak for Curve: nothing is lost, no gap, a fresh view that the
\* replica confirms, a curve that resolves, and one controllable label that stays the hottest.
\* A gap ends the run; the sample after it may begin the next one.
Evidence(i) ==
  IF i.off \/ ~i.fresh \/ ~i.trusted \/ i.key = Nothing \/ i.argmax \notin Controllable THEN NoRun
  ELSE Longer(IF i.gap THEN NoRun ELSE evidence, i.argmax, EvidenceN)

Sample ==
  \E i \in TickInputs :
    /\ src.quarantine = NoNumber => ~i.moved
    /\ evidence' = Evidence(i)
    /\ \E t \in Tick(i) : src' = t.src /\ out' = t.out

SourceNext == Sample

SourceSpec == SourceInit /\ [][SourceNext]_sourceVars
FairSourceSpec == SourceSpec /\ WF_sourceVars(SourceNext)
-----------------------------------------------------------------------------
(* Properties.                                                             *)

\* Curve is earned: T* is derived from the curve only after the whole entry time of samples that
\* each speak for it, with the same label in the lead and whatever was lost, suspended,
\* quarantined or reconciled on the way, and never while a sensor is in quarantine.
CurveIsEarned ==
  [][src'.state = "Curve" => src'.quarantine = NoNumber
     /\ (src.state # "Curve" => evidence'.n >= GateT)]_sourceVars

\* The strengthening: the gate never counts more than the samples in a row that speak for Curve,
\* and counts them for the label that leads now.
GateIsEvidence ==
  src.gate.label # Nothing => evidence.label = src.gate.label /\ src.gate.n <= evidence.n

SourceIInv == SourceTypeOK /\ GateIsEvidence

\* T* never jumps unannounced: outside a derivation from the curve it moves by the bounded step
\* of the fan regulation, or the device loops are told to resynchronise their errors.
JumpsAreAnnounced ==
  [][src.target # NoNumber /\ src'.state # "Curve" /\ ~out'.resync
     => src'.target - src.target \in (-HeldStep)..HeldStep]_sourceVars

\* When the samples keep speaking for Curve and nothing is in quarantine, Curve is reached and
\* kept.
CurveIsReached ==
  <>[](evidence.n = EvidenceN /\ src.quarantine = NoNumber) => <>[](src.state = "Curve")

\* What the design says of a raised curve: a derivation that raises T* in Curve restores the
\* thermal candidates of the device loops.
UpwardChangeRestores ==
  [][src.state = "Curve" /\ src'.state = "Curve" /\ src'.target > src.target => out'.restored]_sourceVars
=============================================================================
