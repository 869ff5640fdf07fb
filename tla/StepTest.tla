------------------------------ MODULE StepTest ------------------------------
(***************************************************************************)
(* A calibration: the per-device step test (src/calib/step.rs), its runner *)
(* (src/calib/runner.rs) and the controller's two halves of it, the        *)
(* context it builds from the actuators and the effects it applies to them *)
(* (src/control/controller.rs).  Firmware may drop the CPU cap at any time *)
(* and a write may fail.                                                   *)
(*                                                                         *)
(* Times are kept as ages in seconds at the last sample; a write completes *)
(* within the second of its sample.  Caps are levels: 0 is stock, and a    *)
(* step is one level up, as far as the maximum goes.  Whether the windows  *)
(* are flat, and whether a response can be fitted, is the choice of the    *)
(* environment.                                                            *)
(***************************************************************************)
EXTENDS Integers, FiniteSetsExt

CONSTANTS
  SettleT,     \* DEVICE_SETTLE_S
  FitT,        \* DEVICE_FIT_WINDOW_S
  WindowT,     \* DEVICE_GROUP_WINDOW_S, the longer of the two windows
  MaxGap,      \* DEVICE_RESPONSE_MAX_GAP_S
  CheckT,      \* REASSERT_PERIOD_S
  Tries,       \* retries of a device
  HotStreak,   \* hot Tctl samples that abort
  CpuMax, GpuMax,
  AutoPairs,   \* the pairs an Auto session may have in force
  Gaps,        \* seconds between two samples
  Faults

AllFaults == {"reset", "failedWrite", "blindRead", "gpuError"}

ASSUME TimesAssumption ==
  /\ {SettleT, FitT, WindowT, MaxGap, CheckT, Tries, HotStreak, CpuMax, GpuMax} \subseteq Nat \ {0}
  /\ Gaps \subseteq Nat \ {0} /\ IsFiniteSet(Gaps) /\ Gaps # {} /\ MaxGap < FitT
ASSUME PairsAssumption == AutoPairs \subseteq [cpu : 0..CpuMax, gpu : 0..GpuMax]
ASSUME FaultsAssumption == Faults \subseteq AllFaults

VARIABLES
  mode,     \* "idle" or "calibrating"
  auto,     \* calib_started_from_auto
  test,     \* the step test
  cpu,      \* status.cpu_limit_w and the calib_cpu_ fields
  gpu,      \* status.gpu_max_mhz and the calib_gpu_ fields
  burner,
  changes,  \* devices fitted in this run
  saved,    \* devices whose fit the run saved when it ended
  down,     \* the shutdown flag
  hw,       \* the limits the hardware has
  upset     \* observer: the response under way lost the cap, or a sample

vars == <<mode, auto, test, cpu, gpu, burner, changes, saved, down, hw, upset>>

Unset == -1
Devices == {"cpu", "gpu"}
Floor == [cpu |-> 1, gpu |-> 1]
Nothing == [cpu |-> 0, gpu |-> 0]

Least(a, b) == IF a < b THEN a ELSE b

\* Past this age no comparison of the program changes: bound of the model.
MaxAge == Max({SettleT, FitT}) + Max(Gaps)
Ages == -1 .. Max({MaxAge, CheckT, WindowT})
AgedTo(most, age, dt) == IF age = Unset THEN Unset ELSE Least(age + dt, most)
Aged(age, dt) == AgedTo(MaxAge, age, dt)
\* at >= than, of two instants known by their ages.
NotBefore(age, than) == age # Unset /\ age <= than

NewTest == [sub |-> "Settle", begun |-> FALSE, cpuTries |-> 0, gpuTries |-> 0,
            started |-> Unset, commanded |-> Unset, base |-> Nothing, step |-> Nothing,
            applied |-> Nothing, window |-> Unset, pushed |-> Unset, streak |-> 0, key |-> FALSE]
NoCpu(cap) == [cap |-> cap, verified |-> FALSE, checked |-> Unset, readback |-> "none", done |-> Unset]
NoGpu(cap) == [cap |-> cap, verified |-> FALSE, done |-> Unset]

\* One sample: the time since the last, a hot guard or a clock gone wrong, whether there is an
\* active view with the key first seen, the windows, whether the GPU clock backs its lock, and
\* whether the cap can be read.  Combinations no step tells apart are left out.
Inputs ==
  {i \in [dt : Gaps, alarm : {"none", "tctl", "ec_or_gpu", "clock"}, view : BOOLEAN,
          air : {"flat", "moving", "broken"}, seen : BOOLEAN, blind : {"blindRead" \in Faults, FALSE}] :
     /\ ~i.view => i.air = "broken"
     /\ i.blind => i.alarm = "none"
     /\ i.alarm \in {"ec_or_gpu", "clock"} => ~i.view /\ ~i.seen}

TypeOK ==
  /\ mode \in {"idle", "calibrating"} /\ {auto, burner, down, upset} \subseteq BOOLEAN
  /\ test \in [sub : {"Settle", "Cpu", "RecoverGpu", "Gpu", "Done"}, begun : BOOLEAN,
               cpuTries : 0..Tries, gpuTries : 0..Tries, started : Ages, commanded : Ages,
               base : [cpu : 0..CpuMax, gpu : 0..GpuMax], step : [cpu : 0..CpuMax, gpu : 0..GpuMax],
               applied : [cpu : 0..CpuMax, gpu : 0..GpuMax], window : Ages, pushed : Ages,
               streak : 0..HotStreak, key : BOOLEAN]
  /\ cpu \in [cap : 0..CpuMax, verified : BOOLEAN, checked : Ages,
              readback : {"none", "held", "bad"}, done : Ages]
  /\ gpu \in [cap : 0..GpuMax, verified : BOOLEAN, done : Ages]
  /\ changes \subseteq Devices /\ saved \subseteq Devices
  /\ hw \in [cpu : 0..CpuMax, gpu : 0..GpuMax]

Init ==
  /\ mode = "idle" /\ auto = FALSE /\ test = NewTest
  /\ cpu = NoCpu(0) /\ gpu = NoGpu(0) /\ hw = Nothing
  /\ burner = FALSE /\ changes = {} /\ saved = {} /\ down = FALSE /\ upset = FALSE
-----------------------------------------------------------------------------
(* The step test: what a sample makes of it, given the context c.  A reply *)
(* is the test, the caps to write (0: none), and the devices it fitted.    *)

Reply(t, c, g, fits) == [test |-> t, cpu |-> c, gpu |-> g, fits |-> fits]
Idle(t) == Reply(t, 0, 0, {})

\* abort: restores the pair, once there is one.
Abort(t) == Reply([t EXCEPT !.sub = "Done"], t.base.cpu, t.base.gpu, {})

\* phase, and what it is called by.
Phase(t) == IF t.sub \in {"RecoverGpu", "Gpu"} THEN "gpu" ELSE "cpu"
Responding(t) == t.sub \in {"Cpu", "Gpu"}
FinishingResponse(t) == Responding(t) /\ t.commanded >= FitT

\* Times pass; the first sample fixes the pair to hold.
Begin(t, i, c) ==
  IF t.begun
  THEN [t EXCEPT !.started = Aged(@, i.dt), !.commanded = Aged(@, i.dt),
                 !.window = AgedTo(WindowT, @, i.dt), !.pushed = Aged(@, i.dt)]
  ELSE [t EXCEPT !.begun = TRUE, !.started = 0,
                 !.base = [d \in Devices |-> IF c.auto /\ c[d].cap # 0 THEN c[d].cap ELSE Floor[d]]]

\* guard_reason.
Streak(t, i) == IF i.alarm = "tctl" THEN Least(t.streak + 1, HotStreak) ELSE 0
Hot(t, i) == i.alarm = "ec_or_gpu" \/ Streak(t, i) = HotStreak

\* Back to settling with the pair restored and the response dropped.
SettleAgain(t) ==
  [t EXCEPT !.sub = IF Phase(t) = "cpu" THEN "Settle" ELSE "RecoverGpu", !.started = 0,
            !.commanded = Unset, !.applied = Nothing, !.window = Unset, !.pushed = Unset]
Tried(t) == IF Phase(t) = "cpu" THEN [t EXCEPT !.cpuTries = @ + 1] ELSE [t EXCEPT !.gpuTries = @ + 1]
TriesOf(t) == IF Phase(t) = "cpu" THEN t.cpuTries ELSE t.gpuTries

\* Mutation: retries are not counted.
RetryForever(t) == Reply(SettleAgain(t), t.base.cpu, t.base.gpu, {})

\* retry_after_cpu_cap_reset.
Retry(t) ==
  IF TriesOf(t) >= Tries THEN Abort(t) ELSE Reply(Tried(SettleAgain(t)), t.base.cpu, t.base.gpu, {})

\* The windows go on while the pair is held and the conditions are met, and are flat or not.
Watched(t, held, i) ==
  [t EXCEPT !.window = IF ~held \/ i.air = "broken" THEN Unset ELSE IF @ = Unset THEN 0 ELSE @]
Settled(t, i) == t.window >= WindowT /\ i.air = "flat"

PairIs(c, pair) ==
  c.cpu.verified /\ c.gpu.verified /\ c.cpu.cap = pair.cpu /\ c.gpu.cap = pair.gpu

\* on_settle: the pair it holds is the one the writes of this run left in force.
Adopted(t, c) ==
  IF t.commanded = Unset /\ c.cpu.verified /\ c.gpu.verified
       /\ 0 \notin {c.cpu.cap, c.gpu.cap} /\ Unset \notin {c.cpu.done, c.gpu.done}
  THEN [t EXCEPT !.base = [cpu |-> c.cpu.cap, gpu |-> c.gpu.cap],
                 !.step = [cpu |-> Least(c.cpu.cap + 1, CpuMax), gpu |-> Least(c.gpu.cap + 1, GpuMax)],
                 !.commanded = Least(c.cpu.done, c.gpu.done)]
  ELSE t

OnSettle(t, i, c) ==
  LET a == Adopted(t, c)
      w == Watched(a, a.commanded # Unset /\ PairIs(c, a.base), i)
  IN  IF Settled(w, i)
      THEN IF ~w.key THEN Abort(w)
           ELSE Reply([w EXCEPT !.sub = "Cpu", !.commanded = 0, !.applied.cpu = 0, !.pushed = Unset],
                      w.step.cpu, 0, {})
      ELSE IF w.started >= SettleT THEN Abort(w) ELSE Idle(w)

\* Mutation: the restored pair is not compared.
RestoredAnyhow(t, c) ==
  c.cpu.verified /\ c.gpu.verified /\ c.gpu.cap = t.base.gpu

\* The pair is held again, by writes that this recovery made.
Restored(t, c) ==
  PairIs(c, t.base) /\ NotBefore(c.cpu.done, t.started) /\ NotBefore(c.gpu.done, t.started)

\* on_gpu_recovery.
OnGpuRecovery(t, i, c) ==
  LET w == Watched(t, Restored(t, c), i)
  IN  IF Settled(w, i)
      THEN Reply([w EXCEPT !.sub = "Gpu", !.commanded = 0, !.pushed = Unset], 0, w.step.gpu, {})
      ELSE IF w.started >= SettleT THEN Abort(w) ELSE Idle(w)

\* finish_device_response.
Finish(t, fits) ==
  IF t.sub = "Cpu"
  THEN Reply([t EXCEPT !.sub = "RecoverGpu", !.started = 0, !.commanded = Unset, !.applied.gpu = 0,
                       !.window = Unset, !.pushed = Unset], t.base.cpu, t.base.gpu, fits)
  ELSE Reply([t EXCEPT !.sub = "Done", !.pushed = Unset], t.base.cpu, t.base.gpu, fits)

\* The step counts from the moment its write completed.
Applied(t, c) ==
  LET d == Phase(t)
  IN  IF t.applied[d] = 0 /\ c[d].verified /\ NotBefore(c[d].done, t.commanded)
      THEN [t EXCEPT !.applied[d] = c[d].cap, !.commanded = c[d].done] ELSE t

\* The primary group has been read all along.
Covered(t, i) ==
  i.air # "broken" /\ (IF t.pushed = Unset THEN t.commanded ELSE t.pushed) <= MaxGap

\* on_response.
OnResponse(t, i, c) ==
  LET d == Phase(t)
      a == Applied(t, c)
      pair == [t.base EXCEPT ![d] = a.applied[d]]
  IN  IF a.applied[d] = 0 THEN (IF a.commanded >= FitT THEN Abort(a) ELSE Idle(a))
      ELSE IF ~c.cpu.verified /\ c.cpu.readback # "none" THEN Abort(a)
      ELSE IF ~PairIs(c, pair) THEN Abort(a)
      ELSE IF ~Covered(a, i) THEN Finish(a, {})
      ELSE IF a.commanded < FitT THEN Idle([a EXCEPT !.pushed = 0])
      ELSE Finish(a, IF i.air = "moving" THEN {d} ELSE {})

\* on_sample.
OnSample(t, i, c) ==
  LET b == Begin(t, i, c)
      s == [b EXCEPT !.streak = Streak(t, i)]
      k == [s EXCEPT !.key = @ \/ i.view]
  IN  IF i.alarm = "clock" /\ t.begun THEN Abort(t)
      ELSE IF Hot(t, i) THEN Abort(s)
      ELSE IF s.key /\ ~i.view THEN Abort(s)
      ELSE IF ~t.begun THEN Reply(k, k.base.cpu, k.base.gpu, {})
      ELSE IF c.reset THEN Retry(k)
      ELSE CASE k.sub = "Settle" -> OnSettle(k, i, c)
             [] k.sub = "RecoverGpu" -> OnGpuRecovery(k, i, c)
             [] OTHER -> OnResponse(k, i, c)
-----------------------------------------------------------------------------
(* The controller's half: the context of a sample and the effects.         *)

\* Mutation: only the period counts.
DueByPeriod(c, finishing) == c.cap # 0 /\ (c.checked = Unset \/ c.checked >= CheckT)

\* When the CPU cap is read: periodically, and before a response is concluded.
Due(c, finishing) == c.cap # 0 /\ (c.checked = Unset \/ c.checked >= CheckT \/ finishing)

\* maintain_sustained_mw, which repairs nothing that is hot: what may be found, and what the hardware is left with.
Check(c, h, i) ==
  LET read(v, r) == [c EXCEPT !.checked = 0, !.verified = v, !.readback = r]
      hot == i.alarm \in {"tctl", "ec_or_gpu"}
  IN  IF i.blind THEN {[cpu |-> read(FALSE, "bad"), hw |-> h, reset |-> FALSE]}
      ELSE IF h = c.cap THEN {[cpu |-> read(TRUE, "held"), hw |-> h, reset |-> FALSE]}
      ELSE {[cpu |-> read(FALSE, "bad"), hw |-> x, reset |-> TRUE] :
              x \in IF hot THEN {h} ELSE IF "failedWrite" \in Faults THEN {h, c.cap} ELSE {}}
           \cup (IF hot THEN {}
                 ELSE {[cpu |-> read(TRUE, "bad"), hw |-> c.cap, reset |-> TRUE]})

\* build_calib_context.
Contexts(i) ==
  LET c == [cpu EXCEPT !.checked = AgedTo(CheckT, @, i.dt), !.done = Aged(@, i.dt)]
      g == [gpu EXCEPT !.done = Aged(@, i.dt), !.verified = gpu.done # Unset /\ i.seen]
      found == IF Due(c, FinishingResponse([test EXCEPT !.commanded = Aged(@, i.dt)])) THEN Check(c, hw.cpu, i)
               ELSE {[cpu |-> c, hw |-> hw.cpu, reset |-> FALSE]}
  IN  {[cpu |-> f.cpu, gpu |-> g, auto |-> auto, reset |-> f.reset, hw |-> f.hw] : f \in found}

\* SetCpuMaxWatts: only a verified write is recorded.
SetCpu(c, h, level) ==
  IF level = 0 \/ down THEN {[cpu |-> c, hw |-> h]}
  ELSE {[cpu |-> [cap |-> level, verified |-> TRUE, checked |-> 0, readback |-> "held", done |-> 0],
         hw |-> level]}
       \cup (IF "failedWrite" \notin Faults THEN {}
             ELSE {[cpu |-> [c EXCEPT !.verified = FALSE, !.checked = 0, !.readback = "bad"],
                    hw |-> x] : x \in {h, level}})

\* SetGpuMaxClock.
SetGpu(g, h, level) ==
  IF level = 0 \/ down THEN {[gpu |-> g, hw |-> h]}
  ELSE {[gpu |-> [cap |-> level, verified |-> FALSE, done |-> 0], hw |-> level]}
       \cup (IF "gpuError" \notin Faults THEN {}
             ELSE {[gpu |-> [g EXCEPT !.verified = FALSE], hw |-> h]})

\* end_calibration: the calib_ fields and the runner are dropped; the caps stay.
EndCalibration(c, g) ==
  /\ mode' = "idle" /\ auto' = FALSE /\ burner' = FALSE /\ test' = NewTest
  /\ cpu' = NoCpu(c.cap) /\ gpu' = NoGpu(g.cap)

\* Observer: the response under way is not the one the step alone made.
Disturbs(i) == Responding(test) /\ i.dt > MaxGap

\* on_sample while calibrating: the context, the runner, and its effects; a finished run
\* saves.  Once the program shuts down samples are drained.
Sample ==
  /\ mode = "calibrating" /\ ~down
  /\ \E i \in Inputs : \E c \in Contexts(i) :
       LET r == OnSample(test, i, c)
       IN  \E x \in SetCpu(c.cpu, c.hw, r.cpu), y \in SetGpu(c.gpu, hw.gpu, r.gpu) :
             /\ hw' = [cpu |-> x.hw, gpu |-> y.hw]
             /\ changes' = changes \cup r.fits
             /\ IF r.test.sub = "Done"
                THEN saved' = changes' /\ EndCalibration(x.cpu, y.gpu)
                ELSE /\ test' = r.test /\ cpu' = x.cpu /\ gpu' = y.gpu
                     /\ burner' = TRUE
                     /\ UNCHANGED <<mode, auto, saved>>
             /\ upset' = (Responding(r.test) /\ r.test.sub = test.sub /\ (upset \/ Disturbs(i)))
  /\ UNCHANGED down
-----------------------------------------------------------------------------
(* Commands, the firmware and the end of the program.                      *)

\* StartCalibration, from Auto with the pair it has, or from Monitor.
StartCalibration ==
  /\ mode = "idle" /\ ~down
  /\ mode' = "calibrating"
  /\ \/ /\ auto' = TRUE
        /\ \E p \in AutoPairs : cpu' = NoCpu(p.cpu) /\ gpu' = NoGpu(p.gpu) /\ hw' = p
     \/ auto' = FALSE /\ UNCHANGED <<cpu, gpu, hw>>
     \/ auto' = FALSE /\ cpu' = NoCpu(0) /\ gpu' = NoGpu(0) /\ hw' = Nothing
  /\ test' = NewTest /\ changes' = {} /\ saved' = {} /\ upset' = FALSE
  /\ UNCHANGED <<burner, down>>

\* AbortCalibration, an emergency or Quit: the runner restores the pair and saves nothing;
\* the last two release everything after it.
AbortRun ==
  /\ mode = "calibrating"
  /\ LET r == IF test.begun THEN Abort(test) ELSE Idle(test)
     IN  \E x \in SetCpu(cpu, hw.cpu, r.cpu), y \in SetGpu(gpu, hw.gpu, r.gpu) :
           \/ EndCalibration(x.cpu, y.gpu) /\ hw' = [cpu |-> x.hw, gpu |-> y.hw]
           \/ EndCalibration(NoCpu(0), NoGpu(0)) /\ hw' = Nothing
  /\ upset' = FALSE
  /\ UNCHANGED <<changes, saved, down>>

\* The platform drops the CPU cap on its own.
FirmwareReset ==
  /\ "reset" \in Faults /\ mode = "calibrating" /\ hw.cpu # 0
  /\ hw' = [hw EXCEPT !.cpu = 0] /\ upset' = Responding(test)
  /\ UNCHANGED <<mode, auto, test, cpu, gpu, burner, changes, saved, down>>

\* The main thread raises the shutdown flag.
ShutDown ==
  /\ ~down /\ down' = TRUE
  /\ UNCHANGED <<mode, auto, test, cpu, gpu, burner, changes, saved, hw, upset>>

Next == Sample \/ StartCalibration \/ AbortRun \/ FirmwareReset \/ ShutDown

Spec == Init /\ [][Next]_vars

\* Samples keep coming while a calibration runs.
FairSpec == Spec /\ WF_vars(Sample)
-----------------------------------------------------------------------------
(* Properties.                                                             *)

\* A fit measures its step: when a device's response is concluded with gains (FittedDevice,
\* step.rs:741), the hardware has the cap of that device at the stepped value and the other
\* device's at the held one, and ever since the step was in force nothing disturbed it: the
\* platform did not drop the cap, and no sample was missing.  The cap is only read every ten
\* seconds, so this is what the forced check at the end of a response (finishing_response) is for.
FitsMeasureTheirStep ==
  [][\A d \in changes' \ changes :
       /\ ~upset /\ d = Phase(test)
       /\ hw.cpu = IF d = "cpu" THEN test.applied.cpu ELSE test.base.cpu
       /\ hw.gpu = IF d = "gpu" THEN test.applied.gpu ELSE test.base.gpu]_vars

\* The devices are stepped one at a time: from the GPU step on the hardware does not have the
\* stepped CPU cap, and through a CPU response not the stepped GPU lock, although the writes that
\* restore the pair between them may fail (on_gpu_recovery, step.rs:672).
OneStepAtATime ==
  /\ TypeOK
  /\ test.sub = "Gpu" => hw.cpu \in {0, test.base.cpu}
  /\ test.sub = "Cpu" => hw.gpu = test.base.gpu

\* A calibration ends: settling, each response and each recovery have a timeout, and a platform
\* that keeps dropping the cap uses up the retries (step.rs:380), unless the program shuts down.
RunEnds == mode = "calibrating" ~> (mode = "idle" \/ down)

\* A run hands back the pair it found: what it restores in the end is the pair it fixed with its
\* first sample (the design calls it the baseline pair).
BaselineIsEntry == [][test.begun /\ test'.begun => test'.base = test.base]_vars

\* The strengthening for both: what the controller believes of the hardware, how far a response
\* has come, and how a disturbed one shows.  A cap that was dropped stays dropped until the forced
\* check finds it; a missed sample shows only while the step has not been seen to apply, where the
\* response is then older than the gap it may have without a reading.
Believed ==
  /\ hw.gpu = gpu.cap
  /\ cpu.verified => hw.cpu \in {0, cpu.cap}

Steady(t) ==
  /\ t.sub # "Done"
  /\ t.sub # "Settle" => t.begun
  /\ t.begun => t.base.cpu # 0 /\ t.base.gpu # 0
  /\ t.sub = "RecoverGpu" => t.applied.gpu = 0
  /\ Responding(t) => t.commanded # Unset /\ (t.applied[Phase(t)] = 0 <=> t.pushed = Unset)

DoneOf(d) == IF d = "cpu" THEN cpu.done ELSE gpu.done
NothingNewer ==
  Responding(test) /\ test.pushed = Unset =>
    DoneOf(Phase(test)) = Unset \/ DoneOf(Phase(test)) >= test.commanded
UpsetShows ==
  upset => Responding(test) /\ (hw.cpu = 0 \/ (test.pushed = Unset /\ test.commanded > MaxGap))

IInv == OneStepAtATime /\ Believed /\ Steady(test) /\ NothingNewer /\ UpsetShows
=============================================================================
