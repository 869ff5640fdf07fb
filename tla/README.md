# fw-fan-quiet in TLA+

`fw-fan-quiet` holds a Framework laptop's fans quiet by capping what the CPU and
the GPU may draw. It never touches the fans: it reads the temperatures that
fw-fanctrl turns into a fan speed, decides a target temperature, and lowers or
raises two caps so that the machine stays at it. The caps are real (a laptop
under a forgotten 20 W cap is slow until reboot) and so is the heat, so what
matters is who may cap, when a cap is given up, whether the program knows what is
in force, and what it leaves behind when it ends, however it ends.

This directory holds the specifications: TLA+ modules translated from `src/src/`,
TLC configurations, and TLAPS proofs. Paths below are relative to `src/src/`.

## 1. The system

### Threads and channels

    pollers --(shared caches)--> sampler --samples--> controller --events--> main (UI)
                                    \--> LED display      ^                    |
                                                          +----- commands -----+

Main owns the terminal and a `shutdown` flag, the stop fence. The sampler reads
sysfs, NVML and the pollers' caches once a second. The controller thread is the
only one that caps anything while the program runs; it takes samples and commands
with a `select!`, one handler at a time. Handlers block: `ryzenadj` and `modprobe`
are external commands with a 5 s timeout each, NVML calls have none. Every cap is
guarded three times: a handler's own release, the `RestoreGuard` dropped with the
controller thread, and `FinalRestore` dropped at the end of main.

### Inventory

| Component | State | Operations | Interacts with | Hard part | What makes it correct |
|---|---|---|---|---|---|
| Thermal watchdog `control/watchdog.rs` | two streaks, latch | observe, rearm | the controller feeds every sample | mixed invalid, hot and cool readings | a trip exactly when the history calls for one |
| Controller `control/controller.rs` | mode, Auto session, calibration session, watchdog, status, flags | commands, samples, emergency release, calibration effects, exit | everything | several owners of one limit and of one flag; calibration suspends a session; a fence raised by another thread | no raise while tripped or fenced; sessions, modes and the burner agree; flags agree with what they summarise |
| CPU actuator `actuators/cpu.rs` | last commanded limit | write and verify, maintain, restore | ryzenadj, platform profile | commands that fail, lie or cannot be read | verified means in force; success of a restore means stock |
| GPU actuator `actuators/gpu.rs` | command evidence, violation streak | lock, release, paired verify | NVML, sampler | a reading may belong to an older lock, a streak to several | a card that obeys is never given up, one that ignores its locks is |
| Restore guards `actuators/guard.rs` | restored flag, grace | restore_all, two Drops, startup reset | both actuators, main, controller | panic, hang, restore by another thread, a release that fails | every way out goes through a restore, and leaves no more than what failed there |
| Main thread `main.rs` | shutdown flag, thread handles | run, stop, panic, joins | all threads | joins against threads that hang | exit after a restore, in bounded time |
| ryzen_smu module `actuators/smu_module.rs` | none | unload, reload | guards | none | straight line |
| Command runner `actuators/cmd.rs` | none | spawn, wait, kill | actuators | pipes and kill | a call ends within its timeout |
| Device loops `control/device_loop.rs` | thermal and shadow candidate, request, cap in force, timers, latches | tick, seed, note_applied, disengage | controller, ratchet | seven ways through a tick that reset timers in different combinations | caps within bounds; held in a mismatch; no jump between the ways |
| Guards and ratchets `control/guards.rs` | latches, ratchet | step | device loops | floors edited during a hot episode | monotone while hot |
| Target source `control/tstar.rs` | Held, Curve, Released; gate, debounce, stuck and quarantine counters | tick | view, EC, controller | four debounces that reset each other | derived from the curve only on evidence that lasted; no unannounced jump |
| EC replica `sensors/ec.rs` | two boxcars, mismatch streak | push, seed, score | target source | averages seeded at different times | follows the daemon's own average or says it does not |
| Sampler and pollers `sensors/sampler.rs`, `sensors/poller.rs` | due times, caches | sample, poll | controller, main | freshness, catch-up | a value is as fresh as its stamp says |
| fw-fanctrl client `fanctrl/client.rs` | view, two stamps | poll | socket | a view assembled from two polls | never fresher than its parts, never stale but for a failed or slow poll |
| Fan curve, duty table `fanctrl/` | none | lookup, inverse | target source | boundaries | inverse of each other |
| Step test `calib/step.rs`, `calib/runner.rs` | phase, windows, retries | on_sample, abort | controller | aborts in every phase | the entry limits come back |
| Fit, burner `calib/` | none, threads | fit, start, stop | runner | numeric | - |
| State and config `state.rs`, `config.rs` | files | load, save | controller, main | two writers, kill between saves | a complete file at every instant |
| UI model, view `model.rs`, `ui/` | local setpoints and floors | update, key | main | commands in flight against older status | copies agree once the channels are dry; a trip gets on the screen |
| Sensors, telemetry, LED, self-test, simulator | reads, records | - | - | - | - |

`PROJECT.json` lists every component with what is modelled, and under `hazards`
what in this code is hard to test, each at its line.

## 2. The modules

### Watchdog, WatchdogHistory

`Watchdog` is `control/watchdog.rs` as a pure machine: a record of the two streaks
and the latch, `TripOf` for the trip one sample causes and `Observe` for what is
left. A temperature is absent, cool or hot, which is all the code compares. It
has no variables, so that Controller and the proofs use it as it is.
`WatchdogHistory` runs it beside a history that the machine never reads and
compares every trip with a definition over that history.

### Controller, CapAuthority

`Controller` is the life cycle of `control/controller.rs`. One action per handler,
because the thread runs one at a time:

| Action | Code |
|---|---|
| `Acknowledge` | the gate at the head of `on_command` |
| `SetLimit`, `ReleaseAll`, `EnterAuto`, `StartCalibration`, `AbortCalibration`, `Quit` | the arms of `on_command` with `release_to_stock`, `end_calibration`, `exit_auto_and_persist` |
| `TripSample` | `on_sample` up to `emergency_release` |
| `CalibSample` | `on_calib_sample` and the effects it applies |
| `HoldSample` | `reseed_auto_after_calibration` |
| `AutoSample`, `ManualSample` | `on_sample` and `on_auto_sample_v4` to their common tail |
| `Disconnect` | the end of the loop in `spawn` |
| `RaiseFence`, `FirmwareReset` | main, and the machine around the program |

`cap[d]` keeps two facts apart that the code keeps in two places: the limit the
status records (`limit`) and whether the hardware is capped (`hw`). Operators such
as `Written`, `Released`, `Reasserted` and `Ticked` give the set of pairs an
operation may leave, over every read-back and error; watts and megahertz, whether a
period is due and what a loop asks for are choices. `CapAuthority` is the abstract
promise: four states, and a trip leads to a latch that only an acknowledgement,
which commands nothing, undoes. `Authority` is the refinement mapping.

### Readback

The part of the controller that asks whether a limit holds: `VerdictState`
(`Observed`), the GPU verifier's streak (`GpuVerdict`), the stickiness watchdog
(`Stickiness`), resume and periodic reasserts (`Reasserted`), the suppression after
a charger edge (`quiet`) and the two flags they share. A sample is one step, and
its stages run in the code's order on one record `w`, each over every reading the
hardware could give: the order matters, the interleaving with other threads does
not. Controller allows everything Readback does to a limit; the two are separate
so that each can be checked over all of its inputs.

### GpuEvidence

The evidence behind one of Readback's verdicts, on the time line it is taken from.
NVML cannot read a lock back, so `verify_paired` judges the clock of a loaded card
against the newest command that had completed when the sample was stamped. The
sampler stamps (`Stamp`) before it reads the clock (`Read`), the driver takes a
command (`Take`) before the call returns (`Return`), and the controller scores a
sample (`Score`) before it writes. Time is counted in stamps: a command or a queued
sample has an age. A card is `prompt`, `lagging` (the clock may follow a second
late) or `ignoring`; `troubles` counts what else goes wrong with an obeying one.
`over` is an observer: readings in a row that no completed command explains.
What the loop asks for is any lock at any sample, and so is what a reading can be
told from (`Readings`). During a mismatch the loop holds its request, but every tick
clips it into the bounds of the sample and writes what comes of it at once: the
ratchet, an edited floor or a lost group move the lock then (`device_loop.rs:330`,
372, 455, 503). `moved` is an observer that remembers it. Simpler than the code: the
two seconds between periodic writes are not kept, and the maintenance reasserts at most every
second sample where the code waits ten seconds; both only add behaviours.

### CpuActuator

`set_sustained_mw`, `maintain_sustained_mw` and `restore_stock` with the hardware
they drive. `slow` is the limit in force, `last` is `last_commanded_mw`, `limit` is
what the caller records. `Faults` names six things that may go wrong: a write that
fails or is ignored, a read-back that fails, a fast limit that is not taken, a
profile toggle that fails or is ignored. Limits closer than the comparison
tolerance count as one.

### Shutdown

Leaving the program, one blocking call at a time. A controller handler is the list
`work` of calls it has left and the `call` it is in; the fence is looked at where a
call is issued and the call lands when it completes (`Lands`) or fails (`Fails`), which
is where the other threads come in. Main's joins, the terminal, reaping, panics of main and of the
controller, `RestoreGuard`'s and `FinalRestore`'s Drops are actions. `late` counts
external commands since the fence went up; a command takes at most one timeout, so
the count is the time the join must cover. `mode` survives only as what decides
which calls a handler makes.

A release may fail. `restore_all` warns and goes on (`guard.rs:90`); a toggle that
fails ends its CPU restore there (`cpu.rs:237`), after the read or write of the profile
(`toggle`) or after the write of the intermediate one (`toggleBack`, which leaves the
cap off and the user's profile lost). Nobody is told: `spawn` stores `restored` all the same
(`controller.rs:3183`) and FinalRestore stands down. `owed` names what such failures
left undone, until a later call makes up for it, and the properties say
that nothing else is left. `MayFail` and `MaxOwed` bound which calls fail and how much
may be owed at once.

Abstractions to know of: one thread, `sampler`, stands for all that main reaps; a
terminal that fails to initialise leaves like a normal stop; the module reload has
no effect on caps; FinalRestore's own NVML call does not hang (listed as a hazard).

### StepTest

A whole calibration: the per-device step test (`OnSample` and below, one operator
per function of `calib/step.rs`), its runner, and the controller's two halves, the
context it builds (`Contexts`, with the fenced maintenance of the cap in `Check`)
and the effects it applies (`SetCpu`, `SetGpu`, `EndCalibration`). Times are ages in
seconds; caps are levels, a step is one level. The firmware may drop the cap
between any two samples, writes fail, reads are blind, samples come late. Flat
windows and usable responses are the environment's choice. In Controller a
calibration is a session that may do any of this.

### DeviceLoop

`DeviceLoop::tick` for one device, with the ratchet, the seeding and restoring by
the controller and what becomes of the decision (`Writes`). `Tick` names the ways
through the code: `Resumed`, `Absent`, `Frozen`, `Trim`, `HotTransfer`, `Regular`,
each on the record of the loop's fields. Watts are a small grid, a second is a
tick; what the PI step computes is any level within the bounds, and so is a warm start's seed
at or above the one the draw gives (`SeedAs`, `Entering`). `NoJump` names the
ways in which the request may rise by more than the slew. One of them is wider than
it may seem: a loop that is still entering and knows of no cap keeps its first
request while resumed samples move its ceiling, and a hot entry then starts from the
shadow candidate (`device_loop.rs:584`). An exception for the first sample alone
is refuted by that sequence.

### TargetSource

`TStarSource::tick` as one operator (`Tick`) on the record `src`: the entry gate,
the debounce of the hottest sensor, stuck sensors and their quarantine, the fan
regulation while Held, resume and release. `out` is what the tick tells the
controller, `evidence` an observer that counts samples that each speak for Curve.
The state `Uncontrollable` is left out: nothing in the code enters it.

### Reconciliation

How far Auto may believe fw-fanctrl, as a composition: the poller thread with its
due times and round trips (`Asks`, `Answered`, `Failed`), the client's snapshot with
its two stamps (`feed`), the sampler's merge, and the replica of the embedded
controller's averages with its score, mismatch latch and reseed (`auto`). `world`
is how the other side behaves: rough at first, when anything happens, and from some moment
that is the model's choice perhaps one of the steady worlds.

How long a poll takes has two bounds. Connecting and the read have timeouts of 1 s
and 3 s; a poll within their sum (`Prompt`, 4 s) is what the program plans for. But the
write has 3 s of its own and the read looks at its deadline only between two blocking reads
(`client.rs:489`, 504), so that a poll that succeeds may last nearly 10 s (`PollMax`).
`poller.slow` remembers that one has outlasted `Prompt`, until the poller has
worked off what it is behind.

### Panel

The user's side: the model's copies of set-points and floors that a key steps from
(`ui`), the controller's status (`ctl`), and the two channels between them. The
controller is only what its commands do to the status they echo; Controller has
the rest. `blind` marks a command pressed before an emergency was drawn.

Operators marked "mutation" in these modules are wrong on purpose: each is a
plausible slip in the code, and some property must notice it.

## 3. What is model-checked

| Run | States | Asks | Properties |
|---|---:|---|---|
| `watchdog_history` | 25,354 | are two counters and a latch as good as the history? | `TripMatchesHistory` |
| `controller` | 11,712 | do sessions, modes, latch and fence agree in every order of events, and is the authority kept? | `TypeOK`, `LatchMatchesAlarm`, `EmergencyHoldsReleased`, `SessionShape`, `NoRaiseWhileTripped`, `FencedNeverRaises`, `KeepsAuthority` |
| `readback` | 99,044 | do the shared flags follow the verdicts, and does the suppression hold? | `TroubleIsFlagged`, `ReleasedCpuHasNoLimit`, `NoOrphanFlag`, `QuietScoresNothing` |
| `gpu_evidence` | 2,693,063 | does the indirect evidence tell a card that obeys from one that does not? | `ObedientKeepsItsLock`, `IgnoringIsCaught` |
| `cpu_actuator` | 406 | what do Verified and a successful restore mean under every fault? | `VerifiedIsInForce`, `RecordedIsRemembered`, `RestoreTakesOff` |
| `shutdown` | 1,536,184 | does main let go only after a restore that leaves nothing but what failed in it, whatever was in flight, and does it get out although calls hang and threads panic? | `JoinedLeavesWhatFailed`, `JoinCoversTheWork`, `RestoredLeavesWhatFailed`, `LeavesEventually` |
| `step_test` | 27,356 | does a calibration fit only what its own step did, and end? | `OneStepAtATime`, `FitsMeasureTheirStep`, `RunEnds` |
| `step_baseline` | violation | is the pair it restores the pair it found? | `BaselineIsEntry` |
| `device_loop` | 194,132 | do the ways through a tick hand over to each other without a jump, a raise or a forgotten bound? | `TypeOK`, `RatchetBites`, `HeldWhileMismatched`, `HotTransferNeverRaises`, `NoJump` |
| `target_source` | 2,013 | do the debounces together let through only what has lasted? | `SourceTypeOK`, `CurveIsEarned`, `JumpsAreAnnounced`, `CurveIsReached` |
| `reconciliation` | 457,212 | is staleness a sign of failure or slowness, and trust a sign of agreement? | `StaleMeansFailure`, `VerdictsTakeViews`, `TrustReturns`, `TrustEnds`, `OldCurveGoesStale` |
| `panel` | 1,500,404 | do crossing keys, statuses and trips end with the truth on the screen? | `CopiesAgree`, `TripsAreShown` |

Modules whose type invariant is not a property of its own have it as the first
conjunct of an invariant; those of CpuActuator, Readback, Panel and Shutdown are part
of their proved invariants. The strengthenings (`IInv`, `Obeys`) are not properties of the
runs, since a theorem states them; TLC finds each to hold under its run's constants. Each
property has a mutant of the code it is about that breaks it under the same
bounds (`PROJECT.json`, `mutants`).

Bounds, and why they are enough:

- Watchdog: streaks 2 and 3, histories to 5. The code has 3 and 10; the two
  lengths differ, both can be completed, interrupted and overlapped within 5
  samples, and `ObserveOK` is proved for all lengths.
- Controller: streaks 2 and 2. No other constant; the state space is complete.
- Readback: the code's streaks (3 mismatches, 3 suppressed ticks, 3 and 2 stickiness
  samples), except that a read-back goes blind after 2 instead of 6 unreadable ones
  and the GPU verifier reports after 2 instead of 3 readings, which keeps the run
  near a minute. Those two counters are compared with their threshold and nothing
  else, and 2 leaves a state before it.
- GpuEvidence: the code's mismatches (3) and ring of 3; the verifier
  reports after 2 instead of 3 readings, the fewest for which `ObedientKeepsItsLock`
  holds (with 1, or with 2 mismatches, TLC refutes it; both theorems cover 3); three locks, so
  that a lock has a change on either side and two steps down fit in the ring (with
  two locks properties hold that three refute). One sample may wait, one trouble
  may happen. Both bounds are hypotheses of the theorem: with two samples
  waiting, or two slow calls, TLC finds an obeying card released, see below.
- CpuActuator: five limits, one of them equal to stock by chance, all six faults.
- Shutdown: one queued command beside Quit and one queued sample; a second of
  either is served as the first is, and after the fence neither is. `JoinBudget`
  6 is the 30 s of `CONTROLLER_JOIN_TIMEOUT` in 5 s commands. The controller's and
  the sampler's calls may hang, main and the controller may panic. The unlock and both
  halves of a toggle may fail while nothing is owed (`MaxOwed` 1), so each failure meets every
  other event; the theorems are for any calls that fail, any number of times. The terminal
  does not hang (nothing would restore it then) and toggles are heeded: see below.
- StepTest: settling 3 s, response 2 s, window 1 s, cap check every 2 s, one retry
  per device (the code: two), samples 1 or 2 s apart where 1 is the widest gap a
  response may have. A response spans several samples and one cap check, a retry
  can be used up, and a cap can drop in every phase. A settling time of 2 s is too
  short: then the pair is never held twice and `OneStepAtATime` no longer notices
  that the restored pair is not compared.
- DeviceLoop: levels 0 to 2, floors 0 and 2, dwell and period of one tick, slews
  that differ in each direction. The loop compares levels and adds bounded steps;
  three levels have one strictly between the bounds. A timer of one tick has a
  state before and a state at its end. Draws are absent, 0 or 1: a group turns hot
  with and without a measured draw.
- TargetSource: a gate of three samples over a debounce of two, so that one outlasts
  the other; stuck and recovery take two; curves at levels 1 and 3, the ceiling is 3.
- Reconciliation: periods 2 and 4 and limits 5 and 6 keep the code's order (5 s
  and 30 s, 15 s and 90 s): a view outlives one missed poll and not three. Two
  strikes for three, a window of two samples, a round trip of one sample, or two
  when it is slow. The poller falls behind its due times by at most 2 s (`Behind`), a
  bound that the theorems do not have: they are for every `Behind`.
- Panel: two caps and the seed, two floors of two levels, two messages in each
  channel: enough for a status to be overtaken by a press and for two presses to
  wait behind a trip.

Deadlock is not checked where the program may stop (Controller, Shutdown, StepTest)
and in the bounded history.

Fairness is assumed in these runs only:

- `shutdown`: the controller, unless its call hangs, the sampler and main's way out
  are weakly fair: the operating system schedules them. Nothing is assumed of
  `select!`: once main leaves, the sampler sees the flag and queues no more samples, and those
  queued run out. Nothing promises that main stops, that a thread panics, or that a hung
  call comes back.
- `step_test`: samples keep coming (`WF(Sample)`), unless the program shuts down.
- `target_source`: samples keep coming.
- `reconciliation`: one of the poller and the controller moves on: a due poll is asked,
  a request is answered or times out, or a second's sample is taken; in a steady world
  only one of them can at a time. What the other side answers is not fair; the
  properties ask only about worlds that stay as they are.
- `panel`: main goes on drawing (`WF(Draws)`), which is its loop's one timer.
  That the controller takes commands is not assumed.

### Disagreements

Where the repository says something of itself that the code does not do. The first
is a run of its own with its finding in `PROJECT.json`; the others are formulas kept
in the modules, and TLC refutes each when it is put in the place of the properties of
the named configuration, with the constants given here if they differ.

| Formula | How to see it | What happens |
|---|---|---|
| `StepTest!BaselineIsEntry` | run `step_baseline` | A retry whose restoring write fails settles with the stepped cap in force and adopts it as the pair to hold (`step.rs:457`); the next step goes on top and an abort restores it. |
| `Panel!LimitsAreConscious` | `MCPanel.cfg` | Two set-points queued when the watchdog trips: the first acknowledges, the second caps, before the emergency was drawn (`controller.rs:942`). The gate's comment: "The user must see the emergency and consciously press again". |
| `Controller!FirstViewResolvesGains` | `MCController.cfg` | Auto entered and at once suspended by a calibration: the held sample marks the view as initialised (`controller.rs:2960`), so its gains are never looked up. Line 1500: "Resolve on the first usable view as well as on every view replacement". |
| `Controller!ReleasedMeansStock` | `MCController.cfg` | A calibration that suspended a Released session writes its pair when it ends; Released gives limits up only on entry (2044), so they stay. The design (per-device-temperature-loops, 440): "caps released to stock". |
| `Readback!OneVerdictPerTick` | `MCReadback.cfg` | After a resume one sample may score three mismatches, from resume, tick and stickiness, and release the CPU (1387). Line 458: "Feed one tick's CONFIRMED [...] WriteVerdict". |
| `CpuActuator!RestoreLeavesNoCap` | `MCCpuActuator.cfg` | The restore looks for the limit last asked for (`cpu.rs:244`). If the SMU ignored that write an older one is in force, survives an ignored toggle and counts as stock. Line 232: "the one outcome the design promises never to leave behind". |
| `Shutdown!FencedIssuesNoWrite` | `MCShutdown.cfg` | A reassert that is reading the CPU cap when the fence goes up locks the GPU afterwards without looking again (3049). Line 882: "No actuator write may be issued while this holds". |
| `Shutdown!ExitLeavesNoCap` | `MCShutdown.cfg`, `MayPanic` = {"main"}, `MayHang` = {}, `MayFail` = {} | Main panics while a write is in flight: the grace of 2 s is shorter than the write's 5 s, FinalRestore restores, the write lands (`guard.rs:169` against `main.rs:261`). |
| `Shutdown!ExitLeavesNoCap` | `MCShutdown.cfg`, `MayPanic` = {}, `MayHang` = {} | The unlock or the toggle of the last restore fails: `restore_all` warns (`guard.rs:92`, 98), `restored` is stored, FinalRestore does not try again. The comment at `cpu.rs:232` promises as above. |
| `Shutdown!JoinCoversTheWork` | `MCShutdown.cfg`, `TogglesIgnored` = TRUE | With ignored toggles up to seven commands run after the fence where `main.rs:356` counts five. |
| `TargetSource!UpwardChangeRestores` | `MCTargetSource.cfg` | A raised curve restores the thermal candidates only when its key is new, not on every derivation that raises T* in Curve (`tstar.rs:931`). The design (370): "On an explicit upward fan-target/curve change in Curve, restore thermal to max". |
| `GpuEvidence!RecordedAfresh` | the mutant of `IgnoringIsCaught` | Two comments (`controller.rs:546`, 561) say that the GPU verifier is recreated whenever a new clock is applied; it is made once per session (2170). The mutant does what they say, and a card that ignores its locks is then not caught while the lock keeps moving. |

Met while modelling, kept in the models as the code has them:

- Controller: a calibration started from Monitor ends in Monitor with its pair
  recorded (2935 against the comment at 2761). A write whose read-back fails is in
  force and not in the status (1014 against 929). The end of a calibration resets
  blind verdicts and leaves the flag up (2929 against 2396), which is why
  `TroubleIsFlagged` goes one way. The resume reassert scores before the same sample's
  charger edge opens the suppression (1341), which is why `QuietScoresNothing`
  speaks of the ticks after the edge. A resume during a calibration or a held sample
  skips the strict window and `gpu.resumed()`; a charger edge there is swallowed.
  `calib_reentry_hold` outlives a release (742). Aborts inside a sample still save and
  report a finished run. A comment says 87 degrees where the trip is at 91 (197).
- GPU evidence: a reassert of the same lock right after a lowered one takes the
  predecessor's place, so the one-second allowance promised at `gpu.rs:120` is gone,
  and the first command of a session never has it; `ObedientKeepsItsLock` holds
  without the allowance, since its strikes and mismatches outlast the lag. A
  sample without a clock keeps the streak. When two samples wait, a single lost
  lock already leads to a release, because queued samples are scored after the
  correction; with three slow calls in a row so does a corrective raise.
- Device loops: an edited floor bypasses the slew upward; `set_floor` raises the ratchet
  for good, since only cool samples move it; the cap in force that the loop knows
  stays after a verdict released the device, and the loop writes again when due.
- Target source and replica: one mismatch after a reset is still trusted; a resume seeds
  the replica from the average read before the suspend.
- Pollers: after a long round trip the due times catch up in a burst
  (`poller.rs:97`), though the comment there says "never faster".
- UI: `model.rs:177` says that a status cannot fight local edits; while both channels are
  busy it does, which is why `CopiesAgree` waits for them to run dry.
- Ways out: FinalRestore opens NVML before it touches the CPU. The panic hook writes to the
  terminal before the unwind restores anything. `cmd.rs` waits for a killed child
  although its comment says that it must not block there.

## 4. What is proved

For every value of the constants, under the assumptions the modules state (streaks
are positive numbers; 0 stands for "none" and is no limit; `Faults` are known ones; the
times of a step test and of the polls are as given below). Shutdown's theorems and
GpuEvidence's `ObedientCorrect` have hypotheses of their own, also given below. Every
safety property the passing runs check, invariant or action property, is a theorem. Every component with proofs has an inductive invariant
in its module, `IInv` or `HistoryIInv`, `SourceIInv` (CpuActuator's `Inv` stands with its proofs): the properties and what
has to be known beside them. What each of them adds says why the code is right.

Three proof modules hold two components each, the ones that a reader of one would want
to know of the other: the watchdog inside the controller, the two actuators, the two
halves of what Auto is told. They extend both, which is why the definitions of
WatchdogHistory, CpuActuator and TargetSource that every specification has carry the
component in their name (`HistorySpec`, `CpuSpec`, `SourceSpec` and so on); no theorem
speaks of the two together.

| Component | Proof module | Proves | Because also |
|---|---|---|---|
| WatchdogHistory | `ControllerProofs` | `TripMatchesHistory`; `ObserveOK` | until a trip the two streaks are exact counts of the history (`LostFor`, `HotSinceCool`) and short of their trip points (`Below`) |
| Controller | `ControllerProofs` | `TypeOK`, `LatchMatchesAlarm`, `EmergencyHoldsReleased`, `SessionShape`, `NoRaiseWhileTripped`, `FencedNeverRaises`, `KeepsAuthority` | streaks below their trip points (`StreaksBelow`); the four invariants need each other |
| CpuActuator | `ActuatorProofs` | `VerifiedIsInForce`, `RecordedIsRemembered`, `RestoreTakesOff`; `RestoreCorrect` | whatever is in force was the last thing commanded (`HonestInv`, for the last only) |
| GpuEvidence | `ActuatorProofs` | `IgnoringIsCaught`, `ObedientKeepsItsLock` | samples are as old as the stamps since (`SamplesInOrder`), commands are kept as they completed (`CommandsInOrder`), every reading counted stands in the streak or in the strikes (`CountIsHeld`); a card that takes its locks has the newest in force (`InForce`), and what it may still show too much of is on its way to one sample (`Suspect`, `Coming`) and paid for by one strike (`PromptObeys`, `LaggingObeys`, `SteadyObeys`) |
| Readback | `ReadbackProofs` | `TroubleIsFlagged`, `ReleasedCpuHasNoLimit`, `NoOrphanFlag`, `QuietScoresNothing` | they hold between the stages of a sample; verdicts live only in a session (`NoVerdicts`) |
| TargetSource | `SensingProofs` | `SourceTypeOK`, `CurveIsEarned`, `JumpsAreAnnounced` | the gate never counts more than the evidence, and for the leading label (`GateIsEvidence`) |
| DeviceLoop | `DeviceLoopProofs` | `TypeOK`, `RatchetBites`, `HeldWhileMismatched`, `HotTransferNeverRaises`, `NoJump` | caps in bounds and the maximum is this sample's ceiling (`WithinBounds`), a loop that has seen its group has a request (`Begun`), a latched one a mismatch that lasts (`LatchHasCause`) |
| Reconciliation | `SensingProofs` | `StaleMeansFailure`, `VerdictsTakeViews` | unless a round trip was slow, no command is overdue by more than prompt ones explain (`Paced`, `Ticking`), a stamp is as old as its command is overdue (`Stamped`), strikes are verdicts on distinct views (`Counted`) |
| StepTest | `StepTestProofs` | `OneStepAtATime`, `FitsMeasureTheirStep` | what the controller believes of the hardware (`Believed`), how far a response has come (`Steady`, `NothingNewer`), how a disturbed one shows (`UpsetShows`) |
| Panel | `PanelProofs` | `CopiesAgree` | the last status in flight is the current one (`NewsIsCurrent`); a copy that differs leads by the last pending command of its kind (`CopiesLead`) |
| Shutdown | `ShutdownProofs` | `JoinedLeavesWhatFailed`, `JoinCoversTheWork`, `RestoredLeavesWhatFailed` | the lists of calls keep an order that ends in a restore; see below |

**Watchdog.** A latched watchdog stops counting, so exactness ends with the trip; from
there on both the machine and the history stand still. `LostGrows` and `HotGrows` say
what a sample does to each count, `CountDecides` and `HotDecides` what comparing a count
with its trip point says about the history. The lemmas on one sample (`ObserveOK` and
those before it) serve the controller and the history alike: both run the same `Watchdog`.

**Controller.** None of the four invariants is inductive alone. A trip re-arms on the
spot if nothing is commanded and releases otherwise, so the latch, the alarm flags and
the absence of everything that could command must be known together. That an
emergency leaves no session needs `SessionShape`: only then does leaving the mode leave
the session. `NoRaiseCorrect` and `FenceCorrect` are proved over single steps from `IInv`:
with nothing recorded, maintenance has nothing to write, and releases only take off.
`ImplementsAuthority` shows that every initial state and step maps to `CapAuthority`,
by cases on how a step moves the latch and what is commanded.

**CPU actuator.** One lemma per operation on what it may leave. `VerifiedCorrect`,
`RememberedCorrect` and `TakesOffCorrect` need no assumption on the faults.
`RestoreCorrect` says that no successful restore leaves a cap if accepted writes are
taken and reads work. Without the assumption TLC refutes it (Disagreements).

**GPU evidence.** `IgnoringIsCaught` is a matter of counting, for any set of locks, any
backlog and any number of troubles. The verifier allows a clock up to the lock paired with
the sample or the one before it, and both had completed when the sample was stamped
(`AllowedIsCompleted`, which needs that commands are kept in the order of their
completion). So a reading above every completed lock exceeds what it allows
(`UnexplainedExceeds`), lengthens the streak or, when that is full, adds a strike, and
no step in between takes either back: a new lock keeps the streak. `Strikes - 1` of
the one and `MismatchStrikes - 1` of the other is all that can be held without a release.

`ObedientKeepsItsLock` is proved under four hypotheses: one sample waits at most
(`Backlog = 1`), one trouble happens (`Troubles <= 1`), and the verifier and the release
have the patience for them (`Strikes >= 2`, `MismatchStrikes >= 3`; the code has 3 and 3).
None can be dropped: with two samples, two slow calls, one strike or two mismatches TLC
finds an obeying card released. The invariant is `Obeys`, which TLC checked on the run's
constants, with two and three locks and with five mismatches, before it was proved. Once
a sample is stamped every command is older than it, so the newest counts (`AboveAged`),
and a command that completes later tells nothing of it (`AboveRecorded`). So a strike
needs a clock above the newest lock, which a prompt card shows only in its trouble, and a
lagging one through a ceiling replaced since the last stamp or raised during the call
(`Coming`; a stamp makes of it what is `Suspect`, see `StampObeys`): one spoiled sample per change. A prompt card
keeps its lock whatever the loop asks for meanwhile. A lagging one does as long as its lock is
not moved in the middle of the mismatch (`moved`): then one change is left after the first strike,
and `SteadyObeys` says where that change stands: to be made, to be seen, in the pending
sample, or paid for by the second strike. A third is never owed. What is delicate is the
first strike: two spoiled samples in a row would be one too many, and a call that lowers the
ceiling between them needs a streak that has just begun, which at `Strikes >= 2` is no strike.
The exception is needed: without it TLC finds, with 2 readings to a strike and with the code's 3,
a late card that is released although it obeys, after one slow call, two locks lowered in
mid-mismatch, and a reassert directly behind each, which takes away the second that the verifier
allows. When a reassert is due is nearly a choice in this module, so that this is no entry
of the Disagreements.

**Readback.** One lemma per stage of a sample: each takes a record on which the flags are
right to records on which they are, so the proof does not
depend on their order. For `QuietScoresNothing` the stages are also shown to carry
"nothing scored so far" while the suppression is up. All of it for every length of streak.

**Target source.** The tick is cut where the code is: the gate, the three states, the
stuck and quarantine counters. `TickOK` puts together what the parts keep. That Curve is
earned is then a comparison of two counters, which restart on the same
samples but for those that let the gate start later.

**Reconciliation.** The first property needs assumptions on the periods, and the code meets
them: a prompt round trip is shorter than the short period, the long period has room for what
a long answer sets back, and a stamp outlives a period and two prompt round trips
(`PaceAssumption`; with the code's 5 s and 30 s, stale after 15 s and 90 s, and `Prompt` 4 s:
5 > 4, 30 >= 4 * 5, 15 > 5 + 8, 90 >= 30 + 8). Nothing is assumed of `PollMax` but that it is no less:
a poll that is slow beyond its timeouts may leave a view stale with no poll failed, and the
property says that this, failure and slowness, is all that does. A due time is counted
from the instant a tick began, so any answer leaves the next one later, and several in a row
leave more. `Paced` bounds the sum for a poller that is not slow: while a backlog is worked off,
`Prompt * speed + all >= 0` for the two due times from the instant the tick began (`Ticking`). Its lemmas
are one per way of the poller's loop. With that, the age of a stamp is at most a period and
what its command is overdue, unless the last one failed. `VerdictsTakeViews` is the comparison of
`Counted`: a strike of the replica and a verdict of the observer are counted at the same
samples, and the observer restarts at no more of them.

**Step test.** The functions of `calib/step.rs` one by one: what each leaves of the test
(`Steady`), then of the hardware (`Believed`). That only one device is away from its
baseline needs the check at the end of a recovery, since the write that restores may fail.
For `FitsMeasureTheirStep` the invariant says how a disturbance must show when the
response is over: a dropped cap stays dropped until the forced check reads it, a missed
sample leaves the response older than it may be before its first reading. That a response
has time for this is the assumption `MaxGap < FitT` (the code: 2 s against 360 s).

**Device loop.** A tick first puts the loop within the bounds of the sample (`Bounded`)
and then takes one of seven ways. For each way two facts: it keeps what the others rely
on, and it raises the request by no more than the slew but for the named exceptions.
The five properties follow without looking into the ways again. The proof of
`NoJump` failed on an earlier form of its last exception, see `DeviceLoop` in section 2.

**Panel.** Two channels as lists. A command appended to one and a status to the other are the
only steps that could part copy and truth, and after either the invariant names the
message that will mend it.

**Shutdown.** The hypothesis is `~TogglesIgnored`: the firmware heeds a profile toggle. It
cannot be dropped: with toggles ignored the hardware is not brought to stock by what the
code does, and the count of commands behind the fence exceeds five, as TLC shows
(Disagreements). It is the setting of the run. Which threads hang or panic, which calls
fail and how often, and how long the queues are is left open. The invariant says of a handler's list of calls that
each kind of call stands no further from the end than it may (`Far`), that what a check
or a toggle needs follows it (`Follows`, `CallsInOrder`), that a leaving controller's
list ends with the restore (`LeavingRestores`), that from a toggle to the check behind it
no CPU cap is in force (`ToggleUncaps`; a toggle that failed has taken the check off with it), that whoever toggles has saved
the user's profile unless a way back failed (`ProfileKept`), and, for the count, that commands begun behind the fence and those
still owed are four together (`WorkIsBounded`): the join's five have one to spare.
Handlers begin with such a list, and taking a call off, or putting the calls before it
that a result asks for, keeps it one (`Pop`, `Push`); with that every step is a short case.

Only model-checked, and why:

- Every liveness property, and anything about ENABLED: out of the prover's reach.
- The numbers behind the choices (gains, filters, fits): not in the models.

## 5. Not modelled

Numbers: loop gains, filters, fits, the arithmetic of curves and tables. Reads of
sysfs, sockets, NVML, ryzenadj's table and the configuration files: their
outcome is a choice. Drawing, logging, telemetry, the LED panel and the self-test
decide nothing the models speak of. The simulator and the test support are a plant
and fakes, not the program. The hot guards' latches are a choice of the environment
in DeviceLoop; the replica's two group averages score nothing and are left out.

Of the 37,764 lines that count as implementation about 13,000 are production code
outside tests; the rest is unit tests inside the same files, the simulator
(`sim/`), the test support and the plant. The models cover about 4,900 lines of
the former. Most of what is left there is drawing, sensor and socket reading,
parsing, least-squares fitting and telemetry.

## 6. Plan

In order of how much depends on them:

1. `Persistence` (`state.rs`, `config.rs:376`, `observe_v4_steady`,
   `save_persisted_state`): fields and their writers, failing saves, crash between
   write and rename, restart, the qualification of a seed.
2. Curve and duty table as functions against their inverse over bounded curves.
3. The three hot guards as a module that feeds DeviceLoop in place of a choice, and
   TargetSource composed with Reconciliation in place of its inputs.
4. Proofs: refinement between Readback and Controller, which is an argument in prose so far.

A run slot is worth more than a repetition of a run: runs above may give way to
compositions that ask the same in a larger setting.
