------------------------------- MODULE Shutdown -------------------------------
(***************************************************************************)
(* Leaving the program: the main thread (src/src/main.rs), the controller  *)
(* thread (spawn in src/src/control/controller.rs) and the two guards of   *)
(* src/src/actuators/guard.rs that put the hardware back, one call to the  *)
(* outside at a time.                                                      *)
(*                                                                         *)
(* A handler of the controller is the list of calls it has left (work) and *)
(* the call it is in (call).  The stop fence is read where a call is       *)
(* issued; the call lands when it completes, so main may raise the fence,  *)
(* time out and restore on its own in between.  An external command always *)
(* ends within one RUN_TIMEOUT; an NVML call has no timeout and may hang.  *)
(* What a write asks for, and which of the two limits of a device it sets, *)
(* makes no difference here: a device is capped or it is not.  Any call    *)
(* may fail; a restore that meets an error warns, ends there and is        *)
(* reported as done all the same, and owed remembers what that left.       *)
(***************************************************************************)
EXTENDS Naturals, Sequences, FiniteSets

CONSTANTS MayHang,        \* who may hang: "controller", "sampler", "tty"
          MayPanic,       \* which thread may panic: "main", "controller"
          MayFail,        \* the calls that may return an error ...
          MaxOwed,        \* ... while less than this is left undone
          TogglesIgnored, \* the firmware may ignore a profile toggle
          UserProfile,    \* the platform profile the user has chosen
          JoinBudget,     \* commands that fit in CONTROLLER_JOIN_TIMEOUT
          MaxInbox, MaxSamples

Profiles == {"low-power", "balanced", "performance"}
Modes    == {"manual", "auto", "calibrating"}

ASSUME ShutdownAssumption ==
  /\ MayHang \subseteq {"controller", "sampler", "tty"}
  /\ MayPanic \subseteq {"main", "controller"}
  /\ TogglesIgnored \in BOOLEAN
  /\ UserProfile \in Profiles
  /\ JoinBudget \in Nat /\ MaxInbox \in Nat /\ MaxSamples \in Nat /\ MaxOwed \in Nat

VARIABLES
  main,      \* where the main thread is
  joined,    \* quit_and_join_controller's result
  mainWork,  \* the calls FinalRestore's fresh guard has left
  ctl,       \* where the controller thread is
  mode,      \* the session the controller is in
  call,      \* the call the controller is in, "none" between calls
  work,      \* the calls its handler has left
  fence,     \* main's shutdown flag
  restored,  \* the flag of spawn that makes FinalRestore stand down
  inbox,     \* the command channel
  connected, \* main still holds the sender of that channel
  samples,   \* samples queued for the controller
  sampler,   \* the sampler, for every thread main reaps
  hung,      \* who hangs now
  late,      \* external commands running or begun since the fence went up
  caps,      \* the devices under a cap
  profile,   \* the platform profile
  saved,     \* the profile each restorer read before its toggle, UserProfile before and after
  armed,     \* a cap was written since the last restore that verified
  owed       \* what a failed call left undone: caps and the user's profile

mainVars == <<main, joined, mainWork>>
ctlVars  == <<ctl, mode, call, work>>
chanVars == <<inbox, connected, samples, sampler>>
hwVars   == <<caps, profile, saved, armed, owed>>
vars     == <<mainVars, ctlVars, chanVars, hwVars, fence, restored, hung, late>>

(***************************************************************************)
(* Calls.                                                                  *)
(***************************************************************************)
CapWrites == {"setCap", "setPlain", "correct"}
GpuLocks  == {"lock", "relock"}
Reads     == {"verify", "look", "confirm", "inspect", "check", "recheck"}
Commands  == CapWrites \cup Reads \cup {"modprobe"}
NvmlCalls == GpuLocks \cup {"unlock"}
Calls     == Commands \cup NvmlCalls \cup {"toggle", "toggleBack"}

(* What a handler skips once the fence is up.  The GPU half of a reassert  *)
(* that first looked at the CPU cap ("relock") is not among them.          *)
FencedFirstWrites == {"setCap", "setPlain", "lock", "assert"}  \* mutation
Fenced == CapWrites \cup {"lock", "assert"}

RestoreCpu == <<"toggle", "toggleBack", "check">>
Release    == <<"unlock">> \o RestoreCpu
RestoreCpuAlone == RestoreCpu \o <<"modprobe">>  \* mutation
RestoreAll == Release \o <<"modprobe">>
FreshAll   == <<"unlock", "toggle", "toggleBack", "modprobe">>

Optional(c) == {<<>>, <<c>>}

(* The calls one sample may lead to: reasserts around the decisions of an  *)
(* Auto session, the effects of a calibration step, an emergency release.  *)
SampleWork(m) ==
  CASE m = "auto" ->
         {a \o c \o u \o l \o b : a \in Optional("assert"), b \in Optional("assert"),
                                  c \in Optional("setCap"), u \in Optional("unlock"),
                                  l \in Optional("lock")} \cup {Release}
    [] m = "calibrating" ->
         {c \o l \o e : c \in Optional("setPlain"), l \in Optional("lock"), e \in {<<>>, Release}}
    [] OTHER -> {a \o b : a \in Optional("assert"), b \in Optional("assert")} \cup {Release}

(* An aborted calibration goes back to the pair it holds; Auto rejects the *)
(* manual setters; a release is served in both other modes.                *)
HeldPair == <<"setPlain", "lock">>

CommandWork(m) ==
  CASE m = "calibrating" -> {<<>>, HeldPair}
    [] m = "auto"        -> {<<>>, Release}
    [] OTHER             -> {<<>>, <<"setPlain">>, <<"lock">>, Release}

(* What a skipped or failed call leaves to be done: the mismatch that a    *)
(* re-write does not confirm is scored, and may release the CPU.           *)
InsteadOf(c) == IF c = "correct" /\ mode = "auto" THEN {<<>>, RestoreCpu} ELSE {<<>>}

(* What a completed call leads to.                                         *)
FollowUps(c) ==
  CASE c = "setCap"              -> {<<"verify">>}
    [] c = "correct"             -> {<<"confirm">>}
    [] c = "setPlain"            -> {<<"look">>}
    [] c \in {"verify", "inspect"} -> {<<>>, <<"correct">>}
    [] c = "confirm"             -> IF mode = "auto" THEN {<<>>, RestoreCpu} ELSE {<<>>}
    [] c = "check"               -> IF "cpu" \in caps
                                      THEN {<<"toggle", "toggleBack", "recheck">>}
                                      ELSE {<<>>}
    [] OTHER                     -> {<<>>}

(***************************************************************************)
(* The hardware.                                                           *)
(***************************************************************************)
Intermediate(p) == IF p = "low-power" THEN "balanced" ELSE "low-power"

(* A profile change puts the CPU back to stock, unless it is ignored.      *)
AfterChange == {caps \ {"cpu"}} \cup (IF TogglesIgnored THEN {caps} ELSE {})

Forget(who) == saved' = [saved EXCEPT ![who] = UserProfile]

ToggleBy(who) ==
  /\ saved' = [saved EXCEPT ![who] = profile]
  /\ profile' = Intermediate(profile)
  /\ caps' \in AfterChange
  /\ owed' = owed \ {"cpu"}

ToggleBackBy(who) ==
  /\ profile' = saved[who]
  /\ caps' \in AfterChange
  /\ UNCHANGED owed
  /\ Forget(who)

Capped(device)  == caps' = caps \cup {device} /\ owed' = owed \ {device}
Uncapped(device) == caps' = caps \ {device} /\ owed' = owed \ {device}

(* What a call does that succeeds.                                         *)
Lands(c, who) ==
  CASE c \in CapWrites -> Capped("cpu") /\ armed' = TRUE /\ UNCHANGED <<profile, saved>>
    [] c \in GpuLocks  -> Capped("gpu") /\ UNCHANGED <<profile, saved, armed>>
    [] c = "unlock"    -> Uncapped("gpu") /\ UNCHANGED <<profile, saved, armed>>
    [] c = "toggle"    -> ToggleBy(who) /\ UNCHANGED armed
    [] c = "toggleBack" -> ToggleBackBy(who) /\ UNCHANGED armed
    [] c \in {"check", "recheck"} -> /\ armed' = (armed /\ "cpu" \in caps)
                                     /\ UNCHANGED <<caps, profile, saved, owed>>
    [] OTHER           -> UNCHANGED hwVars

(* And one that fails: a cap write that ran into its timeout may have      *)
(* landed, unremembered; a blind check takes the restore for done.         *)
Fails(c, who) ==
  /\ c \in MayFail /\ Cardinality(owed) < MaxOwed
  /\ CASE c \in CapWrites -> /\ Capped("cpu") \/ UNCHANGED <<caps, owed>>
                             /\ UNCHANGED <<profile, saved, armed>>
       [] c = "unlock"    -> owed' = owed \cup (caps \cap {"gpu"}) /\ UNCHANGED <<caps, profile, saved, armed>>
       [] c = "toggle"    -> owed' = owed \cup (caps \cap {"cpu"}) /\ UNCHANGED <<caps, profile, saved, armed>>
       [] c = "toggleBack" -> /\ owed' = owed \cup {"profile"}
                              /\ Forget(who) /\ UNCHANGED <<caps, profile, armed>>
       [] c \in {"check", "recheck"} -> armed' = FALSE /\ UNCHANGED <<caps, profile, saved, owed>>
       [] OTHER           -> UNCHANGED hwVars

(* A failed toggle takes the rest of its own restore with it.              *)
Skip(w, S) == IF w # <<>> /\ Head(w) \in S THEN Tail(w) ELSE w
Abandoned(w) == Skip(Skip(w, {"toggleBack"}), {"check", "recheck"})

Init ==
  /\ main = "running" /\ joined = FALSE /\ mainWork = <<>>
  /\ ctl = "select" /\ mode = "manual" /\ call = "none" /\ work = <<>>
  /\ fence = FALSE /\ restored = FALSE
  /\ inbox = <<>> /\ connected = TRUE /\ samples = 0 /\ sampler = "running"
  /\ hung = {} /\ late = 0
  /\ caps = {} /\ profile = UserProfile /\ armed = FALSE /\ owed = {}
  /\ saved = [who \in {"main", "controller"} |-> UserProfile]

Alive == main # "exited"

(***************************************************************************)
(* The controller thread.                                                  *)
(***************************************************************************)
TakeSample ==
  /\ Alive /\ ctl = "select" /\ samples > 0
  /\ samples' = samples - 1
  /\ \/ fence /\ UNCHANGED ctlVars
     \/ /\ ~fence
        /\ ctl' = "serving"
        /\ work' \in SampleWork(mode)
        /\ mode' \in (IF mode = "calibrating" THEN Modes ELSE {mode})
        /\ UNCHANGED call
  /\ UNCHANGED <<mainVars, inbox, connected, sampler, hwVars, fence, restored, hung, late>>

ServeCommand ==
  /\ Head(inbox) = "set"
  /\ ctl' = "serving"
  /\ work' \in CommandWork(mode)
  /\ mode' \in Modes

(* Quit aborts a running calibration, whose held pair the fence keeps from *)
(* being written, and restores.                                            *)
ServeQuit ==
  /\ Head(inbox) = "quit"
  /\ ctl' = "leaving" /\ mode' = "manual"
  /\ work' = (IF mode = "calibrating" THEN HeldPair \o RestoreAll ELSE RestoreAll)

TakeCommand ==
  /\ Alive /\ ctl = "select" /\ inbox # <<>>
  /\ inbox' = Tail(inbox)
  /\ ServeCommand \/ ServeQuit
  /\ UNCHANGED <<mainVars, call, connected, samples, sampler, hwVars, fence, restored, hung, late>>

Disconnected ==
  /\ Alive /\ ctl = "select" /\ inbox = <<>> /\ ~connected
  /\ ctl' = "leaving" /\ mode' = "manual"
  /\ work' = RestoreAll
  /\ UNCHANGED <<mainVars, call, chanVars, hwVars, fence, restored, hung, late>>

(* A fenced call that meets the fence, the reassert that turns into its    *)
(* parts, the read-back of a restore that has no cap to look for.          *)
Settle ==
  /\ Alive /\ call = "none" /\ work # <<>>
  /\ \/ /\ Head(work) \in Fenced /\ fence
        /\ \E w \in InsteadOf(Head(work)) : work' = w \o Tail(work)
     \/ /\ Head(work) = "assert" /\ ~fence
        /\ \E w \in {<<"inspect">>, <<"inspect", "relock">>, <<"lock">>} :
             work' = w \o Tail(work)
     \/ /\ Head(work) = "check" /\ ~armed
        /\ work' = Tail(work)
  /\ UNCHANGED <<mainVars, ctl, mode, call, chanVars, hwVars, fence, restored, hung, late>>

Issue ==
  /\ Alive /\ call = "none" /\ work # <<>>
  /\ Head(work) # "assert"
  /\ ~(Head(work) \in Fenced /\ fence)
  /\ ~(Head(work) = "check" /\ ~armed)
  /\ call' = Head(work)
  /\ work' = Tail(work)
  /\ late' = IF fence /\ Head(work) \in Commands THEN late + 1 ELSE late
  /\ UNCHANGED <<mainVars, ctl, mode, chanVars, hwVars, fence, restored, hung>>

Complete ==
  /\ Alive /\ call # "none"
  /\ \/ Lands(call, "controller") /\ \E w \in FollowUps(call) : work' = w \o work
     \/ Fails(call, "controller") /\ \E w \in InsteadOf(call) : work' = w \o Abandoned(work)
  /\ call' = "none"
  /\ hung' = hung \ {"controller"}
  /\ UNCHANGED <<mainVars, ctl, mode, chanVars, fence, restored, late>>

(* Mutation: restored is stored before the restore has run.                *)
ReturnFlaggedFirst ==
  /\ Alive /\ call = "none"
  /\ \/ ctl = "serving" /\ work = <<>> /\ ctl' = "select" /\ UNCHANGED restored
     \/ ctl = "leaving" /\ ctl' = (IF work = <<>> THEN "gone" ELSE ctl) /\ restored' = TRUE
     \/ ctl = "unwinding" /\ work = <<>> /\ ctl' = "dead" /\ UNCHANGED restored
  /\ UNCHANGED <<mainVars, mode, call, work, chanVars, hwVars, fence, hung, late>>

(* The end of a handler, of the thread (restored is set), or of the unwind *)
(* of a panic (RestoreGuard's Drop restored, and nothing tells main).      *)
Return ==
  /\ Alive /\ call = "none" /\ work = <<>>
  /\ \/ ctl = "serving" /\ ctl' = "select" /\ UNCHANGED restored
     \/ ctl = "leaving" /\ ctl' = "gone" /\ restored' = TRUE
     \/ ctl = "unwinding" /\ ctl' = "dead" /\ UNCHANGED restored
  /\ UNCHANGED <<mainVars, mode, call, work, chanVars, hwVars, fence, hung, late>>

PanicController ==
  /\ Alive /\ "controller" \in MayPanic
  /\ ctl \in {"select", "serving"} /\ call = "none"
  /\ ~(work # <<>> /\ Head(work) = "toggleBack")
  /\ ctl' = "unwinding" /\ mode' = "manual"
  /\ work' = RestoreAll
  /\ UNCHANGED <<mainVars, call, chanVars, hwVars, fence, restored, hung, late>>

(***************************************************************************)
(* The sampler, and with it the pollers and the LED thread main reaps.     *)
(***************************************************************************)
SamplerStep ==
  /\ Alive /\ sampler = "running" /\ "sampler" \notin hung
  /\ IF fence \/ ~connected \/ ctl \in {"gone", "dead"}
       THEN sampler' = "exited" /\ UNCHANGED samples
       ELSE samples < MaxSamples /\ samples' = samples + 1 /\ UNCHANGED sampler
  /\ UNCHANGED <<mainVars, ctlVars, inbox, connected, hwVars, fence, restored, hung, late>>

(***************************************************************************)
(* The main thread.                                                        *)
(***************************************************************************)
ControllerGone == ctl \in {"gone", "dead"}

SendCommand ==
  /\ main = "running" /\ "tty" \notin hung /\ Len(inbox) < MaxInbox /\ ~ControllerGone
  /\ inbox' = Append(inbox, "set")
  /\ UNCHANGED <<mainVars, ctlVars, connected, samples, sampler, hwVars, fence, restored, hung, late>>

(* 'q', a signal or a dead controller ends run(), which draws before it     *)
(* looks: the fence, then Quit.  A terminal that cannot be initialised     *)
(* stops the same way.                                                     *)
StopRunning ==
  /\ main = "running" /\ "tty" \notin hung
  /\ main' = "joining"
  /\ fence' = TRUE
  /\ inbox' = IF ControllerGone THEN inbox ELSE Append(inbox, "quit")
  /\ late' = IF call \in Commands THEN 1 ELSE 0
  /\ UNCHANGED <<joined, mainWork, ctlVars, connected, samples, sampler, hwVars, restored, hung>>

(* Mutation: the join has no timeout.                                      *)
JoinUnbounded ==
  /\ main = "joining" /\ ControllerGone
  /\ joined' = TRUE
  /\ main' = "terminal"
  /\ connected' = FALSE
  /\ UNCHANGED <<mainWork, ctlVars, inbox, samples, sampler, hwVars, fence, restored, hung, late>>

JoinController ==
  /\ main = "joining"
  /\ \/ ControllerGone /\ joined' = TRUE
     \/ /\ ~ControllerGone
        /\ "controller" \in hung \/ late > JoinBudget
        /\ joined' = FALSE
  /\ main' = "terminal"
  /\ connected' = FALSE
  /\ UNCHANGED <<mainWork, ctlVars, inbox, samples, sampler, hwVars, fence, restored, hung, late>>

RestoreTerminal ==
  /\ main = "terminal" /\ "tty" \notin hung
  /\ main' = "reaping"
  /\ UNCHANGED <<joined, mainWork, ctlVars, chanVars, hwVars, fence, restored, hung, late>>

(* Reaping is bounded only after a join that timed out.                    *)
ReapThreads ==
  /\ main = "reaping"
  /\ sampler = "exited" \/ (~joined /\ "sampler" \in hung)
  /\ main' = "grace"
  /\ UNCHANGED <<joined, mainWork, ctlVars, chanVars, hwVars, fence, restored, hung, late>>

(* The panic hook restores the terminal, then the unwind drops cmd_tx; the *)
(* fence stays down.                                                       *)
PanicMain ==
  /\ main = "running" /\ "main" \in MayPanic
  /\ main' = "panicking"
  /\ UNCHANGED <<joined, mainWork, ctlVars, chanVars, hwVars, fence, restored, hung, late>>

Unwind ==
  /\ main = "panicking" /\ "tty" \notin hung
  /\ main' = "grace"
  /\ connected' = FALSE
  /\ UNCHANGED <<joined, mainWork, ctlVars, inbox, samples, sampler, hwVars, fence, restored, hung, late>>

(* FinalRestore's Drop: stand down, or take over when the grace period     *)
(* passes while the controller is dead or inside a call.                   *)
DropFinalRestore ==
  /\ main = "grace"
  /\ \/ restored /\ main' = "exited" /\ UNCHANGED mainWork
     \/ /\ ~restored
        /\ ctl = "dead" \/ call # "none"
        /\ main' = "restoring"
        /\ mainWork' = FreshAll
  /\ UNCHANGED <<joined, ctlVars, chanVars, hwVars, fence, restored, hung, late>>

RestoreFresh ==
  /\ main = "restoring"
  /\ \/ mainWork = <<>> /\ main' = "exited" /\ UNCHANGED <<mainWork, hwVars>>
     \/ /\ mainWork # <<>>
        /\ \/ Lands(Head(mainWork), "main") /\ mainWork' = Tail(mainWork)
           \/ Fails(Head(mainWork), "main") /\ mainWork' = Abandoned(Tail(mainWork))
        /\ UNCHANGED main
  /\ UNCHANGED <<joined, ctlVars, chanVars, fence, restored, hung, late>>

(***************************************************************************)
(* What has no timeout of its own may hang, and may come back; a call of   *)
(* the controller that comes back is one that completes after all.         *)
(***************************************************************************)
Hang ==
  /\ Alive
  /\ \E who \in MayHang \ hung :
       /\ who = "controller" => call \in NvmlCalls
       /\ who = "sampler" => sampler = "running" /\ ~fence  \* in a read begun before
       /\ hung' = hung \cup {who}
  /\ UNCHANGED <<mainVars, ctlVars, chanVars, hwVars, fence, restored, late>>

ComeBack ==
  /\ Alive
  /\ \E who \in hung \ {"controller"} : hung' = hung \ {who}
  /\ UNCHANGED <<mainVars, ctlVars, chanVars, hwVars, fence, restored, late>>

ControllerStep == TakeSample \/ TakeCommand \/ Disconnected \/ Settle \/ Issue \/ Complete \/ Return

Leaving == \/ JoinController \/ RestoreTerminal \/ ReapThreads \/ Unwind
           \/ DropFinalRestore \/ RestoreFresh

Next == \/ ControllerStep \/ PanicController \/ SamplerStep
        \/ SendCommand \/ StopRunning \/ PanicMain \/ Leaving
        \/ Hang \/ ComeBack

(* Every thread is scheduled; nobody promises that main ever stops, that a *)
(* thread panics or hangs, or that what hangs comes back, nor that select! *)
(* takes a command before a sample: a sampler whose program leaves queues  *)
(* no more.                                                                *)
Fairness == /\ WF_vars("controller" \notin hung /\ ControllerStep)
            /\ WF_vars(SamplerStep) /\ WF_vars(Leaving)

Spec == Init /\ [][Next]_vars
FairSpec == Spec /\ Fairness

(***************************************************************************)
(* Properties.                                                             *)
(***************************************************************************)

(* Every thread is at one of its places, and the list of calls a handler   *)
(* has left stays within what its longest path needs.                      *)
TypeOK ==
  /\ main \in {"running", "panicking", "joining", "terminal", "reaping", "grace",
               "restoring", "exited"}
  /\ ctl \in {"select", "serving", "leaving", "unwinding", "gone", "dead"}
  /\ mode \in Modes /\ call \in Calls \cup {"none"}
  /\ work \in Seq(Calls \cup {"assert"}) /\ Len(work) <= 10
  /\ mainWork \in Seq(Calls) /\ Len(mainWork) <= Len(FreshAll)
  /\ {fence, restored, joined, connected, armed} \subseteq BOOLEAN
  /\ samples \in 0 .. MaxSamples /\ sampler \in {"running", "exited"}
  /\ inbox \in Seq({"set", "quit"}) /\ Len(inbox) <= MaxInbox + 1
  /\ hung \subseteq MayHang /\ late \in Nat
  /\ caps \subseteq {"cpu", "gpu"} /\ profile \in Profiles /\ owed \subseteq {"cpu", "gpu", "profile"}
  /\ saved \in [{"main", "controller"} -> Profiles]

ProfileIsBack == profile = UserProfile \/ "profile" \in owed
Restored == caps \subseteq owed /\ ProfileIsBack

(* From the moment main has joined the controller, and to its exit, a cap  *)
(* is in force, or the user's profile is not, only where the last call     *)
(* that should have put it back failed, except while FinalRestore toggles  *)
(* the profile once more for a controller that panicked: the join comes    *)
(* before the terminal is touched, and a thread that has ended by Quit,    *)
(* disconnect or panic has been through its restore, whatever a handler    *)
(* before it wrote or failed to (quit_and_join_controller, spawn,          *)
(* RestoreGuard's Drop).                                                   *)
JoinedLeavesWhatFailed ==
  /\ TypeOK
  /\ joined /\ main \in {"terminal", "reaping", "grace", "exited"} => Restored

(* The commands the controller still runs after the fence went up are      *)
(* within the five that the join timeout was derived from, so only a call  *)
(* without a timeout can outlast the join (CONTROLLER_JOIN_TIMEOUT).       *)
JoinCoversTheWork == late <= 5

(* The strengthening.  First the list of calls: how far from its end a     *)
(* call may stand, that a toggle is followed by the way back and by the    *)
(* check, and that only the first call left may be a plain read.           *)
Far(c) ==
  CASE c = "toggle"     -> 8
    [] c = "toggleBack" -> 7
    [] c = "assert"     -> 5
    [] c = "modprobe"   -> 0
    [] OTHER            -> 6

PlainReads == {"verify", "look", "confirm", "inspect"}

WellOrdered(w) ==
  \A i \in 1 .. Len(w) :
    /\ w[i] # "recheck" /\ Len(w) - i <= Far(w[i])
    /\ w[i] = "toggle" => i < Len(w) /\ w[i + 1] = "toggleBack"
    /\ i > 1 => /\ w[i] = "toggleBack" => w[i - 1] = "toggle"
                /\ w[i] = "check" => w[i - 1] = "toggleBack"
                /\ w[i] \notin PlainReads

First(w, S) == w # <<>> /\ w[1] \in S

(* What may be left of a list whose first call was c.                      *)
Follows(c, w) ==
  /\ c # "recheck" /\ Len(w) <= Far(c) /\ ~First(w, PlainReads)
  /\ c = "toggle" <=> First(w, {"toggleBack"})
  /\ First(w, {"check"}) => c = "toggleBack"

CallsInOrder ==
  /\ WellOrdered(work)
  /\ call # "none" => Follows(call, work)
  /\ ctl \in {"select", "gone", "dead"} => call = "none" /\ work = <<>>
  /\ ctl = "serving" => call # "modprobe" /\ \A i \in 1 .. Len(work) : work[i] # "modprobe"

(* A controller that leaves has a part of this list before it, and what    *)
(* it has done of it is done: the fence keeps the held pair from being     *)
(* written, then the GPU is unlocked, then the CPU is at stock.            *)
LastCalls == HeldPair \o RestoreAll

LeavingRestores ==
  ctl \in {"leaving", "unwinding"} =>
    /\ Len(work) <= 7 /\ \A j \in 1 .. Len(work) : work[j] = LastCalls[7 - Len(work) + j]
    /\ Len(work) >= 6 => fence /\ call = "none"
    /\ call # "none" => Len(work) <= 4 /\ call = LastCalls[7 - Len(work)]
    /\ Len(work) <= 3 \/ (Len(work) = 4 /\ call = "none") => ("gpu" \in caps => "gpu" \in owed)
    /\ Len(work) <= 2 \/ (Len(work) = 3 /\ call = "none") => caps \subseteq owed

(* The CPU is at stock between a toggle and the check.                     *)
ToggleUncaps ==
  call \in {"toggleBack", "check"} \/ (call = "none" /\ First(work, {"toggleBack", "check"}))
    => "cpu" \notin caps

(* The user's profile is in force or is saved by whoever toggles, until a  *)
(* write of it fails.                                                      *)
Midway == call = "toggleBack" \/ (call = "none" /\ First(work, {"toggleBack"}))
ProfileKept ==
  "profile" \notin owed =>
    /\ main \notin {"restoring", "exited"} =>
         IF Midway THEN saved["controller"] = UserProfile ELSE profile = UserProfile
    /\ joined /\ main \in {"restoring", "exited"} =>
         IF main = "restoring" /\ First(mainWork, {"toggleBack"})
         THEN saved["main"] = UserProfile ELSE profile = UserProfile

(* Who has ended has tried to restore, and main knows only of those.       *)
EndedRestored ==
  /\ ctl \in {"gone", "dead"} => caps \subseteq owed
  /\ restored => ctl = "gone"
  /\ joined => ctl \in {"gone", "dead"} /\ main \notin {"running", "panicking", "joining"}
  /\ main = "restoring" =>
       Len(mainWork) <= 4 /\ \A j \in 1 .. Len(mainWork) : mainWork[j] = FreshAll[4 - Len(mainWork) + j]

(* Quit comes after the fence, which goes up once.                         *)
QuitIsFenced ==
  /\ ~fence => late = 0 /\ \A i \in 1 .. Len(inbox) : inbox[i] # "quit"
  /\ main = "running" => ~fence /\ Len(inbox) <= MaxInbox

(* Behind the fence a controller has at most three commands before it: the *)
(* read of a write that was under way, one check, and the reset of the     *)
(* module; a check finds no cap, and nothing arms another.                 *)
One(cond) == IF cond THEN 1 ELSE 0
CommandsLeft ==
  One(call \in CapWrites \/ First(work, PlainReads))
    + One(call \in CapWrites \/ (armed /\ call # "check"))
    + One(ctl \in {"select", "serving"} \/ (ctl \in {"leaving", "unwinding"} /\ work # <<>>))
WorkIsBounded == fence => late + CommandsLeft <= 4

IInv ==
  /\ TypeOK /\ CallsInOrder /\ LeavingRestores /\ ToggleUncaps /\ ProfileKept
  /\ EndedRestored /\ QuitIsFenced /\ WorkIsBounded

(* Once the controller says it restored, a cap of any kind is in force     *)
(* only where the release of it failed: restored is set after the last     *)
(* call of the thread, which says nothing of how those calls ended, and    *)
(* FinalRestore stands down on it.                                         *)
RestoredLeavesWhatFailed == [][restored => caps' \subseteq owed']_vars

(* Whatever hangs, the terminal aside, a program that began to leave exits *)
(* after the controller's Quit, disconnect or Drop or FinalRestore has     *)
(* been through its restore: this is what the bounded join and the bounded *)
(* reaping are for (quit_and_join_controller, reap).  It waits only for a  *)
(* sampler that hangs when the controller has ended.                       *)
LeavesEventually ==
  (main \in {"joining", "grace"}) ~>
    (main = "exited" \/ ("sampler" \in hung /\ ctl \in {"gone", "dead"}))

(* "No actuator write may be issued while this holds", says the stop fence *)
(* of itself (shutting_down in controller.rs).                             *)
FencedIssuesNoWrite ==
  [][call = "none" /\ call' \in CapWrites \cup GpuLocks => ~fence]_vars

(* FinalRestore's Drop covers the exit of a panicking main: no cap is left *)
(* behind (the ORDER comment of main.rs).                                  *)
ExitLeavesNoCap == main = "exited" => caps = {}
===============================================================================
