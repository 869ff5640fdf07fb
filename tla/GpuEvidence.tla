----------------------------- MODULE GpuEvidence -----------------------------
(***************************************************************************)
(* The evidence behind the GPU verdict of an Auto session: NVML cannot     *)
(* read a lock back, so the controller judges the SM clock of a loaded     *)
(* card against the lock commands that had completed when the sample was   *)
(* taken (verify_paired of src/actuators/gpu.rs; record_gpu_command, the   *)
(* GPU half of write_device_decisions and of reassert_actuators in         *)
(* src/control/controller.rs).  Readback has what the verdicts then do to  *)
(* the session; there a reading simply is within or over the lock.         *)
(*                                                                         *)
(* Three parties run at their own pace: the sampler stamps a sample and    *)
(* reads the clock later in the same round, the controller handles samples *)
(* in order, one behind the sampler at most, and the card takes a command  *)
(* at some moment of the call.  Time is counted in stamps: "age" is the    *)
(* number of samples stamped since, so a command completed before a sample *)
(* was stamped when it is older than that sample, and at most one second   *)
(* before it when it is older by one.                                      *)
(***************************************************************************)
EXTENDS Naturals, Sequences

CONSTANTS
  Locks,            \* the maximum clocks the loop asks for
  Top,              \* the clock of a card without a lock
  Strikes,          \* VERIFY_STRIKES
  MismatchStrikes,  \* MISMATCH_RELEASE_STRIKES
  Backlog,          \* most samples that wait for the controller
  Troubles          \* most troubles: a lock that a prompt card loses to somebody else, a call of
                    \* its that fails, a call so slow that a sample is stamped before it returns

ASSUME GpuEvidenceAssumption ==
  /\ Locks \subseteq Nat \ {0} /\ Locks # {} /\ Top \in Nat /\ \A l \in Locks : l < Top
  /\ Strikes \in Nat \ {0} /\ MismatchStrikes \in Nat \ {0} /\ Backlog \in Nat \ {0}
  /\ Troubles \in Nat

VARIABLES
  card,     \* kind: prompt, lagging or ignoring; now: its ceiling; fresh, old: the ceilings
            \* replaced since the last stamp and in the second before; troubles: those so far
  sampler,  \* reading: a sample is stamped, its clock unread; woke: it is the first after a
            \* suspend; slept: the next one is
  queue,    \* the samples that wait for the controller
  at,       \* the stage of the controller in the handling of the first of them
  call,     \* want: the lock of the NVML call under way, 0 for none; hit: the driver has taken it
  session,  \* cmds: gpu_commands; streak: the verifier's violation_streak; mis, released:
            \* gpu_verdict; lock: status.gpu_max_mhz, 0 for none; recent: the last reassert.  For the
            \* property, of a lagging card: asked: what the loop last asked for in this mismatch;
            \* moved: it then asked for another lock
  over      \* samples in a row, until enough, whose clock no completed command explains

vars == <<card, sampler, queue, at, call, session, over>>

Kept  == 3  \* commands kept
Enough == Strikes + MismatchStrikes - 1
Ages  == 0..(Backlog + 2)
Clocks == {Top} \cup Locks
\* clock: the ceiling the card showed.  What a sample says of it is drawn when it is scored: no
\* clock, one under the load floor, one that something else holds below every lock, or this one.
Sample == [clock : Clocks, age : Ages, woke : BOOLEAN]
Readings == {"invalid", "idle", "below", "at"}
Stages == {"idle", "resuming", "resumed", "writing", "maintaining"}
NoCall   == [want |-> 0, hit |-> FALSE]

TypeOK ==
  /\ card \in [kind : {"prompt", "lagging", "ignoring"}, now : Clocks, fresh : SUBSET Clocks,
               old : SUBSET Clocks, troubles : 0..Troubles]
  /\ sampler \in [reading : BOOLEAN, woke : BOOLEAN, slept : BOOLEAN]
  /\ queue \in Seq(Sample) /\ Len(queue) <= Backlog
  /\ at \in Stages
  /\ call \in [want : {0} \cup Locks, hit : BOOLEAN]
  /\ session \in [cmds : Seq([lock : Locks, age : Ages]), streak : 0..Strikes,
                  mis : 0..(MismatchStrikes - 1), released : BOOLEAN, lock : {0} \cup Locks,
                  asked : {0} \cup Locks, moved : BOOLEAN, recent : {"calm", "due", "stuck"}]
  /\ Len(session.cmds) <= Kept /\ over \in 0..Enough

Init ==
  /\ \E k \in {"prompt", "lagging", "ignoring"} :
       card = [kind |-> k, now |-> Top, fresh |-> {}, old |-> {}, troubles |-> 0]
  /\ sampler = [reading |-> FALSE, woke |-> FALSE, slept |-> FALSE]
  /\ queue = <<>> /\ at = "idle" /\ call = NoCall
  /\ session = [cmds |-> <<>>, streak |-> 0, mis |-> 0, released |-> FALSE, lock |-> 0, asked |-> 0,
                moved |-> FALSE, recent |-> "calm"]
  /\ over = 0
-----------------------------------------------------------------------------
(* The sampler.                                                            *)

\* Ages beyond that of the oldest sample by two or more are all alike.
Older(age) == IF age >= Len(queue) + 2 THEN Len(queue) + 2 ELSE age + 1

AgedCommands(cmds) == [i \in DOMAIN cmds |-> [cmds[i] EXCEPT !.age = Older(@)]]

Trouble == [card EXCEPT !.troubles = @ + 1]

\* sample_at stamps the sample before it reads a sensor: everything else is a second older.
Stamp ==
  /\ ~sampler.reading /\ Len(queue) < Backlog
  /\ sampler' = [reading |-> TRUE, woke |-> sampler.slept, slept |-> FALSE]
  /\ queue' = [i \in DOMAIN queue |-> [queue[i] EXCEPT !.age = @ + 1]]
  /\ session' = [session EXCEPT !.cmds = AgedCommands(@)]
  /\ card' = LET c == IF call.want = 0 THEN card ELSE Trouble
             IN [c EXCEPT !.old = card.fresh, !.fresh = {}]
  /\ call.want # 0 => card.troubles < Troubles
  /\ UNCHANGED <<at, call, over>>

\* The ceilings the clock may still show.
Shown == {card.now} \cup card.fresh \cup card.old

Read ==
  /\ sampler.reading
  /\ \E c \in Shown : queue' = Append(queue, [clock |-> c, age |-> 0, woke |-> sampler.woke])
  /\ sampler' = [sampler EXCEPT !.reading = FALSE, !.woke = FALSE]
  /\ UNCHANGED <<card, at, call, session, over>>
-----------------------------------------------------------------------------
(* The card.                                                               *)

Ceiling(c) ==
  [card EXCEPT !.now = c, !.fresh = IF card.kind # "lagging" \/ c = card.now THEN @ ELSE @ \cup {card.now}]

\* Somebody else resets the lock.
LoseLock ==
  /\ card.kind = "prompt" /\ card.troubles < Troubles /\ card.now # Top
  /\ card' = [Ceiling(Top) EXCEPT !.troubles = @ + 1]
  /\ UNCHANGED <<sampler, queue, at, call, session, over>>

\* The machine sleeps long enough for is_resume_gap, and the driver forgets the lock.
Suspend ==
  /\ ~sampler.slept /\ ~sampler.reading
  /\ sampler' = [sampler EXCEPT !.slept = TRUE]
  /\ card' = [card EXCEPT !.now = Top, !.fresh = {}, !.old = {}]
  /\ UNCHANGED <<queue, at, call, session, over>>

\* The driver takes the command of the call under way.
Take ==
  /\ call.want # 0 /\ ~call.hit
  /\ call' = [call EXCEPT !.hit = TRUE]
  /\ card' = IF card.kind = "ignoring" THEN card ELSE Ceiling(call.want)
  /\ UNCHANGED <<sampler, queue, at, session, over>>
-----------------------------------------------------------------------------
(* The verifier.                                                           *)

\* Mutation: paired with what had completed when the clock was read.
PairedByReading(cmds, s) ==
  {i \in DOMAIN cmds : cmds[i].age >= s.age /\ \A j \in DOMAIN cmds : j > i => cmds[j].age < s.age}

\* The newest command that had completed when the sample was stamped.
Paired(cmds, s) == {i \in DOMAIN cmds : cmds[i].age > s.age /\ \A j \in DOMAIN cmds : j > i => cmds[j].age <= s.age}

\* verify_paired: within a second of a downward command its predecessor is allowed too.
Allowed(cmds, s, i) ==
  IF i > 1 /\ cmds[i].lock < cmds[i - 1].lock /\ cmds[i].age = s.age + 1
    THEN cmds[i - 1].lock ELSE cmds[i].lock

\* verify_against_lock: the streak a reading leaves, and the verdict it earns.
Streak(v, s, reading) ==
  IF Paired(v.cmds, s) = {} THEN v.streak
  ELSE IF reading = "at" /\ \E i \in Paired(v.cmds, s) : s.clock > Allowed(v.cmds, s, i)
       THEN IF v.streak < Strikes THEN v.streak + 1 ELSE Strikes
  ELSE 0

Verdict(v, s, reading) ==
  IF Paired(v.cmds, s) = {} \/ reading = "idle" THEN "Unverifiable"
  ELSE IF Streak(v, s, reading) = 0 THEN "Verified"
  ELSE IF Streak(v, s, reading) = Strikes THEN "Mismatch" ELSE "Unverifiable"

\* VerdictState::observe of the GPU's verdicts.
Observed(v, verdict, suppress) ==
  IF verdict = "Verified" THEN [v EXCEPT !.mis = 0, !.released = FALSE, !.moved = @ /\ v.lock = 0]
  ELSE IF verdict = "Unverifiable" \/ suppress THEN v
  ELSE IF v.mis + 1 >= MismatchStrikes THEN [v EXCEPT !.mis = 0, !.released = TRUE]
  ELSE [v EXCEPT !.mis = @ + 1]
-----------------------------------------------------------------------------
(* The controller.                                                         *)

Calls(want) == [want |-> want, hit |-> FALSE]

\* on_sample: a resumed sample first drops the evidence and reasserts the lock.
Resume ==
  /\ at = "idle" /\ queue # <<>> /\ Head(queue).woke
  /\ session' = [session EXCEPT !.cmds = <<>>, !.streak = 0, !.mis = 0, !.released = FALSE,
                                !.moved = FALSE]
  /\ over' = 0
  /\ IF session.lock = 0 THEN at' = "resumed" /\ UNCHANGED call
                         ELSE at' = "resuming" /\ call' = Calls(session.lock)
  /\ UNCHANGED <<card, sampler, queue>>

\* A reading that no completed command explains, of a card that ignores its locks.
Unexplained(v, s, reading) ==
  reading = "at" /\ \A i \in DOMAIN v.cmds : v.cmds[i].age > s.age => s.clock > v.cmds[i].lock

Counted(v, s, reading, suppress) ==
  IF card.kind # "ignoring" \/ Paired(v.cmds, s) = {} THEN over
  ELSE IF ~Unexplained(v, s, reading) THEN 0
  ELSE IF suppress \/ over = Enough THEN over ELSE over + 1

\* A tick's write asks for whatever lock the loop has come to.  In the middle of a mismatch the loop
\* holds its request, but clips it into the bounds of the sample, which the thermal ratchet and an
\* edited floor move, and a group that is lost asks for the maximum: "moved" remembers that.
Asking(v, l) ==
  IF card.kind # "lagging" THEN v
  ELSE [v EXCEPT !.asked = IF v.mis > 0 THEN l ELSE 0,
                 !.moved = @ \/ (session.mis > 0 /\ v.mis > 0 /\ l # session.asked)]

\* After the tick's write: the stickiness watchdog reasserts at most every second sample,
\* the maintenance not right after a reassert.
Maintain(v) ==
  \/ at' = "idle" /\ call' = NoCall /\ session' = [v EXCEPT !.recent = "calm"]
  \/ \E cause \in {"due", "stuck"} :
       /\ v.lock # 0 /\ v.recent # "stuck" /\ (cause = "due" => v.recent = "calm")
       /\ at' = "maintaining" /\ call' = Calls(v.lock) /\ session' = [v EXCEPT !.recent = cause]

\* The GPU half of write_device_decisions, after its CPU half: the sample is scored, then the
\* lock is written, unless this sample released it.
Score ==
  /\ queue # <<>> /\ at = (IF Head(queue).woke THEN "resumed" ELSE "idle")
  /\ queue' = Tail(queue)
  /\ \E suppress \in BOOLEAN, reading \in Readings :
       LET s       == Head(queue)
           scored  == reading # "invalid" /\ ~s.woke
           verdict == Verdict(session, s, reading)
           strike  == scored /\ verdict = "Mismatch" /\ ~suppress
           after   == IF ~scored THEN session
                      ELSE [Observed(session, verdict, suppress) EXCEPT !.streak = Streak(session, s, reading)]
           gaveUp  == strike /\ session.mis + 1 >= MismatchStrikes
       IN /\ over' = IF scored THEN Counted(session, s, reading, suppress) ELSE over
          /\ \/ gaveUp /\ card' \in {card, Ceiling(Top)} /\ Maintain([after EXCEPT !.lock = 0])
             \/ ~strike /\ UNCHANGED card /\ Maintain(after)
             \/ /\ ~gaveUp /\ UNCHANGED card
                /\ \E l \in Locks : call' = Calls(l) /\ session' = Asking(after, l)
                /\ at' = "writing"
  /\ UNCHANGED sampler

\* record_gpu_command: what succeeded is kept with the time it completed.
LastOf(cmds) == IF Len(cmds) > Kept THEN Tail(cmds) ELSE cmds
WithEvidence(want) == LastOf(Append(session.cmds, [lock |-> want, age |-> 0]))

\* Mutation: the verifier is recreated whenever the lock it verifies changes.
RecordedAfresh(want) ==
  [session EXCEPT !.cmds = WithEvidence(want), !.lock = want,
                  !.streak = IF want = session.lock THEN @ ELSE 0]

Recorded(want) == [session EXCEPT !.cmds = WithEvidence(want), !.lock = want]

\* The call returns, with or without success.
Return ==
  /\ call.want # 0
  /\ LET done == IF call.hit THEN Recorded(call.want) ELSE session
     IN \/ at = "writing" /\ Maintain(done)
        \/ /\ at # "writing" /\ session' = done /\ call' = NoCall
           /\ at' = IF at = "resuming" THEN "resumed" ELSE "idle"
  /\ IF call.hit \/ card.kind # "prompt" THEN UNCHANGED card
     ELSE card.troubles < Troubles /\ card' = Trouble
  /\ UNCHANGED <<sampler, queue, over>>

Next ==
  \/ Stamp \/ Read \/ LoseLock \/ Suspend \/ Take
  \/ Resume \/ Score \/ Return

Spec == Init /\ [][Next]_vars
-----------------------------------------------------------------------------
(* Properties.                                                             *)

\* A card that takes its locks at once keeps them, whatever the loop asks for meanwhile: raises
\* that a sampler round straddles, doubled commands, clock-less samples, a suspend, and one lost
\* lock, failed call or slow call may earn it a mismatch and never the release.  A card that takes
\* them with up to a second of lag keeps them too, unless its lock was moved in the middle of the
\* mismatch (verify_paired, VerdictState::observe, the Frozen tick of device_loop.rs).
ObedientKeepsItsLock == TypeOK /\ (session.released => card.kind = "ignoring" \/ session.moved)

\* A card that runs above everything it was told for long enough is released, however its lock
\* moves meanwhile.
IgnoringIsCaught == over = Enough => session.released

\* The strengthening for the second.  Samples are as old as the stamps made since, commands are
\* kept in the order of their completion, and every reading counted against the card is a reading
\* more in the verifier's streak or, once that is full, a strike: Strikes - 1 of the one and
\* MismatchStrikes - 1 of the other are the most that go unpunished.
SamplesInOrder ==
  /\ sampler.reading => Len(queue) < Backlog
  /\ \A i \in 1..Len(queue) : queue[i].age = Len(queue) - i + (IF sampler.reading THEN 1 ELSE 0)
CommandsInOrder ==
  \A i, j \in 1..Len(session.cmds) : i <= j => session.cmds[i].age >= session.cmds[j].age

Held(v) == v.mis + (IF v.streak = Strikes THEN Strikes - 1 ELSE v.streak)
CountIsHeld ==
  /\ card.kind # "ignoring" => over = 0
  /\ ~session.released => over <= Held(session)

IInv == TypeOK /\ SamplesInOrder /\ CommandsInOrder /\ CountIsHeld

\* The strengthening for the first, with one sample waiting and one trouble.  The controller is in
\* one stage of one sample, and only a call so slow that it costs the trouble sees another stamped.
Newest(cmds) == cmds[Len(cmds)].lock
Pending == sampler.reading \/ queue # <<>>
StagesInOrder ==
  /\ call.want = 0 <=> at \in {"idle", "resumed"}
  /\ call.hit => call.want # 0
  /\ sampler.woke => sampler.reading
  /\ sampler.reading => ~sampler.slept
  /\ at \in {"resuming", "resumed"} =>
       queue # <<>> /\ Head(queue).woke /\ session.streak = 0 /\ session.mis = 0
  /\ at = "resuming" => session.cmds = <<>>
  /\ at = "maintaining" => call.want = session.lock
  /\ card.kind = "lagging" /\ at = "writing" /\ session.mis > 0 => call.want = session.asked
  /\ at \in {"writing", "maintaining"} /\ Pending => card.troubles > 0
  /\ session.cmds # <<>> /\ session.lock # 0 => session.lock = Newest(session.cmds)
  /\ session.mis > 0 => session.cmds # <<>>

\* A suspend may have cost the card its lock, and the sample that tells of it is yet to come.
Asleep == \/ sampler.slept \/ sampler.woke
          \/ queue # <<>> /\ Head(queue).woke /\ at \notin {"resuming", "resumed"}

\* The card has the lock of the newest command, unless that was released, or of the call that it
\* has just taken.
InForce ==
  ~Asleep => /\ call.hit => card.now = call.want
             /\ ~call.hit /\ session.lock # 0 /\ session.cmds # <<>> => card.now = Newest(session.cmds)

\* The pending sample may show more than it should, allowance aside; the next one may, because of
\* a ceiling that has been replaced since the last stamp, or of one just raised.
Above(cmds, c) == \E i \in Paired(cmds, [age |-> 0]) : c > cmds[i].lock
Suspect ==
  \/ sampler.reading /\ ~sampler.woke /\ \E c \in Shown : Above(session.cmds, c)
  \/ queue # <<>> /\ ~Head(queue).woke /\ Above(session.cmds, Head(queue).clock)
Lowered == \E c \in card.fresh : c > card.now
Coming == Lowered \/ (call.hit /\ ~Pending /\ card.now > Newest(session.cmds))

\* A prompt card shows too much only in its trouble; once a strike has led to a write, no more.
PromptObeys ==
  /\ card.fresh = {} /\ card.old = {}
  /\ card.troubles = 0 => InForce /\ ~Suspect /\ session.streak = 0 /\ session.mis = 0
  /\ session.mis > 0 => ~Suspect /\ (InForce \/ (call.want # 0 /\ ~call.hit))
  /\ session.mis > 0 /\ call.want # 0 => ~Pending

\* A lagging card follows its locks, one behind while they are seen.
LaggingObeys ==
  /\ InForce
  /\ card.troubles = 0 /\ at = "idle" /\ Pending => card.fresh = {}
  /\ at = "writing" /\ ~call.hit /\ ~Asleep /\ Pending => card.fresh = {}

\* While the loop holds its lock in a mismatch: a change of the card's ceiling spoils one sample, and
\* after the first strike there is one change left, to what the loop then holds: it is to be made, or
\* to be seen, or in the pending sample, or over and paid for by the second strike.  Two spoiled
\* samples in a row at the first strike would be too many, and need a streak that has just begun.
SteadyObeys ==
  /\ session.mis > 0 /\ Suspect => session.mis = 1
  /\ session.mis > 0 /\ ~Asleep =>
       /\ Coming => session.mis = 1 /\ ~Suspect
       /\ card.now # session.asked => session.mis = 1 /\ ~Suspect /\ ~Coming
  /\ Suspect /\ Lowered /\ ~Asleep => session.streak = 0
  /\ at = "writing" /\ ~call.hit /\ ~Asleep =>
       (Suspect \/ (card.troubles = 0 /\ Lowered) => session.streak = 0 /\ session.mis = 0)

Obeys ==
  /\ IInv /\ StagesInOrder
  /\ session.moved => card.kind = "lagging"
  /\ session.lock = 0 /\ session.cmds # <<>> => card.kind = "ignoring" \/ session.moved
  /\ card.kind # "ignoring" => session.moved \/ ~session.released
  /\ card.kind = "prompt" => PromptObeys
  /\ card.kind = "lagging" => LaggingObeys /\ (session.moved \/ SteadyObeys)
=============================================================================
