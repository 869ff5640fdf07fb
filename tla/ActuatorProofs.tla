--------------------------- MODULE ActuatorProofs ---------------------------
(***************************************************************************)
(* The two actuators.  The GPU verifier catches a card that ignores its    *)
(* locks, for every set of locks, every number of strikes and every        *)
(* backlog, and, with one sample waiting and one trouble, leaves alone one *)
(* that takes them at once, and one that takes them late while the loop    *)
(* holds them.  And what a write, maintenance and a restore of the CPU     *)
(* actuator leave behind, for every set of limits and every combination of *)
(* faults, with the restore's promise for hardware that takes the writes   *)
(* it accepts and can be read back.                                        *)
(***************************************************************************)
EXTENDS GpuEvidence, CpuActuator, SequenceTheorems, TLAPS

-----------------------------------------------------------------------------
(* The GPU actuator's evidence.                                            *)

\* The ages a sample or a command may have, and what a sequence of them is.
Command == [lock : Locks, age : Ages]

\* The constants as numbers.
LEMMA Numbers ==
  /\ Strikes \in Nat /\ Strikes >= 1 /\ MismatchStrikes \in Nat /\ MismatchStrikes >= 1
  /\ Backlog \in Nat /\ Backlog >= 1 /\ Troubles \in Nat
  /\ Locks \subseteq Nat /\ 0 \notin Locks /\ Top \in Nat /\ Locks \subseteq Clocks /\ Top \in Clocks
  /\ Clocks \subseteq Nat
  BY GpuEvidenceAssumption DEF Clocks

\* Ageing stays in range and keeps who is older.
LEMMA OlderOK ==
  ASSUME Len(queue) \in Nat, Len(queue) < Backlog
  PROVE  /\ \A a \in Ages : Older(a) \in Ages
         /\ \A a, b \in Ages : a >= b => Older(a) >= Older(b)
  BY Numbers DEF Older, Ages

\* A sample is scored against commands in the order of their completion.
InOrder(v) == \A i, j \in 1..Len(v.cmds) : i <= j => v.cmds[i].age >= v.cmds[j].age

Sessions ==
  [cmds : Seq(Command), streak : 0..Strikes, mis : 0..(MismatchStrikes - 1), released : BOOLEAN,
   lock : {0} \cup Locks, asked : {0} \cup Locks, moved : BOOLEAN, recent : {"calm", "due", "stuck"}]

\* What has to hold of a session between the stages of a sample.
SessionOK(v) == v \in Sessions /\ Len(v.cmds) <= Kept /\ InOrder(v)

\* The paired command and the one before it had completed when the sample was stamped.
LEMMA AllowedIsCompleted ==
  ASSUME NEW v \in Sessions, InOrder(v), NEW s \in Sample, NEW i \in Paired(v.cmds, s)
  PROVE  \E j \in DOMAIN v.cmds : v.cmds[j].age > s.age /\ Allowed(v.cmds, s, i) = v.cmds[j].lock
<1>1. v.cmds \in Seq(Command) /\ DOMAIN v.cmds = 1..Len(v.cmds) /\ Len(v.cmds) \in Nat
  BY DEF Sessions
<1>2. i \in 1..Len(v.cmds) /\ v.cmds[i].age > s.age
  BY <1>1 DEF Paired
<1>3. CASE i > 1
  <2>1. i - 1 \in 1..Len(v.cmds)
    BY <1>1, <1>2, <1>3
  <2>2. v.cmds[i - 1].age >= v.cmds[i].age
    BY <1>2, <2>1 DEF InOrder
  <2>3. v.cmds[i].age \in Nat /\ v.cmds[i - 1].age \in Nat /\ s.age \in Nat
    <3>1. v.cmds[i] \in Command /\ v.cmds[i - 1] \in Command
      BY <1>1, <1>2, <2>1
    <3>2. Ages \subseteq Nat
      BY Numbers DEF Ages
    <3> QED BY <3>1, <3>2 DEF Command, Sample
  <2>4. v.cmds[i - 1].age > s.age
    BY <1>2, <2>2, <2>3
  <2> QED BY <1>1, <1>2, <2>1, <2>4 DEF Allowed
<1>4. CASE ~(i > 1)
  BY <1>1, <1>2, <1>4 DEF Allowed
<1> QED BY <1>3, <1>4

\* A reading that no completed command explains exceeds what the verifier allows.
LEMMA UnexplainedExceeds ==
  ASSUME NEW v \in Sessions, InOrder(v), NEW s \in Sample, NEW reading \in Readings,
         Unexplained(v, s, reading), Paired(v.cmds, s) # {}
  PROVE  Streak(v, s, reading) = IF v.streak < Strikes THEN v.streak + 1 ELSE Strikes
<1>1. PICK i \in Paired(v.cmds, s) : TRUE
  OBVIOUS
<1>2. PICK j \in DOMAIN v.cmds : v.cmds[j].age > s.age /\ Allowed(v.cmds, s, i) = v.cmds[j].lock
  BY <1>1, AllowedIsCompleted
<1>3. reading = "at" /\ s.clock > Allowed(v.cmds, s, i)
  BY <1>2 DEF Unexplained
<1> QED BY <1>3 DEF Streak

\* The streak stays in range.
LEMMA StreakOK ==
  ASSUME NEW v \in Sessions, NEW s \in Sample, NEW reading \in Readings
  PROVE  Streak(v, s, reading) \in 0..Strikes
<1>1. v.streak \in 0..Strikes
  BY DEF Sessions
<1> QED BY <1>1, Numbers DEF Streak

\* What a sample that is scored makes of the session.
After(v, s, reading, suppress) ==
  [Observed(v, Verdict(v, s, reading), suppress) EXCEPT !.streak = Streak(v, s, reading)]

\* Scoring keeps the evidence and moves the counts as the verdict says.
LEMMA AfterOK ==
  ASSUME NEW v, SessionOK(v), NEW s \in Sample, NEW reading \in Readings, NEW suppress \in BOOLEAN
  PROVE  LET a == After(v, s, reading, suppress)
         IN  /\ SessionOK(a) /\ a.cmds = v.cmds
             /\ a.streak = Streak(v, s, reading)
             /\ a.mis = Observed(v, Verdict(v, s, reading), suppress).mis
             /\ a.released = Observed(v, Verdict(v, s, reading), suppress).released
<1> DEFINE o == Observed(v, Verdict(v, s, reading), suppress)
           a == After(v, s, reading, suppress)
<1>1. v \in Sessions /\ v.mis \in 0..(MismatchStrikes - 1)
  BY DEF SessionOK, Sessions
<1>2. o \in Sessions /\ o.cmds = v.cmds
  <2>1. LET u == [v EXCEPT !.mis = 0, !.released = FALSE, !.moved = @ /\ v.lock = 0]
        IN  u \in Sessions /\ u.cmds = v.cmds
    <3>1. (v.moved /\ v.lock = 0) \in BOOLEAN /\ 0 \in 0..(MismatchStrikes - 1)
      BY Numbers
    <3> QED BY <1>1, <3>1 DEF Sessions
  <2>2. 0 \in 0..(MismatchStrikes - 1) /\ v.released \in BOOLEAN
        /\ (~(v.mis + 1 >= MismatchStrikes) => v.mis + 1 \in 0..(MismatchStrikes - 1))
    BY <1>1, Numbers DEF Sessions
  <2>4. CASE Verdict(v, s, reading) = "Verified"
    BY <2>1, <2>4 DEF Observed
  <2>5. CASE Verdict(v, s, reading) # "Verified"
    <3>1. /\ [v EXCEPT !.mis = 0, !.released = TRUE] \in Sessions
          /\ [v EXCEPT !.mis = 0, !.released = TRUE].cmds = v.cmds
      BY <1>1, <2>2 DEF Sessions
    <3>2. ~(v.mis + 1 >= MismatchStrikes) =>
            /\ [v EXCEPT !.mis = v.mis + 1] \in Sessions
            /\ [v EXCEPT !.mis = v.mis + 1].cmds = v.cmds
      BY <1>1, <2>2 DEF Sessions
    <3> QED BY <1>1, <2>5, <3>1, <3>2 DEF Observed
  <2> QED BY <2>4, <2>5
<1>3. Streak(v, s, reading) \in 0..Strikes
  BY <1>1, StreakOK
<1>4. a = [o EXCEPT !.streak = Streak(v, s, reading)]
  BY DEF After
<1> HIDE DEF o, a
<1>5. a \in Sessions /\ a.cmds = v.cmds /\ a.streak = Streak(v, s, reading)
      /\ a.mis = o.mis /\ a.released = o.released
  BY <1>2, <1>3, <1>4 DEF Sessions
<1> QED BY <1>5 DEF SessionOK, InOrder, o, a

\* The count after a sample is held by the streak and the strikes it leaves.
LEMMA CountOK ==
  ASSUME NEW v, SessionOK(v), NEW s \in Sample, NEW reading \in Readings, NEW suppress \in BOOLEAN,
         NEW a, a = After(v, s, reading, suppress), over \in 0..Enough,
         card.kind # "ignoring" => over = 0, ~v.released => over <= Held(v)
  PROVE  /\ Counted(v, s, reading, suppress) \in 0..Enough
         /\ card.kind # "ignoring" => Counted(v, s, reading, suppress) = 0
         /\ ~a.released => Counted(v, s, reading, suppress) <= Held(a)
<1> DEFINE n == Counted(v, s, reading, suppress)
           verdict == Verdict(v, s, reading)
           streak == Streak(v, s, reading)
<1>1. /\ v \in Sessions /\ InOrder(v) /\ v.mis \in 0..(MismatchStrikes - 1) /\ v.streak \in 0..Strikes
      /\ v.released \in BOOLEAN
  BY DEF SessionOK, Sessions
<1>2. SessionOK(a) /\ a.streak = streak
      /\ a.mis = Observed(v, verdict, suppress).mis
      /\ a.released = Observed(v, verdict, suppress).released
  BY AfterOK
<1>3. a.mis \in Nat /\ streak \in 0..Strikes /\ Held(a) \in Nat /\ Enough \in Nat
  BY <1>1, <1>2, StreakOK, Numbers DEF SessionOK, Sessions, Held, Enough
<1>4. n \in 0..Enough /\ (card.kind # "ignoring" => n = 0)
  BY <1>3 DEF Counted
<1>5. ASSUME ~a.released PROVE n <= Held(a)
  <2>1. CASE card.kind # "ignoring"
    BY <1>3, <1>4, <2>1
  <2>2. CASE Paired(v.cmds, s) = {}
    <3>1. verdict = "Unverifiable" /\ streak = v.streak /\ n = over
      BY <2>2 DEF Verdict, Streak, Counted
    <3>2. a.mis = v.mis /\ a.released = v.released
      BY <1>2, <3>1 DEF Observed
    <3> QED BY <1>2, <1>5, <3>1, <3>2 DEF Held
  <2>3. CASE card.kind = "ignoring" /\ Paired(v.cmds, s) # {} /\ ~Unexplained(v, s, reading)
    <3>1. n = 0
      BY <2>3 DEF Counted
    <3> QED BY <1>3, <3>1
  <2>4. CASE card.kind = "ignoring" /\ Paired(v.cmds, s) # {} /\ Unexplained(v, s, reading)
    <3>1. streak = IF v.streak < Strikes THEN v.streak + 1 ELSE Strikes
      BY <1>1, <2>4, UnexplainedExceeds
    <3>2. reading = "at"
      BY <2>4 DEF Unexplained
    <3>3. verdict = IF streak = Strikes THEN "Mismatch" ELSE "Unverifiable"
      BY <1>1, <2>4, <3>1, <3>2, Numbers DEF Verdict
    <3>4. n = IF suppress \/ over = Enough THEN over ELSE over + 1
      BY <2>4 DEF Counted
    <3>5. ~v.released /\ a.mis = IF verdict = "Mismatch" /\ ~suppress THEN v.mis + 1 ELSE v.mis
      BY <1>1, <1>2, <1>5, <3>3 DEF Observed
    <3>6. over \in Nat /\ over <= Held(v)
      BY <3>5
    <3> QED BY <1>1, <1>2, <3>1, <3>3, <3>4, <3>5, <3>6, Numbers DEF Held
  <2> QED BY <2>1, <2>2, <2>3, <2>4
<1> QED BY <1>4, <1>5
-----------------------------------------------------------------------------
(* The steps.                                                              *)

CallType == [want : {0} \cup Locks, hit : BOOLEAN]

\* The calls the controller makes.
LEMMA CallsTyped == NoCall \in CallType /\ \A l \in {0} \cup Locks : Calls(l) \in CallType
  BY DEF NoCall, Calls, CallType

\* The invariant, by the variables.
CardType == [kind : {"prompt", "lagging", "ignoring"}, now : Clocks, fresh : SUBSET Clocks,
             old : SUBSET Clocks, troubles : 0..Troubles]
QueueOK == queue \in Seq(Sample) /\ Len(queue) <= Backlog /\ SamplesInOrder
CountFits == over \in 0..Enough /\ CountIsHeld

Parts ==
  /\ card \in CardType
  /\ sampler \in [reading : BOOLEAN, woke : BOOLEAN, slept : BOOLEAN]
  /\ at \in Stages /\ call \in CallType
  /\ QueueOK /\ SessionOK(session) /\ CountFits

\* The invariant is its parts, now and after a step.
LEMMA InParts == (IInv <=> Parts) /\ (IInv <=> Parts)'
<1> USE DEF IInv, Parts, TypeOK, CardType, CallType, QueueOK, SessionOK, Sessions, Command, InOrder,
            CommandsInOrder, CountFits
<1>1. IInv <=> Parts
  OBVIOUS
<1>2. (IInv <=> Parts)'
  BY <1>1, PTL
<1> QED BY <1>1, <1>2

\* What the count depends on.
SameCount ==
  /\ over' = over /\ card'.kind = card.kind /\ session'.released = session.released
  /\ session'.mis = session.mis /\ session'.streak = session.streak

\* A step that leaves the verdicts and the count alone keeps the bound.
LEMMA CountStays == ASSUME CountFits, SameCount PROVE CountFits'
  BY DEF CountFits, SameCount, CountIsHeld, Held

\* So does one that leaves the samples alone, of theirs.
LEMMA QueueStays == ASSUME QueueOK, queue' = queue, sampler'.reading = sampler.reading PROVE QueueOK'
  BY DEF QueueOK, SamplesInOrder

\* A card keeps its kind; what it shows is a clock.
LEMMA CardOK ==
  ASSUME card \in CardType, NEW c \in Clocks
  PROVE  /\ Ceiling(c) \in CardType /\ Ceiling(c).kind = card.kind /\ Ceiling(c).troubles = card.troubles
         /\ card.troubles < Troubles => Trouble \in CardType /\ Trouble.kind = card.kind
         /\ card.troubles < Troubles =>
              [Ceiling(c) EXCEPT !.troubles = @ + 1] \in CardType
              /\ [Ceiling(c) EXCEPT !.troubles = @ + 1].kind = card.kind
<1>1. card.troubles \in 0..Troubles /\ (card.troubles < Troubles => card.troubles + 1 \in 0..Troubles)
  BY Numbers DEF CardType
<1>2. Ceiling(c) \in CardType /\ Ceiling(c).kind = card.kind /\ Ceiling(c).troubles = card.troubles
  BY DEF Ceiling, CardType
<1>3. card.troubles < Troubles => Trouble \in CardType /\ Trouble.kind = card.kind
  BY <1>1 DEF Trouble, CardType
<1> QED BY <1>1, <1>2, <1>3 DEF CardType

\* Every sample is a stamp older.
LEMMA StampOK == ASSUME IInv, Stamp PROVE IInv'
<1>0. Parts
  BY InParts
<1> USE <1>0 DEF Parts
<1>1. /\ ~sampler.reading /\ Len(queue) < Backlog /\ Len(queue) \in Nat
      /\ queue \in Seq(Sample) /\ DOMAIN queue = 1..Len(queue)
  BY DEF Stamp, QueueOK
<1>2. sampler' \in [reading : BOOLEAN, woke : BOOLEAN, slept : BOOLEAN] /\ sampler'.reading
  BY DEF Stamp
<1>3. card' \in CardType /\ card'.kind = card.kind
  <2> DEFINE c == IF call.want = 0 THEN card ELSE Trouble
  <2>1. c \in CardType /\ c.kind = card.kind /\ card.fresh \in SUBSET Clocks
    <3>1. Top \in Clocks
      BY Numbers
    <3> QED BY <3>1, CardOK DEF Stamp, CardType
  <2>2. card' = [c EXCEPT !.old = card.fresh, !.fresh = {}]
    BY DEF Stamp
  <2> HIDE DEF c
  <2> QED BY <2>1, <2>2 DEF CardType
<1>4. QueueOK'
  <2> DEFINE aged(i) == [queue[i] EXCEPT !.age = @ + 1]
  <2>1. queue' = [i \in 1..Len(queue) |-> aged(i)]
    BY <1>1 DEF Stamp
  <2>2. \A i \in 1..Len(queue) : queue[i] \in Sample /\ queue[i].age = Len(queue) - i
    BY <1>1 DEF QueueOK, SamplesInOrder
  <2>3. \A i \in 1..Len(queue) : Len(queue) - i + 1 \in Ages
    BY <1>1, Numbers DEF Ages
  <2>4. \A i \in 1..Len(queue) : aged(i) \in Sample /\ aged(i).age = Len(queue) - i + 1
    BY <2>2, <2>3 DEF Sample
  <2> HIDE DEF aged
  <2>5. queue' \in Seq(Sample) /\ Len(queue') = Len(queue)
    BY <1>1, <2>1, <2>4
  <2>6. \A i \in 1..Len(queue) : queue'[i].age = Len(queue) - i + 1
    BY <2>1, <2>4
  <2> QED BY <1>1, <1>2, <2>5, <2>6 DEF QueueOK, SamplesInOrder
<1>5. SessionOK(session')
  <2> DEFINE n == Len(session.cmds)
             aged(i) == [session.cmds[i] EXCEPT !.age = Older(@)]
             cmds == [i \in 1..n |-> aged(i)]
  <2>1. session.cmds \in Seq(Command) /\ n \in Nat /\ DOMAIN session.cmds = 1..n /\ n <= Kept
    BY DEF SessionOK, Sessions
  <2>2. session' = [session EXCEPT !.cmds = cmds]
    BY <2>1 DEF Stamp, AgedCommands, SessionOK, Sessions
  <2>3. \A a \in Ages : Older(a) \in Ages
    BY <1>1, OlderOK
  <2>4. ASSUME NEW i \in 1..n PROVE session.cmds[i] \in Command /\ session.cmds[i].age \in Ages
    <3>1. session.cmds[i] \in Command
      BY <2>1
    <3> QED BY <3>1 DEF Command
  <2>5. ASSUME NEW i \in 1..n PROVE aged(i) \in Command /\ aged(i).age = Older(session.cmds[i].age)
    BY <2>3, <2>4 DEF Command
  <2> HIDE DEF aged
  <2>6. cmds \in Seq(Command) /\ Len(cmds) = n
    BY <2>1, <2>5
  <2>7. \A i, j \in 1..n : i <= j => cmds[i].age >= cmds[j].age
    <3>1. \A i, j \in 1..n : i <= j => session.cmds[i].age >= session.cmds[j].age
      BY DEF SessionOK, InOrder
    <3>2. \A a, b \in Ages : a >= b => Older(a) >= Older(b)
      BY <1>1, OlderOK
    <3>3. \A i \in 1..n : cmds[i].age = Older(session.cmds[i].age)
      BY <2>5
    <3> QED BY <2>4, <3>1, <3>2, <3>3
  <2> HIDE DEF cmds
  <2>8. session' \in Sessions /\ session'.cmds = cmds
    BY <2>2, <2>1, <2>3, <2>6 DEF SessionOK, Sessions
  <2> QED BY <2>1, <2>6, <2>7, <2>8 DEF SessionOK, InOrder
<1>6. CountFits'
  <2>1. SameCount
    BY <1>3 DEF Stamp, SameCount, SessionOK, Sessions
  <2> QED BY <2>1, CountStays
<1> QED BY <1>2, <1>3, <1>4, <1>5, <1>6, InParts DEF Stamp

\* A sample that has been read joins the queue.
LEMMA ReadOK == ASSUME IInv, Read PROVE IInv'
<1>0. Parts
  BY InParts
<1> USE <1>0 DEF Parts
<1>1. sampler' \in [reading : BOOLEAN, woke : BOOLEAN, slept : BOOLEAN] /\ ~sampler'.reading
  BY DEF Read
<1>2. QueueOK'
  <2> PICK c \in Shown : queue' = Append(queue, [clock |-> c, age |-> 0, woke |-> sampler.woke])
    BY DEF Read
  <2>1. queue \in Seq(Sample) /\ Len(queue) \in Nat
    BY DEF QueueOK
  <2>2. [clock |-> c, age |-> 0, woke |-> sampler.woke] \in Sample
    BY Numbers DEF Shown, CardType, Sample, Ages
  <2>3. /\ queue' \in Seq(Sample) /\ Len(queue') = Len(queue) + 1
        /\ \A i \in 1..Len(queue) : queue'[i] = queue[i]
        /\ queue'[Len(queue) + 1].age = 0
    BY <2>1, <2>2
  <2>4. \A i \in 1..Len(queue) : queue[i].age = Len(queue) - i + 1
    BY DEF Read, QueueOK, SamplesInOrder
  <2>5. Len(queue') <= Backlog
    BY <2>1, <2>3, Numbers DEF QueueOK, SamplesInOrder, Read
  <2>6. \A i \in 1..Len(queue') : queue'[i].age = Len(queue') - i
    <3> TAKE i \in 1..Len(queue')
    <3>1. i \in 1..Len(queue) \/ i = Len(queue) + 1
      BY <2>1, <2>3
    <3> QED BY <2>1, <2>3, <2>4, <3>1
  <2> QED BY <1>1, <2>1, <2>3, <2>5, <2>6 DEF QueueOK, SamplesInOrder
<1>3. CountFits'
  <2>1. SameCount
    BY DEF Read, SameCount
  <2> QED BY <2>1, CountStays
<1> QED BY <1>1, <1>2, <1>3, InParts DEF Read

\* A lock that somebody resets, a suspend and a driver that takes a command move the card only.
LEMMA CardMoves ==
  ASSUME IInv, card' \in CardType, card'.kind = card.kind, call' \in CallType,
         sampler' \in [reading : BOOLEAN, woke : BOOLEAN, slept : BOOLEAN],
         sampler'.reading = sampler.reading, UNCHANGED <<queue, at, session, over>>
  PROVE  IInv'
<1>0. Parts
  BY InParts
<1>1. QueueOK'
  BY <1>0, QueueStays DEF Parts
<1>2. CountFits'
  BY <1>0, CountStays DEF Parts, SameCount
<1> QED BY <1>0, <1>1, <1>2, InParts DEF Parts

\* A lock that somebody resets.
LEMMA LoseLockOK == ASSUME IInv, LoseLock PROVE IInv'
<1>0. Parts
  BY InParts
<1>1. card' \in CardType /\ card'.kind = card.kind
  BY <1>0, CardOK, Numbers DEF LoseLock, Parts
<1> QED BY <1>0, <1>1, CardMoves DEF LoseLock, Parts

\* A machine that sleeps.
LEMMA SuspendOK == ASSUME IInv, Suspend PROVE IInv'
<1>0. Parts
  BY InParts
<1>1. card' \in CardType /\ card'.kind = card.kind
  BY <1>0, Numbers DEF Suspend, Parts, CardType
<1>2. sampler' \in [reading : BOOLEAN, woke : BOOLEAN, slept : BOOLEAN] /\ sampler'.reading = sampler.reading
  BY <1>0 DEF Suspend, Parts
<1> QED BY <1>0, <1>1, <1>2, CardMoves DEF Suspend, Parts

\* A driver that takes its command.
LEMMA TakeOK == ASSUME IInv, Take PROVE IInv'
<1>0. Parts
  BY InParts
<1>1. call.want \in Clocks /\ call' \in CallType
  BY <1>0, Numbers DEF Take, Parts, CallType
<1>2. card' \in CardType /\ card'.kind = card.kind
  BY <1>0, <1>1, CardOK DEF Take, Parts
<1> QED BY <1>0, <1>1, <1>2, CardMoves DEF Take, Parts

\* A resumed sample drops the evidence and the count with it.
LEMMA ResumeOK == ASSUME IInv, Resume PROVE IInv'
<1>0. Parts
  BY InParts
<1>1. session.lock \in {0} \cup Locks /\ session \in Sessions
  BY <1>0 DEF Parts, SessionOK, Sessions
<1>2. at' \in Stages /\ call' \in CallType
  BY <1>0, <1>1, CallsTyped DEF Resume, Stages, Parts
<1>3. session' = [session EXCEPT !.cmds = <<>>, !.streak = 0, !.mis = 0, !.released = FALSE,
                                 !.moved = FALSE]
  BY DEF Resume
<1>4. /\ session' \in Sessions /\ session'.cmds = <<>>
      /\ session'.streak = 0 /\ session'.mis = 0
  <2>1. <<>> \in Seq(Command) /\ 0 \in 0..Strikes /\ 0 \in 0..(MismatchStrikes - 1)
    BY Numbers
  <2> QED BY <1>1, <1>3, <2>1 DEF Sessions
<1>5. SessionOK(session')
  <2>1. Len(<<>>) = 0 /\ 1..0 = {}
    OBVIOUS
  <2> QED BY <1>4, <2>1 DEF SessionOK, InOrder, Kept
<1>6. QueueOK'
  BY <1>0, QueueStays DEF Parts, Resume
<1>7. CountFits'
  <2>1. over' = 0 /\ Enough \in Nat /\ Held(session') \in Nat
    BY <1>4, Numbers DEF Resume, Enough, Held
  <2> QED BY <2>1 DEF CountFits, CountIsHeld
<1> QED BY <1>0, <1>2, <1>5, <1>6, <1>7, InParts DEF Resume, Parts

\* The stage after a write leaves the verdicts and the evidence alone.
LEMMA MaintainOK ==
  ASSUME NEW v, SessionOK(v), Maintain(v)
  PROVE  /\ at' \in Stages /\ call' \in CallType /\ SessionOK(session')
         /\ session'.streak = v.streak /\ session'.mis = v.mis /\ session'.released = v.released
<1>1. v \in Sessions
  BY DEF SessionOK
<1>2. \A r \in {"calm", "due", "stuck"} :
        LET u == [v EXCEPT !.recent = r]
        IN u \in Sessions /\ u.cmds = v.cmds /\ u.streak = v.streak /\ u.mis = v.mis /\ u.released = v.released
  BY <1>1 DEF Sessions
<1>3. PICK r \in {"calm", "due", "stuck"} : session' = [v EXCEPT !.recent = r]
  BY DEF Maintain
<1>4. at' \in Stages /\ call' \in CallType
  <2>1. v.lock \in {0} \cup Locks
    BY <1>1 DEF Sessions
  <2> QED BY <2>1, CallsTyped DEF Maintain, Stages
<1> HIDE DEF Maintain
<1> QED BY <1>2, <1>3, <1>4 DEF SessionOK, InOrder

\* The sample that has been served leaves the queue.
LEMMA QueueShrinks ==
  ASSUME QueueOK, queue # <<>>, queue' = Tail(queue), sampler'.reading = sampler.reading
  PROVE  QueueOK' /\ Head(queue) \in Sample
<1>1. queue \in Seq(Sample) /\ Len(queue) \in Nat /\ Len(queue) >= 1
  BY DEF QueueOK
<1>2. /\ queue' \in Seq(Sample) /\ Len(queue') = Len(queue) - 1
      /\ \A i \in 1..(Len(queue) - 1) : queue'[i] = queue[i + 1]
  BY <1>1
<1>3. \A i \in 1..(Len(queue) - 1) : i + 1 \in 1..Len(queue) /\ Len(queue) - (i + 1) = (Len(queue) - 1) - i
  BY <1>1
<1>4. \A i \in 1..Len(queue') : queue'[i].age = Len(queue') - i + (IF sampler.reading THEN 1 ELSE 0)
  BY <1>1, <1>2, <1>3 DEF QueueOK, SamplesInOrder
<1>5. Len(queue') <= Backlog /\ (sampler.reading => Len(queue') < Backlog)
  BY <1>1, <1>2, Numbers DEF QueueOK, SamplesInOrder
<1> QED BY <1>1, <1>2, <1>4, <1>5 DEF QueueOK, SamplesInOrder

\* What the loop asks for leaves the verdicts and the evidence alone, and moves a lagging card's lock
\* in the middle of a mismatch or holds it.
LEMMA AskingLeaves ==
  ASSUME NEW v \in Sessions, NEW l \in Locks
  PROVE  LET a == Asking(v, l)
         IN  /\ a \in Sessions /\ a.cmds = v.cmds /\ a.lock = v.lock /\ a.streak = v.streak
             /\ a.mis = v.mis /\ a.released = v.released
             /\ card.kind # "lagging" => a.moved = v.moved
             /\ v.moved => a.moved
             /\ card.kind = "lagging" /\ v.mis > 0 =>
                  a.asked = l /\ (session.mis > 0 => a.moved \/ l = session.asked)
<1>1. CASE card.kind # "lagging"
  BY <1>1 DEF Asking
<1>2. CASE card.kind = "lagging"
  <2> DEFINE asked == IF v.mis > 0 THEN l ELSE 0
             moved == v.moved \/ (session.mis > 0 /\ v.mis > 0 /\ l # session.asked)
  <2>1. asked \in {0} \cup Locks /\ moved \in BOOLEAN
    OBVIOUS
  <2>2. Asking(v, l) = [v EXCEPT !.asked = asked, !.moved = moved]
    BY <1>2 DEF Asking, Sessions
  <2> HIDE DEF asked, moved
  <2>3. LET a == Asking(v, l)
        IN  /\ a \in Sessions /\ a.cmds = v.cmds /\ a.lock = v.lock /\ a.streak = v.streak
            /\ a.mis = v.mis /\ a.released = v.released /\ a.asked = asked /\ a.moved = moved
    BY <2>1, <2>2 DEF Sessions
  <2> QED BY <1>2, <2>3 DEF asked, moved
<1> QED BY <1>1, <1>2

\* A scored sample: what the verdict makes of the session goes on into the write or the
\* maintenance, which leave its counts alone.
LEMMA ScoreOK == ASSUME IInv, Score PROVE IInv'
<1>0. Parts
  BY InParts
<1> DEFINE s == Head(queue)
<1>1. QueueOK' /\ s \in Sample /\ UNCHANGED sampler
  BY <1>0, QueueShrinks DEF Score, Parts
<1> PICK suppress \in BOOLEAN, reading \in Readings :
       LET scored  == reading # "invalid" /\ ~s.woke
           verdict == Verdict(session, s, reading)
           strike  == scored /\ verdict = "Mismatch" /\ ~suppress
           after   == IF ~scored THEN session
                      ELSE [Observed(session, verdict, suppress) EXCEPT !.streak = Streak(session, s, reading)]
           gaveUp  == strike /\ session.mis + 1 >= MismatchStrikes
       IN /\ over' = IF scored THEN Counted(session, s, reading, suppress) ELSE over
          /\ \/ gaveUp /\ card' \in {card, Ceiling(Top)} /\ Maintain([after EXCEPT !.lock = 0])
             \/ ~strike /\ UNCHANGED card /\ Maintain(after)
             \/ /\ ~gaveUp /\ UNCHANGED card
                /\ \E l \in Locks : call' = Calls(l) /\ session' = Asking(after, l)
                /\ at' = "writing"
  BY DEF Score
<1> DEFINE scored == reading # "invalid" /\ ~s.woke
           after  == IF scored THEN After(session, s, reading, suppress) ELSE session
           n      == IF scored THEN Counted(session, s, reading, suppress) ELSE over
<1>2. /\ over' = n
      /\ \/ card' \in {card, Ceiling(Top)} /\ Maintain([after EXCEPT !.lock = 0])
         \/ UNCHANGED card /\ Maintain(after)
         \/ /\ UNCHANGED card /\ at' = "writing"
            /\ \E l \in Locks : call' = Calls(l) /\ session' = Asking(after, l)
  BY DEF After
<1>3. SessionOK(session) /\ over \in 0..Enough /\ (card.kind # "ignoring" => over = 0)
      /\ (~session.released => over <= Held(session))
  BY <1>0 DEF Parts, CountFits, CountIsHeld
<1>4. SessionOK(after)
  BY <1>1, <1>3, AfterOK
<1>5. n \in 0..Enough /\ (card.kind # "ignoring" => n = 0) /\ (~after.released => n <= Held(after))
  BY <1>1, <1>3, CountOK
<1> HIDE DEF scored, after, n, s
<1>6. card' \in CardType /\ card'.kind = card.kind
  BY <1>0, <1>2, CardOK, Numbers DEF Parts
<1>7. /\ at' \in Stages /\ call' \in CallType /\ SessionOK(session')
      /\ session'.streak = after.streak /\ session'.mis = after.mis /\ session'.released = after.released
  <2>1. after \in Sessions
    BY <1>4 DEF SessionOK
  <2>4. CASE Maintain([after EXCEPT !.lock = 0])
    <3> DEFINE u == [after EXCEPT !.lock = 0]
    <3>1. /\ u \in Sessions /\ u.cmds = after.cmds /\ u.streak = after.streak /\ u.mis = after.mis
          /\ u.released = after.released
      BY <2>1 DEF Sessions
    <3>4. SessionOK(u)
      BY <1>4, <3>1 DEF SessionOK, InOrder
    <3>2. Maintain(u)
      BY <2>4
    <3> HIDE DEF u
    <3> QED BY <3>1, <3>2, <3>4, MaintainOK
  <2>5. CASE Maintain(after)
    BY <1>4, <2>5, MaintainOK
  <2>6. ASSUME NEW l \in Locks, at' = "writing", call' = Calls(l), session' = Asking(after, l)
        PROVE  /\ at' \in Stages /\ call' \in CallType /\ SessionOK(session')
               /\ session'.streak = after.streak /\ session'.mis = after.mis /\ session'.released = after.released
    <3>1. /\ session' \in Sessions /\ session'.cmds = after.cmds /\ session'.streak = after.streak
          /\ session'.mis = after.mis /\ session'.released = after.released
      BY <2>1, <2>6, AskingLeaves
    <3>2. SessionOK(session')
      BY <1>4, <3>1 DEF SessionOK, InOrder
    <3> QED BY <2>6, <3>1, <3>2, CallsTyped DEF Stages
  <2> QED BY <1>2, <2>4, <2>5, <2>6
<1>8. CountFits'
  BY <1>2, <1>5, <1>6, <1>7 DEF CountFits, CountIsHeld, Held
<1> QED BY <1>0, <1>1, <1>6, <1>7, <1>8, InParts DEF Parts

\* What a call leaves in the evidence is the newest of it.
LEMMA RecordedOK ==
  ASSUME SessionOK(session), NEW want \in Locks
  PROVE  /\ SessionOK(Recorded(want))
         /\ Recorded(want).streak = session.streak /\ Recorded(want).mis = session.mis
         /\ Recorded(want).released = session.released
<1> DEFINE new == [lock |-> want, age |-> 0]
           cmds == Append(session.cmds, new)
           n == Len(session.cmds)
<1>1. session \in Sessions /\ session.cmds \in Seq(Command) /\ n \in Nat /\ n <= Kept
  BY DEF SessionOK, Sessions
<1>2. 0 \in Ages /\ new \in Command
  BY Numbers DEF Ages, Command
<1>3. cmds \in Seq(Command) /\ Len(cmds) = n + 1 /\ cmds[n + 1] = new
      /\ \A i \in 1..n : cmds[i] = session.cmds[i]
  BY <1>1, <1>2
<1>4. \A i \in 1..n : session.cmds[i].age \in Nat
  <2> TAKE i \in 1..n
  <2>1. session.cmds[i] \in Command
    BY <1>1
  <2> QED BY <2>1, Numbers DEF Command, Ages
<1>5. \A i, j \in 1..(n + 1) : i <= j => cmds[i].age >= cmds[j].age
  <2> TAKE i, j \in 1..(n + 1)
  <2>1. CASE j \in 1..n
    BY <1>1, <1>3, <2>1 DEF SessionOK, InOrder
  <2>2. CASE j = n + 1
    <3>1. cmds[j].age = 0
      BY <1>3, <2>2
    <3>2. cmds[i].age \in Nat
      BY <1>1, <1>3, <1>4
    <3> QED BY <3>1, <3>2
  <2> QED BY <1>1, <2>1, <2>2
<1> HIDE DEF new, cmds, n
<1>6. /\ LastOf(cmds) \in Seq(Command) /\ Len(LastOf(cmds)) <= Kept
      /\ \A i, j \in 1..Len(LastOf(cmds)) : i <= j => LastOf(cmds)[i].age >= LastOf(cmds)[j].age
  <2>1. CASE n + 1 > Kept
    <3>1. LastOf(cmds) = Tail(cmds) /\ n = Kept
      BY <1>1, <1>3, <2>1 DEF LastOf, Kept
    <3>2. /\ Tail(cmds) \in Seq(Command) /\ Len(Tail(cmds)) = n
          /\ \A i \in 1..n : Tail(cmds)[i] = cmds[i + 1] /\ i + 1 \in 1..(n + 1)
      BY <1>1, <1>3
    <3> QED BY <1>1, <1>5, <3>1, <3>2
  <2>2. CASE ~(n + 1 > Kept)
    <3>1. LastOf(cmds) = cmds
      BY <1>3, <2>2 DEF LastOf
    <3> QED BY <1>1, <1>3, <1>5, <2>2, <3>1 DEF Kept
  <2> QED BY <2>1, <2>2
<1>7. Recorded(want) = [session EXCEPT !.cmds = LastOf(cmds), !.lock = want]
  BY DEF Recorded, WithEvidence, cmds, new
<1>8. /\ Recorded(want) \in Sessions /\ Recorded(want).cmds = LastOf(cmds)
      /\ Recorded(want).streak = session.streak /\ Recorded(want).mis = session.mis
      /\ Recorded(want).released = session.released
  BY <1>1, <1>2, <1>6, <1>7 DEF Sessions
<1> QED BY <1>6, <1>8 DEF SessionOK, InOrder

\* A call that returns, with or without success, leaves the verdicts alone.
LEMMA ReturnOK == ASSUME IInv, Return PROVE IInv'
<1>0. Parts
  BY InParts
<1> DEFINE done == IF call.hit THEN Recorded(call.want) ELSE session
<1>1. \/ Maintain(done)
      \/ session' = done /\ call' = NoCall /\ at' \in {"resumed", "idle"}
  BY DEF Return
<1>2. SessionOK(done) /\ done.streak = session.streak /\ done.mis = session.mis
      /\ done.released = session.released
  <2>1. SessionOK(session) /\ session \in Sessions
    BY <1>0 DEF Parts, SessionOK
  <2>2. CASE call.hit
    <3>1. call.want \in Locks
      BY <1>0 DEF Return, Parts, CallType
    <3> QED BY <2>1, <2>2, <3>1, RecordedOK
  <2>3. CASE ~call.hit
    BY <2>1, <2>3
  <2> QED BY <2>2, <2>3
<1> HIDE DEF done
<1>3. /\ at' \in Stages /\ call' \in CallType /\ SessionOK(session')
      /\ session'.streak = done.streak /\ session'.mis = done.mis /\ session'.released = done.released
  <2>1. CASE Maintain(done)
    BY <1>2, <2>1, MaintainOK
  <2>2. CASE session' = done /\ call' = NoCall /\ at' \in {"resumed", "idle"}
    BY <1>2, <2>2, CallsTyped DEF Stages
  <2> QED BY <1>1, <2>1, <2>2
<1>4. card' \in CardType /\ card'.kind = card.kind
  <2>1. Top \in Clocks
    BY Numbers
  <2> QED BY <1>0, <2>1, CardOK DEF Return, Parts
<1>5. QueueOK'
  BY <1>0, QueueStays DEF Parts, Return
<1>6. CountFits'
  BY <1>0, <1>2, <1>3, <1>4, CountStays DEF Parts, Return, SameCount
<1> QED BY <1>0, <1>3, <1>4, <1>5, <1>6, InParts DEF Return, Parts

\* Nothing has happened yet.
LEMMA InitOK == Init => IInv
<1> SUFFICES ASSUME Init PROVE IInv
  OBVIOUS
<1>1. card \in CardType /\ card.kind \in {"prompt", "lagging", "ignoring"}
  BY Numbers DEF Init, CardType
<1>2. QueueOK
  BY Numbers DEF Init, QueueOK, SamplesInOrder
<1>3. SessionOK(session) /\ session.streak = 0 /\ session.mis = 0
  <2>1. <<>> \in Seq(Command) /\ Len(<<>>) = 0 /\ 1..0 = {}
    OBVIOUS
  <2>2. 0 \in 0..Strikes /\ 0 \in 0..(MismatchStrikes - 1)
    BY Numbers
  <2> QED BY <2>1, <2>2 DEF Init, SessionOK, Sessions, InOrder, Kept
<1>4. CountFits
  BY <1>3, Numbers DEF Init, CountFits, CountIsHeld, Held, Enough
<1> QED BY <1>1, <1>2, <1>3, <1>4, InParts DEF Init, Parts, Stages, NoCall, CallType

\* Every step keeps the invariant.
LEMMA Inductive == ASSUME IInv, [Next]_vars PROVE IInv'
<1>1. CASE Next
  BY <1>1, StampOK, ReadOK, LoseLockOK, SuspendOK, TakeOK, ResumeOK, ScoreOK, ReturnOK DEF Next
<1>2. CASE UNCHANGED vars
  <2>1. Parts
    BY InParts
  <2> QED BY <1>2, <2>1, CardMoves DEF vars, Parts
<1> QED BY <1>1, <1>2

\* The invariant holds in every reachable state.
THEOREM AlwaysIInv == Spec => []IInv
  BY InitOK, Inductive, PTL DEF Spec

\* A card that shows a clock above every completed command for as many samples as the two counts
\* can hold is released, for all strikes and backlogs, however its lock moves meanwhile.
THEOREM IgnoringCorrect == Spec => []IgnoringIsCaught
<1>1. IInv => IgnoringIsCaught
  <2> SUFFICES ASSUME IInv, over = Enough, ~session.released PROVE FALSE
    BY DEF IgnoringIsCaught, IInv, TypeOK
  <2>1. /\ over <= Held(session)
        /\ session.streak \in 0..Strikes /\ session.mis \in 0..(MismatchStrikes - 1)
    BY DEF IInv, TypeOK, CountIsHeld
  <2> QED BY <2>1, Numbers DEF Held, Enough
<1> QED BY <1>1, AlwaysIInv, PTL
-----------------------------------------------------------------------------
(* A card that takes its locks keeps them; a late one, those that are held. *)

\* One sample waits at most, and one trouble happens; the verifier and the release each have the
\* patience for what these may cost.
Patient == Backlog = 1 /\ Troubles <= 1 /\ Strikes >= 2 /\ MismatchStrikes >= 3

\* The sample that waits is the only one, and nothing has been stamped since.
LEMMA OneSample ==
  ASSUME IInv, Backlog = 1
  PROVE  queue = <<>> \/ (/\ ~sampler.reading /\ queue # <<>> /\ Head(queue) \in Sample
                          /\ Head(queue).age = 0 /\ Tail(queue) = <<>>)
<1>1. QueueOK
  BY InParts DEF Parts
<1>2. queue \in Seq(Sample) /\ Len(queue) \in Nat /\ Len(queue) <= 1 /\ (sampler.reading => Len(queue) < 1)
  BY <1>1 DEF QueueOK, SamplesInOrder
<1>3. CASE queue # <<>>
  <2>1. Len(queue) = 1
    <3>1. Len(queue) \in Nat \ {0} /\ Len(queue) <= 1
      BY <1>2, <1>3, EmptySeq
    <3>2. \A n \in Nat \ {0} : n <= 1 => n = 1
      OBVIOUS
    <3> QED BY <3>1, <3>2
  <2>2. queue[1].age = 0
    BY <1>1, <1>2, <2>1 DEF QueueOK, SamplesInOrder
  <2>3. Head(queue) = queue[1] /\ queue[1] \in Sample /\ Tail(queue) = <<>>
    <3>1. Tail(queue) \in Seq(Sample) /\ Len(Tail(queue)) = 0
      BY <1>2, <1>3, <2>1, HeadTailProperties
    <3>2. Tail(queue) = <<>>
      BY <3>1, EmptySeq
    <3> QED BY <1>2, <2>1, <3>2
  <2> QED BY <1>2, <1>3, <2>1, <2>2, <2>3
<1> QED BY <1>3

\* A command is a lock and an age.
LEMMA CommandIs ==
  \A c \in Command : c.lock \in Locks /\ c.lock \in Nat /\ c.age \in Ages /\ c.age \in Nat
<1>1. Ages \subseteq Nat
  BY Numbers DEF Ages
<1> QED BY <1>1, Numbers DEF Command

\* What a reading shows too much for, in the commands themselves.
LEMMA AboveIs ==
  ASSUME NEW cmds, NEW c
  PROVE  Above(cmds, c) <=> \E i \in DOMAIN cmds : /\ cmds[i].age > 0 /\ c > cmds[i].lock
                                                   /\ \A j \in DOMAIN cmds : j > i => cmds[j].age <= 0
  BY DEF Above, Paired

\* Nothing is above no command, and what is above one is so the more the higher it is.
LEMMA AboveBasics ==
  /\ \A c : ~Above(<<>>, c)
  /\ \A cmds \in Seq(Command) : \A c, d \in Clocks : Above(cmds, c) /\ d >= c => Above(cmds, d)
<1>1. \A c : ~Above(<<>>, c)
  BY AboveIs
<1>2. ASSUME NEW cmds \in Seq(Command), NEW c \in Clocks, NEW d \in Clocks, Above(cmds, c), d >= c
      PROVE  Above(cmds, d)
  <2>1. PICK i \in DOMAIN cmds : /\ cmds[i].age > 0 /\ c > cmds[i].lock
                                 /\ \A j \in DOMAIN cmds : j > i => cmds[j].age <= 0
    BY <1>2, AboveIs
  <2>2. cmds[i] \in Command
    OBVIOUS
  <2>3. d > cmds[i].lock
    <3>1. cmds[i].lock \in Nat /\ c \in Nat /\ d \in Nat
      BY <2>2, CommandIs, Numbers
    <3> QED BY <1>2, <2>1, <3>1
  <2> QED BY <2>1, <2>3, AboveIs
<1> QED BY <1>1, <1>2

\* Once a sample is stamped every command is older than it, and the newest is the one that counts.
LEMMA AboveAged ==
  ASSUME IInv, NEW c, LET aged == AgedCommands(session.cmds) IN aged # <<>>
  PROVE  LET aged == AgedCommands(session.cmds)
         IN  /\ session.cmds # <<>> /\ Newest(aged) = Newest(session.cmds)
             /\ Above(aged, c) => c > Newest(session.cmds)
<1> DEFINE n == Len(session.cmds)
           aged == AgedCommands(session.cmds)
<1>1. session.cmds \in Seq(Command) /\ n \in Nat /\ DOMAIN session.cmds = 1..n /\ Len(queue) \in Nat
  BY InParts DEF Parts, SessionOK, Sessions, QueueOK
<1>2. ASSUME NEW i \in 1..n
      PROVE  aged[i].lock = session.cmds[i].lock /\ aged[i].age > 0 /\ aged[i].age \in Nat
  <2>1. session.cmds[i] \in Command /\ session.cmds[i].age \in Nat
    BY <1>1, CommandIs
  <2>2. aged[i] = [session.cmds[i] EXCEPT !.age = Older(@)]
    BY <1>1 DEF AgedCommands
  <2>3. Older(session.cmds[i].age) > 0 /\ Older(session.cmds[i].age) \in Nat
    BY <1>1, <2>1 DEF Older
  <2> QED BY <2>1, <2>2, <2>3 DEF Command
<1>3. DOMAIN aged = 1..n /\ Len(aged) = n
  <2>1. aged = [i \in 1..n |-> [session.cmds[i] EXCEPT !.age = Older(@)]]
    BY <1>1 DEF AgedCommands
  <2> HIDE DEF aged
  <2> QED BY <1>1, <2>1
<1>4. n >= 1
  <2>1. CASE n = 0
    <3>1. aged = [i \in {} |-> [session.cmds[i] EXCEPT !.age = Older(@)]]
      BY <1>1, <2>1 DEF AgedCommands
    <3>2. aged = <<>>
      BY <3>1
    <3> QED BY <3>2
  <2> QED BY <1>1, <2>1
<1> HIDE DEF aged
<1>5. Newest(aged) = Newest(session.cmds)
  BY <1>2, <1>3, <1>4 DEF Newest
<1>6. ASSUME Above(aged, c) PROVE c > Newest(session.cmds)
  <2>1. PICK i \in 1..n : c > aged[i].lock /\ \A j \in 1..n : j > i => aged[j].age <= 0
    BY <1>3, <1>6, AboveIs
  <2>2. i = n
    <3>1. n \in 1..n /\ (i # n => n > i)
      BY <1>1, <1>4
    <3> QED BY <1>2, <2>1, <3>1
  <2> QED BY <1>5, <2>1, <2>2, <1>2, <1>3 DEF Newest
<1>7. session.cmds # <<>>
  BY <1>1, <1>4
<1> QED BY <1>5, <1>6, <1>7 DEF aged

\* A command that has just completed tells nothing of the samples before it.
LEMMA AboveRecorded ==
  ASSUME SessionOK(session), NEW want \in Locks, NEW c
  PROVE  /\ WithEvidence(want) # <<>> /\ Newest(WithEvidence(want)) = want
         /\ Above(WithEvidence(want), c) => Above(session.cmds, c)
<1> DEFINE n == Len(session.cmds)
           new == [lock |-> want, age |-> 0]
           cmds == Append(session.cmds, new)
           kept == WithEvidence(want)
<1>1. session.cmds \in Seq(Command) /\ n \in Nat /\ DOMAIN session.cmds = 1..n
  BY DEF SessionOK, Sessions
<1>2. new \in Command
  BY Numbers DEF Command, Ages
<1>3. cmds \in Seq(Command) /\ Len(cmds) = n + 1 /\ cmds[n + 1] = new
      /\ \A i \in 1..n : cmds[i] = session.cmds[i]
  BY <1>1, <1>2
<1>4. PICK k \in 0..1 : /\ kept \in Seq(Command) /\ Len(kept) = n + 1 - k /\ n + 1 - k >= 1
                        /\ \A i \in 1..Len(kept) : kept[i] = cmds[i + k]
  <2> HIDE DEF cmds
  <2>1. CASE n + 1 > Kept
    <3>1. kept = Tail(cmds)
      BY <1>3, <2>1 DEF WithEvidence, LastOf, cmds
    <3>2. n >= 1
      BY <1>1, <2>1 DEF Kept
    <3>3. /\ kept \in Seq(Command) /\ Len(kept) = n
          /\ \A i \in 1..Len(kept) : kept[i] = cmds[i + 1]
      BY <1>1, <1>3, <3>1, <3>2
    <3> QED BY <1>1, <3>2, <3>3
  <2>2. CASE ~(n + 1 > Kept)
    <3>1. kept = cmds
      BY <1>3, <2>2 DEF WithEvidence, LastOf, cmds
    <3>2. \A i \in 1..Len(kept) : i + 0 = i
      BY <1>1, <1>3, <3>1
    <3> QED BY <1>1, <1>3, <3>1, <3>2
  <2> QED BY <2>1, <2>2
<1> HIDE DEF cmds, kept
<1>5. kept # <<>> /\ Newest(kept) = want
  <2>1. kept[Len(kept)] = new
    BY <1>1, <1>3, <1>4
  <2>2. kept # <<>>
    BY <1>1, <1>4
  <2> QED BY <2>1, <2>2 DEF Newest
<1>6. ASSUME Above(kept, c) PROVE Above(session.cmds, c)
  <2>1. DOMAIN kept = 1..Len(kept) /\ Len(kept) \in Nat
    BY <1>4
  <2>2. PICK i \in 1..Len(kept) : /\ kept[i].age > 0 /\ c > kept[i].lock
                                  /\ \A j \in 1..Len(kept) : j > i => kept[j].age <= 0
    BY <1>6, <2>1, AboveIs
  <2>3. i + k \in 1..n /\ kept[i] = session.cmds[i + k]
    <3>1. i # Len(kept)
      BY <1>1, <1>3, <1>4, <2>2
    <3> QED BY <1>1, <1>3, <1>4, <2>1, <3>1, SMTT(60)
  <2>4. ASSUME NEW j \in 1..n, j > i + k PROVE session.cmds[j].age <= 0
    <3>1. j - k \in 1..Len(kept) /\ j - k > i /\ (j - k) + k = j
      BY <1>1, <1>4, <2>1, <2>4
    <3>2. kept[j - k] = session.cmds[j]
      BY <1>3, <1>4, <3>1
    <3> QED BY <2>2, <3>1, <3>2
  <2> QED BY <1>1, <2>2, <2>3, <2>4, AboveIs
<1> QED BY <1>5, <1>6 DEF kept

\* A strike needs a sample that shows too much, and a streak to end; any other leaves the streak or
\* ends it.
LEMMA StrikeIs ==
  ASSUME NEW v, SessionOK(v), NEW s \in Sample, s.age = 0, NEW reading \in Readings
  PROVE  /\ Verdict(v, s, reading) = "Mismatch" =>
              Above(v.cmds, s.clock) /\ v.streak >= Strikes - 1
         /\ ~Above(v.cmds, s.clock) => Streak(v, s, reading) \in {0, v.streak}
<1>1. v.cmds \in Seq(Command) /\ DOMAIN v.cmds = 1..Len(v.cmds) /\ Len(v.cmds) \in Nat
      /\ v.streak \in 0..Strikes
  BY DEF SessionOK, Sessions
<1>2. ASSUME NEW i \in Paired(v.cmds, s), s.clock > Allowed(v.cmds, s, i)
      PROVE  Above(v.cmds, s.clock)
  <2>1. i \in 1..Len(v.cmds) /\ i \in Paired(v.cmds, [age |-> 0])
    BY <1>1 DEF Paired
  <2>2. v.cmds[i] \in Command /\ (i > 1 => v.cmds[i - 1] \in Command)
    BY <1>1, <2>1
  <2>4. v.cmds[i].lock \in Nat /\ s.clock \in Nat /\ (i > 1 => v.cmds[i - 1].lock \in Nat)
    BY <2>2, CommandIs, Numbers DEF Sample
  <2>3. Allowed(v.cmds, s, i) >= v.cmds[i].lock /\ Allowed(v.cmds, s, i) \in Nat
    BY <2>4 DEF Allowed
  <2>5. s.clock > v.cmds[i].lock
    BY <1>2, <2>3, <2>4
  <2> QED BY <2>1, <2>5 DEF Above
<1>3. ASSUME ~Above(v.cmds, s.clock) PROVE Streak(v, s, reading) \in {0, v.streak}
  BY <1>2, <1>3 DEF Streak
<1>4. ASSUME Verdict(v, s, reading) = "Mismatch"
      PROVE  Above(v.cmds, s.clock) /\ v.streak >= Strikes - 1
  <2>1. Paired(v.cmds, s) # {} /\ Streak(v, s, reading) = Strikes
    BY <1>4 DEF Verdict
  <2>2. \E i \in Paired(v.cmds, s) : s.clock > Allowed(v.cmds, s, i)
    BY <2>1, Numbers DEF Streak
  <2>3. v.streak >= Strikes - 1
    BY <1>1, <2>1, <2>2, Numbers DEF Streak
  <2> QED BY <1>2, <2>2, <2>3
<1> QED BY <1>3, <1>4
\* The fields the argument is about.
LEMMA Fields ==
  ASSUME IInv
  PROVE  /\ card.now \in Nat /\ card.now \in Clocks /\ card.fresh \subseteq Nat /\ card.old \subseteq Nat
         /\ card.troubles \in Nat /\ card.fresh \subseteq Clocks /\ card.old \subseteq Clocks
         /\ call \in CallType /\ call.want \in Nat /\ (call.want # 0 => call.want \in Locks)
         /\ session \in Sessions /\ SessionOK(session) /\ session.cmds \in Seq(Command)
         /\ session.mis \in Nat /\ session.streak \in Nat
         /\ (session.cmds # <<>> => Newest(session.cmds) \in Nat /\ Newest(session.cmds) \in Locks)
<1>0. Parts
  BY InParts
<1>1. /\ card.now \in Nat /\ card.now \in Clocks /\ card.fresh \subseteq Nat /\ card.old \subseteq Nat
      /\ card.troubles \in Nat /\ card.fresh \subseteq Clocks /\ card.old \subseteq Clocks
  <2>1. card.now \in Clocks /\ card.fresh \subseteq Clocks /\ card.old \subseteq Clocks
        /\ card.troubles \in 0..Troubles
    BY <1>0 DEF Parts, CardType
  <2>2. Clocks \subseteq Nat /\ \A n \in 0..Troubles : n \in Nat
    BY Numbers
  <2> QED BY <2>1, <2>2
<1>2. call \in CallType /\ call.want \in Nat /\ (call.want # 0 => call.want \in Locks)
  <2>1. call \in CallType /\ call.want \in {0} \cup Locks
    BY <1>0 DEF Parts, CallType
  <2>2. \A l \in {0} \cup Locks : l \in Nat /\ (l # 0 => l \in Locks)
    BY Numbers
  <2> QED BY <2>1, <2>2
<1>3. session \in Sessions /\ SessionOK(session) /\ session.cmds \in Seq(Command)
      /\ session.mis \in Nat /\ session.streak \in Nat
  BY <1>0, Numbers DEF Parts, SessionOK, Sessions
<1>4. ASSUME session.cmds # <<>>
      PROVE  Newest(session.cmds) \in Nat /\ Newest(session.cmds) \in Locks
  <2>1. Len(session.cmds) \in Nat \ {0}
    BY <1>3, <1>4, EmptySeq
  <2>2. Len(session.cmds) \in 1..Len(session.cmds)
    BY <2>1
  <2>3. session.cmds[Len(session.cmds)] \in Command
    BY <1>3, <2>2, ElementOfSeq
  <2> QED BY <2>3, CommandIs DEF Newest
<1> QED BY <1>1, <1>2, <1>3, <1>4

\* A card that obeys has lost a lock it was told of only after the loop had moved it.
KnowsItsLock == session.cmds # <<>> => session.lock # 0
LEMMA LockIsKnown ==
  ASSUME Obeys, card.kind # "ignoring", ~session.moved
  PROVE  KnowsItsLock /\ ~session.released
  BY DEF Obeys, KnowsItsLock

\* A sample whose clock has been read waits instead.
LEMMA ReadObeys ==
  ASSUME Patient, Obeys, Read, IInv'
  PROVE  Obeys'
<1>1. IInv /\ StagesInOrder
  BY DEF Obeys
<1>2. /\ sampler.reading /\ queue = <<>> /\ ~sampler.slept
      /\ at \notin {"resuming", "resumed"}
  BY <1>1, OneSample DEF Patient, Read, StagesInOrder
<1>3. PICK c \in Shown : queue' = <<[clock |-> c, age |-> 0, woke |-> sampler.woke]>>
  BY <1>2 DEF Read
<1>4. queue' # <<>> /\ Head(queue') = [clock |-> c, age |-> 0, woke |-> sampler.woke]
  BY <1>3
<1>5. /\ ~sampler'.reading /\ ~sampler'.woke /\ ~sampler'.slept
      /\ UNCHANGED <<card, at, call, session, over>>
  BY <1>1, <1>2, InParts DEF Read, Parts
<1>6. StagesInOrder'
  BY <1>1, <1>2, <1>4, <1>5 DEF StagesInOrder, Pending
<1>7. Asleep' <=> Asleep
  BY <1>2, <1>4, <1>5 DEF Asleep
<1>8. Suspect' => Suspect
  BY <1>2, <1>4, <1>5 DEF Suspect
<1>9. Pending /\ (Lowered' <=> Lowered) /\ (Coming' => Coming) /\ (InForce' <=> InForce)
  BY <1>2, <1>4, <1>5, <1>7 DEF Pending, Lowered, Coming, InForce
<1> QED BY <1>5, <1>6, <1>7, <1>8, <1>9 DEF Obeys, PromptObeys, LaggingObeys, SteadyObeys

\* Somebody who resets the lock of a prompt card spends the trouble.
LEMMA LoseLockObeys ==
  ASSUME Patient, Obeys, LoseLock, IInv'
  PROVE  Obeys'
<1>1. IInv /\ StagesInOrder /\ PromptObeys /\ ~session.released
  BY DEF Obeys, LoseLock
<1>2. card.troubles = 0 /\ session.mis = 0
  BY <1>1, Fields, Numbers DEF LoseLock, Patient, PromptObeys
<1>3. /\ card'.kind = "prompt" /\ card'.fresh = card.fresh /\ card'.old = card.old
      /\ card'.troubles > 0
  BY <1>1, <1>2, InParts DEF LoseLock, Ceiling, Parts, CardType
<1>4. StagesInOrder'
  BY <1>1, <1>3 DEF LoseLock, StagesInOrder, Pending
<1> QED BY <1>1, <1>2, <1>3, <1>4 DEF LoseLock, Obeys, PromptObeys

\* A card that forgets its lock is read with the first sample after.
LEMMA SuspendObeys ==
  ASSUME Patient, Obeys, Suspend, IInv'
  PROVE  Obeys'
<1>1. IInv /\ StagesInOrder
  BY DEF Obeys
<1>2. /\ ~sampler.reading /\ sampler'.slept /\ ~sampler'.reading /\ sampler'.woke = sampler.woke
      /\ UNCHANGED <<queue, at, call, session, over>>
  BY <1>1, InParts DEF Suspend, Parts
<1>3. card'.kind = card.kind /\ card'.fresh = {} /\ card'.old = {} /\ card'.troubles = card.troubles
  BY <1>1, InParts DEF Suspend, Parts, CardType
<1>4. StagesInOrder' /\ (Pending' <=> Pending)
  BY <1>1, <1>2, <1>3 DEF StagesInOrder, Pending
<1>5. Asleep' /\ InForce' /\ (Suspect' <=> Suspect)
  BY <1>2 DEF Asleep, InForce, Suspect
<1> QED BY <1>2, <1>3, <1>4, <1>5 DEF Obeys, PromptObeys, LaggingObeys, SteadyObeys

\* A stamp: whatever shows too much from here on was to come, as the newest command is the one that
\* counts.
LEMMA StampObeys ==
  ASSUME Patient, Obeys, Stamp, IInv'
  PROVE  Obeys'
<1>1. IInv /\ StagesInOrder
  BY DEF Obeys
<1> DEFINE cmds == session.cmds
<1>2. /\ ~sampler.reading /\ queue = <<>> /\ ~Pending /\ at \notin {"resuming", "resumed"}
      /\ ~sampler.woke /\ ~Suspect
  <2>1. queue = <<>>
    BY <1>1, InParts, EmptySeq DEF Stamp, Patient, Parts, QueueOK
  <2> QED BY <1>1, <2>1 DEF Stamp, StagesInOrder, Pending, Suspect
<1>3. /\ sampler'.reading /\ ~sampler'.slept /\ (sampler'.woke <=> sampler.slept)
      /\ queue' = <<>> /\ Pending' /\ UNCHANGED <<at, call, over>>
  BY <1>2 DEF Stamp, Pending
<1>4. /\ card'.kind = card.kind /\ card'.now = card.now /\ card'.fresh = {} /\ card'.old = card.fresh
      /\ call.want # 0 => card.troubles = 0 /\ card'.troubles > 0
      /\ call.want = 0 => card'.troubles = card.troubles
  <2> DEFINE c == IF call.want = 0 THEN card ELSE Trouble
  <2>1. card \in CardType
    BY <1>1, InParts DEF Parts
  <2>2. call.want # 0 => card.troubles = 0
    BY <1>1, Fields, Numbers DEF Stamp, Patient
  <2>3. c \in [kind : {"prompt", "lagging", "ignoring"}, now : Clocks, fresh : SUBSET Clocks,
               old : SUBSET Clocks, troubles : Nat]
    BY <2>1, Numbers DEF CardType, Trouble
  <2>4. c.kind = card.kind /\ c.now = card.now /\ c.troubles = IF call.want = 0 THEN card.troubles ELSE card.troubles + 1
    BY <2>1 DEF CardType, Trouble
  <2>5. card' = [c EXCEPT !.old = card.fresh, !.fresh = {}]
    BY DEF Stamp
  <2> HIDE DEF c
  <2>6. card'.kind = c.kind /\ card'.now = c.now /\ card'.fresh = {} /\ card'.old = card.fresh
        /\ card'.troubles = c.troubles
    BY <2>3, <2>5
  <2> QED BY <2>2, <2>4, <2>6
<1>5. /\ session'.cmds = AgedCommands(cmds)
      /\ session'.streak = session.streak /\ session'.mis = session.mis /\ session'.lock = session.lock
      /\ session'.asked = session.asked /\ session'.released = session.released
      /\ session'.moved = session.moved
  BY <1>1, Fields DEF Stamp, Sessions
<1>6. /\ session'.cmds # <<>> <=> cmds # <<>>
      /\ cmds # <<>> => Newest(session'.cmds) = Newest(cmds)
      /\ \A c : Above(session'.cmds, c) => cmds # <<>> /\ c > Newest(cmds)
  <2>1. cmds # <<>> => session'.cmds # <<>>
    <3>1. DOMAIN cmds = DOMAIN AgedCommands(cmds)
      BY DEF AgedCommands
    <3>2. cmds # <<>> => 1 \in DOMAIN cmds
      BY <1>1, Fields, EmptySeq
    <3>3. DOMAIN <<>> = {}
      OBVIOUS
    <3> QED BY <1>5, <3>1, <3>2, <3>3
  <2>2. session'.cmds # <<>> =>
          /\ cmds # <<>> /\ Newest(session'.cmds) = Newest(cmds)
          /\ \A c : Above(session'.cmds, c) => c > Newest(cmds)
    BY <1>1, <1>5, AboveAged
  <2> QED BY <2>1, <2>2, AboveBasics
<1> HIDE DEF cmds
<1>7. StagesInOrder'
  BY <1>1, <1>2, <1>3, <1>4, <1>5, <1>6 DEF StagesInOrder, cmds
<1>8. /\ Asleep' <=> Asleep
      /\ InForce' <=> InForce
      /\ ~Lowered' /\ ~Coming'
  BY <1>2, <1>3, <1>4, <1>5, <1>6 DEF Asleep, InForce, Lowered, Coming, cmds
<1>9. Suspect' /\ InForce /\ KnowsItsLock => ~Asleep /\ Coming /\ (~call.hit => Lowered)
  <2> SUFFICES ASSUME Suspect', InForce, KnowsItsLock
               PROVE  ~Asleep /\ Coming /\ (~call.hit => Lowered)
    OBVIOUS
  <2>1. ~sampler'.woke /\ \E c \in Shown' : Above(session'.cmds, c)
    BY <1>3 DEF Suspect
  <2>2. Shown' = {card.now} \cup card.fresh
    BY <1>4 DEF Shown
  <2>3. PICK c \in {card.now} \cup card.fresh : cmds # <<>> /\ c > Newest(cmds)
    BY <1>6, <2>1, <2>2
  <2>4. ~Asleep
    BY <1>2, <1>3, <2>1 DEF Asleep
  <2>5. c \in Nat /\ card.now \in Nat /\ Newest(cmds) \in Nat
    BY <1>1, <2>3, Fields DEF cmds
  <2>6. CASE ~call.hit
    BY <2>3, <2>4, <2>5, <2>6 DEF InForce, KnowsItsLock, Lowered, Coming, cmds
  <2>7. CASE call.hit /\ ~(c > card.now)
    <3>1. card.now > Newest(cmds)
      BY <2>3, <2>5, <2>7
    <3> QED BY <1>2, <2>4, <2>7, <3>1 DEF Coming, cmds
  <2>8. CASE call.hit /\ c > card.now
    BY <2>3, <2>4, <2>5, <2>8 DEF Lowered, Coming
  <2> QED BY <2>6, <2>7, <2>8
<1>10. card.kind = "prompt" => PromptObeys'
  <2> SUFFICES ASSUME card.kind = "prompt" PROVE PromptObeys'
    OBVIOUS
  <2>1. PromptObeys
    BY DEF Obeys
  <2>3. KnowsItsLock
    <3>1. ~session.moved
      BY DEF Obeys
    <3> QED BY <3>1, LockIsKnown
  <2>2. call.want = 0 /\ InForce => ~Suspect'
    BY <1>1, <1>9, <2>1, <2>3 DEF StagesInOrder, PromptObeys, Lowered
  <2> QED BY <1>3, <1>4, <1>5, <1>8, <2>1, <2>2 DEF PromptObeys
<1>11. card.kind = "lagging" => LaggingObeys'
  BY <1>4, <1>8 DEF Obeys, LaggingObeys
<1>12. card.kind = "lagging" /\ ~session.moved => SteadyObeys'
  <2> SUFFICES ASSUME card.kind = "lagging", ~session.moved PROVE SteadyObeys'
    OBVIOUS
  <2>1. LaggingObeys /\ SteadyObeys
    BY DEF Obeys
  <2>2. Suspect' => ~Asleep /\ Coming /\ (~call.hit => Lowered)
    BY <1>9, <2>1, LockIsKnown DEF LaggingObeys
  <2>3. at = "writing" => call.want # 0
    BY <1>1 DEF StagesInOrder
  <2> QED BY <1>3, <1>4, <1>5, <1>8, <2>1, <2>2, <2>3 DEF SteadyObeys
<1> QED BY <1>4, <1>5, <1>6, <1>7, <1>10, <1>11, <1>12 DEF Obeys, cmds

\* A driver that takes its command: a call that lowers the ceiling leaves the old one for one more
\* sample to show, and one that raises it shows too much to the sample that is on its way; after a
\* strike it is the change that was left.
LEMMA TakeObeys ==
  ASSUME Patient, Obeys, Take, IInv'
  PROVE  Obeys'
<1>1. IInv /\ StagesInOrder
  BY DEF Obeys
<1> DEFINE cmds == session.cmds
           want == call.want
<1>2. /\ want # 0 /\ ~call.hit /\ want \in Locks /\ want \in Nat /\ call'.hit /\ call'.want = want
      /\ UNCHANGED <<sampler, queue, at, session, over>>
  BY <1>1, Fields, Numbers DEF Take, CallType
<1>3. /\ card'.kind = card.kind /\ card'.old = card.old /\ card'.troubles = card.troubles
      /\ card.kind # "ignoring" => card'.now = want
      /\ card'.fresh = IF card.kind # "lagging" \/ want = card.now THEN card.fresh
                                                                  ELSE card.fresh \cup {card.now}
  BY <1>1, InParts DEF Take, Parts, CardType, Ceiling
<1>4. /\ Pending' <=> Pending
      /\ Asleep' <=> Asleep
  BY <1>2 DEF Pending, Asleep
<1>5. StagesInOrder'
  BY <1>1, <1>2, <1>3, <1>4 DEF StagesInOrder
<1>6. /\ Suspect' => Pending /\ cmds # <<>>
      /\ Suspect => Pending
      /\ Asleep /\ Suspect' => Suspect
      /\ card.kind # "ignoring" /\ want = card.now => (Suspect' <=> Suspect)
  <2>1. Suspect' => Pending /\ cmds # <<>>
    BY <1>2, AboveBasics DEF Suspect, Pending
  <2>2. Suspect => Pending
    BY DEF Suspect, Pending
  <2>3. Asleep /\ Suspect' => Suspect
    <3>1. Asleep => ~(sampler.reading /\ ~sampler.woke)
      BY <1>1, OneSample DEF Asleep, StagesInOrder, Patient
    <3> QED BY <1>2, <3>1 DEF Suspect
  <2>4. card.kind # "ignoring" /\ want = card.now => (Suspect' <=> Suspect)
    BY <1>2, <1>3 DEF Suspect, Shown
  <2> QED BY <2>1, <2>2, <2>3, <2>4
<1> HIDE DEF cmds, want
<1>7. card.kind # "ignoring" => InForce'
  BY <1>2, <1>3 DEF InForce, want
<1>8. card.kind = "prompt" => PromptObeys'
  <2> SUFFICES ASSUME card.kind = "prompt" PROVE PromptObeys'
    OBVIOUS
  <2>1. PromptObeys
    BY DEF Obeys
  <2>2. at = "resuming" => ~Suspect'
    BY <1>1, <1>6 DEF StagesInOrder, cmds
  <2>3. card.troubles = 0 => ~Suspect'
    BY <1>1, <1>2, <1>6, <2>2, InParts DEF StagesInOrder, want, Parts, Stages
  <2>4. session.mis > 0 => ~Pending /\ ~Suspect'
    BY <1>2, <1>6, <2>1 DEF PromptObeys, want
  <2> QED BY <1>2, <1>3, <1>4, <1>7, <2>1, <2>3, <2>4 DEF PromptObeys
<1>10. ASSUME card.kind = "lagging" PROVE LaggingObeys'
  BY <1>1, <1>2, <1>7, <1>10 DEF LaggingObeys, StagesInOrder, want
<1>9. ASSUME card.kind = "lagging", ~session.moved PROVE SteadyObeys'
  <2>1. LaggingObeys /\ SteadyObeys /\ KnowsItsLock
    BY <1>9, LockIsKnown DEF Obeys
  <2>2. /\ at \in {"resuming", "writing", "maintaining"}
        /\ at' = at /\ session' = session
    BY <1>1, <1>2, InParts DEF StagesInOrder, Parts, Stages, want
  <2>3. CASE Asleep
    <3>1. Asleep' /\ InForce' /\ (Suspect' => Suspect) /\ at' # "idle" /\ call'.hit
      BY <1>2, <1>4, <1>6, <1>7, <1>9, <2>2, <2>3
    <3>2. session.mis > 0 /\ Suspect' => session.mis = 1
      BY <2>1, <3>1 DEF SteadyObeys
    <3> QED BY <2>2, <3>1, <3>2 DEF SteadyObeys
  <2>4. CASE cmds = <<>>
    <3>1. session.mis = 0 /\ ~Suspect'
      BY <1>1, <1>6, <2>4, Fields DEF StagesInOrder, cmds
    <3>2. InForce' /\ at' # "idle" /\ call'.hit /\ ~(session'.mis > 0)
      BY <1>2, <1>7, <1>9, <2>2, <3>1
    <3> QED BY <3>1, <3>2 DEF SteadyObeys
  <2>5. CASE ~Asleep /\ cmds # <<>> /\ want = card.now
    <3>1. card.now = Newest(cmds)
      BY <1>2, <2>1, <2>5 DEF LaggingObeys, KnowsItsLock, InForce, cmds
    <3>2. (Lowered' <=> Lowered) /\ card'.now = card.now
      BY <1>3, <1>9, <2>5 DEF Lowered
    <3>3. Coming' => Coming
      BY <1>1, <1>2, <3>1, <3>2, Fields DEF Coming, cmds
    <3> QED BY <1>2, <1>4, <1>6, <1>7, <1>9, <2>1, <2>2, <2>5, <3>2, <3>3 DEF SteadyObeys
  <2>6. CASE ~Asleep /\ cmds # <<>> /\ want # card.now
    <3>1. card.now = Newest(cmds)
      BY <1>2, <2>1, <2>6 DEF LaggingObeys, KnowsItsLock, InForce, cmds
    <3>2. at = "writing"
      BY <1>1, <1>2, <2>2, <2>6, <3>1 DEF StagesInOrder, cmds, want
    <3>3. session.mis > 0 => /\ want = session.asked /\ session.mis = 1 /\ ~Suspect /\ ~Coming
      BY <1>1, <1>9, <2>1, <2>6, <3>2 DEF StagesInOrder, SteadyObeys, want
    <3>4. Suspect => session.streak = 0 /\ session.mis = 0
      BY <1>2, <2>1, <2>6, <3>2 DEF SteadyObeys
    <3>5. Pending => card.fresh = {}
      BY <1>2, <2>1, <2>6, <3>2 DEF LaggingObeys
    <3>6. card'.fresh = card.fresh \cup {card.now} /\ card'.now = want
      BY <1>3, <1>9, <2>6
    <3>7. card.now \in Clocks /\ want \in Clocks /\ card.now \in Nat /\ want \in Nat /\ cmds \in Seq(Command)
      BY <1>1, <1>2, Fields, Numbers DEF cmds
    <3>8. CASE want < card.now
      <4>1. Suspect' => Suspect
        <5>1. Above(cmds, want) => Above(cmds, card.now)
          BY <3>7, <3>8, AboveBasics
        <5>2. Shown' = Shown \cup {want} /\ card.now \in Shown
          BY <1>3, <3>6 DEF Shown
        <5>3. (\E c \in Shown' : Above(cmds, c)) => \E c \in Shown : Above(cmds, c)
          BY <5>1, <5>2
        <5> QED BY <1>2, <5>3 DEF Suspect, cmds
      <4>2. session.mis > 0 => ~Suspect'
        BY <3>3, <4>1
      <4>3. Suspect' => session.streak = 0
        BY <3>4, <4>1
      <4>4. InForce' /\ at' # "idle" /\ call'.hit /\ (session.mis > 0 => card'.now = session.asked)
        BY <1>2, <1>7, <1>9, <2>2, <3>3, <3>6
      <4> QED BY <2>2, <3>3, <4>2, <4>3, <4>4 DEF SteadyObeys
    <3>9. CASE want > card.now
      <4>1. Lowered' => Lowered
        <5>1. card.fresh \subseteq Nat
          BY <1>1, Fields
        <5> QED BY <3>6, <3>7, <3>9, <5>1 DEF Lowered
      <4>2. Lowered => ~Pending
        BY <3>5 DEF Lowered
      <4>3. session.mis > 0 => ~Lowered
        BY <3>3 DEF Coming
      <4>4. Coming' => Lowered' \/ ~Pending
        BY <1>4 DEF Coming
      <4>5. InForce' /\ at' # "idle" /\ call'.hit /\ (session.mis > 0 => card'.now = session.asked)
        BY <1>2, <1>7, <1>9, <2>2, <3>3, <3>6
      <4>6. Suspect' => Pending
        BY <1>6
      <4>7. session.mis > 0 /\ Coming' => ~Suspect'
        BY <4>1, <4>3, <4>4, <4>6
      <4>8. ~(Suspect' /\ Lowered')
        BY <4>1, <4>2, <4>6
      <4> QED BY <2>2, <3>3, <4>5, <4>7, <4>8 DEF SteadyObeys
    <3> QED BY <2>6, <3>7, <3>8, <3>9
  <2> QED BY <2>3, <2>4, <2>5, <2>6
<1> QED BY <1>2, <1>3, <1>5, <1>8, <1>9, <1>10 DEF Obeys

\* A resumed sample drops the evidence.
LEMMA ResumeObeys ==
  ASSUME Patient, Obeys, Resume, IInv'
  PROVE  Obeys'
<1>1. IInv /\ StagesInOrder
  BY DEF Obeys
<1>2. /\ session'.cmds = <<>> /\ session'.streak = 0 /\ session'.mis = 0 /\ ~session'.released
      /\ ~session'.moved
      /\ session'.lock = session.lock /\ UNCHANGED <<card, sampler, queue>>
  BY <1>1, Fields DEF Resume, Sessions
<1>3. /\ at = "idle" /\ call.want = 0 /\ ~call.hit /\ queue # <<>> /\ Head(queue).woke
      /\ at' \in {"resuming", "resumed"} /\ ~call'.hit /\ (call'.want = 0 <=> at' = "resumed")
  BY <1>1 DEF Resume, StagesInOrder, Calls
<1>4. StagesInOrder'
  BY <1>1, <1>2, <1>3 DEF StagesInOrder
<1>5. ~Suspect' /\ InForce'
  BY <1>2, <1>3, AboveBasics DEF Suspect, InForce
<1> QED BY <1>2, <1>3, <1>4, <1>5 DEF Obeys, PromptObeys, LaggingObeys, SteadyObeys

\* Scoring moves the counts only, and a strike is the only way up.
LEMMA AfterLeaves ==
  ASSUME NEW v, SessionOK(v), NEW s \in Sample, s.age = 0, NEW reading \in Readings,
         NEW suppress \in BOOLEAN
  PROVE  LET a == After(v, s, reading, suppress)
             strike == Verdict(v, s, reading) = "Mismatch" /\ ~suppress
         IN  /\ a \in Sessions /\ a.cmds = v.cmds /\ a.lock = v.lock /\ a.asked = v.asked
             /\ strike => Above(v.cmds, s.clock) /\ v.streak >= Strikes - 1
             /\ ~Above(v.cmds, s.clock) => a.streak \in {0, v.streak}
             /\ ~strike => a.mis \in {0, v.mis} /\ (a.released => v.released)
             /\ strike /\ v.mis + 1 < MismatchStrikes =>
                  a.mis = v.mis + 1 /\ a.released = v.released
             /\ strike /\ v.mis + 1 >= MismatchStrikes => a.mis = 0
             /\ strike => a.moved = v.moved
             /\ a.moved = v.moved \/ (~a.moved /\ ~a.released /\ v.lock # 0 /\ a.streak = 0 /\ a.mis = 0)
<1> DEFINE o == Observed(v, Verdict(v, s, reading), suppress)
           a == After(v, s, reading, suppress)
<1>1. v \in Sessions /\ v.mis \in 0..(MismatchStrikes - 1) /\ v.released \in BOOLEAN
  BY DEF SessionOK, Sessions
<1>2. o.lock = v.lock /\ o.asked = v.asked
  BY <1>1 DEF Observed, Sessions
<1>3. a.lock = o.lock /\ a.asked = o.asked /\ a.moved = o.moved
  <2>1. o \in {v, [v EXCEPT !.mis = 0, !.released = FALSE, !.moved = @ /\ v.lock = 0], [v EXCEPT !.mis = 0, !.released = TRUE],
               [v EXCEPT !.mis = @ + 1]}
    BY DEF Observed
  <2>2. DOMAIN o = DOMAIN v
    BY <2>1
  <2>3. \A x : /\ [o EXCEPT !.streak = x].lock = o.lock /\ [o EXCEPT !.streak = x].asked = o.asked
              /\ [o EXCEPT !.streak = x].moved = o.moved
    BY <1>1, <2>2 DEF Sessions
  <2> QED BY <2>3 DEF After
<1>4. /\ SessionOK(a) /\ a.cmds = v.cmds /\ a.streak = Streak(v, s, reading)
      /\ a.mis = o.mis /\ a.released = o.released
  BY AfterOK
<1>5. o.mis = IF Verdict(v, s, reading) = "Verified" THEN 0
              ELSE IF Verdict(v, s, reading) = "Unverifiable" \/ suppress THEN v.mis
              ELSE IF v.mis + 1 >= MismatchStrikes THEN 0 ELSE v.mis + 1
  BY <1>1 DEF Observed, Sessions
<1>6. o.released = IF Verdict(v, s, reading) = "Verified" THEN FALSE
                   ELSE IF Verdict(v, s, reading) = "Unverifiable" \/ suppress THEN v.released
                   ELSE IF v.mis + 1 >= MismatchStrikes THEN TRUE ELSE v.released
  BY <1>1 DEF Observed, Sessions
<1>7. Verdict(v, s, reading) \in {"Verified", "Unverifiable", "Mismatch"}
  BY DEF Verdict
<1>13. o.moved = IF Verdict(v, s, reading) = "Verified" THEN v.moved /\ v.lock = 0 ELSE v.moved
  BY <1>1 DEF Observed, Sessions
<1>14. Verdict(v, s, reading) = "Verified" => Streak(v, s, reading) = 0
  BY DEF Verdict
<1> HIDE DEF o, a
<1>8. v.mis \in Nat /\ MismatchStrikes \in Nat
  BY <1>1, Numbers
<1>9. /\ Verdict(v, s, reading) = "Mismatch" => Above(v.cmds, s.clock) /\ v.streak >= Strikes - 1
      /\ ~Above(v.cmds, s.clock) => a.streak \in {0, v.streak}
  BY <1>4, StrikeIs
<1>10. /\ a \in Sessions /\ a.cmds = v.cmds /\ a.lock = v.lock /\ a.asked = v.asked
  BY <1>2, <1>3, <1>4 DEF SessionOK
<1>11. ASSUME Verdict(v, s, reading) = "Mismatch" /\ ~suppress
       PROVE  /\ v.mis + 1 < MismatchStrikes => a.mis = v.mis + 1 /\ a.released = v.released
              /\ v.mis + 1 >= MismatchStrikes => a.mis = 0
  <2>1. Verdict(v, s, reading) # "Verified" /\ Verdict(v, s, reading) # "Unverifiable" /\ ~suppress
    BY <1>11
  <2>2. a.mis = IF v.mis + 1 >= MismatchStrikes THEN 0 ELSE v.mis + 1
    BY <1>4, <1>5, <2>1
  <2>3. ~(v.mis + 1 >= MismatchStrikes) => a.released = v.released
    BY <1>4, <1>6, <2>1
  <2>4. v.mis + 1 < MismatchStrikes <=> ~(v.mis + 1 >= MismatchStrikes)
    BY <1>8
  <2> QED BY <2>2, <2>3, <2>4
<1>12. ASSUME ~(Verdict(v, s, reading) = "Mismatch" /\ ~suppress)
       PROVE  a.mis \in {0, v.mis} /\ (a.released => v.released)
  BY <1>4, <1>5, <1>6, <1>7, <1>12
<1>15. /\ Verdict(v, s, reading) = "Mismatch" => a.moved = v.moved
       /\ a.moved = v.moved \/ (~a.moved /\ ~a.released /\ v.lock # 0 /\ a.streak = 0 /\ a.mis = 0)
  <2>1. v.moved \in BOOLEAN
    BY <1>1 DEF Sessions
  <2> QED BY <1>3, <1>4, <1>5, <1>6, <1>13, <1>14, <2>1
<1> QED BY <1>9, <1>10, <1>11, <1>12, <1>15 DEF a

\* Maintenance, if any, writes the lock again.
LEMMA MaintainLock ==
  ASSUME NEW v \in Sessions, Maintain(v)
  PROVE  /\ session'.cmds = v.cmds /\ session'.lock = v.lock /\ session'.asked = v.asked
         /\ session'.streak = v.streak /\ session'.mis = v.mis /\ session'.released = v.released
         /\ session'.moved = v.moved
         /\ ~call'.hit /\ at' \in {"idle", "maintaining"} /\ (call'.want = 0 <=> at' = "idle")
         /\ at' = "maintaining" => call'.want = session'.lock
<1>1. PICK r \in {"calm", "due", "stuck"} : session' = [v EXCEPT !.recent = r]
  BY DEF Maintain
<1>2. /\ session'.cmds = v.cmds /\ session'.lock = v.lock /\ session'.asked = v.asked
      /\ session'.streak = v.streak /\ session'.mis = v.mis /\ session'.released = v.released
      /\ session'.moved = v.moved
  BY <1>1 DEF Sessions
<1>3. \/ at' = "idle" /\ call'.want = 0 /\ ~call'.hit
      \/ at' = "maintaining" /\ v.lock # 0 /\ call'.want = v.lock /\ ~call'.hit
  BY DEF Maintain, NoCall, Calls
<1> QED BY <1>2, <1>3

\* A scored sample is the last that waited: what it strikes for has been paid, and a strike that is
\* not the last writes what the loop then holds.
LEMMA ScoreObeys ==
  ASSUME Patient, Obeys, Score, IInv'
  PROVE  Obeys'
<1>1. IInv /\ StagesInOrder
  BY DEF Obeys
<1> DEFINE s == Head(queue)
<1>2. /\ queue # <<>> /\ ~sampler.reading /\ s \in Sample /\ s.age = 0 /\ queue' = <<>>
      /\ UNCHANGED sampler /\ ~sampler.woke
      /\ at \in {"idle", "resumed"} /\ (at = "resumed" <=> s.woke) /\ Pending
  BY <1>1, OneSample DEF Score, Patient, StagesInOrder, Pending
<1>3. call.want = 0 /\ ~call.hit /\ ~Pending' /\ ~Suspect' /\ (Asleep' <=> Asleep)
  BY <1>1, <1>2 DEF StagesInOrder, Pending, Suspect, Asleep
<1> PICK suppress \in BOOLEAN, reading \in Readings :
       LET scored  == reading # "invalid" /\ ~s.woke
           verdict == Verdict(session, s, reading)
           strike  == scored /\ verdict = "Mismatch" /\ ~suppress
           after   == IF ~scored THEN session
                      ELSE [Observed(session, verdict, suppress) EXCEPT !.streak = Streak(session, s, reading)]
           gaveUp  == strike /\ session.mis + 1 >= MismatchStrikes
       IN /\ over' = IF scored THEN Counted(session, s, reading, suppress) ELSE over
          /\ \/ gaveUp /\ card' \in {card, Ceiling(Top)} /\ Maintain([after EXCEPT !.lock = 0])
             \/ ~strike /\ UNCHANGED card /\ Maintain(after)
             \/ /\ ~gaveUp /\ UNCHANGED card
                /\ \E l \in Locks : call' = Calls(l) /\ session' = Asking(after, l)
                /\ at' = "writing"
  BY DEF Score
<1> DEFINE scored == reading # "invalid" /\ ~s.woke
           strike == scored /\ Verdict(session, s, reading) = "Mismatch" /\ ~suppress
           after  == IF scored THEN After(session, s, reading, suppress) ELSE session
           gaveUp == strike /\ session.mis + 1 >= MismatchStrikes
<1>4. \/ gaveUp /\ card' \in {card, Ceiling(Top)} /\ Maintain([after EXCEPT !.lock = 0])
      \/ ~strike /\ UNCHANGED card /\ Maintain(after)
      \/ /\ ~gaveUp /\ UNCHANGED card
         /\ \E l \in Locks : call' = Calls(l) /\ session' = Asking(after, l)
         /\ at' = "writing"
  BY DEF After
<1>5. /\ after \in Sessions /\ after.cmds = session.cmds /\ after.lock = session.lock
      /\ after.asked = session.asked
      /\ ~scored => after = session
      /\ strike => Suspect /\ ~s.woke /\ session.cmds # <<>> /\ session.streak > 0
      /\ ~Suspect => after.streak \in {0, session.streak}
      /\ ~strike => after.mis \in {0, session.mis} /\ (after.released => session.released)
      /\ strike /\ ~gaveUp => after.mis = session.mis + 1 /\ after.released = session.released
      /\ gaveUp => after.mis = 0 /\ after.moved = session.moved
      /\ \/ after.moved = session.moved
         \/ ~after.moved /\ ~after.released /\ session.lock # 0 /\ after.streak = 0 /\ after.mis = 0
  <2>1. session \in Sessions /\ SessionOK(session) /\ session.streak \in Nat /\ session.mis \in Nat
    BY <1>1, Fields
  <2>2. CASE ~scored
    BY <2>1, <2>2
  <2>3. CASE scored
    <3>1. Suspect <=> Above(session.cmds, s.clock)
      BY <1>2, <2>3 DEF Suspect
    <3>2. Above(session.cmds, s.clock) => session.cmds # <<>>
      BY AboveBasics
    <3>3. Strikes \in Nat /\ Strikes >= 2 /\ MismatchStrikes \in Nat
      BY Numbers DEF Patient
    <3>4. LET a == After(session, s, reading, suppress)
              struck == Verdict(session, s, reading) = "Mismatch" /\ ~suppress
          IN  /\ a \in Sessions /\ a.cmds = session.cmds /\ a.lock = session.lock /\ a.asked = session.asked
              /\ struck => Above(session.cmds, s.clock) /\ session.streak >= Strikes - 1
              /\ ~Above(session.cmds, s.clock) => a.streak \in {0, session.streak}
              /\ ~struck => a.mis \in {0, session.mis} /\ (a.released => session.released)
              /\ struck /\ session.mis + 1 < MismatchStrikes =>
                   a.mis = session.mis + 1 /\ a.released = session.released
              /\ struck /\ session.mis + 1 >= MismatchStrikes => a.mis = 0
              /\ struck => a.moved = session.moved
              /\ \/ a.moved = session.moved
                 \/ ~a.moved /\ ~a.released /\ session.lock # 0 /\ a.streak = 0 /\ a.mis = 0
      BY <1>2, <2>1, AfterLeaves
    <3> HIDE DEF s
    <3> QED BY <2>1, <2>3, <3>1, <3>2, <3>3, <3>4
  <2> QED BY <2>2, <2>3
<1> HIDE DEF scored, strike, after, gaveUp, s
<1>7. session.mis \in Nat /\ session.streak \in Nat /\ session.asked \in {0} \cup Locks
  BY <1>1, Fields DEF Sessions
<1>6. gaveUp => card.kind = "ignoring" \/ session.moved
  <2> SUFFICES ASSUME gaveUp, card.kind # "ignoring", ~session.moved PROVE FALSE
    OBVIOUS
  <2>1. Suspect /\ session.mis > 1
    BY <1>1, <1>5, Fields, Numbers DEF gaveUp, Patient
  <2>2. card.kind \in {"prompt", "lagging"}
    BY <1>1, InParts DEF Parts, CardType
  <2>3. CASE card.kind = "prompt"
    BY <2>1, <2>3, <1>7 DEF Obeys, PromptObeys
  <2>4. CASE card.kind = "lagging"
    BY <2>1, <2>4, <1>7 DEF Obeys, SteadyObeys
  <2> QED BY <2>2, <2>3, <2>4
\* What the step leaves, whichever way it goes.
<1> DEFINE left ==
      /\ ~call'.hit /\ session'.cmds = session.cmds
      /\ session'.streak = after.streak /\ session'.mis = after.mis
      /\ session'.released = after.released
      /\ at' \in {"idle", "writing", "maintaining"} /\ (call'.want = 0 <=> at' = "idle")
      /\ at' = "maintaining" => call'.want = session'.lock
      /\ card.kind = "lagging" /\ at' = "writing" /\ session'.mis > 0 => call'.want = session'.asked
      /\ session'.lock \in {0, session.lock}
      /\ after.moved => session'.moved
      /\ card.kind # "lagging" => session'.moved = after.moved
      /\ gaveUp => session'.lock = 0 /\ session'.moved = session.moved
      /\ ~gaveUp =>
           /\ UNCHANGED card /\ session'.lock = session.lock
           /\ strike => at' = "writing"
           /\ card.kind = "lagging" /\ session.mis > 0 /\ session'.mis > 0 =>
                session'.moved \/ session'.asked = session.asked
<1>8. left
  <2>1. CASE gaveUp /\ card' \in {card, Ceiling(Top)} /\ Maintain([after EXCEPT !.lock = 0])
    <3> DEFINE u == [after EXCEPT !.lock = 0]
    <3>1. /\ u \in Sessions /\ u.cmds = after.cmds /\ u.lock = 0 /\ u.streak = after.streak
          /\ u.mis = after.mis /\ u.released = after.released /\ u.moved = after.moved
      BY <1>5 DEF Sessions
    <3>2. Maintain(u)
      BY <2>1
    <3> HIDE DEF u
    <3>3. /\ session'.cmds = u.cmds /\ session'.lock = u.lock /\ session'.moved = u.moved
          /\ session'.streak = u.streak /\ session'.mis = u.mis /\ session'.released = u.released
          /\ ~call'.hit /\ at' \in {"idle", "maintaining"} /\ (call'.want = 0 <=> at' = "idle")
          /\ at' = "maintaining" => call'.want = session'.lock
      BY <3>1, <3>2, MaintainLock
    <3> QED BY <1>5, <2>1, <3>1, <3>3
  <2>2. CASE ~strike /\ UNCHANGED card /\ Maintain(after)
    <3>1. /\ session'.cmds = after.cmds /\ session'.lock = after.lock /\ session'.asked = after.asked
          /\ session'.streak = after.streak /\ session'.mis = after.mis /\ session'.released = after.released
          /\ session'.moved = after.moved
          /\ ~call'.hit /\ at' \in {"idle", "maintaining"} /\ (call'.want = 0 <=> at' = "idle")
          /\ at' = "maintaining" => call'.want = session'.lock
      BY <1>5, <2>2, MaintainLock
    <3>2. ~gaveUp
      BY <2>2 DEF gaveUp
    <3> QED BY <1>5, <2>2, <3>1, <3>2
  <2>3. ASSUME NEW l \in Locks, ~gaveUp, UNCHANGED card, call' = Calls(l), session' = Asking(after, l),
               at' = "writing"
        PROVE  left
    <3>1. call'.want = l /\ ~call'.hit /\ l # 0
      BY <2>3, Numbers DEF Calls
    <3>2. /\ session'.cmds = after.cmds /\ session'.lock = after.lock
          /\ session'.streak = after.streak /\ session'.mis = after.mis /\ session'.released = after.released
          /\ card.kind # "lagging" => session'.moved = after.moved
          /\ after.moved => session'.moved
          /\ card.kind = "lagging" /\ after.mis > 0 =>
               session'.asked = l /\ (session.mis > 0 => session'.moved \/ l = session.asked)
      BY <1>5, <2>3, AskingLeaves
    <3> QED BY <1>5, <2>3, <3>1, <3>2
  <2> QED BY <1>4, <2>1, <2>2, <2>3
<1>9. StagesInOrder'
  <2>1. session'.mis > 0 => session'.cmds # <<>>
    BY <1>1, <1>5, <1>7, <1>8 DEF StagesInOrder
  <2>2. session'.cmds # <<>> /\ session'.lock # 0 => session'.lock = Newest(session'.cmds)
    BY <1>1, <1>8 DEF StagesInOrder
  <2>3. card'.kind = card.kind
    BY <1>1, <1>4, InParts, CardOK, Numbers DEF Parts
  <2> QED BY <1>2, <1>3, <1>8, <2>1, <2>2, <2>3 DEF StagesInOrder
<1>10. ASSUME ~gaveUp PROVE (InForce' <=> InForce) /\ (Lowered' <=> Lowered) /\ (Coming' <=> Lowered)
  BY <1>3, <1>8, <1>10 DEF InForce, Lowered, Coming
<1>11. ASSUME card.kind # "ignoring"
       PROVE  /\ session'.released => session'.moved
              /\ session'.lock = 0 /\ session'.cmds # <<>> => session'.moved
              /\ session'.moved => card.kind = "lagging"
  <2>1. /\ session.released => session.moved
        /\ session.lock = 0 /\ session.cmds # <<>> => session.moved
        /\ session.moved => card.kind = "lagging"
    BY <1>11 DEF Obeys
  <2>2. CASE gaveUp
    BY <1>6, <1>8, <1>11, <2>1, <2>2
  <2>3. CASE ~gaveUp
    <3>1. after.released => session.released /\ after.moved = session.moved
      BY <1>5, <2>3
    <3>2. session.lock = 0 => after.moved = session.moved
      BY <1>5
    <3> QED BY <1>5, <1>8, <2>1, <2>3, <3>1, <3>2
  <2> QED BY <2>2, <2>3
<1>12. ASSUME card.kind = "prompt" PROVE PromptObeys'
  <2>1. PromptObeys /\ ~gaveUp /\ UNCHANGED card
    BY <1>6, <1>8, <1>12 DEF Obeys
  <2>2. card.troubles = 0 => session'.streak = 0 /\ session'.mis = 0
    BY <1>5, <1>8, <2>1 DEF PromptObeys
  <2>3. session'.mis > 0 => InForce \/ strike
    BY <1>3, <1>5, <1>7, <1>8, <1>12, <2>1 DEF PromptObeys
  <2>4. strike => call'.want # 0 /\ ~call'.hit
    BY <1>8, <1>12, <2>1
  <2> QED BY <1>3, <1>10, <1>12, <2>1, <2>2, <2>3, <2>4 DEF PromptObeys
<1>13. ASSUME card.kind = "lagging" PROVE LaggingObeys'
  <2>1. CASE gaveUp
    BY <1>3, <1>8, <2>1 DEF LaggingObeys, InForce
  <2>2. CASE ~gaveUp
    BY <1>3, <1>10, <1>13, <2>2 DEF LaggingObeys, Obeys
  <2> QED BY <2>1, <2>2
<1>16. ASSUME card.kind = "lagging", ~session'.moved PROVE SteadyObeys'
  <2>0. ~gaveUp /\ UNCHANGED card
    BY <1>6, <1>8, <1>16
  <2>1. (Lowered' <=> Lowered) /\ (Coming' <=> Lowered) /\ ~Pending' /\ ~Suspect' /\ (Asleep' <=> Asleep)
    BY <1>3, <1>10, <2>0
  <2>2. CASE session.moved
    <3>1. session'.streak = 0 /\ session'.mis = 0
      BY <1>5, <1>8, <1>16, <2>2
    <3> QED BY <2>1, <3>1 DEF SteadyObeys
  <2>3. CASE ~session.moved
    <3>1. LaggingObeys /\ SteadyObeys /\ (Lowered => Coming)
      BY <1>16, <2>3 DEF Obeys, Coming
    <3>2. ASSUME session'.mis > 0, ~Asleep
          PROVE  /\ Lowered => session'.mis = 1
                 /\ card.now # session'.asked => session'.mis = 1 /\ ~Lowered
      <4>1. CASE session.mis > 0 /\ ~strike
        <5>1. session'.mis = session.mis /\ session'.asked = session.asked
          BY <1>5, <1>7, <1>8, <1>16, <2>0, <3>2, <4>1
        <5> QED BY <3>1, <3>2, <4>1, <5>1 DEF SteadyObeys
      <4>2. CASE session.mis > 0 /\ strike
        <5>1. Suspect /\ session'.asked = session.asked
          BY <1>5, <1>8, <1>16, <2>0, <3>2, <4>2
        <5>2. ~Coming /\ card.now = session.asked
          BY <3>1, <3>2, <4>2, <5>1 DEF SteadyObeys
        <5> QED BY <3>1, <5>1, <5>2
      <4>3. CASE session.mis = 0
        <5>1. strike /\ session'.mis = 1 /\ Suspect /\ session.streak > 0
          BY <1>5, <1>7, <1>8, <2>0, <3>2, <4>3
        <5>2. ~Lowered
          BY <3>1, <3>2, <5>1 DEF SteadyObeys
        <5> QED BY <5>1, <5>2
      <4> QED BY <1>7, <4>1, <4>2, <4>3
    <3>3. card.troubles = 0 /\ Lowered => session'.streak = 0 /\ session'.mis = 0
      <4>1. at = "idle" /\ card.troubles = 0 => ~Lowered
        BY <1>2, <3>1 DEF LaggingObeys, Lowered
      <4>2. at = "resumed" => session'.streak = 0 /\ session'.mis = 0
        BY <1>1, <1>2, <1>5, <1>8 DEF StagesInOrder, scored
      <4> QED BY <1>2, <4>1, <4>2
    <3> QED BY <2>0, <2>1, <3>2, <3>3 DEF SteadyObeys
  <2> QED BY <2>2, <2>3
<1>14. card'.kind = card.kind
  BY <1>1, <1>4, InParts, CardOK, Numbers DEF Parts
<1>15. card.kind \in {"prompt", "lagging", "ignoring"}
  BY <1>1, InParts DEF Parts, CardType
<1>17. session'.moved => card.kind = "lagging"
  BY <1>5, <1>8 DEF Obeys
<1> QED BY <1>9, <1>11, <1>12, <1>13, <1>14, <1>15, <1>16, <1>17 DEF Obeys

\* The end of a call: a command that completed tells of the samples to come.
LEMMA ReturnObeys ==
  ASSUME Patient, Obeys, Return, IInv'
  PROVE  Obeys'
<1>1. IInv /\ StagesInOrder
  BY DEF Obeys
<1> DEFINE want == call.want
           done == IF call.hit THEN Recorded(want) ELSE session
<1>2. /\ want # 0 /\ want \in Locks /\ at \in {"resuming", "writing", "maintaining"}
      /\ UNCHANGED <<sampler, queue, over>>
  BY <1>1, Fields, InParts DEF Return, StagesInOrder, Parts, Stages
<1>3. /\ done \in Sessions /\ done.streak = session.streak /\ done.mis = session.mis
      /\ done.released = session.released /\ done.asked = session.asked /\ done.moved = session.moved
      /\ call.hit => done.lock = want /\ done.cmds = WithEvidence(want)
      /\ ~call.hit => done.lock = session.lock /\ done.cmds = session.cmds
  <2>1. session \in Sessions /\ SessionOK(session) /\ want \in Locks
    BY <1>1, <1>2, Fields
  <2>2. CASE call.hit
    <3>1. done = [session EXCEPT !.cmds = WithEvidence(want), !.lock = want]
      BY <2>2 DEF Recorded
    <3>2. SessionOK(Recorded(want))
      BY <2>1, RecordedOK
    <3>3. done \in Sessions
      BY <2>2, <3>2 DEF SessionOK
    <3> HIDE DEF done
    <3> QED BY <2>1, <2>2, <3>1, <3>3 DEF Sessions
  <2>3. CASE ~call.hit
    BY <2>1, <2>3
  <2> QED BY <2>2, <2>3
<1>4. \/ at = "writing" /\ Maintain(done)
      \/ /\ at # "writing" /\ session' = done /\ call' = NoCall
         /\ at' = IF at = "resuming" THEN "resumed" ELSE "idle"
  BY DEF Return
<1> HIDE DEF done
<1>5. /\ session'.cmds = done.cmds /\ session'.lock = done.lock /\ session'.asked = session.asked
      /\ session'.streak = session.streak /\ session'.mis = session.mis
      /\ session'.released = session.released /\ session'.moved = session.moved /\ ~call'.hit
      /\ at' \in {"idle", "resumed", "maintaining"} /\ (at' = "resumed" <=> at = "resuming")
      /\ call'.want = 0 <=> at' \in {"idle", "resumed"}
      /\ at' = "maintaining" => call'.want = session'.lock /\ at = "writing"
  <2>1. CASE at = "writing" /\ Maintain(done)
    BY <1>3, <2>1, MaintainLock
  <2>2. CASE /\ at # "writing" /\ session' = done /\ call' = NoCall
             /\ at' = IF at = "resuming" THEN "resumed" ELSE "idle"
    BY <1>2, <1>3, <2>2 DEF NoCall
  <2> QED BY <1>4, <2>1, <2>2
<1>6. /\ card'.kind = card.kind /\ card'.now = card.now /\ card'.fresh = card.fresh
      /\ card'.old = card.old /\ card'.troubles >= card.troubles
      /\ card.kind # "prompt" \/ call.hit => card'.troubles = card.troubles
      /\ card.kind = "prompt" /\ ~call.hit => card.troubles = 0 /\ card'.troubles = 1
  <2>1. card \in CardType /\ card.troubles \in Nat
    BY <1>1, InParts, Fields DEF Parts
  <2>2. CASE card.kind # "prompt" \/ call.hit
    BY <2>1, <2>2 DEF Return
  <2>3. CASE card.kind = "prompt" /\ ~call.hit
    <3>1. card.troubles = 0 /\ card' = [card EXCEPT !.troubles = @ + 1]
      BY <2>1, <2>3, Numbers DEF Return, Patient, Trouble
    <3> QED BY <2>1, <2>3, <3>1 DEF CardType
  <2> QED BY <2>2, <2>3
<1>7. /\ call.hit => session'.cmds # <<>> /\ Newest(session'.cmds) = want
      /\ \A c : Above(session'.cmds, c) => Above(session.cmds, c)
  <2>1. CASE call.hit
    BY <1>1, <1>2, <1>3, <1>5, <2>1, Fields, AboveRecorded
  <2>2. CASE ~call.hit
    BY <1>3, <1>5, <2>2
  <2> QED BY <2>1, <2>2
<1> HIDE DEF want
<1>8. /\ Pending' <=> Pending
      /\ Asleep' <=> Asleep
      /\ Suspect' => Suspect
      /\ Lowered' <=> Lowered
      /\ Coming' => Lowered
      /\ InForce => InForce'
  <2>1. (Pending' <=> Pending) /\ (Asleep' <=> Asleep)
    BY <1>2, <1>5 DEF Pending, Asleep
  <2>2. Suspect' => Suspect
    BY <1>2, <1>6, <1>7 DEF Suspect, Shown
  <2>3. (Lowered' <=> Lowered) /\ (Coming' => Lowered)
    BY <1>5, <1>6 DEF Lowered, Coming
  <2>4. InForce => InForce'
    BY <1>3, <1>5, <1>6, <1>7, <2>1 DEF InForce, want
  <2> QED BY <2>1, <2>2, <2>3, <2>4
<1>9. StagesInOrder'
  <2>1. at' = "maintaining" /\ Pending' => card'.troubles > 0
    BY <1>1, <1>5, <1>6, <1>8, Fields DEF StagesInOrder
  <2>2. session'.cmds # <<>> /\ session'.lock # 0 => session'.lock = Newest(session'.cmds)
    BY <1>1, <1>3, <1>5, <1>7 DEF StagesInOrder
  <2>3. session'.mis > 0 => session'.cmds # <<>>
    BY <1>1, <1>3, <1>5, <1>7 DEF StagesInOrder
  <2>4. at' = "resumed" => queue # <<>> /\ Head(queue).woke /\ session.streak = 0 /\ session.mis = 0
    BY <1>1, <1>5 DEF StagesInOrder
  <2> QED BY <1>1, <1>2, <1>5, <2>1, <2>2, <2>3, <2>4 DEF StagesInOrder
<1>10. ASSUME card.kind = "prompt" PROVE PromptObeys'
  <2>1. PromptObeys
    BY <1>10 DEF Obeys
  <2>2. session.mis > 0 => call.hit /\ InForce /\ ~Pending
    BY <1>2, <1>6, <1>10, <2>1 DEF PromptObeys, want
  <2>3. card'.troubles = 0 => card.troubles = 0
    BY <1>6, <1>10
  <2> QED BY <1>5, <1>6, <1>8, <2>1, <2>2, <2>3 DEF PromptObeys
<1>14. at' = "idle" /\ Pending /\ card.kind = "lagging" => card'.troubles > 0
  <2>1. at' = "idle" /\ Pending => card.troubles > 0
    BY <1>1, <1>2, <1>5 DEF StagesInOrder
  <2> QED BY <1>6, <2>1
<1>11. ASSUME card.kind = "lagging" PROVE LaggingObeys'
  <2>1. InForce /\ card'.troubles = card.troubles
    BY <1>6, <1>11 DEF Obeys, LaggingObeys
  <2>2. ~(card'.troubles = 0 /\ at' = "idle" /\ Pending')
    BY <1>1, <1>8, <1>11, <1>14, Fields
  <2> QED BY <1>5, <1>8, <2>1, <2>2 DEF LaggingObeys
<1>13. ASSUME card.kind = "lagging", ~session.moved PROVE SteadyObeys'
  <2>1. SteadyObeys /\ card'.troubles = card.troubles
    BY <1>6, <1>13 DEF Obeys
  <2>2. Coming' => Coming
    BY <1>8 DEF Coming
  <2> QED BY <1>5, <1>6, <1>8, <2>1, <2>2 DEF SteadyObeys
<1>12. card.kind \in {"prompt", "lagging", "ignoring"}
  BY <1>1, InParts DEF Parts, CardType
<1>15. session'.lock = 0 /\ session'.cmds # <<>> => session.lock = 0 /\ session.cmds # <<>>
  BY <1>2, <1>3, <1>5
<1> QED BY <1>5, <1>6, <1>9, <1>10, <1>11, <1>12, <1>13, <1>15 DEF Obeys

\* At first there is nothing to show.
LEMMA InitObeys == Init => Obeys
<1> SUFFICES ASSUME Init PROVE Obeys
  OBVIOUS
<1>1. IInv
  BY InitOK
<1>2. /\ queue = <<>> /\ ~sampler.reading /\ ~sampler.woke /\ ~sampler.slept /\ at = "idle"
      /\ call.want = 0 /\ ~call.hit /\ session.cmds = <<>> /\ session.streak = 0 /\ session.mis = 0
      /\ session.lock = 0 /\ ~session.released /\ ~session.moved
      /\ card.fresh = {} /\ card.old = {} /\ card.troubles = 0
  BY DEF Init, NoCall
<1>3. ~Pending /\ ~Suspect /\ InForce /\ ~Lowered /\ ~Coming
  BY <1>2 DEF Pending, Suspect, InForce, Lowered, Coming
<1> QED BY <1>1, <1>2, <1>3 DEF Obeys, StagesInOrder, PromptObeys, LaggingObeys, SteadyObeys

\* What a card that obeys shows is kept by every step.
LEMMA StepObeys == ASSUME Patient, Obeys, [Next]_vars PROVE Obeys'
<1>1. IInv'
  BY Inductive DEF Obeys
<1>2. CASE Next
  BY <1>1, <1>2, StampObeys, ReadObeys, LoseLockObeys, SuspendObeys, TakeObeys, ResumeObeys, ScoreObeys,
     ReturnObeys DEF Next
<1>3. CASE UNCHANGED vars
  BY <1>3 DEF vars, Obeys, IInv, TypeOK, SamplesInOrder, CommandsInOrder, CountIsHeld, Held, StagesInOrder,
     PromptObeys, LaggingObeys, SteadyObeys, Pending, Asleep, InForce, Suspect, Lowered, Coming, Shown
<1> QED BY <1>2, <1>3

\* ObedientKeepsItsLock, for every set of locks and every number of strikes from the smallest that
\* outlast the lag: a card that takes its locks promptly keeps them whatever the loop asks for, and
\* one that takes them a second late unless the loop moved its lock in the middle of the mismatch,
\* through raises that a sampler round straddles, repeated commands, samples without a clock, a
\* suspend and one lost lock, failed call or slow call.
THEOREM ObedientCorrect ==
  ASSUME Backlog = 1, Troubles <= 1, Strikes >= 2, MismatchStrikes >= 3
  PROVE  Spec => []ObedientKeepsItsLock
<1>0. Patient
  BY DEF Patient
<1>1. Init => Obeys
  BY InitObeys
<1>2. Obeys /\ [Next]_vars => Obeys'
  BY <1>0, StepObeys
<1>3. Obeys => ObedientKeepsItsLock
  <2> SUFFICES ASSUME Obeys PROVE ObedientKeepsItsLock
    OBVIOUS
  <2> QED BY DEF Obeys, IInv, ObedientKeepsItsLock
<1> QED BY <1>1, <1>2, <1>3, PTL DEF Spec
-----------------------------------------------------------------------------
(* The CPU actuator: a specification of its own, with its own variables.   *)

\* A pair of what is in force and what was last commanded.
Pairs == [slow : Caps \cup {Stock}, last : Caps \cup {0}]

\* What an operation reports of the pair it leaves.
Outcomes == [slow : Caps \cup {Stock}, last : Caps \cup {0}, result : Verdicts \cup Restores]

\* A write is in range, is verified only if it is in force, and is remembered by then; it
\* never forgets a commanded limit.
LEMMA SetLeaves ==
  ASSUME NEW h \in Pairs, NEW c \in Caps, NEW o \in Set(h, c)
  PROVE  /\ o \in Outcomes /\ o.result \in Verdicts
         /\ o.result = "Verified" => o.slow = c /\ o.last = c
         /\ h.last # 0 => o.last # 0
<1> DEFINE accepted == {[slow |-> c, last |-> c]}
                         \cup Faulty("ignoredWrite", {[slow |-> h.slow, last |-> c]})
<1>1. CASE o \in Faulty("failedWrite", {Outcome(h.slow, h.last, "Unreadable")})
  BY <1>1 DEF Faulty, Outcome, Outcomes, Pairs, Verdicts
<1>2. ASSUME NEW a \in accepted, NEW v \in Verify(a, c), o = Outcome(a.slow, a.last, v)
      PROVE  /\ o \in Outcomes /\ o.result \in Verdicts
             /\ o.result = "Verified" => o.slow = c /\ o.last = c
             /\ o.last # 0
  <2>1. a \in Pairs /\ a.last = c
    BY DEF Faulty, Pairs
  <2>2. v \in Verdicts /\ (v = "Verified" => a.slow = c)
    BY DEF Verify, Faulty, Verdicts
  <2> QED BY <1>2, <2>1, <2>2, CapsAssumption DEF Outcome, Outcomes, Pairs
<1> QED BY <1>1, <1>2 DEF Set

\* Maintenance is in range, is verified only if the limit is in force, and forgets nothing.
LEMMA MaintainLeaves ==
  ASSUME NEW h \in Pairs, NEW c \in Caps, NEW o \in MaintainCap(h, c)
  PROVE  /\ o \in Outcomes
         /\ o.result = "Verified" => o.slow = c
         /\ h.last # 0 => o.last # 0
<1> PICK v \in Verify(h, c) :
      o = Outcome(h.slow, h.last, v) \/ (v = "Mismatch" /\ o \in Set(h, c))
  BY DEF MaintainCap
<1>1. CASE o \in Set(h, c)
  BY <1>1, SetLeaves
<1>2. CASE o = Outcome(h.slow, h.last, v)
  <2>1. v \in Verdicts /\ (v = "Verified" => h.slow = c)
    BY DEF Verify, Faulty, Verdicts
  <2> QED BY <1>2, <2>1 DEF Outcome, Outcomes, Pairs
<1> QED BY <1>1, <1>2

\* A toggle leaves stock or what was in force.
LEMMA ToggleLeaves ==
  ASSUME NEW s \in Caps \cup {Stock}, NEW t \in Toggle(s)
  PROVE  t.slow \in {Stock, s} /\ t.ok \in BOOLEAN
<1> DEFINE limits == {Stock} \cup Faulty("ignoredToggle", {s})
<1>1. limits \cup {s} \subseteq {Stock, s}
  BY DEF Faulty
<1>2. \E u \in limits \cup {s}, ok \in BOOLEAN : t = [slow |-> u, ok |-> ok]
  BY DEF Toggle, Faulty
<1> HIDE DEF limits
<1> QED BY <1>1, <1>2

\* What a read-back reports.
LEMMA SeenIs ==
  ASSUME NEW t, NEW l, NEW seen \in Seen(t, l)
  PROVE  /\ seen \in {"blind", "capped", "stock"}
         /\ seen = "stock" => t # l
         /\ "blindRead" \notin Faults => seen # "blind"
  BY DEF Seen, Faulty, StillCapped

\* The second toggle is in range; read back, it reports success only of another limit.
LEMMA AgainLeaves ==
  ASSUME NEW s \in Caps \cup {Stock}, NEW l \in Caps \cup {0}, NEW o \in ToggledAgain(s, l)
  PROVE  /\ o \in Outcomes /\ o.result \in Restores \ {"unchecked"}
         /\ o.result = "error" => o.last = l
         /\ o.result = "stock" => o.slow # l /\ o.last = 0
         /\ o.slow \in {Stock, s}
         /\ o.result = "blind" => "blindRead" \in Faults
<1> PICK t \in Toggle(s) :
      \/ ~t.ok /\ o = Outcome(t.slow, l, "error")
      \/ \E seen \in Seen(t.slow, l) :
           o = IF seen = "capped" THEN Outcome(t.slow, l, "error") ELSE Outcome(t.slow, 0, seen)
  BY DEF ToggledAgain
<1>1. t.slow \in {Stock, s}
  BY ToggleLeaves
<1>2. CASE o = Outcome(t.slow, l, "error")
  BY <1>1, <1>2 DEF Outcome, Outcomes, Restores
<1>3. ASSUME NEW seen \in Seen(t.slow, l), seen # "capped", o = Outcome(t.slow, 0, seen)
      PROVE  /\ o \in Outcomes /\ o.result \in {"blind", "stock"} /\ o.last = 0
             /\ o.result = "stock" => o.slow # l
             /\ o.slow \in {Stock, s}
             /\ o.result = "blind" => "blindRead" \in Faults
  BY <1>1, <1>3, SeenIs DEF Outcome, Outcomes, Restores
<1> QED BY <1>2, <1>3 DEF Restores

\* A restore is in range; success, read back, means that the last commanded limit is gone,
\* and success without one to check means that none was commanded.
LEMMA RestoreLeaves ==
  ASSUME NEW h \in Pairs, NEW o \in RestoreStock(h)
  PROVE  /\ o \in Outcomes /\ o.result \in Restores
         /\ o.slow \in {Stock, h.slow}
         /\ o.result = "stock" => o.slow # h.last
         /\ o.result = "unchecked" => h.last = 0
         /\ o.result = "error" => o.last = h.last
         /\ o.result = "blind" => "blindRead" \in Faults
<1> PICK t \in Toggle(h.slow) :
      \/ ~t.ok /\ o = Outcome(t.slow, h.last, "error")
      \/ h.last = 0 /\ o = Outcome(t.slow, 0, "unchecked")
      \/ \E seen \in Seen(t.slow, h.last) :
           IF seen = "capped" THEN o \in ToggledAgain(t.slow, h.last) ELSE o = Outcome(t.slow, 0, seen)
  BY DEF RestoreStock
<1>1. t.slow \in {Stock, h.slow} /\ t.slow \in Caps \cup {Stock} /\ h.last \in Caps \cup {0}
  BY ToggleLeaves DEF Pairs
<1>2. CASE o = Outcome(t.slow, h.last, "error")
  BY <1>1, <1>2 DEF Outcome, Outcomes, Restores
<1>3. CASE h.last = 0 /\ o = Outcome(t.slow, 0, "unchecked")
  BY <1>1, <1>3 DEF Outcome, Outcomes, Restores
<1>4. CASE o \in ToggledAgain(t.slow, h.last)
  BY <1>1, <1>4, AgainLeaves DEF Restores
<1>5. ASSUME NEW seen \in Seen(t.slow, h.last), seen # "capped", o = Outcome(t.slow, 0, seen)
      PROVE  /\ o \in Outcomes /\ o.result \in {"blind", "stock"}
             /\ o.slow \in {Stock, h.slow}
             /\ o.result = "stock" => o.slow # h.last
             /\ o.result = "blind" => "blindRead" \in Faults
  BY <1>1, <1>5, SeenIs DEF Outcome, Outcomes, Restores
<1> QED BY <1>2, <1>3, <1>4, <1>5 DEF Restores
-----------------------------------------------------------------------------
(* The invariants that hold whatever the faults.                           *)

\* The inductive invariant: what is recorded is remembered, what was verified is in force.
Inv == CpuTypeOK /\ VerifiedIsInForce /\ RecordedIsRemembered

\* The actuator starts at stock, with nothing commanded.
LEMMA InitInv == CpuInit => Inv
  BY DEF CpuInit, Inv, CpuTypeOK, VerifiedIsInForce, RecordedIsRemembered

\* Every step keeps the invariant.
LEMMA StepInv == Inv /\ [CpuNext]_cpuVars => Inv'
<1> SUFFICES ASSUME Inv, [CpuNext]_cpuVars PROVE Inv'
  OBVIOUS
<1> USE DEF Inv, CpuTypeOK, VerifiedIsInForce, RecordedIsRemembered
<1>0. Here \in Pairs /\ Here.slow = slow /\ Here.last = last
  BY DEF Here, Pairs
<1>1. ASSUME NEW c \in Caps, Write(c) PROVE Inv'
  <2> PICK o \in Set(Here, c) :
        Becomes(o) /\ limit' = IF o.result = "Verified" THEN c ELSE limit
    BY <1>1 DEF Write
  <2>1. /\ o \in Outcomes
        /\ o.result = "Verified" => o.slow = c /\ o.last = c
        /\ last # 0 => o.last # 0
    BY <1>0, SetLeaves
  <2> QED BY <2>1, CapsAssumption DEF Becomes, Outcomes
<1>2. CASE Reassert
  <2> PICK o \in MaintainCap(Here, limit) : Becomes(o)
    BY <1>2 DEF Reassert
  <2>1. limit \in Caps
    BY <1>2 DEF Reassert
  <2>2. o \in Outcomes /\ (o.result = "Verified" => o.slow = limit) /\ (last # 0 => o.last # 0)
    BY <1>0, <2>1, MaintainLeaves
  <2> QED BY <1>2, <2>2 DEF Reassert, Becomes, Outcomes
<1>3. CASE Release
  <2> PICK o \in RestoreStock(Here) : Becomes(o) /\ limit' = 0
    BY <1>3 DEF Release, Forgotten
  <2>1. o \in Outcomes /\ o.result \in Restores
    BY <1>0, RestoreLeaves
  <2> QED BY <2>1 DEF Becomes, Outcomes, Restores
<1>4. CASE FirmwareReset
  BY <1>4 DEF FirmwareReset
<1>5. CASE UNCHANGED cpuVars
  BY <1>5 DEF cpuVars
<1> QED BY <1>1, <1>2, <1>3, <1>4, <1>5 DEF CpuNext

\* Every reachable state satisfies the invariant.
THEOREM AlwaysInv == CpuSpec => []Inv
  BY InitInv, StepInv, PTL DEF CpuSpec

\* A verified write left in force exactly what the status records.
THEOREM VerifiedCorrect == CpuSpec => []VerifiedIsInForce
<1>1. Inv => VerifiedIsInForce
  BY DEF Inv
<1> QED BY <1>1, AlwaysInv, PTL

\* A recorded limit is one the next restore checks for.
THEOREM RememberedCorrect == CpuSpec => []RecordedIsRemembered
<1>1. Inv => RecordedIsRemembered
  BY DEF Inv
<1> QED BY <1>1, AlwaysInv, PTL
-----------------------------------------------------------------------------
(* The restore's promise.                                                  *)

\* A release that reports what it saw has taken the last commanded limit off.
LEMMA ReleaseTakesOff ==
  ASSUME Inv, Release, slow \in {Stock, last}, result' \in {"stock", "unchecked"}
  PROVE  slow' = Stock
<1>1. Here \in Pairs /\ Here.slow = slow /\ Here.last = last
  BY DEF Here, Pairs, Inv, CpuTypeOK
<1> PICK o \in RestoreStock(Here) : Becomes(o)
  BY DEF Release
<1>2. /\ o.slow \in {Stock, slow}
      /\ o.result = "stock" => o.slow # last
      /\ o.result = "unchecked" => last = 0
  BY <1>1, RestoreLeaves
<1>3. last = 0 => slow = Stock
  BY CapsAssumption DEF Inv, CpuTypeOK
<1> QED BY <1>2, <1>3 DEF Becomes

\* Whatever the faults, a restore that reports what it saw takes the last commanded limit off.
THEOREM TakesOffCorrect == CpuSpec => RestoreTakesOff
<1>1. Inv /\ [CpuNext]_cpuVars =>
        [Release /\ slow \in {Stock, last} /\ result' \in {"stock", "unchecked"} => slow' = Stock]_cpuVars
  BY ReleaseTakesOff
<1> QED BY <1>1, AlwaysInv, PTL DEF CpuSpec, RestoreTakesOff

(* On hardware that takes what it accepts.                                 *)

\* What is in force, unless it is stock, is what was last commanded.
CapIsLast == slow # Stock => slow = last

HonestInv == Inv /\ CapIsLast /\ RestoreLeavesNoCap

\* A write that is taken when it is accepted leaves its own limit or changes nothing.
LEMMA SetIsTaken ==
  ASSUME "ignoredWrite" \notin Faults, NEW h \in Pairs, NEW c \in Caps, NEW o \in Set(h, c)
  PROVE  \/ o.slow = c /\ o.last = c
         \/ o.slow = h.slow /\ o.last = h.last
  BY DEF Set, Faulty, Outcome

\* On honest hardware every step keeps the stronger invariant.
LEMMA StepHonest ==
  ASSUME {"ignoredWrite", "blindRead"} \cap Faults = {}, HonestInv, [CpuNext]_cpuVars
  PROVE  HonestInv'
<1> USE DEF HonestInv, CapIsLast, RestoreLeavesNoCap
<1>0. Here \in Pairs /\ Here.slow = slow /\ Here.last = last /\ Inv'
  BY StepInv DEF Here, Pairs, Inv, CpuTypeOK
<1>1. ASSUME NEW c \in Caps, Write(c) PROVE HonestInv'
  <2> PICK o \in Set(Here, c) : Becomes(o)
    BY <1>1 DEF Write
  <2>1. o.result \in Verdicts /\ (o.slow = o.last \/ (o.slow = slow /\ o.last = last))
    BY <1>0, SetLeaves, SetIsTaken
  <2> QED BY <1>0, <2>1 DEF Becomes, Verdicts
<1>2. CASE Reassert
  <2> PICK o \in MaintainCap(Here, limit) : Becomes(o)
    BY <1>2 DEF Reassert
  <2>0. limit \in Caps
    BY <1>2 DEF Reassert, Inv, CpuTypeOK
  <2>1. PICK v \in Verify(Here, limit) :
          o = Outcome(slow, last, v) \/ o \in Set(Here, limit)
    BY <1>0 DEF MaintainCap
  <2>2. v \in Verdicts
    BY DEF Verify, Faulty, Verdicts
  <2>3. o.result \in Verdicts /\ (o.slow = o.last \/ (o.slow = slow /\ o.last = last))
    BY <1>0, <2>0, <2>1, <2>2, SetLeaves, SetIsTaken DEF Outcome
  <2> QED BY <1>0, <2>3 DEF Becomes, Verdicts
<1>3. CASE Release
  <2> PICK o \in RestoreStock(Here) : Becomes(o)
    BY <1>3 DEF Release
  <2>1. /\ o.result \in Restores
        /\ o.slow \in {Stock, slow}
        /\ o.result = "stock" => o.slow # last
        /\ o.result = "unchecked" => last = 0
        /\ o.result = "error" => o.last = last
        /\ o.result # "blind"
    BY <1>0, RestoreLeaves
  <2>2. last = 0 => slow = Stock
    BY CapsAssumption DEF Inv, CpuTypeOK
  <2>3. o.result \in {"stock", "unchecked"} => o.slow = Stock
    BY <2>1, <2>2
  <2> QED BY <1>0, <2>1, <2>3 DEF Becomes, Restores
<1>4. CASE FirmwareReset
  BY <1>0, <1>4 DEF FirmwareReset
<1>5. CASE UNCHANGED cpuVars
  BY <1>0, <1>5 DEF cpuVars
<1> QED BY <1>1, <1>2, <1>3, <1>4, <1>5 DEF CpuNext

\* On hardware that takes the writes it accepts and can be read, a restore that reports
\* success has left no cap behind, however many toggles the firmware ignored.
THEOREM RestoreCorrect ==
  ASSUME {"ignoredWrite", "blindRead"} \cap Faults = {}
  PROVE  CpuSpec => []RestoreLeavesNoCap
<1>1. CpuInit => HonestInv
  BY InitInv DEF HonestInv, CpuInit, CapIsLast, RestoreLeavesNoCap
<1>2. HonestInv /\ [CpuNext]_cpuVars => HonestInv'
  BY StepHonest
<1>3. HonestInv => RestoreLeavesNoCap
  BY DEF HonestInv
<1> QED BY <1>1, <1>2, <1>3, PTL DEF CpuSpec
=============================================================================
