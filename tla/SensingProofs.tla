---------------------------- MODULE SensingProofs ----------------------------
(***************************************************************************)
(* What Auto believes and what it aims for.                                *)
(*                                                                         *)
(* A view of fw-fanctrl goes stale only behind a failed poll or a round    *)
(* trip that outlasted its timeouts, and the replica's verdicts are        *)
(* verdicts on distinct views, for all periods, longest round trips and    *)
(* numbers of strikes that let a poll within its timeouts catch up.        *)
(*                                                                         *)
(* The shared target, for every set of curves, every ceiling and every     *)
(* length of the gate, the debounce, the stuck window and the recovery:    *)
(* the counters stay in range, the curve is earned and the target does not *)
(* jump unannounced.  The one fact there that is not of a single step is   *)
(* that the gate counts evidence (GateIsEvidence).                         *)
(***************************************************************************)
EXTENDS Reconciliation, TargetSource, TLAPS

-----------------------------------------------------------------------------
(* The constants of the poller and the replica.                            *)

\* The constants as numbers.
LEMMA Numbers ==
  /\ SpeedPeriod \in Nat /\ SpeedPeriod >= 1 /\ AllPeriod \in Nat /\ AllPeriod >= 1
  /\ SpeedStale \in Nat /\ SpeedStale >= 1 /\ AllStale \in Nat /\ AllStale >= 1
  /\ SkipGap \in Nat /\ Strikes \in Nat /\ Strikes >= 1
  /\ Prompt \in Nat /\ Prompt >= 1 /\ PollMax \in Nat /\ Prompt <= PollMax /\ Behind \in Nat
  /\ Widths \subseteq Nat /\ \A w \in Widths : w >= 1
  BY ReconciliationAssumption

\* The widest of the windows.
LEMMA WidestIs == WidestOf \in Widths /\ \A w \in Widths : w <= WidestOf
  BY ReconciliationAssumption DEF WidestOf
-----------------------------------------------------------------------------
(* The pace of the poller.                                                 *)

\* Prompt times a sum.
LEMMA Times ==
  /\ \A a, b \in Int : Prompt * (a + b) = Prompt * a + Prompt * b
  /\ \A a, b \in Int : Prompt * (a - b) = Prompt * a - Prompt * b
  /\ \A a \in Int : Prompt * a \in Int
  /\ \A a, b \in Int : a <= b => Prompt * a <= Prompt * b
  BY Numbers

\* The room the periods leave.
LEMMA Room ==
  /\ Prompt * SpeedPeriod >= Prompt * Prompt + Prompt
  /\ AllPeriod >= Prompt * Prompt + Prompt /\ AllPeriod >= 2 * Prompt
  /\ SpeedPeriod >= Prompt + 1 /\ Prompt * Prompt \in Nat
<1>1. SpeedPeriod >= Prompt + 1
  BY Numbers, PaceAssumption
<1>2. Prompt * SpeedPeriod >= Prompt * (Prompt + 1)
  BY <1>1, Times, Numbers
<1>3. Prompt * (Prompt + 1) = Prompt * Prompt + Prompt
  BY Times, Numbers
<1>4. Prompt * Prompt \in Nat /\ Prompt * Prompt >= Prompt
  BY Numbers
<1>5. AllPeriod >= Prompt * (Prompt + 1)
  BY PaceAssumption
<1> QED BY <1>1, <1>2, <1>3, <1>4, <1>5, Numbers

CaughtUp(s, a) == Prompt * s + a >= 0

\* A tick that starts with the long answer due starts with the speed not overdue.
LEMMA NotOverdue ==
  ASSUME NEW s \in Int, NEW a \in Int, CaughtUp(s, a), a <= 0
  PROVE  s >= 0
<1> SUFFICES ASSUME s <= -1 PROVE FALSE
  OBVIOUS
<1>1. Prompt * s <= Prompt * (-1)
  BY Times
<1>2. Prompt * (-1) = -Prompt
  BY Numbers
<1> QED BY <1>1, <1>2, Times, Numbers DEF CaughtUp

\* The speed alone was asked.
LEMMA AfterSpeed ==
  ASSUME NEW s \in Int, NEW a \in Int, NEW k \in 0..Prompt, CaughtUp(s + k, a + k)
  PROVE  CaughtUp(s + SpeedPeriod, a)
<1>1. Prompt * (s + k) = Prompt * s + Prompt * k /\ Prompt * (s + SpeedPeriod) = Prompt * s + Prompt * SpeedPeriod
  BY Times, Numbers
<1>2. Prompt * k <= Prompt * Prompt
  BY Times, Numbers
<1>3. Prompt * s \in Int /\ Prompt * k \in Int /\ Prompt * SpeedPeriod \in Int
  BY Times, Numbers
<1> QED BY <1>1, <1>2, <1>3, Room, Numbers DEF CaughtUp

\* The long answer alone was asked.
LEMMA AfterAll ==
  ASSUME NEW s \in Int, NEW a \in Int, NEW k \in 0..Prompt, CaughtUp(s + k, a + k)
  PROVE  CaughtUp(s, a + AllPeriod)
<1>1. Prompt * (s + k) = Prompt * s + Prompt * k
  BY Times, Numbers
<1>2. Prompt * k <= Prompt * Prompt
  BY Times, Numbers
<1>3. Prompt * s \in Int /\ Prompt * k \in Int
  BY Times, Numbers
<1> QED BY <1>1, <1>2, <1>3, Room, Numbers DEF CaughtUp

\* Both were asked.
LEMMA AfterBoth ==
  ASSUME NEW k \in 0..(2 * Prompt)
  PROVE  CaughtUp(SpeedPeriod - k, AllPeriod - k)
<1>1. Prompt * (SpeedPeriod - k) = Prompt * SpeedPeriod - Prompt * k
  BY Times, Numbers
<1>2. Prompt * k <= Prompt * (Prompt + Prompt)
  BY Times, Numbers
<1>3. Prompt * (Prompt + Prompt) = Prompt * Prompt + Prompt * Prompt
  BY Times, Numbers
<1>4. Prompt * SpeedPeriod \in Int /\ Prompt * k \in Int
  BY Times, Numbers
<1> QED BY <1>1, <1>2, <1>3, <1>4, Room, Numbers DEF CaughtUp

\* Neither is due.
LEMMA NoneDue ==
  ASSUME NEW s \in Nat, NEW a \in Nat
  PROVE  CaughtUp(s, a)
  BY Times, Numbers DEF CaughtUp
-----------------------------------------------------------------------------
(* The poller's part of the invariant.                                     *)

\* The type of the poller.
PollerType ==
  poller \in [at : {"idle"} \cup Commands, waited : 0..PollMax, asked : 0..(2 * PollMax),
              all : (-Behind)..AllPeriod, speed : (-Behind)..SpeedPeriod, slow : BOOLEAN]

\* What each field of the poller is.
LEMMA PollerFields ==
  ASSUME PollerType
  PROVE  /\ poller.at \in {"idle", "All", "Speed"} /\ poller.waited \in Int /\ 0 <= poller.waited /\ poller.waited <= PollMax
         /\ poller.asked \in Int /\ 0 <= poller.asked /\ poller.asked <= 2 * PollMax
         /\ poller.all \in Int /\ poller.speed \in Int /\ poller.all >= -Behind /\ poller.speed >= -Behind
         /\ poller.all <= AllPeriod /\ poller.speed <= SpeedPeriod /\ poller.slow \in BOOLEAN
  BY Numbers DEF PollerType, Commands

\* What bounds the due times of a poller.
LEMMA PollerMade ==
  ASSUME NEW at \in {"idle", "All", "Speed"}, NEW waited \in Int, NEW asked \in Int, NEW all \in Int, NEW speed \in Int,
         NEW slow \in BOOLEAN, 0 <= waited, waited <= PollMax, 0 <= asked, asked <= 2 * PollMax,
         all >= -Behind, all <= AllPeriod, speed >= -Behind, speed <= SpeedPeriod,
         poller' = [at |-> at, waited |-> waited, asked |-> asked, all |-> all, speed |-> speed, slow |-> slow]
  PROVE  PollerType'
<1>1. /\ waited \in 0..PollMax /\ asked \in 0..(2 * PollMax)
      /\ all \in (-Behind)..AllPeriod /\ speed \in (-Behind)..SpeedPeriod
  BY Numbers
<1>2. at \in {"idle"} \cup Commands
  BY DEF Commands
<1> QED BY <1>1, <1>2 DEF PollerType

\* The pace bounds how far anything is overdue.
LEMMA PollerBounds ==
  ASSUME PollerType, Ticking, Paced, ~poller.slow
  PROVE  poller.all > -2 * Prompt /\ poller.speed >= -2 * Prompt
  BY PollerFields, Numbers, Room DEF Paced, Ticking

\* Asks.
LEMMA AsksPaced ==
  ASSUME PollerType, Ticking, Paced, Asks
  PROVE  PollerType' /\ Ticking' /\ Paced'
<1>1. /\ poller.at = "idle" /\ poller.asked = 0
      /\ poller.all <= 0 \/ poller.speed <= 0
  BY DEF Ticking, Asks
<1>2. /\ poller'.asked = 0 /\ poller'.waited = 0 /\ poller'.all = poller.all /\ poller'.speed = poller.speed
      /\ poller'.at = (IF poller.all <= 0 THEN "All" ELSE "Speed") /\ poller'.slow = poller.slow
  BY DEF PollerType, Asks
<1>3. PollerType'
  <2>1. poller' = [at |-> IF poller.all <= 0 THEN "All" ELSE "Speed", waited |-> 0, asked |-> 0,
                   all |-> poller.all, speed |-> poller.speed, slow |-> poller.slow]
    BY DEF PollerType, Asks
  <2>2. 0 \in Int /\ 0 <= PollMax /\ 0 <= 2 * PollMax
    BY Numbers
  <2> QED BY <2>1, <2>2, PollerFields, PollerMade
<1>4. Ticking'
  BY <1>1, <1>2, PollerFields, Numbers DEF Ticking
<1>5. Paced'
  <2> SUFFICES ASSUME ~poller.slow PROVE Paced'
    BY <1>2 DEF Paced
  <2>1. /\ Prompt * poller.speed + poller.all >= 0
        /\ poller.all > -Prompt /\ poller.speed > -Prompt
    BY <1>1, PollerFields, Numbers DEF Paced
  <2>2. poller.all <= 0 => poller.speed >= 0
    BY <2>1, NotOverdue, PollerFields DEF CaughtUp
  <2>3. CASE poller.all <= 0
    BY <1>2, <2>1, <2>2, <2>3, PollerFields, Numbers DEF Paced
  <2>4. CASE poller.all > 0
    BY <1>1, <1>2, <2>1, <2>4, PollerFields, Numbers DEF Paced
  <2> QED BY <2>3, <2>4, PollerFields
<1> QED BY <1>3, <1>4, <1>5

\* The rest of a tick.
LEMMA NextDuePaced ==
  ASSUME PollerType, Ticking, Paced, poller.at # "idle", poller' = NextDue
  PROVE  PollerType' /\ Ticking' /\ Paced'
<1> DEFINE speedToo == poller.at = "All" /\ poller.speed + poller.asked <= 0
<1>1. /\ poller'.at = IF speedToo THEN "Speed" ELSE "idle"
      /\ poller'.waited = 0
      /\ poller'.asked = IF speedToo THEN poller.asked ELSE 0
      /\ poller'.all = IF poller.at = "All" THEN poller.all + AllPeriod ELSE poller.all
      /\ poller'.speed = IF poller.at = "Speed" THEN poller.speed + SpeedPeriod ELSE poller.speed
      /\ poller'.slow = poller.slow
  BY DEF NextDue, PollerType
<1>2. /\ poller.at = "All" => poller.asked = poller.waited /\ poller.all + poller.asked <= 0
      /\ poller.at = "Speed" => poller.asked <= PollMax + poller.waited /\ poller.speed + poller.asked <= 0
  BY DEF Ticking
<1>3. PollerType'
  <2> DEFINE at == IF speedToo THEN "Speed" ELSE "idle"
             asked == IF speedToo THEN poller.asked ELSE 0
             all == IF poller.at = "All" THEN poller.all + AllPeriod ELSE poller.all
             speed == IF poller.at = "Speed" THEN poller.speed + SpeedPeriod ELSE poller.speed
  <2>1. poller' = [at |-> at, waited |-> 0, asked |-> asked, all |-> all, speed |-> speed, slow |-> poller.slow]
    BY DEF NextDue, PollerType
  <2>2. at \in {"idle", "All", "Speed"} /\ poller.slow \in BOOLEAN /\ 0 \in Int /\ 0 <= PollMax
    BY PollerFields, Numbers
  <2>3. asked \in Int /\ 0 <= asked /\ asked <= 2 * PollMax
    BY PollerFields, Numbers
  <2>4. all \in Int /\ all >= -Behind /\ all <= AllPeriod
    BY <1>2, PollerFields, Numbers
  <2>5. speed \in Int /\ speed >= -Behind /\ speed <= SpeedPeriod
    BY <1>2, PollerFields, Numbers
  <2> HIDE DEF at, asked, all, speed
  <2> QED BY <2>1, <2>2, <2>3, <2>4, <2>5, PollerMade
<1>4. Ticking'
  <2>1. CASE speedToo
    BY <1>1, <1>2, <2>1, PollerFields, Numbers DEF Ticking
  <2>2. CASE ~speedToo
    BY <1>1, <2>2 DEF Ticking
  <2> QED BY <2>1, <2>2
<1>5. SUFFICES ASSUME ~poller.slow PROVE Paced'
  BY <1>1, <1>3, <1>4 DEF Paced
<1>6. poller.waited <= Prompt
  BY <1>5 DEF Paced
<1>7. CASE speedToo
  <2>1. /\ Prompt * (poller.speed + poller.asked) + (poller.all + poller.asked) >= 0
        /\ poller.speed + poller.asked >= 0 /\ poller.all + poller.asked <= 0
    BY <1>2, <1>5, <1>7, PollerFields, Numbers DEF Paced
  <2>2. poller.speed + poller.asked = 0
    BY <2>1, <1>7, PollerFields
  <2>3. Prompt * 0 = 0
    BY Numbers
  <2>4. poller.all + poller.asked = 0
    BY <2>1, <2>2, <2>3, PollerFields
  <2>5. /\ poller'.waited = 0 /\ poller'.asked = poller.asked /\ poller'.at = "Speed"
        /\ poller'.all = poller.all + AllPeriod /\ poller'.speed = poller.speed
    BY <1>1, <1>7
  <2>6. poller'.all + poller'.asked = AllPeriod /\ poller'.speed + poller'.asked = 0
        /\ poller'.asked <= Prompt + poller'.waited /\ poller'.waited <= Prompt
    BY <1>2, <1>6, <1>7, <2>2, <2>4, <2>5, PollerFields, Numbers
  <2> QED BY <2>5, <2>6 DEF Paced
<1>8. ASSUME ~speedToo
      PROVE  poller'.at = "idle" /\ poller'.asked = 0 /\ poller'.waited = 0 /\ poller'.waited <= Prompt
  BY <1>8, <1>1, Numbers
<1>9. CASE poller.at = "All" /\ ~speedToo
  <2>1. /\ CaughtUp(poller.speed + poller.asked, poller.all + poller.asked)
        /\ poller.all + poller.asked >= -Prompt + 1 /\ poller.speed + poller.asked >= 1
    BY <1>5, <1>9, PollerFields, Numbers DEF Paced, CaughtUp
  <2>2. CaughtUp(poller.speed, poller.all + AllPeriod)
    <3>1. poller.asked \in 0..Prompt /\ poller.speed \in Int /\ poller.all \in Int
      BY <1>2, <1>6, <1>9, PollerFields, Numbers
    <3> QED BY <2>1, <3>1, AfterAll
  <2>3. poller'.all = poller.all + AllPeriod /\ poller'.speed = poller.speed
    BY <1>1, <1>9
  <2>4. poller'.all > -Prompt /\ poller'.speed > -Prompt
    BY <1>2, <1>6, <1>9, <2>1, <2>3, PollerFields, Numbers, Room
  <2>5. poller'.speed + poller'.asked = poller.speed /\ poller'.all + poller'.asked = poller.all + AllPeriod
    BY <1>8, <1>9, <2>3, PollerFields, Numbers
  <2>6. Prompt * (poller'.speed + poller'.asked) + (poller'.all + poller'.asked) >= 0
    BY <2>5, <2>2 DEF CaughtUp
  <2> QED BY <1>8, <1>9, <2>3, <2>4, <2>5, <2>6 DEF Paced
<1>10. CASE poller.at = "Speed"
  <2> DEFINE alone == /\ poller.asked = poller.waited /\ CaughtUp(poller.speed + poller.asked, poller.all + poller.asked)
                      /\ poller.all + poller.asked >= 1 /\ poller.speed + poller.asked >= -Prompt + 1
             after == /\ poller.asked <= Prompt + poller.waited
                      /\ poller.all + poller.asked = AllPeriod /\ poller.speed + poller.asked = 0
  <2>1. alone \/ after
    BY <1>5, <1>10, PollerFields, Numbers DEF Paced, CaughtUp
  <2>2. poller'.all = poller.all /\ poller'.speed = poller.speed + SpeedPeriod
    BY <1>1, <1>10
  <2>3. CaughtUp(poller.speed + SpeedPeriod, poller.all) /\ poller.all > -Prompt /\ poller.speed + SpeedPeriod > -Prompt
    <3>1. CASE alone
      <4>1. CaughtUp(poller.speed + SpeedPeriod, poller.all)
        <5>1. poller.asked \in 0..Prompt /\ poller.speed \in Int /\ poller.all \in Int
          BY <1>6, <3>1, PollerFields, Numbers
        <5> QED BY <3>1, <5>1, AfterSpeed
      <4> QED BY <1>6, <3>1, <4>1, PollerFields, Numbers, Room
    <3>2. CASE after
      <4>1. CaughtUp(SpeedPeriod - poller.asked, AllPeriod - poller.asked)
        <5>1. poller.asked \in 0..(2 * Prompt)
          BY <1>6, <3>2, PollerFields, Numbers
        <5> QED BY <5>1, AfterBoth
      <4>2. SpeedPeriod - poller.asked = poller.speed + SpeedPeriod /\ AllPeriod - poller.asked = poller.all
        BY <3>2, PollerFields, Numbers
      <4>3. CaughtUp(poller.speed + SpeedPeriod, poller.all)
        BY <4>1, <4>2
      <4> QED BY <1>6, <3>2, <4>2, <4>3, PollerFields, Numbers, Room
    <3> QED BY <2>1, <3>1, <3>2
  <2>4. poller'.speed + poller'.asked = poller'.speed /\ poller'.all + poller'.asked = poller'.all
    BY <1>8, <1>10, <2>2, PollerFields, Numbers
  <2>5. poller'.at = "idle" /\ poller'.asked = 0 /\ poller'.waited <= Prompt
    BY <1>8, <1>10
  <2>6. Prompt * poller'.speed + poller'.all >= 0
    BY <2>2, <2>3 DEF CaughtUp
  <2> QED BY <2>2, <2>3, <2>4, <2>5, <2>6 DEF Paced
<1> QED BY <1>7, <1>9, <1>10, PollerFields

\* A second in which a sample is taken.
LEMMA SecondPaced ==
  ASSUME PollerType, Ticking, Paced, TimeMayPass, SecondPasses
  PROVE  PollerType' /\ Ticking' /\ Paced'
<1>1. /\ poller'.at = poller.at
      /\ poller'.all = poller.all - 1 /\ poller'.speed = poller.speed - 1
      /\ poller'.waited = IF poller.at = "idle" THEN 0 ELSE poller.waited + 1
      /\ poller'.asked = IF poller.at = "idle" THEN 0 ELSE poller.asked + 1
      /\ poller'.slow = (poller.at # "idle" /\ (poller.slow \/ poller.waited + 1 > Prompt))
  BY DEF SecondPasses, PollerType
<1>2. poller' = [at |-> poller.at, waited |-> poller'.waited, asked |-> poller'.asked,
                 all |-> poller.all - 1, speed |-> poller.speed - 1, slow |-> poller'.slow]
  BY DEF SecondPasses, PollerType
<1>3. poller.all - 1 \in Int /\ poller.speed - 1 \in Int /\ poller.all - 1 <= AllPeriod /\ poller.speed - 1 <= SpeedPeriod
  BY PollerFields, Numbers
<1>4. CASE poller.at = "idle"
  <2>1. poller.all - 1 \in Nat /\ poller.speed - 1 \in Nat
    BY <1>4, PollerFields DEF TimeMayPass
  <2>2. CaughtUp(poller.speed - 1, poller.all - 1)
    BY <2>1, NoneDue
  <2>3. poller'.at = "idle" /\ poller'.asked = 0 /\ poller'.waited = 0 /\ poller'.slow = FALSE
    BY <1>1, <1>4
  <2>4. poller'.speed + poller'.asked = poller.speed - 1 /\ poller'.all + poller'.asked = poller.all - 1
    BY <1>1, <1>3, <2>3
  <2>5. Paced'
    BY <2>3, <2>1, <2>2, <2>4, Numbers DEF Paced, CaughtUp
  <2>6. PollerType'
    <3>1. /\ 0 \in 0..PollMax /\ 0 \in 0..(2 * PollMax)
          /\ poller.all - 1 \in (-Behind)..AllPeriod /\ poller.speed - 1 \in (-Behind)..SpeedPeriod
      BY <1>3, <2>1, Numbers
    <3>2. poller' = [at |-> "idle", waited |-> 0, asked |-> 0,
                     all |-> poller.all - 1, speed |-> poller.speed - 1, slow |-> FALSE]
      BY <1>2, <1>4, <2>3
    <3> QED BY <3>1, <3>2 DEF PollerType
  <2>7. Ticking'
    BY <2>3 DEF Ticking
  <2> QED BY <2>5, <2>6, <2>7
<1>5. CASE poller.at # "idle"
  <2>1. poller.waited < PollMax /\ poller.all > -Behind /\ poller.speed > -Behind
    BY <1>5 DEF TimeMayPass
  <2>2. /\ poller'.waited = poller.waited + 1 /\ poller'.asked = poller.asked + 1
        /\ poller'.speed + poller'.asked = poller.speed + poller.asked
        /\ poller'.all + poller'.asked = poller.all + poller.asked
    BY <1>1, <1>5, PollerFields
  <2>3. poller.asked <= PollMax + poller.waited
    BY <1>5, PollerFields, Numbers DEF Ticking
  <2>4. PollerType'
    <3>1. /\ poller.waited + 1 \in Int /\ 0 <= poller.waited + 1 /\ poller.waited + 1 <= PollMax
          /\ poller.asked + 1 \in Int /\ 0 <= poller.asked + 1 /\ poller.asked + 1 <= 2 * PollMax
          /\ poller.all - 1 >= -Behind /\ poller.speed - 1 >= -Behind
      BY <2>1, <2>3, PollerFields, Numbers
    <3>2. poller'.slow \in BOOLEAN
      BY <1>1
    <3>3. poller' = [at |-> poller.at, waited |-> poller.waited + 1, asked |-> poller.asked + 1,
                     all |-> poller.all - 1, speed |-> poller.speed - 1, slow |-> poller'.slow]
      BY <1>2, <2>2
    <3> QED BY <3>1, <3>2, <3>3, <1>3, PollerFields, PollerMade
  <2>5. Ticking'
    BY <1>1, <1>5, <2>2, PollerFields, Numbers DEF Ticking
  <2>6. Paced'
    <3>1. ASSUME ~poller'.slow PROVE ~poller.slow /\ poller.waited + 1 <= Prompt
      <4>1. ~poller.slow /\ ~(poller.waited + 1 > Prompt)
        BY <3>1, <1>1, <1>5
      <4> QED BY <4>1, PollerFields, Numbers
    <3> QED BY <1>1, <1>5, <2>2, <3>1, PollerFields, Numbers DEF Paced
  <2> QED BY <2>4, <2>5, <2>6
<1> QED BY <1>4, <1>5
-----------------------------------------------------------------------------
(* The snapshot and its stamps.                                            *)

\* The types of the snapshot and of what the properties remember of the answers.
FeedType == feed \in [view : {NoView} \cup View, seen : BOOLEAN, absent : BOOLEAN,
                      allAge : 0..AllStale, speedAge : 0..SpeedStale]
Remembered == [scored : BOOLEAN, max : BOOLEAN, n : 0..Strikes, reset : BOOLEAN, failed : SUBSET Commands]
ViewsType == views \in Remembered

\* The smaller of two numbers.
LEMMA LowIs ==
  ASSUME NEW a \in Int, NEW b \in Int
  PROVE  Low(a, b) \in Int /\ Low(a, b) <= a /\ Low(a, b) <= b /\ (Low(a, b) = a \/ Low(a, b) = b)
  BY DEF Low

\* What each field of the snapshot is.
LEMMA FeedFields ==
  ASSUME FeedType
  PROVE  /\ feed.view \in {NoView} \cup View /\ feed.seen \in BOOLEAN /\ feed.absent \in BOOLEAN
         /\ feed.allAge \in Int /\ 0 <= feed.allAge /\ feed.allAge <= AllStale
         /\ feed.speedAge \in Int /\ 0 <= feed.speedAge /\ feed.speedAge <= SpeedStale
  BY Numbers DEF FeedType

\* The stamps' ages in a type of their own.
LEMMA AgeFits ==
  ASSUME NEW k \in Nat
  PROVE  Low(k, AllStale) \in 0..AllStale /\ Low(k, SpeedStale) \in 0..SpeedStale
  BY Numbers, LowIs DEF Low

\* An answer keeps the stamps' part of the invariant.
LEMMA AnsweredStamped ==
  ASSUME PollerType, Ticking, FeedType, ViewsType, Stamped, Answered
  PROVE  FeedType' /\ ViewsType' /\ Stamped'
<1>1. /\ poller.asked \in Nat /\ poller.all \in Int /\ poller.speed \in Int
      /\ poller.at = "All" => poller.all + poller.asked <= 0 /\ poller.speed + poller.asked <= SpeedPeriod
      /\ poller.at = "Speed" => poller.speed + poller.asked <= 0
  BY PollerFields, Numbers DEF Ticking
<1>2. /\ poller'.all = IF poller.at = "All" THEN poller.all + AllPeriod ELSE poller.all
      /\ poller'.speed = IF poller.at = "Speed" THEN poller.speed + SpeedPeriod ELSE poller.speed
  BY DEF Answered, NextDue, PollerType
<1>3. ViewsType' /\ views'.failed = views.failed \ {poller.at}
  BY DEF Answered, ViewsType, Remembered
<1>4. Low(poller.asked, AllStale) \in 0..AllStale /\ Low(poller.asked, SpeedStale) \in 0..SpeedStale
      /\ Low(poller.asked, AllStale) \in Int /\ Low(poller.asked, SpeedStale) \in Int
      /\ Low(poller.asked, AllStale) <= poller.asked /\ Low(poller.asked, SpeedStale) <= poller.asked
  <2>1. poller.asked \in Int /\ AllStale \in Int /\ SpeedStale \in Int
    BY <1>1, Numbers
  <2>2. Low(poller.asked, AllStale) \in 0..AllStale /\ Low(poller.asked, SpeedStale) \in 0..SpeedStale
    BY <1>1, AgeFits
  <2> QED BY <2>1, <2>2, LowIs
<1>5. CASE poller.at = "Speed" /\ feed' = ShortAnswer(feed)
  <2>1. /\ feed'.absent = FALSE /\ feed'.view = feed.view /\ feed'.allAge = feed.allAge
        /\ feed'.speedAge = IF feed.view = NoView THEN feed.speedAge ELSE Low(poller.asked, SpeedStale)
    BY <1>5 DEF ShortAnswer, FeedType
  <2>2. FeedType'
    <3>1. feed' = [feed EXCEPT !.absent = FALSE, !.speedAge = IF feed.view = NoView THEN feed.speedAge ELSE Low(poller.asked, SpeedStale)]
      BY <1>5 DEF ShortAnswer, FeedType
    <3> HIDE DEF NoView, View
    <3> QED BY <3>1, <1>4 DEF FeedType
  <2>3. feed'.view # NoView /\ "All" \notin views'.failed => feed'.allAge <= AllPeriod - poller'.all
    BY <2>1, <1>2, <1>3, <1>5 DEF Stamped
  <2>4. feed'.view # NoView => feed'.speedAge <= SpeedPeriod - poller'.speed
    BY <2>1, <1>1, <1>2, <1>4, <1>5, Numbers
  <2> QED BY <2>1, <2>2, <2>3, <2>4, <1>3 DEF Stamped
<1>6. CASE poller.at = "All" /\ \E v \in Said : feed' = LongAnswer(feed, v)
  <2> PICK v \in Said : feed' = LongAnswer(feed, v)
    BY <1>6
  <2>1. /\ feed'.absent = FALSE /\ feed'.view = v
        /\ feed'.allAge = Low(poller.asked, AllStale) /\ feed'.speedAge = Low(poller.asked, SpeedStale)
    BY DEF LongAnswer
  <2>2. FeedType'
    <3>1. v \in View
      BY DEF Said
    <3> HIDE DEF NoView, View
    <3> QED BY <3>1, <1>4 DEF FeedType, LongAnswer
  <2>3. feed'.allAge <= AllPeriod - poller'.all
    BY <2>1, <1>1, <1>2, <1>4, <1>6, Numbers
  <2>4. feed'.speedAge <= SpeedPeriod - poller'.speed
    BY <2>1, <1>1, <1>2, <1>4, <1>6, Numbers
  <2> QED BY <2>1, <2>2, <2>3, <2>4, <1>3 DEF Stamped
<1> QED BY <1>5, <1>6 DEF Answered

\* So does a failure.
LEMMA FailedStamped ==
  ASSUME PollerType, FeedType, ViewsType, Stamped, Failed
  PROVE  FeedType' /\ ViewsType' /\ Stamped'
<1> PICK refused \in {FALSE, world = "rough"} : feed' = [feed EXCEPT !.absent = refused]
  BY DEF Failed
<1>1. FeedType' /\ feed'.view = feed.view /\ feed'.allAge = feed.allAge /\ feed'.speedAge = feed.speedAge
  BY DEF FeedType
<1>2. poller.at \in Commands
  BY DEF Failed, PollerType, Commands
<1>3. ViewsType' /\ views'.failed = views.failed \cup {poller.at}
  BY <1>2 DEF Failed, ViewsType, Remembered
<1>4. /\ poller.at # "All" => poller'.all = poller.all
      /\ poller.at # "Speed" => poller'.speed = poller.speed
  BY DEF Failed, NextDue, PollerType
<1>5. views'.failed # {}
  BY <1>3
<1> QED BY <1>1, <1>3, <1>4, <1>5 DEF Stamped

\* And a second in which a sample is taken, whatever it does beside.
LEMMA SecondStamped ==
  ASSUME PollerType, FeedType, Stamped, SecondPasses, views'.failed = views.failed
  PROVE  FeedType' /\ Stamped' /\ feed'.seen = TRUE
<1>1. /\ feed'.view = feed.view /\ feed'.absent = feed.absent /\ feed'.seen = TRUE
      /\ feed'.allAge = Low(feed.allAge + 1, AllStale) /\ feed'.speedAge = Low(feed.speedAge + 1, SpeedStale)
  BY DEF SecondPasses, FeedType
<1>2. feed.allAge + 1 \in Nat /\ feed.speedAge + 1 \in Nat
  BY FeedFields
<1>3. /\ feed'.allAge \in Int /\ feed'.allAge <= feed.allAge + 1
      /\ feed'.speedAge \in Int /\ feed'.speedAge <= feed.speedAge + 1
  <2>1. feed.allAge + 1 \in Int /\ feed.speedAge + 1 \in Int /\ AllStale \in Int /\ SpeedStale \in Int
    BY <1>2, Numbers
  <2>2. Low(feed.allAge + 1, AllStale) \in Int /\ Low(feed.allAge + 1, AllStale) <= feed.allAge + 1
    BY <2>1, LowIs
  <2>3. Low(feed.speedAge + 1, SpeedStale) \in Int /\ Low(feed.speedAge + 1, SpeedStale) <= feed.speedAge + 1
    BY <2>1, LowIs
  <2> QED BY <1>1, <2>2, <2>3
<1>4. FeedType'
  <2>1. feed' = [feed EXCEPT !.seen = TRUE, !.allAge = Low(feed.allAge + 1, AllStale), !.speedAge = Low(feed.speedAge + 1, SpeedStale)]
    BY DEF SecondPasses, FeedType
  <2>2. Low(feed.allAge + 1, AllStale) \in 0..AllStale /\ Low(feed.speedAge + 1, SpeedStale) \in 0..SpeedStale
    BY <1>2, AgeFits
  <2> HIDE DEF NoView, View
  <2> QED BY <2>1, <2>2 DEF FeedType
<1>5. poller'.all = poller.all - 1 /\ poller'.speed = poller.speed - 1
  BY DEF SecondPasses, PollerType
<1> QED BY <1>1, <1>3, <1>4, <1>5, PollerFields, FeedFields, Numbers DEF Stamped

\* The stamps that have not been missed are fresh.
LEMMA StampsAreFresh ==
  ASSUME PollerType, Ticking, Paced, FeedType, Stamped, feed.view # NoView, views.failed = {}, ~poller.slow
  PROVE  Fresh
<1>1. /\ poller.all \in Int /\ poller.speed \in Int
      /\ poller.all > -2 * Prompt /\ poller.speed >= -2 * Prompt
  BY PollerFields, PollerBounds
<1>2. feed.allAge <= AllPeriod - poller.all /\ feed.speedAge <= SpeedPeriod - poller.speed /\ ~feed.absent
  BY FeedFields DEF Stamped
<1>3. SpeedStale > SpeedPeriod + 2 * Prompt /\ AllStale >= AllPeriod + 2 * Prompt
  BY PaceAssumption
<1> QED BY <1>1, <1>2, <1>3, FeedFields, Numbers DEF Fresh
-----------------------------------------------------------------------------
(* The replica.                                                            *)

SameVerdict(r, s) == r.mismatch = s.mismatch /\ r.differ = s.differ /\ r.agree = s.agree
NoVerdict(r) == ~r.mismatch /\ r.differ = 0 /\ r.agree = 0

\* What each field of a replica is.
LEMMA ReplicaFields ==
  ASSUME NEW r \in Replica
  PROVE  /\ r.width \in Widths /\ r.raw \in 0..WidestOf
         /\ r.seeded \in BOOLEAN /\ r.ready \in BOOLEAN /\ r.ever \in BOOLEAN /\ r.mismatch \in BOOLEAN
         /\ r.differ \in 0..Strikes /\ r.agree \in 0..Strikes /\ r.maFail \in 0..(Strikes - 1)
  BY DEF Replica

\* How long a history can be.
LEMMA RawFits ==
  /\ WidestOf \in Nat /\ 0 \in 0..WidestOf /\ 1 \in 0..WidestOf
  /\ \A w \in Widths : \A n \in Nat : Low(n, w) \in 0..WidestOf
<1>1. WidestOf \in Nat /\ WidestOf >= 1
  BY WidestIs, Numbers
<1>2. ASSUME NEW w \in Widths, NEW n \in Nat PROVE Low(n, w) \in 0..WidestOf
  <2>1. w \in Nat /\ w <= WidestOf
    BY WidestIs, Numbers
  <2> QED BY <1>1, <2>1 DEF Low
<1> QED BY <1>1, <1>2

\* reset_histories, reset and reseed_histories.
LEMMA SeededIs ==
  ASSUME NEW r \in Replica, NEW ma
  PROVE  /\ Seeded(r, ma) \in Replica /\ SameVerdict(Seeded(r, ma), r)
         /\ Reset(r, ma) \in Replica /\ NoVerdict(Reset(r, ma))
         /\ Reseeded(r, ma) \in Replica /\ SameVerdict(Reseeded(r, ma), r)
<1>1. Usable(ma) \in BOOLEAN
  BY DEF Usable
<1>2. Seeded(r, ma) \in Replica /\ SameVerdict(Seeded(r, ma), r)
  BY <1>1, RawFits DEF Seeded, Replica, SameVerdict
<1>3. 0 \in 0..Strikes /\ 0 \in 0..(Strikes - 1)
  BY Numbers
<1>4. ASSUME NEW t \in Replica
      PROVE  LET u == [t EXCEPT !.ever = FALSE, !.mismatch = FALSE, !.differ = 0, !.agree = 0, !.maFail = 0]
             IN  u \in Replica /\ NoVerdict(u)
  BY <1>3 DEF Replica, NoVerdict
<1>5. ASSUME NEW t \in Replica
      PROVE  LET u == [t EXCEPT !.ever = t.ever /\ Usable(ma)] IN u \in Replica /\ SameVerdict(u, t)
  BY <1>1 DEF Replica, SameVerdict
<1>6. Reset(r, ma) \in Replica /\ NoVerdict(Reset(r, ma))
  BY <1>2, <1>4 DEF Reset
<1>7. Reseeded(r, ma) = [Seeded(r, ma) EXCEPT !.ever = Seeded(r, ma).ever /\ Usable(ma)]
  BY <1>2 DEF Reseeded, Replica
<1>8. Reseeded(r, ma) \in Replica /\ SameVerdict(Reseeded(r, ma), r)
  BY <1>2, <1>5, <1>7 DEF SameVerdict
<1> QED BY <1>2, <1>6, <1>8

\* set_interval.
LEMMA ResizedIs ==
  ASSUME NEW r \in Replica, NEW width \in Widths
  PROVE  Resized(r, width) \in Replica /\ SameVerdict(Resized(r, width), r)
<1>1. r.raw \in Nat /\ width \in Nat
  BY ReplicaFields, RawFits, Numbers
<1>2. Low(r.raw, width) \in 0..WidestOf
  BY <1>1, RawFits
<1>3. Resized(r, width) = [r EXCEPT !.width = width, !.raw = Low(r.raw, width), !.seeded = r.seeded \/ r.raw >= width]
  BY DEF Resized, Replica
<1>4. (r.seeded \/ r.raw >= width) \in BOOLEAN
  OBVIOUS
<1> QED BY <1>2, <1>3, <1>4 DEF Replica, SameVerdict

\* tick, to the mean that is compared.
LEMMA AppendedIs ==
  ASSUME NEW r \in Replica, NEW read
  PROVE  Appended(r, read) \in Replica /\ SameVerdict(Appended(r, read), r)
<1> DEFINE raw == IF read THEN Low(r.raw + 1, r.width) ELSE r.raw
<1>1. r.raw + 1 \in Nat /\ r.width \in Widths /\ r.raw \in 0..WidestOf /\ r.seeded \in BOOLEAN
  BY ReplicaFields, RawFits
<1>2. raw \in 0..WidestOf
  BY <1>1, RawFits
<1>3. Appended(r, read) = [r EXCEPT !.ready = r.seeded, !.raw = raw, !.seeded = r.seeded \/ (read /\ raw >= r.width)]
  BY DEF Appended, Replica
<1>4. (r.seeded \/ (read /\ raw >= r.width)) \in BOOLEAN
  OBVIOUS
<1> HIDE DEF raw
<1> QED BY <1>1, <1>2, <1>3, <1>4 DEF Replica, SameVerdict

\* The maxima: one more comparison.  The strikes stay within their bounds; a verdict is turned by as many of them as it takes.
LEMMA ComparedIs ==
  ASSUME NEW r \in Replica, NEW m \in BOOLEAN
  PROVE  LET c == Compared(r, m)
             differ == Low(r.differ + 1, Strikes)
             agree == Low(r.agree + 1, Strikes)
         IN  /\ c \in Replica /\ differ \in 1..Strikes /\ agree \in 1..Strikes
             /\ m => c.differ = 0 /\ c.agree <= agree
             /\ ~m => c.differ = differ /\ c.agree = 0
             /\ c.mismatch /\ ~r.mismatch => ~m /\ differ >= Strikes
             /\ r.mismatch /\ ~c.mismatch => m /\ agree >= Strikes
<1> DEFINE differ == Low(r.differ + 1, Strikes)
           agree == Low(r.agree + 1, Strikes)
           clears == r.mismatch /\ agree >= Strikes
<1>1. /\ r.differ \in 0..Strikes /\ r.agree \in 0..Strikes /\ r.mismatch \in BOOLEAN
      /\ 0 \in 0..Strikes
  BY ReplicaFields, Numbers
<1>2. differ \in 1..Strikes /\ agree \in 1..Strikes
  BY <1>1, Numbers DEF Low
<1>3. differ \in 0..Strikes /\ (IF clears THEN 0 ELSE agree) \in 0..Strikes /\ (IF clears THEN 0 ELSE agree) <= agree
  BY <1>1, <1>2, Numbers
<1>4. CASE m
  <2>1. Compared(r, m) = [r EXCEPT !.differ = 0, !.agree = IF clears THEN 0 ELSE agree, !.mismatch = r.mismatch /\ ~clears]
    BY <1>4 DEF Compared, Replica
  <2>2. clears \in BOOLEAN
    OBVIOUS
  <2>3. clears => agree >= Strikes
    OBVIOUS
  <2> HIDE DEF agree, clears
  <2>4. /\ Compared(r, m) \in Replica
        /\ Compared(r, m).differ = 0 /\ Compared(r, m).agree <= agree
        /\ Compared(r, m).mismatch = (r.mismatch /\ ~clears)
    BY <2>1, <2>2, <1>1, <1>3 DEF Replica
  <2> QED BY <2>3, <2>4, <1>2, <1>4, <1>1 DEF agree
<1>5. CASE ~m
  <2>1. Compared(r, m) = [r EXCEPT !.differ = differ, !.agree = 0, !.mismatch = r.mismatch \/ differ >= Strikes]
    BY <1>5 DEF Compared, Replica
  <2>2. (r.mismatch \/ differ >= Strikes) \in BOOLEAN
    OBVIOUS
  <2> HIDE DEF differ
  <2>3. /\ Compared(r, m) \in Replica
        /\ Compared(r, m).differ = differ /\ Compared(r, m).agree = 0
        /\ Compared(r, m).mismatch = (r.mismatch \/ differ >= Strikes)
    BY <2>1, <2>2, <1>1, <1>3 DEF Replica
  <2> QED BY <2>3, <1>2, <1>5, <1>1 DEF differ
<1> QED BY <1>4, <1>5

\* A comparison that the replica is ready for: the verdict of the maxima, whatever the averages ask for.
LEMMA ScoredIs ==
  ASSUME NEW r \in Replica, NEW view, NEW m \in BOOLEAN
  PROVE  /\ Scored(r, view, m) \in Replica
         /\ ~r.ready => Scored(r, view, m) = r
         /\ r.ready => SameVerdict(Scored(r, view, m), Compared(r, m))
<1> DEFINE seen == [r EXCEPT !.ever = TRUE]
           misses == MaFails(r, view.ma)
           next == [Compared(seen, m) EXCEPT !.maFail = IF misses >= Strikes THEN 0 ELSE misses]
<1>1. seen \in Replica /\ SameVerdict(seen, r)
  BY DEF Replica, SameVerdict
<1>2. Compared(seen, m) \in Replica
  BY <1>1, ComparedIs
<1>3. SameVerdict(Compared(seen, m), Compared(r, m))
  BY <1>1 DEF Compared, SameVerdict, Replica
<1>4. (IF misses >= Strikes THEN 0 ELSE misses) \in 0..(Strikes - 1)
  BY ReplicaFields, Numbers DEF MaFails
<1>5. next \in Replica /\ SameVerdict(next, Compared(r, m))
  <2> HIDE DEF misses
  <2> QED BY <1>2, <1>3, <1>4 DEF Replica, SameVerdict
<1>6. Reseeded(next, view.ma) \in Replica /\ SameVerdict(Reseeded(next, view.ma), Compared(r, m))
  <2> HIDE DEF next
  <2>1. Reseeded(next, view.ma) \in Replica /\ SameVerdict(Reseeded(next, view.ma), next)
    BY <1>5, SeededIs
  <2> QED BY <2>1, <1>5 DEF SameVerdict
<1>7. Scored(r, view, m) = IF ~r.ready THEN r
                           ELSE IF (r.mismatch /\ ~next.mismatch) \/ misses >= Strikes THEN Reseeded(next, view.ma) ELSE next
  BY DEF Scored
<1> HIDE DEF next, misses
<1> QED BY <1>5, <1>6, <1>7
-----------------------------------------------------------------------------
(* The session.                                                            *)

AutoType == auto \in [replica : Replica, initialised : BOOLEAN]

\* What each field of the session and of the memory of the answers is.
LEMMA SessionFields ==
  ASSUME AutoType, ViewsType
  PROVE  /\ auto.replica \in Replica /\ auto.initialised \in BOOLEAN
         /\ views.scored \in BOOLEAN /\ views.max \in BOOLEAN /\ views.n \in 0..Strikes /\ views.reset \in BOOLEAN
         /\ views.failed \in SUBSET Commands
  BY DEF AutoType, ViewsType, Remembered

\* A new session.
LEMMA NewSessionIs == NewSession \in [replica : Replica, initialised : BOOLEAN] /\ NoVerdict(NewSession.replica)
<1>1. WidestOf \in Widths /\ 0 \in 0..WidestOf /\ 0 \in 0..Strikes /\ 0 \in 0..(Strikes - 1)
  BY WidestIs, RawFits, Numbers
<1> QED BY <1>1 DEF NewSession, Replica, NoVerdict

\* What the snapshot says of the window is one of the strategies' windows.
LEMMA WidthOfView ==
  ASSUME FeedType, feed.view # NoView
  PROVE  feed.view.width \in Widths
<1>1. feed.view \in View
  BY FeedFields
<1> QED BY <1>1 DEF View

\* Before the comparison a session keeps its verdict, or starts over on a resume and on its first fresh view.
LEMMA PreparedIs ==
  ASSUME FeedType, AutoType, ViewsType, NEW i, i.resumed \in BOOLEAN
  PROVE  LET p == Prepared(auto, i)
         IN  /\ p \in [replica : Replica, initialised : BOOLEAN]
             /\ p.initialised = (auto.initialised \/ Fresh)
             /\ ~i.resumed /\ (auto.initialised \/ ~Fresh) => SameVerdict(p.replica, auto.replica)
             /\ i.resumed \/ (~auto.initialised /\ Fresh) => NoVerdict(p.replica)
<1> DEFINE resumed == IF i.resumed THEN Reset(auto.replica, SocketMa) ELSE auto.replica
           resized == IF feed.view # NoView /\ (~feed.seen \/ ~auto.initialised)
                      THEN Resized(resumed, feed.view.width) ELSE resumed
           first == ~auto.initialised /\ Fresh
           begun == IF first THEN Reset(resized, SocketMa) ELSE resized
<1>1. /\ resumed \in Replica
      /\ i.resumed => NoVerdict(resumed)
      /\ ~i.resumed => SameVerdict(resumed, auto.replica)
  BY SeededIs, SessionFields DEF SameVerdict
<1>2. resized \in Replica /\ SameVerdict(resized, resumed)
  <2> HIDE DEF resumed
  <2>1. CASE feed.view # NoView
    BY <2>1, <1>1, ResizedIs, WidthOfView DEF SameVerdict
  <2>2. CASE feed.view = NoView
    BY <2>2, <1>1 DEF SameVerdict
  <2> QED BY <2>1, <2>2
<1>3. /\ begun \in Replica
      /\ first => NoVerdict(begun)
      /\ ~first => SameVerdict(begun, resumed)
  <2> HIDE DEF resumed, resized
  <2> QED BY <1>2, SeededIs
<1>4. Appended(begun, i.read) \in Replica /\ SameVerdict(Appended(begun, i.read), begun)
  <2> HIDE DEF begun
  <2> QED BY <1>3, AppendedIs
<1>5. Prepared(auto, i) = [initialised |-> auto.initialised \/ first, replica |-> Appended(begun, i.read)]
  BY DEF Prepared
<1> HIDE DEF resumed, resized, begun
<1>6. first \in BOOLEAN /\ auto.initialised \in BOOLEAN
  BY SessionFields
<1>7. Prepared(auto, i) \in [replica : Replica, initialised : BOOLEAN]
  BY <1>4, <1>5, <1>6
<1>8. Prepared(auto, i).initialised = (auto.initialised \/ Fresh) /\ Prepared(auto, i).replica = Appended(begun, i.read)
  BY <1>5, <1>6
<1>9. ~i.resumed /\ ~first => SameVerdict(Appended(begun, i.read), auto.replica)
  BY <1>1, <1>3, <1>4 DEF SameVerdict
<1>10. i.resumed \/ first => NoVerdict(Appended(begun, i.read))
  BY <1>1, <1>3, <1>4 DEF SameVerdict, NoVerdict
<1> QED BY <1>7, <1>8, <1>9, <1>10, <1>6

\* The verdict a step gives, as VerdictsTakeViews says it.
Verdict ==
  LET before == auto.replica
      after == auto'.replica
  IN /\ after.mismatch /\ ~before.mismatch => views'.n >= Strikes /\ ~views'.max
     /\ before.mismatch /\ ~after.mismatch /\ ~views'.reset => views'.n >= Strikes /\ views'.max

\* What the properties remember of an answer that is compared.
LEMMA WitnessedIs ==
  ASSUME NEW v \in Remembered,
         NEW m \in BOOLEAN
  PROVE  LET w == Witnessed(v, m)
         IN  /\ w \in Remembered
             /\ w.failed = v.failed /\ w.reset = v.reset
             /\ ~v.scored => /\ w.max = m /\ w.n >= 1
                             /\ v.max = m => w.n = Low(v.n + 1, Strikes)
<1>1. Low(v.n + 1, Strikes) \in 1..Strikes /\ 1 \in 0..Strikes
  BY Numbers DEF Low, Remembered
<1>2. CASE v.scored
  BY <1>2 DEF Witnessed, Remembered
<1>3. CASE ~v.scored
  <2> DEFINE n == IF v.max = m THEN Low(v.n + 1, Strikes) ELSE 1
  <2>1. Witnessed(v, m) = [v EXCEPT !.scored = TRUE, !.max = m, !.n = n]
    BY <1>3 DEF Witnessed
  <2>2. n \in 0..Strikes /\ n >= 1 /\ (v.max = m => n = Low(v.n + 1, Strikes))
    BY <1>1, Numbers
  <2> HIDE DEF n
  <2> QED BY <1>3, <2>1, <2>2 DEF Remembered
<1> QED BY <1>2, <1>3

\* What the properties remember when the replica starts over.
LEMMA ForgottenIs ==
  ASSUME ViewsType
  PROVE  /\ Forgotten \in Remembered
         /\ Forgotten.scored = views.scored /\ Forgotten.failed = views.failed /\ Forgotten.max = views.max
         /\ Forgotten.reset = TRUE /\ Forgotten.n = 0
<1>1. 0 \in 0..Strikes
  BY Numbers
<1> QED BY <1>1 DEF Forgotten, ViewsType, Remembered

\* Counting one strike more keeps the order of two counts.
LEMMA LowGrows ==
  ASSUME NEW a \in Int, NEW b \in Int, a <= b
  PROVE  Low(a + 1, Strikes) <= Low(b + 1, Strikes)
  BY Numbers DEF Low

\* A sample of the session.
LEMMA AutoSampleCounts ==
  ASSUME FeedType, AutoType, ViewsType, Counted, AutoSample
  PROVE  AutoType' /\ ViewsType' /\ Counted' /\ Verdict /\ views'.failed = views.failed
<1> PICK i \in Inputs :
      LET ready == Prepared(auto, i)
          seen == IF i.resumed THEN Forgotten ELSE [views EXCEPT !.reset = FALSE]
      IN /\ auto' = IF Fair(i) THEN [ready EXCEPT !.replica = Scored(@, feed.view, Matches(i))] ELSE ready
         /\ views' = IF Fair(i) /\ ready.replica.ready THEN Witnessed(seen, Matches(i)) ELSE seen
  BY DEF AutoSample
<1> DEFINE ready == Prepared(auto, i)
           seen == IF i.resumed THEN Forgotten ELSE [views EXCEPT !.reset = FALSE]
           m == Matches(i)
           r == ready.replica
           compares == Fair(i) /\ r.ready
<1>1. i.resumed \in BOOLEAN /\ i.read \in BOOLEAN
  <2>1. CASE world = "rough"
    BY <2>1 DEF Inputs, RoughInputs
  <2>2. CASE world # "rough"
    <3>1. i = SteadyInput
      BY <2>2 DEF Inputs
    <3> QED BY <3>1 DEF SteadyInput
  <2> QED BY <2>1, <2>2
<1>2. /\ ready \in [replica : Replica, initialised : BOOLEAN]
      /\ ready.initialised = (auto.initialised \/ Fresh)
      /\ ~i.resumed /\ (auto.initialised \/ ~Fresh) => SameVerdict(r, auto.replica)
      /\ i.resumed \/ (~auto.initialised /\ Fresh) => NoVerdict(r)
  BY <1>1, PreparedIs
<1>3. r \in Replica /\ ready.initialised \in BOOLEAN
  BY <1>2
<1>4. /\ seen \in Remembered
      /\ seen.scored = views.scored /\ seen.failed = views.failed /\ seen.max = views.max
      /\ i.resumed => seen.reset
      /\ ~i.resumed => seen.n = views.n
  <2>1. CASE i.resumed
    BY <2>1, ForgottenIs
  <2>2. CASE ~i.resumed
    BY <2>2 DEF ViewsType, Remembered
  <2> QED BY <2>1, <2>2
<1>5. m \in BOOLEAN
  BY DEF Matches
<1>6. feed'.seen = TRUE
  BY DEF AutoSample, SecondPasses, FeedType
<1>7. /\ r.differ > 0 => ~seen.max /\ r.differ <= seen.n
      /\ r.agree > 0 => seen.max /\ r.agree <= seen.n
      /\ r.mismatch => auto.replica.mismatch /\ ~i.resumed
      /\ ~r.mismatch /\ auto.replica.mismatch => i.resumed
  <2>1. CASE i.resumed \/ (~auto.initialised /\ Fresh)
    BY <2>1, <1>2 DEF NoVerdict, Counted
  <2>2. CASE ~i.resumed /\ (auto.initialised \/ ~Fresh)
    BY <2>2, <1>2, <1>4 DEF SameVerdict, Counted
  <2> QED BY <2>1, <2>2
<1>8. ~ready.initialised => ~r.mismatch /\ ~Fair(i)
  BY <1>2, <1>7, SessionFields DEF Counted, Fair
<1>9. auto' = IF Fair(i) THEN [ready EXCEPT !.replica = Scored(r, feed.view, m)] ELSE ready
  BY <1>2
<1>10. views' = IF compares THEN Witnessed(seen, m) ELSE seen
  OBVIOUS
<1> HIDE DEF ready, seen, m, r
<1>11. CASE compares
  <2> DEFINE differ == Low(r.differ + 1, Strikes)
             agree == Low(r.agree + 1, Strikes)
             c == Compared(r, m)
             s == Scored(r, feed.view, m)
  <2>1. /\ c \in Replica /\ differ \in 1..Strikes /\ agree \in 1..Strikes
        /\ m => c.differ = 0 /\ c.agree <= agree
        /\ ~m => c.differ = differ /\ c.agree = 0
        /\ c.mismatch /\ ~r.mismatch => ~m /\ differ >= Strikes
        /\ r.mismatch /\ ~c.mismatch => m /\ agree >= Strikes
    BY <1>3, <1>5, ComparedIs
  <2>2. s \in Replica /\ SameVerdict(s, c)
    BY <1>3, <1>5, <1>11, ScoredIs
  <2>3. auto' \in [replica : Replica, initialised : BOOLEAN] /\ auto'.replica = s /\ auto'.initialised = ready.initialised
    BY <1>2, <1>9, <1>11, <2>2
  <2>4. ~seen.scored
    BY <1>4, <1>11 DEF Fair, Counted
  <2>5. /\ views' \in Remembered
        /\ views'.failed = seen.failed /\ views'.reset = seen.reset
        /\ views'.max = m /\ views'.n >= 1
        /\ seen.max = m => views'.n = Low(seen.n + 1, Strikes)
    <3>1. views' = Witnessed(seen, m)
      BY <1>10, <1>11
    <3>2. seen \in Remembered
      BY <1>4
    <3>3. /\ Witnessed(seen, m) \in Remembered
          /\ Witnessed(seen, m).failed = seen.failed /\ Witnessed(seen, m).reset = seen.reset
          /\ ~seen.scored => /\ Witnessed(seen, m).max = m /\ Witnessed(seen, m).n >= 1
                             /\ seen.max = m => Witnessed(seen, m).n = Low(seen.n + 1, Strikes)
      BY <3>2, <1>5, WitnessedIs
    <3> QED BY <3>1, <3>3, <2>4
  <2>6. r.differ \in Int /\ r.agree \in Int /\ seen.n \in Int /\ r.differ >= 0 /\ r.agree >= 0 /\ seen.max \in BOOLEAN
    <3>1. seen.n \in 0..Strikes /\ seen.max \in BOOLEAN
      BY <1>4 DEF Remembered
    <3> QED BY <3>1, <1>3, ReplicaFields, Numbers
  <2>7. views'.n \in Int /\ views'.n >= 1
    <3>1. views'.n \in 0..Strikes
      BY <2>5 DEF Remembered
    <3> QED BY <3>1, <2>5, Numbers
  <2>7a. (m => views'.max) /\ (~m => ~views'.max)
    BY <2>5, <1>5
  <2>8. ASSUME ~m PROVE differ <= views'.n
    <3>1. CASE r.differ > 0
      BY <3>1, <2>8, <1>7, <2>5, <2>6, LowGrows, <1>5
    <3>2. CASE r.differ = 0
      BY <3>2, <2>7, Numbers DEF Low
    <3> QED BY <3>1, <3>2, <2>6
  <2>9. ASSUME m PROVE agree <= views'.n
    <3>1. CASE r.agree > 0
      BY <3>1, <2>9, <1>7, <2>5, <2>6, LowGrows, <1>5
    <3>2. CASE r.agree = 0
      BY <3>2, <2>7, Numbers DEF Low
    <3> QED BY <3>1, <3>2, <2>6
  <2> HIDE DEF differ, agree, c, s
  <2>10. AutoType' /\ ViewsType' /\ views'.failed = views.failed
    BY <2>3, <2>5, <1>4 DEF AutoType, ViewsType
  <2>11. /\ s.differ = c.differ /\ s.agree = c.agree /\ s.mismatch = c.mismatch
         /\ c.differ \in Int /\ c.agree \in Int /\ differ \in Int /\ agree \in Int
    BY <2>1, <2>2, ReplicaFields, Numbers DEF SameVerdict
  <2>12. Counted'
    <3>1. CASE m
      <4>1. s.differ = 0 /\ s.agree <= views'.n /\ views'.max
        BY <3>1, <2>1, <2>7a, <2>7, <2>9, <2>11
      <4> QED BY <4>1, <2>3, <1>6, <1>8, <1>11 DEF Counted
    <3>2. CASE ~m
      <4>1. s.agree = 0 /\ s.differ <= views'.n /\ ~views'.max
        BY <3>2, <2>1, <2>7a, <2>7, <2>8, <2>11
      <4> QED BY <4>1, <2>3, <1>6, <1>8, <1>11 DEF Counted
    <3> QED BY <3>1, <3>2
  <2>13. Verdict
    <3>1. ASSUME s.mismatch, ~auto.replica.mismatch PROVE views'.n >= Strikes /\ ~views'.max
      <4>1. ~m /\ differ >= Strikes
        BY <3>1, <1>7, <2>1, <2>11
      <4> QED BY <4>1, <2>7a, <2>7, <2>8, <2>11, Numbers
    <3>2. ASSUME ~s.mismatch, auto.replica.mismatch, ~views'.reset PROVE views'.n >= Strikes /\ views'.max
      <4>1. ~i.resumed
        BY <3>2, <2>5, <1>4
      <4>2. m /\ agree >= Strikes
        BY <3>2, <4>1, <1>7, <2>1, <2>11
      <4> QED BY <4>2, <2>7a, <2>7, <2>9, <2>11, Numbers
    <3> QED BY <3>1, <3>2, <2>3 DEF Verdict
  <2> QED BY <2>10, <2>12, <2>13
<1>12. CASE ~compares
  <2>1. auto' \in [replica : Replica, initialised : BOOLEAN] /\ auto'.replica = r /\ auto'.initialised = ready.initialised
    <3>1. CASE Fair(i)
      <4>1. Scored(r, feed.view, m) = r
        BY <3>1, <1>12, <1>3, <1>5, ScoredIs
      <4> QED BY <3>1, <4>1, <1>2, <1>3, <1>9
    <3>2. CASE ~Fair(i)
      BY <3>2, <1>9, <1>2 DEF r
    <3> QED BY <3>1, <3>2
  <2>2. views' = seen
    BY <1>10, <1>12
  <2> QED BY <2>1, <2>2, <1>4, <1>6, <1>7, <1>8 DEF AutoType, ViewsType, Counted, Verdict
<1> QED BY <1>11, <1>12

\* A step that starts the replica over.
LEMMA StartedOver ==
  ASSUME AutoType, ViewsType, Counted, FeedType,
         auto' \in [replica : Replica, initialised : BOOLEAN], NoVerdict(auto'.replica),
         views' = Forgotten, feed'.seen = TRUE \/ feed'.seen = feed.seen
  PROVE  AutoType' /\ ViewsType' /\ Counted' /\ Verdict /\ views'.failed = views.failed
<1>1. ViewsType' /\ views'.failed = views.failed /\ views'.scored = views.scored /\ views'.reset
  BY ForgottenIs DEF ViewsType
<1> QED BY <1>1 DEF AutoType, NoVerdict, Counted, Verdict

\* ReleasedSample, HeldSample and Engages.
LEMMA OthersCount ==
  ASSUME AutoType, ViewsType, Counted, FeedType, ReleasedSample \/ HeldSample \/ Engages
  PROVE  AutoType' /\ ViewsType' /\ Counted' /\ Verdict /\ views'.failed = views.failed
<1>1. feed'.seen = TRUE \/ feed'.seen = feed.seen
  BY DEF ReleasedSample, HeldSample, Engages, SecondPasses, FeedType
<1>2. views' = Forgotten
  BY DEF ReleasedSample, HeldSample, Engages
<1>3. auto' \in [replica : Replica, initialised : BOOLEAN] /\ NoVerdict(auto'.replica)
  <2>1. CASE ReleasedSample
    <3> DEFINE i == [resumed |-> FALSE, read |-> TRUE]
    <3>1. i.resumed \in BOOLEAN
      OBVIOUS
    <3>2. Prepared(auto, i) \in [replica : Replica, initialised : BOOLEAN]
      <4> HIDE DEF i
      <4> QED BY <3>1, PreparedIs
    <3>3. Prepared(auto, i).replica \in Replica
      BY <3>2
    <3>4. auto' = [initialised |-> FALSE, replica |-> Reset(Prepared(auto, i).replica, None)]
      BY <2>1 DEF ReleasedSample
    <3> HIDE DEF i
    <3> QED BY <3>3, <3>4, SeededIs
  <2>2. CASE HeldSample
    <3>1. Fresh => feed.view # NoView
      BY DEF Fresh
    <3>2. Fresh => Resized(auto.replica, feed.view.width) \in Replica
      BY <3>1, WidthOfView, ResizedIs, SessionFields
    <3>3. auto.replica \in Replica /\ Fresh \in BOOLEAN
      BY SessionFields, FeedFields DEF Fresh
    <3>4. auto' = [initialised |-> Fresh,
                   replica |-> IF Fresh THEN Reset(Resized(auto.replica, feed.view.width), SocketMa)
                               ELSE Reset(auto.replica, None)]
      BY <2>2 DEF HeldSample
    <3> QED BY <3>2, <3>3, <3>4, SeededIs
  <2>3. CASE Engages
    BY <2>3, NewSessionIs DEF Engages
  <2> QED BY <2>1, <2>2, <2>3
<1> QED BY <1>1, <1>2, <1>3, StartedOver

\* The poller's steps keep the verdicts.
LEMMA AnswersCount ==
  ASSUME FeedType, ViewsType, Counted, Asks \/ Answered \/ Failed \/ OtherSample \/ WorldTurns
  PROVE  Counted' /\ Verdict
<1>1. auto' = auto
  BY DEF Asks, Answered, Failed, OtherSample, WorldTurns
<1>2. views'.max = views.max /\ views'.n = views.n
  BY DEF Asks, Answered, Failed, OtherSample, WorldTurns, ViewsType, Remembered
<1>3. ~feed'.seen => ~views'.scored
  <2>1. CASE Answered
    <3>1. CASE poller.at = "Speed" /\ feed' = ShortAnswer(feed)
      <4>1. feed'.seen = feed.seen
        BY <3>1 DEF ShortAnswer, FeedType
      <4>2. views'.scored = (views.scored /\ poller.at # "All")
        BY <2>1 DEF Answered, ViewsType, Remembered
      <4> QED BY <4>1, <4>2 DEF Counted
    <3>2. CASE poller.at = "All"
      BY <2>1, <3>2 DEF Answered, ViewsType, Remembered
    <3> QED BY <2>1, <3>1, <3>2 DEF Answered
  <2>2. CASE Failed
    <3>1. feed'.seen = feed.seen
      BY <2>2 DEF Failed, FeedType
    <3>2. views'.scored = views.scored
      BY <2>2 DEF Failed, ViewsType, Remembered
    <3> QED BY <3>1, <3>2 DEF Counted
  <2>3. CASE OtherSample
    <3>1. feed'.seen = TRUE
      BY <2>3 DEF OtherSample, SecondPasses, FeedType
    <3> QED BY <3>1
  <2>4. CASE Asks \/ WorldTurns
    BY <2>4 DEF Asks, WorldTurns, Counted
  <2> QED BY <2>1, <2>2, <2>3, <2>4
<1> QED BY <1>1, <1>2, <1>3 DEF Counted, Verdict
-----------------------------------------------------------------------------
(* The invariant.                                                          *)

\* TypeOK, taken apart and put together.
LEMMA TypeParts ==
  /\ TypeOK => world \in Worlds /\ PollerType /\ FeedType /\ AutoType /\ ViewsType
  /\ world \in Worlds /\ PollerType /\ FeedType /\ AutoType /\ ViewsType => TypeOK
  BY DEF TypeOK, PollerType, FeedType, AutoType, ViewsType, Remembered

WorldType == world \in Worlds

\* The invariant from its parts.
LEMMA Assembled ==
  WorldType /\ PollerType /\ Ticking /\ Paced /\ FeedType /\ AutoType /\ ViewsType /\ Stamped /\ Counted => IInv
  BY TypeParts, StampsAreFresh DEF IInv, StaleMeansFailure, WorldType

\* And from its parts after a step.
LEMMA AssembledNext ==
  WorldType' /\ PollerType' /\ Ticking' /\ Paced' /\ FeedType' /\ AutoType' /\ ViewsType' /\ Stamped' /\ Counted' => IInv'
  BY Assembled, PTL

\* The initial states.
LEMMA InitIInv == Init => IInv
<1> SUFFICES ASSUME Init PROVE IInv
  OBVIOUS
<1>1. PollerType /\ Ticking /\ Paced
  <2>1. 0 \in 0..PollMax /\ 0 \in 0..(2 * PollMax) /\ 0 \in (-Behind)..AllPeriod /\ 0 \in (-Behind)..SpeedPeriod
    BY Numbers
  <2>2. CaughtUp(0, 0)
    BY NoneDue
  <2>3. PollerType
    BY <2>1 DEF Init, PollerType
  <2>4. Ticking
    BY DEF Init, Ticking
  <2>5. Prompt * (0 + 0) + (0 + 0) >= 0
    BY <2>2 DEF CaughtUp
  <2> QED BY <2>3, <2>4, <2>5, Numbers DEF Init, Paced
<1>2. FeedType /\ ViewsType /\ Stamped
  <2>1. AllStale \in 0..AllStale /\ SpeedStale \in 0..SpeedStale /\ 0 \in 0..Strikes
    BY Numbers
  <2> QED BY <2>1 DEF Init, FeedType, ViewsType, Remembered, Stamped, Commands
<1>3. AutoType /\ Counted
  BY NewSessionIs DEF Init, AutoType, Counted, NoVerdict
<1>4. world \in Worlds
  BY DEF Init, Worlds
<1> QED BY <1>1, <1>2, <1>3, <1>4, Assembled DEF WorldType

\* Every step keeps the invariant, and its verdict on the replica is earned.
LEMMA Inductive == IInv /\ [Next]_vars => IInv' /\ (vars' # vars => Verdict)
<1> SUFFICES ASSUME IInv, [Next]_vars PROVE IInv' /\ (vars' # vars => Verdict)
  OBVIOUS
<1>1. world \in Worlds /\ PollerType /\ Ticking /\ Paced /\ FeedType /\ AutoType /\ ViewsType /\ Stamped /\ Counted
  BY TypeParts DEF IInv, StaleMeansFailure
<1>2. ASSUME world' \in Worlds, PollerType', Ticking', Paced', FeedType', AutoType', ViewsType', Stamped', Counted'
      PROVE  IInv'
  BY <1>2, AssembledNext DEF WorldType
<1>3. CASE Asks
  <2>1. PollerType' /\ Ticking' /\ Paced'
    BY <1>1, <1>3, AsksPaced
  <2>2. /\ world' = world /\ feed' = feed /\ auto' = auto /\ views' = views
        /\ poller'.all = poller.all /\ poller'.speed = poller.speed
    BY <1>1, <1>3 DEF Asks, PollerType
  <2>3. FeedType' /\ AutoType' /\ ViewsType' /\ Stamped'
    BY <1>1, <2>2 DEF FeedType, AutoType, ViewsType, Stamped
  <2> QED BY <1>1, <1>2, <1>3, <2>1, <2>2, <2>3, AnswersCount
<1>4. CASE Answered
  <2>1. poller.at # "idle" /\ poller' = NextDue /\ world' = world /\ auto' = auto
    BY <1>4 DEF Answered
  <2>2. PollerType' /\ Ticking' /\ Paced'
    BY <1>1, <2>1, NextDuePaced
  <2>3. FeedType' /\ ViewsType' /\ Stamped'
    BY <1>1, <1>4, AnsweredStamped
  <2>4. AutoType'
    BY <1>1, <2>1 DEF AutoType
  <2> QED BY <1>1, <1>2, <1>4, <2>1, <2>2, <2>3, <2>4, AnswersCount
<1>5. CASE Failed
  <2>1. poller.at # "idle" /\ poller' = NextDue /\ world' = world /\ auto' = auto
    BY <1>5 DEF Failed
  <2>2. PollerType' /\ Ticking' /\ Paced'
    BY <1>1, <2>1, NextDuePaced
  <2>3. FeedType' /\ ViewsType' /\ Stamped'
    BY <1>1, <1>5, FailedStamped
  <2>4. AutoType'
    BY <1>1, <2>1 DEF AutoType
  <2> QED BY <1>1, <1>2, <1>5, <2>1, <2>2, <2>3, <2>4, AnswersCount
<1>6. CASE AutoSample
  <2>1. TimeMayPass /\ SecondPasses /\ world' = world
    BY <1>6 DEF AutoSample
  <2>2. PollerType' /\ Ticking' /\ Paced'
    BY <1>1, <2>1, SecondPaced
  <2>3. AutoType' /\ ViewsType' /\ Counted' /\ Verdict /\ views'.failed = views.failed
    BY <1>1, <1>6, AutoSampleCounts
  <2>4. FeedType' /\ Stamped'
    BY <1>1, <2>1, <2>3, SecondStamped
  <2> QED BY <1>1, <1>2, <2>1, <2>2, <2>3, <2>4
<1>7. CASE ReleasedSample \/ HeldSample
  <2>1. TimeMayPass /\ SecondPasses /\ world' = world
    BY <1>7 DEF ReleasedSample, HeldSample
  <2>2. PollerType' /\ Ticking' /\ Paced'
    BY <1>1, <2>1, SecondPaced
  <2>3. AutoType' /\ ViewsType' /\ Counted' /\ Verdict /\ views'.failed = views.failed
    BY <1>1, <1>7, OthersCount
  <2>4. FeedType' /\ Stamped'
    BY <1>1, <2>1, <2>3, SecondStamped
  <2> QED BY <1>1, <1>2, <2>1, <2>2, <2>3, <2>4
<1>8. CASE OtherSample
  <2>1. TimeMayPass /\ SecondPasses /\ world' = world /\ auto' = auto /\ views' = views
    BY <1>8 DEF OtherSample
  <2>2. PollerType' /\ Ticking' /\ Paced'
    BY <1>1, <2>1, SecondPaced
  <2>3. FeedType' /\ Stamped'
    BY <1>1, <2>1, SecondStamped
  <2>4. AutoType' /\ ViewsType'
    BY <1>1, <2>1 DEF AutoType, ViewsType
  <2> QED BY <1>1, <1>2, <1>8, <2>1, <2>2, <2>3, <2>4, AnswersCount
<1>9. CASE Engages
  <2>1. world' = world /\ poller' = poller /\ feed' = feed
    BY <1>9 DEF Engages
  <2>2. AutoType' /\ ViewsType' /\ Counted' /\ Verdict /\ views'.failed = views.failed
    BY <1>1, <1>9, OthersCount
  <2>3. PollerType' /\ Ticking' /\ Paced' /\ FeedType' /\ Stamped'
    BY <1>1, <2>1, <2>2 DEF PollerType, Ticking, Paced, FeedType, Stamped
  <2> QED BY <1>1, <1>2, <2>1, <2>2, <2>3
<1>10. CASE WorldTurns
  <2>1. poller' = poller /\ feed' = feed /\ auto' = auto /\ views' = views /\ world' \in Worlds
    BY <1>10 DEF WorldTurns
  <2>2. PollerType' /\ Ticking' /\ Paced' /\ FeedType' /\ AutoType' /\ ViewsType' /\ Stamped'
    BY <1>1, <2>1 DEF PollerType, Ticking, Paced, FeedType, AutoType, ViewsType, Stamped
  <2> QED BY <1>1, <1>2, <1>10, <2>1, <2>2, AnswersCount
<1>11. CASE UNCHANGED vars
  <2>1. UNCHANGED <<world, poller, feed, auto, views>>
    BY <1>11 DEF vars
  <2>2. world' \in Worlds /\ PollerType' /\ Ticking' /\ Paced' /\ FeedType' /\ AutoType' /\ ViewsType' /\ Stamped' /\ Counted'
    BY <1>1, <2>1 DEF PollerType, Ticking, Paced, FeedType, AutoType, ViewsType, Stamped, Counted
  <2> QED BY <1>2, <1>11, <2>2
<1> QED BY <1>3, <1>4, <1>5, <1>6, <1>7, <1>8, <1>9, <1>10, <1>11 DEF Next

\* The inductive invariant holds in every reachable state, for all periods, timeouts and strikes.
THEOREM AlwaysIInv == Spec => []IInv
<1>1. IInv /\ [Next]_vars => IInv'
  BY Inductive
<1> QED BY <1>1, InitIInv, PTL DEF Spec
-----------------------------------------------------------------------------
(* The properties.                                                         *)

\* A view goes stale only behind a failed poll, or before the poller has caught up with a round trip that outlasted its
\* timeouts: a socket that is slow within them is never taken for a lost one.
THEOREM StaleCorrect == Spec => []StaleMeansFailure
<1>1. IInv => StaleMeansFailure
  BY DEF IInv
<1> QED BY <1>1, AlwaysIInv, PTL

\* A mismatch is latched and cleared only by as many distinct views in a row as there are strikes.
THEOREM VerdictsCorrect == Spec => VerdictsTakeViews
<1>1. IInv /\ [Next]_vars =>
        [LET before == auto.replica
             after == auto'.replica
         IN /\ after.mismatch /\ ~before.mismatch => views'.n >= Strikes /\ ~views'.max
            /\ before.mismatch /\ ~after.mismatch /\ ~views'.reset => views'.n >= Strikes /\ views'.max]_vars
  BY Inductive DEF Verdict
<1> QED BY <1>1, AlwaysIInv, PTL DEF Spec, VerdictsTakeViews
-----------------------------------------------------------------------------
(* The shared target: a specification of its own, with its own variables.  *)

-----------------------------------------------------------------------------
(* The counters.                                                           *)

\* The bounds as the provers need them.
LEMMA Bounds ==
  /\ GateT \in Nat /\ GateT > 0 /\ DebounceN \in Nat /\ DebounceN > 0
  /\ StuckT \in Nat /\ StuckT > 0 /\ RecoverN \in Nat /\ RecoverN > 0
  /\ HeldStep \in Nat /\ HeldStep > 0 /\ Top \in Nat /\ Top > 0
  /\ EvidenceN \in Nat /\ EvidenceN >= GateT
  /\ NoNumber = -1
  BY TargetAssumption DEF EvidenceN, NoNumber

\* The smaller of two counts.
LEMMA LowOK ==
  ASSUME NEW a \in Nat, NEW b \in Nat
  PROVE  Lower(a, b) \in 0..b /\ Lower(a, b) <= a /\ (a <= b => Lower(a, b) = a) /\ (b <= a => Lower(a, b) = b)
  BY DEF Lower

\* An empty run, and one that a sample lengthens, is a run.
LEMMA RunOK ==
  ASSUME NEW bound \in Nat, bound > 0
  PROVE  /\ NoRun \in Run(bound)
         /\ \A run \in Run(bound), label \in Labels :
              /\ Longer(run, label, bound) \in Run(bound)
              /\ Longer(run, label, bound).label = label
              /\ Longer(run, label, bound).n =
                   IF run.label = label THEN Lower(run.n + 1, bound) ELSE 1
<1>1. NoRun \in Run(bound)
  BY DEF NoRun, Run, Labels
<1>2. ASSUME NEW run \in Run(bound), NEW label \in Labels
      PROVE  /\ Longer(run, label, bound) \in Run(bound)
             /\ Longer(run, label, bound).label = label
             /\ Longer(run, label, bound).n = IF run.label = label THEN Lower(run.n + 1, bound) ELSE 1
  <2>1. Lower(run.n + 1, bound) \in 0..bound /\ 1 \in 0..bound
    BY LowOK DEF Run
  <2>2. CASE run.label = label
    BY <2>1, <2>2 DEF Longer, Run
  <2>3. CASE run.label # label
    BY <2>1, <2>3 DEF Longer, Run
  <2> QED BY <2>2, <2>3
<1> QED BY <1>1, <1>2

\* The streak of a label in quarantine stays short of the recovery, or ends with it.
LEMMA RecoveringOK == ASSUME SourceTypeOK, NEW i PROVE Recovering(i) \in Quarantine
<1>1. src.quarantine \in {NoNumber} \cup 0..(RecoverN - 1) /\ 0 \in 0..(RecoverN - 1)
  BY Bounds DEF SourceTypeOK, Sources, Quarantine
<1>2. src.quarantine # NoNumber /\ src.quarantine + 1 < RecoverN => src.quarantine + 1 \in 0..(RecoverN - 1)
  BY <1>1, Bounds
<1> QED BY <1>1, <1>2, Bounds DEF Recovering, Quarantine

\* The window of a sensor that leads without moving.
LEMMA StuckOK ==
  ASSUME NEW s \in Sources, NEW i, NEW debounced
  PROVE  Stuck(s, i, debounced) \in {NoNumber} \cup 0..StuckT
<1>1. s.stuck \in {NoNumber} \cup 0..StuckT
  BY DEF Sources
<1>2. s.stuck # NoNumber => Lower(s.stuck + 1, StuckT) \in 0..StuckT
  BY <1>1, Bounds, LowOK
<1> QED BY <1>1, <1>2, Bounds DEF Stuck

\* What a sample carries.
LEMMA InputOK ==
  ASSUME NEW i \in TickInputs
  PROVE  /\ i.off \in BOOLEAN /\ i.gap \in BOOLEAN /\ i.fresh \in BOOLEAN /\ i.trusted \in BOOLEAN
         /\ i.key \in {Nothing} \cup Keys /\ i.argmax \in Labels
         /\ i.off => i.key = Nothing
  BY DEF TickInputs

\* The debounce and the gate stay runs.
LEMMA ArgmaxOK == ASSUME NEW s \in Sources, NEW i \in TickInputs PROVE Argmax(s, i) \in Run(DebounceN)
<1>1. s.argmax \in Run(DebounceN)
  BY DEF Sources
<1> QED BY <1>1, Bounds, RunOK, InputOK DEF Argmax

\* The entry gate counts within its bound.
LEMMA GateOK ==
  ASSUME NEW s \in Sources, NEW label \in Labels, NEW eligible
  PROVE  Gate(s, label, eligible) \in Run(GateT)
<1>1. s.gate \in Run(GateT)
  BY DEF Sources
<1> QED BY <1>1, Bounds, RunOK DEF Gate
-----------------------------------------------------------------------------
(* The routing of a tick.                                                  *)

\* Routing changes the state, and the target with it only into Curve, which takes a source out of
\* quarantine that is in Curve or has a full gate.
LEMMA RoutedOK ==
  ASSUME NEW s \in Sources, NEW i \in TickInputs, NEW key0, NEW stays \in BOOLEAN, NEW debounced \in BOOLEAN
  PROVE  LET r == Routed(s, i, key0, stays, debounced)
         IN  /\ r.src \in Sources /\ r.restored \in BOOLEAN
             /\ r.src.gate = s.gate /\ r.src.quarantine = s.quarantine
             /\ r.src.state \in {"Held", "Curve"}
             /\ r.src.state # "Curve" => r.src.target = s.target
             /\ r.src.state = "Curve" =>
                  ~stays /\ s.quarantine = NoNumber /\ (s.state # "Curve" => s.gate.n >= GateT)
<1> DEFINE curve == [s EXCEPT !.state = "Curve", !.target = TreadOf[i.key]]
           held == [s EXCEPT !.state = "Held"]
           restores == TreadOf[i.key] > s.target /\ s.key # key0
           usable == i.fresh /\ i.trusted /\ i.key # Nothing
           controllable == usable /\ i.argmax \in Controllable
           r == Routed(s, i, key0, stays, debounced)
<1>1. held \in Sources /\ held.gate = s.gate /\ held.quarantine = s.quarantine /\ held.state = "Held" /\ held.target = s.target
  BY DEF Sources
<1>2. controllable => /\ curve \in Sources /\ curve.gate = s.gate /\ curve.quarantine = s.quarantine /\ curve.state = "Curve"
  <2>1. controllable => TreadOf[i.key] \in 0..Top
    BY InputOK, TargetAssumption
  <2> QED BY <2>1 DEF Sources
<1>3. CASE stays \/ s.quarantine # NoNumber \/ i.argmax = "unknown"
  <2>1. r = [src |-> held, restored |-> FALSE]
    BY <1>3 DEF Routed
  <2> HIDE DEF r, held
  <2> QED BY <1>1, <2>1 DEF r
<1>4. CASE /\ ~(stays \/ s.quarantine # NoNumber \/ i.argmax = "unknown")
           /\ \/ s.state = "Curve" /\ controllable
              \/ s.state = "Held" /\ controllable /\ debounced /\ s.gate.n >= GateT
  <2>1. r = [src |-> curve, restored |-> restores]
    BY <1>4 DEF Routed
  <2>2. restores \in BOOLEAN
    OBVIOUS
  <2> HIDE DEF r, curve, restores
  <2> QED BY <1>2, <1>4, <2>1, <2>2 DEF r
<1>5. CASE /\ ~(stays \/ s.quarantine # NoNumber \/ i.argmax = "unknown")
           /\ ~(\/ s.state = "Curve" /\ controllable
                \/ s.state = "Held" /\ controllable /\ debounced /\ s.gate.n >= GateT)
  <2>1. \/ r = [src |-> s, restored |-> FALSE] /\ s.state = "Curve"
        \/ r = [src |-> held, restored |-> FALSE]
    BY <1>5 DEF Routed
  <2> HIDE DEF r, held
  <2>2. CASE r = [src |-> s, restored |-> FALSE] /\ s.state = "Curve"
    BY <1>5, <2>2 DEF r
  <2>3. CASE r = [src |-> held, restored |-> FALSE]
    BY <1>1, <2>3 DEF r
  <2> QED BY <2>1, <2>2, <2>3
<1> QED BY <1>3, <1>4, <1>5

\* The fan moves a held target by a bounded step and changes nothing else.
LEMMA DrivenOK ==
  ASSUME NEW s \in Sources, NEW i \in TickInputs, NEW d \in Driven(s, i)
  PROVE  /\ d \in Sources /\ d.state = s.state /\ d.gate = s.gate /\ d.quarantine = s.quarantine
         /\ d = s \/ (d.target - s.target \in (-HeldStep)..HeldStep)
<1>1. CASE d = s
  BY <1>1
<1>2. CASE \E t \in 0..Top : t - s.target \in (-HeldStep)..HeldStep /\ d = [s EXCEPT !.target = t]
  BY <1>2 DEF Sources
<1> QED BY <1>1, <1>2 DEF Driven
-----------------------------------------------------------------------------
(* A tick.                                                                 *)

\* The gate after a tick counts this sample on top of the count before, which a gap has ended; Curve is kept or entered
\* with a full gate; and the target stands still but for the fan's step, a derivation or an announced jump.
LEMMA TickOK ==
  ASSUME SourceTypeOK, NEW i \in TickInputs, NEW t \in Tick(i)
  PROVE  /\ t.src \in Sources /\ t.out \in [restored : BOOLEAN, resync : BOOLEAN]
         /\ \/ t.src.gate = NoRun
            \/ /\ ~i.off /\ i.fresh /\ i.trusted /\ i.key # Nothing /\ i.argmax \in Controllable
               /\ t.src.gate = Longer(IF i.gap THEN NoRun ELSE src.gate, i.argmax, GateT)
         /\ t.src.state = "Curve" =>
              t.src.quarantine = NoNumber /\ (src.state # "Curve" => t.src.gate.n >= GateT)
         /\ src.target # NoNumber /\ t.src.state # "Curve" /\ ~t.out.resync =>
              t.src.target - src.target \in (-HeldStep)..HeldStep
<1> DEFINE quarantine == Recovering(i)
           out0 == src.quarantine # NoNumber /\ quarantine = NoNumber
           regained == src.trusted = FALSE /\ i.trusted
           gapped == IF i.gap THEN [src EXCEPT !.stuck = NoNumber, !.gate = NoRun, !.argmax = NoRun] ELSE src
           s0 == [gapped EXCEPT !.quarantine = quarantine, !.trusted = i.trusted]
           reengaged == src.state = "Released"
           seeded == src.target = NoNumber \/ reengaged
           anew == reengaged \/ out0 \/ regained
           s1 == IF anew THEN [Afresh(s0) EXCEPT !.state = "Held", !.stuck = NoNumber] ELSE s0
           argmax == Argmax(s1, i)
           debounced == Debounced(argmax, i)
           eligible == /\ s1.state = "Held" /\ i.fresh /\ i.trusted /\ i.key # Nothing /\ debounced
                       /\ i.argmax \in Controllable /\ s1.quarantine = NoNumber
           stuck == Stuck(s1, i, debounced)
           found == stuck >= StuckT
           s2 == [s1 EXCEPT !.argmax = argmax, !.key = IF i.key = Nothing THEN @ ELSE i.key,
                            !.gate = Gate(s1, i.argmax, eligible),
                            !.stuck = IF found THEN NoNumber ELSE stuck,
                            !.quarantine = IF found THEN 0 ELSE @]
           targets == IF seeded \/ found THEN 0..Top ELSE {src.target}
           aimed(x) == [s2 EXCEPT !.target = x]
           r(x) == Routed(aimed(x), i, s1.key, anew, debounced)
           done(x) == IF anew THEN Afresh(r(x).src) ELSE r(x).src
           ends(x) == IF reengaged THEN {done(x)} ELSE Driven(done(x), i)
           told(x) == [restored |-> r(x).restored, resync |-> Resynced(seeded, anew, found)]
<1>0. i.off \in BOOLEAN /\ i.gap \in BOOLEAN /\ i.fresh \in BOOLEAN /\ i.trusted \in BOOLEAN
      /\ i.key \in {Nothing} \cup Keys /\ i.argmax \in Labels
  BY InputOK
<1>1. src \in Sources /\ quarantine \in Quarantine /\ NoRun \in Run(GateT) /\ NoRun \in Run(DebounceN)
  BY RecoveringOK, RunOK, Bounds DEF SourceTypeOK
<1>2. /\ s0 \in Sources /\ s0.state = src.state /\ s0.target = src.target /\ s0.quarantine = quarantine
      /\ s0.gate = IF i.gap THEN NoRun ELSE src.gate
  <2>1. gapped \in Sources /\ gapped.state = src.state /\ gapped.target = src.target
        /\ gapped.gate = IF i.gap THEN NoRun ELSE src.gate
    BY <1>1 DEF Sources
  <2> HIDE DEF gapped, quarantine
  <2> QED BY <1>0, <1>1, <2>1 DEF Sources
<1>3. CASE i.off
  <2>1. t = [src |-> Release(s0), out |-> [restored |-> FALSE, resync |-> FALSE]]
    BY <1>3 DEF Tick
  <2> HIDE DEF s0
  <2>2. /\ Release(s0) \in Sources /\ Release(s0).gate = NoRun /\ Release(s0).state = "Released"
        /\ Release(s0).target = src.target
    BY <1>1, <1>2 DEF Release, Sources
  <2>3. src.target # NoNumber => src.target \in Nat
    BY <1>1 DEF Sources
  <2>4. src.target # NoNumber => src.target - src.target \in (-HeldStep)..HeldStep
    BY <2>3, Bounds
  <2> QED BY <2>1, <2>2, <2>4
<1>4. CASE ~i.off
  <2>0. Tick(i) = UNION {{[src |-> d, out |-> told(x)] : d \in ends(x)} : x \in targets}
    BY <1>4 DEF Tick
  <2> HIDE DEF told, ends, targets
  <2>1. PICK x \in targets : t \in {[src |-> d, out |-> told(x)] : d \in ends(x)}
    BY <2>0
  <2>2. PICK d \in ends(x) : t = [src |-> d, out |-> told(x)]
    BY <2>1
  <2> USE DEF told, ends, targets
  <2> HIDE DEF s0, quarantine, out0, gapped
  <2>3. anew \in BOOLEAN /\ seeded \in BOOLEAN /\ reengaged \in BOOLEAN
    OBVIOUS
  <2>4. /\ s1 \in Sources /\ s1.target = src.target
        /\ ~anew => s1.state = src.state /\ s1.gate = s0.gate
    <3>1. [Afresh(s0) EXCEPT !.state = "Held", !.stuck = NoNumber] \in Sources
          /\ [Afresh(s0) EXCEPT !.state = "Held", !.stuck = NoNumber].target = s0.target
      BY <1>1, <1>2, ZenonT(90) DEF Afresh, Sources
    <3>2. CASE anew
      BY <1>2, <3>1, <3>2
    <3>3. CASE ~anew
      BY <1>2, <3>3
    <3> QED BY <3>2, <3>3
  <2>5. /\ argmax \in Run(DebounceN) /\ Gate(s1, i.argmax, eligible) \in Run(GateT)
        /\ stuck \in {NoNumber} \cup 0..StuckT
    <3> HIDE DEF s1, eligible, debounced
    <3> QED BY <1>0, <2>4, ArgmaxOK, GateOK, StuckOK
  <2>6. debounced \in BOOLEAN /\ eligible \in BOOLEAN /\ found \in BOOLEAN
    <3>1. debounced \in BOOLEAN
      BY DEF Debounced
    <3>2. eligible \in BOOLEAN
      <4> HIDE DEF s1, debounced
      <4> QED BY <3>1
    <3>3. found \in BOOLEAN
      <4> HIDE DEF s1, debounced, eligible
      <4> QED BY <3>1, <3>2
    <3> QED BY <3>1, <3>2, <3>3
  <2>7. /\ s2 \in Sources /\ s2.state = s1.state /\ s2.target = s1.target
        /\ s2.gate = Gate(s1, i.argmax, eligible)
    <3>1. 0 \in Quarantine
      BY Bounds DEF Quarantine
    <3> HIDE DEF s1, argmax, eligible, stuck, found
    <3> QED BY <1>0, <2>4, <2>5, <3>1, <2>6, ZenonT(40) DEF Sources
  <2>8. s2.gate = NoRun \/ (eligible /\ s2.gate = Longer(s1.gate, i.argmax, GateT))
    BY <2>7 DEF Gate
  <2> HIDE DEF s1, argmax, stuck, s2
  <2>9. x \in {NoNumber} \cup 0..Top
    BY <1>1 DEF Sources
  <2>10. aimed(x) \in Sources /\ aimed(x).state = s2.state /\ aimed(x).target = x
         /\ aimed(x).gate = s2.gate /\ aimed(x).quarantine = s2.quarantine
    BY <2>7, <2>9 DEF Sources
  <2> HIDE DEF aimed, debounced, eligible, found, anew, seeded, reengaged
  <2>11. /\ r(x).src \in Sources /\ r(x).restored \in BOOLEAN
         /\ r(x).src.gate = s2.gate /\ r(x).src.quarantine = s2.quarantine
         /\ r(x).src.state \in {"Held", "Curve"}
         /\ r(x).src.state # "Curve" => r(x).src.target = x
         /\ r(x).src.state = "Curve" =>
              ~anew /\ s2.quarantine = NoNumber /\ (s2.state # "Curve" => s2.gate.n >= GateT)
    BY <2>3, <2>6, <2>10, RoutedOK
  <2> HIDE DEF r
  <2>12. /\ done(x) \in Sources /\ done(x).state = r(x).src.state /\ done(x).target = r(x).src.target
         /\ done(x).quarantine = s2.quarantine
         /\ done(x).gate = IF anew THEN NoRun ELSE s2.gate
    BY <1>1, <2>3, <2>11 DEF Afresh, Sources
  <2> HIDE DEF done
  <2>13. /\ d \in Sources /\ d.state = done(x).state /\ d.gate = done(x).gate
         /\ d.quarantine = done(x).quarantine
         /\ d = done(x) \/ (d.target - done(x).target \in (-HeldStep)..HeldStep)
    <3>1. CASE reengaged
      BY <2>12, <3>1
    <3>2. CASE ~reengaged
      BY <2>12, <3>2, DrivenOK
    <3> QED BY <3>1, <3>2
  <2>14. t.src = d /\ t.out = told(x)
    BY <2>2
  <2>15. t.out \in [restored : BOOLEAN, resync : BOOLEAN]
    BY <2>3, <2>6, <2>11, <2>14 DEF Resynced
  <2>16. \/ d.gate = NoRun
         \/ /\ ~i.off /\ i.fresh /\ i.trusted /\ i.key # Nothing /\ i.argmax \in Controllable
            /\ d.gate = Longer(IF i.gap THEN NoRun ELSE src.gate, i.argmax, GateT)
    BY <1>2, <1>4, <2>4, <2>8, <2>12, <2>13 DEF eligible
  <2>17. d.state = "Curve" =>
           d.quarantine = NoNumber /\ (src.state # "Curve" => d.gate.n >= GateT)
    BY <2>4, <2>7, <2>11, <2>12, <2>13
  <2>18. ASSUME src.target # NoNumber, d.state # "Curve", ~t.out.resync
         PROVE  d.target - src.target \in (-HeldStep)..HeldStep
    <3>1. ~seeded /\ ~anew /\ ~found
      <4>1. t.out.resync = Resynced(seeded, anew, found)
        BY <2>14
      <4> QED BY <2>18, <4>1 DEF Resynced
    <3>2. x = src.target
      BY <2>1, <3>1
    <3>3. done(x).target = src.target
      BY <2>11, <2>12, <2>13, <2>18, <3>2
    <3>4. src.target \in Nat
      BY <1>1, <2>18 DEF Sources
    <3>5. src.target - src.target \in (-HeldStep)..HeldStep
      BY <3>4, Bounds
    <3> QED BY <2>13, <3>3, <3>5
  <2> QED BY <2>13, <2>14, <2>15, <2>16, <2>17, <2>18
<1> QED BY <1>3, <1>4
-----------------------------------------------------------------------------
(* The invariant.                                                          *)

\* What a sample does to the evidence.
LEMMA EvidenceOK ==
  ASSUME SourceTypeOK, NEW i \in TickInputs
  PROVE  /\ Evidence(i) \in Run(EvidenceN)
         /\ ~i.off /\ i.fresh /\ i.trusted /\ i.key # Nothing /\ i.argmax \in Controllable =>
              Evidence(i) = Longer(IF i.gap THEN NoRun ELSE evidence, i.argmax, EvidenceN)
<1> DEFINE before == IF i.gap THEN NoRun ELSE evidence
<1>1. before \in Run(EvidenceN) /\ NoRun \in Run(EvidenceN) /\ i.argmax \in Labels
  BY RunOK, Bounds, InputOK DEF SourceTypeOK
<1>2. Longer(before, i.argmax, EvidenceN) \in Run(EvidenceN)
  <2> HIDE DEF before
  <2> QED BY <1>1, RunOK, Bounds
<1> QED BY <1>1, <1>2 DEF Evidence

\* A sample that lengthens the gate lengthens the evidence as much.
LEMMA CountsTogether ==
  ASSUME NEW gate \in Run(GateT), NEW seen \in Run(EvidenceN), NEW label \in Labels,
         gate.label # Nothing => seen.label = gate.label /\ gate.n <= seen.n
  PROVE  label # Nothing =>
           /\ Longer(seen, label, EvidenceN).label = Longer(gate, label, GateT).label
           /\ Longer(gate, label, GateT).n <= Longer(seen, label, EvidenceN).n
<1> SUFFICES ASSUME label # Nothing PROVE
           /\ Longer(seen, label, EvidenceN).label = Longer(gate, label, GateT).label
           /\ Longer(gate, label, GateT).n <= Longer(seen, label, EvidenceN).n
  OBVIOUS
<1>1. gate.n \in 0..GateT /\ seen.n \in 0..EvidenceN
  BY DEF Run
<1>2. /\ Longer(gate, label, GateT).label = label
      /\ Longer(gate, label, GateT).n = IF gate.label = label THEN Lower(gate.n + 1, GateT) ELSE 1
      /\ Longer(seen, label, EvidenceN).label = label
      /\ Longer(seen, label, EvidenceN).n = IF seen.label = label THEN Lower(seen.n + 1, EvidenceN) ELSE 1
  BY RunOK, Bounds
<1>3. CASE gate.label = label
  <2>1. seen.label = label /\ gate.n <= seen.n
    BY <1>3
  <2>2. Lower(gate.n + 1, GateT) <= Lower(seen.n + 1, EvidenceN)
    BY <1>1, <2>1, Bounds DEF Lower
  <2> QED BY <1>2, <1>3, <2>1, <2>2
<1>4. CASE gate.label # label
  <2>1. 1 <= Lower(seen.n + 1, EvidenceN)
    BY <1>1, Bounds DEF Lower
  <2> QED BY <1>2, <1>4, <2>1
<1> QED BY <1>3, <1>4

\* The initial states satisfy the invariant.
LEMMA SourceStarts == SourceInit => SourceIInv
<1> SUFFICES ASSUME SourceInit PROVE SourceIInv
  OBVIOUS
<1>1. NoRun \in Run(GateT) /\ NoRun \in Run(DebounceN) /\ NoRun \in Run(EvidenceN)
  BY RunOK, Bounds
<1>2. src \in Sources
  BY <1>1 DEF SourceInit, Sources, Quarantine
<1> QED BY <1>1, <1>2 DEF SourceInit, SourceIInv, SourceTypeOK, GateIsEvidence, NoRun

\* Every step keeps it.
LEMMA SourceSteps == SourceIInv /\ [SourceNext]_sourceVars => SourceIInv'
<1> SUFFICES ASSUME SourceIInv, [SourceNext]_sourceVars PROVE SourceIInv'
  OBVIOUS
<1>1. CASE UNCHANGED sourceVars
  BY <1>1 DEF SourceIInv, SourceTypeOK, GateIsEvidence, sourceVars
<1>2. CASE SourceNext
  <2>1. PICK i \in TickInputs :
          evidence' = Evidence(i) /\ \E t \in Tick(i) : src' = t.src /\ out' = t.out
    BY <1>2 DEF SourceNext, Sample
  <2>2. PICK t \in Tick(i) : src' = t.src /\ out' = t.out
    BY <2>1
  <2>3. SourceTypeOK'
    BY <2>1, <2>2, TickOK, EvidenceOK DEF SourceIInv, SourceTypeOK
  <2>4. GateIsEvidence'
    <3> SUFFICES ASSUME src'.gate.label # Nothing
                 PROVE  evidence'.label = src'.gate.label /\ src'.gate.n <= evidence'.n
      BY DEF GateIsEvidence
    <3> DEFINE gate == IF i.gap THEN NoRun ELSE src.gate
               seen == IF i.gap THEN NoRun ELSE evidence
    <3>1. src'.gate # NoRun
      BY DEF NoRun
    <3>2. src'.gate = Longer(gate, i.argmax, GateT) /\ i.argmax \in Controllable
          /\ evidence' = Longer(seen, i.argmax, EvidenceN)
      BY <2>1, <2>2, <3>1, TickOK, EvidenceOK DEF SourceIInv
    <3>3. gate \in Run(GateT) /\ seen \in Run(EvidenceN)
      BY RunOK, Bounds DEF SourceIInv, SourceTypeOK, Sources
    <3>4. gate.label # Nothing => seen.label = gate.label /\ gate.n <= seen.n
      BY DEF SourceIInv, GateIsEvidence, NoRun
    <3>5. i.argmax \in Labels /\ i.argmax # Nothing
      BY <3>2 DEF Labels, Controllable, Nothing
    <3> HIDE DEF gate, seen
    <3>6. /\ Longer(seen, i.argmax, EvidenceN).label = Longer(gate, i.argmax, GateT).label
          /\ Longer(gate, i.argmax, GateT).n <= Longer(seen, i.argmax, EvidenceN).n
      BY <3>3, <3>4, <3>5, CountsTogether
    <3> QED BY <3>2, <3>6
  <2> QED BY <2>3, <2>4 DEF SourceIInv
<1> QED BY <1>1, <1>2

\* The counters stay in range and the gate counts evidence, whatever samples come.
THEOREM SourceAlways == SourceSpec => []SourceIInv
  BY SourceStarts, SourceSteps, PTL DEF SourceSpec
-----------------------------------------------------------------------------
(* The properties.                                                         *)

\* The state of the source, its counts and its target stay in their ranges.
THEOREM TypeCorrect == SourceSpec => []SourceTypeOK
<1>1. SourceIInv => SourceTypeOK
  BY DEF SourceIInv
<1> QED BY <1>1, SourceAlways, PTL

\* The curve is entered only on the whole entry time of samples that each speak for it, one label
\* in the lead through all of them, and never with a sensor in quarantine.
THEOREM CurveEarned == SourceSpec => CurveIsEarned
<1>1. SourceIInv /\ SourceIInv' /\ [SourceNext]_sourceVars =>
        [src'.state = "Curve" => src'.quarantine = NoNumber
         /\ (src.state # "Curve" => evidence'.n >= GateT)]_sourceVars
  <2> SUFFICES ASSUME SourceIInv, SourceIInv', SourceNext, src'.state = "Curve"
               PROVE  src'.quarantine = NoNumber /\ (src.state # "Curve" => evidence'.n >= GateT)
    OBVIOUS
  <2>1. PICK i \in TickInputs : \E t \in Tick(i) : src' = t.src
    BY DEF SourceNext, Sample
  <2>2. src'.quarantine = NoNumber /\ (src.state # "Curve" => src'.gate.n >= GateT)
    BY <2>1, TickOK DEF SourceIInv
  <2>3. ASSUME src.state # "Curve" PROVE evidence'.n >= GateT
    <3>1. src'.gate \in Run(GateT) /\ evidence' \in Run(EvidenceN)
      BY DEF SourceIInv, SourceTypeOK, Sources
    <3>2. src'.gate.n >= GateT /\ src'.gate.n \in Nat /\ evidence'.n \in Nat
      BY <2>2, <2>3, <3>1 DEF Run
    <3>3. src'.gate # NoRun
      BY <3>2, Bounds DEF NoRun
    <3>4. src'.gate.label # Nothing
      <4>1. \A i2 \in TickInputs : i2.argmax \in Controllable => i2.argmax \in Labels /\ i2.argmax # Nothing
        BY DEF Labels, Controllable, Nothing
      <4>2. PICK j \in TickInputs : \E t \in Tick(j) : src' = t.src
        BY <2>1
      <4>3. PICK t \in Tick(j) : src' = t.src
        BY <4>2
      <4>4. /\ j.argmax \in Controllable
            /\ src'.gate = Longer(IF j.gap THEN NoRun ELSE src.gate, j.argmax, GateT)
        BY <3>3, <4>3, TickOK DEF SourceIInv
      <4>5. (IF j.gap THEN NoRun ELSE src.gate) \in Run(GateT)
        BY RunOK, Bounds DEF SourceIInv, SourceTypeOK, Sources
      <4>6. src'.gate.label = j.argmax
        BY <4>1, <4>4, <4>5, RunOK, Bounds
      <4> QED BY <4>1, <4>4, <4>6
    <3> QED BY <3>2, <3>4, Bounds DEF SourceIInv, GateIsEvidence
  <2> QED BY <2>2, <2>3
<1> QED BY <1>1, SourceAlways, PTL DEF SourceSpec, CurveIsEarned

\* Outside a derivation from the curve the target moves by the fan's step, or the loops are told.
THEOREM JumpsAnnounced == SourceSpec => JumpsAreAnnounced
<1>1. SourceIInv /\ [SourceNext]_sourceVars =>
        [src.target # NoNumber /\ src'.state # "Curve" /\ ~out'.resync
         => src'.target - src.target \in (-HeldStep)..HeldStep]_sourceVars
  <2> SUFFICES ASSUME SourceIInv, SourceNext, src.target # NoNumber, src'.state # "Curve", ~out'.resync
               PROVE  src'.target - src.target \in (-HeldStep)..HeldStep
    OBVIOUS
  <2>1. PICK i \in TickInputs : \E t \in Tick(i) : src' = t.src /\ out' = t.out
    BY DEF SourceNext, Sample
  <2> QED BY <2>1, TickOK DEF SourceIInv
<1> QED BY <1>1, SourceAlways, PTL DEF SourceSpec, JumpsAreAnnounced
=============================================================================
