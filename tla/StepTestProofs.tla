---------------------------- MODULE StepTestProofs ----------------------------
(***************************************************************************)
(* A calibration steps one device at a time and a fit measures its step,   *)
(* for all times, caps, retries and faults.                                *)
(***************************************************************************)
EXTENDS StepTest, FiniteSetTheorems, WellFoundedInduction, TLAPS

\* Every finite non-empty set of integers has a largest element.
LEMMA FiniteMax ==
  ASSUME NEW S, S \subseteq Int, IsFiniteSet(S), S # {}
  PROVE  /\ Max(S) \in S
         /\ \A x \in S : x <= Max(S)
<1> DEFINE HasMax(U) == \E m \in U : \A x \in U : m >= x
           Without == {U \in FiniteSubsetsOf(S) : U # {} /\ ~HasMax(U)}
<1>1. FiniteSubsetsOf(S) = SUBSET S
  BY FS_FiniteSubsetsOfFinite
<1>2. Without = {}
  <2> SUFFICES ASSUME Without # {} PROVE FALSE
    OBVIOUS
  <2>1. PICK U \in Without : \A V \in Without : <<V, U>> \notin StrictSubsetOrdering(S)
    <3>1. IsWellFoundedOn(StrictSubsetOrdering(S), FiniteSubsetsOf(S))
      BY FS_StrictSubsetOrderingWellFounded
    <3>2. Without \subseteq FiniteSubsetsOf(S)
      OBVIOUS
    <3> HIDE DEF Without
    <3> QED BY <3>1, <3>2, WFMin
  <2>2. PICK x \in U : x \in Int
    BY <1>1
  <2>3. U \ {x} \notin Without
    <3>1. <<U \ {x}, U>> \in StrictSubsetOrdering(S)
      BY <1>1 DEF StrictSubsetOrdering
    <3> QED BY <2>1, <3>1
  <2>4. CASE U \ {x} = {}
    BY <2>2, <2>4
  <2>5. CASE U \ {x} # {}
    <3>1. PICK m \in U \ {x} : \A y \in U \ {x} : m >= y
      BY <1>1, <2>3, <2>5
    <3>2. m \in Int /\ U \subseteq Int
      BY <1>1
    <3>3. HasMax(U)
      <4>1. CASE m >= x
        BY <3>1, <4>1
      <4>2. CASE ~(m >= x)
        BY <2>2, <3>1, <3>2, <4>2
      <4> QED BY <4>1, <4>2
    <3> QED BY <3>3
  <2> QED BY <2>4, <2>5
<1>3. HasMax(S)
  BY <1>1, <1>2
<1>4. PICK m \in S : \A x \in S : m >= x
  BY <1>3
<1>5. Max(S) \in S /\ \A x \in S : Max(S) >= x
  BY <1>4 DEF Max
<1> QED BY <1>5
-----------------------------------------------------------------------------
(* Ages.                                                                   *)

\* The constants as numbers.
LEMMA Numbers ==
  /\ SettleT \in Nat /\ SettleT >= 1 /\ FitT \in Nat /\ FitT >= 1 /\ WindowT \in Nat /\ WindowT >= 1
  /\ MaxGap \in Nat /\ MaxGap >= 1 /\ MaxGap < FitT /\ CheckT \in Nat /\ CheckT >= 1
  /\ Tries \in Nat /\ Tries >= 1 /\ HotStreak \in Nat /\ HotStreak >= 1
  /\ CpuMax \in Nat /\ CpuMax >= 1 /\ GpuMax \in Nat /\ GpuMax >= 1
  /\ Gaps \subseteq Nat /\ \A g \in Gaps : g >= 1
  BY TimesAssumption

\* The largest of a few numbers.
LEMMA MaxOfFew ==
  /\ \A a, b \in Nat : Max({a, b}) \in Nat /\ Max({a, b}) >= a /\ Max({a, b}) >= b
  /\ \A a, b, c \in Nat : /\ Max({a, b, c}) \in Nat
                          /\ Max({a, b, c}) >= a /\ Max({a, b, c}) >= b /\ Max({a, b, c}) >= c
<1>1. ASSUME NEW a \in Nat, NEW b \in Nat
      PROVE  Max({a, b}) \in Nat /\ Max({a, b}) >= a /\ Max({a, b}) >= b
  <2>1. \E x \in {a, b} : \A y \in {a, b} : x >= y
    OBVIOUS
  <2>2. Max({a, b}) \in {a, b} /\ \A y \in {a, b} : Max({a, b}) >= y
    BY <2>1 DEF Max
  <2> QED BY <2>2
<1>2. ASSUME NEW a \in Nat, NEW b \in Nat, NEW c \in Nat
      PROVE  /\ Max({a, b, c}) \in Nat
             /\ Max({a, b, c}) >= a /\ Max({a, b, c}) >= b /\ Max({a, b, c}) >= c
  <2>1. \E x \in {a, b, c} : \A y \in {a, b, c} : x >= y
    <3>1. CASE a >= b /\ a >= c
      BY <3>1
    <3>2. CASE b >= a /\ b >= c
      BY <3>2
    <3>3. CASE c >= a /\ c >= b
      BY <3>3
    <3> QED BY <3>1, <3>2, <3>3
  <2>2. Max({a, b, c}) \in {a, b, c} /\ \A y \in {a, b, c} : Max({a, b, c}) >= y
    BY <2>1 DEF Max
  <2> QED BY <2>2
<1> QED BY <1>1, <1>2

\* The last age lies beyond a response and a gap, and every age counted fits.
LEMMA AgesFacts ==
  /\ MaxAge \in Nat /\ \A g \in Gaps : g <= MaxAge /\ FitT + g <= MaxAge
  /\ MaxGap < MaxAge
  /\ Ages \subseteq Int /\ \A a \in Ages : a >= -1 /\ (a # Unset => a >= 0)
  /\ Unset \in Ages /\ 0 \in Ages /\ 0 # Unset
  /\ -1..MaxAge \subseteq Ages /\ -1..CheckT \subseteq Ages /\ -1..WindowT \subseteq Ages
<1>1. Max({SettleT, FitT}) \in Nat /\ Max({SettleT, FitT}) >= FitT
  BY Numbers, MaxOfFew
<1>2. Max(Gaps) \in Gaps /\ \A g \in Gaps : g <= Max(Gaps)
  <2>1. Gaps \subseteq Int /\ IsFiniteSet(Gaps) /\ Gaps # {}
    BY TimesAssumption
  <2> QED BY <2>1, FiniteMax
<1>3. MaxAge \in Nat /\ MaxAge = Max({SettleT, FitT}) + Max(Gaps)
  <2>1. Max(Gaps) \in Nat
    BY <1>2, Numbers
  <2> QED BY <1>1, <2>1 DEF MaxAge
<1>4. ASSUME NEW g \in Gaps PROVE g <= MaxAge /\ FitT + g <= MaxAge
  <2>1. g \in Nat /\ Max(Gaps) \in Nat /\ g <= Max(Gaps)
    BY <1>2, Numbers
  <2> HIDE DEF MaxAge
  <2> QED BY <2>1, <1>1, <1>3, Numbers
<1>5. MaxGap < MaxAge
  <2>1. Max(Gaps) \in Nat
    BY <1>2, Numbers
  <2> HIDE DEF MaxAge
  <2> QED BY <1>1, <1>3, <2>1, Numbers
<1> DEFINE m == Max({MaxAge, CheckT, WindowT})
<1>6. m \in Nat /\ m >= MaxAge /\ m >= CheckT /\ m >= WindowT
  BY <1>3, Numbers, MaxOfFew
<1>7. Ages = -1..m
  BY DEF Ages
<1> HIDE DEF m
<1>8. /\ Ages \subseteq Int /\ \A a \in Ages : a >= -1 /\ (a # Unset => a >= 0)
      /\ Unset \in Ages /\ 0 \in Ages /\ 0 # Unset
  BY <1>6, <1>7 DEF Unset
<1>9. -1..MaxAge \subseteq Ages /\ -1..CheckT \subseteq Ages /\ -1..WindowT \subseteq Ages
  BY <1>3, <1>6, <1>7, Numbers
<1> QED BY <1>3, <1>4, <1>5, <1>8, <1>9

\* Ageing.
LEMMA AgedToOK ==
  ASSUME NEW most \in Nat, -1..most \subseteq Ages, NEW age \in Ages, NEW dt \in Gaps
  PROVE  AgedTo(most, age, dt) \in Ages /\ (AgedTo(most, age, dt) = Unset <=> age = Unset)
<1>1. age \in Int /\ (age # Unset => age >= 0) /\ dt \in Nat /\ Unset \in Ages
  BY AgesFacts, Numbers
<1>2. CASE age = Unset
  BY <1>1, <1>2 DEF AgedTo
<1>3. CASE age # Unset
  <2>1. Least(age + dt, most) \in 0..most
    BY <1>1, <1>3 DEF Least
  <2> QED BY <1>3, <2>1 DEF AgedTo, Unset
<1> QED BY <1>2, <1>3

\* No age falls behind another, and none stays behind the time that passes.
LEMMA AgedOK ==
  ASSUME NEW age \in Ages, NEW dt \in Gaps
  PROVE  /\ Aged(age, dt) \in Ages
         /\ Aged(age, dt) = Unset <=> age = Unset
         /\ age # Unset => Aged(age, dt) >= dt /\ (age > MaxGap => Aged(age, dt) > MaxGap)
         /\ \A older \in Ages : older # Unset /\ age # Unset /\ older >= age => Aged(older, dt) >= Aged(age, dt)
<1>1. Aged(age, dt) \in Ages /\ (Aged(age, dt) = Unset <=> age = Unset)
  BY AgesFacts, AgedToOK DEF Aged
<1>2. dt \in Nat /\ dt >= 1 /\ dt <= MaxAge /\ MaxAge \in Nat /\ MaxGap \in Nat /\ MaxGap < MaxAge
  BY AgesFacts, Numbers
<1>3. \A a \in Ages : a # Unset => a \in Nat /\ Aged(a, dt) = Least(a + dt, MaxAge)
  BY AgesFacts DEF Aged, AgedTo
<1> QED BY <1>1, <1>2, <1>3 DEF Least
-----------------------------------------------------------------------------
(* Types.                                                                  *)

Pair == [cpu : 0..CpuMax, gpu : 0..GpuMax]
TestType ==
  [sub : {"Settle", "Cpu", "RecoverGpu", "Gpu", "Done"}, begun : BOOLEAN,
   cpuTries : 0..Tries, gpuTries : 0..Tries, started : Ages, commanded : Ages,
   base : Pair, step : Pair, applied : Pair, window : Ages, pushed : Ages,
   streak : 0..HotStreak, key : BOOLEAN]
CpuType == [cap : 0..CpuMax, verified : BOOLEAN, checked : Ages,
            readback : {"none", "held", "bad"}, done : Ages]
GpuType == [cap : 0..GpuMax, verified : BOOLEAN, done : Ages]
Context == [cpu : CpuType, gpu : GpuType, auto : BOOLEAN, reset : BOOLEAN, hw : 0..CpuMax]

\* A test as the controller keeps it, and what a sample may make of it.
TestOK(t) == t \in TestType /\ Steady(t)

\* New records.
LEMMA NewOK ==
  /\ TestOK(NewTest) /\ NewTest.sub = "Settle" /\ Nothing \in Pair
  /\ \A p \in 0..CpuMax : NoCpu(p) \in CpuType /\ NoCpu(p).cap = p /\ ~NoCpu(p).verified
  /\ \A p \in 0..GpuMax : NoGpu(p) \in GpuType /\ NoGpu(p).cap = p
<1>1. Nothing \in Pair
  BY Numbers DEF Nothing, Pair
<1>2. NewTest \in TestType
  BY <1>1, Numbers, AgesFacts DEF NewTest, TestType
<1>3. Steady(NewTest) /\ NewTest.sub = "Settle"
  BY DEF NewTest, Steady, Responding
<1>4. \A p \in 0..CpuMax : NoCpu(p) \in CpuType /\ NoCpu(p).cap = p /\ ~NoCpu(p).verified
  BY AgesFacts DEF NoCpu, CpuType
<1>5. \A p \in 0..GpuMax : NoGpu(p) \in GpuType /\ NoGpu(p).cap = p
  BY AgesFacts DEF NoGpu, GpuType
<1> QED BY <1>1, <1>2, <1>3, <1>4, <1>5 DEF TestOK

\* What a sample brings.
LEMMA InputsOK ==
  ASSUME NEW i \in Inputs
  PROVE  /\ i.dt \in Gaps /\ i.alarm \in {"none", "tctl", "ec_or_gpu", "clock"}
         /\ i.view \in BOOLEAN /\ i.seen \in BOOLEAN /\ i.blind \in BOOLEAN
         /\ i.air \in {"flat", "moving", "broken"}
<1> DEFINE blinds == {"blindRead" \in Faults, FALSE}
<1>1. blinds \subseteq BOOLEAN
  OBVIOUS
<1> HIDE DEF blinds
<1>2. i \in [dt : Gaps, alarm : {"none", "tctl", "ec_or_gpu", "clock"}, view : BOOLEAN,
            air : {"flat", "moving", "broken"}, seen : BOOLEAN, blind : blinds]
  BY DEF Inputs, blinds
<1> QED BY <1>1, <1>2
-----------------------------------------------------------------------------
(* The test.                                                               *)

\* Aborting keeps the types.
LEMMA AbortOK ==
  ASSUME NEW t \in TestType
  PROVE  /\ Abort(t).test \in TestType /\ Abort(t).test.sub = "Done"
         /\ Abort(t).cpu \in 0..CpuMax /\ Abort(t).gpu \in 0..GpuMax /\ Abort(t).fits = {}
  BY DEF Abort, Reply, TestType, Pair

\* The test as the sample finds it: time has passed, and the rest is as it was.
LEMMA BegunOK ==
  ASSUME NEW t, TestOK(t), t.begun, NEW i \in Inputs, NEW c \in Context
  PROVE  LET b == Begin(t, i, c)
         IN  /\ TestOK(b) /\ b.begun /\ b.sub = t.sub /\ b.base = t.base /\ b.applied = t.applied
             /\ b.commanded = Aged(t.commanded, i.dt) /\ b.pushed = Aged(t.pushed, i.dt)
<1> DEFINE started == Aged(t.started, i.dt)
           commanded == Aged(t.commanded, i.dt)
           window == AgedTo(WindowT, t.window, i.dt)
           pushed == Aged(t.pushed, i.dt)
           b == Begin(t, i, c)
<1>1. t \in TestType /\ Steady(t) /\ i.dt \in Gaps
  BY InputsOK DEF TestOK
<1>2. {t.started, t.commanded, t.window, t.pushed} \subseteq Ages
  BY <1>1 DEF TestType
<1>3. /\ started \in Ages /\ commanded \in Ages /\ pushed \in Ages
      /\ commanded = Unset <=> t.commanded = Unset
      /\ pushed = Unset <=> t.pushed = Unset
  BY <1>1, <1>2, AgedOK
<1>4. window \in Ages
  BY <1>1, <1>2, AgesFacts, AgedToOK, Numbers
<1>5. b = [t EXCEPT !.started = started, !.commanded = commanded, !.window = window, !.pushed = pushed]
  BY <1>1 DEF Begin, TestType
<1> HIDE DEF started, commanded, window, pushed, b
<1>6. /\ b \in TestType /\ b.begun = t.begun /\ b.sub = t.sub /\ b.base = t.base /\ b.applied = t.applied
      /\ b.commanded = commanded /\ b.pushed = pushed
  BY <1>1, <1>3, <1>4, <1>5 DEF TestType
<1>7. Steady(b)
  BY <1>1, <1>3, <1>6 DEF Steady, Responding, Phase
<1> QED BY <1>6, <1>7 DEF TestOK, b, commanded, pushed

\* The first sample fixes a pair without a zero.
LEMMA BeginsOK ==
  ASSUME NEW t, TestOK(t), ~t.begun, NEW i \in Inputs, NEW c \in Context
  PROVE  LET b == Begin(t, i, c)
         IN  TestOK(b) /\ b.begun /\ b.sub = "Settle"
<1> DEFINE base == [d \in Devices |-> IF c.auto /\ c[d].cap # 0 THEN c[d].cap ELSE Floor[d]]
           b == Begin(t, i, c)
<1>1. t \in TestType /\ Steady(t) /\ t.sub = "Settle"
  BY DEF TestOK, Steady
<1>2. c.cpu.cap \in 0..CpuMax /\ c.gpu.cap \in 0..GpuMax
  BY DEF Context, CpuType, GpuType
<1>3. base \in Pair /\ base.cpu # 0 /\ base.gpu # 0
  <2>1. base = [d \in {"cpu", "gpu"} |-> base[d]]
    BY DEF Devices
  <2>2. base.cpu = (IF c.auto /\ c.cpu.cap # 0 THEN c.cpu.cap ELSE 1)
        /\ base.gpu = (IF c.auto /\ c.gpu.cap # 0 THEN c.gpu.cap ELSE 1)
    BY DEF Devices, Floor
  <2>3. base.cpu \in 0..CpuMax /\ base.gpu \in 0..GpuMax /\ base.cpu # 0 /\ base.gpu # 0
    BY <1>2, <2>2, Numbers
  <2> HIDE DEF base
  <2> QED BY <2>1, <2>3 DEF Pair
<1>4. b = [t EXCEPT !.begun = TRUE, !.started = 0, !.base = base]
  BY DEF Begin
<1> HIDE DEF base, b
<1>5. /\ b \in TestType /\ b.begun /\ b.sub = "Settle" /\ b.base = base
  BY <1>1, <1>3, <1>4, AgesFacts DEF TestType
<1>6. Steady(b)
  BY <1>3, <1>5 DEF Steady, Responding
<1> QED BY <1>5, <1>6 DEF TestOK, b

\* When the step under way may have been commanded, by what a sample knows of it.
CommandedBy(k, c) ==
  {k.commanded} \cup {x \in {c[Phase(k)].done} : x # Unset /\ x <= k.commanded}

\* A response goes on: it has been read all along, or its step has not been seen to apply.
Stays(k, c, u) ==
  /\ u.sub = k.sub /\ u.base = k.base
  /\ u.pushed = Unset => k.pushed = Unset /\ u.commanded \in CommandedBy(k, c)
  /\ u.pushed # Unset => IF k.pushed # Unset THEN k.pushed <= MaxGap
                         ELSE \E m \in CommandedBy(k, c) : m <= MaxGap

\* A fit: the step was seen to apply, the window is over, and the caps are the ones the test set.
Fits(k, c, fits) ==
  /\ Responding(k) /\ fits = {Phase(k)} /\ k.applied[Phase(k)] # 0 /\ k.commanded >= FitT
  /\ c.cpu.verified /\ ~c.reset
  /\ c.cpu.cap = IF k.sub = "Cpu" THEN k.applied.cpu ELSE k.base.cpu
  /\ c.gpu.cap = IF k.sub = "Gpu" THEN k.applied.gpu ELSE k.base.gpu

\* What a reply to the sample of the test k may be.
Replies(k, c, r) ==
  /\ r.test \in TestType /\ r.cpu \in 0..CpuMax /\ r.gpu \in 0..GpuMax
  /\ r.test.sub # "Done" => Steady(r.test)
  /\ r.test.sub = "Cpu" =>
       /\ r.gpu = 0
       /\ \/ k.sub = "Cpu" /\ r.cpu = 0 /\ ~c.reset /\ Stays(k, c, r.test)
          \/ k.sub # "Cpu" /\ c.gpu.cap = r.test.base.gpu /\ r.test.commanded = 0
  /\ r.test.sub = "Gpu" =>
       /\ r.cpu = 0 /\ ~c.reset
       /\ \/ k.sub = "Gpu" /\ r.gpu = 0 /\ Stays(k, c, r.test)
          \/ k.sub # "Gpu" /\ c.cpu.verified /\ c.cpu.cap = r.test.base.cpu /\ r.test.commanded = 0
  /\ r.fits # {} => Fits(k, c, r.fits)

\* An abort is a reply, and so is one that writes nothing and does not respond.
LEMMA AbortReplies ==
  ASSUME NEW k, NEW c, NEW t \in TestType
  PROVE  Replies(k, c, Abort(t))
  BY AbortOK DEF Replies

\* A test that waits makes an admissible reply.
LEMMA IdleReplies ==
  ASSUME NEW k, NEW c, NEW t, TestOK(t), t.sub \in {"Settle", "RecoverGpu"}
  PROVE  Replies(k, c, Idle(t))
  BY Numbers DEF Replies, Idle, Reply, TestOK

\* A dropped cap settles again, with the pair restored.
LEMMA RetryReplies ==
  ASSUME NEW k, TestOK(k), k.begun, NEW c \in Context
  PROVE  Replies(k, c, Retry(k))
<1>1. k \in TestType /\ Steady(k) /\ Nothing \in Pair
  BY NewOK DEF TestOK
<1>2. CASE TriesOf(k) >= Tries
  BY <1>1, <1>2, AbortReplies DEF Retry
<1>3. CASE ~(TriesOf(k) >= Tries)
  <2> DEFINE s == SettleAgain(k)
             u == Tried(s)
  <2>1. /\ s \in TestType /\ s.sub \in {"Settle", "RecoverGpu"} /\ s.begun /\ s.base = k.base
        /\ s.applied.gpu = 0 /\ s.cpuTries = k.cpuTries /\ s.gpuTries = k.gpuTries /\ Phase(s) = Phase(k)
    <3>1. Nothing.gpu = 0
      BY DEF Nothing
    <3> QED BY <1>1, <3>1, AgesFacts DEF SettleAgain, TestType, Phase
  <2> HIDE DEF s
  <2>2. u \in TestType /\ u.sub = s.sub /\ u.begun /\ u.base = s.base /\ u.applied = s.applied
    <3>1. CASE Phase(s) = "cpu"
      <4>1. s.cpuTries + 1 \in 0..Tries
        BY <1>1, <1>3, <2>1, <3>1, Numbers DEF TriesOf, TestType
      <4> QED BY <2>1, <3>1, <4>1 DEF Tried, TestType
    <3>2. CASE Phase(s) # "cpu"
      <4>1. s.gpuTries + 1 \in 0..Tries
        BY <1>1, <1>3, <2>1, <3>2, Numbers DEF TriesOf, TestType
      <4> QED BY <2>1, <3>2, <4>1 DEF Tried, TestType
    <3> QED BY <3>1, <3>2
  <2>3. Retry(k) = Reply(u, k.base.cpu, k.base.gpu, {})
    BY <1>3 DEF Retry, s
  <2> HIDE DEF u
  <2>4. Steady(u)
    BY <1>1, <2>1, <2>2 DEF Steady, Responding
  <2>5. k.base.cpu \in 0..CpuMax /\ k.base.gpu \in 0..GpuMax
    BY <1>1 DEF TestType, Pair
  <2> QED BY <2>1, <2>2, <2>3, <2>4, <2>5 DEF Replies, Reply
<1> QED BY <1>2, <1>3

\* The windows say nothing of the phases.
LEMMA WatchedOK ==
  ASSUME NEW t, TestOK(t), NEW held \in BOOLEAN, NEW i
  PROVE  LET w == Watched(t, held, i)
         IN  /\ TestOK(w) /\ w.begun = t.begun /\ w.sub = t.sub /\ w.base = t.base /\ w.step = t.step
             /\ w.applied = t.applied
             /\ Settled(w, i) => held
<1> DEFINE x == IF ~held \/ i.air = "broken" THEN Unset ELSE IF t.window = Unset THEN 0 ELSE t.window
           w == Watched(t, held, i)
<1>1. t \in TestType /\ Steady(t)
  BY DEF TestOK
<1>2. x \in Ages /\ (x # Unset => held)
  BY <1>1, AgesFacts DEF TestType
<1>3. w = [t EXCEPT !.window = x]
  BY DEF Watched
<1> HIDE DEF x, w
<1>4. /\ w \in TestType /\ w.begun = t.begun /\ w.sub = t.sub /\ w.base = t.base /\ w.step = t.step
      /\ w.applied = t.applied /\ w.commanded = t.commanded /\ w.pushed = t.pushed /\ w.window = x
  BY <1>1, <1>2, <1>3 DEF TestType
<1>5. Steady(w)
  BY <1>1, <1>4 DEF Steady, Responding, Phase
<1>6. Settled(w, i) => held
  BY <1>2, <1>4, Numbers DEF Settled, Unset
<1> QED BY <1>4, <1>5, <1>6 DEF TestOK, w

\* Adopting the pair that the writes left in force.
LEMMA AdoptedOK ==
  ASSUME NEW t, TestOK(t), t.begun, t.sub = "Settle", NEW c \in Context
  PROVE  TestOK(Adopted(t, c)) /\ Adopted(t, c).begun /\ Adopted(t, c).sub = "Settle"
<1>1. t \in TestType /\ Steady(t)
  BY DEF TestOK
<1>2. /\ c.cpu.cap \in 0..CpuMax /\ c.gpu.cap \in 0..GpuMax /\ c.cpu.done \in Ages /\ c.gpu.done \in Ages
  BY DEF Context, CpuType, GpuType
<1>3. CASE Adopted(t, c) = t
  BY <1>3
<1>4. CASE Adopted(t, c) # t
  <2> DEFINE base == [cpu |-> c.cpu.cap, gpu |-> c.gpu.cap]
             step == [cpu |-> Least(c.cpu.cap + 1, CpuMax), gpu |-> Least(c.gpu.cap + 1, GpuMax)]
             done == Least(c.cpu.done, c.gpu.done)
             a == Adopted(t, c)
  <2>1. 0 \notin {c.cpu.cap, c.gpu.cap} /\ a = [t EXCEPT !.base = base, !.step = step, !.commanded = done]
    BY <1>4 DEF Adopted
  <2>2. base \in Pair /\ base.cpu # 0 /\ base.gpu # 0
    BY <1>2, <2>1 DEF Pair
  <2>3. step \in Pair
    <3>1. Least(c.cpu.cap + 1, CpuMax) \in 0..CpuMax /\ Least(c.gpu.cap + 1, GpuMax) \in 0..GpuMax
      BY <1>2, Numbers DEF Least
    <3> QED BY <3>1 DEF Pair
  <2>4. done \in Ages
    BY <1>2 DEF Least
  <2> HIDE DEF base, step, done, a
  <2>5. a \in TestType /\ a.begun /\ a.sub = "Settle" /\ a.base = base
    BY <1>1, <2>1, <2>2, <2>3, <2>4 DEF TestType
  <2>6. Steady(a)
    BY <2>2, <2>5 DEF Steady, Responding
  <2> QED BY <2>5, <2>6 DEF TestOK, a
<1> QED BY <1>3, <1>4

\* on_settle: the CPU step is taken while the lock is the one to hold.
LEMMA SettleReplies ==
  ASSUME NEW k, TestOK(k), k.begun, k.sub = "Settle", NEW i \in Inputs, NEW c \in Context
  PROVE  Replies(k, c, OnSettle(k, i, c))
<1> DEFINE a == Adopted(k, c)
           held == a.commanded # Unset /\ PairIs(c, a.base)
           w == Watched(a, held, i)
           u == [w EXCEPT !.sub = "Cpu", !.commanded = 0, !.applied.cpu = 0, !.pushed = Unset]
<1>1. TestOK(a) /\ a.begun /\ a.sub = "Settle"
  BY AdoptedOK
<1>2. held \in BOOLEAN
  OBVIOUS
<1>3. /\ TestOK(w) /\ w.begun /\ w.sub = "Settle" /\ w.base = a.base
      /\ Settled(w, i) => held
  <2> HIDE DEF a, held
  <2> QED BY <1>1, <1>2, WatchedOK
<1>4. \/ OnSettle(k, i, c) \in {Abort(w), Idle(w)}
      \/ Settled(w, i) /\ OnSettle(k, i, c) = Reply(u, w.step.cpu, 0, {})
  <2>1. OnSettle(k, i, c) = IF Settled(w, i)
                            THEN IF ~w.key THEN Abort(w) ELSE Reply(u, w.step.cpu, 0, {})
                            ELSE IF w.started >= SettleT THEN Abort(w) ELSE Idle(w)
    BY DEF OnSettle
  <2> HIDE DEF a, held, w, u
  <2> QED BY <2>1
<1>5. Settled(w, i) => c.gpu.cap = w.base.gpu
  BY <1>3 DEF PairIs
<1> HIDE DEF a, held, w
<1>6. CASE OnSettle(k, i, c) \in {Abort(w), Idle(w)}
  BY <1>3, <1>6, AbortReplies, IdleReplies DEF TestOK
<1>7. CASE Settled(w, i) /\ OnSettle(k, i, c) = Reply(u, w.step.cpu, 0, {})
  <2>1. w \in TestType /\ Steady(w)
    BY <1>3 DEF TestOK
  <2>2. [w.applied EXCEPT !.cpu = 0] \in Pair /\ w.step.cpu \in 0..CpuMax
    BY <2>1, Numbers DEF TestType, Pair
  <2>3. u = [w EXCEPT !.sub = "Cpu", !.commanded = 0, !.applied = [w.applied EXCEPT !.cpu = 0], !.pushed = Unset]
    BY <2>1 DEF TestType
  <2> HIDE DEF u
  <2>4. /\ u \in TestType /\ u.sub = "Cpu" /\ u.begun /\ u.base = w.base /\ u.commanded = 0
        /\ u.applied.cpu = 0 /\ u.pushed = Unset
    <3>1. [w.applied EXCEPT !.cpu = 0].cpu = 0
      BY <2>1 DEF TestType, Pair
    <3> QED BY <1>3, <2>1, <2>2, <2>3, <3>1, AgesFacts DEF TestType
  <2>5. Steady(u)
    BY <1>3, <2>1, <2>4, AgesFacts DEF Steady, Responding, Phase
  <2> QED BY <1>5, <1>7, <2>2, <2>4, <2>5, Numbers DEF Replies, Reply
<1> QED BY <1>4, <1>6, <1>7

\* on_gpu_recovery: the GPU step is taken while the restored pair is held.
LEMMA RecoveryReplies ==
  ASSUME NEW k, TestOK(k), k.begun, k.sub = "RecoverGpu", NEW i \in Inputs, NEW c \in Context, ~c.reset
  PROVE  Replies(k, c, OnGpuRecovery(k, i, c))
<1> DEFINE held == Restored(k, c)
           w == Watched(k, held, i)
           u == [w EXCEPT !.sub = "Gpu", !.commanded = 0, !.pushed = Unset]
<1>1. held \in BOOLEAN
  BY DEF Restored
<1>2. /\ TestOK(w) /\ w.begun /\ w.sub = "RecoverGpu" /\ w.base = k.base
      /\ Settled(w, i) => held
  <2> HIDE DEF held
  <2> QED BY <1>1, WatchedOK
<1>3. \/ OnGpuRecovery(k, i, c) \in {Abort(w), Idle(w)}
      \/ Settled(w, i) /\ OnGpuRecovery(k, i, c) = Reply(u, 0, w.step.gpu, {})
  <2>1. OnGpuRecovery(k, i, c) = IF Settled(w, i) THEN Reply(u, 0, w.step.gpu, {})
                                 ELSE IF w.started >= SettleT THEN Abort(w) ELSE Idle(w)
    BY DEF OnGpuRecovery
  <2> HIDE DEF held, w, u
  <2> QED BY <2>1
<1>4. Settled(w, i) => c.cpu.verified /\ c.cpu.cap = w.base.cpu
  BY <1>2 DEF Restored, PairIs
<1> HIDE DEF held, w
<1>5. CASE OnGpuRecovery(k, i, c) \in {Abort(w), Idle(w)}
  BY <1>2, <1>5, AbortReplies, IdleReplies DEF TestOK
<1>6. CASE Settled(w, i) /\ OnGpuRecovery(k, i, c) = Reply(u, 0, w.step.gpu, {})
  <2>1. w \in TestType /\ Steady(w) /\ w.step.gpu \in 0..GpuMax /\ w.applied.gpu = 0
    BY <1>2 DEF TestOK, TestType, Pair, Steady
  <2> HIDE DEF u
  <2>2. /\ u \in TestType /\ u.sub = "Gpu" /\ u.begun /\ u.base = w.base /\ u.commanded = 0
        /\ u.applied = w.applied /\ u.pushed = Unset
    BY <1>2, <2>1, AgesFacts DEF TestType, u
  <2>3. Steady(u)
    BY <1>2, <2>1, <2>2, AgesFacts DEF Steady, Responding, Phase
  <2> QED BY <1>4, <1>6, <2>1, <2>2, <2>3, Numbers DEF Replies, Reply
<1> QED BY <1>3, <1>5, <1>6

\* finish_device_response: the pair is restored before the other device is stepped.
LEMMA FinishReplies ==
  ASSUME NEW k, TestOK(k), k.begun, Responding(k), NEW c \in Context,
         NEW a \in TestType, a.begun, a.sub = k.sub, a.base = k.base,
         NEW fits \in SUBSET Devices, fits # {} => Fits(k, c, fits)
  PROVE  Replies(k, c, Finish(a, fits))
<1>1. /\ a.base.cpu \in 0..CpuMax /\ a.base.gpu \in 0..GpuMax
      /\ a.base.cpu # 0 /\ a.base.gpu # 0
  BY DEF TestOK, TestType, Pair, Steady
<1>2. CASE a.sub = "Cpu"
  <2> DEFINE u == [a EXCEPT !.sub = "RecoverGpu", !.started = 0, !.commanded = Unset, !.applied.gpu = 0,
                            !.window = Unset, !.pushed = Unset]
  <2>1. [a.applied EXCEPT !.gpu = 0] \in Pair /\ [a.applied EXCEPT !.gpu = 0].gpu = 0
    BY <1>1, Numbers DEF TestType, Pair
  <2>2. u = [a EXCEPT !.sub = "RecoverGpu", !.started = 0, !.commanded = Unset,
                      !.applied = [a.applied EXCEPT !.gpu = 0], !.window = Unset, !.pushed = Unset]
    BY <1>1 DEF TestType
  <2>3. Finish(a, fits) = Reply(u, a.base.cpu, a.base.gpu, fits)
    BY <1>2 DEF Finish
  <2> HIDE DEF u
  <2>4. u \in TestType /\ u.sub = "RecoverGpu" /\ u.begun /\ u.base = a.base /\ u.applied.gpu = 0
    BY <1>1, <2>1, <2>2, AgesFacts DEF TestType
  <2>5. Steady(u)
    BY <1>1, <2>4 DEF Steady, Responding
  <2> QED BY <1>1, <2>3, <2>4, <2>5 DEF Replies, Reply
<1>3. CASE a.sub # "Cpu"
  <2> DEFINE u == [a EXCEPT !.sub = "Done", !.pushed = Unset]
  <2>1. Finish(a, fits) = Reply(u, a.base.cpu, a.base.gpu, fits)
    BY <1>3 DEF Finish
  <2>2. u \in TestType /\ u.sub = "Done"
    BY <1>1, AgesFacts DEF TestType
  <2> HIDE DEF u
  <2> QED BY <1>1, <2>1, <2>2 DEF Replies, Reply
<1> QED BY <1>2, <1>3

\* The step is seen to apply.
LEMMA AppliedOK ==
  ASSUME NEW k, TestOK(k), k.begun, Responding(k), NEW c \in Context
  PROVE  LET a == Applied(k, c)
             d == Phase(k)
         IN  /\ a \in TestType /\ a.begun /\ a.sub = k.sub /\ a.base = k.base /\ a.pushed = k.pushed
             /\ a.commanded \in CommandedBy(k, c) /\ a.commanded # Unset
             /\ \/ a = k
                \/ /\ k.applied[d] = 0 /\ k.pushed = Unset
<1> DEFINE d == Phase(k)
           a == Applied(k, c)
           applied == [k.applied EXCEPT ![d] = c[d].cap]
<1>1. k \in TestType /\ Steady(k) /\ d \in {"cpu", "gpu"}
  BY DEF TestOK, Phase
<1>2. k.commanded # Unset /\ (k.applied[d] = 0 <=> k.pushed = Unset)
  BY <1>1 DEF Steady
<1>3. c[d].done \in Ages /\ applied \in Pair
  <2>1. c.cpu \in CpuType /\ c.gpu \in GpuType /\ k.applied \in Pair
    BY <1>1 DEF Context, TestType
  <2>2. CASE d = "cpu"
    BY <2>1, <2>2 DEF CpuType, Pair
  <2>3. CASE d = "gpu"
    BY <2>1, <2>3 DEF GpuType, Pair
  <2> HIDE DEF applied, d
  <2> QED BY <1>1, <2>2, <2>3
<1>4. CASE k.applied[d] = 0 /\ c[d].verified /\ NotBefore(c[d].done, k.commanded)
  <2>1. a = [k EXCEPT !.applied = applied, !.commanded = c[d].done]
    BY <1>1, <1>4 DEF Applied, TestType
  <2>2. c[d].done \in CommandedBy(k, c) /\ c[d].done # Unset
    BY <1>4 DEF CommandedBy, NotBefore
  <2> HIDE DEF a, d, applied
  <2>3. /\ a \in TestType /\ a.begun /\ a.sub = k.sub /\ a.base = k.base /\ a.pushed = k.pushed
        /\ a.commanded = c[d].done
    BY <1>1, <1>3, <2>1 DEF TestType
  <2> QED BY <1>2, <1>4, <2>2, <2>3 DEF a, d
<1>5. CASE ~(k.applied[d] = 0 /\ c[d].verified /\ NotBefore(c[d].done, k.commanded))
  <2>1. a = k
    BY <1>5 DEF Applied
  <2> QED BY <1>1, <1>2, <2>1 DEF CommandedBy
<1> QED BY <1>4, <1>5

\* on_response.
LEMMA ResponseReplies ==
  ASSUME NEW k, TestOK(k), k.begun, Responding(k), NEW i \in Inputs, NEW c \in Context, ~c.reset
  PROVE  Replies(k, c, OnResponse(k, i, c))
<1> DEFINE d == Phase(k)
           a == Applied(k, c)
           pair == [a.base EXCEPT ![d] = a.applied[d]]
           fits == IF i.air = "moving" THEN {d} ELSE {}
           u == [a EXCEPT !.pushed = 0]
           r == OnResponse(k, i, c)
<1>1. /\ a \in TestType /\ a.begun /\ a.sub = k.sub /\ a.base = k.base /\ a.pushed = k.pushed
      /\ a.commanded \in CommandedBy(k, c) /\ a.commanded # Unset
      /\ a = k \/ (k.applied[d] = 0 /\ k.pushed = Unset)
  BY AppliedOK
<1>2. r = IF a.applied[d] = 0 THEN (IF a.commanded >= FitT THEN Abort(a) ELSE Idle(a))
          ELSE IF ~c.cpu.verified /\ c.cpu.readback # "none" THEN Abort(a)
          ELSE IF ~PairIs(c, pair) THEN Abort(a)
          ELSE IF ~Covered(a, i) THEN Finish(a, {})
          ELSE IF a.commanded < FitT THEN Idle(u)
          ELSE Finish(a, fits)
  BY <1>1 DEF OnResponse
<1>3. k \in TestType /\ Steady(k) /\ d \in {"cpu", "gpu"} /\ (d = "cpu" <=> k.sub = "Cpu") /\ k.sub \in {"Cpu", "Gpu"}
  BY DEF TestOK, Phase, Responding
<1>4. (k.applied[d] = 0 <=> k.pushed = Unset) /\ k.commanded # Unset
  BY <1>3 DEF Steady
<1>5. Phase(a) = d /\ Responding(a)
  BY <1>1, <1>3 DEF Phase, Responding
<1> HIDE DEF a, u, r, fits
<1>6. CASE a.applied[d] = 0
  <2>1. r \in {Abort(a), Idle(a)}
    BY <1>2, <1>6
  <2>2. a.pushed = Unset
    BY <1>1, <1>4, <1>6
  <2>3. Steady(a)
    BY <1>1, <1>3, <1>5, <1>6, <2>2 DEF Steady
  <2>4. Replies(k, c, Idle(a))
    BY <1>1, <1>3, <2>2, <2>3, Numbers DEF Replies, Idle, Reply, Stays
  <2> QED BY <1>1, <2>1, <2>4, AbortReplies DEF r
<1>7. CASE a.applied[d] # 0 /\ ~PairIs(c, pair)
  <2>1. r = Abort(a)
    BY <1>2, <1>7
  <2> QED BY <1>1, <2>1, AbortReplies DEF r
<1>8. CASE a.applied[d] # 0 /\ PairIs(c, pair) /\ ~Covered(a, i)
  <2>1. r = Abort(a) \/ r = Finish(a, {})
    BY <1>2, <1>8
  <2>2. Replies(k, c, Finish(a, {}))
    BY <1>1, FinishReplies
  <2> QED BY <1>1, <2>1, <2>2, AbortReplies DEF r
<1>9. CASE a.applied[d] # 0 /\ PairIs(c, pair) /\ Covered(a, i) /\ a.commanded < FitT
  <2>1. r = Abort(a) \/ r = Idle(u)
    BY <1>2, <1>9
  <2>2. /\ u \in TestType /\ u.sub = a.sub /\ u.begun /\ u.base = a.base /\ u.applied = a.applied
        /\ u.commanded = a.commanded /\ u.pushed = 0
    BY <1>1, AgesFacts DEF TestType, u
  <2>3. Steady(u)
    <3>1. Phase(u) = d /\ Responding(u)
      BY <1>5, <2>2 DEF Phase, Responding
    <3> QED BY <1>1, <1>3, <1>9, <2>2, <3>1, AgesFacts DEF Steady
  <2>4. Stays(k, c, u)
    <3>1. (IF a.pushed = Unset THEN a.commanded ELSE a.pushed) <= MaxGap
      BY <1>9 DEF Covered
    <3> QED BY <1>1, <2>2, <3>1, AgesFacts DEF Stays
  <2>5. Replies(k, c, Idle(u))
    BY <1>1, <1>3, <2>2, <2>3, <2>4, Numbers DEF Replies, Idle, Reply
  <2> QED BY <1>1, <2>1, <2>5, AbortReplies DEF r
<1>10. CASE a.applied[d] # 0 /\ PairIs(c, pair) /\ Covered(a, i) /\ ~(a.commanded < FitT)
  <2>1. r = Abort(a) \/ r = Finish(a, fits)
    BY <1>2, <1>10
  <2>2. a.commanded >= FitT
    <3>1. a.commanded \in Int
      BY <1>1, AgesFacts DEF TestType
    <3> QED BY <1>10, <3>1, Numbers
  <2>3. a = k
    \* A step that is only now seen to apply was commanded a moment ago.
    <3>1. (IF a.pushed = Unset THEN a.commanded ELSE a.pushed) <= MaxGap
      BY <1>10 DEF Covered
    <3>2. a.commanded \in Int
      BY <1>1, AgesFacts DEF TestType
    <3> QED BY <1>1, <2>2, <3>1, <3>2, Numbers
  <2>4. /\ c.cpu.verified /\ c.cpu.cap = pair.cpu /\ c.gpu.cap = pair.gpu
    BY <1>10 DEF PairIs
  <2>5. /\ pair.cpu = IF k.sub = "Cpu" THEN k.applied.cpu ELSE k.base.cpu
        /\ pair.gpu = IF k.sub = "Gpu" THEN k.applied.gpu ELSE k.base.gpu
    BY <1>3, <2>3 DEF TestType, Pair
  <2>6. fits \in SUBSET Devices /\ (fits # {} => Fits(k, c, fits))
    BY <1>3, <1>10, <2>2, <2>3, <2>4, <2>5 DEF Fits, fits, Devices
  <2>7. Replies(k, c, Finish(a, fits))
    BY <1>1, <2>6, FinishReplies
  <2> QED BY <1>1, <2>1, <2>7, AbortReplies DEF r
<1> QED BY <1>6, <1>7, <1>8, <1>9, <1>10

\* The test k is t when a sample has passed.
IsAged(k, t, dt) ==
  /\ k.base = t.base /\ k.applied = t.applied
  /\ k.commanded = Aged(t.commanded, dt) /\ k.pushed = Aged(t.pushed, dt)

\* on_sample: a reply to the aged test.
LEMMA SampleReplies ==
  ASSUME NEW t, TestOK(t), NEW i \in Inputs, NEW c \in Context
  PROVE  \E k : /\ TestOK(k) /\ k.begun /\ k.sub = t.sub /\ (t.begun => IsAged(k, t, i.dt))
                /\ Replies(k, c, OnSample(t, i, c))
<1> DEFINE b == Begin(t, i, c)
           s == [b EXCEPT !.streak = Streak(t, i)]
           key == s.key \/ i.view
           k == [s EXCEPT !.key = key]
           r == OnSample(t, i, c)
<1>1. t \in TestType /\ Steady(t)
  BY DEF TestOK
<1>2. /\ TestOK(b) /\ b.begun /\ b.sub = t.sub
      /\ t.begun => IsAged(b, t, i.dt)
  BY <1>1, BegunOK, BeginsOK DEF IsAged, Steady
<1>3. Streak(t, i) \in 0..HotStreak
  <2>1. t.streak \in 0..HotStreak
    BY <1>1 DEF TestType
  <2> QED BY <2>1, Numbers DEF Streak, Least
<1>4. key \in BOOLEAN
  OBVIOUS
<1>5. /\ TestOK(s) /\ TestOK(k) /\ k.begun /\ k.sub = t.sub
      /\ t.begun => IsAged(k, t, i.dt)
  <2>1. b \in TestType /\ Steady(b)
    BY <1>2 DEF TestOK
  <2> HIDE DEF b
  <2>2. /\ s \in TestType /\ s.begun = b.begun /\ s.sub = b.sub /\ s.base = b.base
        /\ s.applied = b.applied /\ s.commanded = b.commanded /\ s.pushed = b.pushed
    BY <1>3, <2>1 DEF TestType
  <2> HIDE DEF s, key
  <2>3. /\ k \in TestType /\ k.begun = s.begun /\ k.sub = s.sub /\ k.base = s.base
        /\ k.applied = s.applied /\ k.commanded = s.commanded /\ k.pushed = s.pushed
    BY <1>4, <2>2 DEF TestType
  <2> HIDE DEF k
  <2>4. Steady(s) /\ Steady(k)
    BY <2>1, <2>2, <2>3 DEF Steady, Responding, Phase
  <2> QED BY <1>2, <2>2, <2>3, <2>4 DEF TestOK, IsAged
<1>6. r = IF i.alarm = "clock" /\ t.begun THEN Abort(t)
          ELSE IF Hot(t, i) THEN Abort(s)
          ELSE IF s.key /\ ~i.view THEN Abort(s)
          ELSE IF ~t.begun THEN Reply(k, k.base.cpu, k.base.gpu, {})
          ELSE IF c.reset THEN Retry(k)
          ELSE CASE k.sub = "Settle" -> OnSettle(k, i, c)
                 [] k.sub = "RecoverGpu" -> OnGpuRecovery(k, i, c)
                 [] OTHER -> OnResponse(k, i, c)
  BY DEF OnSample
<1> HIDE DEF b, s, k, r
<1>7. Replies(k, c, r)
  <2>1. CASE r = Abort(t) \/ r = Abort(s)
    BY <1>1, <1>5, <2>1, AbortReplies DEF TestOK
  <2>2. CASE ~t.begun /\ r = Reply(k, k.base.cpu, k.base.gpu, {})
    <3>1. k.sub = "Settle" /\ k \in TestType /\ Steady(k)
      BY <1>1, <1>5, <2>2 DEF Steady, TestOK
    <3> QED BY <2>2, <3>1 DEF Replies, Reply, TestType, Pair
  <2>3. CASE r = Retry(k)
    BY <1>5, <2>3, RetryReplies
  <2>4. CASE ~c.reset /\ k.sub = "Settle" /\ r = OnSettle(k, i, c)
    BY <1>5, <2>4, SettleReplies
  <2>5. CASE ~c.reset /\ k.sub = "RecoverGpu" /\ r = OnGpuRecovery(k, i, c)
    BY <1>5, <2>5, RecoveryReplies
  <2>6. CASE ~c.reset /\ k.sub \in {"Cpu", "Gpu"} /\ r = OnResponse(k, i, c)
    BY <1>5, <2>6, ResponseReplies DEF Responding
  <2>7. k.sub \in {"Settle", "Cpu", "RecoverGpu", "Gpu"}
    BY <1>5 DEF TestOK, TestType, Steady
  <2> QED BY <1>6, <2>1, <2>2, <2>3, <2>4, <2>5, <2>6, <2>7
<1> QED BY <1>5, <1>7 DEF r
-----------------------------------------------------------------------------
(* The controller's half.                                                  *)

\* A check of the cap tells what the hardware has, or that it could not be told.
LEMMA CheckOK ==
  ASSUME NEW v \in CpuType, NEW h \in 0..CpuMax, NEW i \in Inputs, NEW f \in Check(v, h, i)
  PROVE  /\ f.cpu \in CpuType /\ f.cpu.cap = v.cap /\ f.cpu.done = v.done
         /\ f.hw \in 0..CpuMax /\ f.reset \in BOOLEAN
         /\ f.cpu.verified => f.hw = v.cap
         /\ ~f.reset => f.hw = h
<1> DEFINE read(verified, r) == [v EXCEPT !.checked = 0, !.verified = verified, !.readback = r]
<1>1. ASSUME NEW verified \in BOOLEAN, NEW r \in {"held", "bad"}
      PROVE  /\ read(verified, r) \in CpuType /\ read(verified, r).cap = v.cap
             /\ read(verified, r).done = v.done /\ read(verified, r).verified = verified
  BY AgesFacts DEF CpuType
<1>2. v.cap \in 0..CpuMax
  BY DEF CpuType
<1>3. \/ f = [cpu |-> read(FALSE, "bad"), hw |-> h, reset |-> FALSE]
      \/ h = v.cap /\ f = [cpu |-> read(TRUE, "held"), hw |-> h, reset |-> FALSE]
      \/ \E z \in {h, v.cap} : f = [cpu |-> read(FALSE, "bad"), hw |-> z, reset |-> TRUE]
      \/ f = [cpu |-> read(TRUE, "bad"), hw |-> v.cap, reset |-> TRUE]
  BY DEF Check
<1> HIDE DEF read
<1>4. ASSUME NEW verified \in BOOLEAN, NEW r \in {"held", "bad"}, NEW z \in {h, v.cap}, NEW reset \in BOOLEAN,
             f = [cpu |-> read(verified, r), hw |-> z, reset |-> reset],
             verified => z = v.cap, ~reset => z = h
      PROVE  /\ f.cpu \in CpuType /\ f.cpu.cap = v.cap /\ f.cpu.done = v.done
             /\ f.hw \in 0..CpuMax /\ f.reset \in BOOLEAN
             /\ f.cpu.verified => f.hw = v.cap
             /\ ~f.reset => f.hw = h
  <2>1. f.cpu = read(verified, r) /\ f.hw = z /\ f.reset = reset
    BY <1>4
  <2> QED BY <1>1, <1>2, <1>4, <2>1
<1> QED BY <1>3, <1>4

\* build_calib_context: the controller believes no more of the hardware than is so, and at the end
\* of a response it has just read the cap.
LEMMA ContextOK ==
  ASSUME TypeOK, Believed, NEW i \in Inputs, NEW c \in Contexts(i)
  PROVE  /\ c \in Context
         /\ c.cpu.cap = cpu.cap /\ c.cpu.done = Aged(cpu.done, i.dt)
         /\ c.gpu.cap = gpu.cap /\ c.gpu.done = Aged(gpu.done, i.dt)
         /\ c.cpu.verified => c.hw \in {0, cpu.cap}
         /\ ~c.reset => c.hw = hw.cpu
         /\ /\ ~c.reset /\ c.cpu.verified /\ cpu.cap # 0
            /\ Responding(test) /\ Aged(test.commanded, i.dt) >= FitT
            => hw.cpu = cpu.cap
<1> DEFINE checked == AgedTo(CheckT, cpu.checked, i.dt)
           v == [cpu EXCEPT !.checked = checked, !.done = Aged(cpu.done, i.dt)]
           g == [gpu EXCEPT !.done = Aged(gpu.done, i.dt), !.verified = gpu.done # Unset /\ i.seen]
           due == Due(v, FinishingResponse([test EXCEPT !.commanded = Aged(test.commanded, i.dt)]))
           plain == [cpu |-> v, hw |-> hw.cpu, reset |-> FALSE]
<1>1. /\ cpu \in CpuType /\ gpu \in GpuType /\ hw.cpu \in 0..CpuMax /\ auto \in BOOLEAN /\ test \in TestType
      /\ i.dt \in Gaps
  BY InputsOK DEF TypeOK, CpuType, GpuType, TestType, Pair
<1>2. /\ checked \in Ages /\ Aged(cpu.done, i.dt) \in Ages /\ Aged(gpu.done, i.dt) \in Ages
  <2>1. cpu.checked \in Ages /\ cpu.done \in Ages /\ gpu.done \in Ages
    BY <1>1 DEF CpuType, GpuType
  <2> QED BY <1>1, <2>1, AgedOK, AgedToOK, AgesFacts, Numbers
<1> HIDE DEF checked
<1>3. /\ v \in CpuType /\ v.cap = cpu.cap /\ v.done = Aged(cpu.done, i.dt) /\ v.verified = cpu.verified
  BY <1>1, <1>2 DEF CpuType
<1>4. /\ g \in GpuType /\ g.cap = gpu.cap /\ g.done = Aged(gpu.done, i.dt)
  <2>1. (gpu.done # Unset /\ i.seen) \in BOOLEAN
    OBVIOUS
  <2> QED BY <1>1, <1>2, <2>1 DEF GpuType
<1>5. PICK f \in (IF due THEN Check(v, hw.cpu, i) ELSE {plain}) :
        c = [cpu |-> f.cpu, gpu |-> g, auto |-> auto, reset |-> f.reset, hw |-> f.hw]
  BY DEF Contexts, checked
<1>6. v.cap # 0 /\ Responding(test) /\ Aged(test.commanded, i.dt) >= FitT => due
  BY <1>1 DEF Due, FinishingResponse, Responding, TestType
<1> HIDE DEF v, g, due
<1>7. /\ f.cpu \in CpuType /\ f.cpu.cap = v.cap /\ f.cpu.done = v.done
      /\ f.hw \in 0..CpuMax /\ f.reset \in BOOLEAN
      /\ f.cpu.verified => f.hw \in {0, v.cap}
      /\ ~f.reset => f.hw = hw.cpu
      /\ due /\ f.cpu.verified => f.hw = v.cap
  <2>1. CASE due
    <3>1. f \in Check(v, hw.cpu, i)
      BY <2>1
    <3> QED BY <1>1, <1>3, <3>1, CheckOK
  <2>2. CASE ~due
    <3>1. f = plain
      BY <2>2
    <3>2. f.cpu = v /\ f.hw = hw.cpu /\ f.reset = FALSE
      BY <3>1
    <3>3. cpu.verified => hw.cpu \in {0, cpu.cap}
      BY DEF Believed
    <3> QED BY <1>1, <1>3, <2>2, <3>2, <3>3
  <2> QED BY <2>1, <2>2
<1>8. c \in Context
  BY <1>1, <1>4, <1>5, <1>7 DEF Context
<1> QED BY <1>3, <1>4, <1>5, <1>6, <1>7, <1>8

\* SetCpuMaxWatts keeps to what is so.
LEMMA SetCpuOK ==
  ASSUME NEW v \in CpuType, NEW h \in 0..CpuMax, NEW level \in 0..CpuMax, NEW x \in SetCpu(v, h, level),
         v.verified => h \in {0, v.cap}
  PROVE  /\ x.cpu \in CpuType /\ x.hw \in 0..CpuMax
         /\ x.cpu.verified => x.hw \in {0, x.cpu.cap}
         /\ x.cpu.done \in {v.done, 0}
         /\ level = 0 => x.cpu = v /\ x.hw = h
<1> DEFINE new == [cap |-> level, verified |-> TRUE, checked |-> 0, readback |-> "held", done |-> 0]
           lost == [v EXCEPT !.verified = FALSE, !.checked = 0, !.readback = "bad"]
<1>1. new \in CpuType /\ new.cap = level /\ new.done = 0
  BY AgesFacts DEF CpuType
<1>2. lost \in CpuType /\ ~lost.verified /\ lost.done = v.done
  BY AgesFacts DEF CpuType
<1>3. \/ x = [cpu |-> v, hw |-> h]
      \/ level # 0 /\ x = [cpu |-> new, hw |-> level]
      \/ level # 0 /\ \E z \in {h, level} : x = [cpu |-> lost, hw |-> z]
  BY DEF SetCpu
<1> HIDE DEF new, lost
<1> QED BY <1>1, <1>2, <1>3

\* So does SetGpuMaxClock.
LEMMA SetGpuOK ==
  ASSUME NEW g \in GpuType, NEW level \in 0..GpuMax, NEW y \in SetGpu(g, g.cap, level)
  PROVE  /\ y.gpu \in GpuType /\ y.hw = y.gpu.cap /\ y.gpu.done \in {g.done, 0}
         /\ level = 0 => y.gpu = g
<1> DEFINE new == [cap |-> level, verified |-> FALSE, done |-> 0]
           lost == [g EXCEPT !.verified = FALSE]
<1>1. new \in GpuType /\ new.cap = level /\ new.done = 0
  BY AgesFacts DEF GpuType
<1>2. lost \in GpuType /\ lost.cap = g.cap /\ lost.done = g.done
  BY DEF GpuType
<1>3. \/ y = [gpu |-> g, hw |-> g.cap]
      \/ level # 0 /\ y = [gpu |-> new, hw |-> level]
      \/ level # 0 /\ y = [gpu |-> lost, hw |-> g.cap]
  BY DEF SetGpu
<1> HIDE DEF new, lost
<1> QED BY <1>1, <1>2, <1>3
-----------------------------------------------------------------------------
(* The steps.                                                              *)

\* The types, by the variables.
Typed ==
  /\ mode \in {"idle", "calibrating"}
  /\ auto \in BOOLEAN /\ burner \in BOOLEAN /\ down \in BOOLEAN /\ upset \in BOOLEAN
  /\ test \in TestType /\ cpu \in CpuType /\ gpu \in GpuType
  /\ changes \in SUBSET Devices /\ saved \in SUBSET Devices /\ hw \in Pair

\* The type invariant, taken apart.
LEMMA TypedIs == (TypeOK <=> Typed) /\ (TypeOK <=> Typed)'
<1> USE DEF TypeOK, Typed, TestType, CpuType, GpuType, Pair
<1>1. TypeOK <=> Typed
  OBVIOUS
<1>2. (TypeOK <=> Typed)'
  BY <1>1, PTL
<1> QED BY <1>1, <1>2

\* What a fit found, as the property has it.
FitMeasures(d) ==
  /\ ~upset /\ d = Phase(test)
  /\ hw.cpu = IF d = "cpu" THEN test.applied.cpu ELSE test.base.cpu
  /\ hw.gpu = IF d = "gpu" THEN test.applied.gpu ELSE test.base.gpu

\* A test that has ended, or is new, asks nothing of the hardware.
LEMMA QuietOK ==
  ASSUME Typed', test' = NewTest, ~upset', Believed'
  PROVE  IInv'
<1>1. TestOK(test') /\ test'.sub = "Settle"
  BY NewOK
<1>2. OneStepAtATime'
  BY <1>1, TypedIs DEF OneStepAtATime
<1>3. Steady(test)'
  BY <1>1 DEF TestOK, Steady, Responding, Phase
<1>4. NothingNewer' /\ UpsetShows'
  BY <1>1 DEF NothingNewer, UpsetShows, Responding
<1> QED BY <1>2, <1>3, <1>4 DEF IInv

\* A sample of a calibration.
LEMMA SampleOK ==
  ASSUME IInv, Sample
  PROVE  IInv' /\ \A d \in changes' \ changes : FitMeasures(d)
<1> DEFINE Done(r, x, y, i) ==
             /\ hw' = [cpu |-> x.hw, gpu |-> y.hw]
             /\ changes' = changes \cup r.fits
             /\ IF r.test.sub = "Done"
                THEN saved' = changes' /\ EndCalibration(x.cpu, y.gpu)
                ELSE /\ test' = r.test /\ cpu' = x.cpu /\ gpu' = y.gpu
                     /\ burner' = TRUE
                     /\ UNCHANGED <<mode, auto, saved>>
             /\ upset' = (Responding(r.test) /\ r.test.sub = test.sub /\ (upset \/ Disturbs(i)))
<1> PICK i \in Inputs :
       \E c \in Contexts(i) :
         LET r == OnSample(test, i, c)
         IN  \E x \in SetCpu(c.cpu, c.hw, r.cpu), y \in SetGpu(c.gpu, hw.gpu, r.gpu) : Done(r, x, y, i)
  BY DEF Sample
<1> PICK c \in Contexts(i) :
       LET r == OnSample(test, i, c)
       IN  \E x \in SetCpu(c.cpu, c.hw, r.cpu), y \in SetGpu(c.gpu, hw.gpu, r.gpu) : Done(r, x, y, i)
  OBVIOUS
<1> DEFINE r == OnSample(test, i, c)
<1> PICK x \in SetCpu(c.cpu, c.hw, r.cpu), y \in SetGpu(c.gpu, hw.gpu, r.gpu) : Done(r, x, y, i)
  OBVIOUS
<1>1. Typed /\ Believed /\ TestOK(test) /\ NothingNewer /\ UpsetShows /\ OneStepAtATime /\ TypeOK
  BY TypedIs DEF IInv, OneStepAtATime, Typed, TestOK
<1>2. /\ c \in Context /\ i.dt \in Gaps
      /\ c.cpu.cap = cpu.cap /\ c.cpu.done = Aged(cpu.done, i.dt)
      /\ c.gpu.cap = gpu.cap /\ c.gpu.done = Aged(gpu.done, i.dt)
      /\ c.cpu.verified => c.hw \in {0, cpu.cap}
      /\ ~c.reset => c.hw = hw.cpu
      /\ /\ ~c.reset /\ c.cpu.verified /\ cpu.cap # 0
         /\ Responding(test) /\ Aged(test.commanded, i.dt) >= FitT
         => hw.cpu = cpu.cap
  BY <1>1, ContextOK, InputsOK
<1>3. PICK k : /\ TestOK(k) /\ k.begun /\ k.sub = test.sub /\ (test.begun => IsAged(k, test, i.dt))
               /\ Replies(k, c, r)
  BY <1>1, <1>2, SampleReplies
<1> HIDE DEF r
<1>4. /\ c.cpu \in CpuType /\ c.gpu \in GpuType /\ c.hw \in 0..CpuMax
      /\ r.test \in TestType /\ r.cpu \in 0..CpuMax /\ r.gpu \in 0..GpuMax
      /\ hw.gpu = c.gpu.cap
  BY <1>1, <1>2, <1>3 DEF Context, Replies, Believed
<1>5. /\ x.cpu \in CpuType /\ x.hw \in 0..CpuMax
      /\ x.cpu.verified => x.hw \in {0, x.cpu.cap}
      /\ x.cpu.done \in {c.cpu.done, 0}
      /\ r.cpu = 0 => x.cpu = c.cpu /\ x.hw = c.hw
  BY <1>2, <1>4, SetCpuOK
<1>6. /\ y.gpu \in GpuType /\ y.hw = y.gpu.cap /\ y.gpu.done \in {c.gpu.done, 0}
      /\ r.gpu = 0 => y.gpu = c.gpu
  BY <1>4, SetGpuOK
<1>7. Responding(test) => test.begun
  BY <1>1 DEF TestOK, Steady, Responding
<1>8. hw' \in Pair /\ hw'.cpu = x.hw /\ hw'.gpu = y.hw
  BY <1>5, <1>6 DEF GpuType, Pair
<1>9. r.fits \in SUBSET Devices
  BY <1>3 DEF Replies, Fits, Phase, Devices
<1>10. ASSUME r.test.sub = "Done" PROVE IInv'
  <2>1. saved' = changes' /\ EndCalibration(x.cpu, y.gpu)
    BY <1>10
  <2>2. /\ NoCpu(x.cpu.cap) \in CpuType /\ ~NoCpu(x.cpu.cap).verified
        /\ NoGpu(y.gpu.cap) \in GpuType /\ NoGpu(y.gpu.cap).cap = y.gpu.cap
    BY <1>5, <1>6, NewOK DEF CpuType, GpuType
  <2>3. ~upset'
    BY <1>10 DEF Responding
  <2>4. Believed'
    BY <1>6, <1>8, <2>1, <2>2 DEF Believed, EndCalibration
  <2>5. Typed'
    BY <1>1, <1>8, <1>9, <2>1, <2>2, <2>3, NewOK DEF Typed, EndCalibration, TestOK, Sample
  <2>6. test' = NewTest
    BY <2>1 DEF EndCalibration
  <2> QED BY <2>3, <2>4, <2>5, <2>6, QuietOK
<1>11. ASSUME r.test.sub # "Done" PROVE IInv'
  <2> DEFINE u == r.test
  <2>1. /\ test' = u /\ cpu' = x.cpu /\ gpu' = y.gpu /\ burner' = TRUE
        /\ UNCHANGED <<mode, auto, saved, down>>
    BY <1>11 DEF Sample
  <2>2. Steady(u) /\ TestOK(u)
    BY <1>3, <1>4, <1>11 DEF Replies, TestOK
  <2>3. upset' \in BOOLEAN
    OBVIOUS
  <2>4. Typed'
    BY <1>1, <1>4, <1>5, <1>6, <1>8, <1>9, <2>1, <2>3 DEF Typed
  <2>5. Believed'
    BY <1>5, <1>6, <1>8, <2>1 DEF Believed
  <2>6. u.sub = "Cpu" =>
          /\ y.gpu = c.gpu
          /\ \/ test.sub = "Cpu" /\ x.cpu = c.cpu /\ x.hw = c.hw /\ ~c.reset /\ Stays(k, c, u)
             \/ test.sub # "Cpu" /\ c.gpu.cap = u.base.gpu /\ u.commanded = 0
    BY <1>3, <1>5, <1>6 DEF Replies
  <2>7. u.sub = "Gpu" =>
          /\ x.cpu = c.cpu /\ x.hw = c.hw /\ ~c.reset
          /\ \/ test.sub = "Gpu" /\ y.gpu = c.gpu /\ Stays(k, c, u)
             \/ test.sub # "Gpu" /\ c.cpu.verified /\ c.cpu.cap = u.base.cpu /\ u.commanded = 0
    BY <1>3, <1>5, <1>6 DEF Replies
  <2> HIDE DEF u
  <2>8. OneStepAtATime'
    <3>1. ASSUME u.sub = "Gpu" PROVE x.hw \in {0, u.base.cpu}
      <4>1. CASE test.sub = "Gpu"
        <5>1. hw.cpu \in {0, test.base.cpu} /\ u.base = k.base /\ k.base = test.base
          BY <1>1, <1>3, <1>7, <2>7, <3>1, <4>1 DEF OneStepAtATime, Stays, Responding, IsAged
        <5> QED BY <1>2, <2>7, <3>1, <5>1
      <4>2. CASE test.sub # "Gpu"
        BY <1>2, <2>7, <3>1, <4>2
      <4> QED BY <4>1, <4>2
    <3>2. ASSUME u.sub = "Cpu" PROVE y.hw = u.base.gpu
      <4>1. CASE test.sub = "Cpu"
        <5>1. hw.gpu = test.base.gpu /\ u.base = k.base /\ k.base = test.base
          BY <1>1, <1>3, <1>7, <2>6, <3>2, <4>1 DEF OneStepAtATime, Stays, Responding, IsAged
        <5> QED BY <1>4, <1>6, <2>6, <3>2, <5>1
      <4>2. CASE test.sub # "Cpu"
        BY <1>6, <2>6, <3>2, <4>2
      <4> QED BY <4>1, <4>2
    <3> QED BY <1>8, <2>1, <2>4, <3>1, <3>2, TypedIs DEF OneStepAtATime
  <2> DEFINE d == Phase(u)
             done == IF d = "cpu" THEN cpu.done ELSE gpu.done
             aged == Aged(done, i.dt)
  <2>9. u.sub \in {"Cpu", "Gpu"} => (d = "cpu" <=> u.sub = "Cpu") /\ d \in {"cpu", "gpu"}
    BY DEF Phase
  <2>10. done \in Ages /\ test.commanded \in Ages /\ test.pushed \in Ages
    BY <1>1 DEF Typed, TestType, CpuType, GpuType
  <2>11. ASSUME Responding(u), u.sub = test.sub
         PROVE  /\ Stays(k, c, u) /\ ~c.reset /\ hw'.cpu = hw.cpu
                /\ (IF d = "cpu" THEN cpu'.done ELSE gpu'.done) = aged /\ c[Phase(k)].done = aged
                /\ IsAged(k, test, i.dt) /\ Responding(test) /\ Phase(test) = d
    <3>1. Stays(k, c, u) /\ ~c.reset /\ x.hw = c.hw /\ x.cpu = c.cpu /\ y.gpu = c.gpu
      BY <2>6, <2>7, <2>11 DEF Responding
    <3>2. Phase(k) = d /\ Phase(test) = d /\ Responding(test)
      BY <1>3, <2>11 DEF Phase, Responding
    <3>3. c.cpu.done = Aged(cpu.done, i.dt) /\ c.gpu.done = Aged(gpu.done, i.dt)
      BY <1>2
    <3>4. c[d].done = aged
      BY <2>9, <2>11, <3>3 DEF Responding
    <3>5. (IF d = "cpu" THEN cpu'.done ELSE gpu'.done) = aged
      BY <2>1, <2>9, <2>11, <3>1, <3>3 DEF Responding
    <3> QED BY <1>2, <1>3, <1>7, <1>8, <3>1, <3>2, <3>4, <3>5
  <2> HIDE DEF d, done, aged
  <2>12. ASSUME Responding(u), u.sub = test.sub, test.pushed = Unset
         PROVE  done = Unset \/ done >= test.commanded
    <3>1. DoneOf(Phase(test)) = done
      BY <2>11, <2>12 DEF DoneOf, done
    <3> QED BY <1>1, <2>11, <2>12, <3>1 DEF NothingNewer
  <2>13. ASSUME Responding(u), u.sub = test.sub, test.pushed = Unset
         PROVE  /\ k.commanded \in Ages /\ k.commanded # Unset
                /\ aged = Unset \/ aged >= k.commanded
                /\ CommandedBy(k, c) = {k.commanded}
    <3>1. test.commanded # Unset /\ k.commanded = Aged(test.commanded, i.dt)
      BY <1>1, <2>11, <2>13 DEF TestOK, Steady, IsAged
    <3>2. k.commanded \in Ages /\ k.commanded # Unset /\ aged \in Ages /\ (aged = Unset <=> done = Unset)
      BY <1>2, <2>10, <3>1, AgedOK DEF aged
    <3>3. done # Unset => aged >= k.commanded
      BY <1>2, <2>10, <2>12, <2>13, <3>1, AgedOK DEF aged
    <3>4. c[Phase(k)].done = aged
      BY <2>11, <2>13
    <3>5. aged # Unset /\ aged <= k.commanded => aged = k.commanded
      <4>1. aged \in Int /\ k.commanded \in Int
        BY <3>2, AgesFacts
      <4> QED BY <3>2, <3>3, <4>1
    <3> QED BY <3>2, <3>3, <3>4, <3>5 DEF CommandedBy
  <2>14. NothingNewer'
    <3> SUFFICES ASSUME Responding(u), u.pushed = Unset
                 PROVE  LET now == IF d = "cpu" THEN cpu'.done ELSE gpu'.done
                        IN  now = Unset \/ now >= u.commanded
      BY <2>1 DEF NothingNewer, DoneOf, d
    <3>1. CASE u.sub = test.sub
      <4>1. k.pushed = Unset /\ u.commanded \in CommandedBy(k, c)
        BY <2>11, <3>1 DEF Stays
      <4>2. test.pushed = Unset
        BY <1>2, <2>10, <2>11, <3>1, <4>1, AgedOK DEF IsAged
      <4> QED BY <2>11, <2>13, <3>1, <4>1, <4>2
    <3>2. CASE u.sub # test.sub
      <4>1. u.commanded = 0
        BY <2>6, <2>7, <3>2 DEF Responding
      <4>2. cpu'.done \in Ages /\ gpu'.done \in Ages
        BY <1>5, <1>6, <2>1 DEF CpuType, GpuType
      <4> QED BY <4>1, <4>2, AgesFacts
    <3> QED BY <3>1, <3>2
  <2>15. UpsetShows'
    <3> SUFFICES ASSUME upset' PROVE Responding(u) /\ (hw'.cpu = 0 \/ (u.pushed = Unset /\ u.commanded > MaxGap))
      BY <2>1 DEF UpsetShows
    <3>1. Responding(u) /\ u.sub = test.sub /\ (upset \/ Disturbs(i))
      BY DEF u
    <3>2. hw'.cpu = hw.cpu /\ Stays(k, c, u) /\ IsAged(k, test, i.dt)
      BY <2>11, <3>1
    <3>3. ASSUME test.pushed = Unset, k.commanded > MaxGap
          PROVE  u.pushed = Unset /\ u.commanded > MaxGap
      <4>1. k.pushed = Unset
        BY <1>2, <2>10, <3>2, <3>3, AgedOK DEF IsAged
      <4>2. ~\E m \in CommandedBy(k, c) : m <= MaxGap
        <5>1. k.commanded \in Int /\ MaxGap \in Int
          <6>1. k.commanded \in Ages
            BY <2>13, <3>1, <3>3
          <6>2. Ages \subseteq Int
            BY AgesFacts
          <6>3. MaxGap \in Int
            BY Numbers
          <6> QED BY <6>1, <6>2, <6>3
        <5>2. ~(k.commanded <= MaxGap)
          BY <3>3, <5>1
        <5> QED BY <2>13, <3>1, <3>3, <5>2
      <4>3. u.pushed = Unset /\ u.commanded \in CommandedBy(k, c)
        BY <3>2, <4>1, <4>2 DEF Stays
      <4> QED BY <2>13, <3>1, <3>3, <4>3
    <3>4. CASE upset /\ hw.cpu = 0
      BY <3>1, <3>2, <3>4
    <3>5. CASE upset /\ hw.cpu # 0
      <4>1. test.pushed = Unset /\ test.commanded > MaxGap
        BY <1>1, <3>5 DEF UpsetShows
      <4>2. k.commanded > MaxGap
        <5>1. test.commanded # Unset
          BY <1>1, <2>11, <3>1 DEF TestOK, Steady
        <5> QED BY <1>2, <2>10, <3>2, <4>1, <5>1, AgedOK DEF IsAged
      <4> QED BY <3>1, <3>3, <4>1, <4>2
    <3>6. CASE Disturbs(i)
      <4>1. i.dt > MaxGap /\ test.commanded # Unset /\ i.dt \in Nat
        BY <1>1, <1>2, <2>11, <3>1, <3>6, Numbers DEF TestOK, Steady, Disturbs
      <4>2. k.commanded >= i.dt /\ k.commanded \in Ages
        BY <1>2, <2>10, <3>2, <4>1, AgedOK DEF IsAged
      <4>3. k.commanded > MaxGap
        <5>1. k.commanded \in Int
          BY <4>2, AgesFacts
        <5>2. MaxGap \in Int
          BY Numbers
        <5> QED BY <4>1, <4>2, <5>1, <5>2
      <4>4. test.pushed = Unset
        <5> SUFFICES ASSUME test.pushed # Unset PROVE FALSE
          OBVIOUS
        <5>1. k.pushed # Unset /\ k.pushed >= i.dt /\ k.pushed \in Ages
          BY <1>2, <2>10, <3>2, AgedOK DEF IsAged
        <5>2. ~(k.pushed <= MaxGap)
          <6>1. k.pushed \in Int
            BY <5>1, AgesFacts
          <6>2. MaxGap \in Int
            BY Numbers
          <6> QED BY <4>1, <5>1, <6>1, <6>2
        <5> QED BY <3>2, <5>1, <5>2 DEF Stays
      <4> QED BY <3>1, <3>3, <4>3, <4>4
    <3> QED BY <3>1, <3>4, <3>5, <3>6
  <2> QED BY <2>1, <2>2, <2>5, <2>8, <2>14, <2>15 DEF IInv, TestOK
<1>12. \A d \in changes' \ changes : FitMeasures(d)
  <2> SUFFICES ASSUME NEW d \in r.fits PROVE FitMeasures(d)
    OBVIOUS
  <2>1. Fits(k, c, r.fits)
    BY <1>3 DEF Replies
  <2>2. Responding(test) /\ IsAged(k, test, i.dt) /\ Phase(k) = Phase(test)
    BY <1>3, <1>7, <2>1 DEF Fits, Responding, Phase
  <2>3. d = Phase(test) /\ (d = "cpu" <=> test.sub = "Cpu") /\ (d = "gpu" <=> test.sub = "Gpu")
    BY <2>1, <2>2 DEF Fits, Phase, Responding
  <2>4. /\ cpu.cap = IF d = "cpu" THEN test.applied.cpu ELSE test.base.cpu
        /\ gpu.cap = IF d = "gpu" THEN test.applied.gpu ELSE test.base.gpu
    BY <1>2, <1>3, <2>1, <2>2, <2>3 DEF Fits, IsAged
  <2>5. test.applied[d] # 0 /\ test.base.cpu # 0
    BY <1>1, <1>7, <2>1, <2>2, <2>3 DEF Fits, IsAged, TestOK, Steady
  <2>6. cpu.cap # 0
    BY <2>3, <2>4, <2>5
  <2>7. hw.cpu = cpu.cap
    BY <1>2, <2>1, <2>2, <2>6 DEF Fits, IsAged
  <2>8. ~upset
    BY <1>1, <2>2, <2>3, <2>5, <2>6, <2>7 DEF UpsetShows, TestOK, Steady
  <2> QED BY <1>1, <2>3, <2>4, <2>7, <2>8 DEF FitMeasures, Believed
<1> QED BY <1>10, <1>11, <1>12

\* StartCalibration.
LEMMA StartOK == ASSUME IInv, StartCalibration PROVE IInv'
<1>1. Typed /\ Believed
  BY TypedIs DEF IInv, OneStepAtATime
<1>2. test' = NewTest /\ upset' = FALSE /\ changes' = {} /\ saved' = {} /\ mode' = "calibrating"
      /\ auto' \in BOOLEAN /\ UNCHANGED <<burner, down>>
  BY DEF StartCalibration
<1>3. cpu' \in CpuType /\ gpu' \in GpuType /\ hw' \in Pair /\ Believed'
  <2>1. CASE \E p \in AutoPairs : cpu' = NoCpu(p.cpu) /\ gpu' = NoGpu(p.gpu) /\ hw' = p
    <3>1. PICK p \in Pair : cpu' = NoCpu(p.cpu) /\ gpu' = NoGpu(p.gpu) /\ hw' = p
      BY <2>1, PairsAssumption DEF Pair
    <3>2. p.cpu \in 0..CpuMax /\ p.gpu \in 0..GpuMax
      BY DEF Pair
    <3> QED BY <3>1, <3>2, NewOK DEF Believed
  <2>2. CASE UNCHANGED <<cpu, gpu, hw>>
    BY <1>1, <2>2 DEF Typed, Believed
  <2>3. CASE cpu' = NoCpu(0) /\ gpu' = NoGpu(0) /\ hw' = Nothing
    <3>1. 0 \in 0..CpuMax /\ 0 \in 0..GpuMax /\ Nothing.gpu = 0
      BY Numbers DEF Nothing
    <3> QED BY <2>3, <3>1, NewOK DEF Believed
  <2> QED BY <2>1, <2>2, <2>3 DEF StartCalibration
<1>4. Typed'
  BY <1>1, <1>2, <1>3, NewOK DEF Typed, TestOK
<1> QED BY <1>2, <1>3, <1>4, QuietOK

\* An abort of the run, with or without the release after it.
LEMMA AbortRunOK == ASSUME IInv, AbortRun PROVE IInv'
<1> DEFINE r == IF test.begun THEN Abort(test) ELSE Idle(test)
<1>1. Typed /\ Believed
  BY TypedIs DEF IInv, OneStepAtATime
<1>2. r.cpu \in 0..CpuMax /\ r.gpu \in 0..GpuMax
  BY <1>1, AbortOK, Numbers DEF Typed, Idle, Reply
<1>3. PICK x \in SetCpu(cpu, hw.cpu, r.cpu), y \in SetGpu(gpu, hw.gpu, r.gpu) :
        \/ EndCalibration(x.cpu, y.gpu) /\ hw' = [cpu |-> x.hw, gpu |-> y.hw]
        \/ EndCalibration(NoCpu(0), NoGpu(0)) /\ hw' = Nothing
  BY DEF AbortRun
<1>4. upset' = FALSE /\ UNCHANGED <<changes, saved, down>>
  BY DEF AbortRun
<1> HIDE DEF r
<1>5. x.cpu \in CpuType /\ x.hw \in 0..CpuMax
  <2>1. hw.cpu \in 0..CpuMax /\ cpu \in CpuType /\ (cpu.verified => hw.cpu \in {0, cpu.cap})
    BY <1>1 DEF Typed, Pair, Believed
  <2> QED BY <1>2, <2>1, SetCpuOK
<1>6. y.gpu \in GpuType /\ y.hw = y.gpu.cap
  <2>1. hw.gpu = gpu.cap /\ gpu \in GpuType
    BY <1>1 DEF Typed, Believed
  <2> QED BY <1>2, <2>1, SetGpuOK
<1>7. \E v \in CpuType, g \in GpuType : EndCalibration(v, g) /\ hw' \in Pair /\ hw'.gpu = g.cap
  <2>1. CASE EndCalibration(x.cpu, y.gpu) /\ hw' = [cpu |-> x.hw, gpu |-> y.hw]
    <3>1. hw' \in Pair /\ hw'.gpu = y.gpu.cap
      BY <1>5, <1>6, <2>1 DEF Pair, GpuType
    <3> QED BY <1>5, <1>6, <2>1, <3>1
  <2>2. CASE EndCalibration(NoCpu(0), NoGpu(0)) /\ hw' = Nothing
    <3>1. 0 \in 0..CpuMax /\ 0 \in 0..GpuMax /\ Nothing.gpu = 0
      BY Numbers DEF Nothing
    <3>2. NoCpu(0) \in CpuType /\ NoGpu(0) \in GpuType /\ NoGpu(0).cap = 0 /\ hw' \in Pair
      BY <2>2, <3>1, NewOK
    <3> QED BY <2>2, <3>1, <3>2
  <2> QED BY <1>3, <2>1, <2>2
<1>8. PICK v \in CpuType, g \in GpuType : EndCalibration(v, g) /\ hw' \in Pair /\ hw'.gpu = g.cap
  BY <1>7
<1>9. v.cap \in 0..CpuMax /\ g.cap \in 0..GpuMax
  BY DEF CpuType, GpuType
<1>10. Typed' /\ Believed' /\ test' = NewTest
  BY <1>1, <1>4, <1>8, <1>9, NewOK DEF Typed, Believed, EndCalibration, TestOK
<1> QED BY <1>4, <1>10, QuietOK

\* The platform drops the cap.
LEMMA FirmwareResetOK == ASSUME IInv, FirmwareReset PROVE IInv'
<1>1. Typed /\ Believed /\ OneStepAtATime /\ TypeOK /\ Steady(test) /\ NothingNewer
  BY TypedIs DEF IInv, OneStepAtATime
<1>2. /\ hw' = [hw EXCEPT !.cpu = 0] /\ upset' = Responding(test)
      /\ UNCHANGED <<mode, auto, test, cpu, gpu, burner, changes, saved, down>>
  BY DEF FirmwareReset
<1>3. hw' \in Pair /\ hw'.cpu = 0 /\ hw'.gpu = hw.gpu
  BY <1>1, <1>2, Numbers DEF Typed, Pair
<1>4. upset' \in BOOLEAN
  BY <1>2 DEF Responding
<1>5. Typed'
  BY <1>1, <1>2, <1>3, <1>4 DEF Typed
<1>6. OneStepAtATime'
  BY <1>1, <1>2, <1>3, <1>5, TypedIs DEF OneStepAtATime
<1>7. Believed' /\ Steady(test)' /\ NothingNewer' /\ UpsetShows'
  BY <1>1, <1>2, <1>3 DEF Believed, Steady, Responding, Phase, NothingNewer, DoneOf, UpsetShows
<1> QED BY <1>6, <1>7 DEF IInv

\* The shutdown flag, and a step that changes nothing.
LEMMA FlagOK ==
  ASSUME IInv, down' \in BOOLEAN, UNCHANGED <<mode, auto, test, cpu, gpu, burner, changes, saved, hw, upset>>
  PROVE  IInv'
<1>1. Typed /\ OneStepAtATime
  BY TypedIs DEF IInv, OneStepAtATime
<1>2. OneStepAtATime'
  <2>1. Typed'
    BY <1>1 DEF Typed
  <2> QED BY <1>1, <2>1, TypedIs DEF OneStepAtATime
<1>3. Believed' /\ Steady(test)' /\ NothingNewer' /\ UpsetShows'
  BY DEF IInv, Believed, Steady, Responding, Phase, NothingNewer, DoneOf, UpsetShows
<1> QED BY <1>2, <1>3 DEF IInv

\* Nothing has been calibrated yet.
LEMMA InitOK == Init => IInv
<1> SUFFICES ASSUME Init PROVE IInv
  OBVIOUS
<1>1. TestOK(test) /\ test.sub = "Settle"
  BY NewOK DEF Init
<1>2. 0 \in 0..CpuMax /\ 0 \in 0..GpuMax
  BY Numbers
<1>3. Typed /\ Believed
  BY <1>1, <1>2, NewOK DEF Init, Typed, Believed, TestOK, Nothing
<1>4. OneStepAtATime
  BY <1>1, <1>3, TypedIs DEF OneStepAtATime
<1> QED BY <1>1, <1>3, <1>4 DEF IInv, TestOK, NothingNewer, UpsetShows, Responding, Init

\* Every step keeps the invariant.
LEMMA Inductive == ASSUME IInv, [Next]_vars PROVE IInv'
<1>1. CASE Sample
  BY <1>1, SampleOK
<1>2. CASE StartCalibration
  BY <1>2, StartOK
<1>3. CASE AbortRun
  BY <1>3, AbortRunOK
<1>4. CASE FirmwareReset
  BY <1>4, FirmwareResetOK
<1>5. CASE ShutDown
  BY <1>5, FlagOK DEF ShutDown
<1>6. CASE UNCHANGED vars
  <2>1. down' \in BOOLEAN
    BY <1>6, TypedIs DEF IInv, OneStepAtATime, Typed, vars
  <2> QED BY <1>6, <2>1, FlagOK DEF vars
<1> QED BY <1>1, <1>2, <1>3, <1>4, <1>5, <1>6 DEF Next

\* The invariant holds in every reachable state.
THEOREM AlwaysIInv == Spec => []IInv
  BY InitOK, Inductive, PTL DEF Spec

\* The devices are stepped one at a time, for all caps, times, retries and faults.
THEOREM OneStepCorrect == Spec => []OneStepAtATime
<1>1. IInv => OneStepAtATime
  BY DEF IInv
<1> QED BY <1>1, AlwaysIInv, PTL

\* A fit measures its step: no dropped cap and no missed sample goes unseen until the response is
\* concluded, however seldom the cap is read.
THEOREM FitsCorrect == Spec => FitsMeasureTheirStep
<1> DEFINE Step == \A d \in changes' \ changes :
                     /\ ~upset /\ d = Phase(test)
                     /\ hw.cpu = IF d = "cpu" THEN test.applied.cpu ELSE test.base.cpu
                     /\ hw.gpu = IF d = "gpu" THEN test.applied.gpu ELSE test.base.gpu
<1>1. ASSUME IInv, [Next]_vars PROVE [Step]_vars
  <2>1. CASE Sample
    BY <1>1, <2>1, SampleOK DEF FitMeasures
  <2>2. CASE ~Sample
    <3>1. changes' \subseteq changes
      BY <1>1, <2>2 DEF Next, StartCalibration, AbortRun, FirmwareReset, ShutDown, vars
    <3> QED BY <3>1
  <2> QED BY <2>1, <2>2
<1>2. IInv /\ [Next]_vars => [Step]_vars
  BY <1>1
<1> QED BY <1>2, AlwaysIInv, PTL DEF Spec, FitsMeasureTheirStep
=============================================================================
