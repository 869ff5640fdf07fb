--------------------------- MODULE DeviceLoopProofs ---------------------------
(***************************************************************************)
(* Safety of one device loop for every grid of caps, slew, headroom and    *)
(* period: its caps stay in bounds, a lowered ceiling is written at once,  *)
(* a mismatch holds everything, the hot transfer never raises a cap in     *)
(* force and no hand-over between the ways of a tick lets the request      *)
(* jump.                                                                   *)
(*                                                                         *)
(* A tick first puts the loop within the bounds of the sample (Bounded)    *)
(* and then goes one of seven ways.  Each way is shown to keep what the    *)
(* others rely on (Keeps) and not to raise the request by more than the    *)
(* slew but for the named exceptions (Rises).                              *)
(***************************************************************************)
EXTENDS DeviceLoop, TLAPS

-----------------------------------------------------------------------------
(* Operators.                                                              *)

\* The constants as the provers need them.
LEMMA Consts ==
  /\ Top \in Nat /\ Top > 0 /\ Rise \in Nat /\ Rise > 0 /\ Fall \in Nat /\ Fall > 0
  /\ ShadowRise \in Nat /\ ShadowFall \in Nat /\ PeriodT \in Nat /\ PeriodT > 0
  /\ DwellT \in Nat /\ DwellT > 0 /\ Down \in Nat /\ Up \in Nat
  /\ Headroom \in Nat /\ HotHeadroom \in Nat
  /\ None = -1 /\ Levels = 0..Top /\ Maybe = {None} \cup 0..Top
  /\ Floors \subseteq Levels /\ Draws \subseteq Levels
  BY LevelsAssumption DEF None, Levels, Maybe

\* What a tick is given.
Input ==
  {i \in [err : {"none", "hot", "cool"}, draw : {None} \cup Draws, resumed : BOOLEAN, act : Acts,
          floor : Levels, max : Levels, dt : {0, 1}] : i.floor <= i.max}

\* A loop whose bounds are set, with every cap within them.
Bound(l) == l \in Loops /\ l.floor <= l.max /\ Sound(l) /\ l.bounded

\* What a sample brings.
LEMMA InputOK ==
  ASSUME NEW i \in Input
  PROVE  /\ i.err \in {"none", "hot", "cool"} /\ i.resumed \in BOOLEAN /\ i.act \in Acts
         /\ i.floor \in 0..Top /\ i.max \in 0..Top /\ i.floor <= i.max /\ i.dt \in {0, 1}
         /\ i.draw \in {None} \cup (0..Top)
  BY Consts DEF Input

\* The fields of a bounded loop that are numbers.
LEMMA BoundOK ==
  ASSUME NEW l, Bound(l)
  PROVE  /\ l \in Loops /\ l.floor \in 0..Top /\ l.max \in 0..Top /\ l.floor <= l.max
         /\ l.thermal \in l.floor..l.max /\ l.shadow \in l.floor..l.max
         /\ l.requested \in {None} \cup l.floor..l.max /\ l.applied \in {None} \cup 0..Top
         /\ \A x : x \in l.floor..l.max => x \in 0..Top
  BY Consts DEF Bound, Sound, Loops

\* A clipped number is within the bounds, and is itself if it was.
LEMMA ClipOK ==
  ASSUME NEW l, l.floor \in 0..Top, l.max \in 0..Top, l.floor <= l.max, NEW x \in Int
  PROVE  /\ Clip(x, l) \in l.floor..l.max
         /\ x \in l.floor..l.max => Clip(x, l) = x
         /\ Clip(x, l) <= High(x, l.floor)
  BY DEF Clip, High, Low

\* The smaller and the larger of two numbers.
LEMMA LowHigh ==
  ASSUME NEW a \in Int, NEW b \in Int
  PROVE  /\ Low(a, b) \in {a, b} /\ Low(a, b) <= a /\ Low(a, b) <= b
         /\ High(a, b) \in {a, b} /\ High(a, b) >= a /\ High(a, b) >= b
  BY DEF Low, High

\* One tick is one second or none.
LEMMA Times ==
  ASSUME NEW i \in Input, NEW n \in Nat
  PROVE  n * i.dt \in 0..n
<1>1. CASE i.dt = 0
  BY <1>1
<1>2. CASE i.dt = 1
  BY <1>2
<1> QED BY <1>1, <1>2, InputOK

\* A period that is not over leaves its timer in range.
LEMMA Early ==
  ASSUME NEW i \in Input, NEW n \in 0..PeriodT, n + i.dt < PeriodT
  PROVE  n + i.dt \in 0..PeriodT
<1>1. i.dt \in 0..1
  BY InputOK
<1> QED BY <1>1, Consts

\* A slewed request rises by no more than the slew, and never above its target or the last one.
LEMMA SlewedOK ==
  ASSUME NEW l, l.requested \in {None} \cup Nat, NEW target \in Nat, NEW i \in Input, NEW bypass \in BOOLEAN
  PROVE  /\ Slewed(l, target, i.dt, bypass) \in Int
         /\ l.requested # None /\ ~bypass => Slewed(l, target, i.dt, bypass) <= l.requested + Rise
         /\ l.requested # None /\ ~bypass /\ target <= l.requested => Slewed(l, target, i.dt, bypass) <= l.requested
<1>1. Rise * i.dt \in 0..Rise /\ Fall * i.dt \in 0..Fall
  BY Times, Consts
<1>2. CASE l.requested = None \/ bypass
  BY <1>2 DEF Slewed
<1>3. CASE l.requested # None /\ ~bypass
  <2>1. l.requested \in Nat
    BY <1>3
  <2>2. Slewed(l, target, i.dt, bypass) =
          IF target > l.requested THEN Low(target, l.requested + Rise * i.dt) ELSE High(target, l.requested - Fall * i.dt)
    BY <1>3 DEF Slewed
  <2>3. /\ Low(target, l.requested + Rise * i.dt) \in Int
        /\ Low(target, l.requested + Rise * i.dt) <= l.requested + Rise
        /\ High(target, l.requested - Fall * i.dt) \in Int
        /\ target <= l.requested => High(target, l.requested - Fall * i.dt) <= l.requested
    BY <1>1, <2>1, Consts, SMTT(20) DEF Low, High
  <2> QED BY <1>3, <2>1, <2>2, <2>3, Consts
<1> QED BY <1>2, <1>3

\* What a loop asks for is within its bounds.
LEMMA TargetOK ==
  ASSUME NEW l, Bound(l), NEW draw \in 0..Top
  PROVE  Target(draw, l) \in l.floor..l.max
<1>1. draw + Headroom \in Int
  BY Consts
<1> QED BY <1>1, BoundOK, ClipOK DEF Target

\* The draws of the last seconds, and their peak.
LEMMA RecentOK ==
  ASSUME NEW l \in Loops
  PROVE  /\ Len(l.recent) \in 0..2
         /\ \A k \in 1..Len(l.recent) : l.recent[k] \in 0..Top
         /\ l.recent = <<>> <=> Len(l.recent) = 0
         /\ Ready(l) => Peak(l) \in 0..Top
<1>1. PICK n \in 0..2 : l.recent \in [1..n -> Levels]
  BY DEF Loops, History
<1>2. /\ Len(l.recent) = n /\ l.recent \in Seq(Levels)
  BY <1>1
<1>3. \A k \in 1..n : l.recent[k] \in 0..Top
  BY <1>1, Consts
<1>4. Ready(l) => l.recent[1] \in 0..Top /\ l.recent[2] \in 0..Top
  BY <1>2, <1>3 DEF Ready
<1>5. Ready(l) => Peak(l) \in 0..Top
  BY <1>2, <1>4 DEF Peak, High, Ready
<1> QED BY <1>2, <1>3, <1>5

\* A recorded draw leaves a history of draws.
LEMMA RecordedOK ==
  ASSUME NEW l \in Loops, NEW i \in Input
  PROVE  Recorded(l, i) \in History
<1>1. /\ <<>> \in [1..0 -> Levels]
      /\ \A x \in Levels : <<x>> \in [1..1 -> Levels]
      /\ \A x, y \in Levels : <<x, y>> \in [1..2 -> Levels]
  OBVIOUS
<1>2. /\ <<>> \in UNION {[1..n -> Levels] : n \in 0..2}
      /\ \A x \in Levels : <<x>> \in UNION {[1..n -> Levels] : n \in 0..2}
      /\ \A x, y \in Levels : <<x, y>> \in UNION {[1..n -> Levels] : n \in 0..2}
  BY <1>1
<1>3. i.draw # None => i.draw \in Levels
  BY InputOK, Consts
<1>4. l.recent # <<>> => l.recent[Len(l.recent)] \in Levels
  BY RecentOK, Consts
<1> QED BY <1>2, <1>3, <1>4 DEF Recorded, History
-----------------------------------------------------------------------------
(* A tick, up to where its ways part.                                      *)

\* The bounds of the sample are put on every cap, and nothing else of the loop that matters is
\* touched but the latch.
LEMMA BoundedOK ==
  ASSUME NEW l \in Loops, NEW i \in Input
  PROVE  LET b == Bounded(l, i)
         IN  /\ Bound(b) /\ b.floor = i.floor /\ b.max = i.max
             /\ b.thermal = Clip(l.thermal, b) /\ b.shadow = Clip(l.shadow, b)
             /\ b.requested = IF l.requested = None THEN None ELSE Clip(l.requested, b)
             /\ b.applied = l.applied /\ b.seen = l.seen /\ b.missing = l.missing /\ b.reset = l.reset
             /\ b.lost = l.lost /\ b.armed = l.armed /\ b.entry = l.entry /\ b.seeded = l.seeded
             /\ b.latched = (i.act = "Mismatch" \/ (l.latched /\ ~i.resumed /\ i.act # "Verified"))
<1> DEFINE b0 == [l EXCEPT !.floor = i.floor, !.max = i.max, !.bounded = TRUE]
           clip(x) == IF x = None THEN None ELSE Clip(x, b0)
           latched == i.act = "Mismatch" \/ (l.latched /\ ~i.resumed /\ i.act # "Verified")
           trim == l.trim /\ i.err # "cool"
           b == Bounded(l, i)
<1>1. /\ b0 \in Loops /\ b0.floor = i.floor /\ b0.max = i.max /\ b0.bounded = TRUE
      /\ b0.thermal = l.thermal /\ b0.shadow = l.shadow /\ b0.requested = l.requested
      /\ b0.applied = l.applied /\ b0.seen = l.seen /\ b0.missing = l.missing /\ b0.reset = l.reset
      /\ b0.lost = l.lost /\ b0.armed = l.armed /\ b0.entry = l.entry /\ b0.seeded = l.seeded
      /\ b0.latched = l.latched /\ b0.trim = l.trim
  BY InputOK, Consts, ZenonT(40) DEF Loops
<1>2. /\ l.thermal \in 0..Top /\ l.shadow \in 0..Top /\ l.requested \in {None} \cup 0..Top
      /\ l.latched \in BOOLEAN /\ l.trim \in BOOLEAN
  BY Consts DEF Loops
<1>3. b = [b0 EXCEPT !.thermal = clip(l.thermal), !.shadow = clip(l.shadow), !.requested = clip(l.requested),
                     !.recent = Recorded(l, i), !.trim = trim, !.latched = latched]
  <2> HIDE DEF b0
  <2> QED BY <1>1 DEF Bounded, b0
<1>4. latched \in BOOLEAN /\ trim \in BOOLEAN
  OBVIOUS
<1> HIDE DEF b0, trim
<1>5. /\ clip(l.thermal) = Clip(l.thermal, b0) /\ clip(l.shadow) = Clip(l.shadow, b0)
      /\ clip(l.requested) = IF l.requested = None THEN None ELSE Clip(l.requested, b0)
  BY <1>2, Consts
<1>6. /\ Clip(l.thermal, b0) \in i.floor..i.max /\ Clip(l.shadow, b0) \in i.floor..i.max
      /\ l.requested # None => Clip(l.requested, b0) \in i.floor..i.max
  BY <1>1, <1>2, InputOK, ClipOK
<1> HIDE DEF clip, latched
<1>7. \A x : x \in i.floor..i.max => x \in 0..Top
  BY InputOK, Consts
<1>8. /\ clip(l.thermal) \in Levels /\ clip(l.shadow) \in Levels /\ clip(l.requested) \in Maybe
  BY <1>5, <1>6, <1>7, Consts
<1>9. b \in Loops
  <2> DEFINE b1 == [b0 EXCEPT !.thermal = clip(l.thermal), !.shadow = clip(l.shadow), !.requested = clip(l.requested)]
  <2>1. b1 \in Loops
    BY <1>1, <1>8 DEF Loops
  <2>2. b = [b1 EXCEPT !.recent = Recorded(l, i), !.trim = trim, !.latched = latched]
    BY <1>1, <1>3 DEF Loops
  <2>3. Recorded(l, i) \in History
    BY RecordedOK
  <2> HIDE DEF b1, b
  <2> QED BY <1>4, <2>1, <2>2, <2>3, ZenonT(40) DEF Loops
<1>10. /\ b.floor = i.floor /\ b.max = i.max /\ b.bounded = TRUE
       /\ b.thermal = clip(l.thermal) /\ b.shadow = clip(l.shadow) /\ b.requested = clip(l.requested)
       /\ b.applied = l.applied /\ b.seen = l.seen /\ b.missing = l.missing /\ b.reset = l.reset
       /\ b.lost = l.lost /\ b.armed = l.armed /\ b.entry = l.entry /\ b.seeded = l.seeded
       /\ b.latched = latched
  BY <1>1, <1>3 DEF Loops
<1> HIDE DEF b
<1>11. Clip(l.thermal, b) = Clip(l.thermal, b0) /\ Clip(l.shadow, b) = Clip(l.shadow, b0)
       /\ Clip(l.requested, b) = Clip(l.requested, b0)
  BY <1>1, <1>10 DEF Clip
<1>12. Sound(b)
  BY <1>5, <1>6, <1>10 DEF Sound
<1>13. Bound(b)
  BY <1>9, <1>10, <1>12, InputOK DEF Bound
<1> QED BY <1>5, <1>10, <1>11, <1>13 DEF b, latched

\* What every way of a tick keeps of the bounded loop b in the loop n it leaves.
Keeps(b, n) ==
  /\ Bound(n) /\ n.floor = b.floor /\ n.max = b.max
  /\ n.seen = b.seen /\ n.applied = b.applied /\ n.latched = b.latched
  /\ b.seeded => n.seeded
  /\ b.requested # None => n.requested # None
  /\ ~b.seen => n.entry = b.entry

\* The request does not rise by more than the slew over the last one or the cap in force.
Rises(b, n) == n.requested <= High(b.requested, b.applied) + Rise

\* What a way of a tick is asked for: what it keeps, a cap within bounds that a loop without its
\* group does not write, and the request it may leave.
Way(b, d) ==
  /\ Keeps(b, d.loop) /\ d.cap \in b.floor..b.max /\ d.now \in BOOLEAN /\ d.allowed \in BOOLEAN
  /\ d.allowed => b.seen
  /\ b.seen /\ b.requested # None /\ ~b.reset /\ ~d.loop.lost /\ ~(b.entry /\ b.applied = None) => Rises(b, d.loop)

\* Only a hot transfer disarms.
StaysArmed(b, d) == b.armed => d.loop.armed

\* What is in bounds rises over neither the request nor the cap in force.
LEMMA RisesOK ==
  ASSUME NEW b, Bound(b), b.requested # None
  PROVE  /\ \A n : n.requested = b.requested => Rises(b, n)
         /\ \A n : b.applied # None /\ n.requested = Clip(b.applied, b) => Rises(b, n)
         /\ b.applied # None => Clip(b.applied, b) <= High(b.requested, b.applied)
<1>1. b.requested \in b.floor..b.max /\ b.floor \in 0..Top /\ b.max \in 0..Top /\ b.applied \in {None} \cup 0..Top
      /\ b.floor <= b.max
  BY BoundOK
<1>2. High(b.requested, b.applied) >= b.requested /\ High(b.requested, b.applied) >= b.applied
      /\ High(b.requested, b.applied) \in Int
  BY <1>1, Consts DEF High
<1>3. b.applied # None => Clip(b.applied, b) <= High(b.requested, b.applied) /\ Clip(b.applied, b) \in Int
  <2> SUFFICES ASSUME b.applied # None PROVE Clip(b.applied, b) <= High(b.requested, b.applied) /\ Clip(b.applied, b) \in Int
    OBVIOUS
  <2>1. Clip(b.applied, b) <= High(b.applied, b.floor) /\ Clip(b.applied, b) \in b.floor..b.max
    BY <1>1, ClipOK
  <2>2. High(b.applied, b.floor) <= High(b.requested, b.applied)
    BY <1>1 DEF High
  <2> QED BY <1>1, <1>2, <2>1, <2>2, LowHigh
<1> QED BY <1>1, <1>2, <1>3, Consts DEF Rises

\* The cap in force, or the request without one, is in bounds and rises over neither.
LEMMA InForceOK ==
  ASSUME NEW b, Bound(b)
  PROVE  /\ InForce(b) \in b.floor..b.max
         /\ b.requested # None => InForce(b) <= High(b.requested, b.applied)
<1>1. /\ b.requested \in {None} \cup b.floor..b.max /\ b.applied \in {None} \cup 0..Top
      /\ b.floor \in 0..Top /\ b.max \in 0..Top /\ b.floor <= b.max
  BY BoundOK
<1>2. CASE b.applied # None
  <2>1. InForce(b) = Clip(b.applied, b)
    BY <1>2 DEF InForce, Else
  <2> QED BY <1>1, <1>2, <2>1, ClipOK, RisesOK
<1>3. CASE b.applied = None /\ b.requested # None
  <2>1. InForce(b) = Clip(b.requested, b)
    BY <1>3 DEF InForce, Else
  <2>2. InForce(b) = b.requested
    BY <1>1, <1>3, <2>1, ClipOK
  <2> QED BY <1>1, <1>3, <2>2, LowHigh, Consts
<1>4. CASE b.applied = None /\ b.requested = None
  <2>1. InForce(b) = Clip(b.max, b)
    BY <1>4 DEF InForce, Else
  <2> QED BY <1>1, <1>4, <2>1, ClipOK
<1> QED BY <1>2, <1>3, <1>4
-----------------------------------------------------------------------------
(* The ways of a tick.                                                     *)

\* A resume: the cap in force is written again at once, and no candidate of a seeded loop moves.
LEMMA ResumedOK ==
  ASSUME NEW b, Bound(b), NEW i \in Input, i.err # "none" => b.seen, NEW d \in Resumed(b, i)
  PROVE  /\ Way(b, d) /\ StaysArmed(b, d)
         /\ b.seen => d.now /\ d.allowed
         /\ b.seeded => d.loop.thermal = b.thermal /\ d.loop.shadow = b.shadow
<1> DEFINE cap == InForce(b)
           allowed == i.err # "none" \/ b.seen
           n == [b EXCEPT !.elapsed = 0, !.missingFor = 0, !.missing = (i.err = "none"), !.lost = FALSE,
                          !.reset = FALSE, !.drawlessFor = 0, !.drawless = FALSE, !.rearm = 0,
                          !.shadowed = FALSE, !.seeded = TRUE, !.requested = cap,
                          !.thermal = IF b.seeded THEN @ ELSE cap, !.shadow = IF b.seeded THEN @ ELSE cap]
<1>1. d = [loop |-> n, cap |-> cap, now |-> allowed, allowed |-> allowed]
  BY DEF Resumed, Decide, InForce
<1>2. allowed \in BOOLEAN /\ (allowed <=> b.seen) /\ (i.err = "none") \in BOOLEAN
  <2>1. b.seen \in BOOLEAN
    BY DEF Bound, Loops
  <2> QED BY <2>1
<1>3. cap \in b.floor..b.max /\ cap \in 0..Top
  BY InForceOK, BoundOK
<1>4. 0 \in 0..PeriodT /\ 0 \in 0..DwellT
  BY Consts
<1>5. Bound(n) /\ n.requested = cap
  <2>1. n \in Loops
    <3> DEFINE m == [b EXCEPT !.elapsed = 0, !.missingFor = 0, !.missing = (i.err = "none"), !.lost = FALSE,
                              !.reset = FALSE, !.drawlessFor = 0, !.drawless = FALSE, !.rearm = 0,
                              !.shadowed = FALSE, !.seeded = TRUE]
               thermal == IF b.seeded THEN b.thermal ELSE cap
               shadow == IF b.seeded THEN b.shadow ELSE cap
    <3>1. m \in Loops
      <4> DEFINE gone == i.err = "none"
                 k == [b EXCEPT !.missing = gone, !.lost = FALSE, !.reset = FALSE, !.drawless = FALSE,
                                !.shadowed = FALSE, !.seeded = TRUE]
      <4>1. gone \in BOOLEAN /\ TRUE \in BOOLEAN /\ FALSE \in BOOLEAN
        OBVIOUS
      <4> HIDE DEF gone
      <4>2. k \in Loops
        BY <4>1, ZenonT(40) DEF Bound, Loops
      <4>3. m = [k EXCEPT !.elapsed = 0, !.missingFor = 0, !.drawlessFor = 0, !.rearm = 0]
        BY ZenonT(40) DEF Bound, Loops, gone
      <4> HIDE DEF k, m
      <4> QED BY <1>4, <4>2, <4>3 DEF Loops
    <3>2. thermal \in Levels /\ shadow \in Levels /\ cap \in Maybe
      BY <1>3, BoundOK, Consts
    <3>3. n = [m EXCEPT !.requested = cap, !.thermal = thermal, !.shadow = shadow]
      <4> HIDE DEF cap
      <4> QED BY DEF Bound, Loops
    <3> HIDE DEF m, n, cap, thermal, shadow
    <3> QED BY <3>1, <3>2, <3>3 DEF Loops
  <2>2. n.floor = b.floor /\ n.max = b.max /\ n.bounded = b.bounded /\ n.requested = cap
        /\ n.thermal \in {b.thermal, cap} /\ n.shadow \in {b.shadow, cap}
    BY ZenonT(60) DEF Bound, Loops
  <2> HIDE DEF n, cap
  <2> QED BY <1>3, <2>1, <2>2, BoundOK DEF Bound, Sound
<1>6. /\ n.floor = b.floor /\ n.max = b.max /\ n.seen = b.seen /\ n.applied = b.applied
      /\ n.latched = b.latched /\ n.seeded = TRUE /\ n.entry = b.entry /\ n.armed = b.armed
      /\ b.seeded => n.thermal = b.thermal /\ n.shadow = b.shadow
  BY DEF Bound, Loops
<1> HIDE DEF n, cap, allowed
<1>7. n.requested # None
  BY <1>3, <1>5, Consts
<1>8. b.requested # None => Rises(b, n)
  <2>1. b.requested # None => cap <= High(b.requested, b.applied) /\ High(b.requested, b.applied) \in Int
    BY BoundOK, InForceOK, LowHigh, Consts DEF cap
  <2> QED BY <1>3, <1>5, <2>1, Consts DEF Rises
<1>9. Way(b, d)
  BY <1>1, <1>2, <1>3, <1>5, <1>6, <1>7, <1>8 DEF Way, Keeps
<1> QED BY <1>1, <1>2, <1>6, <1>9 DEF StaysArmed

\* A lost group asks for its maximum, and its candidates follow unless a mismatch holds them.
LEMMA ResetLostOK ==
  ASSUME NEW b, Bound(b)
  PROVE  LET n == ResetLost(b)
         IN  /\ Bound(n) /\ n.floor = b.floor /\ n.max = b.max /\ n.seen = b.seen /\ n.applied = b.applied
             /\ n.latched = b.latched /\ n.seeded = b.seeded /\ n.requested = b.requested
             /\ n.entry = b.entry /\ n.armed = b.armed /\ n.lost = b.lost
             /\ b.latched => n.thermal = b.thermal /\ n.shadow = b.shadow
<1> DEFINE r == [b EXCEPT !.thermal = b.max, !.shadow = b.max, !.reset = FALSE]
<1>1. b.max \in Levels /\ FALSE \in BOOLEAN
  BY BoundOK, Consts
<1>2. r \in Loops
  BY <1>1 DEF Bound, Loops
<1>3. /\ r.floor = b.floor /\ r.max = b.max /\ r.seen = b.seen /\ r.applied = b.applied /\ r.bounded = b.bounded
      /\ r.latched = b.latched /\ r.seeded = b.seeded /\ r.requested = b.requested
      /\ r.entry = b.entry /\ r.armed = b.armed /\ r.lost = b.lost /\ r.thermal = b.max /\ r.shadow = b.max
  BY DEF Bound, Loops
<1>4. ResetLost(b) = IF b.reset /\ ~b.latched THEN r ELSE b
  BY DEF ResetLost, Bound, Loops
<1> HIDE DEF r
<1>5. Bound(r)
  BY <1>2, <1>3, BoundOK DEF Bound, Sound
<1> QED BY <1>3, <1>4, <1>5

\* Without its group the loop holds, and after the dwell lets go.
LEMMA AbsentOK ==
  ASSUME NEW b, Bound(b), NEW i \in Input, NEW now \in BOOLEAN, NEW d \in Absent(b, i, now)
  PROVE  /\ Way(b, d) /\ StaysArmed(b, d) /\ d.now = now /\ d.allowed = b.seen
         /\ b.latched => d.loop.thermal = b.thermal /\ d.loop.shadow = b.shadow
<1> DEFINE for == IF b.seen THEN Low(b.missingFor + i.dt, DwellT) ELSE b.missingFor
           goes == b.seen /\ ~b.lost /\ for >= DwellT
           m == [b EXCEPT !.elapsed = 0, !.rearm = 0, !.missing = TRUE, !.missingFor = for, !.lost = @ \/ goes,
                          !.requested = IF goes THEN b.max ELSE @, !.reset = @ \/ goes]
           n == ResetLost(m)
           cap == Clip(IF n.lost THEN n.max ELSE Else(n.applied, n.max), n)
<1>1. d = [loop |-> n, cap |-> cap, now |-> now, allowed |-> n.seen]
  BY DEF Absent, Decide
<1>2. for \in 0..DwellT
  <2>1. b.missingFor \in 0..DwellT
    BY DEF Bound, Loops
  <2>2. Low(b.missingFor + i.dt, DwellT) \in 0..DwellT
    BY <2>1, InputOK, Consts DEF Low
  <2> QED BY <2>1, <2>2
<1>3. m \in Loops
  <2> DEFINE lost == b.lost \/ goes
             reset == b.reset \/ goes
             requested == IF goes THEN b.max ELSE b.requested
             k == [b EXCEPT !.missing = TRUE, !.lost = lost, !.reset = reset]
  <2>1. lost \in BOOLEAN /\ reset \in BOOLEAN /\ TRUE \in BOOLEAN
    OBVIOUS
  <2>2. requested \in Maybe
    BY BoundOK, Consts
  <2>3. 0 \in 0..PeriodT
    BY Consts
  <2> HIDE DEF lost, reset, requested, for
  <2>4. k \in Loops
    BY <2>1 DEF Bound, Loops
  <2>5. m = [k EXCEPT !.elapsed = 0, !.rearm = 0, !.missingFor = for, !.requested = requested]
    BY ZenonT(60) DEF Bound, Loops, lost, reset, requested
  <2> HIDE DEF k, m
  <2> QED BY <1>2, <2>2, <2>3, <2>4, <2>5 DEF Loops
<1>4. /\ m.floor = b.floor /\ m.max = b.max /\ m.seen = b.seen /\ m.applied = b.applied /\ m.bounded = b.bounded
      /\ m.latched = b.latched /\ m.seeded = b.seeded /\ m.entry = b.entry /\ m.armed = b.armed
      /\ m.thermal = b.thermal /\ m.shadow = b.shadow
      /\ ~m.lost => m.requested = b.requested
      /\ m.requested \in {b.requested, b.max}
  <2> HIDE DEF goes
  <2>1. /\ m.floor = b.floor /\ m.max = b.max /\ m.seen = b.seen /\ m.applied = b.applied /\ m.bounded = b.bounded
        /\ m.latched = b.latched /\ m.seeded = b.seeded /\ m.entry = b.entry /\ m.armed = b.armed
        /\ m.thermal = b.thermal /\ m.shadow = b.shadow
    BY DEF Bound, Loops
  <2>2. m.requested = (IF goes THEN b.max ELSE b.requested) /\ m.lost = (b.lost \/ goes)
    BY DEF Bound, Loops
  <2> HIDE DEF m
  <2> QED BY <2>1, <2>2
<1> HIDE DEF m
<1>5. Bound(m)
  BY <1>3, <1>4, BoundOK DEF Bound, Sound
<1>6. /\ Bound(n) /\ n.floor = b.floor /\ n.max = b.max /\ n.seen = b.seen /\ n.applied = b.applied
      /\ n.latched = b.latched /\ n.seeded = b.seeded /\ n.entry = b.entry /\ n.armed = b.armed
      /\ n.requested = m.requested /\ n.lost = m.lost
      /\ b.latched => n.thermal = b.thermal /\ n.shadow = b.shadow
  BY <1>4, <1>5, ResetLostOK
<1> HIDE DEF n
<1>7. cap \in b.floor..b.max
  <2>1. (IF n.lost THEN n.max ELSE Else(n.applied, n.max)) \in Int
    BY <1>6, BoundOK, Consts DEF Else
  <2> QED BY <1>6, <2>1, BoundOK, ClipOK
<1>8. b.requested # None => n.requested # None /\ (~n.lost => Rises(b, n))
  BY <1>4, <1>6, BoundOK, RisesOK, Consts
<1>9. b.seen \in BOOLEAN
  BY DEF Bound, Loops
<1> HIDE DEF cap
<1>10. Way(b, d)
  BY <1>1, <1>6, <1>7, <1>8, <1>9 DEF Way, Keeps
<1> QED BY <1>1, <1>6, <1>10 DEF StaysArmed

\* A loop p that is b again, but for timers, unless a reset that waited for the read-back is done.
Like(b, p) ==
  /\ Bound(p) /\ p.floor = b.floor /\ p.max = b.max /\ p.seen = b.seen /\ p.applied = b.applied
  /\ p.latched = b.latched /\ p.seeded = b.seeded /\ p.entry = b.entry /\ p.armed = b.armed
  /\ p.reset => b.reset
  /\ ~b.reset => p.requested = b.requested
  /\ b.requested # None => p.requested # None
  /\ b.latched => p.thermal = b.thermal /\ p.shadow = b.shadow

\* A way from one of two loops that are alike in what matters is a way from the other.
LEMMA WayOfLike ==
  ASSUME NEW b, NEW p, NEW d, Bound(b), Like(b, p), Way(p, d)
  PROVE  Way(b, d)
<1>1. Keeps(b, d.loop)
  BY DEF Like, Way, Keeps
<1>2. ~b.reset /\ Rises(p, d.loop) => Rises(b, d.loop)
  BY DEF Like, Rises
<1> QED BY <1>1, <1>2 DEF Way, Like

\* The group that is read, and read again, completes the reset.
LEMMA PresentOK ==
  ASSUME NEW b, Bound(b), b.seen, NEW i \in Input
  PROVE  Like(b, Present(b, i))
<1> DEFINE p == IF b.seen /\ ~b.missing THEN b
                ELSE [b EXCEPT !.seen = TRUE, !.missing = FALSE, !.missingFor = 0, !.lost = FALSE]
           shadow == IF i.draw = None THEN p.max ELSE Target(i.draw, p)
           r == [p EXCEPT !.thermal = p.max, !.shadow = shadow, !.requested = p.max, !.reset = FALSE]
<1>1. b.seen = TRUE
  BY DEF Bound, Loops
<1>2. p \in Loops
  <2>1. 0 \in 0..DwellT /\ TRUE \in BOOLEAN /\ FALSE \in BOOLEAN
    BY Consts
  <2>2. [b EXCEPT !.seen = TRUE, !.missing = FALSE, !.missingFor = 0, !.lost = FALSE] \in Loops
    BY <2>1, ZenonT(40) DEF Bound, Loops
  <2> QED BY <2>2 DEF Bound
<1>3. /\ p.floor = b.floor /\ p.max = b.max /\ p.seen = b.seen /\ p.applied = b.applied /\ p.bounded = b.bounded
      /\ p.latched = b.latched /\ p.seeded = b.seeded /\ p.entry = b.entry /\ p.armed = b.armed
      /\ p.reset = b.reset /\ p.requested = b.requested /\ p.thermal = b.thermal /\ p.shadow = b.shadow
  BY <1>1 DEF Bound, Loops
<1>4. Present(b, i) = IF p.reset /\ ~p.latched THEN r ELSE p
  BY DEF Present
<1> HIDE DEF p
<1>5. Bound(p)
  BY <1>2, <1>3, BoundOK DEF Bound, Sound
<1>6. shadow \in p.floor..p.max /\ p.max \in p.floor..p.max /\ p.max \in 0..Top
  BY <1>5, BoundOK, InputOK, TargetOK
<1> HIDE DEF shadow
<1>7. r \in Loops
  <2>1. p.max \in Levels /\ p.max \in Maybe /\ shadow \in Levels /\ FALSE \in BOOLEAN
    BY <1>5, <1>6, BoundOK, Consts
  <2> QED BY <1>2, <2>1 DEF Loops
<1>8. /\ r.floor = p.floor /\ r.max = p.max /\ r.seen = p.seen /\ r.applied = p.applied /\ r.bounded = p.bounded
      /\ r.latched = p.latched /\ r.seeded = p.seeded /\ r.entry = p.entry /\ r.armed = p.armed
      /\ r.reset = FALSE /\ r.requested = p.max /\ r.thermal = p.max /\ r.shadow = shadow
  BY <1>2 DEF Loops
<1> HIDE DEF r
<1>9. Bound(r)
  BY <1>5, <1>6, <1>7, <1>8 DEF Bound, Sound
<1>10. CASE p.reset /\ ~p.latched
  <2>1. Present(b, i) = r /\ b.reset /\ ~b.latched
    BY <1>3, <1>4, <1>10
  <2>2. r.requested # None
    BY <1>6, <1>8, Consts
  <2> QED BY <1>3, <1>8, <1>9, <2>1, <2>2 DEF Like
<1>11. CASE ~(p.reset /\ ~p.latched)
  BY <1>3, <1>4, <1>5, <1>11 DEF Like
<1> QED BY <1>10, <1>11

\* The cadence and the one-shot trim are nothing of a loop's caps.
LEMMA TimersOK ==
  ASSUME NEW b, Bound(b)
  PROVE  /\ Like(b, b) /\ Like(b, [b EXCEPT !.elapsed = 0]) /\ Like(b, [b EXCEPT !.trim = FALSE])
         /\ \A p, q : Like(b, p) /\ Like(p, q) => Like(b, q)
<1>1. Like(b, b)
  BY DEF Like
<1>2. Like(b, [b EXCEPT !.elapsed = 0])
  <2>1. 0 \in 0..PeriodT
    BY Consts
  <2>2. [b EXCEPT !.elapsed = 0] \in Loops
    BY <2>1 DEF Bound, Loops
  <2> QED BY <2>2, BoundOK DEF Like, Bound, Sound, Loops
<1>3. Like(b, [b EXCEPT !.trim = FALSE])
  <2>1. [b EXCEPT !.trim = FALSE] \in Loops
    BY Consts, ZenonT(40) DEF Bound, Loops
  <2> QED BY <2>1, BoundOK DEF Like, Bound, Sound, Loops
<1>4. \A p, q : Like(b, p) /\ Like(p, q) => Like(b, q)
  BY DEF Like
<1> QED BY <1>1, <1>2, <1>3, <1>4

\* A decision notes only which candidate led.
LEMMA ValidOK ==
  ASSUME NEW b, Bound(b), NEW thermal
  PROVE  LET n == Valid(b, thermal)
         IN  /\ Bound(n) /\ n.floor = b.floor /\ n.max = b.max /\ n.seen = b.seen /\ n.applied = b.applied
             /\ n.latched = b.latched /\ n.seeded = b.seeded /\ n.requested = b.requested
             /\ n.entry = b.entry /\ n.armed = b.armed /\ n.thermal = b.thermal /\ n.shadow = b.shadow
<1> DEFINE led == Selected(thermal, b.shadow, b) = "Shadow"
           n == [b EXCEPT !.shadowed = led]
<1>1. Valid(b, thermal) = n
  BY DEF Valid
<1>2. led \in BOOLEAN
  OBVIOUS
<1> HIDE DEF led
<1>3. n \in Loops
  BY <1>2 DEF Bound, Loops
<1> QED BY <1>1, <1>3, BoundOK DEF Bound, Sound, Loops

\* In a mismatch the loop holds.
LEMMA FrozenOK ==
  ASSUME NEW b, Bound(b), b.seen, NEW i \in Input, NEW now \in BOOLEAN, NEW d \in Frozen(b, i, now)
  PROVE  /\ Way(b, d) /\ StaysArmed(b, d) /\ d.now = now /\ d.allowed = TRUE
         /\ d.loop.thermal = b.thermal /\ d.loop.shadow = b.shadow
<1> DEFINE rearm == IF i.err = "hot" THEN 0 ELSE b.rearm
           f == [b EXCEPT !.elapsed = 0, !.rearm = rearm]
           n == Valid(f, f.thermal)
           cap == Clip(Else(f.requested, f.max), f)
<1>1. d = [loop |-> n, cap |-> cap, now |-> now, allowed |-> TRUE]
  BY DEF Frozen, Decide
<1>2. f \in Loops
  <2>1. rearm \in 0..PeriodT /\ 0 \in 0..PeriodT
    BY Consts DEF Bound, Loops
  <2> HIDE DEF rearm
  <2> QED BY <2>1 DEF Bound, Loops
<1>3. /\ f.floor = b.floor /\ f.max = b.max /\ f.seen = b.seen /\ f.applied = b.applied /\ f.bounded = b.bounded
      /\ f.latched = b.latched /\ f.seeded = b.seeded /\ f.entry = b.entry /\ f.armed = b.armed
      /\ f.requested = b.requested /\ f.thermal = b.thermal /\ f.shadow = b.shadow
  <2> HIDE DEF rearm
  <2> QED BY DEF Bound, Loops
<1> HIDE DEF f
<1>4. Bound(f)
  BY <1>2, <1>3, BoundOK DEF Bound, Sound
<1>5. /\ Bound(n) /\ n.floor = b.floor /\ n.max = b.max /\ n.seen = b.seen /\ n.applied = b.applied
      /\ n.latched = b.latched /\ n.seeded = b.seeded /\ n.requested = b.requested
      /\ n.entry = b.entry /\ n.armed = b.armed /\ n.thermal = b.thermal /\ n.shadow = b.shadow
  BY <1>3, <1>4, ValidOK, ZenonT(40)
<1>6. cap \in b.floor..b.max
  <2>1. Else(f.requested, f.max) \in Int
    BY <1>4, BoundOK, Consts DEF Else
  <2> QED BY <1>3, <1>4, <2>1, BoundOK, ClipOK
<1> HIDE DEF n, cap
<1>7. b.requested # None => Rises(b, n)
  BY <1>5, RisesOK
<1> QED BY <1>1, <1>5, <1>6, <1>7 DEF Way, Keeps, StaysArmed

\* What is left of the headroom over the recent peak is in bounds.
LEMMA PeakOK ==
  ASSUME NEW b, Bound(b), Ready(b)
  PROVE  Clip(Peak(b) + Low(HotHeadroom, Headroom), b) \in b.floor..b.max
<1>1. Peak(b) \in 0..Top
  BY RecentOK DEF Bound
<1>2. Peak(b) + Low(HotHeadroom, Headroom) \in Int
  BY <1>1, Consts DEF Low
<1> QED BY <1>2, BoundOK, ClipOK

\* A cap that is slewed into bounds from a request in bounds.
Capped(l, target, i) == Clip(Slewed(l, target, i.dt, FALSE), l)

\* A slewed and clipped request is within the bounds, and rises by no more than the slew.
LEMMA SlewedInBounds ==
  ASSUME NEW b, Bound(b), NEW i \in Input, NEW from \in b.floor..b.max, NEW target \in b.floor..b.max,
         NEW l, l.floor = b.floor, l.max = b.max, l.requested = from
  PROVE  /\ Capped(l, target, i) \in b.floor..b.max
         /\ Capped(l, target, i) <= from + Rise
         /\ target <= from => Capped(l, target, i) <= from
<1> DEFINE slewed == Slewed(l, target, i.dt, FALSE)
           cap == Clip(slewed, l)
<1>1. from \in Nat /\ from # None /\ target \in Nat /\ b.floor \in Nat /\ b.max \in Nat /\ b.floor <= b.max
      /\ b.floor <= from
  BY BoundOK, Consts
<1>2. /\ slewed \in Int /\ slewed <= from + Rise
      /\ target <= from => slewed <= from
  BY <1>1, SlewedOK
<1> HIDE DEF slewed
<1>3. cap \in b.floor..b.max /\ cap <= High(slewed, b.floor)
  BY <1>2, BoundOK, ClipOK
<1> HIDE DEF cap
<1>4. cap <= from + Rise /\ (target <= from => cap <= from)
  BY <1>1, <1>2, <1>3, Consts DEF High
<1> QED BY <1>3, <1>4 DEF Capped, cap, slewed

\* The trim starts from the cap in force.
LEMMA TrimOK ==
  ASSUME NEW b, Bound(b), b.seen, Ready(b), NEW i \in Input, NEW now \in BOOLEAN, NEW d \in Trim(b, i, now)
  PROVE  Way(b, d) /\ StaysArmed(b, d) /\ d.now = now /\ d.allowed = TRUE
<1> DEFINE thermal == Trimmed(b)
           from == InForce(b)
           t == [b EXCEPT !.trim = FALSE, !.thermal = thermal, !.elapsed = 0, !.requested = from]
           cap == Clip(Slewed(t, Low(t.thermal, t.shadow), i.dt, FALSE), t)
           h == [t EXCEPT !.requested = cap]
           n == Valid(h, t.thermal)
<1>1. d = [loop |-> n, cap |-> cap, now |-> now, allowed |-> TRUE]
  BY DEF Trim, Decide
<1>2. from \in b.floor..b.max /\ from \in 0..Top
  BY InForceOK, BoundOK
<1>3. thermal \in b.floor..b.max /\ thermal \in 0..Top
  <2>1. Low(b.thermal, from) \in b.floor..b.max
    BY <1>2, BoundOK DEF Low
  <2>2. thermal = Low(Low(b.thermal, from), Clip(Peak(b) + Low(HotHeadroom, Headroom), b))
    BY DEF Trimmed
  <2> HIDE DEF from, thermal
  <2> QED BY <2>1, <2>2, PeakOK, BoundOK DEF Low
<1> HIDE DEF from, thermal
<1>4. t \in Loops
  <2>1. thermal \in Levels /\ from \in Maybe /\ 0 \in 0..PeriodT /\ FALSE \in BOOLEAN
    BY <1>2, <1>3, Consts
  <2>2. [b EXCEPT !.trim = FALSE] \in Loops
    BY <2>1 DEF Bound, Loops
  <2>3. t = [[b EXCEPT !.trim = FALSE] EXCEPT !.thermal = thermal, !.elapsed = 0, !.requested = from]
    BY DEF Bound, Loops
  <2> QED BY <2>1, <2>2, <2>3 DEF Loops
<1>5. /\ t.floor = b.floor /\ t.max = b.max /\ t.seen = b.seen /\ t.applied = b.applied /\ t.bounded = b.bounded
      /\ t.latched = b.latched /\ t.seeded = b.seeded /\ t.entry = b.entry /\ t.armed = b.armed
      /\ t.requested = from /\ t.thermal = thermal /\ t.shadow = b.shadow
  BY DEF Bound, Loops
<1> HIDE DEF t
<1>6. Low(t.thermal, t.shadow) \in b.floor..b.max
  BY <1>3, <1>5, BoundOK DEF Low
<1>7. cap \in b.floor..b.max /\ cap <= from + Rise
  <2>1. cap = Capped(t, Low(t.thermal, t.shadow), i)
    BY DEF Capped
  <2> HIDE DEF cap
  <2> QED BY <1>2, <1>5, <1>6, <2>1, SlewedInBounds
<1> HIDE DEF cap
<1>8. h \in Loops
  BY <1>4, <1>7, BoundOK, Consts, ZenonT(40) DEF Loops
<1>9. /\ h.floor = b.floor /\ h.max = b.max /\ h.seen = b.seen /\ h.applied = b.applied /\ h.bounded = b.bounded
      /\ h.latched = b.latched /\ h.seeded = b.seeded /\ h.entry = b.entry /\ h.armed = b.armed
      /\ h.requested = cap /\ h.thermal = thermal /\ h.shadow = b.shadow
  BY <1>4, <1>5 DEF Loops
<1> HIDE DEF h
<1>10. Bound(h)
  BY <1>3, <1>7, <1>8, <1>9, BoundOK DEF Bound, Sound
<1>11. /\ Bound(n) /\ n.floor = b.floor /\ n.max = b.max /\ n.seen = b.seen /\ n.applied = b.applied
       /\ n.latched = b.latched /\ n.seeded = b.seeded /\ n.requested = cap
       /\ n.entry = b.entry /\ n.armed = b.armed
  BY <1>9, <1>10, ValidOK
<1> HIDE DEF n
<1>12. cap # None
  BY <1>7, BoundOK, Consts
<1>13. b.requested # None => Rises(b, n)
  <2>1. b.requested # None => from <= High(b.requested, b.applied) /\ High(b.requested, b.applied) \in Int
    BY BoundOK, InForceOK, LowHigh, Consts DEF from
  <2> QED BY <1>2, <1>7, <1>11, <2>1, BoundOK, Consts DEF Rises
<1> QED BY <1>1, <1>7, <1>11, <1>12, <1>13 DEF Way, Keeps, StaysArmed

\* What a hot transfer starts from: the cap in force when there is one.
LEMMA FromOK ==
  ASSUME NEW b, Bound(b), NEW i \in Input
  PROVE  LET from == IF InitialHot(b, i) THEN EntryCap(b, i) ELSE HandoverCap(b)
         IN  /\ from \in b.floor..b.max
             /\ b.applied # None => from = Clip(b.applied, b)
             /\ b.requested # None /\ ~(b.entry /\ b.applied = None) => from <= High(b.requested, b.applied)
<1> DEFINE from == IF InitialHot(b, i) THEN EntryCap(b, i) ELSE HandoverCap(b)
<1>1. /\ b.shadow \in b.floor..b.max /\ b.requested \in {None} \cup b.floor..b.max /\ b.applied \in {None} \cup 0..Top
      /\ b.floor \in 0..Top /\ b.max \in 0..Top /\ b.floor <= b.max
  BY BoundOK
<1>2. CASE b.applied # None
  <2>1. from = Clip(b.applied, b)
    BY <1>2 DEF EntryCap, HandoverCap, Else
  <2> QED BY <1>1, <1>2, <2>1, ClipOK, RisesOK
<1>3. CASE b.applied = None /\ InitialHot(b, i)
  <2>1. from \in {Clip(b.shadow, b), b.max} \/ (i.draw # None /\ from = Target(i.draw, b))
    BY <1>3 DEF EntryCap
  <2>2. from \in b.floor..b.max
    BY <1>1, <2>1, ClipOK, InputOK, TargetOK
  <2> QED BY <1>3, <2>2 DEF InitialHot
<1>4. CASE b.applied = None /\ ~InitialHot(b, i)
  <2>1. from = Clip(IF b.requested = None THEN b.shadow ELSE b.requested, b)
    BY <1>4 DEF HandoverCap, Else
  <2>2. from = IF b.requested = None THEN b.shadow ELSE b.requested
    BY <1>1, <2>1, ClipOK
  <2>3. b.requested # None => b.requested <= High(b.requested, b.applied)
    BY <1>1, LowHigh, Consts
  <2> QED BY <1>1, <1>4, <2>2, <2>3
<1> QED BY <1>2, <1>3, <1>4

\* The hot transfer goes down from there.
LEMMA HotTransferOK ==
  ASSUME NEW b, Bound(b), b.seen, NEW i \in Input, NEW handover \in BOOLEAN, NEW now \in BOOLEAN,
         NEW d \in HotTransfer(b, i, handover, now)
  PROVE  /\ Way(b, d) /\ d.now = now /\ d.allowed = TRUE
         /\ b.applied # None => d.loop.requested <= High(b.applied, b.floor)
<1> DEFINE from == IF InitialHot(b, i) THEN EntryCap(b, i) ELSE HandoverCap(b)
           thermal == IF handover /\ Ready(b) THEN Low(from, Clip(Peak(b) + Low(HotHeadroom, Headroom), b)) ELSE from
           g == [b EXCEPT !.requested = from]
           cap == IF thermal < from THEN Clip(Slewed(g, thermal, i.dt, FALSE), b) ELSE from
           shadow == IF InitialHot(b, i) THEN cap ELSE b.shadow
           trim == b.trim \/ InitialHot(b, i)
           h == [b EXCEPT !.thermal = thermal, !.shadow = shadow, !.trim = trim, !.requested = cap, !.elapsed = 0,
                          !.armed = FALSE, !.rearm = 0]
           v == Valid(h, thermal)
           n == [v EXCEPT !.entry = FALSE]
<1>1. d = [loop |-> n, cap |-> cap, now |-> now, allowed |-> TRUE]
  BY DEF HotTransfer, Decide, Entered
<1>2. /\ from \in b.floor..b.max
      /\ b.applied # None => from = Clip(b.applied, b)
      /\ b.requested # None /\ ~(b.entry /\ b.applied = None) => from <= High(b.requested, b.applied)
  BY FromOK
<1> HIDE DEF from
<1>3. thermal \in b.floor..b.max /\ thermal <= from
  <2>1. Ready(b) => Clip(Peak(b) + Low(HotHeadroom, Headroom), b) \in b.floor..b.max
    BY PeakOK
  <2> QED BY <1>2, <2>1, BoundOK DEF Low
<1> HIDE DEF thermal
<1>4. g.floor = b.floor /\ g.max = b.max /\ g.requested = from
  BY DEF Bound, Loops
<1> HIDE DEF g
<1>5. cap \in b.floor..b.max /\ cap <= from
  <2>1. Clip(Slewed(g, thermal, i.dt, FALSE), b) = Capped(g, thermal, i)
    BY <1>4 DEF Clip, Capped
  <2>2. Capped(g, thermal, i) \in b.floor..b.max /\ (thermal <= from => Capped(g, thermal, i) <= from)
    BY <1>2, <1>3, <1>4, SlewedInBounds
  <2>3. cap = IF thermal < from THEN Capped(g, thermal, i) ELSE from
    BY <2>1
  <2>4. from <= from
    BY <1>2, BoundOK
  <2> HIDE DEF cap
  <2> QED BY <1>2, <1>3, <2>2, <2>3, <2>4
<1> HIDE DEF cap
<1>6. shadow \in b.floor..b.max
  BY <1>5, BoundOK
<1>7. trim \in BOOLEAN
  OBVIOUS
<1> HIDE DEF shadow, trim
<1>8. h \in Loops
  <2> DEFINE k == [b EXCEPT !.trim = trim, !.armed = FALSE]
  <2>1. thermal \in Levels /\ shadow \in Levels /\ cap \in Maybe /\ 0 \in 0..PeriodT
    BY <1>3, <1>5, <1>6, BoundOK, Consts
  <2>2. k \in Loops
    BY <1>7 DEF Bound, Loops
  <2>3. h = [k EXCEPT !.thermal = thermal, !.shadow = shadow, !.requested = cap, !.elapsed = 0, !.rearm = 0]
    BY DEF Bound, Loops
  <2> HIDE DEF k, h
  <2> QED BY <2>1, <2>2, <2>3 DEF Loops
<1>9. /\ h.floor = b.floor /\ h.max = b.max /\ h.seen = b.seen /\ h.applied = b.applied /\ h.bounded = b.bounded
      /\ h.latched = b.latched /\ h.seeded = b.seeded
      /\ h.requested = cap /\ h.thermal = thermal /\ h.shadow = shadow
  BY DEF Bound, Loops
<1> HIDE DEF h
<1>10. Bound(h)
  BY <1>3, <1>5, <1>6, <1>8, <1>9, BoundOK DEF Bound, Sound
<1>11. /\ Bound(v) /\ v.floor = b.floor /\ v.max = b.max /\ v.seen = b.seen /\ v.applied = b.applied
       /\ v.latched = b.latched /\ v.seeded = b.seeded /\ v.requested = cap
  BY <1>9, <1>10, ValidOK, ZenonT(40)
<1> HIDE DEF v
<1>12. /\ Bound(n) /\ n.floor = b.floor /\ n.max = b.max /\ n.seen = b.seen /\ n.applied = b.applied
       /\ n.latched = b.latched /\ n.seeded = b.seeded /\ n.requested = cap
  <2>1. n \in Loops
    BY <1>11 DEF Bound, Loops
  <2> QED BY <1>11, <2>1, BoundOK DEF Bound, Sound, Loops
<1> HIDE DEF n
<1>13. cap # None
  BY <1>5, BoundOK, Consts
<1>14. b.requested # None /\ ~(b.entry /\ b.applied = None) => Rises(b, n)
  <2>1. b.requested # None => High(b.requested, b.applied) \in Int
    BY BoundOK, LowHigh, Consts
  <2> QED BY <1>2, <1>5, <1>12, <2>1, BoundOK, Consts DEF Rises
<1>15. b.applied # None => cap <= High(b.applied, b.floor)
  <2>1. b.applied # None => Clip(b.applied, b) <= High(b.applied, b.floor) /\ High(b.applied, b.floor) \in Int
    BY BoundOK, ClipOK, LowHigh
  <2> QED BY <1>2, <1>5, <2>1, BoundOK
<1> QED BY <1>1, <1>5, <1>12, <1>13, <1>14, <1>15 DEF Way, Keeps

\* What the steps before a regular decision leave alone: everything but the candidates.
Kin(b, n) ==
  /\ Bound(n) /\ n.floor = b.floor /\ n.max = b.max /\ n.seen = b.seen /\ n.applied = b.applied
  /\ n.latched = b.latched /\ n.seeded = b.seeded /\ n.entry = b.entry /\ n.requested = b.requested
  /\ b.armed => n.armed

\* The re-arming of the shadow candidate touches nothing that others rely on.
LEMMA RearmedOK ==
  ASSUME NEW b, Bound(b), NEW i \in Input
  PROVE  Kin(b, Rearmed(b, i))
<1>1. Kin(b, b)
  BY DEF Kin
<1>2. \A t \in 0..PeriodT : Kin(b, [b EXCEPT !.rearm = t])
  <2> TAKE t \in 0..PeriodT
  <2>1. [b EXCEPT !.rearm = t] \in Loops
    BY DEF Bound, Loops
  <2> QED BY <2>1, BoundOK DEF Kin, Bound, Sound, Loops
<1>3. 0 \in 0..PeriodT /\ b.rearm \in 0..PeriodT
  BY Consts DEF Bound, Loops
<1>4. CASE Rearmed(b, i) = [b EXCEPT !.armed = TRUE, !.rearm = 0]
  <2> DEFINE n == [b EXCEPT !.armed = TRUE, !.rearm = 0]
  <2>1. n \in Loops
    <3>1. [b EXCEPT !.armed = TRUE] \in Loops
      BY DEF Bound, Loops
    <3>2. n = [[b EXCEPT !.armed = TRUE] EXCEPT !.rearm = 0]
      BY DEF Bound, Loops
    <3> QED BY <1>3, <3>1, <3>2 DEF Loops
  <2>2. Kin(b, n)
    BY <2>1, BoundOK DEF Kin, Bound, Sound, Loops
  <2> QED BY <1>4, <2>2
<1>5. CASE b.rearm + i.dt < PeriodT /\ Rearmed(b, i) = [b EXCEPT !.rearm = b.rearm + i.dt]
  <2>1. b.rearm + i.dt \in 0..PeriodT
    BY <1>3, <1>5, Early
  <2> QED BY <1>2, <1>5, <2>1
<1>6. \/ Rearmed(b, i) \in {b, [b EXCEPT !.rearm = 0], [b EXCEPT !.armed = TRUE, !.rearm = 0]}
      \/ b.rearm + i.dt < PeriodT /\ Rearmed(b, i) = [b EXCEPT !.rearm = b.rearm + i.dt]
  <2>1. b.rearm + i.dt >= PeriodT \/ b.rearm + i.dt < PeriodT
    BY <1>3, InputOK, Consts
  <2> QED BY <2>1 DEF Rearmed
<1> QED BY <1>1, <1>2, <1>3, <1>4, <1>5, <1>6

\* The shadow candidate moves within the bounds.
LEMMA TowardOK ==
  ASSUME NEW b, Bound(b), NEW i \in Input, NEW target \in b.floor..b.max
  PROVE  Toward(b, target, i.dt) \in b.floor..b.max
<1>1. ShadowRise * i.dt \in Int /\ ShadowFall * i.dt \in Int
  BY Times, Consts
<1>2. /\ target \in Int /\ b.shadow \in Int
  BY BoundOK
<1>3. Low(target, b.shadow + ShadowRise * i.dt) \in Int /\ High(target, b.shadow - ShadowFall * i.dt) \in Int
  BY <1>1, <1>2, LowHigh
<1> QED BY <1>3, BoundOK, ClipOK DEF Toward

\* The shadow candidate stays within bounds, and nothing else moves.
LEMMA ShadowedOK ==
  ASSUME NEW b, Bound(b), NEW i \in Input
  PROVE  Kin(b, Shadowed(b, i))
<1> DEFINE missing == IF i.draw = None THEN Low(b.drawlessFor + i.dt, DwellT) ELSE 0
           shadow == IF i.draw # None /\ b.drawless THEN Clip(Else(b.applied, Else(b.requested, b.shadow)), b)
                     ELSE IF i.draw # None
                     THEN IF i.err = "cool" THEN Toward(b, Target(i.draw, b), i.dt) ELSE b.shadow
                     ELSE IF missing >= DwellT THEN Toward(b, b.max, i.dt) ELSE b.shadow
           drawless == i.draw = None
           n == [b EXCEPT !.drawless = drawless, !.drawlessFor = missing, !.shadow = shadow]
<1>1. Shadowed(b, i) = n
  BY DEF Shadowed
<1>2. missing \in 0..DwellT
  <2>1. b.drawlessFor \in 0..DwellT
    BY DEF Bound, Loops
  <2>2. Low(b.drawlessFor + i.dt, DwellT) \in 0..DwellT
    BY <2>1, InputOK, Consts DEF Low
  <2> QED BY <2>2, Consts
<1> HIDE DEF missing
<1>3. shadow \in b.floor..b.max
  <2>1. Else(b.applied, Else(b.requested, b.shadow)) \in Int
    BY BoundOK, Consts DEF Else
  <2>2. Clip(Else(b.applied, Else(b.requested, b.shadow)), b) \in b.floor..b.max
    BY <2>1, BoundOK, ClipOK
  <2>3. i.draw # None => Target(i.draw, b) \in b.floor..b.max
    BY InputOK, TargetOK
  <2>4. i.draw # None => Toward(b, Target(i.draw, b), i.dt) \in b.floor..b.max
    BY <2>3, TowardOK
  <2>5. b.max \in b.floor..b.max /\ b.shadow \in b.floor..b.max
    BY BoundOK
  <2>6. Toward(b, b.max, i.dt) \in b.floor..b.max
    BY <2>5, TowardOK
  <2> QED BY <2>2, <2>4, <2>5, <2>6
<1>4. drawless \in BOOLEAN
  OBVIOUS
<1> HIDE DEF shadow, drawless
<1>5. n \in Loops
  <2>1. shadow \in Levels
    BY <1>3, BoundOK, Consts
  <2>2. [b EXCEPT !.drawless = drawless] \in Loops
    BY <1>4 DEF Bound, Loops
  <2>3. n = [[b EXCEPT !.drawless = drawless] EXCEPT !.drawlessFor = missing, !.shadow = shadow]
    BY DEF Bound, Loops
  <2> QED BY <1>2, <2>1, <2>2, <2>3 DEF Loops
<1>6. /\ n.floor = b.floor /\ n.max = b.max /\ n.seen = b.seen /\ n.applied = b.applied /\ n.bounded = b.bounded
      /\ n.latched = b.latched /\ n.seeded = b.seeded /\ n.entry = b.entry /\ n.requested = b.requested
      /\ n.armed = b.armed /\ n.thermal = b.thermal /\ n.shadow = shadow
  BY DEF Bound, Loops
<1> HIDE DEF n
<1> QED BY <1>1, <1>3, <1>5, <1>6, BoundOK DEF Kin, Bound, Sound

\* Nor does the regulation.
LEMMA RegulatedOK ==
  ASSUME NEW b, Bound(b), NEW i \in Input, NEW r \in Regulated(b, i)
  PROVE  Kin(b, r)
<1>1. CASE b.elapsed + i.dt < PeriodT /\ r = [b EXCEPT !.elapsed = b.elapsed + i.dt]
  <2>1. b.elapsed + i.dt \in 0..PeriodT
    <3>1. b.elapsed \in 0..PeriodT
      BY DEF Bound, Loops
    <3> QED BY <1>1, <3>1, Early
  <2>2. PICK t \in 0..PeriodT : r = [b EXCEPT !.elapsed = t]
    BY <1>1, <2>1
  <2>3. r \in Loops
    BY <2>2 DEF Bound, Loops
  <2> QED BY <2>2, <2>3, BoundOK DEF Kin, Bound, Sound, Loops
<1>2. CASE \E x \in b.floor..b.max : r = [b EXCEPT !.elapsed = 0, !.thermal = x]
  <2>1. PICK x \in b.floor..b.max : r = [b EXCEPT !.elapsed = 0, !.thermal = x]
    BY <1>2
  <2>2. 0 \in 0..PeriodT /\ x \in Levels
    BY BoundOK, Consts
  <2>3. r \in Loops
    BY <2>1, <2>2 DEF Bound, Loops
  <2>4. r.thermal = x /\ r.shadow = b.shadow /\ r.requested = b.requested
    BY <2>1 DEF Bound, Loops
  <2>5. /\ r.floor = b.floor /\ r.max = b.max /\ r.seen = b.seen /\ r.applied = b.applied /\ r.bounded = b.bounded
        /\ r.latched = b.latched /\ r.seeded = b.seeded /\ r.entry = b.entry /\ r.armed = b.armed
    BY <2>1 DEF Bound, Loops
  <2> QED BY <2>3, <2>4, <2>5, BoundOK DEF Kin, Bound, Sound
<1> QED BY <1>1, <1>2 DEF Regulated

\* The regular way: the lower candidate, slewed.  Only a tick that bypasses the slew, for a
\* moved floor or a maximum lowered under the request, lets the request go where it will.
LEMMA RegularOK ==
  ASSUME NEW b, Bound(b), b.seen, NEW i \in Input, NEW now \in BOOLEAN, NEW bypass \in BOOLEAN,
         NEW d \in Regular(b, i, now, bypass)
  PROVE  /\ Keeps(b, d.loop) /\ StaysArmed(b, d) /\ d.now = now /\ d.allowed = TRUE
         /\ d.cap \in b.floor..b.max /\ d.loop.requested \in b.floor..b.max
         /\ b.requested # None /\ ~bypass => Rises(b, d.loop)
<1> DEFINE s == Shadowed(Rearmed(b, i), i)
           slewed(r) == Slewed(r, Low(r.thermal, r.shadow), i.dt, bypass)
           cap(r) == Clip(slewed(r), r)
           h(r) == [r EXCEPT !.requested = cap(r)]
           v(r) == Valid(h(r), r.thermal)
           n(r) == [v(r) EXCEPT !.entry = FALSE]
<1>1. PICK r \in Regulated(s, i) : d = [loop |-> n(r), cap |-> cap(r), now |-> now, allowed |-> TRUE]
  BY DEF Regular, Decide, Entered
<1>2. Kin(b, r)
  <2>1. Kin(b, Rearmed(b, i))
    BY RearmedOK
  <2>2. Kin(Rearmed(b, i), s)
    BY <2>1, ShadowedOK DEF Kin
  <2>3. Kin(s, r)
    BY <2>2, RegulatedOK DEF Kin
  <2> HIDE DEF s
  <2> QED BY <2>1, <2>2, <2>3 DEF Kin
<1> HIDE DEF s
<1>3. Bound(r) /\ r.floor = b.floor /\ r.max = b.max /\ r.requested = b.requested
  BY <1>2 DEF Kin
<1>4. /\ slewed(r) \in Int
      /\ b.requested # None /\ ~bypass => slewed(r) <= b.requested + Rise
  <2>1. Low(r.thermal, r.shadow) \in Nat /\ r.requested \in {None} \cup Nat
    BY <1>3, BoundOK DEF Low
  <2> QED BY <1>3, <2>1, SlewedOK
<1> HIDE DEF slewed
<1>5. cap(r) \in b.floor..b.max /\ cap(r) <= High(slewed(r), b.floor)
  BY <1>3, <1>4, BoundOK, ClipOK
<1> HIDE DEF cap
<1>6. h(r) \in Loops
  <2>1. cap(r) \in Maybe
    BY <1>5, BoundOK, Consts
  <2> QED BY <1>3, <2>1 DEF Bound, Loops
<1>7. /\ h(r).floor = r.floor /\ h(r).max = r.max /\ h(r).seen = r.seen /\ h(r).applied = r.applied
      /\ h(r).bounded = r.bounded /\ h(r).latched = r.latched /\ h(r).seeded = r.seeded /\ h(r).entry = r.entry
      /\ h(r).armed = r.armed /\ h(r).requested = cap(r) /\ h(r).thermal = r.thermal /\ h(r).shadow = r.shadow
  BY <1>3 DEF Bound, Loops
<1> HIDE DEF h
<1>8. Bound(h(r))
  BY <1>3, <1>5, <1>6, <1>7, BoundOK DEF Bound, Sound
<1>9. /\ Bound(v(r)) /\ v(r).floor = r.floor /\ v(r).max = r.max /\ v(r).seen = r.seen /\ v(r).applied = r.applied
      /\ v(r).latched = r.latched /\ v(r).seeded = r.seeded /\ v(r).requested = cap(r) /\ v(r).armed = r.armed
  BY <1>7, <1>8, ValidOK
<1> HIDE DEF v
<1>10. n(r) \in Loops
  BY <1>9 DEF Bound, Loops
<1>11. /\ n(r).floor = r.floor /\ n(r).max = r.max /\ n(r).seen = r.seen /\ n(r).applied = r.applied
       /\ n(r).latched = r.latched /\ n(r).seeded = r.seeded /\ n(r).requested = cap(r) /\ n(r).armed = r.armed
       /\ n(r).bounded = v(r).bounded /\ n(r).thermal = v(r).thermal /\ n(r).shadow = v(r).shadow
  BY <1>9 DEF Bound, Loops
<1> HIDE DEF n
<1>12. Bound(n(r))
  BY <1>9, <1>10, <1>11, BoundOK DEF Bound, Sound
<1>13. cap(r) # None
  BY <1>5, BoundOK, Consts
<1>14. Keeps(b, n(r)) /\ (b.armed => n(r).armed)
  BY <1>2, <1>11, <1>12, <1>13 DEF Keeps, Kin
<1>15. b.requested # None /\ ~bypass => Rises(b, n(r))
  <2> SUFFICES ASSUME b.requested # None, ~bypass PROVE Rises(b, n(r))
    OBVIOUS
  <2>1. b.requested \in b.floor..b.max /\ b.floor \in Nat /\ High(b.requested, b.applied) \in Int
        /\ High(b.requested, b.applied) >= b.requested
    BY BoundOK, LowHigh, Consts
  <2>2. cap(r) <= b.requested + Rise
    BY <1>4, <1>5, <2>1, BoundOK, Consts DEF High
  <2>3. cap(r) \in Int
    BY <1>5
  <2> QED BY <1>11, <2>1, <2>2, <2>3, Consts DEF Rises
<1> QED BY <1>1, <1>5, <1>11, <1>14, <1>15 DEF StaysArmed
-----------------------------------------------------------------------------
(* A tick.                                                                 *)

\* What a tick promises: b is the loop within the bounds of the sample, n the loop it leaves.
Ticked(l, i, d) ==
  LET b == Bounded(l, i)
      n == d.loop
  IN  /\ Keeps(b, n) /\ d.cap \in i.floor..i.max /\ d.now \in BOOLEAN /\ d.allowed \in BOOLEAN
      /\ d.allowed => l.seen
      /\ l.seen /\ Urgent(l, i) => d.now /\ d.allowed
      /\ l.seen /\ b.latched => n.thermal = b.thermal /\ n.shadow = b.shadow
      /\ l.armed /\ ~n.armed /\ l.applied # None => n.requested <= High(l.applied, n.floor)
      /\ l.seen /\ ~l.reset /\ ~n.lost /\ i.floor = l.floor /\ ~(l.entry /\ l.applied = None) => Rises(b, n)

\* A tick: what it keeps and in which of the ways it moves the request.
LEMMA TickOK ==
  ASSUME NEW l \in Loops, NEW i \in Input, i.err # "none" => l.seen, l.seen => l.seeded /\ l.requested # None,
         NEW d \in Tick(l, i)
  PROVE  Ticked(l, i, d)
<1> DEFINE now == Urgent(l, i)
           b == Bounded(l, i)
           bypass == l.bounded /\ (i.floor # l.floor \/ (i.max < l.max /\ l.requested > i.max))
           resynced == ~b.seen \/ b.missing \/ Recovered(l, i)
           p0 == Present(b, i)
           p == IF resynced THEN [p0 EXCEPT !.elapsed = 0] ELSE p0
           t == IF TrimDue(p, resynced) THEN [p EXCEPT !.trim = FALSE] ELSE p
           handover == Handover(t, i, resynced)
           n == d.loop
<1>1. /\ Bound(b) /\ b.floor = i.floor /\ b.max = i.max
      /\ b.requested = IF l.requested = None THEN None ELSE Clip(l.requested, b)
      /\ b.applied = l.applied /\ b.seen = l.seen /\ b.reset = l.reset
      /\ b.armed = l.armed /\ b.entry = l.entry /\ b.seeded = l.seeded
  BY BoundedOK
<1>2. l.seen \in BOOLEAN /\ l.armed \in BOOLEAN /\ now \in BOOLEAN /\ bypass \in BOOLEAN
  <2>1. l.seen \in BOOLEAN /\ l.armed \in BOOLEAN
    BY DEF Loops
  <2>2. now \in BOOLEAN /\ bypass \in BOOLEAN
    BY DEF Urgent
  <2> QED BY <2>1, <2>2
<1>3. b.requested # None \/ ~l.seen
  <2>1. l.requested # None => l.requested \in Int
    BY Consts DEF Loops
  <2>2. l.requested # None => Clip(l.requested, b) \in b.floor..b.max
    BY <1>1, <2>1, BoundOK, ClipOK
  <2>3. l.requested # None => Clip(l.requested, b) # None
    BY <1>1, <2>2, BoundOK, Consts
  <2> QED BY <1>1, <2>3
<1> HIDE DEF now, b
\* Any way that leaves a decision is enough once it is shown what it does to b.
<1>4. ASSUME Keeps(b, n), d.cap \in b.floor..b.max, d.now \in BOOLEAN, d.allowed \in BOOLEAN,
             d.allowed => b.seen, b.seen /\ now => d.now /\ d.allowed,
             b.seen /\ b.latched => n.thermal = b.thermal /\ n.shadow = b.shadow,
             b.armed /\ ~n.armed /\ b.applied # None => n.requested <= High(b.applied, b.floor),
             b.seen /\ ~b.reset /\ ~n.lost /\ i.floor = l.floor /\ ~(b.entry /\ b.applied = None) => Rises(b, n)
      PROVE  Ticked(l, i, d)
  <2>1. n.floor = b.floor
    BY <1>4 DEF Keeps
  <2> QED BY <1>1, <1>4, <2>1 DEF Ticked, b, now
<1>5. CASE i.resumed
  <2>1. d \in Resumed(b, i)
    BY <1>5 DEF Tick, b
  <2>2. /\ Way(b, d) /\ StaysArmed(b, d) /\ (b.seen => d.now /\ d.allowed)
        /\ (b.seeded => n.thermal = b.thermal /\ n.shadow = b.shadow)
    BY <1>1, <2>1, ResumedOK
  <2> QED BY <1>1, <1>3, <1>4, <2>2 DEF Way, StaysArmed
<1>6. CASE ~i.resumed /\ i.err = "none"
  <2>1. d \in Absent(b, i, now)
    BY <1>6 DEF Tick, b, now
  <2>2. /\ Way(b, d) /\ StaysArmed(b, d) /\ d.now = now /\ d.allowed = b.seen
        /\ (b.latched => n.thermal = b.thermal /\ n.shadow = b.shadow)
    BY <1>1, <1>2, <2>1, AbsentOK
  <2> QED BY <1>1, <1>3, <1>4, <2>2 DEF Way, StaysArmed
<1>7. CASE ~i.resumed /\ i.err # "none"
  <2>1. l.seen /\ b.seen /\ b.requested # None
    BY <1>1, <1>3, <1>7
  <2>2. Like(b, p0)
    BY <1>1, <2>1, PresentOK
  <2> HIDE DEF p0
  <2>3. Like(b, p)
    <3> DEFINE p1 == [p0 EXCEPT !.elapsed = 0]
    <3>1. p \in {p0, p1}
      OBVIOUS
    <3>2. Like(p0, p1)
      BY <2>2, TimersOK DEF Like
    <3> HIDE DEF p, p1
    <3> QED BY <1>1, <2>2, <3>1, <3>2, TimersOK, ZenonT(40)
  <2>4. Like(b, t)
    <3> DEFINE t1 == [p EXCEPT !.trim = FALSE]
    <3>1. t \in {p, t1}
      OBVIOUS
    <3> HIDE DEF p
    <3>2. Like(p, t1)
      BY <2>3, TimersOK DEF Like
    <3> HIDE DEF t, t1
    <3> QED BY <1>1, <2>3, <3>1, <3>2, TimersOK, ZenonT(40)
  <2>5. d \in IF p.latched THEN Frozen(p, i, now)
              ELSE IF TrimDue(p, resynced) /\ Trimmed(p) < p.thermal THEN Trim(p, i, now)
              ELSE IF handover \/ InitialHot(t, i) THEN HotTransfer(t, i, handover, now)
              ELSE Regular(t, i, now, bypass)
    BY <1>7 DEF Tick, b, now, p0
  <2>6. handover \in BOOLEAN
    BY DEF Handover
  <2>7. TrimDue(p, resynced) => Ready(p)
    BY DEF TrimDue
  <2> HIDE DEF p, t, handover, bypass
  <2>8. Bound(p) /\ p.seen /\ p.latched = b.latched /\ Bound(t) /\ t.seen
    BY <2>1, <2>3, <2>4 DEF Like
  <2>9. CASE p.latched
    <3>1. /\ Way(p, d) /\ StaysArmed(p, d) /\ d.now = now /\ d.allowed = TRUE
          /\ n.thermal = p.thermal /\ n.shadow = p.shadow
      BY <1>2, <2>5, <2>8, <2>9, FrozenOK, ZenonT(40)
    <3>2. Way(b, d)
      BY <1>1, <2>3, <3>1, WayOfLike
    <3>3. StaysArmed(b, d) /\ n.thermal = b.thermal /\ n.shadow = b.shadow
      BY <2>3, <2>8, <2>9, <3>1 DEF Like, StaysArmed
    <3> QED BY <1>4, <2>1, <3>1, <3>2, <3>3 DEF Way, StaysArmed
  <2>10. CASE ~p.latched /\ TrimDue(p, resynced) /\ Trimmed(p) < p.thermal
    <3>1. Way(p, d) /\ StaysArmed(p, d) /\ d.now = now /\ d.allowed = TRUE
      BY <1>2, <2>5, <2>7, <2>8, <2>10, TrimOK
    <3>2. Way(b, d) /\ StaysArmed(b, d) /\ ~b.latched
      BY <1>1, <2>3, <2>8, <2>10, <3>1, WayOfLike DEF Like, StaysArmed
    <3> QED BY <1>4, <2>1, <3>1, <3>2 DEF Way, StaysArmed
  <2>11. CASE ~p.latched /\ d \in HotTransfer(t, i, handover, now)
    <3>1. /\ Way(t, d) /\ d.now = now /\ d.allowed = TRUE
          /\ t.applied # None => n.requested <= High(t.applied, t.floor)
      BY <1>2, <2>6, <2>8, <2>11, HotTransferOK
    <3>2. Way(b, d)
      BY <1>1, <2>4, <3>1, WayOfLike
    <3>3. b.applied # None => n.requested <= High(b.applied, b.floor)
      BY <2>4, <3>1 DEF Like
    <3> QED BY <1>4, <2>1, <2>8, <2>11, <3>1, <3>2, <3>3 DEF Way
  <2>12. CASE ~p.latched /\ d \in Regular(t, i, now, bypass)
    <3>1. /\ Keeps(t, n) /\ StaysArmed(t, d) /\ d.now = now /\ d.allowed = TRUE
          /\ d.cap \in t.floor..t.max /\ n.requested \in t.floor..t.max
          /\ t.requested # None /\ ~bypass => Rises(t, n)
      BY <1>2, <2>8, <2>12, RegularOK
    <3>2. /\ Keeps(b, n) /\ StaysArmed(b, d) /\ d.cap \in b.floor..b.max /\ n.requested \in b.floor..b.max
          /\ ~b.reset /\ ~bypass => Rises(b, n)
      BY <2>1, <2>4, <3>1 DEF Like, Keeps, StaysArmed, Rises
    <3>3. i.floor = l.floor /\ bypass => Rises(b, n)
      <4> SUFFICES ASSUME i.floor = l.floor, bypass PROVE Rises(b, n)
        OBVIOUS
      <4>1. l.requested > i.max /\ l.requested # None /\ l.requested \in Int
        BY <1>1, <2>1, Consts DEF bypass, Loops
      <4>2. b.requested = b.max
        BY <1>1, <4>1, BoundOK DEF Clip, Low, High
      <4>3. High(b.requested, b.applied) >= b.requested /\ High(b.requested, b.applied) \in Int
        BY <1>1, <4>2, BoundOK, LowHigh, Consts
      <4>4. n.requested <= b.requested /\ n.requested \in Int /\ b.requested \in Int
        BY <1>1, <3>2, <4>2, BoundOK
      <4> HIDE DEF n
      <4>5. n.requested <= High(b.requested, b.applied) + Rise
        BY <4>3, <4>4, Consts
      <4> QED BY <4>5 DEF Rises, n
    <3>4. ~b.reset /\ i.floor = l.floor => Rises(b, n)
      BY <3>2, <3>3
    <3>5. (b.armed => n.armed) /\ ~b.latched
      BY <2>8, <2>12, <3>2 DEF StaysArmed
    <3>6. d.now \in BOOLEAN /\ d.allowed \in BOOLEAN /\ d.allowed /\ (now => d.now)
      BY <1>2, <3>1
    <3> HIDE DEF n
    <3> QED BY <1>4, <2>1, <3>2, <3>4, <3>5, <3>6
  <2> QED BY <2>5, <2>9, <2>10, <2>11, <2>12
<1> QED BY <1>5, <1>6, <1>7, InputOK
-----------------------------------------------------------------------------
(* The controller's part of a sample.                                      *)

\* The ratchet stays in range and above the floor.
LEMMA RatchetOK ==
  ASSUME ceiling \in Levels, floor \in Levels, NEW g
  PROVE  Ratchet(g) \in Levels /\ floor <= Ratchet(g)
<1>1. High(ceiling, floor) \in 0..Top /\ floor \in 0..Top /\ High(ceiling, floor) >= floor
  BY Consts DEF High
<1>2. \A x \in 0..Top : /\ High(x - Down, floor) \in 0..Top \/ x < floor
                        /\ High(x - Down, floor) >= floor
                        /\ Low(x + Up, Top) \in 0..Top
                        /\ x >= floor => Low(x + Up, Top) >= floor
  BY <1>1, Consts DEF High, Low
<1> QED BY <1>1, <1>2, Consts, SMTT(20) DEF Ratchet

\* The loop that enters a tick, against the one the last sample left.
Begins(i, e) ==
  /\ e \in Loops /\ (i.err # "none" => e.seen) /\ (e.seen => e.seeded /\ e.requested # None)
  /\ e.floor = loop.floor /\ e.max = loop.max /\ e.bounded = loop.bounded /\ e.armed = loop.armed
  /\ e.latched = loop.latched /\ e.entry = loop.entry /\ e.reset = loop.reset
  /\ loop.seen => e.seen /\ e.requested = loop.requested /\ e.applied = loop.applied
  /\ ~loop.seen /\ e.seen => e.applied = applied /\ (applied # None => e.requested = applied)
  /\ ~e.seen => e.applied = loop.applied
  /\ loop.seen /\ i.act \in {"Mismatch", "Troubled"} => e.thermal = loop.thermal /\ e.shadow = loop.shadow

\* A loop that enters seeded has its candidates from the configuration and the draw, and its
\* request from the cap in force.
LEMMA SeedAsOK ==
  ASSUME IInv, NEW i \in Input, NEW s \in SeedAs(loop, i, i.max)
  PROVE  Begins(i, s)
<1>1. loop \in Loops /\ applied \in Maybe /\ loop.seen \in BOOLEAN /\ floor \in 0..Top
  BY Consts DEF IInv, TypeOK, Loops
<1>2. CASE loop.seen \/ i.err = "none"
  <2>1. s = loop
    BY <1>2 DEF SeedAs
  <2> QED BY <1>1, <1>2, <2>1 DEF Begins, IInv, Begun
<1>3. CASE ~loop.seen /\ i.err # "none"
  <2> DEFINE shadow(t) == IF i.draw = None THEN t ELSE Low(i.draw + Headroom, Top)
             requested(t) == Else(applied, Low(t, shadow(t)))
             k == [loop EXCEPT !.seen = TRUE, !.seeded = TRUE]
             m(t) == [loop EXCEPT !.thermal = t, !.shadow = shadow(t), !.requested = requested(t),
                                  !.applied = applied, !.elapsed = 0, !.seen = TRUE, !.seeded = TRUE]
  <2>1. PICK t \in IF i.draw = None THEN {i.max} ELSE Low(i.max, High(floor, i.draw + Headroom))..i.max : s = m(t)
    BY <1>3 DEF SeedAs
  <2>2. t \in 0..Top
    <3>1. i.draw # None => Low(i.max, High(floor, i.draw + Headroom)) \in 0..Top
      BY <1>1, InputOK, Consts DEF Low, High
    <3>2. i.max \in 0..Top /\ Top \in Nat
      BY InputOK, Consts
    <3>3. t = i.max \/ (i.draw # None /\ t \in Low(i.max, High(floor, i.draw + Headroom))..i.max)
      BY <2>1
    <3> QED BY <3>1, <3>2, <3>3
  <2>3. shadow(t) \in 0..Top
    <3>1. i.draw # None => Low(i.draw + Headroom, Top) \in 0..Top
      BY InputOK, Consts DEF Low
    <3> QED BY <2>2, <3>1
  <2>4. requested(t) \in Maybe /\ requested(t) # None /\ (applied # None => requested(t) = applied)
    <3>1. Low(t, shadow(t)) \in 0..Top
      BY <2>2, <2>3 DEF Low
    <3> HIDE DEF shadow
    <3> QED BY <1>1, <3>1, Consts DEF Else
  <2> HIDE DEF shadow, requested
  <2>5. m(t) \in Loops
    <3>1. k \in Loops
      BY <1>1 DEF Loops
    <3>2. m(t) = [k EXCEPT !.thermal = t, !.shadow = shadow(t), !.requested = requested(t), !.applied = applied,
                           !.elapsed = 0]
      BY <1>1 DEF Loops
    <3>3. t \in Levels /\ shadow(t) \in Levels /\ 0 \in 0..PeriodT
      BY <2>2, <2>3, Consts
    <3> HIDE DEF k, m
    <3> QED BY <1>1, <2>4, <3>1, <3>2, <3>3, ZenonT(40) DEF Loops
  <2>6. /\ m(t).seen = TRUE /\ m(t).seeded = TRUE /\ m(t).requested = requested(t) /\ m(t).applied = applied
        /\ m(t).floor = loop.floor /\ m(t).max = loop.max /\ m(t).bounded = loop.bounded /\ m(t).armed = loop.armed
        /\ m(t).latched = loop.latched /\ m(t).entry = loop.entry /\ m(t).reset = loop.reset
    BY <1>1 DEF Loops
  <2> HIDE DEF m
  <2> QED BY <1>3, <2>1, <2>4, <2>5, <2>6 DEF Begins
<1> QED BY <1>2, <1>3

\* What the session does once keeps all that, and does nothing while a mismatch lasts.
LEMMA EnteringOK ==
  ASSUME IInv, NEW i \in Input, NEW s, Begins(i, s), NEW p \in SUBSET {"shadow", "thermal"},
         NEW e \in Entering(s, i, p)
  PROVE  Begins(i, e.loop) /\ e.pending \subseteq {"shadow", "thermal"}
<1>1. s \in Loops /\ s.floor \in 0..Top /\ s.max \in 0..Top /\ s.floor <= s.max
  BY Consts DEF IInv, TypeOK, Begins, Loops
<1>2. High(i.floor, Low(i.draw + Headroom, i.max)) \in Int /\ i.max \in Int
  <2>1. i.draw + Headroom \in Int /\ i.floor \in Int /\ i.max \in Int
    <3>1. i.draw \in Int /\ i.floor \in Int /\ i.max \in Int
      BY InputOK, Consts
    <3> QED BY <3>1, Consts
  <2>2. \A x, y \in Int : High(x, y) \in Int /\ Low(x, y) \in Int
    BY DEF High, Low
  <2> QED BY <2>1, <2>2
<1> DEFINE seed == High(i.floor, Low(i.draw + Headroom, i.max))
<1>3. seed \in Int
  BY <1>2
<1> HIDE DEF seed
<1>4. ASSUME NEW y \in Int PROVE Clip(y, s) \in Levels
  <2>1. Clip(y, s) \in s.floor..s.max
    BY <1>1, ClipOK
  <2>2. s.floor..s.max \subseteq 0..Top
    BY <1>1, Consts
  <2> QED BY <2>1, <2>2, Consts
<1>5. \A y \in seed..i.max : Clip(y, s) \in Levels
  BY <1>2, <1>3, <1>4
<1>6. 0 \in 0..DwellT /\ 0 \in 0..PeriodT /\ FALSE \in BOOLEAN
  BY Consts
<1>7. CASE i.err = "none" \/ i.resumed \/ i.act \in {"Mismatch", "Troubled"}
  <2>1. e = [loop |-> s, pending |-> p \ ({} \cup {})]
    BY <1>7 DEF Entering
  <2> QED BY <2>1
<1>8. CASE ~(i.err = "none" \/ i.resumed \/ i.act \in {"Mismatch", "Troubled"})
  <2> DEFINE Same(x) == /\ x \in Loops
                        /\ x.floor = s.floor /\ x.max = s.max /\ x.bounded = s.bounded /\ x.armed = s.armed
                        /\ x.latched = s.latched /\ x.entry = s.entry /\ x.reset = s.reset /\ x.seen = s.seen
                        /\ x.requested = s.requested /\ x.applied = s.applied /\ x.seeded = s.seeded
  <2>1. ASSUME NEW x, Same(x), NEW t \in Levels
        PROVE  Same([x EXCEPT !.thermal = t, !.elapsed = 0])
    <3>1. [x EXCEPT !.thermal = t, !.elapsed = 0] \in Loops
      BY <1>6, <2>1, ZenonT(60) DEF Loops
    <3>2. PICK z : z = [x EXCEPT !.thermal = t, !.elapsed = 0]
      OBVIOUS
    <3>3. /\ z.floor = x.floor /\ z.max = x.max /\ z.bounded = x.bounded /\ z.armed = x.armed
          /\ z.latched = x.latched /\ z.entry = x.entry /\ z.reset = x.reset /\ z.seen = x.seen
          /\ z.requested = x.requested /\ z.applied = x.applied /\ z.seeded = x.seeded
      BY <2>1, <3>2 DEF Loops
    <3> QED BY <2>1, <3>1, <3>2, <3>3
  <2> DEFINE cold == [s EXCEPT !.shadow = Clip(seed, s), !.drawless = FALSE, !.drawlessFor = 0]
             warm(y) == [cold EXCEPT !.thermal = Clip(y, s), !.elapsed = 0]
             back(x) == [x EXCEPT !.thermal = Clip(i.max, s), !.elapsed = 0]
  <2>2. PICK x \in {s} \cup ({cold} \cup {warm(y) : y \in seed..i.max}), restored \in BOOLEAN :
          \E d : e = [loop |-> IF restored THEN back(x) ELSE x, pending |-> p \ d]
    BY <1>8 DEF Entering, seed
  <2>3. Same(cold)
    <3>1. PICK shadow \in Levels : shadow = Clip(seed, s)
      BY <1>3, <1>4
    <3>2. cold = [s EXCEPT !.shadow = shadow, !.drawless = FALSE, !.drawlessFor = 0]
      BY <3>1
    <3> HIDE DEF cold
    <3>3. cold \in Loops
      BY <1>1, <1>6, <3>2 DEF Loops
    <3>4. /\ cold.floor = s.floor /\ cold.max = s.max /\ cold.bounded = s.bounded /\ cold.armed = s.armed
          /\ cold.latched = s.latched /\ cold.entry = s.entry /\ cold.reset = s.reset /\ cold.seen = s.seen
          /\ cold.requested = s.requested /\ cold.applied = s.applied /\ cold.seeded = s.seeded
      BY <1>1, <3>2 DEF Loops
    <3> QED BY <3>3, <3>4
  <2>4. Same(s)
    BY <1>1
  <2> HIDE DEF Same, cold
  <2>5. \A y \in seed..i.max : Same(warm(y))
    BY <1>5, <2>1, <2>3
  <2> HIDE DEF warm
  <2>6. Same(x)
    BY <2>2, <2>3, <2>4, <2>5
  <2>7. Same(e.loop) /\ e.pending \subseteq p
    <3>1. Clip(i.max, s) \in Levels
      BY <1>2, <1>4
    <3>2. Same(back(x))
      BY <2>1, <2>6, <3>1
    <3> HIDE DEF back
    <3> QED BY <2>2, <2>6, <3>2
  <2>8. Begins(i, e.loop)
    BY <1>8, <2>7 DEF Begins, Same
  <2> QED BY <2>7, <2>8
<1> QED BY <1>7, <1>8

\* A write notes the cap it verified, and only a decision that is allowed is written.
LEMMA WritesOK ==
  ASSUME NEW d, d.cap \in Levels, act \in Acts, applied \in Maybe, NEW w \in Writes(d)
  PROVE  /\ w.act \in Acts /\ w.applied \in Maybe
         /\ w.act = "Unverifiable" => act \notin {"Mismatch", "Troubled"}
         /\ \/ w.loop = d.loop /\ w.applied \in {applied, None}
            \/ d.allowed /\ w.loop = [d.loop EXCEPT !.applied = d.cap] /\ w.applied = d.cap
  BY Consts, SMTT(20) DEF Writes, Acts

\* One sample: its inputs i, the loop e that enters the tick, the decision d and its write w.
Sample(i, e, d, w) ==
  /\ i \in Input /\ i.act = act /\ i.floor = floor /\ i.max = ceiling' /\ Begins(i, e)
  /\ d \in Tick(e, i) /\ w \in Writes(d)
  /\ loop' = w.loop /\ act' = w.act /\ applied' = w.applied /\ urgent' = (d.now /\ d.allowed)

\* A sample of the controller is a tick on one of the inputs.
LEMMA SampleOK ==
  ASSUME IInv, OnSample
  PROVE  /\ \E i, e, d, w : Sample(i, e, d, w)
         /\ ceiling' \in Levels /\ floor' = floor /\ pending' \subseteq {"shadow", "thermal"}
<1> DEFINE given(err, resumed, max, draw) ==
             [err |-> err, draw |-> draw, resumed |-> resumed, act |-> act, floor |-> floor, max |-> max,
              dt |-> IF loop.bounded THEN 1 ELSE 0]
           sampled(i, max, restored) ==
             /\ ceiling' = max
             /\ \E s \in SeedAs(loop, i, max) :
                  \E e \in Entering(s, i, pending \cup restored) :
                    /\ pending' = e.pending
                    /\ \E d \in Tick(e.loop, i) : \E w \in Writes(d) :
                         /\ loop' = w.loop /\ act' = w.act /\ applied' = w.applied
                         /\ urgent' = (d.now /\ d.allowed)
             /\ UNCHANGED floor
<1>0. PICK err \in {"none", "hot", "cool"}, resumed \in BOOLEAN,
           max \in {Ratchet(g) : g \in {"hot", "cool", "between"}}, restored \in SUBSET ({"thermal"} \ pending) :
        \E draw \in IF err = "none" \/ resumed THEN {None} ELSE {None} \cup Draws :
          sampled(given(err, resumed, max, draw), max, restored)
  BY DEF OnSample
<1>1. PICK draw \in {None} \cup Draws : sampled(given(err, resumed, max, draw), max, restored)
  BY <1>0
<1>2. PICK dt \in {0, 1} : dt = IF loop.bounded THEN 1 ELSE 0
  OBVIOUS
<1> DEFINE i == [err |-> err, draw |-> draw, resumed |-> resumed, act |-> act, floor |-> floor, max |-> max, dt |-> dt]
<1>3. PICK s \in SeedAs(loop, i, max) :
        \E e \in Entering(s, i, pending \cup restored) :
          /\ pending' = e.pending
          /\ \E d \in Tick(e.loop, i) : \E w \in Writes(d) :
               /\ loop' = w.loop /\ act' = w.act /\ applied' = w.applied
               /\ urgent' = (d.now /\ d.allowed)
  BY <1>1, <1>2
<1>4. ceiling' = max /\ floor' = floor
  BY <1>1
<1>5. max \in Levels /\ floor <= max /\ floor \in Levels /\ act \in Acts
  BY <1>0, RatchetOK DEF IInv, TypeOK
<1>6. i \in Input
  BY <1>5 DEF Input
<1>7. i.max = max /\ i.act = act /\ i.floor = floor
  OBVIOUS
<1> HIDE DEF i
<1>8. Begins(i, s)
  BY <1>3, <1>6, <1>7, SeedAsOK
<1>9. pending \cup restored \in SUBSET {"shadow", "thermal"}
  BY <1>0 DEF IInv, TypeOK
<1>10. PICK e \in Entering(s, i, pending \cup restored) :
         /\ pending' = e.pending
         /\ \E d \in Tick(e.loop, i) : \E w \in Writes(d) :
              /\ loop' = w.loop /\ act' = w.act /\ applied' = w.applied
              /\ urgent' = (d.now /\ d.allowed)
  BY <1>3
<1>11. Begins(i, e.loop) /\ e.pending \subseteq {"shadow", "thermal"}
  BY <1>6, <1>8, <1>9, <1>10, EnteringOK
<1>12. PICK d \in Tick(e.loop, i) : \E w \in Writes(d) :
         loop' = w.loop /\ act' = w.act /\ applied' = w.applied /\ urgent' = (d.now /\ d.allowed)
  BY <1>10
<1>13. PICK w \in Writes(d) :
         loop' = w.loop /\ act' = w.act /\ applied' = w.applied /\ urgent' = (d.now /\ d.allowed)
  BY <1>12
<1>14. pending' = e.pending
  BY <1>10
<1>15. Sample(i, e.loop, d, w)
  BY <1>4, <1>6, <1>7, <1>11, <1>12, <1>13 DEF Sample
<1> QED BY <1>4, <1>5, <1>11, <1>14, <1>15

\* The loop a sample leaves is the one of its decision, but for the cap the write notes.
LEMMA LeavesOK ==
  ASSUME IInv, NEW i, NEW e, NEW d, NEW w, Sample(i, e, d, w)
  PROVE  /\ Ticked(e, i, d) /\ Bound(loop')
         /\ loop'.floor = i.floor /\ loop'.max = i.max /\ loop'.seen = e.seen /\ loop'.seeded = d.loop.seeded
         /\ loop'.latched = Bounded(e, i).latched /\ loop'.requested = d.loop.requested /\ loop'.entry = d.loop.entry
         /\ loop'.armed = d.loop.armed /\ loop'.lost = d.loop.lost
         /\ loop'.thermal = d.loop.thermal /\ loop'.shadow = d.loop.shadow
         /\ act' \in Acts /\ applied' \in Maybe /\ urgent' \in BOOLEAN
         /\ act' = "Unverifiable" => act \notin {"Mismatch", "Troubled"}
         /\ \/ loop'.applied = e.applied /\ applied' \in {applied, None}
            \/ e.seen /\ loop'.applied = d.cap /\ applied' = d.cap
         /\ d.cap # None
<1> DEFINE n == d.loop
           b == Bounded(e, i)
<1>1. i \in Input /\ e \in Loops /\ (i.err # "none" => e.seen) /\ (e.seen => e.seeded /\ e.requested # None)
      /\ d \in Tick(e, i)
  BY DEF Sample, Begins
<1>2. Ticked(e, i, d)
  BY <1>1, TickOK
<1>3. /\ Bound(b) /\ b.floor = i.floor /\ b.max = i.max /\ b.applied = e.applied /\ b.seen = e.seen
  BY <1>1, BoundedOK
<1>4. /\ Keeps(b, n) /\ d.cap \in i.floor..i.max /\ d.now \in BOOLEAN /\ d.allowed \in BOOLEAN
      /\ d.allowed => e.seen
  BY <1>2 DEF Ticked
<1> HIDE DEF b, n
<1>5. /\ Bound(n) /\ n.floor = i.floor /\ n.max = i.max /\ n.seen = e.seen /\ n.applied = e.applied
      /\ n.latched = b.latched
  BY <1>3, <1>4 DEF Keeps
<1>6. d.cap \in Levels /\ d.cap # None
  BY <1>1, <1>4, InputOK, Consts
<1>7. /\ act' \in Acts /\ applied' \in Maybe
      /\ act' = "Unverifiable" => act \notin {"Mismatch", "Troubled"}
      /\ \/ loop' = n /\ applied' \in {applied, None}
         \/ d.allowed /\ loop' = [n EXCEPT !.applied = d.cap] /\ applied' = d.cap
  BY <1>6, WritesOK DEF Sample, IInv, TypeOK, n
<1>8. CASE loop' = n /\ applied' \in {applied, None}
  BY <1>2, <1>4, <1>5, <1>6, <1>7, <1>8 DEF Sample, n, b
<1>9. CASE d.allowed /\ loop' = [n EXCEPT !.applied = d.cap] /\ applied' = d.cap
  <2> DEFINE m == [n EXCEPT !.applied = d.cap]
  <2>1. m \in Loops
    BY <1>5, <1>6, Consts DEF Bound, Loops
  <2>2. /\ m.floor = n.floor /\ m.max = n.max /\ m.seen = n.seen /\ m.seeded = n.seeded /\ m.bounded = n.bounded
        /\ m.latched = n.latched /\ m.requested = n.requested /\ m.entry = n.entry
        /\ m.armed = n.armed /\ m.lost = n.lost /\ m.thermal = n.thermal /\ m.shadow = n.shadow
        /\ m.applied = d.cap
    BY <1>5 DEF Bound, Loops
  <2>3. loop' = m
    BY <1>9
  <2> HIDE DEF m
  <2>4. Bound(m)
    BY <1>5, <2>1, <2>2 DEF Bound, Sound
  <2> QED BY <1>2, <1>4, <1>5, <1>6, <1>7, <1>9, <2>2, <2>3, <2>4 DEF Sample, n, b
<1> QED BY <1>7, <1>8, <1>9
-----------------------------------------------------------------------------
(* The inductive invariant.                                                *)

\* A new loop, of an engagement that begins.
LEMMA NewOK ==
  /\ New \in Loops /\ New.floor <= New.max /\ New.bounded = FALSE /\ New.seen = FALSE /\ New.applied = None
  /\ New.entry = TRUE /\ New.latched = FALSE /\ New.armed = TRUE
<1>1. <<>> \in History
  <2>1. <<>> \in [1..0 -> Levels]
    OBVIOUS
  <2> QED BY <2>1 DEF History
<1>2. /\ 0 \in Levels /\ Top \in Levels /\ None \in Maybe /\ 0 \in 0..PeriodT /\ 0 \in 0..DwellT
      /\ TRUE \in BOOLEAN /\ FALSE \in BOOLEAN
  BY Consts
<1> QED BY <1>1, <1>2, Consts DEF New, Loops

\* The initial states satisfy the invariant.
LEMMA InitIInv == Init => IInv
<1> SUFFICES ASSUME Init PROVE IInv
  OBVIOUS
<1>1. loop = New /\ act = "Unverifiable"
  BY DEF Init
<1>2. floor \in Levels /\ ceiling \in Levels /\ applied \in Maybe
  BY Consts DEF Init
<1>3. pending \subseteq {"shadow", "thermal"} /\ urgent \in BOOLEAN
  BY DEF Init
<1>4. TypeOK
  BY <1>1, <1>2, <1>3, NewOK DEF TypeOK, Acts
<1> QED BY <1>1, <1>4, NewOK DEF IInv, WithinBounds, Begun, LatchHasCause

\* Every step keeps it.
LEMMA Inductive == IInv /\ [Next]_vars => IInv'
<1> SUFFICES ASSUME IInv, [Next]_vars PROVE IInv'
  OBVIOUS
<1>1. CASE OnSample
  <2>1. ceiling' \in Levels /\ floor' = floor /\ pending' \subseteq {"shadow", "thermal"}
    BY <1>1, SampleOK
  <2>2. PICK i, e, d, w : Sample(i, e, d, w)
    BY <1>1, SampleOK
  <2>3. /\ Ticked(e, i, d) /\ Bound(loop') /\ loop'.max = i.max /\ loop'.seen = e.seen /\ loop'.seeded = d.loop.seeded
        /\ loop'.latched = Bounded(e, i).latched /\ loop'.requested = d.loop.requested /\ loop'.entry = d.loop.entry
        /\ act' \in Acts /\ applied' \in Maybe /\ urgent' \in BOOLEAN
        /\ act' = "Unverifiable" => act \notin {"Mismatch", "Troubled"}
        /\ \/ loop'.applied = e.applied /\ applied' \in {applied, None}
           \/ e.seen /\ loop'.applied = d.cap /\ applied' = d.cap
        /\ d.cap # None
    BY <2>2, LeavesOK
  <2>4. /\ i \in Input /\ i.act = act /\ i.max = ceiling' /\ e \in Loops
        /\ e.seen => e.seeded /\ e.requested # None
        /\ e.latched = loop.latched /\ e.entry = loop.entry
        /\ loop.seen => e.seen /\ e.applied = loop.applied
        /\ ~loop.seen /\ e.seen => e.applied = applied
        /\ ~e.seen => e.applied = loop.applied
    BY <2>2 DEF Sample, Begins
  <2>5. Keeps(Bounded(e, i), d.loop)
    BY <2>3 DEF Ticked
  <2> DEFINE b == Bounded(e, i)
  <2>6. /\ b.seen = e.seen /\ b.seeded = e.seeded /\ b.entry = e.entry
        /\ b.requested = IF e.requested = None THEN None ELSE Clip(e.requested, b)
        /\ b.latched = (i.act = "Mismatch" \/ (e.latched /\ ~i.resumed /\ i.act # "Verified"))
        /\ Bound(b)
    BY <2>4, BoundedOK
  <2> HIDE DEF b
  <2>7. TypeOK'
    <3>1. floor' \in Levels
      BY <2>1 DEF IInv, TypeOK
    <3> QED BY <2>1, <2>3, <3>1 DEF TypeOK, Bound
  <2>8. WithinBounds'
    BY <2>3, <2>4 DEF WithinBounds, Bound
  <2>9. Begun'
    <3>1. e.seen => b.requested # None
      <4>1. e.requested # None => e.requested \in Int
        BY <2>4, Consts DEF Loops
      <4>2. e.requested # None => Clip(e.requested, b) \in b.floor..b.max
        BY <2>6, <4>1, BoundOK, ClipOK
      <4>3. e.requested # None => Clip(e.requested, b) # None
        BY <2>6, <4>2, BoundOK, Consts
      <4> QED BY <2>4, <2>6, <4>3
    <3>2. e.seen => loop'.seeded /\ loop'.requested # None
      BY <2>3, <2>4, <2>5, <2>6, <3>1 DEF Keeps, b
    <3>3. e.seen => (loop'.applied = None => applied' = None)
      BY <2>3, <2>4 DEF IInv, Begun
    <3>4. ~e.seen => loop'.applied = None /\ loop'.entry
      BY <2>3, <2>4, <2>5, <2>6 DEF Keeps, IInv, Begun, b
    <3> QED BY <2>3, <3>2, <3>3, <3>4 DEF Begun, Bound
  <2>10. LatchHasCause'
    BY <2>3, <2>4, <2>6 DEF IInv, LatchHasCause, TypeOK, Acts, b
  <2> QED BY <2>7, <2>8, <2>9, <2>10 DEF IInv
<1>2. CASE Disengage
  <2>2. ceiling' \in Levels
    BY <1>2, RatchetOK DEF Disengage, IInv, TypeOK
  <2>3. TypeOK'
    BY <1>2, <2>2, NewOK, Consts DEF Disengage, IInv, TypeOK, Acts
  <2> QED BY <1>2, <2>3, NewOK DEF Disengage, IInv, WithinBounds, Begun, LatchHasCause
<1>3. CASE SetFloors
  <2>1. floor' \in Levels
    BY <1>3, Consts DEF SetFloors
  <2>2. UNCHANGED <<loop, ceiling, pending, act, applied, urgent>>
    BY <1>3 DEF SetFloors
  <2> QED BY <2>1, <2>2 DEF IInv, TypeOK, WithinBounds, Begun, LatchHasCause
<1>4. CASE UNCHANGED vars
  BY <1>4 DEF vars, IInv, TypeOK, WithinBounds, Begun, LatchHasCause
<1> QED BY <1>1, <1>2, <1>3, <1>4 DEF Next

\* The invariant holds in every reachable state.
THEOREM AlwaysIInv == Spec => []IInv
  BY InitIInv, Inductive, PTL DEF Spec

\* Every cap of the loop is on the grid and its bounds are in order.
THEOREM TypeCorrect == Spec => []TypeOK
<1>1. IInv => TypeOK
  BY DEF IInv
<1> QED BY <1>1, AlwaysIInv, PTL
-----------------------------------------------------------------------------
(* What a sample may never do.                                             *)

\* A ceiling lowered under the cap in force is written at once: the tick compares it with the
\* maximum of the last sample, which is the ceiling of then (WithinBounds).
THEOREM RatchetCorrect == Spec => RatchetBites
<1> DEFINE A == ceiling' < ceiling /\ loop.seen /\ loop'.seen /\ loop.applied > ceiling' => urgent'
<1>1. IInv /\ [Next]_vars => [A]_vars
  <2> SUFFICES ASSUME IInv, Next, ceiling' < ceiling, loop.seen, loop'.seen, loop.applied > ceiling' PROVE urgent'
    BY DEF vars
  <2>1. CASE OnSample
    <3>1. PICK i, e, d, w : Sample(i, e, d, w)
      BY <2>1, SampleOK
    <3>2. e.bounded /\ e.max = ceiling /\ e.applied = loop.applied /\ e.seen /\ i.max = ceiling'
      BY <3>1 DEF Sample, Begins, IInv, WithinBounds, Begun
    <3>3. Urgent(e, i)
      BY <3>2 DEF Urgent
    <3>4. Ticked(e, i, d)
      BY <3>1, LeavesOK
    <3> QED BY <3>1, <3>2, <3>3, <3>4 DEF Ticked, Sample
  <2>2. CASE Disengage
    BY <2>2, NewOK DEF Disengage
  <2>3. CASE SetFloors
    BY <2>3, Consts DEF SetFloors, IInv, TypeOK
  <2> QED BY <2>1, <2>2, <2>3 DEF Next
<1> QED BY <1>1, AlwaysIInv, PTL DEF Spec, RatchetBites

\* Whatever else the tick does, a loop latched by a mismatch that lasts moves its candidates
\* only into the bounds.
THEOREM HeldCorrect == Spec => HeldWhileMismatched
<1> DEFINE A == loop.latched /\ loop'.latched /\ loop.seen
                => \A c \in {<<loop.thermal, loop'.thermal>>, <<loop.shadow, loop'.shadow>>} :
                     c[2] = Clip(c[1], loop')
<1>1. IInv /\ [Next]_vars => [A]_vars
  <2> SUFFICES ASSUME IInv, Next, loop.latched, loop'.latched, loop.seen
               PROVE  loop'.thermal = Clip(loop.thermal, loop') /\ loop'.shadow = Clip(loop.shadow, loop')
    BY DEF vars
  <2>1. CASE OnSample
    <3>1. PICK i, e, d, w : Sample(i, e, d, w)
      BY <2>1, SampleOK
    <3> DEFINE b == Bounded(e, i)
    <3>2. /\ Ticked(e, i, d) /\ loop'.floor = i.floor /\ loop'.max = i.max /\ loop'.latched = b.latched
          /\ loop'.thermal = d.loop.thermal /\ loop'.shadow = d.loop.shadow
      BY <3>1, LeavesOK
    <3>3. /\ e \in Loops /\ i \in Input /\ i.act = act /\ e.latched = loop.latched /\ e.seen
          /\ i.act \in {"Mismatch", "Troubled"} => e.thermal = loop.thermal /\ e.shadow = loop.shadow
      BY <3>1 DEF Sample, Begins
    <3>4. /\ b.floor = i.floor /\ b.max = i.max /\ b.thermal = Clip(e.thermal, b) /\ b.shadow = Clip(e.shadow, b)
          /\ b.latched = (i.act = "Mismatch" \/ (e.latched /\ ~i.resumed /\ i.act # "Verified"))
      BY <3>3, BoundedOK
    <3>5. d.loop.thermal = b.thermal /\ d.loop.shadow = b.shadow
      BY <3>2, <3>3 DEF Ticked
    <3> HIDE DEF b
    <3>6. act \in {"Mismatch", "Troubled"}
      BY <3>2, <3>3, <3>4 DEF IInv, LatchHasCause, TypeOK, Acts
    <3>7. \A x : Clip(x, loop') = Clip(x, b)
      BY <3>2, <3>4 DEF Clip
    <3> QED BY <3>2, <3>3, <3>4, <3>5, <3>6, <3>7
  <2>2. CASE Disengage
    BY <2>2, NewOK DEF Disengage
  <2>3. CASE SetFloors
    <3>1. loop' = loop
      BY <2>3 DEF SetFloors
    <3>2. Bound(loop)
      BY DEF IInv, TypeOK, WithinBounds, Begun, Bound
    <3>3. Clip(loop.thermal, loop) = loop.thermal /\ Clip(loop.shadow, loop) = loop.shadow
      BY <3>2, BoundOK, ClipOK
    <3> QED BY <3>1, <3>3
  <2> QED BY <2>1, <2>2, <2>3 DEF Next
<1> QED BY <1>1, AlwaysIInv, PTL DEF Spec, HeldWhileMismatched

\* The transfer starts from the cap in force, and only goes down from there.
THEOREM HotTransferCorrect == Spec => HotTransferNeverRaises
<1> DEFINE A == loop.armed /\ ~loop'.armed /\ loop.applied # None
                => loop'.requested <= High(loop.applied, loop'.floor)
<1>1. IInv /\ [Next]_vars => [A]_vars
  <2> SUFFICES ASSUME IInv, Next, loop.armed, ~loop'.armed, loop.applied # None
               PROVE  loop'.requested <= High(loop.applied, loop'.floor)
    BY DEF vars
  <2>1. CASE OnSample
    <3>1. PICK i, e, d, w : Sample(i, e, d, w)
      BY <2>1, SampleOK
    <3>2. e.armed = loop.armed /\ e.applied = loop.applied
      BY <3>1 DEF Sample, Begins, IInv, Begun
    <3>3. /\ Ticked(e, i, d) /\ loop'.floor = i.floor /\ loop'.armed = d.loop.armed
          /\ loop'.requested = d.loop.requested
      BY <3>1, LeavesOK
    <3>4. d.loop.floor = i.floor
      BY <3>1, <3>3, BoundedOK DEF Ticked, Keeps, Sample, Begins
    <3> QED BY <3>2, <3>3, <3>4 DEF Ticked
  <2>2. CASE Disengage
    BY <2>2, NewOK DEF Disengage
  <2>3. CASE SetFloors
    BY <2>3 DEF SetFloors
  <2> QED BY <2>1, <2>2, <2>3 DEF Next
<1> QED BY <1>1, AlwaysIInv, PTL DEF Spec, HotTransferNeverRaises

\* No way of a tick, and no hand-over between two, lets the request rise by more than the slew.
THEOREM JumpCorrect == Spec => NoJump
<1> DEFINE A == loop'.requested > High(High(loop.requested, loop'.floor), High(loop.applied, applied)) + Rise
                => \/ loop'.lost \/ loop.reset \/ loop'.floor # loop.floor \/ ~loop'.seen
                   \/ loop.entry /\ loop.applied = None /\ applied = None
<1>1. IInv /\ [Next]_vars => [A]_vars
  <2> SUFFICES ASSUME IInv, Next, ~loop'.lost, ~loop.reset, loop'.floor = loop.floor, loop'.seen,
                      ~(loop.entry /\ loop.applied = None /\ applied = None)
               PROVE  ~(loop'.requested > High(High(loop.requested, loop'.floor), High(loop.applied, applied)) + Rise)
    BY DEF vars
  <2>1. /\ loop \in Loops /\ loop.requested \in Int /\ loop.applied \in Int /\ applied \in Int /\ loop.floor \in 0..Top
        /\ loop.seen \in BOOLEAN
    BY Consts DEF IInv, TypeOK, Loops
  <2>2. CASE OnSample
    <3>1. PICK i, e, d, w : Sample(i, e, d, w)
      BY <2>2, SampleOK
    <3> DEFINE b == Bounded(e, i)
    <3>2. /\ Ticked(e, i, d) /\ Bound(loop') /\ loop'.floor = i.floor /\ loop'.seen = e.seen /\ loop'.lost = d.loop.lost
          /\ loop'.requested = d.loop.requested
      BY <3>1, LeavesOK, ZenonT(40)
    <3>3. /\ e \in Loops /\ i \in Input /\ e.reset = loop.reset /\ e.entry = loop.entry /\ e.floor = loop.floor
          /\ e.seen => e.requested # None
          /\ loop.seen => e.requested = loop.requested /\ e.applied = loop.applied
          /\ ~loop.seen /\ e.seen => e.applied = applied /\ (applied # None => e.requested = applied)
      BY <3>1 DEF Sample, Begins
    <3>4. /\ Bound(b) /\ b.floor = i.floor /\ b.applied = e.applied
          /\ b.requested = IF e.requested = None THEN None ELSE Clip(e.requested, b)
      BY <3>3, BoundedOK
    <3> HIDE DEF b
    <3>5. /\ e.applied # None \/ ~e.entry
          /\ e.requested \in {loop.requested, applied} /\ e.applied \in {loop.applied, applied}
      BY <2>1, <3>2, <3>3 DEF IInv, Begun
    <3>6. Rises(b, d.loop)
      BY <3>2, <3>3, <3>5 DEF Ticked, b
    <3>7. b.requested <= High(e.requested, i.floor) /\ b.requested \in Int /\ b.applied \in Int
      <4>1. e.requested # None /\ e.requested \in Int
        BY <2>1, <3>2, <3>3, <3>5
      <4>2. Clip(e.requested, b) \in b.floor..b.max /\ Clip(e.requested, b) <= High(e.requested, b.floor)
        BY <3>4, <4>1, BoundOK, ClipOK
      <4>3. b.requested = Clip(e.requested, b)
        BY <3>4, <4>1
      <4> QED BY <2>1, <3>4, <3>5, <4>2, <4>3, BoundOK
    <3>8. loop'.requested <= High(b.requested, b.applied) + Rise
      BY <3>2, <3>6 DEF Rises
    <3>9. loop'.requested \in Int /\ i.floor \in Int
      BY <3>2, <3>3, BoundOK, InputOK, Consts
    <3>10. High(b.requested, b.applied) <= High(High(loop.requested, i.floor), High(loop.applied, applied))
      BY <2>1, <3>4, <3>5, <3>7, <3>9 DEF High
    <3>11. /\ High(b.requested, b.applied) \in Int
           /\ High(High(loop.requested, i.floor), High(loop.applied, applied)) \in Int
      BY <2>1, <3>7, <3>9 DEF High
    <3> QED BY <3>2, <3>8, <3>9, <3>10, <3>11, Consts
  <2>3. CASE Disengage
    BY <2>3, NewOK DEF Disengage
  <2>4. CASE SetFloors
    <3>1. loop' = loop
      BY <2>4 DEF SetFloors
    <3>2. High(High(loop.requested, loop.floor), High(loop.applied, applied)) >= loop.requested
          /\ High(High(loop.requested, loop.floor), High(loop.applied, applied)) \in Int
      BY <2>1 DEF High
    <3> QED BY <2>1, <3>1, <3>2, Consts
  <2> QED BY <2>2, <2>3, <2>4 DEF Next
<1> QED BY <1>1, AlwaysIInv, PTL DEF Spec, NoJump
=============================================================================
