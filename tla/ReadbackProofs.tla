---------------------------- MODULE ReadbackProofs ----------------------------
(***************************************************************************)
(* The flags and limits of a read-back for all strike counts and windows.  *)
(* A sample is a chain of stages, each a set of results; the lemmas say    *)
(* of each stage that it keeps the records in their types, keeps the flags *)
(* and the released CPU right, and scores nothing while it is suppressed.  *)
(***************************************************************************)
EXTENDS Readback, TLAPS

-----------------------------------------------------------------------------
(* The verdict state machine.                                              *)

\* The bounds as the provers need them.
LEMMA Positive ==
  /\ MismatchStrikes \in Nat /\ MismatchStrikes > 0
  /\ BlindStrikes \in Nat /\ BlindStrikes > 0
  /\ VerifyStrikes \in Nat /\ VerifyStrikes > 0
  /\ StrictSamples \in Nat /\ StrictSamples > 0
  /\ SuppressTicks \in Nat
  /\ StickSamples \in Nat /\ StrictSamples <= StickSamples
  BY StrikesAssumption

\* The verdicts of both devices.
AllVerdicts == CpuVerdicts \cup {"Unverifiable"}

\* The smaller of two numbers is one of them and bounds both.
LEMMA MinOfTwo ==
  ASSUME NEW a \in Nat, NEW b \in Nat
  PROVE  Min({a, b}) \in {a, b} /\ Min({a, b}) <= a /\ Min({a, b}) <= b
<1>1. \E x \in {a, b} : \A y \in {a, b} : x <= y
  <2>1. CASE a <= b
    BY <2>1
  <2>2. CASE ~(a <= b)
    BY <2>2
  <2> QED BY <2>1, <2>2
<1> QED BY <1>1 DEF Min

\* A verdict state starts in range.
LEMMA FreshOK == Fresh \in Verdicts /\ ~InEpisode(Fresh) /\ ~Fresh.blind /\ ~Fresh.released
  BY StrikesAssumption DEF Fresh, Verdicts, InEpisode

\* A read that cannot be made moves the blind counter and its mark only.
LEMMA BlinderOK ==
  ASSUME NEW v \in Verdicts
  PROVE  Blinder(v) \in Verdicts /\ Blinder(v).mis = v.mis /\ Blinder(v).released = v.released
<1> DEFINE n == Min({v.unr + 1, BlindStrikes})
<1>1. v.unr + 1 \in Nat /\ BlindStrikes \in Nat
  BY StrikesAssumption DEF Verdicts
<1>2. n \in 0..BlindStrikes
  BY <1>1, MinOfTwo
<1> HIDE DEF n
<1>3. Blinder(v) = [v EXCEPT !.unr = n, !.blind = @ \/ n = BlindStrikes]
  BY DEF Blinder, n
<1> QED BY <1>2, <1>3 DEF Verdicts

\* The actuator has had no new strike.
Strikeless(v, u) == u.mis <= v.mis /\ (u.released => v.released)

\* Every verdict keeps the state in range; only one that is neither a strike nor the last strike
\* leaves the release as it is; and in a suppressed sample nothing is struck.
LEMMA ObservedOK ==
  ASSUME NEW v \in Verdicts, NEW verdict \in AllVerdicts, NEW suppress \in BOOLEAN
  PROVE  /\ Observed(v, verdict, suppress) \in Verdicts
         /\ GivesUp(v, verdict, suppress) \in BOOLEAN
         /\ verdict = "Verified" => Observed(v, verdict, suppress) = Fresh
         /\ verdict # "Verified" /\ ~GivesUp(v, verdict, suppress) =>
              Observed(v, verdict, suppress).released = v.released
         /\ GivesUp(v, verdict, suppress) => verdict # "Verified"
         /\ suppress => Strikeless(v, Observed(v, verdict, suppress))
<1> USE DEF AllVerdicts, CpuVerdicts
<1>1. GivesUp(v, verdict, suppress) \in BOOLEAN /\ (GivesUp(v, verdict, suppress) => verdict = "Mismatch" /\ ~suppress)
  BY DEF GivesUp
<1>2. CASE verdict = "Verified"
  BY <1>1, <1>2, FreshOK DEF Observed, Strikeless, Fresh, Verdicts
<1>3. CASE verdict = "Unreadable"
  BY <1>1, <1>3, BlinderOK DEF Observed, Strikeless, Verdicts
<1>a. ASSUME Observed(v, verdict, suppress) = [v EXCEPT !.unr = 0]
      PROVE  /\ Observed(v, verdict, suppress) \in Verdicts
             /\ Observed(v, verdict, suppress).released = v.released
             /\ Strikeless(v, Observed(v, verdict, suppress))
  BY <1>a, Positive DEF Strikeless, Verdicts
<1>4. CASE verdict = "Unverifiable"
  <2>1. Observed(v, verdict, suppress) = [v EXCEPT !.unr = 0]
    BY <1>4 DEF Observed
  <2> QED BY <1>1, <1>4, <1>a, <2>1
<1>5. CASE verdict = "Mismatch"
  <2>1. CASE suppress
    <3>1. Observed(v, verdict, suppress) = [v EXCEPT !.unr = 0]
      BY <1>5, <2>1 DEF Observed
    <3> QED BY <1>1, <1>5, <1>a, <2>1, <3>1
  <2>2. CASE ~suppress /\ GivesUp(v, verdict, suppress)
    <3>1. Observed(v, verdict, suppress) = [mis |-> 0, unr |-> 0, released |-> TRUE, blind |-> v.blind]
      BY <1>5, <2>2 DEF Observed, Verdicts
    <3>2. Observed(v, verdict, suppress) \in Verdicts
      BY <3>1, Positive DEF Verdicts
    <3> QED BY <1>1, <1>5, <2>2, <3>2
  <2>3. CASE ~suppress /\ ~GivesUp(v, verdict, suppress)
    <3>1. Observed(v, verdict, suppress) =
            [mis |-> v.mis + 1, unr |-> 0, released |-> v.released, blind |-> v.blind]
      BY <1>5, <2>3 DEF Observed, Verdicts
    <3>2. v.mis + 1 \in 0..MismatchStrikes - 1
      BY <1>5, <2>3, Positive DEF GivesUp, Verdicts
    <3>3. Observed(v, verdict, suppress) \in Verdicts /\ Observed(v, verdict, suppress).released = v.released
      BY <3>1, <3>2, Positive DEF Verdicts
    <3> QED BY <1>1, <1>5, <2>3, <3>3
  <2> QED BY <2>1, <2>2, <2>3
<1> QED BY <1>2, <1>3, <1>4, <1>5
-----------------------------------------------------------------------------
(* What a stage of a session keeps.                                        *)

\* The stage leads from s to r: r is a work record, right if s is, and not struck if suppressed.
Kept(s, r, suppress) ==
  /\ r \in Work
  /\ Flagged(s) /\ ReleasedOK(s) => Flagged(r) /\ ReleasedOK(r)
  /\ suppress => Strikeless(s.cv, r.cv) /\ Strikeless(s.gv, r.gv)

\* A stage that does nothing keeps everything, and stages compose.
LEMMA KeptReflexive ==
  ASSUME NEW s \in Work, NEW suppress \in BOOLEAN
  PROVE  Kept(s, s, suppress)
  BY DEF Kept, Strikeless, Work, Verdicts

\* Stages compose.
LEMMA KeptTransitive ==
  ASSUME NEW s \in Work, NEW r, NEW q, NEW suppress \in BOOLEAN, Kept(s, r, suppress), Kept(r, q, suppress)
  PROVE  Kept(s, q, suppress)
<1>1. r \in Work /\ q \in Work
  BY DEF Kept
<1>2. suppress => Strikeless(s.cv, q.cv) /\ Strikeless(s.gv, q.gv)
  BY <1>1 DEF Kept, Strikeless, Work, Verdicts
<1> QED BY <1>1, <1>2 DEF Kept

\* A change of the other fields keeps a session right if it raises no flag down and restores no
\* limit of a released CPU.
LEMMA KeptAside ==
  ASSUME NEW s \in Work, NEW r \in Work, NEW suppress \in BOOLEAN,
         r.cv = s.cv, r.gv = s.gv,
         r.limit = s.limit,
         s.flags \subseteq r.flags
  PROVE  Kept(s, r, suppress)
<1>1. Flagged(s) => Flagged(r)
  BY DEF Flagged, Trouble
<1>2. ReleasedOK(s) => ReleasedOK(r)
  BY DEF ReleasedOK
<1>3. Strikeless(s.cv, r.cv) /\ Strikeless(s.gv, r.gv)
  BY DEF Strikeless, Work, Verdicts
<1> QED BY <1>1, <1>2, <1>3 DEF Kept

\* After a sync the flags follow both verdict states, and nothing else moved.
LEMMA SyncedOK ==
  ASSUME NEW s \in Work
  PROVE  /\ Synced(s) \in Work /\ Flagged(Synced(s))
         /\ Synced(s).cv = s.cv /\ Synced(s).gv = s.gv /\ Synced(s).limit = s.limit
         /\ Synced(s).lock = s.lock
<1> DEFINE sticking == IF Trouble(s) THEN s.flags \cup {"LimitNotSticking"} ELSE s.flags
           flags == IF s.cv.blind \/ s.gv.blind THEN sticking \cup {"ReadbackBlind"}
                                                ELSE sticking \ {"ReadbackBlind"}
<1>1. flags \in SUBSET Flags
  BY DEF Work, Flags
<1>2. Trouble(s) => "LimitNotSticking" \in flags
  OBVIOUS
<1>3. s.cv.blind \/ s.gv.blind => "ReadbackBlind" \in flags
  OBVIOUS
<1>4. Synced(s) = [s EXCEPT !.flags = flags]
  BY DEF Synced
<1> HIDE DEF flags
<1>5. /\ Synced(s) \in Work /\ Synced(s).flags = flags
      /\ Synced(s).cv = s.cv /\ Synced(s).gv = s.gv /\ Synced(s).limit = s.limit /\ Synced(s).lock = s.lock
  BY <1>1, <1>4 DEF Work
<1> QED BY <1>2, <1>3, <1>5 DEF Flagged, Trouble

\* A scored CPU verdict takes the limit from a CPU it releases, and a verified one ends a release.
LEMMA CpuScoredOK ==
  ASSUME NEW s \in Work, NEW verdict \in CpuVerdicts, NEW suppress \in BOOLEAN
  PROVE  LET r == CpuScored(s, verdict, suppress)
         IN  /\ r \in Work /\ Flagged(r)
             /\ ReleasedOK(s) \/ verdict = "Verified" => ReleasedOK(r)
             /\ suppress => Strikeless(s.cv, r.cv) /\ Strikeless(s.gv, r.gv)
<1> DEFINE cv == Observed(s.cv, verdict, suppress)
           limit == s.limit /\ ~GivesUp(s.cv, verdict, suppress)
           t == [s EXCEPT !.cv = cv, !.limit = limit]
           r == CpuScored(s, verdict, suppress)
<1>1. s.cv \in Verdicts /\ s.gv \in Verdicts /\ s.limit \in BOOLEAN
  BY DEF Work
<1>2. /\ cv \in Verdicts /\ limit \in BOOLEAN
      /\ verdict = "Verified" => cv = Fresh
      /\ verdict # "Verified" /\ ~GivesUp(s.cv, verdict, suppress) => cv.released = s.cv.released
      /\ suppress => Strikeless(s.cv, cv)
  BY <1>1, ObservedOK DEF AllVerdicts
<1>3. limit => s.limit /\ ~GivesUp(s.cv, verdict, suppress)
  OBVIOUS
<1>4. r = Synced(t)
  BY DEF CpuScored
<1> HIDE DEF cv, limit, r
<1>5. t \in Work /\ t.cv = cv /\ t.gv = s.gv /\ t.limit = limit
  BY <1>2 DEF Work
<1> HIDE DEF t
<1>6. r \in Work /\ Flagged(r) /\ r.cv = cv /\ r.gv = s.gv /\ r.limit = limit
  BY <1>4, <1>5, SyncedOK
<1>7. ReleasedOK(s) \/ verdict = "Verified" => ReleasedOK(r)
  BY <1>2, <1>3, <1>6, FreshOK DEF ReleasedOK
<1>8. Strikeless(s.gv, s.gv)
  BY <1>1 DEF Strikeless, Verdicts
<1> QED BY <1>2, <1>6, <1>7, <1>8 DEF r

\* The CPU half of write_device_decisions.
LEMMA CpuWrittenOK ==
  ASSUME NEW s \in Work, NEW suppress \in BOOLEAN, NEW r \in CpuWritten(s, suppress)
  PROVE  Kept(s, r, suppress)
<1>1. CASE r = s
  BY <1>1, KeptReflexive
<1>2. CASE r # s
  <2> PICK v \in CpuVerdicts : r = CpuScored([s EXCEPT !.limit = @ \/ v = "Verified"], v, suppress)
    BY <1>2 DEF CpuWritten
  <2> DEFINE t == [s EXCEPT !.limit = @ \/ v = "Verified"]
  <2>1. /\ t \in Work /\ t.cv = s.cv /\ t.gv = s.gv
        /\ v # "Verified" => t.limit = s.limit
    BY DEF Work
  <2>2. r = CpuScored(t, v, suppress)
    OBVIOUS
  <2> HIDE DEF t
  <2>3. ReleasedOK(s) => ReleasedOK(t) \/ v = "Verified"
    BY <2>1 DEF ReleasedOK
  <2> QED BY <2>1, <2>2, <2>3, CpuScoredOK DEF Kept
<1> QED BY <1>1, <1>2
-----------------------------------------------------------------------------
(* The GPU half.                                                           *)

\* A scored GPU verdict.
LEMMA GpuScoredOK ==
  ASSUME NEW s \in Work, NEW verdict \in AllVerdicts, NEW suppress \in BOOLEAN
  PROVE  Kept(s, GpuScored(s, verdict, suppress), suppress)
<1> DEFINE gv == Observed(s.gv, verdict, suppress)
           lock == s.lock /\ ~GivesUp(s.gv, verdict, suppress)
           t == [s EXCEPT !.gv = gv, !.lock = lock]
           r == GpuScored(s, verdict, suppress)
<1>1. s.cv \in Verdicts /\ s.gv \in Verdicts /\ s.lock \in BOOLEAN
  BY DEF Work
<1>2. gv \in Verdicts /\ lock \in BOOLEAN /\ (suppress => Strikeless(s.gv, gv))
  BY <1>1, ObservedOK
<1>3. r = Synced(t)
  BY DEF GpuScored
<1> HIDE DEF gv, lock, r
<1>4. t \in Work /\ t.cv = s.cv /\ t.gv = gv /\ t.limit = s.limit
  BY <1>2 DEF Work
<1> HIDE DEF t
<1>5. r \in Work /\ Flagged(r) /\ r.cv = s.cv /\ r.gv = gv /\ r.limit = s.limit
  BY <1>3, <1>4, SyncedOK
<1>6. ReleasedOK(s) => ReleasedOK(r)
  BY <1>5 DEF ReleasedOK
<1>7. Strikeless(s.cv, s.cv)
  BY <1>1 DEF Strikeless, Verdicts
<1> QED BY <1>2, <1>5, <1>6, <1>7 DEF Kept, r

\* A lock write touches the lock and its evidence only.
LEMMA GpuWrittenOK ==
  ASSUME NEW s \in Work, NEW suppress \in BOOLEAN, NEW r \in GpuWritten(s)
  PROVE  Kept(s, r, suppress)
<1>1. CASE r = s
  BY <1>1, KeptReflexive
<1>2. CASE r = [s EXCEPT !.lock = TRUE, !.cmd = TRUE]
  <2>1. r \in Work /\ r.cv = s.cv /\ r.gv = s.gv /\ r.limit = s.limit /\ r.flags = s.flags
    BY <1>2 DEF Work
  <2> QED BY <2>1, KeptAside
<1> QED BY <1>1, <1>2 DEF GpuWritten

\* A clock reading moves the verifier's streak within its bound.
LEMMA GpuReadOK ==
  ASSUME NEW s \in Work, NEW suppress \in BOOLEAN, NEW reading \in GpuReadings
  PROVE  Kept(s, GpuRead(s, reading), suppress)
<1>1. CASE ~s.cmd
  BY <1>1, KeptReflexive DEF GpuRead
<1>2. CASE s.cmd
  <2> DEFINE n == IF reading = "over" THEN Min({s.streak + 1, VerifyStrikes}) ELSE 0
  <2>1. s.streak + 1 \in Nat
    BY DEF Work
  <2>2. n \in 0..VerifyStrikes
    BY <2>1, MinOfTwo, Positive
  <2>3. GpuRead(s, reading) = [s EXCEPT !.streak = n]
    BY <1>2 DEF GpuRead
  <2> HIDE DEF n
  <2>4. LET r == GpuRead(s, reading)
        IN  r \in Work /\ r.cv = s.cv /\ r.gv = s.gv /\ r.limit = s.limit /\ r.flags = s.flags
    BY <2>2, <2>3 DEF Work
  <2> QED BY <2>4, KeptAside
<1> QED BY <1>1, <1>2 DEF Work

\* The GPU half of write_device_decisions.
LEMMA GpuDecidedOK ==
  ASSUME NEW s \in Work, NEW suppress \in BOOLEAN, NEW resumed \in BOOLEAN,
         NEW r \in GpuDecided(s, suppress, resumed)
  PROVE  Kept(s, r, suppress)
<1>1. PICK reading \in GpuReadings :
        r \in IF reading = "none" THEN {s} \cup GpuWritten(s)
             ELSE LET scored == GpuScored(GpuRead(s, reading), GpuVerdict(s, reading), suppress)
                  IN  {scored} \cup GpuWritten(scored)
  BY DEF GpuDecided, GpuReadings
<1>2. CASE reading = "none"
  BY <1>1, <1>2, KeptReflexive, GpuWrittenOK
<1>3. CASE reading # "none"
  <2> DEFINE read == GpuRead(s, reading)
             scored == GpuScored(read, GpuVerdict(s, reading), suppress)
  <2>1. GpuVerdict(s, reading) \in AllVerdicts
    BY DEF GpuVerdict, AllVerdicts, CpuVerdicts
  <2>2. Kept(s, read, suppress) /\ read \in Work
    BY GpuReadOK DEF Kept
  <2> HIDE DEF read
  <2>3. Kept(read, scored, suppress) /\ scored \in Work
    BY <2>1, <2>2, GpuScoredOK DEF Kept
  <2>4. r = scored \/ r \in GpuWritten(scored)
    BY <1>1, <1>3 DEF read
  <2> HIDE DEF scored
  <2>5. Kept(scored, r, suppress)
    BY <2>3, <2>4, KeptReflexive, GpuWrittenOK
  <2>6. Kept(s, scored, suppress)
    BY <2>2, <2>3, KeptTransitive
  <2> QED BY <2>5, <2>6, KeptTransitive
<1> QED BY <1>2, <1>3
-----------------------------------------------------------------------------
(* Maintenance and stickiness.                                             *)

\* The lock half of a reassert leaves verdicts, limit and flags alone.
LEMMA LockReassertedOK ==
  ASSUME NEW s \in Work, NEW inAuto \in BOOLEAN, NEW r \in LockReasserted(s, inAuto)
  PROVE  r \in Work /\ r.cv = s.cv /\ r.gv = s.gv /\ r.limit = s.limit /\ r.flags = s.flags
<1>1. CASE r = s
  BY <1>1
<1>2. CASE r = [s EXCEPT !.done = TRUE]
  BY <1>2 DEF Work
<1>3. CASE r = [s EXCEPT !.done = TRUE, !.cmd = @ \/ inAuto]
  BY <1>3 DEF Work
<1> QED BY <1>1, <1>2, <1>3 DEF LockReasserted

\* A reassert in a session scores the CPU as a write does; outside one it changes no verdict,
\* limit or flag.
LEMMA ReassertedOK ==
  ASSUME NEW s \in Work, NEW suppress \in BOOLEAN, NEW inAuto \in BOOLEAN,
         NEW r \in Reasserted(s, suppress, inAuto)
  PROVE  /\ Kept(s, r, suppress)
         /\ ~inAuto => r.cv = s.cv /\ r.gv = s.gv /\ r.limit = s.limit /\ r.flags = s.flags
<1> DEFINE Same(q) == q.cv = s.cv /\ q.gv = s.gv /\ q.limit = s.limit /\ q.flags = s.flags
<1>1. ASSUME NEW c \in Work, Kept(s, c, suppress), r \in LockReasserted(c, inAuto), ~inAuto => Same(c)
      PROVE  Kept(s, r, suppress) /\ (~inAuto => Same(r))
  <2>1. r \in Work /\ r.cv = c.cv /\ r.gv = c.gv /\ r.limit = c.limit /\ r.flags = c.flags
    BY <1>1, LockReassertedOK
  <2>2. Kept(c, r, suppress)
    BY <2>1, KeptAside
  <2> QED BY <1>1, <2>1, <2>2, KeptTransitive
<1>2. CASE ~s.limit
  BY <1>1, <1>2, KeptReflexive DEF Reasserted
<1>3. CASE s.limit
  <2> DEFINE scored(v) == IF inAuto THEN CpuScored(s, v, suppress) ELSE s
             found(v) == {[scored(v) EXCEPT !.done = TRUE]} \cup (IF v = "Verified" THEN {scored(v)} ELSE {})
  <2>a. Reasserted(s, suppress, inAuto) = UNION {LockReasserted(x, inAuto) : x \in UNION {found(v) : v \in CpuVerdicts}}
    BY <1>3 DEF Reasserted
  <2>b. PICK v \in CpuVerdicts : \E x \in found(v) : r \in LockReasserted(x, inAuto)
    BY <2>a
  <2>0. \E x \in {[scored(v) EXCEPT !.done = TRUE], scored(v)} : r \in LockReasserted(x, inAuto)
    BY <2>b
  <2>1. PICK c \in {[scored(v) EXCEPT !.done = TRUE], scored(v)} : r \in LockReasserted(c, inAuto)
    BY <2>0
  <2>2. scored(v) \in Work /\ Kept(s, scored(v), suppress) /\ (~inAuto => Same(scored(v)))
    <3>1. CASE inAuto
      BY <3>1, CpuScoredOK DEF Kept
    <3>2. CASE ~inAuto
      BY <3>2, KeptReflexive
    <3> QED BY <3>1, <3>2
  <2> DEFINE q == scored(v)
  <2> HIDE DEF scored
  <2>3. LET d == [q EXCEPT !.done = TRUE]
        IN  d \in Work /\ d.cv = q.cv /\ d.gv = q.gv /\ d.limit = q.limit /\ d.flags = q.flags
    BY <2>2 DEF Work
  <2>4. c \in Work /\ c.cv = q.cv /\ c.gv = q.gv /\ c.limit = q.limit /\ c.flags = q.flags
    BY <2>2, <2>3
  <2> HIDE DEF q
  <2>5. Kept(q, c, suppress) /\ (~inAuto => Same(c))
    BY <2>2, <2>4, KeptAside DEF q
  <2> QED BY <1>1, <2>1, <2>2, <2>4, <2>5, KeptTransitive DEF q
<1> QED BY <1>2, <1>3 DEF Work

\* Outside a session: the verdicts and the limit stay, the flags stay right and no orphan comes.
Calm(s, r) ==
  /\ r \in Work /\ r.cv = s.cv /\ r.gv = s.gv /\ r.limit = s.limit
  /\ Flagged(s) => Flagged(r)
  /\ NoOrphan(s) => NoOrphan(r)

\* A sample within the limit drops the flag only outside an episode.
LEMMA CompliantOK ==
  ASSUME NEW s \in Work, NEW suppress \in BOOLEAN
  PROVE  Kept(s, Compliant(s), suppress) /\ Calm(s, Compliant(s))
<1> DEFINE flags == IF Trouble(s) THEN s.flags ELSE s.flags \ {"LimitNotSticking"}
           r == Compliant(s)
<1>1. flags \in SUBSET Flags
  BY DEF Work
<1>2. /\ Trouble(s) /\ "LimitNotSticking" \in s.flags => "LimitNotSticking" \in flags
      /\ "ReadbackBlind" \in flags <=> "ReadbackBlind" \in s.flags
      /\ flags \subseteq s.flags
  OBVIOUS
<1>3. r = [s EXCEPT !.stick = 0, !.flags = flags]
  BY DEF Compliant
<1> HIDE DEF flags, r
<1>4. r \in Work /\ r.cv = s.cv /\ r.gv = s.gv /\ r.limit = s.limit /\ r.flags = flags
  <2>1. 0 \in 0..StickSamples - 1
    BY Positive
  <2> QED BY <1>1, <1>3, <2>1 DEF Work
<1>5. Flagged(s) => Flagged(r)
  BY <1>2, <1>4 DEF Flagged, Trouble
<1>6. NoOrphan(s) => NoOrphan(r)
  BY <1>2, <1>4 DEF NoOrphan
<1>7. ReleasedOK(s) => ReleasedOK(r)
  BY <1>4 DEF ReleasedOK
<1>8. Strikeless(s.cv, s.cv) /\ Strikeless(s.gv, s.gv)
  BY DEF Strikeless, Work, Verdicts
<1> QED BY <1>4, <1>5, <1>6, <1>7, <1>8 DEF Kept, Calm, r

\* A sample over the limit counts, or reasserts and raises the flag of a limit that is recorded.
LEMMA ViolatingOK ==
  ASSUME NEW s \in Work, NEW needed \in 1..StickSamples, NEW suppress \in BOOLEAN, NEW inAuto \in BOOLEAN,
         s.limit, NEW r \in Violating(s, needed, suppress, inAuto)
  PROVE  Kept(s, r, suppress) /\ (~inAuto => Calm(s, r))
<1>1. ASSUME NEW q \in Work, q.cv = s.cv, q.gv = s.gv, q.limit = s.limit, q.flags = s.flags
      PROVE  Kept(s, q, suppress) /\ Calm(s, q)
  BY <1>1, KeptAside DEF Calm, Flagged, Trouble, NoOrphan
<1>2. CASE s.stick + 1 < needed
  <2>1. r = [s EXCEPT !.stick = s.stick + 1]
    BY <1>2 DEF Violating
  <2>2. s.stick + 1 \in 0..StickSamples - 1
    BY <1>2, Positive DEF Work
  <2>3. r \in Work /\ r.cv = s.cv /\ r.gv = s.gv /\ r.limit = s.limit /\ r.flags = s.flags
    BY <2>1, <2>2 DEF Work
  <2> QED BY <1>1, <2>3
<1>3. CASE ~(s.stick + 1 < needed)
  <2> DEFINE t == [s EXCEPT !.stick = 0]
  <2>1. PICK q \in Reasserted(t, suppress, inAuto) : r = [q EXCEPT !.flags = @ \cup {"LimitNotSticking"}]
    BY <1>3 DEF Violating
  <2>2. t \in Work /\ t.cv = s.cv /\ t.gv = s.gv /\ t.limit = s.limit /\ t.flags = s.flags
    <3>1. 0 \in 0..StickSamples - 1
      BY Positive
    <3> QED BY <3>1 DEF Work
  <2> HIDE DEF t
  <2>3. Kept(s, t, suppress)
    BY <1>1, <2>2
  <2>4. /\ q \in Work /\ Kept(t, q, suppress)
        /\ ~inAuto => q.cv = t.cv /\ q.gv = t.gv /\ q.limit = t.limit /\ q.flags = t.flags
    BY <2>2, ReassertedOK DEF Kept
  <2>5. /\ r \in Work /\ r.cv = q.cv /\ r.gv = q.gv /\ r.limit = q.limit
        /\ r.flags = q.flags \cup {"LimitNotSticking"}
    <3>1. q.flags \cup {"LimitNotSticking"} \in SUBSET Flags
      BY <2>4 DEF Work, Flags
    <3> QED BY <2>1, <2>4, <3>1 DEF Work
  <2>6. Kept(q, r, suppress)
    BY <2>4, <2>5, KeptAside
  <2>7. Kept(s, r, suppress)
    BY <2>2, <2>3, <2>4, <2>6, KeptTransitive
  <2>8. ~inAuto => Calm(s, r)
    BY <2>2, <2>4, <2>5 DEF Calm, Flagged, Trouble, NoOrphan
  <2> QED BY <2>7, <2>8
<1> QED BY <1>2, <1>3

\* The stickiness watchdog.
LEMMA StickinessOK ==
  ASSUME NEW s \in Work, NEW needed \in 1..StickSamples, NEW suppress \in BOOLEAN, NEW inAuto \in BOOLEAN,
         NEW r \in Stickiness(s, needed, suppress, inAuto)
  PROVE  Kept(s, r, suppress) /\ (~inAuto => Calm(s, r))
<1>1. CASE r = s
  BY <1>1, KeptReflexive DEF Calm
<1>2. CASE s.limit /\ r = Compliant(s)
  BY <1>2, CompliantOK
<1>3. CASE s.limit /\ r \in Violating(s, needed, suppress, inAuto)
  BY <1>3, ViolatingOK
<1> QED BY <1>1, <1>2, <1>3 DEF Stickiness

\* The periodic reassert.
LEMMA PeriodicOK ==
  ASSUME NEW s \in Work, NEW suppress \in BOOLEAN, NEW inAuto \in BOOLEAN,
         NEW r \in Periodic(s, suppress, inAuto)
  PROVE  Kept(s, r, suppress) /\ (~inAuto => Calm(s, r))
<1>1. CASE r = s
  BY <1>1, KeptReflexive DEF Calm
<1>2. CASE r \in Reasserted(s, suppress, inAuto)
  <2>1. Kept(s, r, suppress)
    BY <1>2, ReassertedOK
  <2>2. ~inAuto => Calm(s, r)
    BY <1>2, <2>1, ReassertedOK DEF Calm, Kept, Flagged, Trouble, NoOrphan
  <2> QED BY <2>1, <2>2
<1> QED BY <1>1, <1>2 DEF Periodic

\* The tail that every Monitor, Manual and Auto sample shares.
LEMMA MaintainedOK ==
  ASSUME NEW s \in Work, NEW needed \in 1..StickSamples, NEW suppress \in BOOLEAN, NEW inAuto \in BOOLEAN,
         NEW r \in Maintained(s, needed, suppress, inAuto)
  PROVE  Kept(s, r, suppress) /\ (~inAuto => Calm(s, r))
<1> PICK a \in Stickiness(s, needed, suppress, inAuto) : r \in Periodic(a, suppress, inAuto)
  BY DEF Maintained
<1>1. Kept(s, a, suppress) /\ (~inAuto => Calm(s, a)) /\ a \in Work
  BY StickinessOK DEF Kept
<1>2. Kept(a, r, suppress) /\ (~inAuto => Calm(a, r))
  BY <1>1, PeriodicOK
<1>3. Kept(s, r, suppress)
  BY <1>1, <1>2, KeptTransitive
<1> QED BY <1>1, <1>2, <1>3 DEF Calm

\* The mark of an attempt is forgotten at the end of a sample, and nothing else.
LEMMA SettledOK ==
  ASSUME NEW results, NEW u \in Settled(results)
  PROVE  \E r \in results : u = [r EXCEPT !.done = FALSE]
  BY DEF Settled

\* Forgetting it keeps a record right.
LEMMA UnmarkedOK ==
  ASSUME NEW r \in Work, NEW suppress \in BOOLEAN
  PROVE  LET u == [r EXCEPT !.done = FALSE]
         IN  Kept(r, u, suppress) /\ Calm(r, u)
<1> DEFINE u == [r EXCEPT !.done = FALSE]
<1>1. u \in Work /\ u.cv = r.cv /\ u.gv = r.gv /\ u.limit = r.limit /\ u.flags = r.flags
  BY DEF Work
<1> HIDE DEF u
<1>2. Kept(r, u, suppress)
  BY <1>1, KeptAside
<1>3. Calm(r, u)
  BY <1>1 DEF Calm, Flagged, Trouble, NoOrphan
<1> QED BY <1>2, <1>3 DEF u

\* The streak the stickiness watchdog waits for.
LEMMA NeededOK == ASSUME NEW b \in BOOLEAN PROVE Needed(b) \in 1..StickSamples
  BY Positive DEF Needed
-----------------------------------------------------------------------------
(* What a session starts and ends with.                                    *)

\* A re-armed record has no verdicts, and keeps its limits and flags.
LEMMA RearmedOK ==
  ASSUME NEW s \in Work
  PROVE  LET r == Rearmed(s)
         IN  /\ r \in Work /\ NoVerdicts(r) /\ Flagged(r) /\ ReleasedOK(r)
             /\ r.limit = s.limit /\ r.flags = s.flags
<1> DEFINE r == Rearmed(s)
<1>1. /\ r \in Work /\ r.cv = Fresh /\ r.gv = Fresh /\ r.limit = s.limit /\ r.flags = s.flags
  <2>1. 0 \in 0..VerifyStrikes
    BY Positive
  <2> QED BY <2>1, FreshOK DEF Rearmed, Work
<1> HIDE DEF r
<1> QED BY <1>1, FreshOK DEF NoVerdicts, Flagged, Trouble, ReleasedOK, r

\* A session that ends leaves no limit, verdict or flag.
LEMMA ReleasedToStockOK ==
  ASSUME NEW s \in Work
  PROVE  LET r == ReleasedToStock(s)
         IN  r \in Work /\ NoVerdicts(r) /\ Flagged(r) /\ NoOrphan(r)
<1> DEFINE r == ReleasedToStock(s)
           q == Rearmed(s)
<1>1. q \in Work /\ q.cv = Fresh /\ q.gv = Fresh
  BY RearmedOK DEF NoVerdicts
<1>2. 0 \in 0..StickSamples - 1
  BY Positive
<1>3. r = [q EXCEPT !.limit = FALSE, !.lock = FALSE, !.flags = {}, !.stick = 0]
  BY DEF ReleasedToStock
<1> HIDE DEF q, r
<1>4. r \in Work /\ r.cv = Fresh /\ r.gv = Fresh /\ r.flags = {}
  BY <1>1, <1>2, <1>3 DEF Work
<1> QED BY <1>4, FreshOK DEF NoVerdicts, Flagged, Trouble, NoOrphan, r

\* A session whose target source lets go has no verdicts either.
LEMMA DisengagedOK ==
  ASSUME NEW s \in Work
  PROVE  LET r == Disengaged(s)
         IN  r \in Work /\ NoVerdicts(r) /\ Flagged(r) /\ ReleasedOK(r)
<1> DEFINE r == Disengaged(s)
           q == Rearmed(s)
           down == [q EXCEPT !.stick = 0, !.flags = {}, !.done = TRUE]
<1>0. {} \in SUBSET Flags
  OBVIOUS
<1>1. q \in Work /\ q.cv = Fresh /\ q.gv = Fresh
  BY RearmedOK DEF NoVerdicts
<1>2. 0 \in 0..StickSamples - 1
  BY Positive
<1>3. r = down \/ r = [down EXCEPT !.limit = FALSE, !.lock = FALSE]
  BY DEF Disengaged
<1> HIDE DEF q, r
<1>4. down \in Work /\ down.cv = Fresh /\ down.gv = Fresh
  BY <1>0, <1>1, <1>2 DEF Work
<1> HIDE DEF down
<1>5. r \in Work /\ r.cv = Fresh /\ r.gv = Fresh
  BY <1>3, <1>4 DEF Work
<1> QED BY <1>5, FreshOK DEF NoVerdicts, Flagged, Trouble, ReleasedOK, r

\* The reassert of a resume.
LEMMA ResumedOK ==
  ASSUME NEW s \in Work, NEW inAuto \in BOOLEAN, NEW r \in Resumed(s, inAuto)
  PROVE  /\ r \in Work
         /\ inAuto => Flagged(r) /\ ReleasedOK(r)
         /\ ~inAuto => Calm(s, r)
<1> DEFINE q == Rearmed(s)
<1>1. q \in Work /\ Flagged(q) /\ ReleasedOK(q)
  BY RearmedOK
<1>2. CASE inAuto
  <2>1. r \in Reasserted(q, FALSE, TRUE)
    BY <1>2 DEF Resumed
  <2> HIDE DEF q
  <2> QED BY <1>1, <1>2, <2>1, ReassertedOK DEF Kept
<1>3. CASE ~inAuto
  <2>1. r \in Reasserted(s, FALSE, FALSE)
    BY <1>3 DEF Resumed
  <2> QED BY <1>3, <2>1, ReassertedOK DEF Kept, Calm, Flagged, Trouble, NoOrphan
<1> QED BY <1>2, <1>3
-----------------------------------------------------------------------------
(* The invariant.                                                          *)

\* A program starts with no verdict and no flag.
LEMMA InitIInv == Init => IInv
<1> SUFFICES ASSUME Init PROVE IInv
  OBVIOUS
<1>1. w \in Work /\ w.cv = Fresh /\ w.gv = Fresh /\ w.flags = {}
  <2>1. 0 \in 0..StickSamples - 1 /\ 0 \in 0..VerifyStrikes /\ {} \in SUBSET Flags
    BY Positive
  <2> QED BY <2>1, FreshOK DEF Init, Work
<1>2. Flagged(w) /\ NoVerdicts(w) /\ NoOrphan(w)
  BY <1>1, FreshOK DEF Flagged, Trouble, NoVerdicts, NoOrphan
<1>3. TypeOK
  <2>1. acKnown \in BOOLEAN /\ strict \in BOOLEAN
    BY DEF Init
  <2>2. 0 \in 0..SuppressTicks
    BY Positive
  <2> QED BY <1>1, <2>1, <2>2 DEF Init, TypeOK, Phases
<1>4. phase = "idle"
  BY DEF Init
<1> QED BY <1>2, <1>3, <1>4 DEF IInv

\* An Auto sample ends with a right record, and with no strike if it was suppressed throughout.
LEMMA AutoStep ==
  ASSUME IInv, NEW edge \in BOOLEAN, NEW resumed \in BOOLEAN, AutoSample(edge, resumed)
  PROVE  /\ IInv'
         /\ 0 < quiet' /\ quiet' < quiet => ~Strike(w.cv, w'.cv) /\ ~Strike(w.gv, w'.gv)
<1> DEFINE suppress == quiet' > 0
           begun == IF resumed THEN Resumed(w, TRUE) ELSE {w}
           written == UNION {GpuDecided(c, suppress, resumed) : c \in UNION {CpuWritten(b, suppress) : b \in begun}}
           quietly == 0 < quiet' /\ quiet' < quiet
           Right(r) == Flagged(r) /\ ReleasedOK(r)
           NotStruck(r) == quietly => Strikeless(w.cv, r.cv) /\ Strikeless(w.gv, r.gv)
<1>0. phase = "auto" /\ w \in Work /\ Right(w) /\ quiet \in 0..SuppressTicks
  BY DEF IInv, TypeOK, AutoSample
<1>1. /\ phase' = "auto" /\ acKnown' = TRUE /\ quiet' \in 0..SuppressTicks /\ strict' \in BOOLEAN
      /\ quietly => ~resumed /\ suppress
      /\ suppress \in BOOLEAN
  <2>1. phase' = "auto" /\ acKnown' = TRUE /\ strict' \in BOOLEAN /\ quiet' = QuietAfter(edge, resumed)
    BY <1>0 DEF AutoSample, Window
  <2>2. quiet' = IF edge THEN SuppressTicks ELSE IF resumed \/ quiet = 0 THEN 0 ELSE quiet - 1
    BY <2>1 DEF QuietAfter
  <2>3. quiet' \in 0..SuppressTicks /\ (quietly => ~resumed)
    BY <1>0, <2>2, Positive
  <2> QED BY <2>1, <2>3
<1>2. ASSUME NEW b \in begun
      PROVE  b \in Work /\ Right(b) /\ NotStruck(b)
  <2>1. CASE resumed
    BY <1>0, <1>1, <1>2, <2>1, ResumedOK
  <2>2. CASE ~resumed
    <3>1. b = w
      BY <1>2, <2>2
    <3> QED BY <1>0, <3>1 DEF Strikeless, Work, Verdicts
  <2> QED BY <2>1, <2>2
<1> DEFINE s1 == suppress
<1> HIDE DEF s1
<1>3. ASSUME NEW a \in written
      PROVE  a \in Work /\ Right(a) /\ NotStruck(a)
  <2> PICK b \in begun : \E c \in CpuWritten(b, suppress) : a \in GpuDecided(c, suppress, resumed)
    BY <1>3
  <2> PICK c \in CpuWritten(b, suppress) : a \in GpuDecided(c, suppress, resumed)
    OBVIOUS
  <2> HIDE DEF begun
  <2>1. b \in Work /\ Right(b) /\ NotStruck(b)
    BY <1>2
  <2>2. Kept(b, c, suppress) /\ c \in Work
    BY <1>1, <2>1, CpuWrittenOK DEF Kept
  <2>3. Kept(c, a, suppress)
    BY <1>1, <2>2, GpuDecidedOK
  <2>4. Kept(b, a, suppress)
    BY <1>1, <2>1, <2>2, <2>3, KeptTransitive, ZenonT(40)
  <2> QED BY <1>0, <1>1, <2>1, <2>4 DEF Kept, Strikeless, Work, Verdicts
<1>4. ASSUME NEW a \in Work, Right(a), NEW results, results = Maintained(a, Needed(strict'), suppress, TRUE),
             NEW r \in results, w' = [r EXCEPT !.done = FALSE]
      PROVE  w' \in Work /\ Right(w') /\ Kept(a, w', suppress)
  <2>1. Kept(a, r, suppress) /\ r \in Work
    BY <1>1, <1>4, NeededOK, MaintainedOK DEF Kept
  <2>2. Kept(r, w', suppress)
    BY <1>1, <1>4, <2>1, UnmarkedOK
  <2>3. Kept(a, w', suppress)
    BY <1>1, <1>4, <2>1, <2>2, KeptTransitive, ZenonT(40)
  <2> QED BY <1>4, <2>3 DEF Kept
<1>5. CASE /\ source' = "usable"
           /\ w' \in Settled(UNION {Maintained(a, Needed(strict'), suppress, TRUE) : a \in written})
  <2> DEFINE results == UNION {Maintained(a, Needed(strict'), suppress, TRUE) : a \in written}
  <2>0. w' \in Settled(results)
    BY <1>5
  <2> HIDE DEF results
  <2>1. PICK r \in results : w' = [r EXCEPT !.done = FALSE]
    BY <2>0, SettledOK
  <2>2. PICK a \in written : r \in Maintained(a, Needed(strict'), suppress, TRUE)
    BY <2>1 DEF results
  <2>3. a \in Work /\ Right(a) /\ NotStruck(a)
    BY <1>3
  <2>4. w' \in Work /\ Right(w') /\ Kept(a, w', suppress)
    BY <1>4, <2>1, <2>2, <2>3
  <2>5. NotStruck(w')
    BY <1>0, <1>1, <2>3, <2>4 DEF Kept, Strikeless, Work, Verdicts
  <2> QED BY <1>0, <1>1, <1>5, <2>4, <2>5 DEF IInv, TypeOK, Phases, Strike, Strikeless, Work, Verdicts
<1>6. CASE /\ source' = "Released"
           /\ w' \in Settled(UNION {Maintained(Disengaged(b), Needed(strict'), suppress, TRUE) : b \in begun})
  <2> DEFINE results == UNION {Maintained(Disengaged(b), Needed(strict'), suppress, TRUE) : b \in begun}
  <2>0. w' \in Settled(results)
    BY <1>6
  <2> HIDE DEF results
  <2>1. PICK r \in results : w' = [r EXCEPT !.done = FALSE]
    BY <2>0, SettledOK
  <2>2. PICK b \in begun : r \in Maintained(Disengaged(b), Needed(strict'), suppress, TRUE)
    BY <2>1 DEF results
  <2>3. /\ Disengaged(b) \in Work /\ Right(Disengaged(b))
        /\ Disengaged(b).cv = Fresh /\ Disengaged(b).gv = Fresh
    BY <1>2, DisengagedOK DEF NoVerdicts
  <2>4. w' \in Work /\ Right(w') /\ Kept(Disengaged(b), w', suppress)
    BY <1>4, <2>1, <2>2, <2>3
  <2>5. quietly => w'.cv.mis <= 0 /\ ~w'.cv.released /\ w'.gv.mis <= 0 /\ ~w'.gv.released
    BY <1>1, <2>3, <2>4 DEF Kept, Strikeless, Fresh
  <2>6. NotStruck(w')
    BY <1>0, <2>4, <2>5 DEF Strikeless, Work, Verdicts
  <2> QED BY <1>0, <1>1, <1>6, <2>4, <2>6 DEF IInv, TypeOK, Phases, Strike, Strikeless, Work, Verdicts
<1> QED BY <1>5, <1>6 DEF AutoSample

\* A sample of Monitor or Manual.
LEMMA ManualStep ==
  ASSUME IInv, NEW resumed \in BOOLEAN, ManualSample(resumed)
  PROVE  IInv'
<1>0. phase = "idle" /\ w \in Work /\ Flagged(w) /\ NoVerdicts(w) /\ NoOrphan(w)
  BY DEF IInv, TypeOK, ManualSample
<1>1. strict' \in BOOLEAN
  BY DEF IInv, TypeOK, ManualSample, Window
<1>2. PICK b \in IF resumed THEN Resumed(w, FALSE) ELSE {w} :
        w' \in Settled(Maintained(b, Needed(strict'), FALSE, FALSE))
  BY DEF ManualSample
<1>3. Calm(w, b)
  <2>1. CASE resumed
    BY <1>0, <1>2, <2>1, ResumedOK
  <2>2. CASE ~resumed
    BY <1>0, <1>2, <2>2 DEF Calm
  <2> QED BY <2>1, <2>2
<1> DEFINE results == Maintained(b, Needed(strict'), FALSE, FALSE)
<1>4. w' \in Settled(results)
  BY <1>2
<1> HIDE DEF results
<1>5. PICK r \in results : w' = [r EXCEPT !.done = FALSE]
  BY <1>4, SettledOK
<1>6. Calm(b, r)
  BY <1>1, <1>3, NeededOK, MaintainedOK DEF results, Calm
<1>7. Calm(r, w')
  BY <1>5, <1>6, UnmarkedOK DEF Calm
<1>8. w' \in Work /\ Flagged(w') /\ NoVerdicts(w') /\ NoOrphan(w')
  BY <1>0, <1>3, <1>6, <1>7 DEF Calm, NoVerdicts
<1> QED BY <1>0, <1>1, <1>8 DEF IInv, TypeOK, ManualSample

\* The other samples, and the commands.
LEMMA OtherStep ==
  ASSUME IInv,
         CalibSample \/ HoldSample \/ SetLimit \/ EnterAuto \/ Release \/ StartCalibration \/ EndCalibration
  PROVE  IInv'
<1>0. w \in Work /\ TypeOK /\ Flagged(w)
  BY DEF IInv, TypeOK
<1>1. ASSUME NEW limit \in {w.limit, TRUE}, NEW lock \in {w.lock, TRUE}
      PROVE  LET r == [w EXCEPT !.limit = limit, !.lock = lock]
             IN  /\ r \in Work /\ Flagged(r)
                 /\ NoVerdicts(w) => NoVerdicts(r)
                 /\ NoOrphan(w) => NoOrphan(r)
  <2> DEFINE r == [w EXCEPT !.limit = limit, !.lock = lock]
  <2>1. limit \in BOOLEAN /\ lock \in BOOLEAN /\ (w.limit => limit)
    BY <1>0 DEF Work
  <2>2. r \in Work /\ r.cv = w.cv /\ r.gv = w.gv /\ r.flags = w.flags /\ r.limit = limit
    BY <1>0, <2>1 DEF Work
  <2> HIDE DEF r
  <2> QED BY <1>0, <2>1, <2>2 DEF Flagged, Trouble, NoVerdicts, NoOrphan, r
<1>2. CASE CalibSample
  BY <1>0, <1>1, <1>2 DEF CalibSample, IInv, TypeOK, Phases
<1>3. CASE HoldSample
  BY <1>0, <1>3, FreshOK, Positive DEF HoldSample, IInv, TypeOK, Phases, NoVerdicts, ReleasedOK
<1>4. CASE SetLimit
  <2>1. phase = "idle" /\ NoVerdicts(w) /\ NoOrphan(w)
    BY <1>4 DEF SetLimit, IInv
  <2>2. CASE w' = [w EXCEPT !.lock = TRUE]
    <3>1. /\ w' \in Work /\ w'.cv = w.cv /\ w'.gv = w.gv /\ w'.flags = w.flags /\ w'.limit = w.limit
      BY <1>0, <2>2 DEF Work
    <3> QED BY <1>0, <1>4, <2>1, <3>1 DEF SetLimit, IInv, TypeOK, Flagged, Trouble, NoVerdicts, NoOrphan
  <2>3. CASE w' = [w EXCEPT !.limit = TRUE, !.stick = 0]
    <3>0. 0 \in 0..StickSamples - 1
      BY Positive
    <3>1. /\ w' \in Work /\ w'.cv = w.cv /\ w'.gv = w.gv /\ w'.flags = w.flags /\ w'.limit
      BY <1>0, <2>3, <3>0 DEF Work
    <3> QED BY <1>0, <1>4, <2>1, <3>1 DEF SetLimit, IInv, TypeOK, Flagged, Trouble, NoVerdicts, NoOrphan
  <2> QED BY <1>4, <2>2, <2>3 DEF SetLimit
<1>5. CASE EnterAuto
  <2>1. w' = Rearmed(w) /\ phase' = "auto"
    BY <1>5 DEF EnterAuto
  <2>2. w' \in Work /\ Flagged(w') /\ ReleasedOK(w')
    BY <1>0, <2>1, RearmedOK
  <2>3. acKnown' \in BOOLEAN
    BY <1>5 DEF EnterAuto
  <2>4. 0 \in 0..SuppressTicks
    BY Positive
  <2> QED BY <1>0, <1>5, <2>1, <2>2, <2>3, <2>4 DEF EnterAuto, IInv, TypeOK, Phases
<1>6. CASE Release
  <2>1. w' = ReleasedToStock(w) /\ phase' = "idle"
    BY <1>6 DEF Release
  <2>2. w' \in Work /\ Flagged(w') /\ NoVerdicts(w') /\ NoOrphan(w')
    BY <1>0, <2>1, ReleasedToStockOK
  <2>3. acKnown' \in BOOLEAN
    BY <1>6 DEF Release
  <2>4. 0 \in 0..SuppressTicks
    BY Positive
  <2> QED BY <1>0, <1>6, <2>1, <2>2, <2>3, <2>4 DEF Release, IInv, TypeOK, Phases
<1>7. CASE StartCalibration
  BY <1>0, <1>7 DEF StartCalibration, IInv, TypeOK, Phases
<1>8. CASE EndCalibration
  <2>1. PICK limit \in {w.limit, TRUE}, lock \in {w.lock, TRUE} :
          LET ended == [w EXCEPT !.limit = limit, !.lock = lock]
          IN  IF phase = "suspended" THEN phase' = "hold" /\ w' = Rearmed(ended)
                                     ELSE phase' = "idle" /\ w' = ended
    BY <1>8 DEF EndCalibration
  <2> DEFINE ended == [w EXCEPT !.limit = limit, !.lock = lock]
  <2>2. /\ ended \in Work /\ Flagged(ended)
        /\ NoVerdicts(w) => NoVerdicts(ended)
        /\ NoOrphan(w) => NoOrphan(ended)
    BY <1>1
  <2>3. CASE phase = "suspended"
    <3>1. w' = Rearmed(ended) /\ phase' = "hold"
      BY <2>1, <2>3
    <3> HIDE DEF ended
    <3>2. w' \in Work /\ Flagged(w') /\ NoVerdicts(w')
      BY <2>2, <3>1, RearmedOK
    <3> QED BY <1>0, <1>8, <3>1, <3>2 DEF EndCalibration, IInv, TypeOK, Phases
  <2>4. CASE phase # "suspended"
    <3>1. w' = ended /\ phase' = "idle" /\ phase = "calib"
      BY <1>8, <2>1, <2>4 DEF EndCalibration
    <3> HIDE DEF ended
    <3>2. w' \in Work /\ Flagged(w') /\ NoVerdicts(w') /\ NoOrphan(w')
      BY <2>2, <3>1 DEF IInv
    <3> QED BY <1>0, <1>8, <3>1, <3>2 DEF EndCalibration, IInv, TypeOK, Phases
  <2> QED BY <2>3, <2>4
<1> QED BY <1>2, <1>3, <1>4, <1>5, <1>6, <1>7, <1>8

\* The invariant is inductive.
LEMMA Inductive == IInv /\ [Next]_vars => IInv'
<1> SUFFICES ASSUME IInv, [Next]_vars PROVE IInv'
  OBVIOUS
<1>1. CASE UNCHANGED vars
  BY <1>1 DEF vars, IInv, TypeOK
<1>2. CASE Next
  BY <1>2, AutoStep, ManualStep, OtherStep DEF Next, Sample
<1> QED BY <1>1, <1>2

\* The strengthened invariant holds of every behaviour.
THEOREM AlwaysIInv == Spec => []IInv
<1> QED BY InitIInv, Inductive, PTL DEF Spec

\* While an actuator is in an episode, or a session's read-back is blind, the flag says so, for
\* every strike count: the verdicts add to the flags that the stickiness watchdog clears.
THEOREM FlagsCorrect == Spec => []TroubleIsFlagged
<1>1. IInv => TroubleIsFlagged
  BY DEF IInv, TroubleIsFlagged
<1> QED BY <1>1, AlwaysIInv, PTL

\* A CPU that the verdicts released has no limit that maintenance could write again.
THEOREM ReleasedCorrect == Spec => []ReleasedCpuHasNoLimit
<1>1. IInv => ReleasedCpuHasNoLimit
  BY DEF IInv, ReleasedCpuHasNoLimit
<1> QED BY <1>1, AlwaysIInv, PTL

\* A session leaves no flag behind that nothing outside one could clear.
THEOREM OrphanCorrect == Spec => []NoOrphanFlag
<1>1. IInv => NoOrphanFlag
  BY DEF IInv, NoOrphanFlag
<1> QED BY <1>1, AlwaysIInv, PTL

\* The suppression after an on_ac edge holds on every path of a sample.
LEMMA QuietStep ==
  ASSUME IInv, [Next]_vars, 0 < quiet', quiet' < quiet
  PROVE  ~Strike(w.cv, w'.cv) /\ ~Strike(w.gv, w'.gv)
<1>1. quiet' # quiet /\ quiet' # 0
  BY DEF IInv, TypeOK
<1>2. \E edge \in BOOLEAN, resumed \in BOOLEAN : AutoSample(edge, resumed)
  BY <1>1 DEF Next, Sample, CalibSample, HoldSample, ManualSample, SetLimit, EnterAuto, Release,
              StartCalibration, EndCalibration, vars
<1> QED BY <1>2, AutoStep

\* No path of a suppressed sample scores a mismatch: the lemmas of the stages carry Strikeless.
THEOREM QuietCorrect == Spec => QuietScoresNothing
<1>1. IInv /\ [Next]_vars =>
        [0 < quiet' /\ quiet' < quiet => ~Strike(w.cv, w'.cv) /\ ~Strike(w.gv, w'.gv)]_vars
  BY QuietStep
<1> QED BY <1>1, AlwaysIInv, PTL DEF Spec, QuietScoresNothing
=============================================================================
