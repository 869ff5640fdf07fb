---------------------------- MODULE ShutdownProofs ----------------------------
(***************************************************************************)
(* Proofs about Shutdown, where the firmware heeds a profile toggle.       *)
(*                                                                         *)
(* The invariant speaks of lists of calls.  The first part shows what      *)
(* taking the first call off a list, or putting calls before it, does to   *)
(* the order the lists keep, and that every handler starts from a list in  *)
(* that order.  The second part takes the steps of main, the third those   *)
(* of the controller, one lemma to an action.                              *)
(***************************************************************************)
EXTENDS Shutdown, SequenceTheorems, TLAPS

-----------------------------------------------------------------------------
(* Lists of calls.                                                         *)

Item == Calls \cup {"assert"}

\* The calls, written out.
LEMMA Items ==
  /\ Calls = {"setCap", "setPlain", "correct", "verify", "look", "confirm", "inspect", "check", "recheck", "modprobe",
              "lock", "relock", "unlock", "toggle", "toggleBack"}
  /\ "none" \notin Item
  BY DEF Item, Calls, Commands, NvmlCalls, CapWrites, GpuLocks, Reads

\* When a list is two others in a row.
LEMMA IsConcat ==
  ASSUME NEW s \in Seq(Item), NEW t \in Seq(Item), NEW u \in Seq(Item), Len(u) = Len(s) + Len(t),
         \A i \in 1 .. Len(s) : u[i] = s[i], \A i \in 1 .. Len(t) : u[Len(s) + i] = t[i]
  PROVE  s \o t = u
<1>1. /\ s \o t \in Seq(Item) /\ Len(s \o t) = Len(s) + Len(t) /\ Len(s) \in Nat /\ Len(t) \in Nat
      /\ \A i \in 1 .. Len(s) + Len(t) : (s \o t)[i] = IF i <= Len(s) THEN s[i] ELSE t[i - Len(s)]
  BY ConcatProperties
<1>2. ASSUME NEW i \in 1 .. Len(s) + Len(t) PROVE (s \o t)[i] = u[i]
  <2>1. CASE i <= Len(s)
    BY <1>1, <2>1
  <2>2. CASE ~(i <= Len(s))
    <3>1. i - Len(s) \in 1 .. Len(t) /\ Len(s) + (i - Len(s)) = i
      BY <1>1, <2>2
    <3> QED BY <1>1, <2>2, <3>1
  <2> QED BY <2>1, <2>2
<1> QED BY <1>1, <1>2, SeqEqual

\* The lists the handlers are made of, written out.
LEMMA Lists ==
  /\ RestoreCpu = <<"toggle", "toggleBack", "check">>
  /\ Release = <<"unlock", "toggle", "toggleBack", "check">>
  /\ RestoreAll = <<"unlock", "toggle", "toggleBack", "check", "modprobe">>
  /\ HeldPair = <<"setPlain", "lock">>
  /\ LastCalls = <<"setPlain", "lock", "unlock", "toggle", "toggleBack", "check", "modprobe">>
<1>1. RestoreCpu = <<"toggle", "toggleBack", "check">> /\ HeldPair = <<"setPlain", "lock">>
  BY DEF RestoreCpu, HeldPair
<1>2. Release = <<"unlock", "toggle", "toggleBack", "check">>
  <2>1. PICK s, t, u : s = <<"unlock">> /\ t = RestoreCpu /\ u = <<"unlock", "toggle", "toggleBack", "check">>
    OBVIOUS
  <2>2. s \in Seq(Item) /\ t \in Seq(Item) /\ u \in Seq(Item) /\ Len(s) = 1 /\ Len(t) = 3 /\ Len(u) = 4
    BY <1>1, <2>1, Items DEF Item
  <2>3. u[1] = s[1] /\ u[2] = t[1] /\ u[3] = t[2] /\ u[4] = t[3]
    BY <1>1, <2>1
  <2>4. Len(u) = Len(s) + Len(t)
    BY <2>2
  <2>5. \A i \in 1 .. Len(s) : u[i] = s[i]
    BY <2>2, <2>3
  <2>6. \A i \in 1 .. Len(t) : u[Len(s) + i] = t[i]
    BY <2>2, <2>3
  <2>7. s \o t = u
    BY <2>2, <2>4, <2>5, <2>6, IsConcat
  <2> QED BY <2>1, <2>7 DEF Release
<1>3. RestoreAll = <<"unlock", "toggle", "toggleBack", "check", "modprobe">>
  <2>1. PICK s, t, u : /\ s = Release /\ t = <<"modprobe">>
                       /\ u = <<"unlock", "toggle", "toggleBack", "check", "modprobe">>
    OBVIOUS
  <2>2. s \in Seq(Item) /\ t \in Seq(Item) /\ u \in Seq(Item) /\ Len(s) = 4 /\ Len(t) = 1 /\ Len(u) = 5
    BY <1>2, <2>1, Items DEF Item
  <2>3. u[1] = s[1] /\ u[2] = s[2] /\ u[3] = s[3] /\ u[4] = s[4] /\ u[5] = t[1]
    BY <1>2, <2>1
  <2>4. Len(u) = Len(s) + Len(t)
    BY <2>2
  <2>5. \A i \in 1 .. Len(s) : u[i] = s[i]
    BY <2>2, <2>3
  <2>6. \A i \in 1 .. Len(t) : u[Len(s) + i] = t[i]
    BY <2>2, <2>3
  <2>7. s \o t = u
    BY <2>2, <2>4, <2>5, <2>6, IsConcat
  <2> QED BY <2>1, <2>7 DEF RestoreAll
<1>4. LastCalls = <<"setPlain", "lock", "unlock", "toggle", "toggleBack", "check", "modprobe">>
  <2>1. PICK s, t, u : /\ s = HeldPair /\ t = RestoreAll
                       /\ u = <<"setPlain", "lock", "unlock", "toggle", "toggleBack", "check", "modprobe">>
    OBVIOUS
  <2>2. s \in Seq(Item) /\ t \in Seq(Item) /\ u \in Seq(Item) /\ Len(s) = 2 /\ Len(t) = 5 /\ Len(u) = 7
    BY <1>1, <1>3, <2>1, Items DEF Item
  <2>3. u[1] = s[1] /\ u[2] = s[2] /\ u[3] = t[1] /\ u[4] = t[2] /\ u[5] = t[3] /\ u[6] = t[4] /\ u[7] = t[5]
    BY <1>1, <1>3, <2>1
  <2>4. Len(u) = Len(s) + Len(t)
    BY <2>2
  <2>5. \A i \in 1 .. Len(s) : u[i] = s[i]
    BY <2>2, <2>3
  <2>6. \A i \in 1 .. Len(t) : u[Len(s) + i] = t[i]
    BY <2>2, <2>3
  <2>7. s \o t = u
    BY <2>2, <2>4, <2>5, <2>6, IsConcat
  <2> QED BY <2>1, <2>7 DEF LastCalls
<1> QED BY <1>1, <1>2, <1>3, <1>4

\* What follows the first call of a list may stand alone.
LEMMA Pop ==
  ASSUME NEW w \in Seq(Item), w # <<>>, WellOrdered(w)
  PROVE  /\ Tail(w) \in Seq(Item) /\ Len(w) \in Nat /\ Len(Tail(w)) = Len(w) - 1 /\ Head(w) = w[1]
         /\ \A i \in 1 .. Len(Tail(w)) : Tail(w)[i] = w[i + 1]
         /\ w[1] \in Item /\ WellOrdered(Tail(w)) /\ Follows(w[1], Tail(w))
<1> DEFINE t == Tail(w)
<1>0. /\ Len(w) \in Nat \ {0} /\ 1 \in 1 .. Len(w) /\ Head(w) = w[1]
      /\ t \in Seq(Item) /\ Len(t) = Len(w) - 1 /\ \A i \in 1 .. Len(t) : t[i] = w[i + 1]
  BY EmptySeq, HeadTailProperties
<1>1. /\ t \in Seq(Item) /\ Len(w) \in Nat \ {0} /\ Len(t) = Len(w) - 1 /\ Head(w) = w[1]
      /\ \A i \in 1 .. Len(t) : t[i] = w[i + 1]
      /\ 1 \in 1 .. Len(w) /\ w[1] \in Item /\ Len(t) \in Nat
  BY <1>0, ElementOfSeq
<1>2. \A i \in 1 .. Len(t) : i + 1 \in 1 .. Len(w)
  BY <1>1
<1> HIDE DEF t
<1>3. WellOrdered(t)
  <2> SUFFICES ASSUME NEW i \in 1 .. Len(t)
               PROVE  /\ t[i] # "recheck" /\ Len(t) - i <= Far(t[i])
                      /\ t[i] = "toggle" => i < Len(t) /\ t[i + 1] = "toggleBack"
                      /\ i > 1 => /\ t[i] = "toggleBack" => t[i - 1] = "toggle"
                                  /\ t[i] = "check" => t[i - 1] = "toggleBack"
                                  /\ t[i] \notin PlainReads
    BY DEF WellOrdered
  <2>1. i + 1 \in 1 .. Len(w) /\ i + 1 > 1 /\ i + 1 - 1 = i /\ Len(w) - (i + 1) = Len(t) - i /\ t[i] = w[i + 1]
    BY <1>1, <1>2
  <2>2. /\ w[i + 1] # "recheck" /\ Len(w) - (i + 1) <= Far(w[i + 1])
        /\ w[i + 1] = "toggle" => i + 1 < Len(w) /\ w[i + 1 + 1] = "toggleBack"
        /\ w[i + 1] = "toggleBack" => w[i] = "toggle"
        /\ w[i + 1] = "check" => w[i] = "toggleBack"
        /\ w[i + 1] \notin PlainReads
    BY <2>1 DEF WellOrdered
  <2>3. i < Len(t) => i + 1 \in 1 .. Len(t) /\ t[i + 1] = w[i + 1 + 1]
    BY <1>1
  <2>4. i > 1 => i - 1 \in 1 .. Len(t) /\ t[i - 1] = w[i]
    BY <1>1
  <2>5. i + 1 < Len(w) => i < Len(t)
    BY <1>1
  <2> QED BY <2>1, <2>2, <2>3, <2>4, <2>5
<1>4. w[1] # "recheck" /\ Len(t) <= Far(w[1])
  BY <1>1 DEF WellOrdered
<1>5. First(t, {"toggleBack"}) => w[1] = "toggle"
  BY <1>1, <1>2 DEF WellOrdered, First
<1>6. w[1] = "toggle" => First(t, {"toggleBack"})
  BY <1>1, <1>2 DEF WellOrdered, First
<1>7. ~First(t, PlainReads) /\ (First(t, {"check"}) => w[1] = "toggleBack")
  BY <1>1, <1>2 DEF WellOrdered, First
<1> QED BY <1>1, <1>3, <1>4, <1>5, <1>6, <1>7 DEF t, Follows

\* A call may be put before a list that could have followed it.
LEMMA Push ==
  ASSUME NEW w \in Seq(Item), WellOrdered(w), NEW c \in Item, Follows(c, w)
  PROVE  /\ <<c>> \o w \in Seq(Item) /\ Len(<<c>> \o w) = Len(w) + 1 /\ (<<c>> \o w)[1] = c /\ <<c>> \o w # <<>>
         /\ \A i \in 1 .. Len(w) : (<<c>> \o w)[i + 1] = w[i]
         /\ WellOrdered(<<c>> \o w)
<1> DEFINE t == <<c>> \o w
<1>1. /\ t \in Seq(Item) /\ Len(w) \in Nat /\ Len(t) = Len(w) + 1 /\ t[1] = c /\ t # <<>>
      /\ \A i \in 1 .. Len(w) : t[i + 1] = w[i]
  OBVIOUS
<1> HIDE DEF t
<1>2. \A i \in 2 .. Len(t) : i - 1 \in 1 .. Len(w) /\ t[i] = w[i - 1]
  BY <1>1
<1>3. ASSUME NEW i \in 1 .. Len(t)
      PROVE  /\ t[i] # "recheck" /\ Len(t) - i <= Far(t[i])
             /\ t[i] = "toggle" => i < Len(t) /\ t[i + 1] = "toggleBack"
             /\ i > 1 => /\ t[i] = "toggleBack" => t[i - 1] = "toggle"
                         /\ t[i] = "check" => t[i - 1] = "toggleBack"
                         /\ t[i] \notin PlainReads
  <2>1. CASE i = 1
    BY <1>1, <1>2, <2>1 DEF First, Follows
  <2>2. CASE i = 2
    <3>1. w # <<>> /\ t[2] = w[1] /\ 1 \in 1 .. Len(w)
      BY <1>1, <1>2, <2>2
    <3>2. /\ w[1] # "recheck" /\ Len(w) - 1 <= Far(w[1])
          /\ w[1] = "toggle" => 1 < Len(w) /\ w[2] = "toggleBack"
      BY <3>1 DEF WellOrdered
    <3> QED BY <1>1, <1>2, <2>2, <3>1, <3>2 DEF First, Follows
  <2>3. CASE i > 2
    <3>1. i - 1 \in 1 .. Len(w) /\ i - 2 \in 1 .. Len(w) /\ t[i] = w[i - 1] /\ t[i - 1] = w[i - 2] /\ i - 1 > 1
          /\ Len(t) - i = Len(w) - (i - 1)
      BY <1>1, <1>2, <2>3
    <3>2. i < Len(t) => i \in 1 .. Len(w) /\ t[i + 1] = w[i]
      BY <1>1, <2>3
    <3>3. /\ w[i - 1] # "recheck" /\ Len(w) - (i - 1) <= Far(w[i - 1])
          /\ w[i - 1] = "toggle" => i - 1 < Len(w) /\ w[i - 1 + 1] = "toggleBack"
          /\ w[i - 1] = "toggleBack" => w[i - 1 - 1] = "toggle"
          /\ w[i - 1] = "check" => w[i - 1 - 1] = "toggleBack"
          /\ w[i - 1] \notin PlainReads
      BY <3>1 DEF WellOrdered
    <3> QED BY <1>1, <3>1, <3>2, <3>3
  <2> QED BY <2>1, <2>2, <2>3
<1>4. WellOrdered(t)
  BY <1>3 DEF WellOrdered
<1> QED BY <1>1, <1>4 DEF t

\* A list of several calls put before another.
LEMMA Cons ==
  ASSUME NEW w \in Seq(Item), NEW a \in Item, NEW b \in Item
  PROVE  /\ <<>> \o w = w /\ w \o <<>> = w
         /\ <<a, b>> \o w = <<a>> \o (<<b>> \o w)
<1>1. <<>> \o w = w /\ w \o <<>> = w
  BY ConcatEmptySeq
<1>2. <<a>> \in Seq(Item) /\ <<b>> \in Seq(Item)
  OBVIOUS
<1>3. <<a, b>> = <<a>> \o <<b>>
  <2>1. PICK p, q, z : p = <<a>> /\ q = <<b>> /\ z = <<a, b>>
    OBVIOUS
  <2>2. /\ p \in Seq(Item) /\ q \in Seq(Item) /\ z \in Seq(Item) /\ Len(p) = 1 /\ Len(q) = 1 /\ Len(z) = 2
        /\ p[1] = a /\ q[1] = b /\ z[1] = a /\ z[2] = b
    BY <2>1
  <2>3. /\ Len(z) = Len(p) + Len(q) /\ \A i \in 1 .. Len(p) : z[i] = p[i]
        /\ \A i \in 1 .. Len(q) : z[Len(p) + i] = q[i]
    BY <2>2
  <2> QED BY <2>1, <2>2, <2>3, IsConcat
<1>4. <<a, b>> \o w = <<a>> \o (<<b>> \o w)
  BY <1>2, <1>3, ConcatAssociative
<1> QED BY <1>1, <1>4

\* Three calls put before a list.
LEMMA Cons3 ==
  ASSUME NEW w \in Seq(Item), NEW a \in Item, NEW b \in Item, NEW c \in Item
  PROVE  <<a, b, c>> \o w = <<a>> \o (<<b>> \o (<<c>> \o w))
<1>1. PICK p, q, z : p = <<a>> /\ q = <<b, c>> /\ z = <<a, b, c>>
  OBVIOUS
<1>2. /\ p \in Seq(Item) /\ q \in Seq(Item) /\ z \in Seq(Item) /\ Len(p) = 1 /\ Len(q) = 2 /\ Len(z) = 3
      /\ p[1] = a /\ q[1] = b /\ q[2] = c /\ z[1] = a /\ z[2] = b /\ z[3] = c
  BY <1>1
<1>3. /\ Len(z) = Len(p) + Len(q) /\ \A i \in 1 .. Len(p) : z[i] = p[i]
      /\ \A i \in 1 .. Len(q) : z[Len(p) + i] = q[i]
  BY <1>2
<1>4. z = p \o q
  BY <1>2, <1>3, IsConcat
<1>5. z \o w = p \o (q \o w)
  <2>1. p \in Seq(Item) /\ q \in Seq(Item)
    BY <1>2
  <2>2. (p \o q) \o w = p \o (q \o w)
    BY <2>1, ConcatAssociative
  <2> QED BY <1>4, <2>2
<1>6. <<b, c>> \o w = <<b>> \o (<<c>> \o w)
  <2>1. PICK r, y : r = <<b>> /\ y = <<c>>
    OBVIOUS
  <2>2. /\ r \in Seq(Item) /\ y \in Seq(Item) /\ Len(r) = 1 /\ Len(y) = 1 /\ r[1] = b /\ y[1] = c
    BY <2>1
  <2>3. /\ Len(q) = Len(r) + Len(y) /\ \A i \in 1 .. Len(r) : q[i] = r[i]
        /\ \A i \in 1 .. Len(y) : q[Len(r) + i] = y[i]
    BY <1>2, <2>2
  <2>4. q = r \o y
    BY <1>2, <2>2, <2>3, IsConcat
  <2>5. q \o w = r \o (y \o w)
    BY <2>2, <2>4, ConcatAssociative
  <2> QED BY <1>1, <2>1, <2>5
<1> QED BY <1>1, <1>5, <1>6

\* A list that keeps the order is short.
LEMMA Short ==
  ASSUME NEW w \in Seq(Item), WellOrdered(w)
  PROVE  Len(w) <= 9
<1>1. CASE w = <<>>
  BY <1>1
<1>2. CASE w # <<>>
  <2>1. Len(Tail(w)) = Len(w) - 1 /\ Len(Tail(w)) <= Far(w[1]) /\ Len(w) \in Nat
    BY <1>2, Pop DEF Follows
  <2>2. Far(w[1]) <= 8 /\ Far(w[1]) \in Nat
    BY DEF Far
  <2> QED BY <2>1, <2>2
<1> QED BY <1>1, <1>2

\* The lists a handler of the controller starts from.
Fresh(w) == w \in Seq(Item) /\ WellOrdered(w) /\ ~First(w, PlainReads \cup {"toggleBack", "check"})
Unreset(w) == \A i \in 1 .. Len(w) : w[i] # "modprobe"

Plain == {"assert", "setCap", "setPlain", "unlock", "lock"}

\* A list of plain calls is in order.
LEMMA PlainIsFresh ==
  ASSUME NEW w \in Seq(Plain), Len(w) <= 5
  PROVE  Fresh(w) /\ Unreset(w)
<1>1. w \in Seq(Item)
  BY Items, SeqMonotonic DEF Item, Plain
<1>2. Len(w) \in Nat /\ \A i \in 1 .. Len(w) : w[i] \in Plain
  BY ElementOfSeq, LenProperties
<1>3. \A x \in Plain : /\ x \notin PlainReads \cup {"toggleBack", "check", "toggle", "recheck", "modprobe"}
                       /\ Far(x) >= 5 /\ Far(x) \in Nat
  BY DEF Plain, PlainReads, Far
<1>4. Unreset(w)
  BY <1>2, <1>3 DEF Unreset
<1>5. WellOrdered(w)
  <2> SUFFICES ASSUME NEW i \in 1 .. Len(w)
               PROVE  /\ w[i] # "recheck" /\ Len(w) - i <= Far(w[i]) /\ w[i] # "toggle"
                      /\ w[i] # "toggleBack" /\ w[i] # "check" /\ w[i] \notin PlainReads
    BY DEF WellOrdered
  <2>1. w[i] \in Plain /\ Len(w) - i <= 5
    BY <1>2
  <2>2. Far(w[i]) >= 5 /\ Far(w[i]) \in Nat /\ Len(w) - i \in Int
    BY <2>1, <1>2, <1>3
  <2>3. Len(w) - i <= Far(w[i])
    BY <2>1, <2>2
  <2> QED BY <2>1, <2>3, <1>3
<1>6. w # <<>> => w[1] \in Plain
  <2>1. w # <<>> => 1 \in 1 .. Len(w)
    BY EmptySeq
  <2> QED BY <2>1, <1>2
<1>7. ~First(w, PlainReads \cup {"toggleBack", "check"})
  BY <1>3, <1>6 DEF First
<1> QED BY <1>1, <1>4, <1>5, <1>7 DEF Fresh

\* The calls that write a held pair may come before a fresh list.
Writing == {"setPlain", "lock"}
Cat(p, w) == p \o w

\* Writes before a list in order keep it in order.
LEMMA WritesThenFresh ==
  ASSUME NEW p \in Seq(Writing), NEW w, Fresh(w), Len(p) + Len(w) <= 7
  PROVE  Fresh(Cat(p, w)) /\ (Unreset(w) => Unreset(Cat(p, w)))
<1>1. p \in Seq(Item) /\ w \in Seq(Item) /\ WellOrdered(w) /\ Len(p) \in Nat /\ Len(w) \in Nat
  BY Items, SeqMonotonic, LenProperties DEF Fresh, Item, Writing
<1>2. \A c \in Writing : /\ Far(c) = 6 /\ c \notin {"recheck", "toggle", "toggleBack", "check", "modprobe"}
                         /\ c \notin PlainReads
  BY DEF Writing, Far, PlainReads
<1>3. \A i \in 1 .. Len(p) : p[i] \in Writing
  BY ElementOfSeq
<1> DEFINE t == Cat(p, w)
<1>4. /\ t \in Seq(Item) /\ Len(t) = Len(p) + Len(w)
      /\ \A i \in 1 .. Len(p) + Len(w) : t[i] = IF i <= Len(p) THEN p[i] ELSE w[i - Len(p)]
  BY <1>1, ConcatProperties DEF Cat
<1> HIDE DEF t
<1>5. \A i \in 1 .. Len(p) : t[i] \in Writing
  BY <1>1, <1>3, <1>4
<1>6. \A i \in 1 .. Len(w) : t[Len(p) + i] = w[i]
  <2> SUFFICES ASSUME NEW i \in 1 .. Len(w) PROVE t[Len(p) + i] = w[i]
    OBVIOUS
  <2>1. Len(p) + i \in 1 .. Len(p) + Len(w) /\ ~(Len(p) + i <= Len(p)) /\ Len(p) + i - Len(p) = i
    BY <1>1
  <2> QED BY <1>4, <2>1
<1>7. \A i \in 1 .. Len(t) : i \in 1 .. Len(p) \/ \E j \in 1 .. Len(w) : i = Len(p) + j
  <2> SUFFICES ASSUME NEW i \in 1 .. Len(t), ~(i \in 1 .. Len(p)) PROVE \E j \in 1 .. Len(w) : i = Len(p) + j
    OBVIOUS
  <2>1. i - Len(p) \in 1 .. Len(w) /\ i = Len(p) + (i - Len(p))
    BY <1>1, <1>4
  <2> QED BY <2>1
<1>8. WellOrdered(t)
  <2> SUFFICES ASSUME NEW i \in 1 .. Len(t)
               PROVE  /\ t[i] # "recheck" /\ Len(t) - i <= Far(t[i])
                      /\ t[i] = "toggle" => i < Len(t) /\ t[i + 1] = "toggleBack"
                      /\ i > 1 => /\ t[i] = "toggleBack" => t[i - 1] = "toggle"
                                  /\ t[i] = "check" => t[i - 1] = "toggleBack"
                                  /\ t[i] \notin PlainReads
    BY DEF WellOrdered
  <2>1. CASE i \in 1 .. Len(p)
    <3>1. t[i] \in Writing
      BY <1>5, <2>1
    <3>2. Len(t) - i <= 6
      BY <1>1, <1>4, <2>1
    <3> QED BY <1>2, <3>1, <3>2
  <2>2. ASSUME NEW j \in 1 .. Len(w), i = Len(p) + j
        PROVE  /\ t[i] # "recheck" /\ Len(t) - i <= Far(t[i])
               /\ t[i] = "toggle" => i < Len(t) /\ t[i + 1] = "toggleBack"
               /\ i > 1 => /\ t[i] = "toggleBack" => t[i - 1] = "toggle"
                           /\ t[i] = "check" => t[i - 1] = "toggleBack"
                           /\ t[i] \notin PlainReads
    <3>1. t[i] = w[j] /\ Len(t) - i = Len(w) - j
      BY <1>1, <1>4, <1>6, <2>2
    <3>2. /\ w[j] # "recheck" /\ Len(w) - j <= Far(w[j])
          /\ w[j] = "toggle" => j < Len(w) /\ w[j + 1] = "toggleBack"
          /\ j > 1 => /\ w[j] = "toggleBack" => w[j - 1] = "toggle"
                      /\ w[j] = "check" => w[j - 1] = "toggleBack"
                      /\ w[j] \notin PlainReads
      BY <1>1 DEF WellOrdered
    <3>3. j < Len(w) => i < Len(t) /\ t[i + 1] = w[j + 1]
      <4> SUFFICES ASSUME j < Len(w) PROVE i < Len(t) /\ t[i + 1] = w[j + 1]
        OBVIOUS
      <4>1. j + 1 \in 1 .. Len(w) /\ i + 1 = Len(p) + (j + 1)
        BY <1>1, <2>2
      <4> QED BY <1>1, <1>4, <1>6, <2>2, <4>1
    <3>4. j > 1 => t[i - 1] = w[j - 1]
      <4> SUFFICES ASSUME j > 1 PROVE t[i - 1] = w[j - 1]
        OBVIOUS
      <4>1. j - 1 \in 1 .. Len(w) /\ i - 1 = Len(p) + (j - 1)
        BY <1>1, <2>2
      <4> QED BY <1>6, <4>1
    <3>5. j = 1 => w[j] \notin PlainReads \cup {"toggleBack", "check"}
      <4> SUFFICES ASSUME j = 1 PROVE w[1] \notin PlainReads \cup {"toggleBack", "check"}
        OBVIOUS
      <4>1. w # <<>>
        BY <1>1
      <4> QED BY <4>1 DEF Fresh, First
    <3>6. t[i] # "recheck" /\ Len(t) - i <= Far(t[i])
      BY <3>1, <3>2
    <3>7. t[i] = "toggle" => i < Len(t) /\ t[i + 1] = "toggleBack"
      BY <3>1, <3>2, <3>3
    <3>8. CASE j = 1
      <4>1. t[i] # "toggleBack" /\ t[i] # "check" /\ t[i] \notin PlainReads
        BY <3>1, <3>5, <3>8
      <4> QED BY <3>6, <3>7, <4>1
    <3>9. CASE j # 1
      <4>1. j > 1
        BY <1>1, <3>9
      <4>2. t[i - 1] = w[j - 1]
        BY <3>4, <4>1
      <4>3. /\ t[i] = "toggleBack" => t[i - 1] = "toggle"
            /\ t[i] = "check" => t[i - 1] = "toggleBack"
            /\ t[i] \notin PlainReads
        BY <3>1, <3>2, <4>1, <4>2
      <4> QED BY <3>6, <3>7, <4>3
    <3> QED BY <3>8, <3>9
  <2> QED BY <1>7, <2>1, <2>2
<1>9. ~First(t, PlainReads \cup {"toggleBack", "check"})
  <2> SUFFICES ASSUME t # <<>> PROVE t[1] \notin PlainReads \cup {"toggleBack", "check"}
    BY DEF First
  <2>1. 1 \in 1 .. Len(t)
    BY <1>4, EmptySeq
  <2>2. CASE 1 \in 1 .. Len(p)
    BY <1>2, <1>5, <2>2
  <2>3. CASE ~(1 \in 1 .. Len(p))
    <3>1. Len(p) = 0 /\ 1 \in 1 .. Len(w) /\ w # <<>>
      BY <1>1, <1>4, <2>1, <2>3
    <3>2. t[1] = w[1]
      BY <1>4, <2>1, <3>1
    <3> QED BY <3>1, <3>2 DEF Fresh, First
  <2> QED BY <2>2, <2>3
<1>10. ASSUME Unreset(w) PROVE Unreset(t)
  <2> SUFFICES ASSUME NEW i \in 1 .. Len(t) PROVE t[i] # "modprobe"
    BY DEF Unreset
  <2>1. i \in 1 .. Len(p) => t[i] # "modprobe"
    BY <1>2, <1>5
  <2>2. ASSUME NEW j \in 1 .. Len(w), i = Len(p) + j PROVE t[i] # "modprobe"
    BY <1>6, <1>10, <2>2 DEF Unreset
  <2> QED BY <1>7, <2>1, <2>2
<1> QED BY <1>4, <1>8, <1>9, <1>10 DEF Fresh, t

\* The lists that restore, alone and after what is held.
LEMMA RestoringIsFresh ==
  /\ Fresh(Release) /\ Unreset(Release) /\ Fresh(RestoreAll) /\ Fresh(LastCalls)
  /\ Len(Release) = 4 /\ Len(RestoreAll) = 5 /\ Len(LastCalls) = 7
<1>1. ASSUME NEW r, r = <<"unlock", "toggle", "toggleBack", "check">>
      PROVE  Fresh(r) /\ Unreset(r) /\ Len(r) = 4
  <2>1. /\ r \in Seq(Item) /\ Len(r) = 4 /\ r # <<>>
        /\ r[1] = "unlock" /\ r[2] = "toggle" /\ r[3] = "toggleBack" /\ r[4] = "check"
    BY <1>1, Items DEF Item
  <2>2. \A i \in 1 .. Len(r) : i = 1 \/ i = 2 \/ i = 3 \/ i = 4
    BY <2>1
  <2>3. WellOrdered(r)
    BY <2>1, <2>2 DEF WellOrdered, Far, PlainReads
  <2> QED BY <2>1, <2>2, <2>3 DEF Fresh, Unreset, First, PlainReads
<1>2. ASSUME NEW r, r = <<"unlock", "toggle", "toggleBack", "check", "modprobe">>
      PROVE  Fresh(r) /\ Len(r) = 5
  <2>1. /\ r \in Seq(Item) /\ Len(r) = 5 /\ r # <<>> /\ r[5] = "modprobe"
        /\ r[1] = "unlock" /\ r[2] = "toggle" /\ r[3] = "toggleBack" /\ r[4] = "check"
    BY <1>2, Items DEF Item
  <2>2. \A i \in 1 .. Len(r) : i = 1 \/ i = 2 \/ i = 3 \/ i = 4 \/ i = 5
    BY <2>1
  <2>3. WellOrdered(r)
    BY <2>1, <2>2 DEF WellOrdered, Far, PlainReads
  <2> QED BY <2>1, <2>3 DEF Fresh, First, PlainReads
<1>3. RestoreAll \in Seq(Item) /\ Fresh(RestoreAll) /\ Len(RestoreAll) = 5
  BY <1>2, Lists DEF Fresh
<1>4. Fresh(LastCalls) /\ Len(LastCalls) = 7
  <2>1. HeldPair \in Seq(Writing) /\ Len(HeldPair) = 2
    BY DEF HeldPair, Writing
  <2>2. Len(HeldPair) + Len(RestoreAll) <= 7
    BY <1>3, <2>1
  <2>3. Fresh(Cat(HeldPair, RestoreAll))
    BY <1>3, <2>1, <2>2, WritesThenFresh
  <2> QED BY <2>3, Lists DEF LastCalls, Cat
<1> QED BY <1>1, <1>3, <1>4, Lists

\* What a sample leads to is a list in order that resets no module.
LEMMA SampleIsFresh ==
  ASSUME NEW m \in Modes, NEW w \in SampleWork(m)
  PROVE  Fresh(w) /\ Unreset(w)
<1>1. ASSUME w = Release PROVE Fresh(w) /\ Unreset(w)
  BY <1>1, RestoringIsFresh
<1>2. ASSUME NEW c \in Plain, NEW o \in Optional(c)
      PROVE  o \in Seq(Plain) /\ Len(o) <= 1 /\ Len(o) \in Nat
  <2>1. o = <<>> \/ o = <<c>>
    BY DEF Optional
  <2>2. CASE o = <<>>
    BY <2>2
  <2>3. CASE o = <<c>>
    BY <2>3
  <2> QED BY <2>1, <2>2, <2>3
<1>3. ASSUME NEW s \in Seq(Plain), NEW t \in Seq(Plain)
      PROVE  s \o t \in Seq(Plain) /\ Len(s \o t) = Len(s) + Len(t) /\ Len(s \o t) \in Nat
  BY <1>3, ConcatProperties, LenProperties
<1>4. {"assert", "setCap", "setPlain", "unlock", "lock"} \subseteq Plain
  BY DEF Plain
<1>5. CASE m = "auto"
  <2> SUFFICES ASSUME w # Release PROVE Fresh(w) /\ Unreset(w)
    BY <1>1
  <2>1. PICK a \in Optional("assert"), b \in Optional("assert"), c \in Optional("setCap"),
             u \in Optional("unlock"), l \in Optional("lock") : w = a \o c \o u \o l \o b
    <3> DEFINE F(a, b, c, u, l) == a \o c \o u \o l \o b
               S == {F(a, b, c, u, l) : a \in Optional("assert"), b \in Optional("assert"),
                     c \in Optional("setCap"), u \in Optional("unlock"), l \in Optional("lock")}
    <3>1. SampleWork("auto") = S \cup {Release}
      BY DEF SampleWork
    <3>2. w \in S
      <4> HIDE DEF S
      <4> QED BY <1>5, <3>1
    <3>3. PICK a \in Optional("assert"), b \in Optional("assert"), c \in Optional("setCap"),
               u \in Optional("unlock"), l \in Optional("lock") : w = F(a, b, c, u, l)
      <4> HIDE DEF F
      <4> QED BY <3>2
    <3> QED BY <3>3
  <2>2. /\ a \in Seq(Plain) /\ b \in Seq(Plain) /\ c \in Seq(Plain) /\ u \in Seq(Plain) /\ l \in Seq(Plain)
        /\ Len(a) <= 1 /\ Len(b) <= 1 /\ Len(c) <= 1 /\ Len(u) <= 1 /\ Len(l) <= 1
        /\ {Len(a), Len(b), Len(c), Len(u), Len(l)} \subseteq Nat
    BY <1>2, <1>4
  <2>3. PICK p : p = a \o c
    OBVIOUS
  <2>4. PICK q : q = p \o u
    OBVIOUS
  <2>5. PICK r : r = q \o l
    OBVIOUS
  <2>6. p \in Seq(Plain) /\ Len(p) <= 2 /\ Len(p) \in Nat
    BY <1>3, <2>2, <2>3
  <2>7. q \in Seq(Plain) /\ Len(q) <= 3 /\ Len(q) \in Nat
    BY <1>3, <2>2, <2>4, <2>6
  <2>8. r \in Seq(Plain) /\ Len(r) <= 4 /\ Len(r) \in Nat
    BY <1>3, <2>2, <2>5, <2>7
  <2>9. w = r \o b
    BY <2>1, <2>3, <2>4, <2>5
  <2>10. w \in Seq(Plain) /\ Len(w) <= 5
    BY <1>3, <2>2, <2>8, <2>9
  <2> QED BY <2>10, PlainIsFresh
<1>6. CASE m = "manual"
  <2> SUFFICES ASSUME w # Release PROVE Fresh(w) /\ Unreset(w)
    BY <1>1
  <2>1. PICK a \in Optional("assert"), b \in Optional("assert") : w = a \o b
    BY <1>6 DEF SampleWork
  <2>2. /\ a \in Seq(Plain) /\ b \in Seq(Plain) /\ Len(a) <= 1 /\ Len(b) <= 1 /\ Len(a) \in Nat /\ Len(b) \in Nat
    BY <1>2, <1>4
  <2>3. w \in Seq(Plain) /\ Len(w) <= 5
    BY <1>3, <2>1, <2>2
  <2> QED BY <2>3, PlainIsFresh
<1>7. CASE m = "calibrating"
  <2>1. w \in {c \o l \o e : c \in Optional("setPlain"), l \in Optional("lock"), e \in {<<>>, Release}}
    BY <1>7 DEF SampleWork
  <2>2. PICK c \in Optional("setPlain"), l \in Optional("lock"), e \in {<<>>, Release} : w = c \o l \o e
    BY <2>1
  <2>3. PICK p : p = c \o l
    OBVIOUS
  <2>4. ASSUME NEW x \in Writing, NEW o \in Optional(x)
        PROVE  o \in Seq(Writing) /\ Len(o) <= 1 /\ Len(o) \in Nat
    <3>1. o = <<>> \/ o = <<x>>
      BY DEF Optional
    <3>2. CASE o = <<>>
      BY <3>2
    <3>3. CASE o = <<x>>
      BY <3>3
    <3> QED BY <3>1, <3>2, <3>3
  <2>5. /\ c \in Seq(Writing) /\ l \in Seq(Writing) /\ Len(c) <= 1 /\ Len(l) <= 1 /\ Len(c) \in Nat /\ Len(l) \in Nat
    BY <2>4 DEF Writing
  <2>6. p \in Seq(Writing) /\ Len(p) <= 2 /\ Len(p) \in Nat
    BY <2>3, <2>5, ConcatProperties
  <2>7. CASE e = <<>>
    <3>1. w = p
      BY <2>2, <2>3, <2>6, <2>7, ConcatEmptySeq
    <3>2. p \in Seq(Plain)
      BY <2>6, SeqMonotonic DEF Plain, Writing
    <3> QED BY <2>6, <3>1, <3>2, PlainIsFresh
  <2>8. CASE e = Release
    <3>1. w = Cat(p, Release)
      BY <2>2, <2>3, <2>8 DEF Cat
    <3>2. Fresh(Release) /\ Unreset(Release) /\ Len(p) + Len(Release) <= 7
      BY <2>6, RestoringIsFresh
    <3> QED BY <2>6, <3>1, <3>2, WritesThenFresh
  <2> QED BY <2>2, <2>7, <2>8
<1> QED BY <1>5, <1>6, <1>7 DEF Modes

\* So is what a command leads to.
LEMMA CommandIsFresh ==
  ASSUME NEW m \in Modes, NEW w \in CommandWork(m)
  PROVE  Fresh(w) /\ Unreset(w)
<1>1. w \in {<<>>, HeldPair, Release, <<"setPlain">>, <<"lock">>}
  BY DEF CommandWork
<1>2. CASE w = Release
  BY <1>2, RestoringIsFresh
<1>3. CASE w # Release
  <2>1. w \in {<<>>, <<"setPlain">>, <<"lock">>, <<"setPlain", "lock">>}
    BY <1>1, <1>3 DEF HeldPair
  <2>2. w \in Seq(Plain) /\ Len(w) <= 5
    <3>1. "setPlain" \in Plain /\ "lock" \in Plain
      BY DEF Plain
    <3>2. CASE w = <<>>
      BY <3>2
    <3>3. CASE w = <<"setPlain">>
      BY <3>1, <3>3
    <3>4. CASE w = <<"lock">>
      BY <3>1, <3>4
    <3>5. CASE w = <<"setPlain", "lock">>
      BY <3>1, <3>5
    <3> QED BY <2>1, <3>2, <3>3, <3>4, <3>5
  <2> QED BY <2>2, PlainIsFresh
<1> QED BY <1>2, <1>3

-----------------------------------------------------------------------------
(* What a call leads to.                                                   *)

Single == {"verify", "look", "confirm", "inspect", "correct", "lock", "relock"}
Added  == {<<>>, RestoreCpu, <<"inspect", "relock">>} \cup {<<c>> : c \in Single}

\* After any call but a toggle the rest may stand on its own.
LEMMA FollowIsFresh ==
  ASSUME NEW w \in Seq(Item), WellOrdered(w), NEW c \in Item, Follows(c, w), c \notin {"toggle", "toggleBack"}
  PROVE  Fresh(w)
  BY DEF Follows, Fresh, First

\* One call put before a fresh list.
LEMMA PushSingle ==
  ASSUME NEW w, Fresh(w), Len(w) <= 6, NEW c \in Single
  PROVE  /\ Cat(<<c>>, w) \in Seq(Item) /\ WellOrdered(Cat(<<c>>, w)) /\ Len(Cat(<<c>>, w)) = Len(w) + 1
         /\ Cat(<<c>>, w)[1] = c /\ Cat(<<c>>, w) # <<>>
         /\ Unreset(w) => Unreset(Cat(<<c>>, w))
<1>1. c \in Item /\ c \notin {"recheck", "toggle", "toggleBack", "check", "modprobe"} /\ Far(c) = 6
  BY Items DEF Item, Single, Far
<1>2. w \in Seq(Item) /\ WellOrdered(w) /\ Follows(c, w) /\ Len(w) \in Nat
  BY <1>1, LenProperties DEF Fresh, First, Follows
<1> DEFINE t == Cat(<<c>>, w)
<1>3. /\ t \in Seq(Item) /\ Len(t) = Len(w) + 1 /\ t[1] = c /\ t # <<>> /\ WellOrdered(t)
      /\ \A i \in 1 .. Len(w) : t[i + 1] = w[i]
  BY <1>1, <1>2, Push DEF Cat
<1> HIDE DEF t
<1>4. ASSUME Unreset(w) PROVE Unreset(t)
  <2> SUFFICES ASSUME NEW i \in 1 .. Len(t), i # 1 PROVE t[i] # "modprobe"
    BY <1>1, <1>3 DEF Unreset
  <2>1. i - 1 \in 1 .. Len(w) /\ (i - 1) + 1 = i
    BY <1>2, <1>3
  <2> QED BY <1>3, <1>4, <2>1 DEF Unreset
<1> QED BY <1>3, <1>4 DEF t

\* The toggle, its way back and the check put before a fresh list.
LEMMA PushRestore ==
  ASSUME NEW w, Fresh(w), Len(w) <= 6
  PROVE  /\ Cat(RestoreCpu, w) \in Seq(Item) /\ WellOrdered(Cat(RestoreCpu, w))
         /\ Cat(RestoreCpu, w)[1] = "toggle"
         /\ Unreset(w) => Unreset(Cat(RestoreCpu, w))
<1>1. PICK a, b, c : a = "toggle" /\ b = "toggleBack" /\ c = "check"
  OBVIOUS
<1>2. a \in Item /\ b \in Item /\ c \in Item
  BY <1>1, Items DEF Item
<1>3. w \in Seq(Item) /\ WellOrdered(w) /\ Len(w) \in Nat /\ Follows(c, w)
  BY <1>1, LenProperties DEF Fresh, First, Follows, Far
<1>4. PICK x : x = <<c>> \o w
  OBVIOUS
<1>5. PICK y : y = <<b>> \o x
  OBVIOUS
<1>6. PICK z : z = <<a>> \o y
  OBVIOUS
<1>7. x \in Seq(Item) /\ Len(x) = Len(w) + 1 /\ x[1] = c /\ x # <<>> /\ WellOrdered(x)
      /\ \A i \in 1 .. Len(w) : x[i + 1] = w[i]
  BY <1>2, <1>3, <1>4, Push
<1>8. Follows(b, x)
  BY <1>1, <1>3, <1>7 DEF Follows, First, Far, PlainReads
<1>9. y \in Seq(Item) /\ Len(y) = Len(x) + 1 /\ y[1] = b /\ y # <<>> /\ WellOrdered(y)
      /\ \A i \in 1 .. Len(x) : y[i + 1] = x[i]
  BY <1>2, <1>5, <1>7, <1>8, Push
<1>10. Follows(a, y)
  BY <1>1, <1>3, <1>7, <1>9 DEF Follows, First, Far, PlainReads
<1>11. z \in Seq(Item) /\ Len(z) = Len(y) + 1 /\ z[1] = a /\ WellOrdered(z)
       /\ \A i \in 1 .. Len(y) : z[i + 1] = y[i]
  BY <1>2, <1>6, <1>9, <1>10, Push
<1>12. z = Cat(RestoreCpu, w)
  <2>1. <<a, b, c>> \o w = <<a>> \o (<<b>> \o (<<c>> \o w))
    BY <1>2, <1>3, Cons3
  <2>2. RestoreCpu = <<a, b, c>>
    BY <1>1 DEF RestoreCpu
  <2> QED BY <1>4, <1>5, <1>6, <2>1, <2>2 DEF Cat
<1>13. ASSUME Unreset(w) PROVE Unreset(z)
  <2>1. \A i \in 1 .. Len(x) : x[i] # "modprobe"
    <3> SUFFICES ASSUME NEW i \in 1 .. Len(x), i # 1 PROVE x[i] # "modprobe"
      BY <1>1, <1>7
    <3>1. i - 1 \in 1 .. Len(w) /\ (i - 1) + 1 = i
      BY <1>3, <1>7
    <3> QED BY <1>7, <1>13, <3>1 DEF Unreset
  <2>2. \A i \in 1 .. Len(y) : y[i] # "modprobe"
    <3> SUFFICES ASSUME NEW i \in 1 .. Len(y), i # 1 PROVE y[i] # "modprobe"
      BY <1>1, <1>9
    <3>1. i - 1 \in 1 .. Len(x) /\ (i - 1) + 1 = i
      BY <1>3, <1>7, <1>9
    <3> QED BY <1>9, <2>1, <3>1
  <2> SUFFICES ASSUME NEW i \in 1 .. Len(z), i # 1 PROVE z[i] # "modprobe"
    BY <1>1, <1>11 DEF Unreset
  <2>3. i - 1 \in 1 .. Len(y) /\ (i - 1) + 1 = i
    BY <1>3, <1>7, <1>9, <1>11
  <2> QED BY <1>11, <2>2, <2>3
<1> QED BY <1>1, <1>11, <1>12, <1>13

\* Whatever is added before a fresh list keeps the order.
LEMMA AddOK ==
  ASSUME NEW w, Fresh(w), Len(w) <= 6, NEW p \in Added, p = <<"inspect", "relock">> => Len(w) <= 5
  PROVE  /\ Cat(p, w) \in Seq(Item) /\ WellOrdered(Cat(p, w))
         /\ ~First(Cat(p, w), {"toggleBack", "check"})
         /\ Unreset(w) => Unreset(Cat(p, w))
         /\ First(Cat(p, w), PlainReads) => p # <<>> /\ p[1] \in PlainReads
<1>1. w \in Seq(Item) /\ WellOrdered(w) /\ ~First(w, PlainReads) /\ ~First(w, {"toggleBack", "check"})
  BY DEF Fresh, First
<1>2. CASE p = <<>>
  <2>1. Cat(p, w) = w
    BY <1>1, <1>2, ConcatEmptySeq DEF Cat
  <2> QED BY <1>1, <2>1
<1>3. CASE p = RestoreCpu
  <2>1. ~("toggle" \in PlainReads)
    BY DEF PlainReads
  <2> QED BY <1>3, <2>1, PushRestore DEF First
<1>4. ASSUME NEW c \in Single, p = <<c>>
      PROVE  /\ Cat(p, w) \in Seq(Item) /\ WellOrdered(Cat(p, w))
             /\ ~First(Cat(p, w), {"toggleBack", "check"})
             /\ Unreset(w) => Unreset(Cat(p, w))
             /\ First(Cat(p, w), PlainReads) => p # <<>> /\ p[1] \in PlainReads
  <2>1. c \notin {"toggleBack", "check"} /\ p # <<>> /\ p[1] = c
    BY <1>4 DEF Single
  <2> QED BY <1>4, <2>1, PushSingle DEF First
<1>5. CASE p = <<"inspect", "relock">>
  <2>1. PICK a, b : a = "inspect" /\ b = "relock"
    OBVIOUS
  <2>2. a \in Single /\ b \in Single /\ a \in Item /\ b \in Item /\ p = <<a, b>>
    BY <1>5, <2>1, Items DEF Item, Single
  <2>3. PICK x : x = Cat(<<b>>, w)
    OBVIOUS
  <2>4. x \in Seq(Item) /\ WellOrdered(x) /\ Len(x) = Len(w) + 1 /\ x[1] = b /\ (Unreset(w) => Unreset(x))
    BY <2>2, <2>3, PushSingle
  <2>5. Fresh(x) /\ Len(x) <= 6
    BY <1>1, <1>5, <2>1, <2>4, LenProperties DEF Fresh, First, PlainReads
  <2>6. /\ Cat(<<a>>, x) \in Seq(Item) /\ WellOrdered(Cat(<<a>>, x)) /\ Cat(<<a>>, x)[1] = a
        /\ Unreset(x) => Unreset(Cat(<<a>>, x))
    BY <2>2, <2>5, PushSingle
  <2>7. Cat(p, w) = Cat(<<a>>, x)
    BY <1>1, <2>2, <2>3, Cons DEF Cat
  <2>8. p # <<>> /\ p[1] = a /\ a \in PlainReads /\ a \notin {"toggleBack", "check"}
    BY <2>1, <2>2 DEF PlainReads
  <2> QED BY <2>4, <2>6, <2>7, <2>8 DEF First
<1> QED BY <1>2, <1>3, <1>4, <1>5 DEF Added

-----------------------------------------------------------------------------
(* The initial states, and the steps that leave the controller's calls     *)
(* alone.                                                                  *)

\* The program starts in the invariant.
LEMMA InitOK == Init => IInv
<1> SUFFICES ASSUME Init PROVE IInv
  OBVIOUS
<1> USE ShutdownAssumption DEF Init
<1>1. TypeOK
  <2>1. work \in Seq(Calls \cup {"assert"}) /\ Len(work) = 0
    OBVIOUS
  <2>2. mainWork \in Seq(Calls) /\ Len(mainWork) = 0 /\ Len(FreshAll) = 4
    BY DEF FreshAll
  <2>3. inbox \in Seq({"set", "quit"}) /\ Len(inbox) = 0
    OBVIOUS
  <2>4. /\ main \in {"running", "panicking", "joining", "terminal", "reaping", "grace", "restoring", "exited"}
        /\ ctl \in {"select", "serving", "leaving", "unwinding", "gone", "dead"} /\ mode \in Modes
        /\ call \in Calls \cup {"none"} /\ {fence, restored, joined, connected, armed} \subseteq BOOLEAN
    BY DEF Modes
  <2>5. samples \in 0 .. MaxSamples /\ sampler \in {"running", "exited"} /\ Len(inbox) <= MaxInbox + 1
    BY <2>3 DEF ShutdownAssumption
  <2>6. /\ hung \subseteq MayHang /\ late \in Nat /\ caps \subseteq {"cpu", "gpu"} /\ profile \in Profiles
        /\ saved \in [{"main", "controller"} -> Profiles] /\ owed \subseteq {"cpu", "gpu", "profile"}
    BY DEF ShutdownAssumption
  <2> QED BY <2>1, <2>2, <2>3, <2>4, <2>5, <2>6 DEF TypeOK
<1>2. CallsInOrder
  BY DEF CallsInOrder, WellOrdered, Unreset
<1>3. LeavingRestores /\ ToggleUncaps
  BY DEF LeavingRestores, ToggleUncaps
<1>4. ProfileKept
  BY DEF ProfileKept, Midway, First
<1>5. EndedRestored /\ QuitIsFenced /\ WorkIsBounded
  BY DEF EndedRestored, QuitIsFenced, WorkIsBounded, ShutdownAssumption
<1> QED BY <1>1, <1>2, <1>3, <1>4, <1>5 DEF IInv

\* What a step keeps that leaves the controller where it is.
LEMMA CallsFrame ==
  ASSUME CallsInOrder, UNCHANGED ctlVars
  PROVE  CallsInOrder'
  BY DEF CallsInOrder, ctlVars

\* The fence may go up and a cap may go, as long as what is left is owed.
LEMMA LeavingFrame ==
  ASSUME LeavingRestores, UNCHANGED ctlVars, fence => fence', caps' \subseteq caps, caps' \cap owed \subseteq owed'
  PROVE  LeavingRestores'
  BY DEF LeavingRestores, ctlVars

\* A cap may go.
LEMMA ToggleFrame ==
  ASSUME ToggleUncaps, UNCHANGED ctlVars, caps' \subseteq caps
  PROVE  ToggleUncaps'
  BY DEF ToggleUncaps, ctlVars

\* What bounds the commands left is the controller, the fence and armed.
LEMMA BoundFrame ==
  ASSUME WorkIsBounded, UNCHANGED <<ctlVars, armed, late, fence>>
  PROVE  WorkIsBounded'
  BY DEF WorkIsBounded, CommandsLeft, ctlVars

\* The steps of main that only move it on, and those of the sampler.
LEMMA MoveOK ==
  ASSUME IInv, TypeOK', UNCHANGED <<joined, mainWork, ctlVars, inbox, hwVars, fence, restored, late>>,
         main' # main => /\ main \in {"running", "panicking", "terminal", "reaping"}
                         /\ main' \in {"panicking", "reaping", "grace"}
                         /\ main' = "panicking" => main = "running"
  PROVE  IInv'
<1> USE DEF IInv
<1>1. CallsInOrder'
  BY CallsFrame
<1>2. LeavingRestores' /\ ToggleUncaps'
  BY LeavingFrame, ToggleFrame DEF hwVars
<1>3. ProfileKept'
  BY DEF ProfileKept, Midway, ctlVars, hwVars
<1>4. EndedRestored'
  BY DEF EndedRestored, ctlVars, hwVars
<1>5. QuitIsFenced'
  BY DEF QuitIsFenced
<1>6. WorkIsBounded'
  BY BoundFrame DEF hwVars
<1> QED BY <1>1, <1>2, <1>3, <1>4, <1>5, <1>6

\* The hook and the unwind of a panic of main change no hardware.
LEMMA PanicMainOK == ASSUME IInv, PanicMain PROVE IInv'
<1>1. TypeOK'
  BY DEF IInv, TypeOK, PanicMain, ctlVars, chanVars, hwVars
<1> QED BY <1>1, MoveOK DEF PanicMain, chanVars

\* The terminal is restored between the join and the reaping.
LEMMA RestoreTerminalOK == ASSUME IInv, RestoreTerminal PROVE IInv'
<1>1. TypeOK'
  BY DEF IInv, TypeOK, RestoreTerminal, ctlVars, chanVars, hwVars
<1> QED BY <1>1, MoveOK DEF RestoreTerminal, chanVars

\* Reaping waits for threads and changes nothing else.
LEMMA ReapThreadsOK == ASSUME IInv, ReapThreads PROVE IInv'
<1>1. TypeOK'
  BY DEF IInv, TypeOK, ReapThreads, ctlVars, chanVars, hwVars
<1> QED BY <1>1, MoveOK DEF ReapThreads, chanVars

\* The unwind drops the sender of the command channel.
LEMMA UnwindOK == ASSUME IInv, Unwind PROVE IInv'
<1>1. TypeOK'
  BY DEF IInv, TypeOK, Unwind, ctlVars, chanVars, hwVars
<1> QED BY <1>1, MoveOK DEF Unwind, chanVars

\* Whoever hangs changes nothing.
LEMMA HangOK == ASSUME IInv, Hang PROVE IInv'
<1>1. TypeOK'
  BY DEF IInv, TypeOK, Hang, mainVars, ctlVars, chanVars, hwVars
<1> QED BY <1>1, MoveOK DEF Hang, chanVars, mainVars

\* Nor does who comes back.
LEMMA ComeBackOK == ASSUME IInv, ComeBack PROVE IInv'
<1>1. TypeOK'
  BY DEF IInv, TypeOK, ComeBack, mainVars, ctlVars, chanVars, hwVars
<1> QED BY <1>1, MoveOK DEF ComeBack, chanVars, mainVars

\* The sampler queues samples and ends.
LEMMA SamplerStepOK == ASSUME IInv, SamplerStep PROVE IInv'
<1>1. TypeOK'
  <2>1. samples' \in 0 .. MaxSamples /\ sampler' \in {"running", "exited"}
    BY ShutdownAssumption DEF IInv, TypeOK, SamplerStep, ShutdownAssumption
  <2> QED BY <2>1 DEF IInv, TypeOK, SamplerStep, mainVars, ctlVars, hwVars
<1> QED BY <1>1, MoveOK DEF SamplerStep, mainVars

\* A command is queued by a main that runs, below the fence.
LEMMA SendCommandOK == ASSUME IInv, SendCommand PROVE IInv'
<1> USE DEF IInv
<1>1. /\ inbox \in Seq({"set", "quit"}) /\ Len(inbox) \in Nat /\ inbox' = Append(inbox, "set")
      /\ Len(inbox) < MaxInbox /\ MaxInbox \in Nat
  BY ShutdownAssumption, LenProperties DEF TypeOK, SendCommand, ShutdownAssumption
<1>2. /\ inbox' \in Seq({"set", "quit"}) /\ Len(inbox') = Len(inbox) + 1
      /\ \A i \in 1 .. Len(inbox) : inbox'[i] = inbox[i]
      /\ inbox'[Len(inbox) + 1] = "set"
  BY <1>1, AppendProperties
<1>3. TypeOK'
  <2>1. Len(inbox') <= MaxInbox + 1
    BY <1>1, <1>2
  <2> QED BY <1>2, <2>1 DEF TypeOK, SendCommand, mainVars, ctlVars, hwVars
<1>4. CallsInOrder' /\ LeavingRestores' /\ ToggleUncaps'
  BY CallsFrame, LeavingFrame, ToggleFrame DEF SendCommand, hwVars
<1>5. ProfileKept'
  BY DEF ProfileKept, Midway, SendCommand, mainVars, ctlVars, hwVars
<1>6. EndedRestored'
  BY DEF EndedRestored, SendCommand, mainVars, ctlVars, hwVars
<1>7. QuitIsFenced'
  <2>1. \A i \in 1 .. Len(inbox') : i \in 1 .. Len(inbox) \/ i = Len(inbox) + 1
    BY <1>1, <1>2
  <2>2. Len(inbox') <= MaxInbox
    BY <1>1, <1>2
  <2> QED BY <1>2, <2>1, <2>2 DEF QuitIsFenced, SendCommand, mainVars
<1>8. WorkIsBounded'
  BY BoundFrame DEF SendCommand, hwVars
<1> QED BY <1>3, <1>4, <1>5, <1>6, <1>7, <1>8

\* The fence goes up before Quit is queued; at most three commands are left.
LEMMA StopRunningOK == ASSUME IInv, StopRunning PROVE IInv'
<1> USE DEF IInv
<1>1. /\ inbox \in Seq({"set", "quit"}) /\ Len(inbox) \in Nat /\ MaxInbox \in Nat /\ Len(inbox) <= MaxInbox
      /\ inbox' = inbox \/ inbox' = Append(inbox, "quit")
  BY ShutdownAssumption, LenProperties DEF TypeOK, StopRunning, ShutdownAssumption, QuitIsFenced
<1>2. inbox' \in Seq({"set", "quit"}) /\ Len(inbox') <= MaxInbox + 1
  <2>1. CASE inbox' = inbox
    BY <1>1, <2>1
  <2>2. CASE inbox' = Append(inbox, "quit")
    <3>1. inbox' \in Seq({"set", "quit"}) /\ Len(inbox') = Len(inbox) + 1
      BY <1>1, <2>2, AppendProperties
    <3> QED BY <1>1, <3>1
  <2> QED BY <1>1, <2>1, <2>2
<1>3. TypeOK'
  BY <1>2 DEF TypeOK, StopRunning, ctlVars, hwVars
<1>4. CallsInOrder' /\ LeavingRestores' /\ ToggleUncaps'
  BY CallsFrame, LeavingFrame, ToggleFrame DEF StopRunning, hwVars
<1>5. ProfileKept'
  BY DEF ProfileKept, Midway, StopRunning, ctlVars, hwVars
<1>6. EndedRestored'
  BY DEF EndedRestored, StopRunning, ctlVars, hwVars
<1>7. QuitIsFenced'
  BY DEF QuitIsFenced, StopRunning
<1>8. WorkIsBounded'
  <2>1. CommandsLeft' <= 3 /\ CommandsLeft' \in Nat
    BY DEF CommandsLeft, One
  <2>2. late' = 0 \/ late' = 1
    BY DEF StopRunning
  <2>3. late' + CommandsLeft' <= 4
    BY <2>1, <2>2
  <2> QED BY <2>3 DEF WorkIsBounded
<1> QED BY <1>3, <1>4, <1>5, <1>6, <1>7, <1>8

\* The join learns of a controller that has ended.
LEMMA JoinControllerOK == ASSUME IInv, JoinController PROVE IInv'
<1> USE DEF IInv
<1>1. joined' \in BOOLEAN /\ (joined' => ControllerGone)
  BY DEF JoinController
<1>2. TypeOK'
  BY <1>1 DEF TypeOK, JoinController, ctlVars, hwVars
<1>3. CallsInOrder' /\ LeavingRestores' /\ ToggleUncaps'
  BY CallsFrame, LeavingFrame, ToggleFrame DEF JoinController, hwVars
<1>4. ProfileKept'
  BY DEF ProfileKept, Midway, JoinController, ctlVars, hwVars
<1>5. EndedRestored'
  BY <1>1 DEF EndedRestored, JoinController, ControllerGone, ctlVars, hwVars
<1>6. QuitIsFenced'
  BY DEF QuitIsFenced, JoinController
<1>7. WorkIsBounded'
  BY BoundFrame DEF JoinController, hwVars
<1> QED BY <1>2, <1>3, <1>4, <1>5, <1>6, <1>7

\* What the fresh guard of FinalRestore does, written out.
LEMMA FreshCalls ==
  /\ FreshAll \in Seq(Calls) /\ Len(FreshAll) = 4 /\ FreshAll # <<>>
  /\ FreshAll[1] = "unlock" /\ FreshAll[2] = "toggle" /\ FreshAll[3] = "toggleBack" /\ FreshAll[4] = "modprobe"
  BY Items DEF FreshAll

\* A controller that has ended is in the middle of nothing.
LEMMA EndedIsNotMidway ==
  ASSUME IInv, ctl \in {"gone", "dead"}
  PROVE  ~Midway
  BY DEF IInv, CallsInOrder, Midway, First

\* FinalRestore stands down or begins its own restore.
LEMMA DropFinalRestoreOK == ASSUME IInv, DropFinalRestore PROVE IInv'
<1> USE DEF IInv
<1>1. TypeOK'
  <2>1. main' \in {"exited", "restoring"} /\ mainWork' \in Seq(Calls) /\ Len(mainWork') <= Len(FreshAll)
    <3>1. mainWork' = mainWork \/ mainWork' = FreshAll
      BY DEF DropFinalRestore
    <3>2. main' \in {"exited", "restoring"}
      BY DEF DropFinalRestore
    <3>3. Len(FreshAll) <= Len(FreshAll)
      BY FreshCalls
    <3> QED BY <3>1, <3>2, <3>3, FreshCalls DEF TypeOK
  <2> QED BY <2>1 DEF TypeOK, DropFinalRestore, ctlVars, chanVars, hwVars
<1>2. CallsInOrder' /\ LeavingRestores' /\ ToggleUncaps'
  BY CallsFrame, LeavingFrame, ToggleFrame DEF DropFinalRestore, hwVars
<1>3. ProfileKept'
  <2>1. Midway' = Midway
    BY DEF Midway, DropFinalRestore, ctlVars
  <2>2. joined => ~Midway
    BY EndedIsNotMidway DEF EndedRestored
  <2>3. joined /\ "profile" \notin owed => profile = UserProfile
    BY <2>2 DEF ProfileKept, DropFinalRestore
  <2>4. main' = "restoring" => ~First(mainWork', {"toggleBack"})
    BY FreshCalls DEF DropFinalRestore, First
  <2> QED BY <2>1, <2>3, <2>4 DEF ProfileKept, DropFinalRestore, hwVars
<1>4. EndedRestored'
  <2>1. /\ ctl' \in {"gone", "dead"} => caps' \subseteq owed'
        /\ restored' => ctl' = "gone"
        /\ joined' => ctl' \in {"gone", "dead"} /\ main' \notin {"running", "panicking", "joining"}
    BY DEF EndedRestored, DropFinalRestore, ctlVars, hwVars
  <2>2. main' = "restoring" => mainWork' = FreshAll
    BY DEF DropFinalRestore
  <2>4. ASSUME main' = "restoring"
        PROVE  Len(mainWork') <= 4 /\ \A j \in 1 .. Len(mainWork') : mainWork'[j] = FreshAll[4 - Len(mainWork') + j]
    <3>1. Len(mainWork') = 4
      BY <2>2, <2>4, FreshCalls
    <3>2. ASSUME NEW j \in 1 .. 4 PROVE mainWork'[j] = FreshAll[4 - Len(mainWork') + j]
      <4>1. 4 - Len(mainWork') + j = j
        BY <3>1
      <4> QED BY <2>2, <2>4, <4>1
    <3> QED BY <3>1, <3>2
  <2> QED BY <2>1, <2>4 DEF EndedRestored
<1>5. QuitIsFenced'
  BY DEF QuitIsFenced, DropFinalRestore, chanVars
<1>6. WorkIsBounded'
  BY BoundFrame DEF DropFinalRestore, hwVars
<1> QED BY <1>1, <1>2, <1>3, <1>4, <1>5, <1>6

\* What a call that succeeds does to the hardware.
LEMMA LandsOK ==
  ASSUME IInv, ~TogglesIgnored, NEW c \in Calls, NEW who \in {"main", "controller"}, Lands(c, who)
  PROVE  /\ caps' \subseteq {"cpu", "gpu"} /\ profile' \in Profiles /\ armed' \in BOOLEAN
         /\ saved' \in [{"main", "controller"} -> Profiles] /\ owed' \subseteq {"cpu", "gpu", "profile"}
         /\ "profile" \in owed' <=> "profile" \in owed
         /\ c \notin CapWrites \cup GpuLocks => caps' \subseteq caps /\ caps' \cap owed \subseteq owed'
         /\ c \notin {"toggle", "toggleBack"} => profile' = profile /\ saved' = saved
         /\ c = "toggle" => caps' = caps \ {"cpu"} /\ saved'[who] = profile
         /\ c = "toggleBack" => caps' = caps \ {"cpu"} /\ profile' = saved[who]
         /\ c = "unlock" => caps' = caps \ {"gpu"}
         /\ c \notin CapWrites \cup {"check", "recheck"} => armed' = armed
         /\ c = "check" => armed' = (armed /\ "cpu" \in caps)
<1>1. /\ caps \subseteq {"cpu", "gpu"} /\ profile \in Profiles /\ armed \in BOOLEAN
      /\ saved \in [{"main", "controller"} -> Profiles] /\ owed \subseteq {"cpu", "gpu", "profile"}
      /\ UserProfile \in Profiles
  BY ShutdownAssumption DEF IInv, TypeOK, ShutdownAssumption
<1>2. CASE c \in CapWrites
  BY <1>1, <1>2 DEF Lands, CapWrites, Capped
<1>3. CASE c \in GpuLocks
  BY <1>1, <1>3 DEF Lands, CapWrites, GpuLocks, Capped
<1>4. CASE c = "unlock"
  BY <1>1, <1>4 DEF Lands, CapWrites, GpuLocks, Uncapped
<1>5. CASE c = "toggle"
  BY <1>1, <1>5 DEF Lands, CapWrites, GpuLocks, ToggleBy, AfterChange, Intermediate, Profiles
<1>6. CASE c = "toggleBack"
  BY <1>1, <1>6 DEF Lands, CapWrites, GpuLocks, ToggleBackBy, AfterChange, Forget
<1>7. CASE c \in {"check", "recheck"}
  BY <1>1, <1>7 DEF Lands, CapWrites, GpuLocks
<1>8. CASE c \in {"verify", "look", "confirm", "inspect", "modprobe"}
  BY <1>1, <1>8 DEF Lands, CapWrites, GpuLocks, hwVars
<1> QED BY <1>2, <1>3, <1>4, <1>5, <1>6, <1>7, <1>8 DEF Calls, Commands, Reads, NvmlCalls

\* What a call that fails does to it: nothing it was to take off comes off,
\* but that is owed then.
LEMMA FailsOK ==
  ASSUME IInv, NEW c \in Calls, NEW who \in {"main", "controller"}, Fails(c, who)
  PROVE  /\ caps' \subseteq {"cpu", "gpu"} /\ profile' = profile /\ armed' \in BOOLEAN
         /\ saved' \in [{"main", "controller"} -> Profiles] /\ owed' \subseteq {"cpu", "gpu", "profile"}
         /\ "profile" \in owed => "profile" \in owed'
         /\ c \notin CapWrites => caps' = caps /\ owed \subseteq owed'
         /\ c # "toggleBack" => saved' = saved
         /\ c = "toggleBack" => "profile" \in owed'
         /\ c = "toggle" => caps \cap {"cpu"} \subseteq owed'
         /\ c = "unlock" => caps \cap {"gpu"} \subseteq owed'
         /\ c \in {"check", "recheck"} => ~armed'
         /\ c \notin {"check", "recheck"} => armed' = armed
<1>1. /\ caps \subseteq {"cpu", "gpu"} /\ profile \in Profiles /\ armed \in BOOLEAN
      /\ saved \in [{"main", "controller"} -> Profiles] /\ owed \subseteq {"cpu", "gpu", "profile"}
      /\ UserProfile \in Profiles
  BY ShutdownAssumption DEF IInv, TypeOK, ShutdownAssumption
<1>2. CASE c \in CapWrites
  BY <1>1, <1>2 DEF Fails, CapWrites, Capped
<1>3. CASE c = "unlock"
  BY <1>1, <1>3 DEF Fails, CapWrites
<1>4. CASE c = "toggle"
  BY <1>1, <1>4 DEF Fails, CapWrites
<1>5. CASE c = "toggleBack"
  BY <1>1, <1>5 DEF Fails, CapWrites, Forget
<1>6. CASE c \in {"check", "recheck"}
  BY <1>1, <1>6 DEF Fails, CapWrites
<1>7. CASE c \in {"verify", "look", "confirm", "inspect", "modprobe", "lock", "relock"}
  BY <1>1, <1>7 DEF Fails, CapWrites, hwVars
<1> QED BY <1>2, <1>3, <1>4, <1>5, <1>6, <1>7 DEF Calls, Commands, Reads, NvmlCalls, GpuLocks

\* What is left of a list of n calls, when some of them are done.
LeftOf(w, L, n) == Len(w) <= n /\ \A j \in 1 .. Len(w) : w[j] = L[n - Len(w) + j]

\* Taking the first call away leaves a rest of the same list.
LEMMA TailIsLeft ==
  ASSUME NEW S, NEW w \in Seq(S), w # <<>>, NEW L, NEW n \in Nat, LeftOf(w, L, n)
  PROVE  /\ Tail(w) \in Seq(S) /\ Len(w) \in Nat \ {0} /\ Len(Tail(w)) = Len(w) - 1 /\ LeftOf(Tail(w), L, n)
         /\ Head(w) = w[1] /\ w[1] = L[n - Len(w) + 1] /\ \A i \in 1 .. Len(Tail(w)) : Tail(w)[i] = w[i + 1]
<1>1. /\ Tail(w) \in Seq(S) /\ Len(w) \in Nat \ {0} /\ Len(Tail(w)) = Len(w) - 1
      /\ Head(w) = w[1] /\ \A i \in 1 .. Len(Tail(w)) : Tail(w)[i] = w[i + 1]
  BY EmptySeq, HeadTailProperties
<1>2. ASSUME NEW j \in 1 .. Len(Tail(w)) PROVE Tail(w)[j] = L[n - Len(Tail(w)) + j]
  <2>1. j + 1 \in 1 .. Len(w) /\ n - Len(w) + (j + 1) = n - Len(Tail(w)) + j
    BY <1>1
  <2>2. w[j + 1] = L[n - Len(w) + (j + 1)]
    BY <2>1 DEF LeftOf
  <2> QED BY <1>1, <2>1, <2>2
<1>3. 1 \in 1 .. Len(w) /\ Len(Tail(w)) <= n
  BY <1>1 DEF LeftOf
<1> QED BY <1>1, <1>2, <1>3 DEF LeftOf

\* So does skipping it.
LEMMA SkipIsLeft ==
  ASSUME NEW S, NEW w \in Seq(S), NEW X, NEW L, NEW n \in Nat, LeftOf(w, L, n)
  PROVE  /\ Skip(w, X) \in Seq(S) /\ Len(w) \in Nat /\ Len(Skip(w, X)) \in Nat /\ Len(Skip(w, X)) <= Len(w)
         /\ LeftOf(Skip(w, X), L, n)
         /\ First(w, X) => Len(Skip(w, X)) = Len(w) - 1
<1>0. Len(w) \in Nat
  BY LenProperties
<1>1. CASE w = <<>>
  BY <1>0, <1>1 DEF Skip, First
<1>2. CASE w # <<>>
  <2>1. /\ Tail(w) \in Seq(S) /\ Len(w) \in Nat \ {0} /\ Len(Tail(w)) = Len(w) - 1 /\ LeftOf(Tail(w), L, n)
        /\ Head(w) = w[1]
    BY <1>2, TailIsLeft
  <2>2. CASE w[1] \in X
    <3>1. Skip(w, X) = Tail(w)
      BY <1>2, <2>1, <2>2 DEF Skip
    <3> QED BY <2>1, <3>1
  <2>3. CASE w[1] \notin X
    <3>1. Skip(w, X) = w /\ ~First(w, X)
      BY <2>1, <2>3 DEF Skip, First
    <3> QED BY <1>0, <3>1
  <2> QED BY <2>2, <2>3
<1> QED BY <1>1, <1>2

\* A call of the fresh guard: who has ended left no cap but what it owes, and
\* the profile is in force again when the guard is through, or owed.
LEMMA RestoreFreshOK == ASSUME IInv, ~TogglesIgnored, RestoreFresh PROVE IInv'
<1> USE DEF IInv
<1> DEFINE c == mainWork[1]
           t == Tail(mainWork)
<1>1. /\ mainWork \in Seq(Calls) /\ Len(mainWork) \in Nat /\ LeftOf(mainWork, FreshAll, 4) /\ main = "restoring"
  BY LenProperties DEF TypeOK, RestoreFresh, EndedRestored, LeftOf
<1>2. UNCHANGED <<joined, ctlVars, chanVars, fence, restored, hung, late>>
  BY DEF RestoreFresh
<1>3. CASE mainWork = <<>>
  <2>1. main' = "exited" /\ mainWork' = mainWork /\ UNCHANGED hwVars
    BY <1>3 DEF RestoreFresh
  <2>2. TypeOK'
    BY <1>2, <2>1 DEF TypeOK, ctlVars, chanVars, hwVars
  <2>3. CallsInOrder' /\ LeavingRestores' /\ ToggleUncaps'
    BY <1>2, <2>1, CallsFrame, LeavingFrame, ToggleFrame DEF hwVars
  <2>4. ProfileKept'
    BY <1>1, <1>2, <1>3, <2>1 DEF ProfileKept, First, hwVars
  <2>5. EndedRestored' /\ QuitIsFenced'
    BY <1>1, <1>2, <2>1 DEF EndedRestored, QuitIsFenced, ctlVars, chanVars, hwVars
  <2>6. WorkIsBounded'
    BY <1>2, <2>1, BoundFrame DEF hwVars
  <2> QED BY <2>2, <2>3, <2>4, <2>5, <2>6
<1>4. CASE mainWork # <<>>
  <2>1. /\ t \in Seq(Calls) /\ Len(mainWork) \in Nat \ {0} /\ Len(t) = Len(mainWork) - 1 /\ LeftOf(t, FreshAll, 4)
        /\ Head(mainWork) = c /\ c = FreshAll[5 - Len(mainWork)] /\ Len(mainWork) <= 4
        /\ \A i \in 1 .. Len(t) : t[i] = mainWork[i + 1]
    <3>1. /\ t \in Seq(Calls) /\ Len(mainWork) \in Nat \ {0} /\ Len(t) = Len(mainWork) - 1 /\ LeftOf(t, FreshAll, 4)
          /\ Head(mainWork) = c /\ c = FreshAll[4 - Len(mainWork) + 1]
          /\ \A i \in 1 .. Len(t) : t[i] = mainWork[i + 1]
      BY <1>1, <1>4, TailIsLeft
    <3>2. 4 - Len(mainWork) + 1 = 5 - Len(mainWork)
      BY <3>1
    <3> QED BY <1>1, <3>1, <3>2 DEF LeftOf
  <2> HIDE DEF c, t
  <2>2. \/ Lands(c, "main") /\ mainWork' = t
        \/ Fails(c, "main") /\ mainWork' = Abandoned(t)
    BY <1>4, <2>1 DEF RestoreFresh, t
  <2>3. main' = main
    BY <1>4 DEF RestoreFresh
  <2>4. \/ Len(mainWork) = 4 /\ c = "unlock"
        \/ Len(mainWork) = 3 /\ c = "toggle"
        \/ Len(mainWork) = 2 /\ c = "toggleBack"
        \/ Len(mainWork) = 1 /\ c = "modprobe"
    <3>1. \A n \in Nat \ {0} : n <= 4 => n = 1 \/ n = 2 \/ n = 3 \/ n = 4
      OBVIOUS
    <3>2. Len(mainWork) = 1 \/ Len(mainWork) = 2 \/ Len(mainWork) = 3 \/ Len(mainWork) = 4
      BY <2>1, <3>1
    <3>3. CASE Len(mainWork) = 1
      <4>1. c = FreshAll[5 - Len(mainWork)] /\ 5 - Len(mainWork) = 4
        BY <2>1, <3>3
      <4>2. c = FreshAll[4]
        BY <4>1
      <4>3. c = "modprobe"
        BY <4>2, FreshCalls
      <4> QED BY <3>3, <4>3
    <3>4. CASE Len(mainWork) = 2
      <4>1. c = FreshAll[5 - Len(mainWork)] /\ 5 - Len(mainWork) = 3
        BY <2>1, <3>4
      <4>2. c = FreshAll[3]
        BY <4>1
      <4>3. c = "toggleBack"
        BY <4>2, FreshCalls
      <4> QED BY <3>4, <4>3
    <3>5. CASE Len(mainWork) = 3
      <4>1. c = FreshAll[5 - Len(mainWork)] /\ 5 - Len(mainWork) = 2
        BY <2>1, <3>5
      <4>2. c = FreshAll[2]
        BY <4>1
      <4>3. c = "toggle"
        BY <4>2, FreshCalls
      <4> QED BY <3>5, <4>3
    <3>6. CASE Len(mainWork) = 4
      <4>1. c = FreshAll[5 - Len(mainWork)] /\ 5 - Len(mainWork) = 1
        BY <2>1, <3>6
      <4>2. c = FreshAll[1]
        BY <4>1
      <4>3. c = "unlock"
        BY <4>2, FreshCalls
      <4> QED BY <3>6, <4>3
    <3> QED BY <3>2, <3>3, <3>4, <3>5, <3>6
  <2>17. /\ c = "unlock" => Len(t) = 3 /\ t # <<>> /\ Head(t) = "toggle"
         /\ c = "toggle" => Len(t) = 2 /\ First(t, {"toggleBack"})
         /\ c \notin {"unlock", "toggle"} => Len(t) <= 1
    <3>1. \A n \in Nat \ {0} : (n = 4 => n - 1 = 3) /\ (n = 3 => n - 1 = 2) /\ (n <= 2 => n - 1 <= 1)
      OBVIOUS
    <3>2. CASE c = "unlock"
      <4>1. Len(mainWork) = 4
        BY <2>4, <3>2
      <4>2. Len(t) = 3
        BY <2>1, <3>1, <4>1
      <4>3. t # <<>> /\ 4 - Len(t) + 1 = 2
        <5>1. 4 - Len(t) + 1 = 2 /\ Len(t) # 0
          BY <4>2
        <5> QED BY <2>1, <5>1, EmptySeq
      <4>4. Head(t) = FreshAll[4 - Len(t) + 1]
        BY <2>1, <4>3, TailIsLeft
      <4> QED BY <3>2, <4>2, <4>3, <4>4, FreshCalls
    <3>3. CASE c = "toggle"
      <4>1. Len(mainWork) = 3
        BY <2>4, <3>3
      <4>2. Len(t) = 2
        BY <2>1, <3>1, <4>1
      <4>3. t # <<>> /\ 4 - Len(t) + 1 = 3
        <5>1. 4 - Len(t) + 1 = 3 /\ Len(t) # 0
          BY <4>2
        <5> QED BY <2>1, <5>1, EmptySeq
      <4>4. t[1] = FreshAll[4 - Len(t) + 1]
        BY <2>1, <4>3, TailIsLeft
      <4> QED BY <3>3, <4>2, <4>3, <4>4, FreshCalls DEF First
    <3>4. CASE c \notin {"unlock", "toggle"}
      <4>1. Len(mainWork) = 2 \/ Len(mainWork) = 1
        BY <2>4, <3>4
      <4> QED BY <2>1, <3>4, <4>1
    <3> QED BY <3>2, <3>3, <3>4
  <2>5. c \in Calls /\ c \notin CapWrites \cup GpuLocks \cup {"check", "recheck"}
    BY <2>4, Items DEF CapWrites, GpuLocks
  <2>6. /\ caps' \subseteq caps /\ caps' \cap owed \subseteq owed' /\ armed' = armed
        /\ owed' \subseteq {"cpu", "gpu", "profile"} /\ profile' \in Profiles
        /\ saved' \in [{"main", "controller"} -> Profiles] /\ ("profile" \in owed => "profile" \in owed')
    <3>1. CASE Lands(c, "main")
      BY <2>5, <3>1, LandsOK
    <3>2. CASE Fails(c, "main")
      BY <2>5, <3>2, FailsOK DEF TypeOK
    <3> QED BY <2>2, <3>1, <3>2
  <2>7. PICK x : x = Skip(t, {"toggleBack"})
    OBVIOUS
  <2>8. x \in Seq(Calls) /\ Len(x) \in Nat /\ Len(x) <= Len(t) /\ LeftOf(x, FreshAll, 4)
        /\ (First(t, {"toggleBack"}) => Len(x) = Len(t) - 1)
    BY <2>1, <2>7, SkipIsLeft
  <2>9. /\ Abandoned(t) \in Seq(Calls) /\ Len(Abandoned(t)) \in Nat /\ LeftOf(Abandoned(t), FreshAll, 4)
        /\ Len(Abandoned(t)) <= Len(x)
    <3>1. Abandoned(t) = Skip(x, {"check", "recheck"})
      BY <2>7 DEF Abandoned
    <3>2. /\ Skip(x, {"check", "recheck"}) \in Seq(Calls) /\ Len(Skip(x, {"check", "recheck"})) \in Nat
          /\ LeftOf(Skip(x, {"check", "recheck"}), FreshAll, 4) /\ Len(Skip(x, {"check", "recheck"})) <= Len(x)
      BY <2>8, SkipIsLeft
    <3> QED BY <3>1, <3>2
  <2>10. mainWork' \in Seq(Calls) /\ Len(mainWork') \in Nat /\ LeftOf(mainWork', FreshAll, 4)
    BY <2>1, <2>2, <2>9
  <2>11. TypeOK'
    <3>1. Len(mainWork') <= Len(FreshAll)
      BY <2>10, FreshCalls DEF LeftOf
    <3> QED BY <1>2, <2>3, <2>6, <2>10, <3>1 DEF TypeOK, ctlVars, chanVars
  <2>12. CallsInOrder' /\ LeavingRestores' /\ ToggleUncaps'
    BY <1>2, <2>6, CallsFrame, LeavingFrame, ToggleFrame
  <2>13. ProfileKept'
    <3> SUFFICES ASSUME joined, "profile" \notin owed'
                 PROVE  IF First(mainWork', {"toggleBack"})
                        THEN saved'["main"] = UserProfile ELSE profile' = UserProfile
      BY <1>1, <1>2, <2>3 DEF ProfileKept
    <3>1. IF First(mainWork, {"toggleBack"}) THEN saved["main"] = UserProfile ELSE profile = UserProfile
      BY <1>1, <1>2, <2>6 DEF ProfileKept
    <3>2. First(mainWork, {"toggleBack"}) <=> c = "toggleBack"
      BY <1>4 DEF First, c
    <3>3. ASSUME NEW w \in Seq(Calls), LeftOf(w, FreshAll, 4), Len(w) # 2 PROVE ~First(w, {"toggleBack"})
      <4> SUFFICES ASSUME w # <<>> PROVE w[1] # "toggleBack"
        BY DEF First
      <4>1. Len(w) \in Nat \ {0} /\ Len(w) <= 4 /\ w[1] = FreshAll[4 - Len(w) + 1]
        BY <3>3, TailIsLeft DEF LeftOf
      <4>2. \A n \in Nat \ {0} : n <= 4 /\ n # 2 => 4 - n + 1 = 4 \/ 4 - n + 1 = 2 \/ 4 - n + 1 = 1
        OBVIOUS
      <4>3. 4 - Len(w) + 1 = 4 \/ 4 - Len(w) + 1 = 2 \/ 4 - Len(w) + 1 = 1
        BY <3>3, <4>1, <4>2
      <4> QED BY <4>1, <4>3, FreshCalls
    <3>4. CASE Fails(c, "main") /\ mainWork' = Abandoned(t)
      <4>1. c # "toggleBack" /\ profile' = profile
        BY <2>5, <3>4, FailsOK
      <4>2. Len(mainWork') # 2
        <5>1. CASE c = "toggle"
          <6>1. Len(t) = 2 /\ Len(x) = Len(t) - 1
            BY <2>8, <2>17, <5>1
          <6>2. Len(mainWork') <= Len(x) /\ Len(x) = 1
            BY <2>9, <3>4, <6>1
          <6> QED BY <2>10, <6>2
        <5>2. CASE c = "unlock"
          <6>1. Len(t) = 3 /\ t # <<>> /\ Head(t) = "toggle"
            BY <2>17, <5>2
          <6>2. Abandoned(t) = t
            BY <6>1 DEF Abandoned, Skip
          <6>3. mainWork' = t /\ Len(t) # 2
            BY <3>4, <6>1, <6>2
          <6> QED BY <6>3
        <5>3. CASE c \notin {"unlock", "toggle"}
          <6>1. Len(t) <= 1 /\ Len(mainWork') <= Len(x)
            BY <2>9, <2>17, <3>4, <5>3
          <6>2. Len(t) \in Nat /\ Len(x) \in Nat /\ Len(x) <= Len(t) /\ Len(mainWork') \in Nat
            BY <2>1, <2>8, <2>10, LenProperties
          <6> QED BY <6>1, <6>2
        <5> QED BY <5>1, <5>2, <5>3
      <4>3. ~First(mainWork', {"toggleBack"})
        BY <2>10, <3>3, <4>2
      <4> QED BY <3>1, <3>2, <4>1, <4>3
    <3>5. CASE Lands(c, "main") /\ mainWork' = t
      <4>1. CASE c = "toggle"
        <5>1. First(t, {"toggleBack"})
          BY <2>17, <4>1
        <5>2. saved'["main"] = profile /\ profile = UserProfile
          BY <2>5, <3>1, <3>2, <3>5, <4>1, LandsOK
        <5> QED BY <3>5, <5>1, <5>2
      <4>2. CASE c # "toggle"
        <5>1. Len(t) # 2
          BY <2>1, <2>17, <4>2
        <5>2. ~First(mainWork', {"toggleBack"})
          BY <2>1, <3>3, <3>5, <5>1
        <5>3. CASE c = "toggleBack"
          <6>1. profile' = saved["main"] /\ saved["main"] = UserProfile
            BY <2>5, <3>1, <3>2, <3>5, <5>3, LandsOK
          <6> QED BY <5>2, <6>1
        <5>4. CASE c # "toggleBack"
          <6>1. profile' = profile /\ profile = UserProfile
            BY <2>5, <3>1, <3>2, <3>5, <4>2, <5>4, LandsOK
          <6> QED BY <5>2, <6>1
        <5> QED BY <5>3, <5>4
      <4> QED BY <4>1, <4>2
    <3> QED BY <2>2, <3>4, <3>5
  <2>14. EndedRestored'
    <3>1. /\ ctl' \in {"gone", "dead"} => caps' \subseteq owed'
          /\ restored' => ctl' = "gone"
          /\ joined' => ctl' \in {"gone", "dead"} /\ main' \notin {"running", "panicking", "joining"}
      BY <1>2, <2>3, <2>6 DEF EndedRestored, ctlVars
    <3> QED BY <2>10, <3>1 DEF EndedRestored, LeftOf
  <2>15. QuitIsFenced'
    BY <1>1, <1>2, <2>3 DEF QuitIsFenced, chanVars
  <2>16. WorkIsBounded'
    BY <1>2, <2>6, BoundFrame
  <2> QED BY <2>11, <2>12, <2>13, <2>14, <2>15, <2>16
<1> QED BY <1>3, <1>4

-----------------------------------------------------------------------------
(* The steps of the controller.                                            *)

\* A controller that acts has not ended, and main has not joined it.
LEMMA ActingIsNotEnded ==
  ASSUME IInv, ctl \notin {"gone", "dead"}
  PROVE  ~joined /\ ~restored
  BY DEF IInv, EndedRestored

\* A step that does not end the controller.
LEMMA EndedFrame ==
  ASSUME IInv, ctl \notin {"gone", "dead"}, ctl' \notin {"gone", "dead"}, UNCHANGED <<mainVars, restored>>
  PROVE  EndedRestored'
<1>1. ~joined' /\ ~restored' /\ main' = main /\ mainWork' = mainWork
  BY ActingIsNotEnded DEF mainVars
<1> QED BY <1>1 DEF IInv, EndedRestored

\* A step that does not touch the profile.
LEMMA ProfileFrame ==
  ASSUME IInv, ctl \notin {"gone", "dead"}, UNCHANGED <<mainVars, profile, saved, owed>>, Midway' <=> Midway
  PROVE  ProfileKept'
<1>1. ~joined' /\ main' = main
  BY ActingIsNotEnded DEF mainVars
<1> QED BY <1>1 DEF IInv, ProfileKept

ReadLeft  == call \in CapWrites \/ First(work, PlainReads)
CheckLeft == call \in CapWrites \/ (armed /\ call # "check")
ResetLeft == ctl \in {"select", "serving"} \/ (ctl \in {"leaving", "unwinding"} /\ work # <<>>)

\* The commands left, counted.
LEMMA LeftIs ==
  CommandsLeft = (IF ReadLeft THEN 1 ELSE 0) + (IF CheckLeft THEN 1 ELSE 0) + (IF ResetLeft THEN 1 ELSE 0)
  BY DEF CommandsLeft, One, ReadLeft, CheckLeft, ResetLeft

\* A step that begins no command leaves no more of them to come.
LEMMA NoMoreLeft ==
  ASSUME IInv, UNCHANGED <<late, fence>>, fence => (ReadLeft' => ReadLeft),
         fence => (CheckLeft' => CheckLeft), fence => (ResetLeft' => ResetLeft)
  PROVE  WorkIsBounded'
<1> SUFFICES ASSUME fence PROVE late + CommandsLeft' <= 4
  BY DEF WorkIsBounded
<1>1. late + CommandsLeft <= 4 /\ late \in Nat
  BY DEF IInv, WorkIsBounded, TypeOK
<1>2. CommandsLeft' = (IF ReadLeft' THEN 1 ELSE 0) + (IF CheckLeft' THEN 1 ELSE 0) + (IF ResetLeft' THEN 1 ELSE 0)
  BY LeftIs DEF CommandsLeft, One, ReadLeft, CheckLeft, ResetLeft
<1>3. PICK r \in {0, 1}, c \in {0, 1}, e \in {0, 1} :
        /\ r = (IF ReadLeft THEN 1 ELSE 0) /\ c = (IF CheckLeft THEN 1 ELSE 0) /\ e = (IF ResetLeft THEN 1 ELSE 0)
  OBVIOUS
<1>4. PICK r1 \in {0, 1}, c1 \in {0, 1}, e1 \in {0, 1} :
        /\ r1 = (IF ReadLeft' THEN 1 ELSE 0) /\ c1 = (IF CheckLeft' THEN 1 ELSE 0)
        /\ e1 = (IF ResetLeft' THEN 1 ELSE 0)
  OBVIOUS
<1>5. r1 <= r /\ c1 <= c /\ e1 <= e
  BY <1>3, <1>4
<1>6. CommandsLeft = r + c + e /\ CommandsLeft' = r1 + c1 + e1
  BY <1>2, <1>3, <1>4, LeftIs
<1>7. r1 + c1 + e1 <= r + c + e
  BY <1>5
<1> QED BY <1>1, <1>6, <1>7

\* One that begins a command leaves one less.
LEMMA OneLessLeft ==
  ASSUME IInv, late' = late + 1, UNCHANGED fence, ReadLeft' => ReadLeft, CheckLeft' => CheckLeft, ResetLeft' => ResetLeft,
         (ReadLeft /\ ~ReadLeft') \/ (CheckLeft /\ ~CheckLeft') \/ (ResetLeft /\ ~ResetLeft')
  PROVE  WorkIsBounded'
<1> SUFFICES ASSUME fence PROVE late' + CommandsLeft' <= 4
  BY DEF WorkIsBounded
<1>1. late + CommandsLeft <= 4 /\ late \in Nat
  BY DEF IInv, WorkIsBounded, TypeOK
<1>2. CommandsLeft' = (IF ReadLeft' THEN 1 ELSE 0) + (IF CheckLeft' THEN 1 ELSE 0) + (IF ResetLeft' THEN 1 ELSE 0)
  BY LeftIs DEF CommandsLeft, One, ReadLeft, CheckLeft, ResetLeft
<1>3. PICK r \in {0, 1}, c \in {0, 1}, e \in {0, 1} :
        /\ r = (IF ReadLeft THEN 1 ELSE 0) /\ c = (IF CheckLeft THEN 1 ELSE 0) /\ e = (IF ResetLeft THEN 1 ELSE 0)
  OBVIOUS
<1>4. PICK r1 \in {0, 1}, c1 \in {0, 1}, e1 \in {0, 1} :
        /\ r1 = (IF ReadLeft' THEN 1 ELSE 0) /\ c1 = (IF CheckLeft' THEN 1 ELSE 0)
        /\ e1 = (IF ResetLeft' THEN 1 ELSE 0)
  OBVIOUS
<1>5. r1 <= r /\ c1 <= c /\ e1 <= e /\ (r1 < r \/ c1 < c \/ e1 < e)
  BY <1>3, <1>4
<1>6. CommandsLeft = r + c + e /\ CommandsLeft' = r1 + c1 + e1
  BY <1>2, <1>3, <1>4, LeftIs
<1>7. r1 + c1 + e1 + 1 <= r + c + e
  BY <1>5
<1> QED BY <1>1, <1>6, <1>7

\* A handler that begins, the restore of a controller that leaves included.
LEMMA StartOK ==
  ASSUME IInv, call = "none", ctl \in {"select", "serving"}, ~Midway,
         call' = call, Fresh(work'), ctl' \in {"serving", "leaving", "unwinding"}, mode' \in Modes,
         ctl' = "serving" => Unreset(work'),
         ctl' # "serving" => work' = RestoreAll \/ (work' = LastCalls /\ fence),
         UNCHANGED <<mainVars, connected, sampler, hwVars, fence, restored, hung, late>>,
         samples' \in 0 .. MaxSamples, inbox' \in Seq({"set", "quit"}), Len(inbox') <= Len(inbox),
         \A i \in 1 .. Len(inbox') : \E j \in 1 .. Len(inbox) : inbox'[i] = inbox[j]
  PROVE  IInv'
<1> USE DEF IInv
<1>1. /\ work' \in Seq(Item) /\ WellOrdered(work') /\ Len(work') <= 9 /\ Len(work') \in Nat
      /\ ~First(work', PlainReads) /\ ~First(work', {"toggleBack", "check"}) /\ ~First(work', {"toggleBack"})
  BY Short, LenProperties DEF Fresh, First
<1>2. Len(inbox) \in Nat /\ Len(inbox') \in Nat /\ MaxInbox \in Nat
  BY LenProperties, ShutdownAssumption DEF TypeOK, ShutdownAssumption
<1>3. TypeOK'
  <2>1. work' \in Seq(Calls \cup {"assert"}) /\ Len(work') <= 10
    BY <1>1 DEF Item
  <2>2. Len(inbox') <= MaxInbox + 1
    BY <1>2 DEF TypeOK
  <2> QED BY <2>1, <2>2 DEF TypeOK, mainVars, hwVars
<1>4. CallsInOrder'
  BY <1>1 DEF CallsInOrder, Unreset
<1>5. LeavingRestores'
  <2>1. CASE ctl' = "serving"
    BY <2>1 DEF LeavingRestores
  <2>2. CASE ctl' # "serving" /\ work' = RestoreAll
    <3>1. Len(work') = 5 /\ \A j \in 1 .. 5 : work'[j] = LastCalls[2 + j]
      <4>1. /\ work'[1] = LastCalls[3] /\ work'[2] = LastCalls[4] /\ work'[3] = LastCalls[5]
            /\ work'[4] = LastCalls[6] /\ work'[5] = LastCalls[7]
        BY <2>2, Lists
      <4>2. Len(work') = 5
        BY <2>2, RestoringIsFresh
      <4>3. \A j \in 1 .. 5 : j = 1 \/ j = 2 \/ j = 3 \/ j = 4 \/ j = 5
        OBVIOUS
      <4> QED BY <4>1, <4>2, <4>3
    <3>2. 7 - Len(work') = 2
      BY <3>1
    <3> QED BY <3>1, <3>2 DEF LeavingRestores
  <2>3. CASE ctl' # "serving" /\ work' = LastCalls /\ fence
    <3>1. Len(work') = 7
      BY <2>3, RestoringIsFresh
    <3>2. \A j \in 1 .. 7 : 7 - Len(work') + j = j
      BY <3>1
    <3>3. \A j \in 1 .. Len(work') : work'[j] = LastCalls[7 - Len(work') + j]
      BY <2>3, <3>1, <3>2
    <3> QED BY <2>3, <3>1, <3>3 DEF LeavingRestores
  <2> QED BY <2>1, <2>2, <2>3
<1>6. ToggleUncaps'
  BY <1>1 DEF ToggleUncaps
<1>7. ProfileKept'
  <2>1. ~Midway'
    BY <1>1 DEF Midway
  <2> QED BY <2>1, ProfileFrame DEF hwVars
<1>8. EndedRestored'
  BY EndedFrame
<1>9. QuitIsFenced'
  <2>1. main' = main
    BY DEF mainVars
  <2> QED BY <1>2, <2>1 DEF QuitIsFenced
<1>10. WorkIsBounded'
  BY <1>1, NoMoreLeft DEF ReadLeft, CheckLeft, ResetLeft, hwVars
<1> QED BY <1>3, <1>4, <1>5, <1>6, <1>7, <1>8, <1>9, <1>10

\* A controller between handlers is in no call.
LEMMA Idle ==
  ASSUME IInv, ctl = "select"
  PROVE  call = "none" /\ work = <<>> /\ ~Midway
  BY DEF IInv, CallsInOrder, Midway, First

\* A sample starts a handler, or is dropped behind the fence.
LEMMA TakeSampleOK == ASSUME IInv, TakeSample PROVE IInv'
<1>1. ctl = "select" /\ call = "none" /\ ~Midway
  BY Idle DEF TakeSample
<1>2. samples' \in 0 .. MaxSamples
  BY ShutdownAssumption DEF IInv, TypeOK, TakeSample, ShutdownAssumption
<1>3. CASE fence
  <2>1. UNCHANGED ctlVars
    BY <1>3 DEF TakeSample
  <2>2. TypeOK'
    BY <1>2, <2>1 DEF IInv, TypeOK, TakeSample, mainVars, ctlVars, hwVars
  <2> QED BY <2>1, <2>2, MoveOK DEF TakeSample, mainVars
<1>4. CASE ~fence
  <2>1. mode \in Modes /\ mode' \in Modes /\ ctl' = "serving" /\ work' \in SampleWork(mode) /\ call' = call
    BY <1>4 DEF IInv, TypeOK, TakeSample
  <2>2. Fresh(work') /\ Unreset(work')
    BY <2>1, SampleIsFresh
  <2>3. /\ inbox' = inbox /\ inbox' \in Seq({"set", "quit"}) /\ Len(inbox') \in Nat
        /\ UNCHANGED <<mainVars, connected, sampler, hwVars, fence, restored, hung, late>>
    BY LenProperties DEF IInv, TypeOK, TakeSample
  <2>4. Len(inbox') <= Len(inbox) /\ \A i \in 1 .. Len(inbox') : \E j \in 1 .. Len(inbox) : inbox'[i] = inbox[j]
    BY <2>3
  <2> QED BY <1>1, <1>2, <2>1, <2>2, <2>3, <2>4, StartOK
<1> QED BY <1>3, <1>4

\* A command starts a handler, Quit the restore.
LEMMA TakeCommandOK == ASSUME IInv, TakeCommand PROVE IInv'
<1>1. ctl = "select" /\ call = "none" /\ ~Midway /\ call' = call
  BY Idle DEF TakeCommand
<1>2. /\ inbox \in Seq({"set", "quit"}) /\ inbox # <<>> /\ inbox' = Tail(inbox) /\ samples' \in 0 .. MaxSamples
      /\ UNCHANGED <<mainVars, connected, sampler, hwVars, fence, restored, hung, late>>
  BY DEF IInv, TypeOK, TakeCommand
<1>3. /\ inbox' \in Seq({"set", "quit"}) /\ Len(inbox') = Len(inbox) - 1 /\ Len(inbox) \in Nat \ {0}
      /\ \A i \in 1 .. Len(inbox') : inbox'[i] = inbox[i + 1]
      /\ Head(inbox) = inbox[1]
  BY <1>2, HeadTailProperties, EmptySeq
<1>4. Len(inbox') <= Len(inbox) /\ \A i \in 1 .. Len(inbox') : \E j \in 1 .. Len(inbox) : inbox'[i] = inbox[j]
  <2>1. \A i \in 1 .. Len(inbox') : i + 1 \in 1 .. Len(inbox)
    BY <1>3
  <2> QED BY <1>3, <2>1
<1>5. CASE ServeCommand
  <2>1. mode \in Modes /\ mode' \in Modes /\ ctl' = "serving" /\ work' \in CommandWork(mode)
    BY <1>5 DEF IInv, TypeOK, ServeCommand
  <2>2. Fresh(work') /\ Unreset(work')
    BY <2>1, CommandIsFresh
  <2> QED BY <1>1, <1>2, <1>3, <1>4, <2>1, <2>2, StartOK
<1>6. CASE ServeQuit
  <2>1. mode' \in Modes /\ ctl' = "leaving" /\ (work' = LastCalls \/ work' = RestoreAll)
    BY <1>6 DEF ServeQuit, LastCalls, Modes
  <2>2. Fresh(work')
    BY <2>1, RestoringIsFresh
  <2>3. fence
    <3>1. inbox[1] = "quit" /\ 1 \in 1 .. Len(inbox)
      BY <1>3, <1>6 DEF ServeQuit
    <3> QED BY <3>1 DEF IInv, QuitIsFenced
  <2> QED BY <1>1, <1>2, <1>3, <1>4, <2>1, <2>2, <2>3, StartOK
<1> QED BY <1>5, <1>6 DEF TakeCommand

\* A closed channel starts the restore.
LEMMA DisconnectedOK == ASSUME IInv, Disconnected PROVE IInv'
<1>1. ctl = "select" /\ call = "none" /\ ~Midway /\ call' = call
  BY Idle DEF Disconnected
<1>2. /\ ctl' = "leaving" /\ work' = RestoreAll /\ mode' \in Modes /\ samples' \in 0 .. MaxSamples
      /\ inbox' = inbox /\ inbox' \in Seq({"set", "quit"}) /\ Len(inbox') \in Nat
      /\ UNCHANGED <<mainVars, connected, sampler, hwVars, fence, restored, hung, late>>
  BY LenProperties DEF IInv, TypeOK, Disconnected, chanVars, Modes
<1>3. Len(inbox') <= Len(inbox) /\ \A i \in 1 .. Len(inbox') : \E j \in 1 .. Len(inbox) : inbox'[i] = inbox[j]
  BY <1>2
<1>4. Fresh(work')
  BY <1>2, RestoringIsFresh
<1> QED BY <1>1, <1>2, <1>3, <1>4, StartOK

\* The unwind of a panic starts the restore, but never between a toggle and
\* the way back.
LEMMA PanicControllerOK == ASSUME IInv, PanicController PROVE IInv'
<1>1. ctl \in {"select", "serving"} /\ call = "none" /\ call' = call
  BY DEF PanicController
<1>2. ~Midway
  <2>1. work # <<>> => Head(work) = work[1]
    BY Pop DEF IInv, TypeOK, CallsInOrder, Item
  <2> QED BY <1>1, <2>1 DEF PanicController, Midway, First
<1>3. /\ ctl' = "unwinding" /\ work' = RestoreAll /\ mode' \in Modes /\ samples' \in 0 .. MaxSamples
      /\ inbox' = inbox /\ inbox' \in Seq({"set", "quit"}) /\ Len(inbox') \in Nat
      /\ UNCHANGED <<mainVars, connected, sampler, hwVars, fence, restored, hung, late>>
  BY LenProperties DEF IInv, TypeOK, PanicController, chanVars, Modes
<1>4. Len(inbox') <= Len(inbox) /\ \A i \in 1 .. Len(inbox') : \E j \in 1 .. Len(inbox) : inbox'[i] = inbox[j]
  BY <1>3
<1>5. Fresh(work')
  BY <1>3, RestoringIsFresh
<1> QED BY <1>1, <1>2, <1>3, <1>4, <1>5, StartOK

\* The next call of a controller that leaves, and what is left after it.
LEMMA LeavingHead ==
  ASSUME IInv, ctl \in {"leaving", "unwinding"}, work # <<>>, call = "none"
  PROVE  /\ \/ Len(work) = 7 /\ work[1] = "setPlain" /\ fence
            \/ Len(work) = 6 /\ work[1] = "lock" /\ fence
            \/ Len(work) = 5 /\ work[1] = "unlock"
            \/ Len(work) = 4 /\ work[1] = "toggle"
            \/ Len(work) = 3 /\ work[1] = "toggleBack"
            \/ Len(work) = 2 /\ work[1] = "check"
            \/ Len(work) = 1 /\ work[1] = "modprobe"
         /\ work[1] = LastCalls[8 - Len(work)]
         /\ \A j \in 1 .. Len(Tail(work)) : Tail(work)[j] = LastCalls[7 - Len(Tail(work)) + j]
<1>1. /\ work \in Seq(Item) /\ WellOrdered(work) /\ Len(work) <= 7
      /\ \A j \in 1 .. Len(work) : work[j] = LastCalls[7 - Len(work) + j]
      /\ Len(work) >= 6 => fence
  BY DEF IInv, TypeOK, CallsInOrder, LeavingRestores, Item
<1>2. Len(work) \in Nat \ {0}
  BY <1>1, EmptySeq
<1>3. /\ Len(Tail(work)) = Len(work) - 1 /\ Len(Tail(work)) \in Nat
      /\ \A i \in 1 .. Len(Tail(work)) : Tail(work)[i] = work[i + 1]
  BY <1>1, <1>2, HeadTailProperties
<1>4. work[1] = LastCalls[8 - Len(work)]
  <2>1. 1 \in 1 .. Len(work) /\ 7 - Len(work) + 1 = 8 - Len(work)
    BY <1>2
  <2>2. work[1] = LastCalls[7 - Len(work) + 1]
    BY <1>1, <2>1
  <2> QED BY <2>1, <2>2
<1>5. \A j \in 1 .. Len(Tail(work)) : Tail(work)[j] = LastCalls[7 - Len(Tail(work)) + j]
  <2> SUFFICES ASSUME NEW j \in 1 .. Len(Tail(work))
               PROVE  Tail(work)[j] = LastCalls[7 - Len(Tail(work)) + j]
    OBVIOUS
  <2>1. j + 1 \in 1 .. Len(work) /\ 7 - Len(work) + (j + 1) = 7 - Len(Tail(work)) + j
    BY <1>2, <1>3
  <2>2. work[j + 1] = LastCalls[7 - Len(work) + (j + 1)]
    BY <1>1, <2>1
  <2> QED BY <1>3, <2>1, <2>2
<1>6. \/ Len(work) = 7 \/ Len(work) = 6 \/ Len(work) = 5 \/ Len(work) = 4 \/ Len(work) = 3
      \/ Len(work) = 2 \/ Len(work) = 1
  <2>1. \A n \in Nat \ {0} : n <= 7 => n = 7 \/ n = 6 \/ n = 5 \/ n = 4 \/ n = 3 \/ n = 2 \/ n = 1
    OBVIOUS
  <2> QED BY <1>1, <1>2, <2>1
<1>7. /\ LastCalls[1] = "setPlain" /\ LastCalls[2] = "lock" /\ LastCalls[3] = "unlock" /\ LastCalls[4] = "toggle"
      /\ LastCalls[5] = "toggleBack" /\ LastCalls[6] = "check" /\ LastCalls[7] = "modprobe"
  BY Lists
<1>8. Len(work) = 6 \/ Len(work) = 7 => fence
  <2>1. Len(work) = 6 \/ Len(work) = 7 => Len(work) >= 6
    <3>1. \A n \in Nat : n = 6 \/ n = 7 => n >= 6
      OBVIOUS
    <3> QED BY <1>2, <3>1
  <2>2. Len(work) >= 6 => fence
    BY DEF IInv, LeavingRestores
  <2> QED BY <2>1, <2>2
<1>9. CASE Len(work) = 7
  <2>1. 8 - Len(work) = 1
    BY <1>9
  <2> QED BY <1>4, <1>5, <1>7, <1>8, <1>9, <2>1
<1>10. CASE Len(work) = 6
  <2>1. 8 - Len(work) = 2
    BY <1>10
  <2> QED BY <1>4, <1>5, <1>7, <1>8, <1>10, <2>1
<1>11. CASE Len(work) = 5
  <2>1. 8 - Len(work) = 3
    BY <1>11
  <2> QED BY <1>4, <1>5, <1>7, <1>8, <1>11, <2>1
<1>12. CASE Len(work) = 4
  <2>1. 8 - Len(work) = 4
    BY <1>12
  <2> QED BY <1>4, <1>5, <1>7, <1>8, <1>12, <2>1
<1>13. CASE Len(work) = 3
  <2>1. 8 - Len(work) = 5
    BY <1>13
  <2> QED BY <1>4, <1>5, <1>7, <1>8, <1>13, <2>1
<1>14. CASE Len(work) = 2
  <2>1. 8 - Len(work) = 6
    BY <1>14
  <2> QED BY <1>4, <1>5, <1>7, <1>8, <1>14, <2>1
<1>15. CASE Len(work) = 1
  <2>1. 8 - Len(work) = 7
    BY <1>15
  <2> QED BY <1>4, <1>5, <1>7, <1>8, <1>15, <2>1
<1> QED BY <1>6, <1>9, <1>10, <1>11, <1>12, <1>13, <1>14, <1>15

\* The first call of a list and what is left after it.
LEMMA NextCall ==
  ASSUME IInv, work # <<>>, call = "none"
  PROVE  /\ Head(work) = work[1] /\ work[1] \in Item /\ Tail(work) \in Seq(Item)
         /\ Len(work) \in Nat /\ Len(Tail(work)) = Len(work) - 1 /\ Len(Tail(work)) \in Nat
         /\ WellOrdered(Tail(work)) /\ Follows(work[1], Tail(work))
         /\ ctl \in {"serving", "leaving", "unwinding"}
         /\ Unreset(work) => Unreset(Tail(work)) /\ work[1] # "modprobe"
<1>1. work \in Seq(Item) /\ WellOrdered(work) /\ ctl \in {"serving", "leaving", "unwinding"}
  BY DEF IInv, TypeOK, CallsInOrder, Item
<1>2. /\ Tail(work) \in Seq(Item) /\ Len(work) \in Nat /\ Len(Tail(work)) = Len(work) - 1 /\ Head(work) = work[1]
      /\ \A i \in 1 .. Len(Tail(work)) : Tail(work)[i] = work[i + 1]
      /\ work[1] \in Item /\ WellOrdered(Tail(work)) /\ Follows(work[1], Tail(work))
  BY <1>1, Pop
<1>3. Len(Tail(work)) \in Nat
  BY <1>2, LenProperties
<1>4. ASSUME Unreset(work) PROVE Unreset(Tail(work)) /\ work[1] # "modprobe"
  <2>1. 1 \in 1 .. Len(work) /\ \A i \in 1 .. Len(Tail(work)) : i + 1 \in 1 .. Len(work)
    BY <1>2, <1>3
  <2> QED BY <1>2, <1>4, <2>1 DEF Unreset
<1> QED BY <1>1, <1>2, <1>3, <1>4

\* A call that is skipped, taken apart or not needed.
LEMMA SettleOK == ASSUME IInv, Settle PROVE IInv'
<1> USE DEF IInv
<1> DEFINE h == work[1]
           t == Tail(work)
<1>1. call = "none" /\ work # <<>> /\ call' = call /\ ctl' = ctl /\ mode' = mode
      /\ UNCHANGED <<mainVars, chanVars, hwVars, fence, restored, hung, late>>
  BY DEF Settle
<1>2. /\ Head(work) = h /\ h \in Item /\ t \in Seq(Item) /\ Len(work) \in Nat /\ Len(t) = Len(work) - 1
      /\ WellOrdered(t) /\ Follows(h, t) /\ ctl \in {"serving", "leaving", "unwinding"}
      /\ Unreset(work) => Unreset(t)
  BY <1>1, NextCall
<1>3. PICK p \in Added :
        /\ work' = Cat(p, t)
        /\ p = <<"inspect", "relock">> => h = "assert"
        /\ p # <<>> /\ p[1] \in PlainReads => ~fence
        /\ h \notin {"assert", "correct"} => p = <<>>
        /\ h \in {"setCap", "setPlain", "correct", "lock", "assert", "check"}
  <2>1. CASE h \in Fenced /\ fence /\ \E w \in InsteadOf(h) : work' = w \o t
    <3>1. PICK w \in InsteadOf(h) : work' = w \o t
      BY <2>1
    <3>2. w = <<>> \/ (w = RestoreCpu /\ h = "correct")
      BY DEF InsteadOf
    <3>3. w \in Added /\ w # <<"inspect", "relock">> /\ (w # <<>> => w[1] \notin PlainReads)
      BY <3>2, Lists DEF Added, PlainReads
    <3>4. h \in {"setCap", "setPlain", "correct", "lock", "assert", "check"}
      BY <2>1 DEF Fenced, CapWrites
    <3> QED BY <3>1, <3>2, <3>3, <3>4 DEF Cat
  <2>2. CASE h = "assert" /\ ~fence /\ \E w \in {<<"inspect">>, <<"inspect", "relock">>, <<"lock">>} : work' = w \o t
    <3>1. PICK w \in {<<"inspect">>, <<"inspect", "relock">>, <<"lock">>} : work' = w \o t
      BY <2>2
    <3>2. w \in Added
      BY DEF Added, Single
    <3> QED BY <2>2, <3>1, <3>2 DEF Cat
  <2>3. CASE h = "check" /\ work' = t
    <3>1. work' = Cat(<<>>, t)
      BY <1>2, <2>3, ConcatEmptySeq DEF Cat
    <3>2. <<>> \in Added /\ <<>> # <<"inspect", "relock">>
      BY DEF Added
    <3> QED BY <2>3, <3>1, <3>2
  <2> QED BY <1>2, <2>1, <2>2, <2>3 DEF Settle
<1>4. Fresh(t) /\ Len(t) <= 6 /\ (h = "assert" => Len(t) <= 5)
  <2>1. Fresh(t)
    BY <1>2, <1>3, FollowIsFresh
  <2> QED BY <1>2, <1>3, <2>1 DEF Follows, Far
<1>5. /\ work' \in Seq(Item) /\ WellOrdered(work') /\ ~First(work', {"toggleBack", "check"})
      /\ Unreset(work) => Unreset(work')
      /\ First(work', PlainReads) => ~fence
  BY <1>2, <1>3, <1>4, AddOK
<1> HIDE DEF h, t
<1>6. Len(work') <= 9
  BY <1>5, Short
<1>7. TypeOK'
  <2>1. work' \in Seq(Calls \cup {"assert"}) /\ Len(work') <= 10
    BY <1>5, <1>6, LenProperties DEF Item
  <2> QED BY <1>1, <2>1 DEF TypeOK, mainVars, chanVars, hwVars
<1>8. CallsInOrder'
  BY <1>1, <1>2, <1>5 DEF CallsInOrder, Unreset
<1>9. LeavingRestores'
  <2> SUFFICES ASSUME ctl \in {"leaving", "unwinding"} PROVE LeavingRestores'
    BY <1>1 DEF LeavingRestores
  <2>1. /\ \/ Len(work) = 7 /\ h = "setPlain" /\ fence
           \/ Len(work) = 6 /\ h = "lock" /\ fence
           \/ Len(work) = 5 /\ h = "unlock"
           \/ Len(work) = 4 /\ h = "toggle"
           \/ Len(work) = 3 /\ h = "toggleBack"
           \/ Len(work) = 2 /\ h = "check"
           \/ Len(work) = 1 /\ h = "modprobe"
        /\ \A j \in 1 .. Len(t) : t[j] = LastCalls[7 - Len(t) + j]
    BY <1>1, LeavingHead DEF h, t
  <2>2. /\ \/ Len(work) = 7 /\ fence
           \/ Len(work) = 6
           \/ Len(work) = 2
        /\ p = <<>>
    BY <1>3, <2>1
  <2>3. work' = t
    BY <1>2, <1>3, <2>2, ConcatEmptySeq DEF Cat
  <2>4. Len(work') = Len(work) - 1
    BY <1>2, <2>3
  <2>5. \A j \in 1 .. Len(work') : work'[j] = LastCalls[7 - Len(work') + j]
    BY <2>1, <2>3
  <2>6. Len(work) = 2 => caps' \subseteq owed' /\ ("gpu" \in caps' => "gpu" \in owed')
    BY <1>1 DEF LeavingRestores, hwVars
  <2>7. CASE Len(work) = 7 /\ fence
    <3>1. Len(work') = 6
      BY <2>4, <2>7
    <3> QED BY <1>1, <2>5, <2>7, <3>1 DEF LeavingRestores
  <2>8. CASE Len(work) = 6
    <3>1. Len(work') = 5
      BY <2>4, <2>8
    <3> QED BY <1>1, <2>5, <3>1 DEF LeavingRestores
  <2>9. CASE Len(work) = 2
    <3>1. Len(work') = 1
      BY <2>4, <2>9
    <3> QED BY <1>1, <2>5, <2>6, <2>9, <3>1 DEF LeavingRestores
  <2> QED BY <2>2, <2>7, <2>8, <2>9
<1>10. ToggleUncaps'
  BY <1>1, <1>5 DEF ToggleUncaps
<1>11. ProfileKept'
  <2>1. ~Midway /\ ~Midway'
    BY <1>1, <1>2, <1>3, <1>5 DEF Midway, First, h
  <2> QED BY <1>1, <1>2, <2>1, ProfileFrame DEF hwVars
<1>12. EndedRestored'
  BY <1>1, <1>2, EndedFrame
<1>13. QuitIsFenced'
  BY <1>1 DEF QuitIsFenced, mainVars, chanVars
<1>14. WorkIsBounded'
  <2>1. fence => ~ReadLeft'
    BY <1>1, <1>5, Items DEF ReadLeft, Item, CapWrites
  <2>2. (CheckLeft' <=> CheckLeft) /\ ResetLeft
    BY <1>1, <1>2 DEF CheckLeft, ResetLeft, hwVars
  <2> QED BY <1>1, <2>1, <2>2, NoMoreLeft
<1> QED BY <1>7, <1>8, <1>9, <1>10, <1>11, <1>12, <1>13, <1>14

\* A call that begins takes itself off the list; a command behind the fence
\* is one of those left.
LEMMA IssueOK == ASSUME IInv, Issue PROVE IInv'
<1> USE DEF IInv
<1> DEFINE h == work[1]
           t == Tail(work)
<1>1. /\ call = "none" /\ work # <<>> /\ work' = t /\ ctl' = ctl /\ mode' = mode
      /\ UNCHANGED <<mainVars, chanVars, hwVars, fence, restored, hung>>
  BY DEF Issue
<1>2. /\ Head(work) = h /\ h \in Item /\ t \in Seq(Item) /\ Len(work) \in Nat /\ Len(t) = Len(work) - 1
      /\ WellOrdered(t) /\ Follows(h, t) /\ ctl \in {"serving", "leaving", "unwinding"}
      /\ Unreset(work) => Unreset(t) /\ h # "modprobe"
  BY <1>1, NextCall
<1>3. /\ call' = h /\ h # "assert" /\ ~(h \in Fenced /\ fence) /\ ~(h = "check" /\ ~armed)
      /\ late' = IF fence /\ h \in Commands THEN late + 1 ELSE late
  BY <1>2 DEF Issue
<1>4. h \in Calls /\ h # "none" /\ h # "recheck"
  BY <1>2, <1>3, Items DEF Item, Follows
<1>5. work' = t /\ (work' # <<>> => ResetLeft) /\ Len(t) \in Nat
  BY <1>1, <1>2, LenProperties DEF ResetLeft
<1>6. ReadLeft <=> h \in PlainReads
  BY <1>1, Items DEF ReadLeft, First, h, CapWrites, Item
<1>7. Len(t) <= 9
  BY <1>2, Short
<1> HIDE DEF h, t
<1>8. TypeOK'
  <2>1. work' \in Seq(Calls \cup {"assert"}) /\ Len(work') <= 10
    BY <1>1, <1>2, <1>5, <1>7 DEF Item
  <2>2. late' \in Nat
    BY <1>3 DEF TypeOK
  <2> QED BY <1>1, <1>3, <1>4, <2>1, <2>2 DEF TypeOK, mainVars, chanVars, hwVars
<1>9. CallsInOrder'
  BY <1>1, <1>2, <1>3 DEF CallsInOrder, Unreset
<1>10. LeavingRestores'
  <2> SUFFICES ASSUME ctl \in {"leaving", "unwinding"} PROVE LeavingRestores'
    BY <1>1 DEF LeavingRestores
  <2>1. /\ \/ Len(work) = 7 /\ h = "setPlain" /\ fence
           \/ Len(work) = 6 /\ h = "lock" /\ fence
           \/ Len(work) = 5 /\ h = "unlock"
           \/ Len(work) = 4 /\ h = "toggle"
           \/ Len(work) = 3 /\ h = "toggleBack"
           \/ Len(work) = 2 /\ h = "check"
           \/ Len(work) = 1 /\ h = "modprobe"
        /\ h = LastCalls[8 - Len(work)]
        /\ \A j \in 1 .. Len(t) : t[j] = LastCalls[7 - Len(t) + j]
    BY <1>1, LeavingHead DEF h, t
  <2>2. Len(work) = 5 \/ Len(work) = 4 \/ Len(work) = 3 \/ Len(work) = 2 \/ Len(work) = 1
    BY <1>3, <2>1 DEF Fenced, CapWrites
  <2>3. Len(t) <= 4 /\ 7 - Len(t) = 8 - Len(work) /\ ~(Len(t) >= 6)
    BY <1>2, <1>5, <2>2
  <2>4. Len(t) <= 3 => ("gpu" \in caps => "gpu" \in owed)
    <3>1. Len(t) <= 3 => Len(work) <= 3 \/ Len(work) = 4
      BY <1>2, <1>5
    <3> QED BY <1>1, <3>1 DEF LeavingRestores
  <2>5. Len(t) <= 2 => caps \subseteq owed
    <3>1. Len(t) <= 2 => Len(work) <= 2 \/ Len(work) = 3
      BY <1>2, <1>5
    <3> QED BY <1>1, <3>1 DEF LeavingRestores
  <2>6. Len(t) <= 7 /\ caps' = caps /\ owed' = owed /\ call' # "none"
    BY <1>1, <1>3, <1>4, <1>5, <2>3 DEF hwVars
  <2> QED BY <1>1, <1>3, <2>1, <2>3, <2>4, <2>5, <2>6 DEF LeavingRestores
<1>11. ToggleUncaps'
  BY <1>1, <1>3, <1>4 DEF ToggleUncaps, First, h, hwVars
<1>12. ProfileKept'
  <2>1. Midway' <=> Midway
    BY <1>1, <1>3, <1>4 DEF Midway, First, h
  <2> QED BY <1>1, <1>2, <2>1, ProfileFrame DEF hwVars
<1>13. EndedRestored'
  BY <1>1, <1>2, EndedFrame
<1>14. QuitIsFenced'
  BY <1>1, <1>3 DEF QuitIsFenced, mainVars, chanVars
<1>15. WorkIsBounded'
  <2>1. ASSUME fence PROVE h \notin CapWrites
    BY <1>3, <2>1 DEF Fenced
  <2>2. fence => ~ReadLeft'
    BY <1>1, <1>2, <1>3, <2>1 DEF ReadLeft, Follows
  <2>3. fence => (CheckLeft <=> armed) /\ (CheckLeft' <=> armed /\ h # "check")
    BY <1>1, <1>3, <2>1, Items DEF CheckLeft, hwVars, CapWrites, Item
  <2>4. ResetLeft' => ResetLeft
    BY <1>1, <1>2 DEF ResetLeft
  <2>5. CASE ~(fence /\ h \in Commands)
    BY <1>1, <1>3, <2>2, <2>3, <2>4, <2>5, NoMoreLeft
  <2>6. CASE fence /\ h \in Commands
    <3>1. h \in PlainReads \/ h = "check" \/ h = "modprobe"
      BY <1>4, <2>1, <2>6 DEF Commands, Reads, PlainReads
    <3>2. h \in PlainReads => ReadLeft /\ ~ReadLeft'
      BY <1>6, <2>2, <2>6
    <3>3. h = "check" => CheckLeft /\ ~CheckLeft'
      BY <1>3, <2>3, <2>6
    <3>4. h = "modprobe" => ResetLeft /\ ~ResetLeft'
      <4> SUFFICES ASSUME h = "modprobe" PROVE ResetLeft /\ ~ResetLeft'
        OBVIOUS
      <4>1. Len(t) = 0
        BY <1>2, <1>5 DEF Follows, Far
      <4>2. work' = <<>>
        BY <1>2, <1>5, <4>1, EmptySeq
      <4>3. ctl # "serving"
        <5>1. Unreset(work) => h # "modprobe"
          BY <1>2
        <5> QED BY <5>1 DEF CallsInOrder, Unreset
      <4> QED BY <1>1, <1>2, <4>2, <4>3 DEF ResetLeft
    <3> QED BY <1>1, <1>3, <2>2, <2>3, <2>4, <2>6, <3>1, <3>2, <3>3, <3>4, OneLessLeft
  <2> QED BY <2>5, <2>6
<1> QED BY <1>8, <1>9, <1>10, <1>11, <1>12, <1>13, <1>14, <1>15

\* A handler, the thread or its unwind ends with no call left.
LEMMA ReturnOK == ASSUME IInv, Return PROVE IInv'
<1> USE DEF IInv
<1>1. /\ call = "none" /\ work = <<>> /\ call' = call /\ work' = work
      /\ UNCHANGED <<mainVars, mode, chanVars, hwVars, fence, hung, late>>
      /\ \/ ctl = "serving" /\ ctl' = "select" /\ UNCHANGED restored
         \/ ctl = "leaving" /\ ctl' = "gone" /\ restored' = TRUE
         \/ ctl = "unwinding" /\ ctl' = "dead" /\ UNCHANGED restored
  BY DEF Return
<1>2. ~joined /\ ~restored
  BY <1>1, ActingIsNotEnded
<1>3. ctl \in {"leaving", "unwinding"} => caps \subseteq owed
  <2>1. Len(work) = 0
    BY <1>1
  <2> QED BY <2>1 DEF LeavingRestores
<1>4. TypeOK'
  BY <1>1 DEF TypeOK, mainVars, chanVars, hwVars
<1>5. CallsInOrder'
  BY <1>1 DEF CallsInOrder
<1>6. LeavingRestores' /\ ToggleUncaps'
  BY <1>1 DEF LeavingRestores, ToggleUncaps, First
<1>7. ProfileKept'
  <2>1. ~Midway /\ ~Midway'
    BY <1>1 DEF Midway, First
  <2> QED BY <1>1, <2>1, ProfileFrame DEF hwVars
<1>8. EndedRestored'
  BY <1>1, <1>2, <1>3 DEF EndedRestored, mainVars, hwVars
<1>9. QuitIsFenced'
  BY <1>1 DEF QuitIsFenced, mainVars, chanVars
<1>10. WorkIsBounded'
  <2>1. (ReadLeft' <=> ReadLeft) /\ (CheckLeft' <=> CheckLeft) /\ (ResetLeft' => ResetLeft)
    BY <1>1 DEF ReadLeft, CheckLeft, ResetLeft, hwVars
  <2> QED BY <1>1, <2>1, NoMoreLeft
<1> QED BY <1>4, <1>5, <1>6, <1>7, <1>8, <1>9, <1>10

\* The calls a controller that leaves can be in.
LEMMA LeavingCall ==
  ASSUME IInv, ctl \in {"leaving", "unwinding"}, call # "none"
  PROVE  \/ call = "unlock" /\ Len(work) = 4
         \/ call = "toggle" /\ Len(work) = 3 /\ ("gpu" \in caps => "gpu" \in owed)
         \/ call = "toggleBack" /\ Len(work) = 2 /\ caps \subseteq owed
         \/ call \in {"check", "modprobe"} /\ Len(work) <= 1 /\ caps \subseteq owed
<1> USE DEF IInv
<1>1. Len(work) \in Nat
  BY LenProperties DEF TypeOK
<1>2. Len(work) <= 4 /\ call = LastCalls[7 - Len(work)]
  BY DEF LeavingRestores
<1>3. Len(work) = 4 \/ Len(work) = 3 \/ Len(work) = 2 \/ Len(work) = 1 \/ Len(work) = 0
  <2>1. \A n \in Nat : n <= 4 => n = 4 \/ n = 3 \/ n = 2 \/ n = 1 \/ n = 0
    OBVIOUS
  <2> QED BY <1>1, <1>2, <2>1
<1>4. /\ LastCalls[3] = "unlock" /\ LastCalls[4] = "toggle"
      /\ LastCalls[5] = "toggleBack" /\ LastCalls[6] = "check" /\ LastCalls[7] = "modprobe"
  BY Lists
<1>5. CASE Len(work) = 4
  <2>1. 7 - Len(work) = 3
    BY <1>5
  <2> QED BY <1>2, <1>4, <1>5, <2>1
<1>6. CASE Len(work) = 3
  <2>1. 7 - Len(work) = 4 /\ Len(work) <= 3
    BY <1>6
  <2> QED BY <1>2, <1>4, <1>6, <2>1 DEF LeavingRestores
<1>7. CASE Len(work) = 2
  <2>1. 7 - Len(work) = 5 /\ Len(work) <= 2
    BY <1>7
  <2> QED BY <1>2, <1>4, <1>7, <2>1 DEF LeavingRestores
<1>8. CASE Len(work) = 1
  <2>1. 7 - Len(work) = 6 /\ Len(work) <= 2 /\ Len(work) <= 1
    BY <1>8
  <2> QED BY <1>2, <1>4, <2>1 DEF LeavingRestores
<1>9. CASE Len(work) = 0
  <2>1. 7 - Len(work) = 7 /\ Len(work) <= 2 /\ Len(work) <= 1
    BY <1>9
  <2> QED BY <1>2, <1>4, <2>1 DEF LeavingRestores
<1> QED BY <1>3, <1>5, <1>6, <1>7, <1>8, <1>9

\* What is left of a list when the call before it has failed: the rest of a
\* failed restore is gone.
LEMMA AbandonedIsFresh ==
  ASSUME NEW w \in Seq(Item), WellOrdered(w), NEW c \in Item, Follows(c, w)
  PROVE  /\ Fresh(Abandoned(w)) /\ (Unreset(w) => Unreset(Abandoned(w)))
         /\ c \notin {"toggle", "toggleBack"} => Abandoned(w) = w
         /\ Len(Abandoned(w)) \in Nat /\ Len(w) \in Nat /\ Len(Abandoned(w)) <= Len(w)
<1> DEFINE x == Skip(w, {"toggleBack"})
           y == Skip(x, {"check", "recheck"})
<1>1. /\ x \in Seq(Item) /\ WellOrdered(x) /\ Len(x) \in Nat /\ Len(w) \in Nat /\ Len(x) <= Len(w)
      /\ ~First(x, PlainReads) /\ ~First(x, {"toggleBack"}) /\ (Unreset(w) => Unreset(x))
      /\ c # "toggle" => x = w
  <2>0. Len(w) \in Nat
    BY LenProperties
  <2>1. CASE First(w, {"toggleBack"})
    <3>1. /\ w # <<>> /\ Tail(w) \in Seq(Item) /\ Len(Tail(w)) = Len(w) - 1 /\ Head(w) = w[1]
          /\ \A i \in 1 .. Len(Tail(w)) : Tail(w)[i] = w[i + 1]
          /\ WellOrdered(Tail(w)) /\ Follows(w[1], Tail(w)) /\ w[1] = "toggleBack"
      BY <2>1, Pop DEF First
    <3>2. x = Tail(w)
      BY <3>1 DEF Skip
    <3>3. ~First(x, PlainReads) /\ ~First(x, {"toggleBack"})
      BY <3>1, <3>2 DEF Follows
    <3>4. Len(x) \in Nat /\ Len(x) <= Len(w) /\ \A i \in 1 .. Len(x) : i + 1 \in 1 .. Len(w)
      BY <2>0, <3>1, <3>2, LenProperties
    <3>5. Unreset(w) => Unreset(x)
      BY <3>1, <3>2, <3>4 DEF Unreset
    <3>6. c = "toggle"
      BY <2>1 DEF Follows
    <3> QED BY <2>0, <3>1, <3>2, <3>3, <3>4, <3>5, <3>6
  <2>2. CASE ~First(w, {"toggleBack"})
    <3>1. w # <<>> => Head(w) = w[1]
      BY Pop
    <3>2. x = w
      BY <2>2, <3>1 DEF Skip, First
    <3> QED BY <2>0, <2>2, <3>2 DEF Follows
  <2> QED BY <2>1, <2>2
<1> HIDE DEF x
<1>2. /\ y \in Seq(Item) /\ WellOrdered(y) /\ Len(y) \in Nat /\ Len(y) <= Len(x)
      /\ ~First(y, PlainReads) /\ ~First(y, {"toggleBack"}) /\ ~First(y, {"check"})
      /\ Unreset(x) => Unreset(y)
      /\ ~First(x, {"check"}) => y = x
  <2>1. CASE First(x, {"check"})
    <3>1. /\ x # <<>> /\ Tail(x) \in Seq(Item) /\ Len(Tail(x)) = Len(x) - 1 /\ Head(x) = x[1]
          /\ \A i \in 1 .. Len(Tail(x)) : Tail(x)[i] = x[i + 1]
          /\ WellOrdered(Tail(x)) /\ Follows(x[1], Tail(x)) /\ x[1] = "check"
      BY <1>1, <2>1, Pop DEF First
    <3>2. y = Tail(x)
      BY <3>1 DEF Skip
    <3>3. ~First(y, PlainReads) /\ ~First(y, {"toggleBack"}) /\ ~First(y, {"check"})
      BY <3>1, <3>2 DEF Follows
    <3>4. Len(y) \in Nat /\ Len(y) <= Len(x) /\ \A i \in 1 .. Len(y) : i + 1 \in 1 .. Len(x)
      BY <1>1, <3>1, <3>2, LenProperties
    <3>5. Unreset(x) => Unreset(y)
      BY <3>1, <3>2, <3>4 DEF Unreset
    <3> QED BY <2>1, <3>1, <3>2, <3>3, <3>4, <3>5
  <2>2. CASE ~First(x, {"check"})
    <3>1. x # <<>> => Head(x) = x[1] /\ x[1] # "recheck"
      <4> SUFFICES ASSUME x # <<>> PROVE Head(x) = x[1] /\ x[1] # "recheck"
        OBVIOUS
      <4>1. Head(x) = x[1] /\ Follows(x[1], Tail(x))
        BY <1>1, Pop
      <4> QED BY <4>1 DEF Follows
    <3>2. y = x
      BY <2>2, <3>1 DEF Skip, First
    <3> QED BY <1>1, <2>2, <3>2
  <2> QED BY <2>1, <2>2
<1>3. c \notin {"toggle", "toggleBack"} => y = w
  <2>1. First(w, {"check"}) => c = "toggleBack"
    BY DEF Follows
  <2> QED BY <1>1, <1>2, <2>1
<1> HIDE DEF y
<1>4. Fresh(y)
  BY <1>2 DEF Fresh, First
<1>5. y = Abandoned(w)
  BY DEF Abandoned, x, y
<1> QED BY <1>1, <1>2, <1>3, <1>4, <1>5

\* A call fails, and what it leaves to be done comes before what is left.
LEMMA FailedOK ==
  ASSUME IInv, call # "none", call' = "none", UNCHANGED <<mainVars, ctl, mode, chanVars, fence, restored, late>>,
         hung' \subseteq hung, Fails(call, "controller"),
         NEW p \in InsteadOf(call), work' = Cat(p, Abandoned(work))
  PROVE  IInv'
<1> USE DEF IInv
<1> DEFINE a == Abandoned(work)
<1>1. /\ call \in Calls /\ call \in Item /\ work \in Seq(Item) /\ WellOrdered(work) /\ Follows(call, work)
      /\ ctl \in {"serving", "leaving", "unwinding"} /\ Len(work) \in Nat
  BY LenProperties DEF TypeOK, CallsInOrder, Item
<1>2. /\ Fresh(a) /\ (Unreset(work) => Unreset(a)) /\ Len(a) \in Nat /\ Len(a) <= Len(work)
      /\ call \notin {"toggle", "toggleBack"} => a = work
  BY <1>1, AbandonedIsFresh
<1>3. p = <<>> \/ (p = RestoreCpu /\ call = "correct")
  BY DEF InsteadOf
<1> HIDE DEF a
<1>4. p = <<>> => work' = a
  BY <1>2, ConcatEmptySeq DEF Cat, Fresh, a
<1>5. /\ work' \in Seq(Item) /\ WellOrdered(work') /\ (Unreset(work) => Unreset(work'))
      /\ ~First(work', PlainReads) /\ ~First(work', {"toggleBack", "check"})
  <2>1. CASE p = <<>>
    BY <1>2, <1>4, <2>1 DEF Fresh, First
  <2>2. CASE p = RestoreCpu /\ call = "correct"
    <3>1. Len(a) <= 6
      BY <1>1, <1>2, <2>2 DEF Follows, Far
    <3>2. p \in Added /\ p # <<"inspect", "relock">> /\ ~(p # <<>> /\ p[1] \in PlainReads)
      BY <2>2, Lists DEF Added, PlainReads
    <3> QED BY <1>2, <3>1, <3>2, AddOK DEF a
  <2> QED BY <1>3, <2>1, <2>2
<1>6. Len(work') <= 9
  BY <1>5, Short
<1>7. /\ caps' \subseteq {"cpu", "gpu"} /\ profile' = profile /\ armed' \in BOOLEAN
      /\ saved' \in [{"main", "controller"} -> Profiles] /\ owed' \subseteq {"cpu", "gpu", "profile"}
      /\ "profile" \in owed => "profile" \in owed'
      /\ call \notin CapWrites => caps' = caps /\ owed \subseteq owed'
      /\ call # "toggleBack" => saved' = saved
      /\ call = "toggleBack" => "profile" \in owed'
      /\ call = "toggle" => caps \cap {"cpu"} \subseteq owed'
      /\ call = "unlock" => caps \cap {"gpu"} \subseteq owed'
      /\ call \in {"check", "recheck"} => ~armed'
      /\ call \notin {"check", "recheck"} => armed' = armed
  BY <1>1, FailsOK
<1>8. TypeOK'
  <2>1. work' \in Seq(Calls \cup {"assert"}) /\ Len(work') <= 10
    BY <1>5, <1>6, LenProperties DEF Item
  <2> QED BY <1>7, <2>1 DEF TypeOK, mainVars, chanVars
<1>9. CallsInOrder'
  <2>1. ctl = "serving" => Unreset(work)
    BY DEF CallsInOrder, Unreset
  <2> QED BY <1>1, <1>5, <2>1 DEF CallsInOrder, Unreset
<1>10. LeavingRestores'
  <2> SUFFICES ASSUME ctl \in {"leaving", "unwinding"} PROVE LeavingRestores'
    BY DEF LeavingRestores
  <2>1. \/ call = "unlock" /\ Len(work) = 4
        \/ call = "toggle" /\ Len(work) = 3 /\ ("gpu" \in caps => "gpu" \in owed)
        \/ call = "toggleBack" /\ Len(work) = 2 /\ caps \subseteq owed
        \/ call \in {"check", "modprobe"} /\ Len(work) <= 1 /\ caps \subseteq owed
    BY LeavingCall
  <2>2. work' = a
    BY <1>3, <1>4, <2>1
  <2>3. LeftOf(work, LastCalls, 7) /\ Len(work) <= 4
    BY DEF LeavingRestores, LeftOf
  <2>4. LeftOf(work', LastCalls, 7) /\ Len(work') \in Nat /\ Len(work') <= 4
    <3>1. PICK x : x = Skip(work, {"toggleBack"})
      OBVIOUS
    <3>2. x \in Seq(Item) /\ LeftOf(x, LastCalls, 7)
      BY <1>1, <2>3, <3>1, SkipIsLeft
    <3>3. LeftOf(Skip(x, {"check", "recheck"}), LastCalls, 7)
      BY <3>2, SkipIsLeft
    <3> QED BY <1>1, <1>2, <2>2, <2>3, <3>1, <3>3 DEF Abandoned, a
  <2>5. Len(work') <= 7 /\ ~(Len(work') >= 6) /\ \A j \in 1 .. Len(work') : work'[j] = LastCalls[7 - Len(work') + j]
    BY <2>4 DEF LeftOf
  <2>6. CASE call = "unlock" /\ Len(work) = 4
    <3>1. work' = work /\ ("gpu" \in caps' => "gpu" \in owed')
      BY <1>2, <1>7, <2>2, <2>6 DEF CapWrites
    <3>2. Len(work') = 4
      BY <2>6, <3>1
    <3>3. ~(Len(work') <= 3) /\ ~(Len(work') <= 2) /\ Len(work') # 3
      BY <3>2
    <3> QED BY <2>5, <3>1, <3>3 DEF LeavingRestores
  <2>7. CASE call # "unlock"
    <3>1. caps' \subseteq owed'
      <4>1. caps' = caps /\ owed \subseteq owed' /\ caps \subseteq {"cpu", "gpu"}
        BY <1>7, <2>1, <2>7 DEF TypeOK, CapWrites
      <4> QED BY <1>7, <2>1, <2>7, <4>1
    <3> QED BY <2>5, <3>1 DEF LeavingRestores
  <2> QED BY <2>1, <2>6, <2>7
<1>11. ToggleUncaps'
  BY <1>5 DEF ToggleUncaps
<1>12. ProfileKept'
  <2>1. ~joined' /\ main' = main
    BY <1>1, ActingIsNotEnded DEF mainVars
  <2>2. ~First(work', {"toggleBack"})
    BY <1>5 DEF First
  <2> SUFFICES ASSUME main \notin {"restoring", "exited"}, "profile" \notin owed'
               PROVE  IF Midway' THEN saved'["controller"] = UserProfile ELSE profile' = UserProfile
    BY <2>1 DEF ProfileKept
  <2>3. ~Midway' /\ ~Midway
    BY <1>7, <2>2 DEF Midway
  <2>4. profile = UserProfile
    BY <1>7, <2>3 DEF ProfileKept
  <2> QED BY <1>7, <2>3, <2>4
<1>13. EndedRestored'
  BY <1>1, EndedFrame
<1>14. QuitIsFenced'
  BY DEF QuitIsFenced, mainVars, chanVars
<1>15. WorkIsBounded'
  <2>1. "none" \notin CapWrites
    BY DEF CapWrites
  <2>2. ~ReadLeft'
    BY <1>5, <2>1 DEF ReadLeft
  <2>3. CheckLeft' => CheckLeft
    BY <1>7, <2>1 DEF CheckLeft
  <2>4. ResetLeft' => ResetLeft
    <3>1. CASE ctl \in {"leaving", "unwinding"}
      <4>1. p = <<>>
        BY <1>3, <3>1, LeavingCall
      <4>2. work' # <<>> => work # <<>>
        <5> SUFFICES ASSUME work' # <<>>, work = <<>> PROVE FALSE
          OBVIOUS
        <5>1. Len(work) = 0 /\ Len(work') = 0
          BY <1>1, <1>2, <1>4, <4>1
        <5> QED BY <1>5, <5>1, EmptySeq
      <4> QED BY <3>1, <4>2 DEF ResetLeft
    <3>2. CASE ctl \notin {"leaving", "unwinding"}
      BY <3>2 DEF ResetLeft
    <3> QED BY <3>1, <3>2
  <2> QED BY <2>2, <2>3, <2>4, NoMoreLeft
<1> QED BY <1>8, <1>9, <1>10, <1>11, <1>12, <1>13, <1>14, <1>15

\* A call lands, and what follows it comes before what is left.
LEMMA LandedOK ==
  ASSUME IInv, ~TogglesIgnored, call # "none", call' = "none",
         UNCHANGED <<mainVars, ctl, mode, chanVars, fence, restored, late>>,
         hung' \subseteq hung, Lands(call, "controller"),
         NEW p \in FollowUps(call), work' = Cat(p, work)
  PROVE  IInv'
<1> USE DEF IInv
<1>1. /\ call # "none" /\ call' = "none" /\ ctl' = ctl /\ mode' = mode /\ Lands(call, "controller")
      /\ UNCHANGED <<mainVars, chanVars, fence, restored, late>> /\ hung' \subseteq hung
  OBVIOUS
<1>2. /\ call \in Calls /\ call \in Item /\ work \in Seq(Item) /\ WellOrdered(work) /\ Follows(call, work)
      /\ ctl \in {"serving", "leaving", "unwinding"} /\ Len(work) \in Nat
  BY <1>1, LenProperties DEF TypeOK, CallsInOrder, Item
<1>3. p \in FollowUps(call) /\ work' = Cat(p, work)
  OBVIOUS
<1>4. /\ p \in Added /\ p # <<"inspect", "relock">>
      /\ p # <<>> => call \in {"setCap", "correct", "setPlain", "verify", "inspect", "confirm"}
      /\ p # <<>> /\ p[1] \in PlainReads => call \in CapWrites
  <2>1. call = "check" => p = <<>>
    BY DEF ToggleUncaps, FollowUps
  <2>2. call # "check" =>
          /\ p \in {<<>>, <<"verify">>, <<"confirm">>, <<"look">>, <<"correct">>, RestoreCpu}
          /\ p # <<>> => call \in {"setCap", "correct", "setPlain", "verify", "inspect", "confirm"}
          /\ p \in {<<"verify">>, <<"confirm">>, <<"look">>} => call \in CapWrites
    <3>1. call = "setCap" => p = <<"verify">>
      BY DEF FollowUps
    <3>2. call = "correct" => p = <<"confirm">>
      BY DEF FollowUps
    <3>3. call = "setPlain" => p = <<"look">>
      BY DEF FollowUps
    <3>4. call \in {"verify", "inspect"} => p = <<>> \/ p = <<"correct">>
      BY DEF FollowUps
    <3>5. call = "confirm" => p = <<>> \/ p = RestoreCpu
      BY DEF FollowUps
    <3>6. call \notin {"setCap", "correct", "setPlain", "verify", "inspect", "confirm", "check"} => p = <<>>
      BY DEF FollowUps
    <3>7. \A q \in {<<>>, <<"correct">>, RestoreCpu} : q \notin {<<"verify">>, <<"confirm">>, <<"look">>}
      BY Lists, SMTT(60)
    <3>8. {"setCap", "correct", "setPlain"} \subseteq CapWrites
      BY DEF CapWrites
    <3> QED BY <3>1, <3>2, <3>3, <3>4, <3>5, <3>6, <3>7, <3>8
  <2>3. p \in Added /\ p # <<"inspect", "relock">>
    <3>1. \A c \in {"verify", "confirm", "look", "correct"} : <<c>> \in Added /\ <<c>> # <<"inspect", "relock">>
      BY DEF Added, Single
    <3>2. /\ <<>> \in Added /\ RestoreCpu \in Added /\ <<>> # <<"inspect", "relock">>
          /\ RestoreCpu # <<"inspect", "relock">>
      BY Lists DEF Added
    <3> QED BY <2>1, <2>2, <3>1, <3>2
  <2>4. p \in {<<"correct">>, RestoreCpu} => p[1] \notin PlainReads
    BY Lists DEF PlainReads
  <2> QED BY <2>1, <2>2, <2>3, <2>4
<1>5. p = <<>> => work' = work
  BY <1>2, <1>3, ConcatEmptySeq DEF Cat
<1>6. /\ work' \in Seq(Item) /\ WellOrdered(work') /\ (Unreset(work) => Unreset(work'))
      /\ First(work', PlainReads) => call \in CapWrites
      /\ First(work', {"toggleBack"}) <=> call = "toggle"
      /\ First(work', {"check"}) => call = "toggleBack"
  <2>1. CASE call \in {"toggle", "toggleBack"}
    <3>1. p = <<>>
      BY <1>4, <2>1
    <3> QED BY <1>2, <1>5, <3>1 DEF Follows
  <2>2. CASE call \notin {"toggle", "toggleBack"}
    <3>1. Fresh(work)
      BY <1>2, <2>2, FollowIsFresh
    <3>2. Len(work) <= 6
      BY <1>1, <1>2, <2>2, Items DEF Follows, Far
    <3>3. /\ work' \in Seq(Item) /\ WellOrdered(work') /\ ~First(work', {"toggleBack", "check"})
          /\ Unreset(work) => Unreset(work')
          /\ First(work', PlainReads) => p # <<>> /\ p[1] \in PlainReads
      BY <1>3, <1>4, <3>1, <3>2, AddOK
    <3> QED BY <1>4, <2>2, <3>3 DEF First
  <2> QED BY <2>1, <2>2
<1>7. Len(work') <= 9
  BY <1>6, Short
<1>8. /\ caps' \subseteq {"cpu", "gpu"} /\ profile' \in Profiles /\ armed' \in BOOLEAN
      /\ saved' \in [{"main", "controller"} -> Profiles] /\ owed' \subseteq {"cpu", "gpu", "profile"}
      /\ "profile" \in owed' <=> "profile" \in owed
      /\ call \notin CapWrites \cup GpuLocks => caps' \subseteq caps /\ caps' \cap owed \subseteq owed'
      /\ call \notin {"toggle", "toggleBack"} => profile' = profile /\ saved' = saved
      /\ call = "toggle" => caps' = caps \ {"cpu"} /\ saved'["controller"] = profile
      /\ call = "toggleBack" => caps' = caps \ {"cpu"} /\ profile' = saved["controller"]
      /\ call = "unlock" => caps' = caps \ {"gpu"}
      /\ call \notin CapWrites \cup {"check", "recheck"} => armed' = armed
      /\ call = "check" => armed' = (armed /\ "cpu" \in caps)
  BY <1>1, <1>2, LandsOK
<1>9. TypeOK'
  <2>1. work' \in Seq(Calls \cup {"assert"}) /\ Len(work') <= 10
    BY <1>6, <1>7, LenProperties DEF Item
  <2> QED BY <1>1, <1>8, <2>1 DEF TypeOK, mainVars, chanVars
<1>10. CallsInOrder'
  <2>1. ctl = "serving" => Unreset(work)
    BY DEF CallsInOrder, Unreset
  <2> QED BY <1>1, <1>2, <1>6, <2>1 DEF CallsInOrder, Unreset
<1>11. LeavingRestores'
  <2> SUFFICES ASSUME ctl \in {"leaving", "unwinding"} PROVE LeavingRestores'
    BY <1>1 DEF LeavingRestores
  <2>1. \/ call = "unlock" /\ Len(work) = 4
        \/ call = "toggle" /\ Len(work) = 3 /\ ("gpu" \in caps => "gpu" \in owed)
        \/ call = "toggleBack" /\ Len(work) = 2 /\ caps \subseteq owed
        \/ call \in {"check", "modprobe"} /\ Len(work) <= 1 /\ caps \subseteq owed
    BY <1>1, LeavingCall
  <2>2. work' = work
    BY <1>4, <1>5, <2>1
  <2>3. Len(work') <= 7 /\ (\A j \in 1 .. Len(work') : work'[j] = LastCalls[7 - Len(work') + j]) /\ ~(Len(work') >= 6)
    <3>1. Len(work) <= 4
      BY <1>1 DEF LeavingRestores
    <3>2. ~(Len(work) >= 6)
      BY <1>2, <3>1
    <3> QED BY <2>2, <3>2 DEF LeavingRestores
  <2>4. CASE call = "unlock" /\ Len(work) = 4
    <3>1. "gpu" \notin caps' /\ ~(Len(work') <= 3) /\ ~(Len(work') <= 2) /\ Len(work') # 3
      BY <1>8, <2>2, <2>4
    <3> QED BY <1>1, <2>3, <3>1 DEF LeavingRestores
  <2>5. CASE call # "unlock"
    <3>1. caps' \subseteq owed'
      <4>1. caps' \subseteq caps /\ caps' \cap owed \subseteq owed' /\ caps \subseteq {"cpu", "gpu"}
        BY <1>8, <2>1, <2>5 DEF TypeOK, CapWrites, GpuLocks
      <4>2. call = "toggle" => caps' = caps \ {"cpu"}
        BY <1>8
      <4> QED BY <2>1, <2>5, <4>1, <4>2
    <3> QED BY <1>1, <2>3, <3>1 DEF LeavingRestores
  <2> QED BY <2>1, <2>4, <2>5
<1>12. ToggleUncaps'
  <2>1. ASSUME First(work', {"toggleBack", "check"}) PROVE "cpu" \notin caps'
    <3>1. call = "toggle" \/ call = "toggleBack"
      BY <1>6, <2>1 DEF First
    <3> QED BY <1>8, <3>1
  <2> QED BY <1>1, <2>1 DEF ToggleUncaps
<1>13. ProfileKept'
  <2>1. ~joined' /\ main' = main
    BY <1>1, <1>2, ActingIsNotEnded DEF mainVars
  <2> SUFFICES ASSUME main \notin {"restoring", "exited"}, "profile" \notin owed'
               PROVE  IF Midway' THEN saved'["controller"] = UserProfile ELSE profile' = UserProfile
    BY <2>1 DEF ProfileKept
  <2>2. Midway' <=> call = "toggle"
    BY <1>1, <1>6 DEF Midway
  <2>3. Midway <=> call = "toggleBack"
    BY <1>1 DEF Midway
  <2>4. IF Midway THEN saved["controller"] = UserProfile ELSE profile = UserProfile
    BY <1>8 DEF ProfileKept
  <2>5. CASE call = "toggle"
    BY <1>8, <2>2, <2>3, <2>4, <2>5
  <2>6. CASE call = "toggleBack"
    BY <1>8, <2>2, <2>3, <2>4, <2>6
  <2>7. CASE call \notin {"toggle", "toggleBack"}
    BY <1>8, <2>2, <2>3, <2>4, <2>7
  <2> QED BY <2>5, <2>6, <2>7
<1>14. EndedRestored'
  BY <1>1, <1>2, EndedFrame
<1>15. QuitIsFenced'
  BY <1>1 DEF QuitIsFenced, mainVars, chanVars
<1>16. WorkIsBounded'
  <2>1. "none" \notin CapWrites
    BY DEF CapWrites
  <2>2. ReadLeft' => ReadLeft
    BY <1>1, <1>6, <2>1 DEF ReadLeft
  <2>3. CheckLeft' => CheckLeft
    <3>1. CASE call \in CapWrites
      BY <3>1 DEF CheckLeft
    <3>2. CASE call = "check"
      <4>1. ~armed'
        BY <1>8, <3>2 DEF ToggleUncaps
      <4> QED BY <1>1, <2>1, <4>1 DEF CheckLeft
    <3>3. CASE call \notin CapWrites /\ call # "check"
      <4>1. call # "recheck"
        BY <1>2 DEF Follows
      <4> QED BY <1>1, <1>8, <2>1, <3>3, <4>1 DEF CheckLeft
    <3> QED BY <3>1, <3>2, <3>3
  <2>4. ResetLeft' => ResetLeft
    <3>1. ctl \in {"leaving", "unwinding"} => work' = work
      BY <1>1, <1>4, <1>5, LeavingCall
    <3> QED BY <1>1, <3>1 DEF ResetLeft
  <2> QED BY <1>1, <2>2, <2>3, <2>4, NoMoreLeft
<1> QED BY <1>9, <1>10, <1>11, <1>12, <1>13, <1>14, <1>15, <1>16

\* A call that completes has landed or failed.
LEMMA CompleteOK == ASSUME IInv, ~TogglesIgnored, Complete PROVE IInv'
<1>1. /\ call # "none" /\ call' = "none" /\ hung' \subseteq hung
      /\ UNCHANGED <<mainVars, ctl, mode, chanVars, fence, restored, late>>
  BY DEF Complete
<1>2. CASE Lands(call, "controller") /\ \E w \in FollowUps(call) : work' = w \o work
  <2>1. PICK p \in FollowUps(call) : work' = Cat(p, work)
    BY <1>2 DEF Cat
  <2> QED BY <1>1, <1>2, <2>1, LandedOK
<1>3. CASE Fails(call, "controller") /\ \E w \in InsteadOf(call) : work' = w \o Abandoned(work)
  <2>1. PICK p \in InsteadOf(call) : work' = Cat(p, Abandoned(work))
    BY <1>3 DEF Cat
  <2> QED BY <1>1, <1>3, <2>1, FailedOK
<1> QED BY <1>2, <1>3 DEF Complete

-----------------------------------------------------------------------------
(* The theorems.                                                           *)

\* A step that changes nothing keeps everything.
LEMMA StutterOK == ASSUME IInv, UNCHANGED vars PROVE IInv'
<1> USE DEF IInv, vars, mainVars, ctlVars, chanVars, hwVars
<1>1. TypeOK'
  BY DEF TypeOK
<1> QED BY <1>1, MoveOK

\* Every step keeps the invariant.
LEMMA Inductive == ASSUME IInv, ~TogglesIgnored, [Next]_vars PROVE IInv'
<1>1. ASSUME ControllerStep PROVE IInv'
  BY <1>1, TakeSampleOK, TakeCommandOK, DisconnectedOK, SettleOK, IssueOK, CompleteOK, ReturnOK DEF ControllerStep
<1>2. ASSUME Leaving PROVE IInv'
  BY <1>2, JoinControllerOK, RestoreTerminalOK, ReapThreadsOK, UnwindOK, DropFinalRestoreOK, RestoreFreshOK DEF Leaving
<1> QED BY <1>1, <1>2, PanicControllerOK, SamplerStepOK, SendCommandOK, StopRunningOK, PanicMainOK,
           HangOK, ComeBackOK, StutterOK DEF Next

\* Where the firmware heeds a profile toggle, the strengthened invariant
\* holds throughout, whoever hangs or panics and however many commands and
\* samples are queued (the threads of main.rs and spawn).
THEOREM AlwaysIInv == ~TogglesIgnored /\ Spec => []IInv
<1> SUFFICES ASSUME ~TogglesIgnored PROVE Spec => []IInv
  OBVIOUS
<1>1. Init => IInv
  BY InitOK
<1>2. IInv /\ [Next]_vars => IInv'
  BY Inductive
<1> QED BY <1>1, <1>2, PTL DEF Spec

\* Once main has joined the controller, what is capped and a profile that is
\* not back are what a failed call left (quit_and_join_controller,
\* RestoreGuard).
THEOREM JoinedCorrect == ~TogglesIgnored /\ Spec => []JoinedLeavesWhatFailed
<1>1. IInv => JoinedLeavesWhatFailed
  <2> SUFFICES ASSUME IInv, joined, main \in {"terminal", "reaping", "grace", "exited"} PROVE Restored
    BY DEF JoinedLeavesWhatFailed, IInv
  <2>1. ctl \in {"gone", "dead"} /\ caps \subseteq owed
    BY DEF IInv, EndedRestored
  <2>2. ~Midway
    BY <2>1, EndedIsNotMidway
  <2>3. ProfileIsBack
    BY <2>2 DEF IInv, ProfileKept, ProfileIsBack
  <2> QED BY <2>1, <2>3 DEF Restored
<1> QED BY <1>1, AlwaysIInv, PTL

\* The controller begins at most four commands behind the fence, within the
\* five the join timeout was derived from (CONTROLLER_JOIN_TIMEOUT).
THEOREM JoinBoundCorrect == ~TogglesIgnored /\ Spec => []JoinCoversTheWork
<1>1. IInv => JoinCoversTheWork
  <2> SUFFICES ASSUME IInv PROVE late <= 5
    BY DEF JoinCoversTheWork
  <2>1. late \in Nat /\ (~fence => late = 0) /\ (fence => late + CommandsLeft <= 4)
    BY DEF IInv, TypeOK, QuitIsFenced, WorkIsBounded
  <2>2. CommandsLeft \in Nat
    BY DEF CommandsLeft, One
  <2> QED BY <2>1, <2>2
<1> QED BY <1>1, AlwaysIInv, PTL

\* Once the controller says it restored, a cap in force is one whose release
\* failed (spawn sets restored after the thread's last call).
THEOREM RestoredCorrect == ~TogglesIgnored /\ Spec => RestoredLeavesWhatFailed
<1> SUFFICES ASSUME ~TogglesIgnored PROVE Spec => RestoredLeavesWhatFailed
  OBVIOUS
<1>1. IInv /\ [Next]_vars => [restored => caps' \subseteq owed']_vars
  <2> SUFFICES ASSUME IInv, [Next]_vars, restored PROVE caps' \subseteq owed'
    OBVIOUS
  <2>1. IInv'
    BY Inductive
  <2>2. ctl = "gone" /\ call = "none" /\ work = <<>>
    BY DEF IInv, EndedRestored, CallsInOrder
  <2>3. ctl' = "gone"
    <3>1. UNCHANGED ctl
      BY <2>2 DEF Next, ControllerStep, Leaving, TakeSample, TakeCommand, Disconnected, Settle, Issue, Complete,
                        Return, PanicController, SamplerStep, SendCommand, StopRunning, PanicMain, JoinController,
                        RestoreTerminal, ReapThreads, Unwind, DropFinalRestore, RestoreFresh, Hang, ComeBack, vars, ctlVars
    <3> QED BY <2>2, <3>1
  <2> QED BY <2>1, <2>3 DEF IInv, EndedRestored
<1>2. Spec => []IInv
  BY AlwaysIInv
<1> QED BY <1>1, <1>2, PTL DEF RestoredLeavesWhatFailed, Spec
===============================================================================
