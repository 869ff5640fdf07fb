----------------------------- MODULE DeviceLoop -----------------------------
(***************************************************************************)
(* One device loop (src/control/device_loop.rs) with the hot guard's       *)
(* ratchet on its maximum (src/control/guards.rs) and the controller that  *)
(* feeds it and writes its decisions (src/control/controller.rs).          *)
(*                                                                         *)
(* Caps are levels of a coarse grid, and a tick is one second.  The error  *)
(* is hot or cool, or there is none because the group is not read; what    *)
(* the velocity form adds to the thermal candidate is any level within the *)
(* bounds that its anti-windup rule allows.                                *)
(***************************************************************************)
EXTENDS Integers, Sequences

CONSTANTS
  Top,         \* the configured maximum
  Floors,      \* the floors a user may set
  Draws,       \* the draws that are measured
  Rise, Fall,  \* output slew per tick
  ShadowRise, ShadowFall,
  Headroom,    \* draw margin of the shadow candidate
  HotHeadroom, \* draw margin of a hot handover
  PeriodT,     \* PI_PERIOD_S
  DwellT,      \* GROUP_UNAVAILABLE_DWELL_S
  Down, Up     \* what a hot guard takes from the ceiling, and a cool one gives back

ASSUME LevelsAssumption ==
  /\ {Top, Rise, Fall, ShadowRise, ShadowFall, PeriodT, DwellT, Down, Up} \subseteq Nat \ {0}
  /\ {Headroom, HotHeadroom} \subseteq Nat
  /\ Floors \subseteq 0..Top /\ Floors # {} /\ Draws \subseteq 0..Top

VARIABLES
  loop,      \* the DeviceLoop
  ceiling,   \* MaxRatchet.current
  floor,     \* the configured floor
  pending,   \* what the session still does once: "shadow" seeds it, "thermal" restores it
  act,       \* what the last read-back said, Troubled when it cannot say and a mismatch came before
  applied,   \* the recorded limit, None when there is none
  urgent     \* whether the last decision was written at once

vars == <<loop, ceiling, floor, pending, act, applied, urgent>>

None == -1
Levels == 0..Top
Maybe == {None} \cup Levels
Low(a, b) == IF a < b THEN a ELSE b
High(a, b) == IF a > b THEN a ELSE b
Clip(x, l) == High(l.floor, Low(x, l.max))
Else(x, y) == IF x = None THEN y ELSE x

New == [thermal |-> 0, shadow |-> 0, requested |-> None, applied |-> None, elapsed |-> 0,
        floor |-> 0, max |-> Top, bounded |-> FALSE, seen |-> FALSE, missing |-> FALSE,
        lost |-> FALSE, reset |-> FALSE, missingFor |-> 0, drawless |-> FALSE, drawlessFor |-> 0,
        recent |-> <<>>, latched |-> FALSE, armed |-> TRUE, trim |-> FALSE, rearm |-> 0,
        entry |-> TRUE, seeded |-> FALSE, shadowed |-> FALSE]

\* A history of at most two draws.
History == UNION {[1..n -> Levels] : n \in 0..2}

Loops ==
  [thermal : Levels, shadow : Levels, requested : Maybe, applied : Maybe,
   elapsed : 0..PeriodT, floor : Levels, max : Levels, bounded : BOOLEAN, seen : BOOLEAN,
   missing : BOOLEAN, lost : BOOLEAN, reset : BOOLEAN, missingFor : 0..DwellT,
   drawless : BOOLEAN, drawlessFor : 0..DwellT,
   recent : History, latched : BOOLEAN, armed : BOOLEAN,
   trim : BOOLEAN, rearm : 0..PeriodT, entry : BOOLEAN, seeded : BOOLEAN, shadowed : BOOLEAN]

Acts == {"Verified", "Mismatch", "Unverifiable", "Troubled"}

TypeOK ==
  /\ loop \in Loops /\ loop.floor <= loop.max
  /\ ceiling \in Levels /\ floor \in Levels
  /\ act \in Acts /\ applied \in Maybe
  /\ pending \subseteq {"shadow", "thermal"} /\ urgent \in BOOLEAN

Init ==
  /\ floor \in Floors /\ ceiling = Top
  /\ applied \in Maybe /\ loop = New
  /\ pending = {"shadow"} /\ act = "Unverifiable" /\ urgent = FALSE
-----------------------------------------------------------------------------
(* The parts of a tick.                                                    *)

Target(draw, l) == Clip(draw + Headroom, l)
\* select_candidates.
Selected(thermal, shadow, l) ==
  LET r == Low(thermal, shadow)
  IN  IF r = l.floor THEN "Floor" ELSE IF r = l.max THEN "Max"
      ELSE IF thermal <= shadow THEN "Thermal" ELSE "Shadow"

\* recent_draw: the draws of the last five seconds, here one tick, without a break.
Recorded(l, i) ==
  IF i.resumed \/ i.dt = 0 \/ i.err = "none" \/ i.act = "Mismatch" \/ (l.latched /\ i.act # "Verified") \/ i.draw = None
  THEN <<>> ELSE IF l.recent = <<>> THEN <<i.draw>> ELSE <<l.recent[Len(l.recent)], i.draw>>
Peak(l) == IF Len(l.recent) = 2 THEN High(l.recent[1], l.recent[2]) ELSE l.recent[1]
Ready(l) == Len(l.recent) = 2

\* Mutation: only a pending request above a lowered maximum is urgent.
UrgentRequest(l, i) == i.max < l.max /\ l.requested > i.max

\* Whether the bounds of this tick ask for a write at once (clamp_max, clamp_all_to_bounds).
Urgent(l, i) ==
  LET below == \E x \in {l.thermal, l.shadow, Else(l.requested, Top), Else(l.applied, Top)} : x < i.floor
      above == \E x \in {l.thermal, l.shadow, l.requested, l.applied} : x > i.max
  IN  IF ~l.bounded THEN below \/ above
      ELSE \/ i.max < l.max /\ (l.requested > i.max \/ l.applied > i.max)
           \/ i.floor # l.floor /\ (below \/ l.applied > i.max)

\* The loop within the bounds of this tick, and with the latch of this read-back.
Bounded(l, i) ==
  LET b == [l EXCEPT !.floor = i.floor, !.max = i.max, !.bounded = TRUE]
      clip(x) == IF x = None THEN None ELSE Clip(x, b)
  IN  [b EXCEPT !.thermal = clip(@), !.shadow = clip(@), !.requested = clip(@),
                !.recent = Recorded(l, i),
                !.trim = @ /\ i.err # "cool",
                !.latched = i.act = "Mismatch" \/ (@ /\ ~i.resumed /\ i.act # "Verified")]
Recovered(l, i) == l.latched /\ ~i.resumed /\ i.act = "Verified"

\* Mutation: only a fall is slewed.
SlewedDown(l, target, dt, bypass) ==
  IF l.requested = None \/ bypass THEN target ELSE High(target, l.requested - Fall * dt)

\* slew_and_quantize.
Slewed(l, target, dt, bypass) ==
  IF l.requested = None \/ bypass THEN target
  ELSE IF target > l.requested THEN Low(target, l.requested + Rise * dt) ELSE High(target, l.requested - Fall * dt)

\* A decision: the loop after it, its cap, and whether it may and must be written at once.
Decide(l, cap, now, allowed) == {[loop |-> l, cap |-> cap, now |-> now, allowed |-> allowed]}
\* record_valid_tick.
Valid(l, thermal) == [l EXCEPT !.shadowed = Selected(thermal, l.shadow, l) = "Shadow"]
Entered(l) == [l EXCEPT !.entry = FALSE]

\* The resumed tick: the cap in force is held and written again.
Resumed(l, i) ==
  LET cap == Clip(Else(l.applied, Else(l.requested, l.max)), l)
      allowed == i.err # "none" \/ l.seen
  IN  Decide([l EXCEPT !.elapsed = 0, !.missingFor = 0, !.missing = (i.err = "none"), !.lost = FALSE,
                       !.reset = FALSE, !.drawlessFor = 0, !.drawless = FALSE, !.rearm = 0,
                       !.shadowed = FALSE, !.seeded = TRUE, !.requested = cap,
                       !.thermal = IF l.seeded THEN @ ELSE cap, !.shadow = IF l.seeded THEN @ ELSE cap],
             cap, allowed, allowed)

\* Mutation: a lost group resets the candidates although the actuator does not follow.
ResetAnyhow(l) == IF l.reset THEN [l EXCEPT !.thermal = l.max, !.shadow = l.max, !.reset = FALSE] ELSE l

\* The candidates of a lost group go to the maximum, once the read-back agrees.
ResetLost(l) ==
  IF l.reset /\ ~l.latched THEN [l EXCEPT !.thermal = l.max, !.shadow = l.max, !.reset = FALSE] ELSE l

\* A tick without a group: held, and let go once the group has been gone for the dwell.
Absent(l, i, now) ==
  LET for == IF l.seen THEN Low(l.missingFor + i.dt, DwellT) ELSE l.missingFor
      goes == l.seen /\ ~l.lost /\ for >= DwellT
      m == [l EXCEPT !.elapsed = 0, !.rearm = 0, !.missing = TRUE, !.missingFor = for, !.lost = @ \/ goes,
                     !.requested = IF goes THEN l.max ELSE @, !.reset = @ \/ goes]
      n == ResetLost(m)
  IN  Decide(n, Clip(IF n.lost THEN n.max ELSE Else(n.applied, n.max), n), now, n.seen)

\* The group is read (again).
Present(l, i) ==
  LET p == IF l.seen /\ ~l.missing THEN l
           ELSE [l EXCEPT !.seen = TRUE, !.missing = FALSE, !.missingFor = 0, !.lost = FALSE]
  IN  IF p.reset /\ ~p.latched
      THEN [p EXCEPT !.thermal = p.max, !.shadow = IF i.draw = None THEN p.max ELSE Target(i.draw, p),
                     !.requested = p.max, !.reset = FALSE]
      ELSE p

\* While the read-back does not agree everything is held.
Frozen(l, i, now) ==
  LET f == [l EXCEPT !.elapsed = 0, !.rearm = IF i.err = "hot" THEN 0 ELSE @]
  IN  Decide(Valid(f, f.thermal), Clip(Else(f.requested, f.max), f), now, TRUE)

\* The draw history that a hot entry lacked has come: skip the unused headroom once.
TrimDue(l, resynced) == l.trim /\ ~resynced /\ Ready(l)
InForce(l) == Clip(Else(l.applied, Else(l.requested, l.max)), l)
Trimmed(l) == Low(Low(l.thermal, InForce(l)), Clip(Peak(l) + Low(HotHeadroom, Headroom), l))
Trim(l, i, now) ==
  LET t == [l EXCEPT !.trim = FALSE, !.thermal = Trimmed(l), !.elapsed = 0, !.requested = InForce(l)]
      cap == Clip(Slewed(t, Low(t.thermal, t.shadow), i.dt, FALSE), t)
  IN  Decide(Valid([t EXCEPT !.requested = cap], t.thermal), cap, now, TRUE)

\* The hot transfer: the thermal candidate takes over from the cap in force, once an episode.
Handover(l, i, resynced) ==
  /\ ~resynced /\ l.armed /\ l.shadowed /\ i.err = "hot"
  /\ ~(l.drawless /\ i.draw # None)
InitialHot(l, i) == l.entry /\ i.err = "hot"

EntryCap(l, i) ==
  IF l.applied # None THEN Clip(l.applied, l)
  ELSE IF l.seeded THEN Clip(l.shadow, l)
  ELSE IF i.draw = None THEN l.max ELSE Target(i.draw, l)

\* Mutation: the hand-over starts from a request that may not have reached the hardware.
HandoverFromRequest(l) == Clip(Else(l.requested, Else(l.applied, l.shadow)), l)

HandoverCap(l) == Clip(Else(l.applied, Else(l.requested, l.shadow)), l)

HotTransfer(l, i, handover, now) ==
  LET from == IF InitialHot(l, i) THEN EntryCap(l, i) ELSE HandoverCap(l)
      thermal == IF handover /\ Ready(l) THEN Low(from, Clip(Peak(l) + Low(HotHeadroom, Headroom), l)) ELSE from
      cap == IF thermal < from
             THEN Clip(Slewed([l EXCEPT !.requested = from], thermal, i.dt, FALSE), l) ELSE from
      h == [l EXCEPT !.thermal = thermal, !.shadow = IF InitialHot(l, i) THEN cap ELSE @,
                     !.trim = @ \/ InitialHot(l, i), !.requested = cap, !.elapsed = 0,
                     !.armed = FALSE, !.rearm = 0]
  IN  Decide(Entered(Valid(h, thermal)), cap, now, TRUE)

\* The arm comes back after a period without heat.
Rearmed(l, i) ==
  IF l.armed THEN l
  ELSE IF i.err = "hot" THEN [l EXCEPT !.rearm = 0]
  ELSE IF l.rearm + i.dt >= PeriodT THEN [l EXCEPT !.armed = TRUE, !.rearm = 0]
  ELSE [l EXCEPT !.rearm = @ + i.dt]

\* move_shadow_toward.
Toward(l, target, dt) ==
  Clip(IF target >= l.shadow THEN Low(target, l.shadow + ShadowRise * dt)
       ELSE High(target, l.shadow - ShadowFall * dt), l)

\* The shadow candidate follows the draw, except on a hot group or without a draw.
Shadowed(l, i) ==
  LET missing == IF i.draw = None THEN Low(l.drawlessFor + i.dt, DwellT) ELSE 0
      shadow == IF i.draw # None /\ l.drawless THEN Clip(Else(l.applied, Else(l.requested, l.shadow)), l)
                ELSE IF i.draw # None
                THEN IF i.err = "cool" THEN Toward(l, Target(i.draw, l), i.dt) ELSE l.shadow
                ELSE IF missing >= DwellT THEN Toward(l, l.max, i.dt) ELSE l.shadow
  IN  [l EXCEPT !.drawless = (i.draw = None), !.drawlessFor = missing, !.shadow = shadow]

\* The velocity form, every PI period, moves the thermal candidate within the bounds.
Regulated(l, i) ==
  IF l.elapsed + i.dt < PeriodT THEN {[l EXCEPT !.elapsed = @ + i.dt]}
  ELSE {[l EXCEPT !.elapsed = 0, !.thermal = x] : x \in l.floor..l.max}

Regular(l, i, now, bypass) ==
  UNION { LET cap == Clip(Slewed(r, Low(r.thermal, r.shadow), i.dt, bypass), r)
          IN  Decide(Entered(Valid([r EXCEPT !.requested = cap], r.thermal)), cap, now, TRUE)
          : r \in Regulated(Shadowed(Rearmed(l, i), i), i) }

\* tick.
Tick(l, i) ==
  LET now == Urgent(l, i)
      b == Bounded(l, i)
      bypass == l.bounded /\ (i.floor # l.floor \/ (i.max < l.max /\ l.requested > i.max))
      resynced == ~b.seen \/ b.missing \/ Recovered(l, i)
      p0 == Present(b, i)
      p == IF resynced THEN [p0 EXCEPT !.elapsed = 0] ELSE p0
      t == IF TrimDue(p, resynced) THEN [p EXCEPT !.trim = FALSE] ELSE p
  IN  IF i.resumed THEN Resumed(b, i)
      ELSE IF i.err = "none" THEN Absent(b, i, now)
      ELSE IF p.latched THEN Frozen(p, i, now)
      ELSE IF TrimDue(p, resynced) /\ Trimmed(p) < p.thermal THEN Trim(p, i, now)
      ELSE IF Handover(t, i, resynced) \/ InitialHot(t, i)
      THEN HotTransfer(t, i, Handover(t, i, resynced), now)
      ELSE Regular(t, i, now, bypass)
-----------------------------------------------------------------------------
(* The controller around it.                                               *)

\* Mutation: a hot sample takes its share whatever the floor is.
RatchetBelow(guard) ==
  IF guard = "hot" THEN High(ceiling, floor) - Down
  ELSE IF guard = "cool" THEN Low(High(ceiling, floor) + Up, Top) ELSE High(ceiling, floor)

\* MaxRatchet: set_floor, then step on a valid reading of the die.
Ratchet(guard) ==
  LET current == High(ceiling, floor)
  IN  CASE guard = "hot" -> High(current - Down, floor)
        [] guard = "cool" -> Low(current + Up, Top)
        [] OTHER -> current

\* seed_candidates, on the first sample with a group.
SeedAs(l, i, max) ==
  IF l.seen \/ i.err = "none" THEN {l}
  ELSE {[l EXCEPT !.thermal = t, !.shadow = IF i.draw = None THEN t ELSE Low(i.draw + Headroom, Top),
                  !.requested = Else(applied, Low(t, IF i.draw = None THEN t ELSE Low(i.draw + Headroom, Top))),
                  !.applied = applied, !.elapsed = 0, !.seen = TRUE, !.seeded = TRUE]
        : t \in IF i.draw = None THEN {max} ELSE Low(max, High(floor, i.draw + Headroom))..max}

\* The measured draw that is left to be the first shadow candidate, and with it the thermal one of
\* a remembered pair; and a target restored to its start: once each, and never while the read-back
\* disagrees.
Entering(l, i, p) ==
  LET enters == ~(i.err = "none" \/ i.resumed \/ i.act \in {"Mismatch", "Troubled"})
      seed == High(i.floor, Low(i.draw + Headroom, i.max))
      cold == [l EXCEPT !.shadow = Clip(seed, l), !.drawless = FALSE, !.drawlessFor = 0]
      warm == {[cold EXCEPT !.thermal = Clip(x, l), !.elapsed = 0] : x \in seed..i.max}
      measured == enters /\ "shadow" \in p /\ i.draw # None
      restored == enters /\ "thermal" \in p
  IN  {[loop |-> IF restored THEN [x EXCEPT !.thermal = Clip(i.max, l), !.elapsed = 0] ELSE x,
        pending |-> p \ ((IF restored THEN {"thermal"} ELSE {}) \cup (IF measured THEN {"shadow"} ELSE {}))]
       : x \in IF measured THEN {cold} \cup warm ELSE {l}}

\* What becomes of a decision (write_device_decisions_v4): it is written at once or when due, and
\* only a verified cap is noted.  The periodic maintenance may read the cap in force instead.
\* A mismatch that has lasted releases the device, and the session goes on.
Writes(d) ==
  LET kept(a, limit) == [loop |-> d.loop, act |-> a, applied |-> limit]
      troubled == act \in {"Mismatch", "Troubled"}
      bad == {kept("Mismatch", applied), kept(IF troubled THEN "Troubled" ELSE "Unverifiable", applied)}
             \cup (IF troubled THEN {kept("Mismatch", None)} ELSE {})
      written == bad \cup {[loop |-> [d.loop EXCEPT !.applied = d.cap], act |-> "Verified", applied |-> d.cap]}
  IN  (IF d.allowed THEN written ELSE {})
      \cup (IF d.allowed /\ d.now THEN {} ELSE {kept(act, applied)})
      \cup (IF applied = None THEN {} ELSE bad \cup {kept("Verified", applied)})

\* One sample of an Auto session.
OnSample ==
  \E err \in {"none", "hot", "cool"}, resumed \in BOOLEAN,
     max \in {Ratchet(g) : g \in {"hot", "cool", "between"}}, restored \in SUBSET ({"thermal"} \ pending) :
  \E draw \in IF err = "none" \/ resumed THEN {None} ELSE {None} \cup Draws :
    LET i == [err |-> err, draw |-> draw, resumed |-> resumed,
              act |-> act, floor |-> floor, max |-> max,
              dt |-> IF loop.bounded THEN 1 ELSE 0]
    IN  /\ ceiling' = max
        /\ \E s \in SeedAs(loop, i, max) :
             \E e \in Entering(s, i, pending \cup restored) :
               /\ pending' = e.pending
               /\ \E d \in Tick(e.loop, i) : \E w \in Writes(d) :
                    /\ loop' = w.loop /\ act' = w.act /\ applied' = w.applied
                    /\ urgent' = (d.now /\ d.allowed)
        /\ UNCHANGED floor

\* A sample on which the target source lets go, without a fan or the EC: the engagement ends.
Disengage ==
  /\ ceiling' \in {Ratchet(g) : g \in {"hot", "cool", "between"}}
  /\ loop' = New /\ pending' = {"shadow"} /\ act' = "Unverifiable" /\ applied' = None
  /\ urgent' = FALSE /\ UNCHANGED floor

\* SetFloors.
SetFloors ==
  \E f \in Floors : f # floor /\ floor' = f /\ ceiling' = ceiling
  /\ UNCHANGED <<loop, pending, act, applied, urgent>>

Next == OnSample \/ Disengage \/ SetFloors

Spec == Init /\ [][Next]_vars
-----------------------------------------------------------------------------
(* Properties.                                                             *)

\* The strengthening.  A loop that has ticked has its maximum from the ratchet, and every cap it
\* works with within its bounds.
Sound(l) ==
  {l.thermal, l.shadow} \subseteq l.floor..l.max /\ l.requested \in {None} \cup l.floor..l.max
WithinBounds == loop.bounded => loop.max = ceiling /\ Sound(loop)

\* A loop that has seen its group has ticked, was seeded with a request, and knows a cap when
\* one is in force; before that it is as it was made, but for the bounds.
Begun ==
  IF loop.seen
  THEN loop.bounded /\ loop.seeded /\ loop.requested # None /\ (loop.applied = None => applied = None)
  ELSE loop.applied = None /\ loop.entry

\* The latch of the loop has a mismatch behind it that lasts.
LatchHasCause == loop.latched => act # "Unverifiable"

IInv == TypeOK /\ WithinBounds /\ Begun /\ LatchHasCause

\* A ceiling that a hot guard lowers under the cap in force is written in the same sample and
\* not at the next due time, whatever the tick is busy with: a group that is not read, a
\* mismatch, a resume, a hot transfer or a trim.
RatchetBites ==
  [][ceiling' < ceiling /\ loop.seen /\ loop'.seen /\ loop.applied > ceiling'
     => urgent']_vars

\* While the read-back disagrees nothing winds up: only the bounds move the candidates, even
\* when the group is lost and found in the meantime.
HeldWhileMismatched ==
  [][loop.latched /\ loop'.latched /\ loop.seen
     => \A c \in {<<loop.thermal, loop'.thermal>>, <<loop.shadow, loop'.shadow>>} :
          c[2] = Clip(c[1], loop')]_vars

\* A group that turns hot takes over from the cap in force: the transfer never raises it, on
\* entry, after a moved target or with a request that the hardware has not seen.
HotTransferNeverRaises ==
  [][loop.armed /\ ~loop'.armed /\ loop.applied # None
     => loop'.requested <= High(loop.applied, loop'.floor)]_vars

\* No hand-over between the ways of a tick lets the requested cap jump up: it rises by no more
\* than the output slew over the last request or the cap in force, except when the group is lost
\* (or was, and the reset waits for the read-back), the floor is changed, or the loop is still
\* entering and no cap is known.
NoJump ==
  [][loop'.requested > High(High(loop.requested, loop'.floor), High(loop.applied, applied)) + Rise
     => \/ loop'.lost \/ loop.reset \/ loop'.floor # loop.floor \/ ~loop'.seen
        \/ loop.entry /\ loop.applied = None /\ applied = None]_vars
=============================================================================
