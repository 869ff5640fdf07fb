---------------------------- MODULE CpuActuator ----------------------------
(***************************************************************************)
(* The CPU actuator (src/actuators/cpu.rs) over the hardware it drives:    *)
(* write and read back, read-first maintenance, and the restore that       *)
(* toggles the platform profile and believes it only after a read-back.    *)
(* Its caller is the controller, which records a verified limit and        *)
(* forgets it with every release.  Faults names what the hardware and the  *)
(* tools may do wrong.  Limits closer than MISMATCH_TOLERANCE_W are one    *)
(* value here; sysfs strings and the --info table are left out.            *)
(***************************************************************************)
EXTENDS Naturals

CONSTANTS Caps, Stock, Faults

AllFaults == {"failedWrite", "ignoredWrite", "blindRead", "fastLost", "failedToggle", "ignoredToggle"}

ASSUME CapsAssumption == 0 \notin Caps \cup {Stock}
ASSUME FaultsAssumption == Faults \subseteq AllFaults

VARIABLES
  slow,    \* the sustained limit in force
  last,    \* last_commanded_mw, 0 when none
  limit,   \* status.cpu_limit_w, 0 when none
  result   \* what the last operation told its caller

cpuVars == <<slow, last, limit, result>>

Verdicts == {"Verified", "Mismatch", "Unreadable"}
\* A restore that is Ok: seen to be stock, nothing to check against, or not readable.
Restores == {"stock", "unchecked", "blind", "error"}

CpuInit == slow = Stock /\ last = 0 /\ limit = 0 /\ result = "none"
-----------------------------------------------------------------------------
(* Operations on a pair h of what is in force and what was last commanded. *)

Here == [slow |-> slow, last |-> last]
Outcome(s, l, r) == [slow |-> s, last |-> l, result |-> r]
Faulty(fault, outcomes) == IF fault \in Faults THEN outcomes ELSE {}

\* Mutation: the read-back is not compared.
VerifiedAnyhow(h, c) ==
  Faulty("blindRead", {"Unreadable"}) \cup Faulty("fastLost", {"Mismatch"}) \cup {"Verified"}

\* verify_write: the slow limit must read as commanded, and so must the fast one.
Verify(h, c) ==
  Faulty("blindRead", {"Unreadable"}) \cup Faulty("fastLost", {"Mismatch"})
    \cup (IF h.slow = c THEN {"Verified"} ELSE {"Mismatch"})

\* set_sustained_mw: a write that fails is forgotten, one that ran is read back.
Set(h, c) ==
  LET accepted == {[slow |-> c, last |-> c]}
                    \cup Faulty("ignoredWrite", {[slow |-> h.slow, last |-> c]})
  IN  Faulty("failedWrite", {Outcome(h.slow, h.last, "Unreadable")})
        \cup UNION {{Outcome(a.slow, a.last, v) : v \in Verify(a, c)} : a \in accepted}

\* maintain_sustained_mw: only a mismatch that was read is repaired, unless it is fenced.
MaintainCap(h, c) ==
  UNION { {Outcome(h.slow, h.last, v)} \cup (IF v = "Mismatch" THEN Set(h, c) ELSE {})
          : v \in Verify(h, c) }

\* toggle_profile: the limits it may leave, and whether both profile writes went through.
Toggle(s) ==
  LET limits == {Stock} \cup Faulty("ignoredToggle", {s})
  IN  {[slow |-> t, ok |-> TRUE] : t \in limits}
        \cup Faulty("failedToggle", {[slow |-> t, ok |-> FALSE] : t \in limits \cup {s}})

\* The read-back of a restore: nothing, or whether the last commanded limit is still there.
StillCapped(t, l) == t = l
Seen(t, l) ==
  Faulty("blindRead", {"blind"}) \cup {IF StillCapped(t, l) THEN "capped" ELSE "stock"}

\* Mutation: the second toggle is believed without a read-back.
BelievedAgain(s, l) ==
  {IF t.ok THEN Outcome(t.slow, 0, "stock") ELSE Outcome(t.slow, l, "error") : t \in Toggle(s)}

\* The second toggle, after which a limit that is still there is an error.
ToggledAgain(s, l) ==
  UNION { IF ~t.ok THEN {Outcome(t.slow, l, "error")}
          ELSE { IF seen = "capped" THEN Outcome(t.slow, l, "error") ELSE Outcome(t.slow, 0, seen)
                 : seen \in Seen(t.slow, l) }
          : t \in Toggle(s) }

\* restore_stock.
RestoreStock(h) ==
  UNION { IF ~t.ok THEN {Outcome(t.slow, h.last, "error")}
          ELSE IF h.last = 0 THEN {Outcome(t.slow, 0, "unchecked")}
          ELSE UNION { IF seen = "capped" THEN ToggledAgain(t.slow, h.last)
                                         ELSE {Outcome(t.slow, 0, seen)}
                       : seen \in Seen(t.slow, h.last) }
          : t \in Toggle(h.slow) }

Becomes(o) == slow' = o.slow /\ last' = o.last /\ result' = o.result
-----------------------------------------------------------------------------
(* What the controller does with it.                                       *)

\* A write of a command, a session or a runner: only a verified one is recorded.
Write(c) ==
  \E o \in Set(Here, c) :
    /\ Becomes(o)
    /\ limit' = IF o.result = "Verified" THEN c ELSE limit

\* Maintenance of the recorded limit.
Reassert ==
  /\ limit # 0
  /\ \E o \in MaintainCap(Here, limit) : Becomes(o)
  /\ UNCHANGED limit

\* Mutation: a release that forgets only what it saw gone.
ForgottenIfSeen(o) == IF o.result = "stock" THEN 0 ELSE limit

\* A release drops the record whatever the restore reports.
Forgotten(o) == 0

\* Every release, on command, by a verdict, in an emergency or at exit.
Release ==
  \E o \in RestoreStock(Here) : Becomes(o) /\ limit' = Forgotten(o)

\* Firmware or a profile change by another program puts the limit back to stock.
FirmwareReset ==
  /\ slow # Stock
  /\ slow' = Stock /\ result' = "none"
  /\ UNCHANGED <<last, limit>>

CpuNext == (\E c \in Caps : Write(c)) \/ Reassert \/ Release \/ FirmwareReset

CpuSpec == CpuInit /\ [][CpuNext]_cpuVars
-----------------------------------------------------------------------------
(* Properties.                                                             *)

\* Every variable stays in the range the code gives it.
CpuTypeOK ==
  /\ slow \in Caps \cup {Stock}
  /\ last \in Caps \cup {0} /\ limit \in Caps \cup {0}
  /\ result \in Verdicts \cup Restores \cup {"none"}

\* A write reported verified left in force exactly the limit the status now records, after
\* whatever ignored, failed and repaired writes came before.
VerifiedIsInForce == result = "Verified" => slow = limit

\* A recorded limit is one the next restore will check for.
RecordedIsRemembered == limit # 0 => last # 0

\* A restore that reports what it saw takes off the limit that was last commanded, or finds
\* nothing to take off, whichever of its toggles the firmware ignored.
RestoreTakesOff ==
  [][Release /\ slow \in {Stock, last} /\ result' \in {"stock", "unchecked"} => slow' = Stock]_cpuVars

\* "a cap that survives a restore is the one outcome the design promises never to leave
\* behind" (restore_stock): no restore that reports success leaves one.  Refuted where the
\* SMU ignores a write, true where it does not (ActuatorProofs).
RestoreLeavesNoCap == result \in {"stock", "unchecked"} => slow = Stock
=============================================================================
