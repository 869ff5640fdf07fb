----------------------------- MODULE PanelProofs -----------------------------
(***************************************************************************)
(* The copies of the user interface agree with the controller once both    *)
(* channels have run dry, for every range of the set-points and the floors *)
(* and every length of the channels.  Two facts carry it: the last status  *)
(* on its way is the current one (NewsIsCurrent), and without one a copy   *)
(* is the controller's or what the last pending command makes of it        *)
(* (CopiesLead).                                                           *)
(***************************************************************************)
EXTENDS Panel, TLAPS

-----------------------------------------------------------------------------
(* Operators.                                                              *)

\* The bounds as the provers need them.
LEMMA Bounds ==
  /\ CapTop \in Nat /\ CapTop > 0 /\ FloorTop \in Nat /\ FloorTop > 0
  /\ MaxQueue \in Nat /\ MaxQueue > 0 /\ Seed \in 1..CapTop /\ None = 0
  BY PanelAssumption DEF None

\* A clamped number is within its bounds.
LEMMA ClampOK ==
  ASSUME NEW x \in Int, NEW low \in Int, NEW high \in Int, low <= high
  PROVE  Clamp(x, low, high) \in low..high
  BY DEF Clamp

\* The commands keep what they carry in range, and put the controller in a known mode.
LEMMA DoneOK ==
  ASSUME TypeOK, NEW c \in Command
  PROVE  /\ Done(c) \in Status
         /\ Done(c).mode = "Calibrating" /\ Now.mode # "Calibrating" => Now.mode \in {"Monitor", "Auto"}
<1>1. Now \in Status /\ ctl.back \in {"Monitor", "Auto"}
  BY DEF TypeOK, Now
<1>2. /\ Now.mode \in Modes /\ Now.cap \in Caps /\ Now.floors \in Floors /\ Now.tripped \in BOOLEAN
      /\ Now = [mode |-> Now.mode, cap |-> Now.cap, floors |-> Now.floors, tripped |-> Now.tripped]
  BY <1>1 DEF Status
<1>3. None \in Caps
  BY Bounds DEF Caps
<1>4. CASE c.kind = "SetCap"
  <2>1. c.cap \in Caps
    BY <1>4, Bounds DEF Command, Caps
  <2>2. Done(c) = [Now EXCEPT !.cap = c.cap, !.mode = "Manual"]
    BY <1>4 DEF Done
  <2> HIDE DEF Now
  <2> QED BY <1>1, <2>1, <2>2 DEF Status, Modes
<1>5. CASE c.kind = "SetFloors"
  <2>1. c.floors \in Floors
    BY <1>5 DEF Command
  <2>2. Done(c) = [Now EXCEPT !.floors = c.floors]
    BY <1>5 DEF Done
  <2> QED BY <1>1, <2>1, <2>2 DEF Status
<1>6. Released(Now) \in Status /\ Released(Now).mode = "Monitor"
  BY <1>1, <1>3 DEF Released, Status, Modes
<1>7. Ended(Now) \in Status /\ Ended(Now).mode \in {"Monitor", "Auto"}
  BY <1>1 DEF Ended, Status, Modes
<1>8. CASE c.kind = "ReleaseAll"
  BY <1>6, <1>8 DEF Done
<1>9. CASE c.kind = "AutoOn"
  BY <1>1, <1>9 DEF Done, Status, Modes
<1>10. CASE c.kind = "AutoOff"
  BY <1>1, <1>6, <1>10 DEF Done
<1>11. CASE c.kind = "StartCalibration"
  BY <1>1, <1>11 DEF Done, Status, Modes
<1>12. CASE c.kind = "AbortCalibration"
  BY <1>1, <1>7, <1>12 DEF Done
<1> QED BY <1>4, <1>5, <1>8, <1>9, <1>10, <1>11, <1>12 DEF Command

\* An echoed change is the last status on its way; without a change nothing is on its way that
\* was not before, and a refusal is remembered.
LEMMA EchoOK ==
  ASSUME TypeOK, NewsIsCurrent, NEW next \in Status, NEW refused \in BOOLEAN, Echo(next, refused),
         next.mode = "Calibrating" /\ Now.mode # "Calibrating" => Now.mode \in {"Monitor", "Auto"}
  PROVE  /\ ctl' \in [status : Status, back : {"Monitor", "Auto"}] /\ Now' = next
         /\ events' \in Seq(Status) /\ Len(events') <= MaxQueue /\ unanswered' \in BOOLEAN
         /\ NewsIsCurrent'
         /\ next = Now => events' = events /\ (unanswered' <=> unanswered \/ refused)
         /\ next # Now => events' # <<>>
<1> DEFINE back == IF next.mode = "Calibrating" /\ Now.mode # "Calibrating" THEN Now.mode ELSE ctl.back
<1>1. ctl' = [status |-> next, back |-> back]
  BY DEF Echo, TypeOK
<1>2. back \in {"Monitor", "Auto"}
  BY DEF TypeOK
<1>3. ctl' \in [status : Status, back : {"Monitor", "Auto"}] /\ Now' = next
  BY <1>1, <1>2 DEF Now
<1>4. CASE next = Now
  <2>1. events' = events /\ unanswered' = (unanswered \/ refused)
    BY <1>4 DEF Echo
  <2>2. unanswered' \in BOOLEAN /\ (unanswered' <=> unanswered \/ refused)
    BY <2>1
  <2> QED BY <1>3, <1>4, <2>1, <2>2 DEF TypeOK, NewsIsCurrent
<1>5. CASE next # Now
  <2>1. Len(events) < MaxQueue /\ events' = Append(events, next) /\ unanswered' = refused
    BY <1>5 DEF Echo
  <2>2. events \in Seq(Status) /\ Len(events) \in Nat
    BY DEF TypeOK
  <2>3. /\ events' \in Seq(Status) /\ Len(events') = Len(events) + 1
        /\ events'[Len(events')] = next /\ events' # <<>>
    BY <2>1, <2>2
  <2> QED BY <1>3, <1>5, <2>1, <2>2, <2>3, Bounds DEF NewsIsCurrent
<1> QED BY <1>4, <1>5
-----------------------------------------------------------------------------
(* The invariant.                                                          *)

\* The initial states satisfy the invariant.
LEMMA InitIInv == Init => IInv
<1> SUFFICES ASSUME Init PROVE IInv
  OBVIOUS
<1>1. PICK f \in Floors :
        /\ ui = [mode |-> "Monitor", cap |-> None, floors |-> f, tripped |-> FALSE]
        /\ ctl = [status |-> [mode |-> "Monitor", cap |-> None, floors |-> f, tripped |-> FALSE],
                  back |-> "Monitor"]
  BY DEF Init
<1>2. cmds = <<>> /\ events = <<>> /\ unseen = FALSE /\ unanswered = FALSE
  BY DEF Init
<1>3. TypeOK
  <2>1. unseen \in BOOLEAN /\ unanswered \in BOOLEAN
    BY <1>2
  <2>2. cmds \in Seq(Command) /\ Len(cmds) <= MaxQueue /\ events \in Seq(Status) /\ Len(events) <= MaxQueue
    BY <1>2, Bounds
  <2>3. None \in Caps
    BY Bounds DEF Caps
  <2> QED BY <1>1, <2>1, <2>2, <2>3 DEF TypeOK, Status, Modes
<1> QED BY <1>1, <1>2, <1>3 DEF IInv, NewsIsCurrent, CopiesLead, Now

\* A key adds one command to those on their way and leaves the controller and the statuses alone.
LEMMA SendsOK ==
  ASSUME IInv, NEW c \in Command, Sends(c), ui' \in Status, ui'.mode = ui.mode,
         \/ ui'.cap = ui.cap /\ c.kind \notin {"SetCap", "ReleaseAll"}
         \/ c.kind \in {"SetCap", "ReleaseAll"} /\ ui'.cap = CapOf(c),
         \/ ui'.floors = ui.floors /\ c.kind # "SetFloors"
         \/ c.kind = "SetFloors" /\ ui'.floors = c.floors
  PROVE  IInv'
<1>0. PICK n \in Nat : n = Len(cmds) + 1
  BY DEF IInv, TypeOK
<1>1. /\ Len(cmds) < MaxQueue /\ cmds' = Append(cmds, c)
      /\ ctl' = ctl /\ events' = events /\ unseen' = unseen /\ unanswered' = unanswered
  BY DEF Sends
<1>2. cmds \in Seq(Command) /\ Len(cmds) \in Nat
  BY DEF IInv, TypeOK
<1>3. /\ cmds' \in Seq(Command) /\ Len(cmds') = n
      /\ DOMAIN cmds = 1..Len(cmds) /\ DOMAIN cmds' = 1..n
      /\ cmds'[n] = c /\ \A i \in DOMAIN cmds : i \in DOMAIN cmds' /\ cmds'[i] = cmds[i]
  BY <1>0, <1>1, <1>2
<1>4. /\ c.kind \notin {"SetCap", "ReleaseAll"} => CapSetters' = CapSetters
      /\ c.kind # "SetFloors" => FloorSetters' = FloorSetters
  <2>1. \A i : i \in DOMAIN cmds' <=> i \in DOMAIN cmds \/ i = n
    BY <1>0, <1>2, <1>3
  <2> QED BY <1>3, <2>1 DEF CapSetters, FloorSetters
<1>5. TypeOK'
  BY <1>0, <1>1, <1>2, <1>3, Bounds DEF IInv, TypeOK, Status
<1>6. NewsIsCurrent'
  BY <1>1 DEF IInv, NewsIsCurrent, Now
<1>7. CopiesLead'
  <2> SUFFICES ASSUME events = <<>>, ~unanswered
      PROVE /\ ui'.mode = Now.mode
            /\ ui'.cap = Now.cap \/ \E i \in DOMAIN cmds' : LastSets(i, CapSetters)' /\ ui'.cap = CapOf(cmds'[i])
            /\ ui'.floors = Now.floors
               \/ \E i \in DOMAIN cmds' : LastSets(i, FloorSetters)' /\ ui'.floors = cmds'[i].floors
    BY <1>1 DEF CopiesLead, Now
  <2>1. /\ ui.mode = Now.mode
        /\ ui.cap = Now.cap \/ \E i \in DOMAIN cmds : LastSets(i, CapSetters) /\ ui.cap = CapOf(cmds[i])
        /\ ui.floors = Now.floors
           \/ \E i \in DOMAIN cmds : LastSets(i, FloorSetters) /\ ui.floors = cmds[i].floors
    BY DEF IInv, CopiesLead
  <2>2. CASE c.kind \in {"SetCap", "ReleaseAll"}
    <3>1. n \in DOMAIN cmds' /\ LastSets(n, CapSetters)' /\ ui'.cap = CapOf(cmds'[n])
      <4>1. n \in 1..n /\ \A j \in 1..n : j <= n
        BY <1>0, <1>2
      <4>2. n \in CapSetters' /\ \A j \in CapSetters' : j \in 1..n
        BY <1>3, <2>2, <4>1 DEF CapSetters
      <4>3. ui'.cap = CapOf(c)
        BY <2>2
      <4> QED BY <1>3, <4>1, <4>2, <4>3 DEF LastSets
    <3>2. \A i \in DOMAIN cmds : LastSets(i, FloorSetters) => LastSets(i, FloorSetters)'
      BY <1>4, <2>2 DEF LastSets
    <3>3. ui'.floors = ui.floors
      BY <2>2
    <3> QED BY <1>0, <1>2, <1>3, <2>1, <3>1, <3>2, <3>3
  <2>3. CASE c.kind = "SetFloors"
    <3>1. n \in DOMAIN cmds' /\ LastSets(n, FloorSetters)' /\ ui'.floors = cmds'[n].floors
      <4>1. n \in 1..n /\ \A j \in 1..n : j <= n
        BY <1>0, <1>2
      <4>2. n \in FloorSetters' /\ \A j \in FloorSetters' : j \in 1..n
        BY <1>3, <2>3, <4>1 DEF FloorSetters
      <4>3. ui'.floors = c.floors
        BY <2>3
      <4> QED BY <1>3, <4>1, <4>2, <4>3 DEF LastSets
    <3>2. \A i \in DOMAIN cmds : LastSets(i, CapSetters) => LastSets(i, CapSetters)'
      BY <1>4, <2>3 DEF LastSets
    <3>3. ui'.cap = ui.cap
      BY <2>3
    <3> QED BY <1>0, <1>2, <1>3, <2>1, <3>1, <3>2, <3>3
  <2>4. CASE c.kind \notin {"SetCap", "ReleaseAll", "SetFloors"}
    <3>1. \A i \in DOMAIN cmds : LastSets(i, CapSetters) => LastSets(i, CapSetters)'
      BY <1>4, <2>4 DEF LastSets
    <3>2. \A i \in DOMAIN cmds : LastSets(i, FloorSetters) => LastSets(i, FloorSetters)'
      BY <1>4, <2>4 DEF LastSets
    <3>3. ui'.cap = ui.cap /\ ui'.floors = ui.floors
      BY <2>4
    <3> QED BY <1>0, <1>2, <1>3, <2>1, <3>1, <3>2, <3>3
  <2> QED BY <2>2, <2>3, <2>4
<1> QED BY <1>5, <1>6, <1>7 DEF IInv

\* Keys.
LEMMA Keys == IInv /\ (StepCap \/ StepFloor \/ Pause \/ PressMode) => IInv'
<1> SUFFICES ASSUME IInv PROVE StepCap \/ StepFloor \/ Pause \/ PressMode => IInv'
  OBVIOUS
<1>1. ui \in Status /\ ui.cap \in 0..CapTop /\ ui.floors \in Floors
  BY Bounds DEF IInv, TypeOK, Status, Caps
<1>2. ASSUME StepCap PROVE IInv'
  <2>1. PICK d \in {-1, 1} :
          LET cap == Clamp((IF ui.cap = None THEN Seed ELSE ui.cap) + d, 1, CapTop)
          IN /\ ui' = [ui EXCEPT !.cap = cap]
             /\ Sends([kind |-> "SetCap", cap |-> cap, blind |-> unseen])
    BY <1>2 DEF StepCap
  <2> DEFINE from == IF ui.cap = None THEN Seed ELSE ui.cap
             cap == Clamp(from + d, 1, CapTop)
             c == [kind |-> "SetCap", cap |-> cap, blind |-> unseen]
  <2>2. from \in Int
    BY <1>1, Bounds
  <2> HIDE DEF from
  <2>3. cap \in 1..CapTop
    BY <2>2, Bounds, ClampOK
  <2>4. ui' = [ui EXCEPT !.cap = cap] /\ Sends(c)
    BY <2>1 DEF from
  <2> HIDE DEF cap
  <2>5. c \in Command
    <3>1. unseen \in BOOLEAN
      BY DEF IInv, TypeOK
    <3> QED BY <2>3, <3>1 DEF Command
  <2>6. cap \in Caps
    BY <2>3, Bounds DEF Caps
  <2>7. /\ ui' \in Status /\ ui'.mode = ui.mode /\ ui'.floors = ui.floors /\ ui'.cap = CapOf(c)
    BY <1>1, <2>4, <2>6 DEF Status, CapOf
  <2> QED BY <2>4, <2>5, <2>7, SendsOK
<1>3. ASSUME StepFloor PROVE IInv'
  <2>1. PICK device \in {"cpu", "gpu"} : \E d \in {-1, 1} :
          ui' = [ui EXCEPT !.floors[device] = Clamp(@ + d, 0, FloorTop)]
    BY <1>3 DEF StepFloor
  <2>2. PICK d \in {-1, 1} : ui' = [ui EXCEPT !.floors[device] = Clamp(@ + d, 0, FloorTop)]
    BY <2>1
  <2> DEFINE level == Clamp(ui.floors[device] + d, 0, FloorTop)
             c == [kind |-> "SetFloors", floors |-> ui'.floors]
  <2>3. ui.floors[device] + d \in Int
    <3>1. ui.floors[device] \in 0..FloorTop
      BY <1>1 DEF Floors
    <3> QED BY <3>1, Bounds
  <2>4. level \in 0..FloorTop
    <3>1. 0 \in Int /\ FloorTop \in Int /\ 0 <= FloorTop
      BY Bounds
    <3> QED BY <2>3, <3>1, ClampOK
  <2>5. ui' = [ui EXCEPT !.floors[device] = level]
    BY <2>2
  <2> HIDE DEF level
  <2>6. [ui.floors EXCEPT ![device] = level] \in Floors
    BY <1>1, <2>4 DEF Floors
  <2>7. ui' \in Status /\ ui'.mode = ui.mode /\ ui'.cap = ui.cap
        /\ ui'.floors = [ui.floors EXCEPT ![device] = level]
    BY <1>1, <2>5, <2>6 DEF Status
  <2>8. c \in Command /\ Sends(c)
    BY <1>3, <2>6, <2>7 DEF Command, StepFloor
  <2> QED BY <2>7, <2>8, SendsOK
<1>4. ASSUME Pause PROVE IInv'
  <2> DEFINE c == [kind |-> "ReleaseAll"]
  <2>1. ui' = [ui EXCEPT !.cap = None] /\ Sends(c)
    BY <1>4 DEF Pause
  <2>2. c \in Command /\ None \in Caps
    BY Bounds DEF Command, Caps
  <2>3. ui' \in Status /\ ui'.mode = ui.mode /\ ui'.floors = ui.floors /\ ui'.cap = CapOf(c)
    BY <1>1, <2>1, <2>2 DEF Status, CapOf
  <2> QED BY <2>1, <2>2, <2>3, SendsOK
<1>5. ASSUME PressMode PROVE IInv'
  <2>1. PICK kind \in {"AutoOn", "AutoOff", "StartCalibration", "AbortCalibration"} :
          Sends([kind |-> kind]) /\ ui' = ui
    BY <1>5 DEF PressMode
  <2>2. [kind |-> kind] \in Command
    BY DEF Command
  <2> QED BY <1>1, <2>1, <2>2, SendsOK
<1> QED BY <1>2, <1>3, <1>4, <1>5

\* A status that is heard is the current one when it is the last.
LEMMA Hears == IInv /\ (HearsStatus \/ Draws) => IInv'
<1> SUFFICES ASSUME IInv PROVE HearsStatus \/ Draws => IInv'
  OBVIOUS
<1>1. events \in Seq(Status) /\ Len(events) \in Nat /\ Len(events) <= MaxQueue
  BY DEF IInv, TypeOK
<1>2. \A s \in Status : /\ Synced(s) \in Status /\ Synced(s).mode = s.mode /\ Synced(s).cap = s.cap
                        /\ Synced(s).floors = s.floors
  BY DEF Synced, Status
<1>3. ASSUME HearsStatus PROVE IInv'
  <2>1. /\ events # <<>> /\ ui' = Synced(Head(events)) /\ events' = Tail(events)
        /\ ctl' = ctl /\ cmds' = cmds /\ unseen' = unseen /\ unanswered' = unanswered
    BY <1>3 DEF HearsStatus
  <2>2. /\ Len(events) >= 1 /\ Head(events) = events[1] /\ Head(events) \in Status
        /\ events' \in Seq(Status) /\ Len(events') = Len(events) - 1
    BY <1>1, <2>1
  <2>3. TypeOK'
    BY <1>1, <1>2, <2>1, <2>2, Bounds, SMTT(20) DEF IInv, TypeOK, Status
  <2>4. events' # <<>> => events'[Len(events')] = events[Len(events)]
    BY <1>1, <2>1, <2>2
  <2>5. NewsIsCurrent'
    BY <2>1, <2>4 DEF IInv, NewsIsCurrent, Now
  <2>6. events' = <<>> => Head(events) = Now
    <3>1. events' = <<>> => Len(events) = 1
      BY <1>1, <2>1, <2>2
    <3> QED BY <2>1, <2>2, <3>1 DEF IInv, NewsIsCurrent
  <2>7. CopiesLead'
    BY <1>2, <2>1, <2>2, <2>6 DEF CopiesLead, Now
  <2> QED BY <2>3, <2>5, <2>7 DEF IInv
<1>4. ASSUME Draws PROVE IInv'
  <2> DEFINE shown == IF events = <<>> THEN ui ELSE Synced(events[Len(events)])
  <2>1. /\ ui' = shown /\ events' = <<>> /\ unseen' = (unseen /\ ~shown.tripped)
        /\ ctl' = ctl /\ cmds' = cmds /\ unanswered' = unanswered
    BY <1>4 DEF Draws
  <2>2. events # <<>> => events[Len(events)] = Now /\ Now \in Status
    BY DEF IInv, NewsIsCurrent, TypeOK, Now
  <2>3. shown \in Status
    BY <1>2, <2>2 DEF IInv, TypeOK, Status
  <2>4. unseen' \in BOOLEAN
    BY <2>1
  <2>5. TypeOK'
    <3>1. events' \in Seq(Status) /\ Len(events') <= MaxQueue
      BY <2>1, Bounds
    <3> HIDE DEF shown
    <3> QED BY <2>1, <2>3, <2>4, <3>1 DEF IInv, TypeOK, Status
  <2>6. NewsIsCurrent'
    BY <2>1 DEF NewsIsCurrent
  <2>7. CopiesLead'
    <3>1. CASE events = <<>>
      BY <2>1, <3>1 DEF IInv, CopiesLead, Now, LastSets, CapSetters, FloorSetters
    <3>2. CASE events # <<>>
      BY <1>2, <2>1, <2>2, <3>2 DEF CopiesLead, Now
    <3> QED BY <3>1, <3>2
  <2> QED BY <2>5, <2>6, <2>7 DEF IInv
<1> QED BY <1>3, <1>4

\* A command that is handled without an echo and without a refusal has changed nothing, so the
\* copy that led by it agrees.
LEMMA Handles == IInv /\ HandlesCommand => IInv'
<1> SUFFICES ASSUME IInv, HandlesCommand PROVE IInv'
  OBVIOUS
<1> DEFINE c == Head(cmds)
<1>1. cmds # <<>> /\ cmds' = Tail(cmds) /\ ui' = ui /\ unseen' = unseen
  BY DEF HandlesCommand
<1>2. cmds \in Seq(Command) /\ Len(cmds) \in Nat /\ Len(cmds) <= MaxQueue
  BY DEF IInv, TypeOK
<1>3. /\ Len(cmds) >= 1 /\ c = cmds[1] /\ c \in Command
      /\ cmds' \in Seq(Command) /\ Len(cmds') = Len(cmds) - 1
      /\ DOMAIN cmds = 1..Len(cmds) /\ DOMAIN cmds' = 1..(Len(cmds) - 1)
      /\ \A i \in 1..(Len(cmds) - 1) : cmds'[i] = cmds[i + 1]
  BY <1>1, <1>2
<1>4. Now \in Status
  BY DEF IInv, TypeOK, Now
<1> HIDE DEF c
<1>5. PICK next \in Status : \E refused \in BOOLEAN :
        /\ Echo(next, refused)
        /\ next.mode = "Calibrating" /\ Now.mode # "Calibrating" => Now.mode \in {"Monitor", "Auto"}
        /\ next = Now /\ ~refused => Done(c) = Now
  <2>1. CASE Now.tripped /\ c.kind \in Actuating
    <3>1. Echo([Now EXCEPT !.tripped = FALSE], TRUE)
      BY <2>1 DEF HandlesCommand, c
    <3>2. [Now EXCEPT !.tripped = FALSE] \in Status /\ [Now EXCEPT !.tripped = FALSE].mode = Now.mode
      BY <1>4 DEF Status
    <3> QED BY <3>1, <3>2
  <2>2. CASE ~(Now.tripped /\ c.kind \in Actuating) /\ Echo(Now, TRUE)
    BY <1>4, <2>2
  <2>3. CASE ~(Now.tripped /\ c.kind \in Actuating) /\ Echo(Done(c), FALSE)
    BY <1>3, <2>3, DoneOK DEF IInv
  <2>4. \/ Now.tripped /\ c.kind \in Actuating
        \/ ~(Now.tripped /\ c.kind \in Actuating) /\ Echo(Now, TRUE)
        \/ ~(Now.tripped /\ c.kind \in Actuating) /\ Echo(Done(c), FALSE)
    BY DEF HandlesCommand, c
  <2> QED BY <2>1, <2>2, <2>3, <2>4
<1>6. PICK refused \in BOOLEAN :
        /\ Echo(next, refused)
        /\ next.mode = "Calibrating" /\ Now.mode # "Calibrating" => Now.mode \in {"Monitor", "Auto"}
        /\ next = Now /\ ~refused => Done(c) = Now
  BY <1>5
<1>7. /\ ctl' \in [status : Status, back : {"Monitor", "Auto"}] /\ Now' = next
      /\ events' \in Seq(Status) /\ Len(events') <= MaxQueue /\ unanswered' \in BOOLEAN
      /\ NewsIsCurrent'
      /\ next = Now => events' = events /\ (unanswered' <=> unanswered \/ refused)
      /\ next # Now => events' # <<>>
  BY <1>6, EchoOK DEF IInv
<1>8. TypeOK'
  <2>1. Len(cmds') <= MaxQueue
    BY <1>2, <1>3, Bounds
  <2> QED BY <1>1, <1>3, <1>7, <2>1 DEF IInv, TypeOK
<1>9. CopiesLead'
  <2> SUFFICES ASSUME events' = <<>>, ~unanswered'
      PROVE /\ ui.mode = Now.mode
            /\ ui.cap = Now.cap \/ \E i \in DOMAIN cmds' : LastSets(i, CapSetters)' /\ ui.cap = CapOf(cmds'[i])
            /\ ui.floors = Now.floors
               \/ \E i \in DOMAIN cmds' : LastSets(i, FloorSetters)' /\ ui.floors = cmds'[i].floors
    BY <1>1, <1>7 DEF CopiesLead
  <2>1. next = Now /\ events = <<>> /\ ~unanswered /\ ~refused /\ Done(c) = Now
    BY <1>6, <1>7
  <2>2. /\ ui.mode = Now.mode
        /\ ui.cap = Now.cap \/ \E i \in DOMAIN cmds : LastSets(i, CapSetters) /\ ui.cap = CapOf(cmds[i])
        /\ ui.floors = Now.floors
           \/ \E i \in DOMAIN cmds : LastSets(i, FloorSetters) /\ ui.floors = cmds[i].floors
    BY <2>1 DEF IInv, CopiesLead
  <2>3. /\ c.kind \in {"SetCap", "ReleaseAll"} => CapOf(c) = Now.cap
        /\ c.kind = "SetFloors" => c.floors = Now.floors
    BY <1>4, <2>1 DEF Done, CapOf, Released, Status
  <2>4. \A i \in 1..Len(cmds) : i # 1 => i - 1 \in 1..(Len(cmds) - 1) /\ cmds'[i - 1] = cmds[i]
    BY <1>2, <1>3
  <2>5. \A i \in 1..Len(cmds) : i # 1 /\ LastSets(i, CapSetters) => LastSets(i - 1, CapSetters)'
    <3> SUFFICES ASSUME NEW i \in 1..Len(cmds), i # 1, LastSets(i, CapSetters)
                 PROVE  LastSets(i - 1, CapSetters)'
      OBVIOUS
    <3>1. i - 1 \in CapSetters'
      BY <1>3, <2>4 DEF LastSets, CapSetters
    <3>2. ASSUME NEW j \in CapSetters' PROVE j <= i - 1
      <4>1. j \in 1..(Len(cmds) - 1) /\ cmds'[j] = cmds[j + 1] /\ cmds'[j].kind \in {"SetCap", "ReleaseAll"}
        BY <1>3 DEF CapSetters
      <4>2. j + 1 \in CapSetters
        BY <1>2, <1>3, <4>1 DEF CapSetters
      <4> QED BY <1>2, <4>1, <4>2 DEF LastSets
    <3> QED BY <3>1, <3>2 DEF LastSets
  <2>6. \A i \in 1..Len(cmds) : i # 1 /\ LastSets(i, FloorSetters) => LastSets(i - 1, FloorSetters)'
    <3> SUFFICES ASSUME NEW i \in 1..Len(cmds), i # 1, LastSets(i, FloorSetters)
                 PROVE  LastSets(i - 1, FloorSetters)'
      OBVIOUS
    <3>1. i - 1 \in FloorSetters'
      BY <1>3, <2>4 DEF LastSets, FloorSetters
    <3>2. ASSUME NEW j \in FloorSetters' PROVE j <= i - 1
      <4>1. j \in 1..(Len(cmds) - 1) /\ cmds'[j] = cmds[j + 1] /\ cmds'[j].kind \in {"SetFloors"}
        BY <1>3 DEF FloorSetters
      <4>2. j + 1 \in FloorSetters
        BY <1>2, <1>3, <4>1 DEF FloorSetters
      <4> QED BY <1>2, <4>1, <4>2 DEF LastSets
    <3> QED BY <3>1, <3>2 DEF LastSets
  <2>7. ui.cap = Now.cap \/ \E i \in DOMAIN cmds' : LastSets(i, CapSetters)' /\ ui.cap = CapOf(cmds'[i])
    <3>1. CASE ui.cap = Now.cap
      BY <3>1
    <3>2. ASSUME NEW i \in 1..Len(cmds), LastSets(i, CapSetters), ui.cap = CapOf(cmds[i]), i = 1
          PROVE  ui.cap = Now.cap
      BY <1>3, <2>3, <3>2 DEF LastSets, CapSetters
    <3>3. ASSUME NEW i \in 1..Len(cmds), LastSets(i, CapSetters), ui.cap = CapOf(cmds[i]), i # 1
          PROVE  i - 1 \in DOMAIN cmds' /\ LastSets(i - 1, CapSetters)' /\ ui.cap = CapOf(cmds'[i - 1])
      BY <1>3, <2>4, <2>5, <3>3
    <3> QED BY <1>3, <2>2, <3>1, <3>2, <3>3
  <2>8. ui.floors = Now.floors
        \/ \E i \in DOMAIN cmds' : LastSets(i, FloorSetters)' /\ ui.floors = cmds'[i].floors
    <3>1. CASE ui.floors = Now.floors
      BY <3>1
    <3>2. ASSUME NEW i \in 1..Len(cmds), LastSets(i, FloorSetters), ui.floors = cmds[i].floors, i = 1
          PROVE  ui.floors = Now.floors
      BY <1>3, <2>3, <3>2 DEF LastSets, FloorSetters
    <3>3. ASSUME NEW i \in 1..Len(cmds), LastSets(i, FloorSetters), ui.floors = cmds[i].floors, i # 1
          PROVE  i - 1 \in DOMAIN cmds' /\ LastSets(i - 1, FloorSetters)' /\ ui.floors = cmds'[i - 1].floors
      BY <1>3, <2>4, <2>6, <3>3
    <3> QED BY <1>3, <2>2, <3>1, <3>2, <3>3
  <2> QED BY <2>1, <2>2, <2>7, <2>8
<1> QED BY <1>7, <1>8, <1>9 DEF IInv

\* What moves on its own moves the status, and says so.
LEMMA Moves == IInv /\ (LoopMoves \/ Trips) => IInv'
<1> SUFFICES ASSUME IInv PROVE LoopMoves \/ Trips => IInv'
  OBVIOUS
<1>1. Now \in Status /\ ctl.back \in {"Monitor", "Auto"}
  BY DEF IInv, TypeOK, Now
<1>2. ASSUME LoopMoves PROVE IInv'
  <2>1. PICK next \in Status : Echo(next, FALSE) /\ (next.mode = "Calibrating" => Now.mode = "Calibrating")
    <3>1. \A cap \in Caps : [Now EXCEPT !.cap = cap] \in Status /\ [Now EXCEPT !.cap = cap].mode = Now.mode
      BY <1>1 DEF Status
    <3>2. Ended(Now) \in Status /\ Ended(Now).mode # "Calibrating"
      BY <1>1 DEF Ended, Status, Modes
    <3> QED BY <1>2, <3>1, <3>2 DEF LoopMoves
  <2>2. ui' = ui /\ cmds' = cmds /\ unseen' = unseen
    BY <1>2 DEF LoopMoves
  <2>3. /\ ctl' \in [status : Status, back : {"Monitor", "Auto"}] /\ Now' = next
        /\ events' \in Seq(Status) /\ Len(events') <= MaxQueue /\ unanswered' \in BOOLEAN
        /\ NewsIsCurrent'
        /\ next = Now => events' = events /\ (unanswered' <=> unanswered)
        /\ next # Now => events' # <<>>
    BY <2>1, EchoOK DEF IInv
  <2>4. TypeOK'
    BY <2>2, <2>3 DEF IInv, TypeOK
  <2>5. CopiesLead'
    BY <2>2, <2>3 DEF IInv, CopiesLead, LastSets, CapSetters, FloorSetters
  <2> QED BY <2>3, <2>4, <2>5 DEF IInv
<1>3. ASSUME Trips PROVE IInv'
  <2> DEFINE next == [Released(Now) EXCEPT !.tripped = TRUE]
  <2>1. next \in Status /\ next.mode = "Monitor" /\ next.tripped = TRUE
    <3>1. None \in Caps
      BY Bounds DEF Caps
    <3> QED BY <1>1, <3>1 DEF Released, Status, Modes
  <2>2. /\ ~Now.tripped /\ Echo(next, FALSE) /\ unseen' = TRUE /\ ui' = ui
        /\ cmds' = [i \in DOMAIN cmds |-> IF cmds[i].kind = "SetCap" THEN [cmds[i] EXCEPT !.blind = TRUE] ELSE cmds[i]]
    BY <1>3 DEF Trips
  <2> HIDE DEF next
  <2>3. /\ ctl' \in [status : Status, back : {"Monitor", "Auto"}] /\ Now' = next
        /\ events' \in Seq(Status) /\ Len(events') <= MaxQueue /\ unanswered' \in BOOLEAN
        /\ NewsIsCurrent' /\ events' # <<>>
    BY <1>1, <2>1, <2>2, EchoOK DEF IInv
  <2>4. cmds' \in Seq(Command) /\ Len(cmds') = Len(cmds)
    <3> DEFINE marked(k) == IF k.kind = "SetCap" THEN [k EXCEPT !.blind = TRUE] ELSE k
    <3>1. \A k \in Command : marked(k) \in Command
      BY DEF Command
    <3> HIDE DEF marked
    <3>2. cmds' = [i \in DOMAIN cmds |-> marked(cmds[i])]
      BY <2>2 DEF marked
    <3>3. cmds \in Seq(Command)
      BY DEF IInv, TypeOK
    <3>4. cmds' = [i \in 1..Len(cmds) |-> marked(cmds[i])] /\ \A i \in 1..Len(cmds) : marked(cmds[i]) \in Command
      BY <3>1, <3>2, <3>3
    <3>5. cmds' \in [1..Len(cmds) -> Command] /\ Len(cmds) \in Nat
      BY <3>3, <3>4
    <3> QED BY <3>4, <3>5
  <2>5. unseen' \in BOOLEAN
    BY <2>2
  <2>6. TypeOK'
    BY <2>2, <2>3, <2>4, <2>5 DEF IInv, TypeOK
  <2>7. CopiesLead'
    BY <2>3 DEF CopiesLead
  <2> QED BY <2>3, <2>6, <2>7 DEF IInv
<1> QED BY <1>2, <1>3

\* Every step keeps it.
LEMMA Inductive == IInv /\ [Next]_vars => IInv'
<1> SUFFICES ASSUME IInv, [Next]_vars PROVE IInv'
  OBVIOUS
<1>1. CASE UNCHANGED vars
  BY <1>1 DEF IInv, TypeOK, NewsIsCurrent, CopiesLead, Now, LastSets, CapSetters, FloorSetters, vars
<1>2. CASE Next
  BY <1>2, Keys, Hears, Handles, Moves DEF Next
<1> QED BY <1>1, <1>2

\* The last status on its way is the current one, and a copy that differs leads by the last
\* pending command, however keys, statuses and the loop cross.
THEOREM AlwaysIInv == Spec => []IInv
  BY InitIInv, Inductive, PTL DEF Spec
-----------------------------------------------------------------------------
(* The property.                                                           *)

\* Once both channels have run dry with nothing refused, what the next press steps from is what
\* the controller has.
THEOREM CopiesCorrect == Spec => []CopiesAgree
<1>1. IInv => CopiesAgree
  BY DEF IInv, CopiesLead, CopiesAgree
<1> QED BY <1>1, AlwaysIInv, PTL
=============================================================================
