-------------------------------- MODULE Panel --------------------------------
(***************************************************************************)
(* The user's side of the controller: the UI model (src/model.rs) steps    *)
(* setpoints and floors on its own copies and sends commands, the          *)
(* controller carries them out and echoes its status, and both travel in   *)
(* channels.  Here the controller is only what its commands do to the      *)
(* status they echo (on_command); module Controller has the rest of it.    *)
(*                                                                         *)
(* One cap stands for the two setpoints.  The fan target takes the same    *)
(* way as the floors and is left out, as is what only the view shows.      *)
(***************************************************************************)
EXTENDS Integers, Sequences

CONSTANTS
  CapTop,    \* caps are 1..CapTop; a press moves one step
  Seed,      \* the cap the first press steps from
  FloorTop,  \* floors are 0..FloorTop
  MaxQueue   \* what a channel holds at most

ASSUME PanelAssumption ==
  /\ {CapTop, FloorTop, MaxQueue} \subseteq Nat \ {0}
  /\ Seed \in 1..CapTop

VARIABLES
  ui,          \* Model: the echoed mode, and the copies the next press steps from
  ctl,         \* the controller's status, its latch, and the mode a calibration returns to
  cmds,        \* commands on their way to the controller
  events,      \* statuses on their way to the UI
  unseen,      \* the last trip has not been drawn yet
  unanswered   \* a command was refused or failed, and no status has left since

vars == <<ui, ctl, cmds, events, unseen, unanswered>>

None == 0
Modes == {"Monitor", "Manual", "Auto", "Calibrating"}
Caps == None..CapTop
Floors == [cpu : 0..FloorTop, gpu : 0..FloorTop]
Status == [mode : Modes, cap : Caps, floors : Floors, tripped : BOOLEAN]
Command == [kind : {"SetCap"}, cap : 1..CapTop, blind : BOOLEAN]
           \cup [kind : {"SetFloors"}, floors : Floors]
           \cup [kind : {"ReleaseAll", "AutoOn", "AutoOff", "StartCalibration", "AbortCalibration"}]

TypeOK ==
  /\ ui \in [mode : Modes, cap : Caps, floors : Floors, tripped : BOOLEAN]
  /\ ctl \in [status : Status, back : {"Monitor", "Auto"}]
  /\ cmds \in Seq(Command) /\ Len(cmds) <= MaxQueue
  /\ events \in Seq(Status) /\ Len(events) <= MaxQueue
  /\ {unseen, unanswered} \subseteq BOOLEAN

Init ==
  /\ \E f \in Floors :
       /\ ui = [mode |-> "Monitor", cap |-> None, floors |-> f, tripped |-> FALSE]
       /\ ctl = [status |-> [mode |-> "Monitor", cap |-> None, floors |-> f, tripped |-> FALSE], back |-> "Monitor"]
  /\ cmds = <<>> /\ events = <<>>
  /\ unseen = FALSE /\ unanswered = FALSE
-----------------------------------------------------------------------------
(* Keys.                                                                   *)

Clamp(x, low, high) == IF x < low THEN low ELSE IF x > high THEN high ELSE x

Sends(c) ==
  /\ Len(cmds) < MaxQueue
  /\ cmds' = Append(cmds, c)
  /\ UNCHANGED <<ctl, events, unseen, unanswered>>

\* c and C, g and G.
StepCap ==
  /\ ui.mode # "Calibrating"
  /\ \E d \in {-1, 1} :
       LET cap == Clamp((IF ui.cap = None THEN Seed ELSE ui.cap) + d, 1, CapTop)
       IN /\ ui' = [ui EXCEPT !.cap = cap]
          /\ Sends([kind |-> "SetCap", cap |-> cap, blind |-> unseen])

\* f and F, d and D: both floors travel in one command.
StepFloor ==
  /\ ui.mode # "Calibrating"
  /\ \E device \in {"cpu", "gpu"}, d \in {-1, 1} :
       ui' = [ui EXCEPT !.floors[device] = Clamp(@ + d, 0, FloorTop)]
  /\ Sends([kind |-> "SetFloors", floors |-> ui'.floors])

\* p.
Pause ==
  /\ ui.mode # "Calibrating"
  /\ ui' = [ui EXCEPT !.cap = None]
  /\ Sends([kind |-> "ReleaseAll"])

\* a, k and Esc go by the echoed mode.
PressMode ==
  /\ \/ ui.mode \in {"Monitor", "Manual"} /\ Sends([kind |-> "AutoOn"])
     \/ ui.mode = "Auto" /\ Sends([kind |-> "AutoOff"])
     \/ ui.mode \in {"Monitor", "Auto"} /\ Sends([kind |-> "StartCalibration"])
     \/ ui.mode = "Calibrating" /\ Sends([kind |-> "AbortCalibration"])
  /\ UNCHANGED ui

\* Mutation: the floors are the user's and no status overwrites them.
SyncedToLimits(s) == [mode |-> s.mode, cap |-> s.cap, floors |-> ui.floors, tripped |-> s.tripped]

\* Mutation: the emergency is kept only in a mode that drives the limits.
SyncedWhileDriving(s) ==
  [mode |-> s.mode, cap |-> s.cap, floors |-> s.floors, tripped |-> s.tripped /\ s.mode # "Monitor"]

\* update on a Status: the controller's truth wins over the local copies.
Synced(s) == [mode |-> s.mode, cap |-> s.cap, floors |-> s.floors, tripped |-> s.tripped]

HearsStatus ==
  /\ events # <<>>
  /\ ui' = Synced(Head(events))
  /\ events' = Tail(events)
  /\ UNCHANGED <<ctl, cmds, unseen, unanswered>>

\* run: a burst is folded to its last status before it is drawn.
Draws ==
  LET shown == IF events = <<>> THEN ui ELSE Synced(events[Len(events)])
  IN /\ ui' = shown
     /\ events' = <<>>
     /\ unseen' = (unseen /\ ~shown.tripped)
     /\ UNCHANGED <<ctl, cmds, unanswered>>
-----------------------------------------------------------------------------
(* The controller.                                                         *)

Now == ctl.status

\* A change of the status is echoed; without one nothing is sent.
Echo(next, refused) ==
  /\ IF next = Now THEN events' = events /\ unanswered' = (unanswered \/ refused)
     ELSE /\ Len(events) < MaxQueue
          /\ events' = Append(events, next)
          /\ unanswered' = refused
  /\ ctl' = [ctl EXCEPT !.status = next,
                        !.back = IF next.mode = "Calibrating" /\ Now.mode # "Calibrating" THEN Now.mode ELSE @]

Actuating == {"SetCap", "AutoOn", "StartCalibration"}

\* The runner, and in Auto the loop, own actuation.
Rejected(c) ==
  \/ Now.mode = "Calibrating" /\ c.kind \notin {"StartCalibration", "AbortCalibration"}
  \/ Now.mode = "Auto" /\ c.kind = "SetCap"

Released(s) == [s EXCEPT !.mode = "Monitor", !.cap = None]

\* end_calibration from Monitor keeps the pair; the suspended session goes on with its own.
Ended(s) == [s EXCEPT !.mode = ctl.back]

\* What one accepted command makes of the status.
Done(c) ==
  CASE c.kind = "SetCap" -> [Now EXCEPT !.cap = c.cap, !.mode = "Manual"]
    [] c.kind = "SetFloors" -> [Now EXCEPT !.floors = c.floors]
    [] c.kind = "ReleaseAll" -> Released(Now)
    [] c.kind = "AutoOn" -> [Now EXCEPT !.mode = "Auto"]
    [] c.kind = "AutoOff" -> IF Now.mode = "Auto" THEN Released(Now) ELSE Now
    [] c.kind = "StartCalibration" -> IF Now.mode \in {"Monitor", "Auto"} THEN [Now EXCEPT !.mode = "Calibrating"] ELSE Now
    [] c.kind = "AbortCalibration" -> IF Now.mode = "Calibrating" THEN Ended(Now) ELSE Now

\* on_command.
HandlesCommand ==
  /\ cmds # <<>>
  /\ cmds' = Tail(cmds)
  /\ LET c == Head(cmds)
     IN IF Now.tripped /\ c.kind \in Actuating
        THEN Echo([Now EXCEPT !.tripped = FALSE], TRUE)
        ELSE IF Rejected(c) THEN Echo(Now, TRUE)
        ELSE \/ Echo(Done(c), FALSE)
             \/ c.kind = "SetCap" /\ Echo(Now, TRUE)
  /\ UNCHANGED <<ui, unseen>>

\* Auto and a calibration move the cap, a calibration ends.
LoopMoves ==
  /\ \/ Now.mode \in {"Auto", "Calibrating"} /\ \E cap \in Caps : Echo([Now EXCEPT !.cap = cap], FALSE)
     \/ Now.mode = "Calibrating" /\ Echo(Ended(Now), FALSE)
  /\ UNCHANGED <<ui, cmds, unseen>>

\* The watchdog trips with something commanded: the limits go, and what is on its way was pressed without knowing.
Trips ==
  /\ ~Now.tripped
  /\ Now.mode # "Monitor" \/ Now.cap # None
  /\ Echo([Released(Now) EXCEPT !.tripped = TRUE], FALSE)
  /\ cmds' = [i \in DOMAIN cmds |-> IF cmds[i].kind = "SetCap" THEN [cmds[i] EXCEPT !.blind = TRUE] ELSE cmds[i]]
  /\ unseen' = TRUE
  /\ UNCHANGED ui

Next == \/ StepCap \/ StepFloor \/ Pause \/ PressMode \/ HearsStatus \/ Draws
        \/ HandlesCommand \/ LoopMoves \/ Trips

Spec == Init /\ [][Next]_vars

\* The main thread goes on drawing.
FairSpec == Spec /\ WF_vars(Draws)
-----------------------------------------------------------------------------
(* Properties.                                                             *)

\* When both channels have run dry and no command was refused since the last status, the copies that the next press
\* steps from are what the controller has: no crossing of keys and statuses leaves them apart for longer.
CopiesAgree ==
  /\ TypeOK
  /\ cmds = <<>> /\ events = <<>> /\ ~unanswered
       => ui.mode = Now.mode /\ ui.cap = Now.cap /\ ui.floors = Now.floors

\* The strengthening.  The last status on its way is the controller's.
NewsIsCurrent == events # <<>> => events[Len(events)] = Now

\* What the last pending command that sets the cap, or the floors, sets them to.
CapSetters == {i \in DOMAIN cmds : cmds[i].kind \in {"SetCap", "ReleaseAll"}}
FloorSetters == {i \in DOMAIN cmds : cmds[i].kind = "SetFloors"}
CapOf(c) == IF c.kind = "SetCap" THEN c.cap ELSE None
LastSets(i, setters) == i \in setters /\ \A j \in setters : j <= i

\* With no status on its way and nothing refused, a copy is the controller's own or what the last
\* pending command will make it.
CopiesLead ==
  events = <<>> /\ ~unanswered =>
    /\ ui.mode = Now.mode
    /\ ui.cap = Now.cap \/ \E i \in DOMAIN cmds : LastSets(i, CapSetters) /\ ui.cap = CapOf(cmds[i])
    /\ ui.floors = Now.floors
       \/ \E i \in DOMAIN cmds : LastSets(i, FloorSetters) /\ ui.floors = cmds[i].floors

IInv == TypeOK /\ NewsIsCurrent /\ CopiesLead

\* A trip is drawn, unless a command that was on its way acknowledges it first.
TripsAreShown == unseen /\ Now.tripped ~> ~unseen \/ ~Now.tripped

\* After a trip a cap is put in force only by a press that was made with the emergency on the screen.
LimitsAreConscious ==
  [][cmds # <<>> /\ Now.mode # "Manual" /\ ctl'.status.mode = "Manual" => ~Head(cmds).blind]_vars
=============================================================================
