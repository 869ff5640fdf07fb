---------------------------- MODULE CapAuthority ----------------------------
(***************************************************************************)
(* What the controller promises about the authority to cap the hardware:   *)
(* limits are in force only on command, a watchdog trip takes the          *)
(* authority away at once, and only a user's acknowledgement, a step that  *)
(* commands nothing, gives it back.  Controller.tla implements this.       *)
(***************************************************************************)
VARIABLE authority

States == {"none", "commanded", "latched", "over"}

Init == authority = "none"

\* A command puts a limit or a controlling mode in force.
Take == authority = "none" /\ authority' = "commanded"

\* Everything is released, by the user or because nothing is left to command.
Give == authority = "commanded" /\ authority' = "none"

\* The watchdog releases what was commanded and latches.
Trip == authority = "commanded" /\ authority' = "latched"

\* The acknowledgement re-arms; it never goes straight back to commanding.
Acknowledge == authority = "latched" /\ authority' = "none"

\* The controller thread ends.
Stop == authority # "over" /\ authority' = "over"

Next == Take \/ Give \/ Trip \/ Acknowledge \/ Stop

Spec == Init /\ [][Next]_authority
=============================================================================
