---------------------------- MODULE MCDeviceLoop ----------------------------
(* DeviceLoop for TLC. *)
EXTENDS DeviceLoop

MCFloors == {0, 2}
MCDraws == {0, 1}
=============================================================================
