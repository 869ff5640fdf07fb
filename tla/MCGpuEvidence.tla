---------------------------- MODULE MCGpuEvidence ----------------------------
(* Three locks: a downward and an upward change on either side of one.     *)
EXTENDS GpuEvidence
=============================================================================
