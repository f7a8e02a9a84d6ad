--------------------------- MODULE MCControlPlane ---------------------------
(* Small instances of ControlPlane for TLC.                                *)
EXTENDS ControlPlane

CONSTANTS i1, i2, l1, l2, noLease

AllFaults == {"timeout", "partition", "read", "watch", "restart"}
=============================================================================
