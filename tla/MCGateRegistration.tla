------------------------- MODULE MCGateRegistration -------------------------
(* Small instances of GateRegistration for TLC.                            *)
EXTENDS GateRegistration

CONSTANTS g1, g2, c1, c2, l1, l2, none

AllAskOne == [c \in {c1, c2} |-> 1]

AllFaults == {"call", "slow", "partition", "die"}
=============================================================================
