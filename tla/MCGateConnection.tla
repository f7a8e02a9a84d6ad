-------------------------- MODULE MCGateConnection --------------------------
(* Small instances of GateConnection for TLC.                              *)
EXTENDS GateConnection

CONSTANTS c1, c2, h1, s1, s2, reader, shutdown, none

(* The ids are alike: the first call is given the first.                   *)
FirstOrBoth == [c \in {c1, c2} |-> IF c = c1 THEN {s1} ELSE {s1, s2}]

AllFaults == {"write", "stall"}
=============================================================================
