--------------------------- MODULE MCOrderService ---------------------------
(* Small instances of OrderService for TLC.                                *)
EXTENDS OrderService

CONSTANTS r1, t1, t2, p1, noRequest, noReport

OneOrder == [t \in {t1, t2} |-> r1]

CancelOnly == {[target |-> "CANCELLED", reason |-> TRUE]}

AnsweredStatements == FaultKinds \ {"database", "replyLost"}
=============================================================================
