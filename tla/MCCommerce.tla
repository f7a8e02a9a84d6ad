----------------------------- MODULE MCCommerce -----------------------------
(* A small instance of Commerce for TLC.                                   *)
EXTENDS Commerce

CONSTANTS r1, t1, p1, noRequest, noReport, noAmount, noTxn

OneOrder == [t \in {t1} |-> r1]

PublishFaults == {"restart", "writeUnknown"}

UnpaidCalls == { [target |-> "CANCELLED", reason |-> TRUE],
                 [target |-> "CLOSED", reason |-> FALSE] }
=============================================================================
