-------------------------- MODULE MCPaymentService --------------------------
(* Small instances of PaymentService for TLC.                              *)
EXTENDS PaymentService, TLC

CONSTANTS r1, r2, t1, t2, t3, noAmount

TwoOrders == (t1 :> r1) @@ (t2 :> r1) @@ (t3 :> r2)

AllFaults == {"restart", "writeLost", "writeUnknown", "replyLost"}
=============================================================================
