-------------------------- MODULE MCRefundService --------------------------
(* A small instance of RefundRecovery for TLC.                             *)
EXTENDS RefundRecovery

CONSTANTS t1, p1, p2, noTxn

AllFaults == {"restart", "rebalance", "duplicate", "commit", "database", "replyLost",
              "gateway"}
=============================================================================
