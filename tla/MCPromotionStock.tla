-------------------------- MODULE MCPromotionStock --------------------------
(* A small instance of StockRecovery for TLC.                               *)
EXTENDS StockRecovery, TLC

CONSTANTS r1, r2, r3, u1, u2, c1, c2, p1, noRequest

TwoUsers == (r1 :> u1) @@ (r2 :> u1) @@ (r3 :> u2)
TwoOneTwo == (r1 :> 2) @@ (r2 :> 1) @@ (r3 :> 2)

AllowedFaults == {"restart", "rebalance", "duplicate", "writeLost", "commit", "redis"}
=============================================================================
