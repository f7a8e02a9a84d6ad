--------------------------- MODULE MCOrderAmount ---------------------------
(* A small instance of OrderAmount for TLC: 5-bit integers, a column of 3  *)
(* digits, and floats of 13 bits.                                          *)
EXTENDS OrderAmount

AllPrices == 0 .. 15
AllNums   == 1 .. 15
AllCents  == 1 .. 1001

PowersOfTwo == {2 ^ i : i \in 0 .. 20}
=============================================================================
