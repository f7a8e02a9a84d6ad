--------------------------- MODULE MCOrderRecovery --------------------------
(* The instances of MCOrderService, in two phases.                         *)
EXTENDS MCOrderService, OrderRecovery
=============================================================================
