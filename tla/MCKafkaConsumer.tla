--------------------------- MODULE MCKafkaConsumer ---------------------------
(* Small instances of KafkaConsumer for TLC.                               *)
EXTENDS KafkaConsumer

CONSTANTS p1, p2
=============================================================================
