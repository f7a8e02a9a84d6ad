----------------------------- MODULE KafkaTopic -----------------------------
(***************************************************************************)
(* A Kafka topic as the services see it: at-least-once and unordered.      *)
(*                                                                         *)
(* Producers balance with LeastBytes and ignore the key, so two messages   *)
(* on a topic have no order (producer.go): a topic is a function from the  *)
(* messages that can be written to it to                                   *)
(*   "none"       never written;                                           *)
(*   "queued"     written, and some copy's offset is not committed;        *)
(*   "committed"  the offset of every copy is committed.                   *)
(* A copy written while another is queued is merged with it; the fault     *)
(* "duplicate" keeps a message queued at its commit, for the copy that is  *)
(* still to be delivered.                                                  *)
(***************************************************************************)

MessageState == {"none", "queued", "committed"}

Empty(Messages) == [m \in Messages |-> "none"]

Queue(topic, m) == [topic EXCEPT ![m] = "queued"]

(* The topics a Producer.Write may leave behind when it returns an error.  *)
FailedWrite(topic, m, Faults) ==
  {t \in {topic, Queue(topic, m)} :
     \/ t = topic /\ "writeLost" \in Faults
     \/ t = Queue(topic, m) /\ "writeUnknown" \in Faults}

Committed(topic, m) == [topic EXCEPT ![m] = "committed"]

(* The topics a successful CommitMessages may leave behind.                *)
AfterCommit(topic, m, Faults) ==
  {t \in {topic, Committed(topic, m)} :
     t = topic => "duplicate" \in Faults}

Published(topic, m) == topic[m] # "none"
=============================================================================
