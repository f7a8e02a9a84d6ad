--------------------------- MODULE KafkaConsumer ---------------------------
(***************************************************************************)
(* servicekit/kafka: the loop that every consumer of the services runs     *)
(* over one partition of its topic.  Consumer.Run fetches a message, hands *)
(* it to the handler with a CommitFunc, and returns, for good, when the    *)
(* fetch or the handler returns an error; nobody calls Run again.  A       *)
(* repeated call of the CommitFunc answers what the first one did and      *)
(* changes nothing.                                                        *)
(*                                                                         *)
(* The partition, the offset the group has committed and the assignment of *)
(* the partition to a process are Kafka's, and external.  A process that   *)
(* has lost the partition may still finish what it had fetched, and its    *)
(* commit then fails or overwrites the group's offset.                     *)
(***************************************************************************)
EXTENDS Naturals

CONSTANTS
  Processes,     \* members of the consumer group
  MaxMessages,   \* bound on the messages written, for TLC
  Faults         \* restart, rebalance, commit, fetch, and handler: a handler fails

ASSUME ConsumerAssumption == MaxMessages \in Nat

VARIABLES
  written,       \* messages in the partition, with offsets 1 .. written
  committed,     \* the last offset the group has committed
  handled,       \* offsets whose handling has taken effect
  owner,         \* the process the partition is assigned to
  reader         \* the loop in each process

vars == <<written, committed, handled, owner, reader>>

(* position is the last offset fetched; it is what handle and commit are   *)
(* about.                                                                  *)
TypeOK ==
  /\ written \in Nat
  /\ committed \in Nat
  /\ handled \subseteq Nat \ {0}
  /\ owner \in Processes
  /\ reader \in [Processes -> [pc : {"fetch", "handle", "commit", "stopped"}, position : Nat]]

Init ==
  /\ written = 0
  /\ committed = 0
  /\ handled = {}
  /\ owner \in Processes
  /\ reader = [p \in Processes |-> [pc |-> "fetch", position |-> 0]]

Reader(p, pc) == reader' = [reader EXCEPT ![p].pc = pc]

Write ==
  /\ written < MaxMessages
  /\ written' = written + 1
  /\ UNCHANGED <<committed, handled, owner, reader>>

(* The group gives the partition to p, whose reader resumes after the      *)
(* committed offset unless it is still busy with what it had fetched.      *)
Rebalance(p) ==
  /\ "rebalance" \in Faults
  /\ owner # p
  /\ reader[p].pc \in {"fetch", "stopped"}
  /\ owner' = p
  /\ reader' = [reader EXCEPT ![p].position = committed]
  /\ UNCHANGED <<written, committed, handled>>

(* Mutant: Run reads with ReadMessage, which commits what it has fetched.   *)
FetchCommits(p) ==
  /\ reader[p].pc = "fetch"
  /\ owner = p
  /\ reader[p].position < written
  /\ reader' = [reader EXCEPT ![p] = [pc |-> "handle", position |-> @.position + 1]]
  /\ committed' = reader[p].position + 1
  /\ UNCHANGED <<written, handled, owner>>

FetchMessage(p) ==
  /\ reader[p].pc = "fetch"
  /\ owner = p
  /\ reader[p].position < written
  /\ reader' = [reader EXCEPT ![p] = [pc |-> "handle", position |-> @.position + 1]]
  /\ UNCHANGED <<written, committed, handled, owner>>

(* A fetch that fails ends the loop.                                       *)
FetchFails(p) ==
  /\ "fetch" \in Faults
  /\ reader[p].pc = "fetch"
  /\ Reader(p, "stopped")
  /\ UNCHANGED <<written, committed, handled, owner>>

(* Mutant: Run goes on with the next message when the handler has failed.  *)
HandleGoesOn(p) ==
  /\ reader[p].pc = "handle"
  /\ \/ handled' = handled \cup {reader[p].position} /\ Reader(p, "commit")
     \/ "handler" \in Faults /\ UNCHANGED handled /\ Reader(p, "fetch")
  /\ UNCHANGED <<written, committed, owner>>

(* The handler does its work and calls commit, as every handler of the     *)
(* services does before it returns nil; or it fails, with or without an    *)
(* effect, and ends the loop.                                              *)
Handle(p) ==
  /\ reader[p].pc = "handle"
  /\ \/ handled' = handled \cup {reader[p].position} /\ Reader(p, "commit")
     \/ /\ "handler" \in Faults
        /\ handled' \in {handled, handled \cup {reader[p].position}}
        /\ Reader(p, "stopped")
  /\ UNCHANGED <<written, committed, owner>>

(* CommitMessages commits everything up to the offset.                     *)
Commit(p) ==
  /\ reader[p].pc = "commit"
  /\ \/ committed' = reader[p].position /\ Reader(p, "fetch")
     \/ /\ owner # p \/ "commit" \in Faults
        /\ committed' \in {committed, reader[p].position}
        /\ Reader(p, "stopped")
  /\ UNCHANGED <<written, handled, owner>>

(* A process dies, and starts again where the group has committed.         *)
Restart(p) ==
  /\ "restart" \in Faults
  /\ reader' = [reader EXCEPT ![p] = [pc |-> "fetch", position |-> committed]]
  /\ UNCHANGED <<written, committed, handled, owner>>

Run(p) == FetchMessage(p) \/ FetchFails(p) \/ Handle(p) \/ Commit(p)

Next == Write \/ \E p \in Processes : Run(p) \/ Rebalance(p) \/ Restart(p)

Spec == Init /\ [][Next]_vars

(* A process is not killed, nor the partition taken away, every time that  *)
(* it has work to do.                                                      *)
FairSpec ==
  Spec /\ \A p \in Processes : SF_vars(FetchMessage(p)) /\ SF_vars(Handle(p)) /\ SF_vars(Commit(p))
-----------------------------------------------------------------------------
(* Delivery is at least once: whatever the group has committed was handled.*)
(* It survives stale commits, which can move the committed offset back.    *)
AtLeastOnce == \A i \in 1 .. committed : i \in handled

(* No message is left behind: everything a loop has passed by was handled, *)
(* so that a commit, which covers all lower offsets, may be made at any    *)
(* time.                                                                   *)
NoneSkipped ==
  \A p \in Processes :
    LET done == IF reader[p].pc \in {"handle", "stopped"} THEN reader[p].position - 1
                ELSE reader[p].position
    IN \A i \in 1 .. done : i \in handled

(* What is written is handled, through deaths and rebalances, unless a     *)
(* loop ends because its fetch, its handler or its commit has failed.      *)
SomeStopped == \E p \in Processes : reader[p].pc = "stopped"

Delivered == \A i \in 1 .. MaxMessages : written >= i ~> (i \in handled \/ SomeStopped)
=============================================================================
