--------------------------- MODULE RefundService ---------------------------
(***************************************************************************)
(* Refunds in the pay service: the refund_report consumer, which turns a   *)
(* report into a row of payment_refund, and the refund task, which asks    *)
(* the channel what became of every row that is RUNNING and requests the   *)
(* refund again when it was not made.  A refund number is derived from its *)
(* transaction, so a refund is identified by its transaction.              *)
(*                                                                         *)
(* The channel is external: a Gateway (refund/task.go) with two calls.     *)
(* MockGateway, the only one in the repository, refuses every request; it  *)
(* is the instance with Accepts = FALSE.                                   *)
(***************************************************************************)
EXTENDS KafkaTopic

CONSTANTS
  Txns,
  Processes,     \* running instances of the pay service
  Accepts,       \* does the channel ever accept a refund request
  Faults,        \* restart, rebalance, duplicate, commit, database and
                 \* replyLost as in OrderService; gateway: a call to the
                 \* channel fails, with or without its effect
  NoTxn

ASSUME RefundAssumption ==
  /\ Accepts \in BOOLEAN
  /\ NoTxn \notin Txns

VARIABLES
  refundTopic,   \* refund_report
  refund,        \* payment_refund: the status of each row
  waiting,       \* rows whose next_retry_at is in the future
  channel,       \* what the channel knows of each refund
  refunder,      \* the consumer of each process
  task           \* the refund task of each process

refundVars == <<refundTopic, refund, waiting, channel, refunder, task>>

RefundStatus  == {"none", "RUNNING", "SUCCESS"}
ChannelStatus == {"none", "accepted", "returned"}

IdleRefunder == [pc |-> "idle", txn |-> NoTxn]
IdleTask ==
  [pc |-> "idle", toQuery |-> {}, success |-> {}, toExecute |-> {}, cur |-> NoTxn]

RefundTypeOK ==
  /\ refundTopic \in [Txns -> MessageState]
  /\ refund \in [Txns -> RefundStatus]
  /\ waiting \subseteq Txns
  /\ channel \in [Txns -> ChannelStatus]
  /\ refunder \in [Processes -> [pc : {"idle", "stopped"}, txn : {NoTxn}]
                                  \cup [pc : {"insert", "commit"}, txn : Txns]]
  /\ task \in [Processes -> [pc : {"idle", "query", "update", "execute", "retry"},
                             toQuery : SUBSET Txns, success : SUBSET Txns,
                             toExecute : SUBSET Txns, cur : Txns \cup {NoTxn}]]

RefundInit ==
  /\ refund = [t \in Txns |-> "none"]
  /\ waiting = {}
  /\ channel = [t \in Txns |-> "none"]
  /\ refunder = [p \in Processes |-> IdleRefunder]
  /\ task = [p \in Processes |-> IdleTask]

-----------------------------------------------------------------------------
(* The refund_report consumer.                                             *)

RefunderStop(p) ==
  refunder' = [refunder EXCEPT ![p] = [pc |-> "stopped", txn |-> NoTxn]]

RefundFetch(p, t) ==
  /\ refunder[p].pc = "idle"
  /\ refundTopic[t] = "queued"
  /\ "rebalance" \in Faults \/ \A q \in Processes : refunder[q].txn # t
  /\ refunder' = [refunder EXCEPT ![p] = [pc |-> "insert", txn |-> t]]
  /\ UNCHANGED <<refundTopic, refund, waiting, channel, task>>

(* Mutants: any insert error, and not only a duplicate key, counts as done;*)
(* a row that exists is written again.                                     *)
RefundInsertIgnoresError(p) ==
  /\ refunder[p].pc = "insert"
  /\ LET t == refunder[p].txn IN
     refund' \in {[refund EXCEPT ![t] = "RUNNING"]}
                   \cup (IF "database" \in Faults THEN {refund} ELSE {})
  /\ refunder' = [refunder EXCEPT ![p].pc = "commit"]
  /\ UNCHANGED <<refundTopic, waiting, channel, task>>
RefundInsertReplaces(p) ==
  /\ refunder[p].pc = "insert"
  /\ refund' = [refund EXCEPT ![refunder[p].txn] = "RUNNING"]
  /\ refunder' = [refunder EXCEPT ![p].pc = "commit"]
  /\ UNCHANGED <<refundTopic, waiting, channel, task>>

(* A duplicate key means the row is there: it is left as it is.            *)
RefundInsert(p) ==
  /\ refunder[p].pc = "insert"
  /\ LET t == refunder[p].txn
         inserted == IF refund[t] = "none" THEN [refund EXCEPT ![t] = "RUNNING"] ELSE refund
     IN \/ refund' = inserted /\ refunder' = [refunder EXCEPT ![p].pc = "commit"]
        \/ "database" \in Faults /\ UNCHANGED refund /\ RefunderStop(p)
        \/ "replyLost" \in Faults /\ refund' = inserted /\ RefunderStop(p)
  /\ UNCHANGED <<refundTopic, waiting, channel, task>>

RefundCommit(p) ==
  /\ refunder[p].pc = "commit"
  /\ \/ /\ refundTopic' \in AfterCommit(refundTopic, refunder[p].txn, Faults)
        /\ refunder' = [refunder EXCEPT ![p] = IdleRefunder]
     \/ "commit" \in Faults /\ RefunderStop(p) /\ UNCHANGED refundTopic
  /\ UNCHANGED <<refund, waiting, channel, task>>

Consume(p) ==
  (\E t \in Txns : RefundFetch(p, t)) \/ RefundInsert(p) \/ RefundCommit(p)

-----------------------------------------------------------------------------
(* The refund task.  RunBatch reads the due rows, queries the channel for  *)
(* every one of them, records the successes in one update, and then asks   *)
(* for the remaining refunds one by one.                                   *)

taskFrame == <<refundTopic, refunder>>

Task(p, next) == task' = [task EXCEPT ![p] = next]

Due == {t \in Txns : refund[t] = "RUNNING" /\ t \notin waiting}

BatchStart(p) ==
  /\ task[p].pc = "idle"
  /\ Due # {}
  /\ Task(p, [IdleTask EXCEPT !.pc = "query", !.toQuery = Due])
  /\ UNCHANGED <<refund, waiting, channel, taskFrame>>

(* Mutant: a refund that the channel is working on counts as made.         *)
BatchQueryTrustsRunning(p, t) ==
  /\ task[p].pc = "query"
  /\ t \in task[p].toQuery
  /\ Task(p, IF channel[t] # "none"
               THEN [task[p] EXCEPT !.toQuery = @ \ {t}, !.success = @ \cup {t}]
               ELSE [task[p] EXCEPT !.toQuery = @ \ {t}, !.toExecute = @ \cup {t}])
  /\ UNCHANGED <<refund, waiting, channel, taskFrame>>

(* QueryRefund: SUCCESS when the money was returned; RUNNING, FAILED and   *)
(* an error are treated alike.                                             *)
BatchQuery(p, t) ==
  /\ task[p].pc = "query"
  /\ t \in task[p].toQuery
  /\ \/ /\ channel[t] = "returned"
        /\ Task(p, [task[p] EXCEPT !.toQuery = @ \ {t}, !.success = @ \cup {t}])
     \/ /\ channel[t] # "returned" \/ "gateway" \in Faults
        /\ Task(p, [task[p] EXCEPT !.toQuery = @ \ {t}, !.toExecute = @ \cup {t}])
  /\ UNCHANGED <<refund, waiting, channel, taskFrame>>

(* Mutant: the successes of a batch are not written.                       *)
BatchUpdateOmitted(p) ==
  /\ task[p].pc = "query"
  /\ task[p].toQuery = {}
  /\ Task(p, [task[p] EXCEPT !.pc = "execute", !.success = {}])
  /\ UNCHANGED <<refund, waiting, channel, taskFrame>>

(* The successes are recorded where the row is still RUNNING; a failure    *)
(* abandons the batch.                                                     *)
BatchUpdate(p) ==
  /\ task[p].pc = "query"
  /\ task[p].toQuery = {}
  /\ LET updated == [t \in Txns |-> IF t \in task[p].success /\ refund[t] = "RUNNING"
                                      THEN "SUCCESS" ELSE refund[t]]
     IN \/ /\ refund' = updated
           /\ Task(p, [task[p] EXCEPT !.pc = "execute", !.success = {}])
        \/ /\ task[p].success # {}
           /\ \/ "database" \in Faults /\ UNCHANGED refund
              \/ "replyLost" \in Faults /\ refund' = updated
           /\ Task(p, IdleTask)
  /\ UNCHANGED <<waiting, channel, taskFrame>>

(* Refund: accepted and answered, or an error.  A request for a refund the *)
(* channel knows already changes nothing there (it is keyed by refund_no). *)
BatchExecute(p, t) ==
  /\ task[p].pc = "execute"
  /\ t \in task[p].toExecute
  /\ LET accepted == [channel EXCEPT ![t] = IF @ = "none" THEN "accepted" ELSE @]
         rest == [task[p] EXCEPT !.toExecute = @ \ {t}]
     IN \/ Accepts /\ channel' = accepted /\ Task(p, rest)
        \/ /\ ~ Accepts \/ "gateway" \in Faults
           /\ channel' \in {channel} \cup (IF Accepts THEN {accepted} ELSE {})
           /\ Task(p, [rest EXCEPT !.pc = "retry", !.cur = t])
  /\ UNCHANGED <<refund, waiting, taskFrame>>

(* A failed request is put off: next_retry_at moves while the row RUNs.    *)
BatchRetry(p) ==
  /\ task[p].pc = "retry"
  /\ LET t == task[p].cur
         putOff == IF refund[t] = "RUNNING" THEN waiting \cup {t} ELSE waiting
     IN \/ /\ waiting' = putOff
           /\ Task(p, [task[p] EXCEPT !.pc = "execute", !.cur = NoTxn])
        \/ /\ \/ "database" \in Faults /\ UNCHANGED waiting
              \/ "replyLost" \in Faults /\ waiting' = putOff
           /\ Task(p, IdleTask)
  /\ UNCHANGED <<refund, channel, taskFrame>>

BatchEnd(p) ==
  /\ task[p].pc = "execute"
  /\ task[p].toExecute = {}
  /\ Task(p, IdleTask)
  /\ UNCHANGED <<refund, waiting, channel, taskFrame>>

Batch(p) ==
  \/ BatchStart(p) \/ BatchUpdate(p) \/ BatchRetry(p) \/ BatchEnd(p)
  \/ \E t \in Txns : BatchQuery(p, t) \/ BatchExecute(p, t)

-----------------------------------------------------------------------------
RefundRestart(p) ==
  /\ "restart" \in Faults
  /\ refunder' = [refunder EXCEPT ![p] = IdleRefunder]
  /\ Task(p, IdleTask)
  /\ UNCHANGED <<refundTopic, refund, waiting, channel>>

(* next_retry_at passes.                                                   *)
RetryDue(t) ==
  /\ t \in waiting
  /\ waiting' = waiting \ {t}
  /\ UNCHANGED <<refundTopic, refund, channel, refunder, task>>

(* The channel pays back what it accepted.                                 *)
Return(t) ==
  /\ channel[t] = "accepted"
  /\ channel' = [channel EXCEPT ![t] = "returned"]
  /\ UNCHANGED <<refundTopic, refund, waiting, refunder, task>>

RefundNext ==
  \/ \E p \in Processes : Consume(p) \/ Batch(p) \/ RefundRestart(p)
  \/ \E t \in Txns : RetryDue(t) \/ Return(t)

-----------------------------------------------------------------------------
(* The service on its own: the order service asks for refunds.             *)
Init == RefundInit /\ refundTopic = Empty(Txns)

RefundRequested(t) ==
  /\ refundTopic[t] = "none" \/ "duplicate" \in Faults
  /\ refundTopic' = Queue(refundTopic, t)
  /\ UNCHANGED <<refund, waiting, channel, refunder, task>>

Next == RefundNext \/ \E t \in Txns : RefundRequested(t)

Spec == Init /\ [][Next]_refundVars
-----------------------------------------------------------------------------
(* No refund is forgotten: every copy of its report is acknowledged only   *)
(* after the row is there, and there is no row without a report.           *)
RefundsRecorded ==
  \A t \in Txns :
    /\ refundTopic[t] = "committed" => refund[t] # "none"
    /\ refund[t] # "none" => Published(refundTopic, t)

(* A refund is recorded as made only when the channel has made it, and the *)
(* channel is asked only for refunds that were recorded.                   *)
RefundsReal ==
  \A t \in Txns :
    /\ refund[t] = "SUCCESS" => channel[t] = "returned"
    /\ channel[t] # "none" => refund[t] # "none"

(* A refund that was made is never asked for again by starting over: its   *)
(* row never leaves SUCCESS, whatever is redelivered.                      *)
RefundKept == \A t \in Txns : refund[t] = "SUCCESS" => refund'[t] = "SUCCESS"

RefundFinal == [][RefundKept]_refundVars

=============================================================================
