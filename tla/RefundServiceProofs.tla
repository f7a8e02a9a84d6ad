------------------------- MODULE RefundServiceProofs -------------------------
(***************************************************************************)
(* Theorems about RefundService and RefundRecovery, for any number of      *)
(* refunds and processes, any set of faults, and a channel that accepts    *)
(* requests or refuses them.                                               *)
(***************************************************************************)
EXTENDS RefundRecovery, TLAPS

USE RefundAssumption

-----------------------------------------------------------------------------
(* The inductive invariant: the consumer and the task act on what they     *)
(* learned at an earlier step, which no step of another process undoes.    *)

(* A consumer works on a report that was written, and commits it when its  *)
(* row is there.                                                           *)
RefunderKnows ==
  \A p \in Processes :
    LET t == refunder[p].txn IN
    /\ refunder[p].pc \in {"insert", "commit"} => Published(refundTopic, t)
    /\ refunder[p].pc = "commit" => refund[t] # "none"

RefunderState ==
  [pc : {"idle", "stopped"}, txn : {NoTxn}] \cup [pc : {"insert", "commit"}, txn : Txns]

TaskRecord ==
  [pc : {"idle", "query", "update", "execute", "retry"}, toQuery : SUBSET Txns,
   success : SUBSET Txns, toExecute : SUBSET Txns, cur : Txns \cup {NoTxn}]

(* A task queries and requests refunds that have a row, and takes for made *)
(* only what the channel has returned.                                     *)
Sound(s, rows, channelOf) ==
  /\ \A t \in s.toQuery \cup s.toExecute : rows[t] # "none"
  /\ \A t \in s.success : channelOf[t] = "returned"
  /\ s.pc = "retry" => s.cur \in Txns

TaskKnows == \A p \in Processes : Sound(task[p], refund, channel)

RefundInv ==
  RefundTypeOK /\ RefundsRecorded /\ RefundsReal /\ RefunderKnows /\ TaskKnows

(* What no step undoes: a written report, a row, a returned refund.        *)
Grows ==
  \A t \in Txns : /\ Published(refundTopic, t) => Published(refundTopic, t)'
                  /\ refund[t] # "none" => refund'[t] # "none"
                  /\ channel[t] = "returned" => channel'[t] = "returned"

-----------------------------------------------------------------------------
(* A refund that was acknowledged and the refunds that are done, when the  *)
(* topic, the rows and the channel stay as they are.                       *)
LEMMA SameRecords ==
  ASSUME RefundInv, refundTopic' = refundTopic, refund' = refund, channel' = channel
  PROVE  RefundsRecorded' /\ RefundsReal' /\ RefundKept /\ Grows
BY DEF RefundInv, RefundsRecorded, RefundsReal, RefundKept, Grows, Published

(* What is sound stays sound.                                              *)
LEMMA StaysSound ==
  ASSUME RefundInv, Grows, NEW q \in Processes
  PROVE  Sound(task[q], refund', channel')
<1>1. task[q] \in TaskRecord /\ Sound(task[q], refund, channel)
  BY DEF RefundInv, RefundTypeOK, TaskRecord, TaskKnows
<1> QED BY <1>1 DEF Sound, Grows, TaskRecord

(* Tasks that do not move keep what they know.                             *)
LEMMA TasksStay ==
  ASSUME RefundInv, Grows, task' = task
  PROVE  TaskKnows'
BY StaysSound DEF TaskKnows

(* A task that moves to a sound state, while the others stay.              *)
LEMMA TaskMoves ==
  ASSUME RefundInv, Grows, NEW p \in Processes, NEW s \in TaskRecord, Task(p, s),
         Sound(s, refund', channel')
  PROVE  TaskKnows' /\ task' \in [Processes -> TaskRecord]
<1>1. task \in [Processes -> TaskRecord]
  BY DEF RefundInv, RefundTypeOK, TaskRecord
<1>2. task' \in [Processes -> TaskRecord] /\ task'[p] = s
        /\ \A q \in Processes : q # p => task'[q] = task[q]
  BY <1>1 DEF Task
<1>3. \A q \in Processes : Sound(task'[q], refund', channel')
  BY <1>2, StaysSound
<1> QED BY <1>2, <1>3 DEF TaskKnows

(* Consumers that do not move keep what they know.                         *)
LEMMA RefundersStay ==
  ASSUME RefundInv, Grows, refunder' = refunder
  PROVE  RefunderKnows'
<1>1. \A p \in Processes : refunder[p].pc \in {"insert", "commit"} => refunder[p].txn \in Txns
  BY DEF RefundInv, RefundTypeOK
<1> QED BY <1>1 DEF RefundInv, RefunderKnows, Grows

(* A consumer that goes idle or stops, while the others stay.              *)
LEMMA RefunderRests ==
  ASSUME RefundInv, Grows, NEW p \in Processes,
         refunder' = [refunder EXCEPT ![p] = IdleRefunder] \/ RefunderStop(p)
  PROVE  /\ RefunderKnows'
         /\ refunder' \in [Processes -> RefunderState]
<1>1. \A q \in Processes : refunder[q].pc \in {"insert", "commit"} => refunder[q].txn \in Txns
  BY DEF RefundInv, RefundTypeOK
<1>2. PICK rest \in [pc : {"idle", "stopped"}, txn : {NoTxn}] :
        refunder' = [refunder EXCEPT ![p] = rest]
  BY DEF IdleRefunder, RefunderStop
<1>3. refunder \in [Processes -> RefunderState] /\ rest \in RefunderState
  BY DEF RefundInv, RefundTypeOK, RefunderState
<1>4. /\ refunder' \in [Processes -> RefunderState]
      /\ refunder'[p].pc \in {"idle", "stopped"}
      /\ \A q \in Processes : q # p => refunder'[q] = refunder[q]
  BY <1>2, <1>3
<1>5. RefunderKnows'
  BY <1>1, <1>4 DEF RefundInv, RefunderKnows, Grows
<1> QED BY <1>4, <1>5

-----------------------------------------------------------------------------
(* The consumer. *)

(* A consumer that takes a report knows that it was published.             *)
LEMMA FetchStep ==
  ASSUME RefundInv, NEW p \in Processes, NEW t \in Txns, RefundFetch(p, t)
  PROVE  RefundInv' /\ RefundKept
<1>1. /\ refundTopic' = refundTopic /\ refund' = refund /\ waiting' = waiting
      /\ channel' = channel /\ task' = task /\ refundTopic[t] = "queued"
      /\ refunder' = [refunder EXCEPT ![p] = [pc |-> "insert", txn |-> t]]
  BY DEF RefundFetch
<1>2. RefundTypeOK'
  BY <1>1 DEF RefundInv, RefundTypeOK
<1>3. RefunderKnows'
  BY <1>1 DEF RefundInv, RefundTypeOK, RefunderKnows, Published
<1> QED BY <1>1, <1>2, <1>3, SameRecords, TasksStay DEF RefundInv

(* The row is inserted or found before the consumer goes on to commit.     *)
LEMMA InsertStep ==
  ASSUME RefundInv, NEW p \in Processes, RefundInsert(p)
  PROVE  RefundInv' /\ RefundKept
<1> DEFINE t == refunder[p].txn
<1>1. /\ t \in Txns /\ Published(refundTopic, t)
      /\ refunder[p].pc = "insert"
      /\ refundTopic' = refundTopic /\ waiting' = waiting /\ channel' = channel /\ task' = task
  BY DEF RefundInsert, RefundInv, RefundTypeOK, RefunderKnows
<1>2. /\ refund' \in [Txns -> RefundStatus]
      /\ \A u \in Txns : u # t => refund'[u] = refund[u]
      /\ refund[t] # "none" => refund'[t] = refund[t]
      /\ refund[t] = "none" => refund'[t] \in {"none", "RUNNING"}
  BY <1>1 DEF RefundInsert, RefundInv, RefundTypeOK, RefundStatus
<1>3. \/ refunder' = [refunder EXCEPT ![p].pc = "commit"] /\ refund'[t] # "none"
      \/ RefunderStop(p)
  BY <1>1 DEF RefundInsert, RefundInv, RefundTypeOK, RefundStatus
<1> HIDE DEF t
<1>4. Grows /\ RefundKept
  BY <1>1, <1>2 DEF Grows, RefundKept, Published
<1>5. RefunderKnows' /\ refunder' \in [Processes -> RefunderState]
  <2>1. CASE RefunderStop(p)
    BY <1>4, <2>1, RefunderRests
  <2>2. CASE refunder' = [refunder EXCEPT ![p].pc = "commit"] /\ refund'[t] # "none"
    <3>1. refunder[p] \in [pc : {"insert", "commit"}, txn : Txns]
      BY <1>1 DEF RefundInv, RefundTypeOK
    <3>2. /\ refunder'[p] = [pc |-> "commit", txn |-> t]
          /\ \A q \in Processes : q # p => refunder'[q] = refunder[q]
      BY <2>2, <3>1 DEF RefundInv, RefundTypeOK, t
    <3>3. \A q \in Processes : refunder[q].pc \in {"insert", "commit"} => refunder[q].txn \in Txns
      BY DEF RefundInv, RefundTypeOK
    <3>4. RefunderKnows'
      BY <1>1, <1>4, <2>2, <3>2, <3>3 DEF RefundInv, RefunderKnows, Grows
    <3>5. refunder' \in [Processes -> RefunderState]
      BY <2>2, <3>1 DEF RefundInv, RefundTypeOK, RefunderState
    <3> QED BY <3>4, <3>5
  <2> QED BY <1>3, <2>1, <2>2
<1>6. RefundTypeOK'
  BY <1>1, <1>2, <1>5 DEF RefundInv, RefundTypeOK, RefunderState
<1>7. RefundsRecorded'
  BY <1>1, <1>2 DEF RefundInv, RefundsRecorded, Published
<1>8. RefundsReal'
  BY <1>1, <1>2 DEF RefundInv, RefundsReal
<1> QED BY <1>1, <1>4, <1>5, <1>6, <1>7, <1>8, TasksStay DEF RefundInv

(* The consumer commits a report whose row it knows.                       *)
LEMMA CommitStep ==
  ASSUME RefundInv, NEW p \in Processes, RefundCommit(p)
  PROVE  RefundInv' /\ RefundKept
<1> DEFINE t == refunder[p].txn
<1>1. /\ t \in Txns /\ Published(refundTopic, t) /\ refund[t] # "none"
      /\ refund' = refund /\ waiting' = waiting /\ channel' = channel /\ task' = task
      /\ refunder' = [refunder EXCEPT ![p] = IdleRefunder] \/ RefunderStop(p)
  BY DEF RefundCommit, RefundInv, RefundTypeOK, RefunderKnows
<1>2. /\ refundTopic' \in [Txns -> MessageState]
      /\ \A u \in Txns : u # t => refundTopic'[u] = refundTopic[u]
      /\ refundTopic'[t] # "none"
  BY <1>1 DEF RefundCommit, AfterCommit, Committed, RefundInv, RefundTypeOK, MessageState, Published
<1> HIDE DEF t
<1>3. Grows /\ RefundKept /\ RefundsRecorded' /\ RefundsReal'
  BY <1>1, <1>2 DEF Grows, RefundKept, RefundInv, RefundsRecorded, RefundsReal, Published
<1>4. RefundTypeOK'
  BY <1>1, <1>2, <1>3, RefunderRests DEF RefundInv, RefundTypeOK, RefunderState
<1> QED BY <1>1, <1>3, <1>4, RefunderRests, TasksStay DEF RefundInv

-----------------------------------------------------------------------------
(* The refund task. *)

(* A state that keeps a part of what a sound state holds is sound.         *)
LEMMA LessIsSound ==
  ASSUME RefundInv, Grows, NEW p \in Processes, NEW s \in TaskRecord,
         s.toQuery \cup s.toExecute \subseteq task[p].toQuery \cup task[p].toExecute,
         s.success \subseteq task[p].success,
         s.pc = "retry" => s.cur \in Txns
  PROVE  Sound(s, refund', channel')
BY StaysSound DEF Sound

(* The idle state of a task is one, and is sound.                          *)
LEMMA IdleIsSound == IdleTask \in TaskRecord /\ Sound(IdleTask, refund', channel')
BY DEF IdleTask, TaskRecord, Sound

(* A task that only moves, to a sound state.                               *)
LEMMA MoveStep ==
  ASSUME RefundInv, NEW p \in Processes, NEW s \in TaskRecord, Task(p, s),
         Sound(s, refund', channel'),
         refund' = refund, channel' = channel, refundTopic' = refundTopic,
         refunder' = refunder, waiting' \subseteq Txns
  PROVE  RefundInv' /\ RefundKept
<1>1. Grows /\ RefundKept /\ RefundsRecorded' /\ RefundsReal'
  BY SameRecords
<1>2. task' \in [Processes -> TaskRecord] /\ TaskKnows'
  BY <1>1, TaskMoves
<1>3. RefundTypeOK'
  BY <1>2 DEF RefundInv, RefundTypeOK, TaskRecord
<1> QED BY <1>1, <1>2, <1>3, RefundersStay DEF RefundInv

(* A batch starts with rows that exist.                                    *)
LEMMA StartStep ==
  ASSUME RefundInv, NEW p \in Processes, BatchStart(p)
  PROVE  RefundInv' /\ RefundKept
<1> DEFINE s == [IdleTask EXCEPT !.pc = "query", !.toQuery = Due]
<1>1. Due \subseteq Txns /\ \A t \in Due : refund[t] # "none"
  BY DEF Due
<1>2. s \in TaskRecord /\ s.toQuery = Due /\ s.success = {} /\ s.toExecute = {} /\ s.pc = "query"
  BY <1>1 DEF TaskRecord, IdleTask
<1>3. /\ Task(p, s) /\ refund' = refund /\ waiting' = waiting /\ channel' = channel
      /\ refundTopic' = refundTopic /\ refunder' = refunder
  BY DEF BatchStart, taskFrame
<1> HIDE DEF s
<1>4. Sound(s, refund', channel')
  BY <1>1, <1>2, <1>3 DEF Sound
<1>5. waiting' \subseteq Txns
  BY <1>3 DEF RefundInv, RefundTypeOK
<1> QED BY <1>2, <1>3, <1>4, <1>5, MoveStep

(* A row joins the list of the successful only on the channel's word.      *)
LEMMA QueryStep ==
  ASSUME RefundInv, NEW p \in Processes, NEW t \in Txns, BatchQuery(p, t)
  PROVE  RefundInv' /\ RefundKept
<1>1. /\ task[p] \in TaskRecord /\ t \in task[p].toQuery /\ task[p].pc = "query"
      /\ refund' = refund /\ waiting' = waiting /\ channel' = channel
      /\ refundTopic' = refundTopic /\ refunder' = refunder /\ waiting \subseteq Txns
  BY DEF BatchQuery, taskFrame, RefundInv, RefundTypeOK, TaskRecord
<1>2. Grows
  BY <1>1, SameRecords
<1>3. CASE /\ channel[t] = "returned"
           /\ Task(p, [task[p] EXCEPT !.toQuery = @ \ {t}, !.success = @ \cup {t}])
  <2> DEFINE s == [task[p] EXCEPT !.toQuery = @ \ {t}, !.success = @ \cup {t}]
  <2>1. /\ s \in TaskRecord /\ s.toQuery \subseteq task[p].toQuery /\ s.pc = "query"
        /\ s.success = task[p].success \cup {t} /\ s.toExecute = task[p].toExecute
    BY <1>1 DEF TaskRecord
  <2> HIDE DEF s
  <2>2. Sound(s, refund', channel')
    BY <1>1, <1>2, <1>3, <2>1, StaysSound DEF Sound
  <2>3. Task(p, s)
    BY <1>3 DEF s
  <2> QED BY <1>1, <2>1, <2>2, <2>3, MoveStep
<1>4. CASE Task(p, [task[p] EXCEPT !.toQuery = @ \ {t}, !.toExecute = @ \cup {t}])
  <2> DEFINE s == [task[p] EXCEPT !.toQuery = @ \ {t}, !.toExecute = @ \cup {t}]
  <2>1. /\ s \in TaskRecord /\ s.toQuery \subseteq task[p].toQuery /\ s.pc = "query"
        /\ s.success = task[p].success /\ s.toExecute = task[p].toExecute \cup {t}
    BY <1>1 DEF TaskRecord
  <2> HIDE DEF s
  <2>2. Sound(s, refund', channel')
    BY <1>1, <1>2, <2>1, StaysSound DEF Sound
  <2>3. Task(p, s)
    BY <1>4 DEF s
  <2> QED BY <1>1, <2>1, <2>2, <2>3, MoveStep
<1> QED BY <1>3, <1>4 DEF BatchQuery

(* The rows of that list are set to SUCCESS.                               *)
LEMMA UpdateStep ==
  ASSUME RefundInv, NEW p \in Processes, BatchUpdate(p)
  PROVE  RefundInv' /\ RefundKept
<1> DEFINE s == [task[p] EXCEPT !.pc = "execute", !.success = {}]
<1>1. /\ task[p] \in TaskRecord /\ Sound(task[p], refund, channel)
      /\ refund \in [Txns -> RefundStatus]
      /\ waiting' = waiting /\ channel' = channel
      /\ refundTopic' = refundTopic /\ refunder' = refunder
  BY DEF BatchUpdate, taskFrame, RefundInv, RefundTypeOK, TaskRecord, TaskKnows
<1>2. /\ refund' \in [Txns -> RefundStatus]
      /\ \A t \in Txns :
           \/ refund'[t] = refund[t]
           \/ refund[t] = "RUNNING" /\ refund'[t] = "SUCCESS" /\ t \in task[p].success
  BY <1>1 DEF BatchUpdate, RefundStatus
<1>3. Grows /\ RefundKept
  BY <1>1, <1>2 DEF Grows, RefundKept, Published
<1>4. RefundsRecorded' /\ RefundsReal'
  BY <1>1, <1>2 DEF RefundInv, RefundsRecorded, RefundsReal, Published, Sound
<1>5. /\ s \in TaskRecord /\ s.pc = "execute" /\ s.success = {}
      /\ s.toQuery = task[p].toQuery /\ s.toExecute = task[p].toExecute
  BY <1>1 DEF TaskRecord
<1>6. Task(p, s) \/ Task(p, IdleTask)
  BY DEF BatchUpdate
<1> HIDE DEF s
<1>7. Sound(s, refund', channel')
  BY <1>3, <1>5, StaysSound DEF Sound
<1>8. task' \in [Processes -> TaskRecord] /\ TaskKnows'
  BY <1>3, <1>5, <1>6, <1>7, IdleIsSound, TaskMoves
<1>9. RefundTypeOK'
  BY <1>1, <1>2, <1>8 DEF RefundInv, RefundTypeOK, TaskRecord
<1> QED BY <1>1, <1>3, <1>4, <1>8, <1>9, RefundersStay DEF RefundInv

(* The channel is asked for refunds that have a row.                       *)
LEMMA ExecuteStep ==
  ASSUME RefundInv, NEW p \in Processes, NEW t \in Txns, BatchExecute(p, t)
  PROVE  RefundInv' /\ RefundKept
<1> DEFINE rest == [task[p] EXCEPT !.toExecute = @ \ {t}]
           put  == [rest EXCEPT !.pc = "retry", !.cur = t]
<1>1. /\ task[p] \in TaskRecord /\ Sound(task[p], refund, channel)
      /\ channel \in [Txns -> ChannelStatus]
      /\ task[p].pc = "execute" /\ t \in task[p].toExecute
      /\ refund' = refund /\ waiting' = waiting
      /\ refundTopic' = refundTopic /\ refunder' = refunder
  BY DEF BatchExecute, taskFrame, RefundInv, RefundTypeOK, TaskRecord, TaskKnows
<1>2. /\ channel' \in [Txns -> ChannelStatus]
      /\ \A u \in Txns : u # t => channel'[u] = channel[u]
      /\ channel'[t] = channel[t] \/ (channel[t] = "none" /\ channel'[t] = "accepted")
  BY <1>1 DEF BatchExecute, ChannelStatus
<1>3. Grows /\ RefundKept
  BY <1>1, <1>2 DEF Grows, RefundKept, Published
<1>4. RefundsRecorded'
  BY <1>1 DEF RefundInv, RefundsRecorded, Published
<1>5. RefundsReal'
  <2>1. refund[t] # "none"
    BY <1>1 DEF Sound
  <2> QED BY <1>1, <1>2, <2>1 DEF RefundInv, RefundsReal
<1>6. /\ rest \in TaskRecord /\ rest.pc = "execute" /\ rest.toQuery = task[p].toQuery
      /\ rest.success = task[p].success /\ rest.toExecute = task[p].toExecute \ {t}
  BY <1>1 DEF TaskRecord
<1>7. Task(p, rest) \/ Task(p, put)
  BY DEF BatchExecute
<1> HIDE DEF rest
<1>8. /\ put \in TaskRecord /\ put.pc = "retry" /\ put.cur = t /\ put.toQuery = rest.toQuery
      /\ put.success = rest.success /\ put.toExecute = rest.toExecute
  BY <1>6 DEF TaskRecord
<1> HIDE DEF put
<1>9. Sound(rest, refund', channel') /\ Sound(put, refund', channel')
  BY <1>3, <1>6, <1>8, StaysSound DEF Sound
<1>10. task' \in [Processes -> TaskRecord] /\ TaskKnows'
  BY <1>3, <1>6, <1>7, <1>8, <1>9, TaskMoves
<1>11. RefundTypeOK'
  BY <1>1, <1>2, <1>10 DEF RefundInv, RefundTypeOK, TaskRecord
<1> QED BY <1>1, <1>3, <1>4, <1>5, <1>10, <1>11, RefundersStay DEF RefundInv

(* A retry time is written to a row, and no row is finished by it.         *)
LEMMA RetryStep ==
  ASSUME RefundInv, NEW p \in Processes, BatchRetry(p)
  PROVE  RefundInv' /\ RefundKept
<1> DEFINE s == [task[p] EXCEPT !.pc = "execute", !.cur = NoTxn]
<1>1. /\ task[p] \in TaskRecord /\ task[p].pc = "retry" /\ task[p].cur \in Txns
      /\ refund' = refund /\ channel' = channel
      /\ refundTopic' = refundTopic /\ refunder' = refunder
  BY DEF BatchRetry, taskFrame, RefundInv, RefundTypeOK, TaskRecord, TaskKnows, Sound
<1>2. waiting' \subseteq Txns
  BY <1>1 DEF BatchRetry, RefundInv, RefundTypeOK
<1>3. /\ s \in TaskRecord /\ s.pc = "execute" /\ s.success = task[p].success
      /\ s.toQuery = task[p].toQuery /\ s.toExecute = task[p].toExecute
  BY <1>1 DEF TaskRecord
<1>4. Task(p, s) \/ Task(p, IdleTask)
  BY DEF BatchRetry
<1> HIDE DEF s
<1>5. Sound(s, refund', channel')
  BY <1>1, <1>3, SameRecords, StaysSound DEF Sound
<1> QED BY <1>1, <1>2, <1>3, <1>4, <1>5, IdleIsSound, MoveStep

(* A task that gives up, or is done.                                       *)
LEMMA EndStep ==
  ASSUME RefundInv, NEW p \in Processes, BatchEnd(p)
  PROVE  RefundInv' /\ RefundKept
<1>1. /\ Task(p, IdleTask) /\ refund' = refund /\ waiting' = waiting /\ channel' = channel
      /\ refundTopic' = refundTopic /\ refunder' = refunder /\ waiting \subseteq Txns
  BY DEF BatchEnd, taskFrame, RefundInv, RefundTypeOK
<1> QED BY <1>1, IdleIsSound, MoveStep

-----------------------------------------------------------------------------
(* Deaths, time, the channel and the order service. *)

(* A process that dies forgets what it knew, and no other does.            *)
LEMMA RestartStep ==
  ASSUME RefundInv, NEW p \in Processes, RefundRestart(p)
  PROVE  RefundInv' /\ RefundKept
<1>1. /\ Task(p, IdleTask) /\ refunder' = [refunder EXCEPT ![p] = IdleRefunder]
      /\ refund' = refund /\ waiting' = waiting /\ channel' = channel
      /\ refundTopic' = refundTopic
  BY DEF RefundRestart
<1>2. Grows /\ RefundKept /\ RefundsRecorded' /\ RefundsReal'
  BY <1>1, SameRecords
<1>3. task' \in [Processes -> TaskRecord] /\ TaskKnows'
  BY <1>1, <1>2, IdleIsSound, TaskMoves
<1>4. refunder' \in [Processes -> RefunderState] /\ RefunderKnows'
  BY <1>1, <1>2, RefunderRests
<1>5. RefundTypeOK'
  BY <1>1, <1>3, <1>4 DEF RefundInv, RefundTypeOK, TaskRecord, RefunderState
<1> QED BY <1>2, <1>3, <1>4, <1>5 DEF RefundInv

(* Time, the channel and the order service take nothing back.              *)
LEMMA EnvironmentStep ==
  ASSUME RefundInv, NEW t \in Txns, RetryDue(t) \/ Return(t) \/ RefundRequested(t)
  PROVE  RefundInv' /\ RefundKept
<1>1. refund' = refund /\ refunder' = refunder /\ task' = task /\ waiting' \subseteq Txns
  BY DEF RetryDue, Return, RefundRequested, RefundInv, RefundTypeOK
<1>2. /\ channel' \in [Txns -> ChannelStatus]
      /\ \A u \in Txns : channel'[u] = channel[u]
                         \/ (channel[u] = "accepted" /\ channel'[u] = "returned")
  BY DEF RetryDue, Return, RefundRequested, RefundInv, RefundTypeOK, ChannelStatus
<1>3. /\ refundTopic' \in [Txns -> MessageState]
      /\ \A u \in Txns : refundTopic'[u] = refundTopic[u] \/ refundTopic'[u] = "queued"
  BY DEF RetryDue, Return, RefundRequested, RefundInv, RefundTypeOK, Queue, MessageState
<1>4. Grows /\ RefundKept
  BY <1>1, <1>2, <1>3 DEF Grows, RefundKept, Published
<1>5. RefundsRecorded' /\ RefundsReal'
  BY <1>1, <1>2, <1>3 DEF RefundInv, RefundsRecorded, RefundsReal, Published
<1>6. RefundTypeOK'
  BY <1>1, <1>2, <1>3 DEF RefundInv, RefundTypeOK
<1> QED BY <1>1, <1>4, <1>5, <1>6, TasksStay, RefundersStay DEF RefundInv

-----------------------------------------------------------------------------
(* The invariant is inductive. *)

(* No report, no row and no task is there at the start.                    *)
LEMMA RefundInvInit == Init => RefundInv
<1> SUFFICES ASSUME Init PROVE RefundInv
  OBVIOUS
<1> USE DEF Init, RefundInit
<1>1. RefundTypeOK
  BY DEF RefundTypeOK, RefundStatus, ChannelStatus, Empty, MessageState, IdleRefunder, IdleTask
<1>2. RefundsRecorded /\ RefundsReal
  BY DEF RefundsRecorded, RefundsReal, Empty
<1>3. RefunderKnows /\ TaskKnows
  BY DEF RefunderKnows, TaskKnows, Sound, IdleRefunder, IdleTask
<1> QED BY <1>1, <1>2, <1>3 DEF RefundInv

(* Every step keeps the invariant, and the rows that are finished.         *)
LEMMA RefundInvStep == RefundInv /\ [Next]_refundVars => RefundInv' /\ RefundKept
<1> SUFFICES ASSUME RefundInv, [Next]_refundVars PROVE RefundInv' /\ RefundKept
  OBVIOUS
<1>1. CASE UNCHANGED refundVars
  <2>1. /\ refundTopic' = refundTopic /\ refund' = refund /\ waiting' = waiting
        /\ channel' = channel /\ refunder' = refunder /\ task' = task
    BY <1>1 DEF refundVars
  <2>2. RefundTypeOK'
    BY <2>1 DEF RefundInv, RefundTypeOK
  <2> QED BY <2>1, <2>2, SameRecords, TasksStay, RefundersStay DEF RefundInv
<1>2. ASSUME NEW p \in Processes, Consume(p) PROVE RefundInv' /\ RefundKept
  BY <1>2, FetchStep, InsertStep, CommitStep DEF Consume
<1>3. ASSUME NEW p \in Processes, Batch(p) PROVE RefundInv' /\ RefundKept
  BY <1>3, StartStep, QueryStep, UpdateStep, ExecuteStep, RetryStep, EndStep DEF Batch
<1>4. ASSUME NEW p \in Processes, RefundRestart(p) PROVE RefundInv' /\ RefundKept
  BY <1>4, RestartStep
<1>5. ASSUME NEW t \in Txns, RetryDue(t) \/ Return(t) \/ RefundRequested(t)
      PROVE  RefundInv' /\ RefundKept
  BY <1>5, EnvironmentStep
<1> QED BY <1>1, <1>2, <1>3, <1>4, <1>5 DEF Next, RefundNext

(* The records and what the consumers and the tasks know are right in      *)
(* every reachable state.                                                  *)
THEOREM RefundInvariance == Spec => []RefundInv
<1>1. RefundInv /\ [Next]_refundVars => RefundInv'
  BY RefundInvStep
<1> QED BY <1>1, RefundInvInit, PTL DEF Spec

(* The types hold in every reachable state.                                *)
THEOREM RefundTypeCorrect == Spec => []RefundTypeOK
BY RefundInvariance, PTL DEF RefundInv

(* The consumer acknowledges a refund report only when its row is there,   *)
(* and no row appears without a report, whatever dies or fails.            *)
THEOREM RecordedSafe == Spec => []RefundsRecorded
BY RefundInvariance, PTL DEF RefundInv

(* The task records a refund as made only when the channel has returned    *)
(* the money, and asks the channel only for recorded refunds, however many *)
(* processes run it on the same rows.                                      *)
THEOREM RealSafe == Spec => []RefundsReal
BY RefundInvariance, PTL DEF RefundInv

(* No step takes a row out of SUCCESS.                                     *)
THEOREM FinalSafe == Spec => RefundFinal
<1>1. RefundInv /\ [Next]_refundVars => [RefundKept]_refundVars
  BY RefundInvStep
<1> QED BY <1>1, RefundInvariance, PTL DEF Spec, RefundFinal

-----------------------------------------------------------------------------
(* The two phases of RefundRecovery.  The failures that remain are among   *)
(* those there were, so a calm step is a step of RefundService.            *)
Remaining == {"rebalance", "duplicate"} \subseteq Faults

LEMMA QuietConsume ==
  ASSUME Remaining, NEW p, Quiet!Consume(p)
  PROVE  Consume(p)
<1>1. ASSUME NEW t \in Txns, Quiet!RefundFetch(p, t) PROVE RefundFetch(p, t)
  BY <1>1 DEF Remaining, Quiet!RefundFetch, RefundFetch
<1>2. ASSUME Quiet!RefundInsert(p) PROVE RefundInsert(p)
  BY <1>2 DEF Quiet!RefundInsert, RefundInsert
<1>3. ASSUME Quiet!RefundCommit(p) PROVE RefundCommit(p)
  BY <1>3 DEF Remaining, Quiet!RefundCommit, RefundCommit, Quiet!AfterCommit, AfterCommit,
              Quiet!Committed, Committed, Quiet!IdleRefunder, IdleRefunder
<1> QED BY <1>1, <1>2, <1>3 DEF Quiet!Consume, Consume

LEMMA QuietBatch ==
  ASSUME NEW p, Quiet!Batch(p)
  PROVE  Batch(p)
<1> USE DEF Quiet!Task, Task, Quiet!taskFrame, taskFrame, Quiet!IdleTask, IdleTask
<1>1. ASSUME Quiet!BatchStart(p) PROVE BatchStart(p)
  BY <1>1 DEF Quiet!BatchStart, BatchStart, Quiet!Due, Due
<1>2. ASSUME NEW t \in Txns, Quiet!BatchQuery(p, t) PROVE BatchQuery(p, t)
  BY <1>2 DEF Quiet!BatchQuery, BatchQuery
<1>3. ASSUME Quiet!BatchUpdate(p) PROVE BatchUpdate(p)
  BY <1>3 DEF Quiet!BatchUpdate, BatchUpdate
<1>4. ASSUME NEW t \in Txns, Quiet!BatchExecute(p, t) PROVE BatchExecute(p, t)
  BY <1>4 DEF Quiet!BatchExecute, BatchExecute
<1>5. ASSUME Quiet!BatchRetry(p) PROVE BatchRetry(p)
  BY <1>5 DEF Quiet!BatchRetry, BatchRetry
<1>6. ASSUME Quiet!BatchEnd(p) PROVE BatchEnd(p)
  BY <1>6 DEF Quiet!BatchEnd, BatchEnd
<1> QED BY <1>1, <1>2, <1>3, <1>4, <1>5, <1>6 DEF Quiet!Batch, Batch

LEMMA RecoverySteps ==
  ASSUME Remaining, [RNext]_recoveryVars
  PROVE  [Next]_refundVars \/ Cease
<1>1. ASSUME NEW p \in Processes, Quiet!Consume(p) \/ Quiet!Batch(p) PROVE Next
  BY <1>1, QuietConsume, QuietBatch DEF Next, RefundNext
<1>2. ASSUME NEW t \in Txns, Quiet!RefundRequested(t) PROVE Next
  BY <1>2 DEF Remaining, Quiet!RefundRequested, RefundRequested, Quiet!Queue, Queue, Next
<1>3. ASSUME NEW t \in Txns, RetryDue(t) \/ Return(t) PROVE Next
  BY <1>3 DEF Next, RefundNext
<1>4. UNCHANGED recoveryVars => UNCHANGED refundVars
  BY DEF recoveryVars
<1> QED BY <1>1, <1>2, <1>3, <1>4 DEF RNext, Calmly

(* An operator who starts the consumers again undoes nothing.              *)
LEMMA CeaseStep ==
  ASSUME RefundInv, Cease
  PROVE  RefundInv' /\ RefundKept
<1>1. /\ refunder' = [p \in Processes |-> IF refunder[p].pc = "stopped"
                                            THEN IdleRefunder ELSE refunder[p]]
      /\ refundTopic' = refundTopic /\ refund' = refund /\ waiting' = waiting
      /\ channel' = channel /\ task' = task
  BY DEF Cease
<1>2. Grows /\ RefundKept /\ RefundsRecorded' /\ RefundsReal'
  BY <1>1, SameRecords
<1>3. refunder \in [Processes -> RefunderState]
  BY DEF RefundInv, RefundTypeOK, RefunderState
<1>4. IdleRefunder \in RefunderState /\ IdleRefunder.pc = "idle"
  BY DEF IdleRefunder, RefunderState
<1>5. refunder' \in [Processes -> RefunderState] /\ RefunderKnows'
  BY <1>1, <1>3, <1>4 DEF RefundInv, RefunderKnows, Published
<1>6. RefundTypeOK'
  BY <1>1, <1>5 DEF RefundInv, RefundTypeOK, RefunderState
<1> QED BY <1>1, <1>2, <1>5, <1>6, TasksStay DEF RefundInv

LEMMA RecoveryInvStep ==
  Remaining /\ RefundInv /\ [RNext]_recoveryVars => RefundInv' /\ RefundKept
BY RecoverySteps, RefundInvStep, CeaseStep

LEMMA RecoveryInvariance ==
  ASSUME Remaining
  PROVE  RSpec => []RefundInv
<1>1. RefundInv /\ [RNext]_recoveryVars => RefundInv'
  BY RecoveryInvStep
<1>2. RInit => RefundInv
  BY RefundInvInit DEF RInit
<1> QED BY <1>1, <1>2, PTL DEF RSpec

(* Both hold when the failures cease and consumers start again: what was   *)
(* acknowledged has its row, and what is SUCCESS was returned.             *)
THEOREM RefundRecoverySafe ==
  ASSUME Remaining
  PROVE  RSpec => [](RefundsRecorded /\ RefundsReal)
BY RecoveryInvariance, PTL DEF RefundInv

(* And no step of either phase takes a row out of SUCCESS.                 *)
THEOREM RefundRecoveryFinal ==
  ASSUME Remaining
  PROVE  RSpec => RefundFinal
<1>1. RefundInv /\ [RNext]_recoveryVars => [RefundKept]_refundVars
  BY RecoveryInvStep
<1> QED BY <1>1, RecoveryInvariance, PTL DEF RSpec, RefundFinal
=============================================================================
