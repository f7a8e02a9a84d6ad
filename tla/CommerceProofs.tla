--------------------------- MODULE CommerceProofs ---------------------------
(***************************************************************************)
(* Theorems about OrderService, alone and in the two phases of             *)
(* OrderRecovery, and from them and those of the other services about      *)
(* Commerce and FlashSale, for any number of requests, transactions and    *)
(* processes of each service, any set of calls and any set of faults.      *)
(***************************************************************************)
EXTENDS FlashSale, OrderRecovery, TLAPS

PP == INSTANCE PaymentServiceProofs WITH Faults <- PayFaults
RP == INSTANCE RefundServiceProofs WITH Faults <- PayFaults, Processes <- PayProcesses
SP == INSTANCE PromotionStockProofs WITH Faults <- StockFaults, Processes <- StockProcesses

USE ConstantsAssumption

-----------------------------------------------------------------------------
(* Types.  One lemma for what a worker may become, one for what a topic    *)
(* may become; then one step per action.                                   *)

(* Every topic that a write or a commit may leave behind is a topic.       *)
LEMMA TopicType ==
  ASSUME NEW M, NEW topic \in [M -> MessageState], NEW m \in M
  PROVE  /\ Queue(topic, m) \in [M -> MessageState]
         /\ Committed(topic, m) \in [M -> MessageState]
         /\ FailedWrite(topic, m, Faults) \subseteq [M -> MessageState]
         /\ AfterCommit(topic, m, Faults) \subseteq [M -> MessageState]
BY DEF Queue, Committed, FailedWrite, AfterCommit, MessageState

(* The same of promotion_order_compensate, for a write of any outcome.     *)
LEMMA CompTopicType ==
  ASSUME TypeOK, NEW r \in Requests
  PROVE  {Queue(compTopic, r)} \cup FailedWrite(compTopic, r, Faults)
           \subseteq [Requests -> MessageState]
<1>1. compTopic \in [Requests -> MessageState]
  BY DEF TypeOK
<1> QED BY <1>1, TopicType

(* A report names a transaction, and so an order.                          *)
LEMMA ReportType ==
  ASSUME NEW e \in Report
  PROVE  /\ e.txn \in Txns
         /\ OrderOf[e.txn] \in Requests
         /\ e.status \in {"PAID", "CANCELLED"}
         /\ e # NoReport
BY DEF Report

(* A worker in the middle of its work holds what it works on.              *)
LEMMA InHand ==
  ASSUME TypeOK, NEW p \in Processes
  PROVE  /\ creator[p].pc \in CreatorWork => creator[p].req \in Requests
         /\ payer[p].pc \in PayerWork => payer[p].report \in Report
         /\ scanner[p].pc \in ScannerWork => scanner[p].cur \in Requests
         /\ rpc[p].pc \in RpcWork => rpc[p].req \in Requests /\ rpc[p].target \in Terminal
BY DEF TypeOK, CreatorState, PayerState, ScannerState, RpcState, IdleScanner, IdleRpc,
       CreatorWork, PayerWork, ScannerWork, RpcWork

(* A creator that stops, finishes, moves on in its work or takes up a      *)
(* request.                                                                *)
LEMMA CreatorType ==
  ASSUME TypeOK, NEW p \in Processes,
         \/ CreatorStop(p)
         \/ CreatorDone(p)
         \/ \E pc \in CreatorWork : creator[p].pc \in CreatorWork /\ Creator(p, pc)
         \/ \E pc \in CreatorWork, r \in Requests :
              creator' = [creator EXCEPT ![p] = [pc |-> pc, req |-> r]]
  PROVE  creator' \in [Processes -> CreatorState]
BY DEF TypeOK, CreatorState, CreatorWork, Creator, CreatorStop, CreatorDone, IdleCreator

(* A payer that stops, finishes, moves on in its work or takes up a        *)
(* report.                                                                 *)
LEMMA PayerType ==
  ASSUME TypeOK, NEW p \in Processes,
         \/ PayerStop(p)
         \/ PayerDone(p)
         \/ \E pc \in PayerWork : payer[p].pc \in PayerWork /\ Payer(p, pc)
         \/ \E pc \in PayerWork, e \in Report :
              payer' = [payer EXCEPT ![p] = [pc |-> pc, report |-> e]]
  PROVE  payer' \in [Processes -> PayerState]
BY DEF TypeOK, PayerState, PayerWork, Payer, PayerStop, PayerDone, IdlePayer

(* A scanner that gives up, moves on in its work or takes a new state.     *)
LEMMA ScannerType ==
  ASSUME TypeOK, NEW p \in Processes,
         \/ ScannerAbort(p)
         \/ \E pc \in ScannerWork \cup {"read"} : scanner[p].pc \in ScannerWork /\ Scanner(p, pc)
         \/ \E s \in ScannerState : scanner' = [scanner EXCEPT ![p] = s]
  PROVE  scanner' \in [Processes -> ScannerState]
BY DEF TypeOK, ScannerState, ScannerWork, Scanner, ScannerAbort, IdleScanner

(* A call that returns, moves on in its work or takes a new state.         *)
LEMMA RpcType ==
  ASSUME TypeOK, NEW p \in Processes,
         \/ RpcReturn(p)
         \/ \E pc \in RpcWork : rpc[p].pc \in RpcWork /\ Rpc(p, pc)
         \/ \E s \in RpcState : rpc' = [rpc EXCEPT ![p] = s]
  PROVE  rpc' \in [Processes -> RpcState]
BY DEF TypeOK, RpcState, RpcWork, Rpc, RpcReturn, IdleRpc

(* A conditional update, whatever its outcome, leaves a table of orders.   *)
LEMMA OrdersType ==
  ASSUME TypeOK, NEW r \in Requests, NEW target \in Terminal,
         \/ CasApplied(r, target) \/ CasUnmatched(r) \/ CasFailed(r, target)
  PROVE  orders' \in [Requests -> OrderStatus]
BY DEF TypeOK, OrderStatus, CasApplied, CasUnmatched, CasFailed

(* Every step keeps the types.                                             *)
LEMMA TypeStep == TypeOK /\ [Next]_vars => TypeOK'
<1> SUFFICES ASSUME TypeOK, [Next]_vars PROVE TypeOK'
  OBVIOUS
<1>1. CASE UNCHANGED vars
  BY <1>1 DEF vars, topicVars, TypeOK
<1>2. ASSUME NEW p \in Processes, Create(p) PROVE TypeOK'
  <2> USE DEF creatorFrame
  <2>1. ASSUME NEW r \in Requests, CreateFetch(p, r) PROVE TypeOK'
    <3>1. creator' \in [Processes -> CreatorState]
      BY <2>1, CreatorType DEF CreateFetch, CreatorWork
    <3> QED BY <2>1, <3>1 DEF CreateFetch, TypeOK
  <2>2. CASE CreateInsert(p)
    <3>1. creator' \in [Processes -> CreatorState]
      BY <2>2, CreatorType DEF CreateInsert, CreatorWork
    <3>2. orders' \in [Requests -> OrderStatus]
      BY <2>2 DEF CreateInsert, TypeOK, OrderStatus
    <3> QED BY <2>2, <3>1, <3>2 DEF CreateInsert, TypeOK
  <2>3. CASE CreateCompensate(p)
    <3>1. creator' \in [Processes -> CreatorState]
      BY <2>3, CreatorType DEF CreateCompensate
    <3>2. compTopic' \in [Requests -> MessageState]
      BY <2>3, InHand, CompTopicType DEF CreateCompensate, CreatorWork
    <3> QED BY <2>3, <3>1, <3>2 DEF CreateCompensate, TypeOK
  <2>4. CASE CreateAddTimeout(p)
    <3>1. creator' \in [Processes -> CreatorState]
      BY <2>4, CreatorType DEF CreateAddTimeout, CreatorWork
    <3>2. timeoutSet' \subseteq Requests
      BY <2>4, InHand DEF CreateAddTimeout, CreatorWork, TypeOK
    <3> QED BY <2>4, <3>1, <3>2 DEF CreateAddTimeout, TypeOK
  <2>5. CASE CreateCommit(p)
    <3>1. creator' \in [Processes -> CreatorState]
      BY <2>5, CreatorType DEF CreateCommit
    <3>2. createTopic' \in [Requests -> MessageState]
      BY <2>5, InHand, TopicType DEF CreateCommit, CreatorWork, TypeOK
    <3> QED BY <2>5, <3>1, <3>2 DEF CreateCommit, TypeOK
  <2> QED BY <1>2, <2>1, <2>2, <2>3, <2>4, <2>5 DEF Create
<1>3. ASSUME NEW p \in Processes, Pay(p) PROVE TypeOK'
  <2> USE DEF payerFrame
  <2>1. ASSUME NEW e \in Report, PayFetch(p, e) PROVE TypeOK'
    <3>1. \A status \in OrderStatus \ {"none"} : Route(e.status, status) \in PayerWork
      BY ReportType DEF Route, OrderStatus, Terminal, Unpaid, PayerWork
    <3>2. orders[OrderOf[e.txn]] \in OrderStatus
      BY ReportType DEF TypeOK
    <3>3. payer' \in [Processes -> PayerState]
      BY <2>1, <3>1, <3>2, PayerType DEF PayFetch
    <3> QED BY <2>1, <3>3 DEF PayFetch, TypeOK
  <2>2. CASE PayCas(p)
    <3>1. payer' \in [Processes -> PayerState]
      BY <2>2, PayerType DEF PayCas, PayerWork
    <3>2. payer[p].report \in Report
      BY <2>2, InHand DEF PayCas, PayerWork
    <3>3. orders' \in [Requests -> OrderStatus]
      BY <2>2, <3>2, ReportType, OrdersType DEF PayCas, Terminal, Unpaid
    <3> QED BY <2>2, <3>1, <3>3 DEF PayCas, TypeOK
  <2>3. CASE PayRefund(p)
    <3>1. payer' \in [Processes -> PayerState]
      BY <2>3, PayerType DEF PayRefund, PayerWork
    <3>2. payer[p].report.txn \in Txns
      BY <2>3, InHand, ReportType DEF PayRefund, PayerWork
    <3>3. refundTopic' \in [Txns -> MessageState]
      BY <2>3, <3>2, TopicType DEF PayRefund, TypeOK
    <3> QED BY <2>3, <3>1, <3>3 DEF PayRefund, TypeOK
  <2>4. CASE PayCompensate(p)
    <3>1. payer' \in [Processes -> PayerState]
      BY <2>4, PayerType DEF PayCompensate, PayerWork
    <3>2. OrderOf[payer[p].report.txn] \in Requests
      BY <2>4, InHand, ReportType DEF PayCompensate, PayerWork
    <3>3. compTopic' \in [Requests -> MessageState]
      BY <2>4, <3>2, CompTopicType DEF PayCompensate
    <3> QED BY <2>4, <3>1, <3>3 DEF PayCompensate, TypeOK
  <2>5. CASE PayZrem(p)
    <3>1. payer' \in [Processes -> PayerState]
      BY <2>5, PayerType DEF PayZrem, PayerWork
    <3> QED BY <2>5, <3>1 DEF PayZrem, Zrem, ZremFailed, TypeOK
  <2>6. CASE PayCommit(p)
    <3>1. payer' \in [Processes -> PayerState]
      BY <2>6, PayerType DEF PayCommit
    <3>2. payTopic' \in [Report -> MessageState]
      BY <2>6, InHand, TopicType DEF PayCommit, PayerWork, TypeOK
    <3> QED BY <2>6, <3>1, <3>2 DEF PayCommit, TypeOK
  <2> QED BY <1>3, <2>1, <2>2, <2>3, <2>4, <2>5, <2>6 DEF Pay
<1>4. ASSUME NEW p \in Processes, Scan(p) PROVE TypeOK'
  <2> USE DEF scannerFrame
  <2>1. CASE ScanStart(p)
    <3>1. [IdleScanner EXCEPT !.pc = "read", !.batch = timeoutSet \cap due] \in ScannerState
      BY DEF IdleScanner, ScannerState, OrderStatus, TypeOK
    <3>2. scanner' \in [Processes -> ScannerState]
      BY <2>1, <3>1, ScannerType DEF ScanStart
    <3> QED BY <2>1, <3>2 DEF ScanStart, TypeOK
  <2>2. ASSUME NEW r \in Requests, ScanRead(p, r) PROVE TypeOK'
    <3>1. scanner[p].batch \subseteq Requests
      BY DEF TypeOK, ScannerState, IdleScanner
    <3>2. [pc    |-> IF orders[r] = "none" THEN "zrem" ELSE "cas",
           batch |-> scanner[p].batch \ {r}, cur |-> r, snap |-> orders[r]] \in ScannerState
      BY <3>1 DEF ScannerState, ScannerWork, TypeOK
    <3>3. scanner' \in [Processes -> ScannerState]
      BY <2>2, <3>2, ScannerType DEF ScanRead
    <3> QED BY <2>2, <3>3 DEF ScanRead, TypeOK
  <2>3. CASE ScanCas(p)
    <3>1. scanner' \in [Processes -> ScannerState]
      BY <2>3, ScannerType DEF ScanCas, ScannerWork
    <3>2. orders' \in [Requests -> OrderStatus]
      BY <2>3, InHand, OrdersType DEF ScanCas, ScannerWork, Terminal, Unpaid
    <3> QED BY <2>3, <3>1, <3>2 DEF ScanCas, TypeOK
  <2>4. CASE ScanPublish(p)
    <3>1. scanner' \in [Processes -> ScannerState]
      BY <2>4, ScannerType DEF ScanPublish, ScannerWork
    <3>2. compTopic' \in [Requests -> MessageState]
      BY <2>4, InHand, CompTopicType DEF ScanPublish, ScannerWork
    <3> QED BY <2>4, <3>1, <3>2 DEF ScanPublish, TypeOK
  <2>5. CASE ScanZrem(p)
    <3>1. scanner' \in [Processes -> ScannerState]
      BY <2>5, ScannerType DEF ScanZrem, ScannerWork
    <3> QED BY <2>5, <3>1 DEF ScanZrem, Zrem, ZremFailed, TypeOK
  <2> QED BY <1>4, <2>1, <2>2, <2>3, <2>4, <2>5 DEF Scan
<1>5. ASSUME NEW p \in Processes, Update(p) PROVE TypeOK'
  <2> USE DEF rpcFrame
  <2>1. ASSUME NEW r \in Requests, NEW q \in RpcRequests, UpdateRead(p, r, q) PROVE TypeOK'
    <3>1. [pc |-> "cas", req |-> r, target |-> q.target, reason |-> q.reason] \in RpcState
      BY DEF RpcState, RpcWork
    <3>2. rpc' \in [Processes -> RpcState]
      BY <2>1, <3>1, RpcType DEF UpdateRead
    <3> QED BY <2>1, <3>2 DEF UpdateRead, TypeOK
  <2>2. CASE UpdateCas(p)
    <3>1. rpc' \in [Processes -> RpcState]
      BY <2>2, RpcType DEF UpdateCas, RpcWork
    <3>2. orders' \in [Requests -> OrderStatus]
      BY <2>2, InHand, OrdersType DEF UpdateCas, RpcWork
    <3> QED BY <2>2, <3>1, <3>2 DEF UpdateCas, TypeOK
  <2>3. CASE UpdateZrem(p)
    <3>1. rpc' \in [Processes -> RpcState]
      BY <2>3, RpcType DEF UpdateZrem, RpcWork
    <3> QED BY <2>3, <3>1 DEF UpdateZrem, Zrem, ZremFailed, TypeOK
  <2>4. CASE UpdatePublish(p)
    <3>1. rpc' \in [Processes -> RpcState]
      BY <2>4, RpcType DEF UpdatePublish
    <3>2. compTopic' \in [Requests -> MessageState]
      BY <2>4, InHand, CompTopicType DEF UpdatePublish, RpcWork
    <3> QED BY <2>4, <3>1, <3>2 DEF UpdatePublish, TypeOK
  <2> QED BY <1>5, <2>1, <2>2, <2>3, <2>4 DEF Update
<1>6. ASSUME NEW p \in Processes, Restart(p) PROVE TypeOK'
  BY <1>6 DEF Restart, topicVars, TypeOK, IdleCreator, IdlePayer, IdleScanner, IdleRpc,
     CreatorState, PayerState, ScannerState, RpcState
<1>7. CASE Environment
  <2>1. ASSUME NEW r \in Requests, SubmitOrder(r) PROVE TypeOK'
    BY <2>1, TopicType DEF SubmitOrder, TypeOK
  <2>2. ASSUME NEW r \in Requests, Elapse(r) PROVE TypeOK'
    BY <2>2 DEF Elapse, topicVars, TypeOK
  <2>3. ASSUME NEW e \in Report, ReportPayment(e) PROVE TypeOK'
    BY <2>3, TopicType DEF ReportPayment, TypeOK
  <2> QED BY <1>7, <2>1, <2>2, <2>3 DEF Environment
<1> QED BY <1>1, <1>2, <1>3, <1>4, <1>5, <1>6, <1>7 DEF Next, ProcessNext

(* The variables keep their types, whatever fails.                         *)
THEOREM TypeCorrect == Spec => []TypeOK
<1>1. Init => TypeOK
  BY DEF Init, TypeOK, Empty, MessageState, OrderStatus, IdleCreator, IdlePayer,
     CreatorState, PayerState, ScannerState, RpcState
<1> QED BY <1>1, TypeStep, PTL DEF Spec

-----------------------------------------------------------------------------
(* How the shared state may change in a step. *)

(* The activities of a process touch nothing of the others but the orders, *)
(* the timeout set and the topics they share.                              *)
LEMMA Frames ==
  ASSUME NEW p \in Processes
  PROVE  /\ Create(p) => UNCHANGED creatorFrame
         /\ Pay(p) => UNCHANGED payerFrame
         /\ Scan(p) => UNCHANGED scannerFrame
         /\ Update(p) => UNCHANGED rpcFrame
<1>1. Create(p) => UNCHANGED creatorFrame
  BY DEF Create, CreateFetch, CreateInsert, CreateCompensate, CreateAddTimeout, CreateCommit
<1>2. Pay(p) => UNCHANGED payerFrame
  BY DEF Pay, PayFetch, PayCas, PayRefund, PayCompensate, PayZrem, PayCommit
<1>3. Scan(p) => UNCHANGED scannerFrame
  BY DEF Scan, ScanStart, ScanRead, ScanCas, ScanPublish, ScanZrem
<1>4. Update(p) => UNCHANGED rpcFrame
  BY DEF Update, UpdateRead, UpdateCas, UpdateZrem, UpdatePublish
<1> QED BY <1>1, <1>2, <1>3, <1>4

(* An order changes only from none to PENDING_PAY, by the creator that     *)
(* inserts it, and from PENDING_PAY to a terminal status.                  *)
OrderForward(r) ==
  \/ orders'[r] = orders[r]
  \/ orders[r] = "PENDING_PAY" /\ orders'[r] \in Terminal
  \/ /\ orders[r] = "none" /\ orders'[r] = "PENDING_PAY"
     /\ UNCHANGED createTopic
     /\ \E p \in Processes : creator[p].pc = "insert" /\ creator[p].req = r

(* A conditional update, applied, unmatched or failed, settles a           *)
(* PENDING_PAY order or changes nothing.                                   *)
LEMMA CasForward ==
  ASSUME TypeOK, NEW r \in Requests, NEW s \in Requests, NEW target \in Terminal,
         CasApplied(s, target) \/ CasUnmatched(s) \/ CasFailed(s, target)
  PROVE  orders'[r] = orders[r] \/ (orders[r] = "PENDING_PAY" /\ orders'[r] \in Terminal)
BY DEF TypeOK, CasApplied, CasUnmatched, CasFailed

(* Every step moves every order forward, or leaves it alone.               *)
LEMMA OrdersForward ==
  ASSUME TypeOK, [Next]_vars, NEW r \in Requests
  PROVE  OrderForward(r)
<1> USE DEF OrderForward
<1>1. CASE UNCHANGED vars
  BY <1>1 DEF vars
<1>2. ASSUME NEW p \in Processes, Create(p) PROVE OrderForward(r)
  <2>1. CASE CreateInsert(p)
    BY <2>1 DEF CreateInsert, TypeOK
  <2> QED BY <1>2, <2>1 DEF Create, CreateFetch, CreateCompensate, CreateAddTimeout, CreateCommit
<1>3. ASSUME NEW p \in Processes, Pay(p) PROVE OrderForward(r)
  <2>1. CASE PayCas(p)
    <3>1. payer[p].report \in Report
      BY <2>1, InHand DEF PayCas, PayerWork
    <3> QED BY <2>1, <3>1, CasForward, ReportType DEF PayCas, Terminal, Unpaid
  <2> QED BY <1>3, <2>1 DEF Pay, PayFetch, PayRefund, PayCompensate, PayZrem, PayCommit
<1>4. ASSUME NEW p \in Processes, Scan(p) PROVE OrderForward(r)
  <2>1. CASE ScanCas(p)
    BY <2>1, InHand, CasForward DEF ScanCas, ScannerWork, Terminal, Unpaid
  <2> QED BY <1>4, <2>1 DEF Scan, ScanStart, ScanRead, ScanPublish, ScanZrem
<1>5. ASSUME NEW p \in Processes, Update(p) PROVE OrderForward(r)
  <2>1. CASE UpdateCas(p)
    BY <2>1, InHand, CasForward DEF UpdateCas, RpcWork
  <2> QED BY <1>5, <2>1 DEF Update, UpdateRead, UpdateZrem, UpdatePublish
<1>6. ASSUME NEW p \in Processes, Restart(p) PROVE OrderForward(r)
  BY <1>6 DEF Restart
<1>7. CASE Environment
  BY <1>7 DEF Environment, SubmitOrder, ReportPayment, Elapse
<1> QED BY <1>1, <1>2, <1>3, <1>4, <1>5, <1>6, <1>7 DEF Next, ProcessNext

(* Nothing that was written to a topic is unwritten; a message becomes     *)
(* committed only by the worker that commits it; a refund is written only  *)
(* by the payer that decided on it.                                        *)
CreateForward(r) ==
  \/ createTopic'[r] \in {createTopic[r], "queued"}
  \/ /\ createTopic'[r] = "committed"
     /\ \E p \in Processes : creator[p].pc = "commit" /\ creator[p].req = r
PayForward(e) ==
  \/ payTopic'[e] \in {payTopic[e], "queued"}
  \/ /\ payTopic'[e] = "committed"
     /\ \E p \in Processes : payer[p].pc = "commit" /\ payer[p].report = e
CompForward(r) == compTopic'[r] \in {compTopic[r], "queued"}
RefundForward(t) ==
  \/ refundTopic'[t] = refundTopic[t]
  \/ /\ refundTopic'[t] = "queued"
     /\ \E p \in Processes : payer[p].pc = "refund" /\ payer[p].report.txn = t
TimeoutForward(r) ==
  \/ r \in timeoutSet <=> r \in timeoutSet'
  \/ /\ r \in timeoutSet'
     /\ \E p \in Processes : creator[p].pc = "add" /\ creator[p].req = r
  \/ /\ r \in timeoutSet
     /\ \E p \in Processes : \/ payer[p].pc = "zrem" /\ OrderOf[payer[p].report.txn] = r
                             \/ scanner[p].pc = "zrem" /\ scanner[p].cur = r
                             \/ rpc[p].pc = "zrem" /\ rpc[p].req = r

(* promotion_order_create: a message is acknowledged by the creator that   *)
(* is committing it, and by nobody else.                                   *)
LEMMA CreateTopicForward ==
  ASSUME TypeOK, [Next]_vars, NEW r \in Requests
  PROVE  CreateForward(r)
<1> USE DEF CreateForward
<1>1. CASE UNCHANGED vars
  BY <1>1 DEF vars, topicVars
<1>2. ASSUME NEW p \in Processes, Create(p) PROVE CreateForward(r)
  <2>1. CASE CreateCommit(p)
    BY <2>1 DEF CreateCommit, AfterCommit, Committed, TypeOK
  <2> QED BY <1>2, <2>1 DEF Create, CreateFetch, CreateCompensate, CreateAddTimeout, CreateInsert
<1>3. CASE Environment
  BY <1>3 DEF Environment, SubmitOrder, ReportPayment, Elapse, Queue, TypeOK, topicVars
<1>4. CASE \E p \in Processes : Pay(p) \/ Scan(p) \/ Update(p) \/ Restart(p)
  BY <1>4, Frames DEF payerFrame, scannerFrame, rpcFrame, Restart, topicVars
<1> QED BY <1>1, <1>2, <1>3, <1>4 DEF Next, ProcessNext

(* pay_report: a report is acknowledged by the payer that is committing    *)
(* it, and by nobody else.                                                 *)
LEMMA PayTopicForward ==
  ASSUME TypeOK, [Next]_vars, NEW e \in Report
  PROVE  PayForward(e)
<1> USE DEF PayForward
<1>1. CASE UNCHANGED vars
  BY <1>1 DEF vars, topicVars
<1>2. ASSUME NEW p \in Processes, Pay(p) PROVE PayForward(e)
  <2>1. CASE PayCommit(p)
    BY <2>1 DEF PayCommit, AfterCommit, Committed, TypeOK
  <2> QED BY <1>2, <2>1 DEF Pay, PayFetch, PayCas, PayRefund, PayCompensate, PayZrem
<1>3. CASE Environment
  BY <1>3 DEF Environment, SubmitOrder, ReportPayment, Elapse, Queue, TypeOK, topicVars
<1>4. CASE \E p \in Processes : Create(p) \/ Scan(p) \/ Update(p) \/ Restart(p)
  BY <1>4, Frames DEF creatorFrame, scannerFrame, rpcFrame, Restart, topicVars
<1> QED BY <1>1, <1>2, <1>3, <1>4 DEF Next, ProcessNext

(* refund_report: a refund is requested by a payer that is refunding, and  *)
(* by nobody else.                                                         *)
LEMMA RefundTopicForward ==
  ASSUME TypeOK, [Next]_vars, NEW t \in Txns
  PROVE  RefundForward(t)
<1> USE DEF RefundForward
<1>1. CASE UNCHANGED vars
  BY <1>1 DEF vars, topicVars
<1>2. ASSUME NEW p \in Processes, Pay(p) PROVE RefundForward(t)
  <2>1. CASE PayRefund(p)
    BY <2>1 DEF PayRefund, FailedWrite, Queue, TypeOK
  <2> QED BY <1>2, <2>1 DEF Pay, PayFetch, PayCas, PayCommit, PayCompensate, PayZrem
<1>3. CASE Environment
  BY <1>3 DEF Environment, SubmitOrder, ReportPayment, Elapse, topicVars
<1>4. CASE \E p \in Processes : Create(p) \/ Scan(p) \/ Update(p) \/ Restart(p)
  BY <1>4, Frames DEF creatorFrame, scannerFrame, rpcFrame, Restart, topicVars
<1> QED BY <1>1, <1>2, <1>3, <1>4 DEF Next, ProcessNext

(* order:timeout: a member is added by a creator and removed by a worker   *)
(* that is at its ZREM.                                                    *)
LEMMA TimeoutSetForward ==
  ASSUME TypeOK, [Next]_vars, NEW r \in Requests
  PROVE  TimeoutForward(r)
<1> USE DEF TimeoutForward
<1>1. CASE UNCHANGED vars
  BY <1>1 DEF vars
<1>2. ASSUME NEW p \in Processes, Create(p) PROVE TimeoutForward(r)
  <2>1. CASE CreateAddTimeout(p)
    BY <2>1 DEF CreateAddTimeout
  <2> QED BY <1>2, <2>1 DEF Create, CreateFetch, CreateCompensate, CreateCommit, CreateInsert
<1>3. ASSUME NEW p \in Processes, Pay(p) PROVE TimeoutForward(r)
  <2>1. CASE PayZrem(p)
    BY <2>1 DEF PayZrem, Zrem, ZremFailed
  <2> QED BY <1>3, <2>1 DEF Pay, PayFetch, PayCas, PayRefund, PayCompensate, PayCommit
<1>4. ASSUME NEW p \in Processes, Scan(p) PROVE TimeoutForward(r)
  <2>1. CASE ScanZrem(p)
    BY <2>1 DEF ScanZrem, Zrem, ZremFailed
  <2> QED BY <1>4, <2>1 DEF Scan, ScanStart, ScanRead, ScanPublish, ScanCas
<1>5. ASSUME NEW p \in Processes, Update(p) PROVE TimeoutForward(r)
  <2>1. CASE UpdateZrem(p)
    BY <2>1 DEF UpdateZrem, Zrem, ZremFailed
  <2> QED BY <1>5, <2>1 DEF Update, UpdateRead, UpdateCas, UpdatePublish
<1>6. CASE \E p \in Processes : Restart(p)
  BY <1>6 DEF Restart
<1>7. CASE Environment
  BY <1>7 DEF Environment, SubmitOrder, ReportPayment, Elapse
<1> QED BY <1>1, <1>2, <1>3, <1>4, <1>5, <1>6, <1>7 DEF Next, ProcessNext

(* promotion_order_compensate: nothing is ever taken back from it.         *)
LEMMA CompTopicForward ==
  ASSUME TypeOK, [Next]_vars, NEW r \in Requests
  PROVE  CompForward(r)
<1> USE DEF CompForward, Queue, FailedWrite
<1>1. CASE UNCHANGED vars
  BY <1>1 DEF vars, topicVars
<1>2. ASSUME NEW p \in Processes, Create(p) PROVE CompForward(r)
  <2>1. CASE CreateCompensate(p)
    BY <2>1 DEF CreateCompensate, TypeOK
  <2> QED BY <1>2, <2>1 DEF Create, CreateFetch, CreateAddTimeout, CreateCommit, CreateInsert
<1>3. ASSUME NEW p \in Processes, Pay(p) PROVE CompForward(r)
  <2>1. CASE PayCompensate(p)
    BY <2>1 DEF PayCompensate, TypeOK
  <2> QED BY <1>3, <2>1 DEF Pay, PayFetch, PayCas, PayRefund, PayZrem, PayCommit
<1>4. ASSUME NEW p \in Processes, Scan(p) PROVE CompForward(r)
  <2>1. CASE ScanPublish(p)
    BY <2>1 DEF ScanPublish, TypeOK
  <2> QED BY <1>4, <2>1 DEF Scan, ScanStart, ScanRead, ScanZrem, ScanCas
<1>5. ASSUME NEW p \in Processes, Update(p) PROVE CompForward(r)
  <2>1. CASE UpdatePublish(p)
    BY <2>1 DEF UpdatePublish, TypeOK
  <2> QED BY <1>5, <2>1 DEF Update, UpdateRead, UpdateCas, UpdateZrem
<1>6. CASE \E p \in Processes : Restart(p)
  BY <1>6 DEF Restart, topicVars
<1>7. CASE Environment
  BY <1>7 DEF Environment, SubmitOrder, ReportPayment, Elapse, topicVars
<1> QED BY <1>1, <1>2, <1>3, <1>4, <1>5, <1>6, <1>7 DEF Next, ProcessNext

-----------------------------------------------------------------------------
(* The inductive invariant. *)

(* What a worker knows about the order it is working on.                   *)
CreatorKnows(p) ==
  LET r == creator[p].req IN
  /\ creator[p].pc \in CreatorWork => createTopic[r] # "none"
  /\ creator[p].pc \in {"add", "commit"} => orders[r] # "none"
  /\ creator[p].pc = "commit" /\ orders[r] = "PENDING_PAY" => r \in timeoutSet

PayerKnows(p) ==
  LET e == payer[p].report
      r == OrderOf[e.txn]
  IN /\ payer[p].pc = "refund" => e.status = "PAID" /\ orders[r] \in Unpaid
     /\ payer[p].pc = "compensate" => e.status = "CANCELLED" /\ orders[r] = "CANCELLED"
     /\ payer[p].pc \in {"zrem", "commit"} => Answered(e)

ScannerKnows(p) ==
  LET r == scanner[p].cur IN
  /\ \A s \in scanner[p].batch : orders[s] # "none"
  /\ scanner[p].pc \in ScannerWork => orders[r] # "none"
  /\ scanner[p].pc \in {"publish", "zrem"} => orders[r] \in Terminal

RpcKnows(p) == rpc[p].pc \in {"zrem", "publish"} => orders[rpc[p].req] \in Terminal

RowsKnow ==
  \A r \in Requests : /\ createTopic[r] = "committed" => orders[r] # "none"
                      /\ r \in timeoutSet => orders[r] # "none"

Knowledge ==
  /\ \A p \in Processes : CreatorKnows(p) /\ PayerKnows(p) /\ ScannerKnows(p) /\ RpcKnows(p)
  /\ RowsKnow

IInv == TypeOK /\ Knowledge /\ RefundOnlyUnpaid /\ ReportsAnswered /\ PendingHasTimeout

(* A creator is changed by its own steps or by a restart of its process.   *)
LEMMA CreatorOwn ==
  ASSUME TypeOK, [Next]_vars, NEW q \in Processes
  PROVE  creator'[q] \in {creator[q], IdleCreator} \/ Create(q)
<1>1. CASE UNCHANGED vars
  BY <1>1 DEF vars
<1>2. ASSUME NEW p \in Processes, Create(p) PROVE creator'[q] = creator[q] \/ Create(q)
  BY <1>2 DEF Create, CreateFetch, CreateInsert, CreateCompensate, CreateAddTimeout, CreateCommit,
              Creator, CreatorStop, CreatorDone, TypeOK
<1>3. CASE \E p \in Processes : Pay(p) \/ Scan(p) \/ Update(p)
  BY <1>3, Frames DEF payerFrame, scannerFrame, rpcFrame
<1>4. CASE \E p \in Processes : Restart(p)
  BY <1>4 DEF Restart, TypeOK
<1>5. CASE Environment
  BY <1>5 DEF Environment, SubmitOrder, ReportPayment, Elapse
<1> QED BY <1>1, <1>2, <1>3, <1>4, <1>5 DEF Next, ProcessNext

(* A payer is changed by its own steps or by a restart of its process.     *)
LEMMA PayerOwn ==
  ASSUME TypeOK, [Next]_vars, NEW q \in Processes
  PROVE  payer'[q] \in {payer[q], IdlePayer} \/ Pay(q)
<1>1. CASE UNCHANGED vars
  BY <1>1 DEF vars
<1>2. ASSUME NEW p \in Processes, Pay(p) PROVE payer'[q] = payer[q] \/ Pay(q)
  BY <1>2 DEF Pay, PayFetch, PayCas, PayRefund, PayCompensate, PayZrem, PayCommit,
              Payer, PayerStop, PayerDone, TypeOK
<1>3. CASE \E p \in Processes : Create(p) \/ Scan(p) \/ Update(p)
  BY <1>3, Frames DEF creatorFrame, scannerFrame, rpcFrame
<1>4. CASE \E p \in Processes : Restart(p)
  BY <1>4 DEF Restart, TypeOK
<1>5. CASE Environment
  BY <1>5 DEF Environment, SubmitOrder, ReportPayment, Elapse
<1> QED BY <1>1, <1>2, <1>3, <1>4, <1>5 DEF Next, ProcessNext

(* A scanner is changed by its own steps or by a restart of its process.   *)
LEMMA ScannerOwn ==
  ASSUME TypeOK, [Next]_vars, NEW q \in Processes
  PROVE  scanner'[q] \in {scanner[q], IdleScanner} \/ Scan(q)
<1>1. CASE UNCHANGED vars
  BY <1>1 DEF vars
<1>2. ASSUME NEW p \in Processes, Scan(p) PROVE scanner'[q] = scanner[q] \/ Scan(q)
  BY <1>2 DEF Scan, ScanStart, ScanRead, ScanCas, ScanPublish, ScanZrem,
              Scanner, ScannerAbort, TypeOK
<1>3. CASE \E p \in Processes : Create(p) \/ Pay(p) \/ Update(p)
  BY <1>3, Frames DEF creatorFrame, payerFrame, rpcFrame
<1>4. CASE \E p \in Processes : Restart(p)
  BY <1>4 DEF Restart, TypeOK
<1>5. CASE Environment
  BY <1>5 DEF Environment, SubmitOrder, ReportPayment, Elapse
<1> QED BY <1>1, <1>2, <1>3, <1>4, <1>5 DEF Next, ProcessNext

(* A call is changed by its own steps or by a restart of its process.      *)
LEMMA RpcOwn ==
  ASSUME TypeOK, [Next]_vars, NEW q \in Processes
  PROVE  rpc'[q] \in {rpc[q], IdleRpc} \/ Update(q)
<1>1. CASE UNCHANGED vars
  BY <1>1 DEF vars
<1>2. ASSUME NEW p \in Processes, Update(p) PROVE rpc'[q] = rpc[q] \/ Update(q)
  BY <1>2 DEF Update, UpdateRead, UpdateCas, UpdateZrem, UpdatePublish,
              Rpc, RpcReturn, TypeOK
<1>3. CASE \E p \in Processes : Create(p) \/ Pay(p) \/ Scan(p)
  BY <1>3, Frames DEF creatorFrame, payerFrame, scannerFrame
<1>4. CASE \E p \in Processes : Restart(p)
  BY <1>4 DEF Restart, TypeOK
<1>5. CASE Environment
  BY <1>5 DEF Environment, SubmitOrder, ReportPayment, Elapse
<1> QED BY <1>1, <1>2, <1>3, <1>4, <1>5 DEF Next, ProcessNext

(* Settled orders stay settled, and orders stay. *)
LEMMA OrderKept ==
  ASSUME TypeOK, [Next]_vars, NEW r \in Requests
  PROVE  /\ orders[r] \in Terminal => orders'[r] = orders[r]
         /\ orders[r] # "none" => orders'[r] # "none"
BY OrdersForward DEF OrderForward, Terminal, Unpaid

(* Whoever is about to remove a member from the timeout set knows that its *)
(* order is settled.                                                       *)
LEMMA RemovedIsSettled ==
  ASSUME IInv, NEW r \in timeoutSet,
         \E p \in Processes : \/ payer[p].pc = "zrem" /\ OrderOf[payer[p].report.txn] = r
                              \/ scanner[p].pc = "zrem" /\ scanner[p].cur = r
                              \/ rpc[p].pc = "zrem" /\ rpc[p].req = r
  PROVE  orders[r] \in Terminal
<1>1. PICK p \in Processes : \/ payer[p].pc = "zrem" /\ OrderOf[payer[p].report.txn] = r
                             \/ scanner[p].pc = "zrem" /\ scanner[p].cur = r
                             \/ rpc[p].pc = "zrem" /\ rpc[p].req = r
  OBVIOUS
<1>2. CASE payer[p].pc = "zrem" /\ OrderOf[payer[p].report.txn] = r
  <2>1. Answered(payer[p].report)
    BY <1>2 DEF IInv, Knowledge, PayerKnows
  <2>2. payer[p].report \in Report
    BY <1>2, InHand DEF IInv, PayerWork
  <2>3. CASE payer[p].report.status = "PAID" /\ Published(refundTopic, payer[p].report.txn)
    BY <1>2, <2>2, <2>3, ReportType DEF IInv, RefundOnlyUnpaid, Terminal
  <2> QED BY <1>2, <2>1, <2>3 DEF Answered, Terminal, Unpaid
<1> QED BY <1>1, <1>2 DEF IInv, Knowledge, ScannerKnows, RpcKnows

(* So a PENDING_PAY order that is in the timeout set stays in it.          *)
LEMMA PendingKept ==
  ASSUME IInv, [Next]_vars, NEW r \in timeoutSet, orders'[r] = "PENDING_PAY"
  PROVE  r \in timeoutSet'
BY RemovedIsSettled, TimeoutSetForward, OrderKept DEF IInv, TypeOK, TimeoutForward, Terminal, Unpaid

(* A report that is answered stays answered.                               *)
LEMMA AnsweredKept ==
  ASSUME TypeOK, [Next]_vars, NEW e \in Report, Answered(e)
  PROVE  Answered(e)'
<1>1. orders[OrderOf[e.txn]] \in Terminal => orders'[OrderOf[e.txn]] = orders[OrderOf[e.txn]]
  BY ReportType, OrderKept
<1>2. Published(refundTopic, e.txn) => Published(refundTopic', e.txn)
  BY ReportType, RefundTopicForward DEF RefundForward, Published
<1>3. Published(compTopic, OrderOf[e.txn]) => Published(compTopic', OrderOf[e.txn])
  BY ReportType, CompTopicForward DEF CompForward, Published
<1> QED BY <1>1, <1>2, <1>3 DEF Answered, Terminal, Unpaid

-----------------------------------------------------------------------------
(* Its proof. *)

(* What creators know survives every step.                                 *)
LEMMA CreatorStep ==
  ASSUME IInv, [Next]_vars, TypeOK', NEW q \in Processes
  PROVE  CreatorKnows(q)'
<1> USE DEF IInv
<1>1. CASE creator'[q] = creator[q]
  <2>1. CASE creator[q].pc \in CreatorWork
    <3> DEFINE r == creator[q].req
    <3>1. r \in Requests /\ CreatorKnows(q)
      BY <2>1, InHand DEF Knowledge
    <3>2. orders[r] # "none" => orders'[r] # "none"
      BY <3>1, OrderKept
    <3>3. createTopic'[r] # "none"
      BY <2>1, <3>1, CreateTopicForward DEF CreateForward, CreatorKnows
    <3>4. creator[q].pc = "commit" /\ orders'[r] = "PENDING_PAY" => r \in timeoutSet'
      BY <3>1, OrdersForward, PendingKept DEF OrderForward, CreatorKnows, Terminal, Unpaid
    <3> QED BY <1>1, <3>1, <3>2, <3>3, <3>4 DEF CreatorKnows
  <2> QED BY <1>1, <2>1 DEF CreatorKnows, CreatorWork
<1>2. CASE creator'[q] = IdleCreator
  BY <1>2 DEF IdleCreator, CreatorKnows, CreatorWork
<1>3. CASE Create(q)
  <2>1. ASSUME NEW r \in Requests, CreateFetch(q, r) PROVE CreatorKnows(q)'
    BY <2>1 DEF CreateFetch, CreatorStop, CreatorKnows, CreatorWork, TypeOK
  <2>2. CASE CreateInsert(q)
    <3>1. creator[q].req \in Requests /\ CreatorKnows(q)
      BY <2>2, InHand DEF Knowledge, CreateInsert, CreatorWork
    <3>2. /\ creator'[q].req = creator[q].req
          /\ creator'[q].pc \in {"add", "compensate"}
          /\ createTopic' = createTopic
      BY <2>2 DEF CreateInsert, Creator, TypeOK, CreatorState
    <3>3. creator'[q].pc = "add" => orders'[creator[q].req] # "none"
      BY <2>2, <3>1 DEF CreateInsert, Creator, TypeOK, CreatorState
    <3> QED BY <2>2, <3>1, <3>2, <3>3 DEF CreateInsert, CreatorKnows, CreatorWork
  <2>3. CASE CreateCompensate(q)
    BY <2>3 DEF CreateCompensate, CreatorStop, CreatorKnows, CreatorWork, TypeOK
  <2>4. CASE CreateAddTimeout(q)
    <3>1. creator[q].req \in Requests /\ CreatorKnows(q)
      BY <2>4, InHand DEF Knowledge, CreateAddTimeout, CreatorWork
    <3>2. CASE CreatorStop(q)
      BY <3>2 DEF CreatorStop, CreatorKnows, CreatorWork, TypeOK
    <3>3. CASE timeoutSet' = timeoutSet \cup {creator[q].req} /\ Creator(q, "commit")
      <4>1. creator'[q].req = creator[q].req /\ creator'[q].pc = "commit"
        BY <2>4, <3>3 DEF CreateAddTimeout, Creator, TypeOK, CreatorState
      <4>2. orders' = orders /\ createTopic' = createTopic
        BY <2>4 DEF CreateAddTimeout
      <4> QED BY <2>4, <3>1, <3>3, <4>1, <4>2 DEF CreateAddTimeout, CreatorKnows, CreatorWork
    <3> QED BY <2>4, <3>2, <3>3 DEF CreateAddTimeout
  <2>5. CASE CreateCommit(q)
    BY <2>5 DEF CreateCommit, CreatorStop, CreatorDone, IdleCreator, CreatorKnows, CreatorWork, TypeOK
  <2> QED BY <1>3, <2>1, <2>2, <2>3, <2>4, <2>5 DEF Create
<1> QED BY <1>1, <1>2, <1>3, CreatorOwn

(* What payers know survives every step.                                   *)
LEMMA PayerStep ==
  ASSUME IInv, [Next]_vars, TypeOK', NEW q \in Processes
  PROVE  PayerKnows(q)'
<1> USE DEF IInv
<1>1. CASE payer'[q] = payer[q]
  <2>1. CASE payer[q].pc \in PayerWork
    <3>1. payer[q].report \in Report /\ PayerKnows(q)
      BY <2>1, InHand DEF Knowledge
    <3>0. PICK e \in Report : e = payer[q].report
      BY <3>1
    <3>2. orders[OrderOf[e.txn]] \in Unpaid => orders'[OrderOf[e.txn]] = orders[OrderOf[e.txn]]
      BY OrderKept, ReportType DEF Terminal
    <3>3. Answered(e) => Answered(e)'
      BY AnsweredKept
    <3> QED BY <1>1, <3>0, <3>1, <3>2, <3>3 DEF PayerKnows, Unpaid, Answered
  <2> QED BY <1>1, <2>1 DEF PayerKnows, PayerWork
<1>2. CASE payer'[q] = IdlePayer
  BY <1>2 DEF IdlePayer, PayerKnows, PayerWork
<1>3. CASE Pay(q)
  <2>1. ASSUME NEW e \in Report, PayFetch(q, e) PROVE PayerKnows(q)'
    <3>1. CASE PayerStop(q)
      BY <3>1 DEF PayerStop, PayerKnows, TypeOK
    <3>2. CASE ~ PayerStop(q)
      <4>1. /\ payer'[q] = [pc |-> Route(e.status, orders[OrderOf[e.txn]]), report |-> e]
            /\ orders' = orders
            /\ orders[OrderOf[e.txn]] \in OrderStatus \ {"none"}
        BY <2>1, <3>2, ReportType DEF PayFetch, TypeOK
      <4> QED BY <4>1, ReportType DEF PayerKnows, Answered, Route, OrderStatus, Terminal, Unpaid
    <3> QED BY <3>1, <3>2
  <2>2. CASE PayCas(q)
    <3> DEFINE e == payer[q].report
               r == OrderOf[e.txn]
    <3>1. e \in Report
      BY <2>2, InHand DEF PayCas, PayerWork
    <3>2. CASE PayerStop(q)
      BY <3>2 DEF PayerStop, PayerKnows, TypeOK
    <3>3. CASE CasApplied(r, e.status) /\ Payer(q, IF e.status = "PAID" THEN "zrem" ELSE "compensate")
      <4>1. orders'[r] = e.status
        BY <3>1, <3>3, ReportType DEF CasApplied, TypeOK
      <4>2. payer'[q] = [payer[q] EXCEPT !.pc = IF e.status = "PAID" THEN "zrem" ELSE "compensate"]
        BY <3>3 DEF Payer, TypeOK
      <4>3. payer'[q].report = e /\ payer'[q].pc = IF e.status = "PAID" THEN "zrem" ELSE "compensate"
        BY <2>2, <4>2 DEF TypeOK, PayerState
      <4> QED BY <3>1, <4>1, <4>3, ReportType DEF PayerKnows, Answered
    <3> QED BY <2>2, <3>2, <3>3 DEF PayCas
  <2>3. CASE PayRefund(q)
    <3>1. CASE PayerStop(q)
      BY <3>1 DEF PayerStop, PayerKnows, TypeOK
    <3>2. CASE ~ PayerStop(q)
      <4>1. payer[q].report \in Report /\ PayerKnows(q)
        BY <2>3, InHand DEF PayRefund, PayerWork, Knowledge
      <4>2. payer'[q].pc = "zrem" /\ payer'[q].report = payer[q].report
        BY <2>3, <3>2 DEF PayRefund, Payer, TypeOK, PayerState
      <4>3. Published(refundTopic', payer[q].report.txn)
        BY <2>3, <3>2, <4>1, ReportType DEF PayRefund, Queue, Published, TypeOK
      <4> QED BY <2>3, <4>1, <4>2, <4>3 DEF PayRefund, PayerKnows, Answered
    <3> QED BY <3>1, <3>2
  <2>4. CASE PayCompensate(q)
    <3>1. CASE PayerStop(q)
      BY <3>1 DEF PayerStop, PayerKnows, TypeOK
    <3>2. CASE ~ PayerStop(q)
      <4>1. payer[q].report \in Report /\ PayerKnows(q)
        BY <2>4, InHand DEF PayCompensate, PayerWork, Knowledge
      <4>2. payer'[q].pc = "zrem" /\ payer'[q].report = payer[q].report
        BY <2>4, <3>2 DEF PayCompensate, Payer, TypeOK, PayerState
      <4>3. Published(compTopic', OrderOf[payer[q].report.txn])
        BY <2>4, <3>2, <4>1, ReportType DEF PayCompensate, Queue, Published, TypeOK
      <4> QED BY <2>4, <4>1, <4>2, <4>3 DEF PayCompensate, PayerKnows, Answered
    <3> QED BY <3>1, <3>2
  <2>5. CASE PayZrem(q)
    <3>1. CASE PayerStop(q)
      BY <3>1 DEF PayerStop, PayerKnows, TypeOK
    <3>2. CASE ~ PayerStop(q)
      <4>1. PayerKnows(q)
        BY DEF Knowledge
      <4>2. payer'[q].pc = "commit" /\ payer'[q].report = payer[q].report
        BY <2>5, <3>2 DEF PayZrem, Payer, TypeOK, PayerState
      <4> QED BY <2>5, <4>1, <4>2 DEF PayZrem, PayerKnows, Answered
    <3> QED BY <3>1, <3>2
  <2>6. CASE PayCommit(q)
    BY <2>6 DEF PayCommit, PayerStop, PayerDone, IdlePayer, PayerKnows, TypeOK
  <2> QED BY <1>3, <2>1, <2>2, <2>3, <2>4, <2>5, <2>6 DEF Pay
<1> QED BY <1>1, <1>2, <1>3, PayerOwn

(* What scanners know survives every step.                                 *)
LEMMA ScannerStep ==
  ASSUME IInv, [Next]_vars, TypeOK', NEW q \in Processes
  PROVE  ScannerKnows(q)'
<1> USE DEF IInv
<1>1. scanner[q].batch \subseteq Requests /\ ScannerKnows(q)
  BY DEF Knowledge, TypeOK, ScannerState, IdleScanner
<1>2. \A s \in scanner[q].batch : orders'[s] # "none"
  BY <1>1, OrderKept DEF ScannerKnows
<1>3. CASE scanner'[q] = scanner[q]
  <2>1. CASE scanner[q].pc \in ScannerWork
    <3>1. scanner[q].cur \in Requests
      BY <2>1, InHand
    <3> QED BY <1>1, <1>2, <1>3, <3>1, OrderKept DEF ScannerKnows
  <2> QED BY <1>2, <1>3, <2>1 DEF ScannerKnows, ScannerWork
<1>4. CASE scanner'[q] = IdleScanner
  BY <1>4 DEF IdleScanner, ScannerKnows, ScannerWork
<1>5. CASE Scan(q)
  <2>0. CASE ScannerAbort(q)
    BY <2>0, <1>4 DEF ScannerAbort, TypeOK
  <2>1. CASE ScanStart(q)
    <3>1. scanner'[q].pc = "read" /\ scanner'[q].batch = timeoutSet \cap due
      BY <2>1 DEF ScanStart, IdleScanner, TypeOK
    <3>2. \A s \in timeoutSet \cap due : orders'[s] # "none"
      BY <2>1 DEF ScanStart, Knowledge, RowsKnow, TypeOK
    <3> QED BY <3>1, <3>2 DEF ScannerKnows, ScannerWork
  <2>2. ASSUME NEW r \in Requests, ScanRead(q, r), ~ ScannerAbort(q) PROVE ScannerKnows(q)'
    <3>1. /\ scanner'[q].pc = "cas"
          /\ scanner'[q].batch = scanner[q].batch \ {r}
          /\ scanner'[q].cur = r
          /\ orders'[r] # "none"
      BY <2>2, <1>1, <1>2 DEF ScanRead, ScannerKnows, TypeOK
    <3> QED BY <1>2, <3>1 DEF ScannerKnows
  <2>3. CASE ScanCas(q) /\ ~ ScannerAbort(q)
    <3>1. scanner[q].cur \in Requests /\ orders[scanner[q].cur] # "none"
      BY <2>3, <1>1, InHand DEF ScanCas, ScannerWork, ScannerKnows
    <3>2. orders'[scanner[q].cur] \in Terminal
      BY <2>3, <3>1 DEF ScanCas, CasApplied, CasUnmatched, TypeOK, OrderStatus, Terminal, Unpaid
    <3>3. scanner'[q].cur = scanner[q].cur /\ scanner'[q].batch = scanner[q].batch
      BY <2>3 DEF ScanCas, Scanner, TypeOK, ScannerState, IdleScanner
    <3> QED BY <1>2, <3>2, <3>3 DEF ScannerKnows, Terminal, Unpaid
  <2>4. CASE ScanPublish(q) /\ ~ ScannerAbort(q)
    <3>1. /\ scanner'[q].cur = scanner[q].cur /\ scanner'[q].batch = scanner[q].batch
          /\ scanner[q].pc = "publish" /\ orders' = orders
      BY <2>4 DEF ScanPublish, Scanner, TypeOK, ScannerState, IdleScanner
    <3> QED BY <1>1, <1>2, <3>1 DEF ScannerKnows, Terminal, Unpaid
  <2>5. CASE ScanZrem(q) /\ ~ ScannerAbort(q)
    <3>1. scanner'[q].pc = "read" /\ scanner'[q].batch = scanner[q].batch
      BY <2>5 DEF ScanZrem, Scanner, TypeOK, ScannerState, IdleScanner
    <3> QED BY <1>2, <3>1 DEF ScannerKnows, ScannerWork
  <2> QED BY <1>5, <2>0, <2>1, <2>2, <2>3, <2>4, <2>5 DEF Scan
<1> QED BY <1>3, <1>4, <1>5, ScannerOwn

(* What calls know survives every step.                                    *)
LEMMA RpcStep ==
  ASSUME IInv, [Next]_vars, TypeOK', NEW q \in Processes
  PROVE  RpcKnows(q)'
<1> USE DEF IInv
<1>1. CASE rpc'[q] = rpc[q]
  BY <1>1, InHand, OrderKept DEF RpcKnows, Knowledge, RpcWork
<1>2. CASE rpc'[q] = IdleRpc
  BY <1>2 DEF IdleRpc, RpcKnows
<1>3. CASE Update(q)
  <2>0. CASE RpcReturn(q)
    BY <2>0, <1>2 DEF RpcReturn, TypeOK
  <2>1. ASSUME NEW r \in Requests, NEW k \in RpcRequests, UpdateRead(q, r, k) PROVE RpcKnows(q)'
    BY <2>1 DEF UpdateRead, RpcKnows, TypeOK
  <2>2. CASE UpdateCas(q) /\ ~ RpcReturn(q)
    <3>1. rpc[q].req \in Requests /\ rpc[q].target \in Terminal
      BY <2>2, InHand DEF UpdateCas, RpcWork
    <3>2. orders'[rpc[q].req] \in Terminal
      BY <2>2, <3>1 DEF UpdateCas, CasApplied, TypeOK
    <3>3. rpc'[q].req = rpc[q].req
      BY <2>2 DEF UpdateCas, Rpc, TypeOK, RpcState, IdleRpc
    <3> QED BY <3>2, <3>3 DEF RpcKnows
  <2>3. CASE UpdateZrem(q) /\ ~ RpcReturn(q)
    <3>1. rpc'[q].req = rpc[q].req /\ rpc[q].pc = "zrem" /\ orders' = orders
      BY <2>3 DEF UpdateZrem, Rpc, TypeOK, RpcState, IdleRpc
    <3> QED BY <3>1 DEF RpcKnows, Knowledge
  <2> QED BY <1>3, <2>0, <2>1, <2>2, <2>3 DEF Update, UpdatePublish
<1> QED BY <1>1, <1>2, <1>3, RpcOwn

(* The invariant is inductive.                                             *)
LEMMA IInvStep == IInv /\ [Next]_vars => IInv'
<1> SUFFICES ASSUME IInv, [Next]_vars PROVE IInv'
  OBVIOUS
<1> USE DEF IInv
<1>1. TypeOK'
  BY TypeStep
<1>2. RowsKnow'
  <2>1. ASSUME NEW r \in Requests, createTopic'[r] = "committed" PROVE orders'[r] # "none"
    <3>1. CASE createTopic[r] = "committed"
      BY <3>1, OrderKept DEF Knowledge, RowsKnow
    <3>2. CASE \E p \in Processes : creator[p].pc = "commit" /\ creator[p].req = r
      BY <3>2, OrderKept DEF Knowledge, CreatorKnows
    <3> QED BY <2>1, <3>1, <3>2, CreateTopicForward DEF CreateForward
  <2>2. ASSUME NEW r \in Requests, r \in timeoutSet' PROVE orders'[r] # "none"
    <3>1. CASE r \in timeoutSet
      BY <3>1, OrderKept DEF Knowledge, RowsKnow
    <3>2. CASE \E p \in Processes : creator[p].pc = "add" /\ creator[p].req = r
      BY <3>2, OrderKept DEF Knowledge, CreatorKnows
    <3> QED BY <2>2, <3>1, <3>2, TimeoutSetForward DEF TimeoutForward
  <2> QED BY <2>1, <2>2 DEF RowsKnow
<1>3. Knowledge'
  BY <1>1, <1>2, CreatorStep, PayerStep, ScannerStep, RpcStep DEF Knowledge
<1>4. RefundOnlyUnpaid'
  <2> SUFFICES ASSUME NEW t \in Txns, Published(refundTopic', t)
               PROVE  orders'[OrderOf[t]] \in Unpaid
    BY DEF RefundOnlyUnpaid
  <2>1. orders[OrderOf[t]] \in Unpaid
    <3>1. CASE refundTopic'[t] = refundTopic[t]
      BY <3>1 DEF RefundOnlyUnpaid, Published
    <3>2. CASE \E p \in Processes : payer[p].pc = "refund" /\ payer[p].report.txn = t
      BY <3>2 DEF Knowledge, PayerKnows
    <3> QED BY <3>1, <3>2, RefundTopicForward DEF RefundForward
  <2>2. OrderOf[t] \in Requests
    BY ConstantsAssumption
  <2>3. orders[OrderOf[t]] \in Terminal
    BY <2>1 DEF Terminal
  <2>4. orders'[OrderOf[t]] = orders[OrderOf[t]]
    BY <2>2, <2>3, OrderKept
  <2> QED BY <2>1, <2>4
<1>5. ReportsAnswered'
  <2> SUFFICES ASSUME NEW e \in Report, payTopic'[e] = "committed"
               PROVE  Answered(e)'
    BY DEF ReportsAnswered
  <2>1. Answered(e)
    <3>1. CASE payTopic[e] = "committed"
      BY <3>1 DEF ReportsAnswered
    <3>2. CASE \E p \in Processes : payer[p].pc = "commit" /\ payer[p].report = e
      BY <3>2 DEF Knowledge, PayerKnows
    <3> QED BY <3>1, <3>2, PayTopicForward DEF PayForward
  <2> QED BY <2>1, AnsweredKept
<1>6. PendingHasTimeout'
  <2> SUFFICES ASSUME NEW r \in Requests, orders'[r] = "PENDING_PAY"
               PROVE  r \in timeoutSet' \/ createTopic'[r] = "queued"
    BY DEF PendingHasTimeout
  <2>1. CASE orders[r] = "PENDING_PAY"
    <3>1. CASE r \in timeoutSet
      BY <3>1, PendingKept
    <3>2. CASE createTopic[r] = "queued" /\ createTopic'[r] # "queued"
      <4>1. PICK p \in Processes : creator[p].pc = "commit" /\ creator[p].req = r
        BY <3>2, CreateTopicForward DEF CreateForward
      <4>2. r \in timeoutSet
        BY <2>1, <4>1 DEF Knowledge, CreatorKnows
      <4> QED BY <4>2, PendingKept
    <3> QED BY <2>1, <3>1, <3>2 DEF PendingHasTimeout
  <2>2. CASE orders[r] = "none"
    <3>1. UNCHANGED createTopic /\ \E p \in Processes : creator[p].pc = "insert" /\ creator[p].req = r
      BY <2>2, OrdersForward DEF OrderForward
    <3>2. createTopic[r] # "none"
      BY <3>1 DEF Knowledge, CreatorKnows, CreatorWork
    <3>3. createTopic[r] # "committed"
      BY <2>2 DEF Knowledge, RowsKnow
    <3> QED BY <3>1, <3>2, <3>3 DEF TypeOK, MessageState
  <2> QED BY <2>1, <2>2, OrdersForward DEF OrderForward
<1> QED BY <1>1, <1>3, <1>4, <1>5, <1>6

(* The invariant holds at the start.                                       *)
LEMMA IInvInit == Init => IInv
<1> SUFFICES ASSUME Init PROVE IInv
  OBVIOUS
<1> USE DEF Init, Empty
<1>1. TypeOK
  BY DEF TypeOK, MessageState, OrderStatus, IdleCreator, IdlePayer,
     CreatorState, PayerState, ScannerState, RpcState
<1>2. Knowledge
  BY DEF Knowledge, CreatorKnows, PayerKnows, ScannerKnows, RpcKnows, RowsKnow,
     IdleCreator, IdlePayer, IdleScanner, IdleRpc, CreatorWork, ScannerWork
<1>3. RefundOnlyUnpaid /\ ReportsAnswered /\ PendingHasTimeout
  BY DEF RefundOnlyUnpaid, ReportsAnswered, PendingHasTimeout, Published
<1> QED BY <1>1, <1>2, <1>3 DEF IInv

(* The inductive invariant holds in every reachable state, with any        *)
(* faults.                                                                 *)
THEOREM Invariance == Spec => []IInv
BY IInvInit, IInvStep, PTL DEF Spec

(* Money goes back only for an order that has ended unpaid                 *)
(* (payreport/consumer.go: a refund is published only from the branch that *)
(* read a terminal unpaid order, and such an order does not change).       *)
THEOREM RefundSafe == Spec => []RefundOnlyUnpaid
BY Invariance, PTL DEF IInv

(* No pay report is committed before it is answered                        *)
(* (payreport/consumer.go: CommitFunc is the last call of the handler).    *)
THEOREM ReportsSafe == Spec => []ReportsAnswered
BY Invariance, PTL DEF IInv

(* No order is left PENDING_PAY with nothing to close it                   *)
(* (promotionorder/consumer.go: the timeout is written before the commit;  *)
(* every ZREM comes after the order was settled).                          *)
THEOREM TimeoutSafe == Spec => []PendingHasTimeout
BY Invariance, PTL DEF IInv

(* A settled order never changes again, and no order disappears (every     *)
(* update is conditional on PENDING_PAY).                                  *)
THEOREM SettledSafe == Spec => SettledStable
<1>1. TypeOK /\ [Next]_vars => [OrdersSettle]_vars
  BY OrderKept DEF OrdersSettle
<1> QED BY <1>1, TypeCorrect, PTL DEF Spec, SettledStable

-----------------------------------------------------------------------------
(* The contract.  It is kept where every statement is answered, a message  *)
(* is in one process's hands at a time, and no caller gives a reason, which*)
(* asks for compensation, while declaring an order paid.                   *)
Dependable ==
  /\ Faults \cap {"database", "replyLost"} = {}
  /\ "rebalance" \in Faults => \A p, q \in Processes : p = q
  /\ \A q \in RpcRequests : q.reason => q.target \in Unpaid

(* A creator's message is its own; it inserts an order that is not there,  *)
(* and never has to compensate.                                            *)
Alone(p) ==
  creator[p].pc \in CreatorWork =>
    \A q \in Processes : creator[q].req = creator[p].req => p = q
Inserts(p) ==
  /\ creator[p].pc # "compensate"
  /\ creator[p].pc = "insert" => orders[creator[p].req] = "none"

CreatorsAlone == \A p \in Processes : Alone(p) /\ Inserts(p)

(* A scanner publishes for an order it has closed or has read as unpaid.   *)
ScannersRight ==
  \A p \in Processes :
    /\ scanner[p].pc = "cas" /\ scanner[p].snap \in Unpaid => orders[scanner[p].cur] \in Unpaid
    /\ scanner[p].pc = "publish" => orders[scanner[p].cur] \in Unpaid

(* A call publishes, with a reason, for the order it has settled unpaid.   *)
CallsRight ==
  \A p \in Processes :
    /\ rpc[p].pc \in RpcWork /\ rpc[p].reason => rpc[p].target \in Unpaid
    /\ rpc[p].pc \in {"zrem", "publish"} => orders[rpc[p].req] = rpc[p].target
    /\ rpc[p].pc = "publish" => rpc[p].reason

ContractInv == IInv /\ CreatorsAlone /\ ScannersRight /\ CallsRight

(* A creator that is idle or stopped leaves the others alone.              *)
LEMMA AloneAfterLeaving ==
  ASSUME TypeOK, CreatorsAlone, NEW p \in Processes, UNCHANGED orders,
         \A q \in Processes : q # p => creator'[q] = creator[q],
         creator'[p].pc \in {"idle", "stopped"}, creator'[p].req = NoRequest
  PROVE  CreatorsAlone'
<1>1. \A q \in Processes : creator[q].pc \in CreatorWork => creator[q].req # NoRequest
  BY InHand DEF ConstantsAssumption
<1>2. ASSUME NEW a \in Processes PROVE Alone(a)' /\ Inserts(a)'
  <2>1. CASE a = p
    BY <2>1 DEF Alone, Inserts, CreatorWork
  <2>2. CASE a # p
    BY <1>1, <2>2 DEF CreatorsAlone, Alone, Inserts, CreatorWork
  <2> QED BY <2>1, <2>2
<1> QED BY <1>2 DEF CreatorsAlone

(* An order that a creator is about to insert is its own: nobody else can  *)
(* have its message.                                                       *)
LEMMA CreatorsAloneStep ==
  ASSUME Dependable, ContractInv, [Next]_vars, TypeOK'
  PROVE  CreatorsAlone'
<1> USE DEF ContractInv, IInv
<1>1. CASE UNCHANGED <<creator, orders>>
  BY <1>1 DEF CreatorsAlone, Alone, Inserts, CreatorWork
<1>2. ASSUME NEW p \in Processes, Create(p) PROVE CreatorsAlone'
  <2>1. /\ \A q \in Processes : q # p => creator'[q] = creator[q]
        /\ \A r \in Requests : r # creator[p].req => orders'[r] = orders[r]
    BY <1>2 DEF Create, CreateFetch, CreateInsert, CreateCompensate, CreateAddTimeout, CreateCommit,
                Creator, CreatorStop, CreatorDone, TypeOK
  <2>2. \/ /\ creator'[p] \in {IdleCreator, [pc |-> "stopped", req |-> NoRequest]}
           /\ UNCHANGED orders
        \/ \E r \in Requests : /\ \A q \in Processes : creator[q].req # r
                              /\ creator'[p].req = r /\ UNCHANGED orders
                              /\ creator'[p].pc = IF orders[r] = "none" THEN "insert" ELSE "add"
        \/ /\ creator[p].pc \in CreatorWork /\ creator'[p].req = creator[p].req
           /\ creator'[p].pc \in {"add", "commit"}
    <3>1. ASSUME NEW r \in Requests, CreateFetch(p, r)
          PROVE  \/ creator'[p] = [pc |-> "stopped", req |-> NoRequest] /\ UNCHANGED orders
                 \/ /\ \A q \in Processes : creator[q].req # r
                    /\ creator'[p].req = r /\ UNCHANGED orders
                    /\ creator'[p].pc = IF orders[r] = "none" THEN "insert" ELSE "add"
      <4>1. \A q \in Processes : creator[q].req # r
        BY <3>1 DEF CreateFetch, Dependable, TypeOK, CreatorState, CreatorWork
      <4> QED BY <3>1, <4>1 DEF CreateFetch, CreatorStop, TypeOK, Dependable
    <3>2. CASE CreateInsert(p)
      BY <3>2 DEF CreateInsert, Creator, CreatorsAlone, Inserts, CreatorWork, TypeOK, CreatorState, Dependable
    <3>3. CASE CreateCompensate(p)
      BY <3>3 DEF CreateCompensate, CreatorsAlone, Inserts
    <3>4. CASE CreateAddTimeout(p) \/ CreateCommit(p)
      BY <3>4 DEF CreateAddTimeout, CreateCommit, Creator, CreatorStop, CreatorDone, CreatorWork,
                  TypeOK, CreatorState
    <3> QED BY <1>2, <3>1, <3>2, <3>3, <3>4 DEF Create
  <2>3. \A q \in Processes : creator[q].pc \in CreatorWork => creator[q].req \in Requests
    BY InHand
  <2>4. CASE /\ creator'[p] \in {IdleCreator, [pc |-> "stopped", req |-> NoRequest]}
             /\ UNCHANGED orders
    BY <1>2, <2>1, <2>4, AloneAfterLeaving DEF IdleCreator
  <2>5. CASE \E r \in Requests : /\ \A q \in Processes : creator[q].req # r
                              /\ creator'[p].req = r /\ UNCHANGED orders
                              /\ creator'[p].pc = IF orders[r] = "none" THEN "insert" ELSE "add"
    <3>1. PICK r \in Requests : /\ \A q \in Processes : creator[q].req # r
                               /\ creator'[p].req = r /\ UNCHANGED orders
                               /\ creator'[p].pc = IF orders[r] = "none" THEN "insert" ELSE "add"
      BY <2>5
    <3>2. ASSUME NEW a \in Processes PROVE Alone(a)' /\ Inserts(a)'
      <4>1. CASE a = p
        BY <2>1, <3>1, <4>1 DEF Alone, Inserts, CreatorWork
      <4>2. CASE a # p
        BY <2>1, <3>1, <4>2 DEF CreatorsAlone, Alone, Inserts, CreatorWork
      <4> QED BY <4>1, <4>2
    <3> QED BY <3>2 DEF CreatorsAlone
  <2>6. CASE /\ creator[p].pc \in CreatorWork /\ creator'[p].req = creator[p].req
             /\ creator'[p].pc \in {"add", "commit"}
    BY <2>1, <2>3, <2>6 DEF CreatorsAlone, Alone, Inserts, CreatorWork
  <2> QED BY <2>2, <2>4, <2>5, <2>6
<1>3. ASSUME NEW p \in Processes, Pay(p) \/ Scan(p) \/ Update(p) PROVE CreatorsAlone'
  <2>1. creator' = creator
    BY <1>3, Frames DEF payerFrame, scannerFrame, rpcFrame
  <2>2. \A r \in Requests : orders[r] = "none" => orders'[r] = "none"
    <3>1. CASE PayCas(p)
      <4>1. payer[p].report \in Report
        BY <3>1, InHand DEF PayCas, PayerWork
      <4> QED BY <3>1, <4>1, CasForward, ReportType DEF PayCas, Terminal, Unpaid
    <3>2. CASE ScanCas(p)
      BY <3>2, InHand, CasForward DEF ScanCas, ScannerWork, Terminal, Unpaid
    <3>3. CASE UpdateCas(p)
      BY <3>3, InHand, CasForward DEF UpdateCas, RpcWork
    <3> QED BY <1>3, <3>1, <3>2, <3>3
            DEF Pay, PayFetch, PayRefund, PayCompensate, PayZrem, PayCommit,
                Scan, ScanStart, ScanRead, ScanPublish, ScanZrem,
                Update, UpdateRead, UpdateZrem, UpdatePublish
  <2>3. \A q \in Processes : creator[q].pc = "insert" => creator[q].req \in Requests
    BY InHand DEF CreatorWork
  <2> QED BY <2>1, <2>2, <2>3 DEF CreatorsAlone, Alone, Inserts, CreatorWork
<1>4. ASSUME NEW p \in Processes, Restart(p) PROVE CreatorsAlone'
  BY <1>4, AloneAfterLeaving DEF Restart, IdleCreator, TypeOK
<1>5. CASE Environment
  BY <1>1, <1>5 DEF Environment, SubmitOrder, ReportPayment, Elapse
<1> QED BY <1>1, <1>2, <1>3, <1>4, <1>5 DEF Next, ProcessNext, vars

(* A scanner publishes for an order that it has closed, or that it had     *)
(* read as unpaid.                                                         *)
LEMMA ScannersRightStep ==
  ASSUME ContractInv, [Next]_vars, NEW p \in Processes
  PROVE  /\ scanner'[p].pc = "cas" /\ scanner'[p].snap \in Unpaid
              => orders'[scanner'[p].cur] \in Unpaid
         /\ scanner'[p].pc = "publish" => orders'[scanner'[p].cur] \in Unpaid
<1> USE DEF ContractInv, IInv
<1>0. \A r \in Requests : orders[r] \in Unpaid => orders'[r] \in Unpaid
  BY OrderKept DEF Terminal
<1>1. CASE scanner'[p] = scanner[p]
  BY <1>0, <1>1, InHand DEF ScannersRight, ScannerWork
<1>2. CASE scanner'[p] = IdleScanner
  BY <1>2 DEF IdleScanner
<1>3. CASE Scan(p) /\ ~ ScannerAbort(p)
  <2>1. CASE ScanStart(p)
    BY <2>1 DEF ScanStart, IdleScanner, TypeOK
  <2>2. CASE \E r \in Requests : ScanRead(p, r)
    BY <1>3, <2>2 DEF ScanRead, TypeOK
  <2>3. CASE ScanCas(p)
    <3>1. /\ scanner[p].cur \in Requests /\ scanner'[p].cur = scanner[p].cur
          /\ scanner[p].pc = "cas" /\ scanner'[p].pc \in {"publish", "zrem"}
      BY <1>3, <2>3, InHand DEF ScanCas, ScannerWork, Scanner, TypeOK, ScannerState, IdleScanner
    <3>2. scanner'[p].pc = "publish" => orders'[scanner[p].cur] \in Unpaid
      BY <1>3, <2>3, <3>1, <1>0
      DEF ScanCas, CasApplied, Scanner, ScannersRight, TypeOK, ScannerState, IdleScanner, Unpaid
    <3> QED BY <3>1, <3>2
  <2>4. CASE ScanPublish(p) \/ ScanZrem(p)
    BY <1>3, <2>4 DEF ScanPublish, ScanZrem, Scanner, TypeOK, ScannerState, IdleScanner
  <2> QED BY <1>3, <2>1, <2>2, <2>3, <2>4 DEF Scan
<1>4. CASE ScannerAbort(p)
  BY <1>4, <1>2 DEF ScannerAbort, TypeOK
<1> QED BY <1>1, <1>2, <1>3, <1>4, ScannerOwn

(* A call publishes for an order that it has cancelled or closed itself.   *)
LEMMA CallsRightStep ==
  ASSUME Dependable, ContractInv, [Next]_vars, NEW p \in Processes
  PROVE  /\ rpc'[p].pc \in RpcWork /\ rpc'[p].reason => rpc'[p].target \in Unpaid
         /\ rpc'[p].pc \in {"zrem", "publish"} => orders'[rpc'[p].req] = rpc'[p].target
         /\ rpc'[p].pc = "publish" => rpc'[p].reason
<1> USE DEF ContractInv, IInv
<1>0. \A r \in Requests : orders[r] \in Terminal => orders'[r] = orders[r]
  BY OrderKept
<1>1. CASE rpc'[p] = rpc[p]
  BY <1>0, <1>1, InHand DEF CallsRight, RpcWork
<1>2. CASE rpc'[p] = IdleRpc
  BY <1>2 DEF IdleRpc, RpcWork
<1>3. CASE Update(p) /\ ~ RpcReturn(p)
  <2>1. CASE \E r \in Requests, q \in RpcRequests : UpdateRead(p, r, q)
    BY <2>1 DEF UpdateRead, TypeOK, Dependable
  <2>2. CASE UpdateCas(p) \/ UpdateZrem(p)
    <3>1. /\ rpc[p].pc \in RpcWork /\ rpc[p].req \in Requests
          /\ rpc'[p].req = rpc[p].req /\ rpc'[p].target = rpc[p].target
          /\ rpc'[p].reason = rpc[p].reason
      BY <1>3, <2>2, InHand DEF UpdateCas, UpdateZrem, Rpc, RpcWork, TypeOK, RpcState, IdleRpc
    <3>2. orders'[rpc[p].req] = rpc[p].target
      BY <1>3, <2>2, <3>1 DEF UpdateCas, UpdateZrem, CasApplied, CallsRight, TypeOK
    <3>3. rpc'[p].pc = "publish" => rpc[p].reason
      BY <1>3, <2>2 DEF UpdateCas, UpdateZrem, Rpc, TypeOK, RpcState, IdleRpc
    <3> QED BY <3>1, <3>2, <3>3 DEF CallsRight
  <2> QED BY <1>3, <2>1, <2>2 DEF Update, UpdatePublish
<1>4. CASE RpcReturn(p)
  BY <1>4, <1>2 DEF RpcReturn, TypeOK
<1> QED BY <1>1, <1>2, <1>3, <1>4, RpcOwn

(* What the workers know of their orders is kept by every step.            *)
LEMMA ContractInvStep ==
  ASSUME Dependable, ContractInv, [Next]_vars
  PROVE  ContractInv'
<1>1. IInv' /\ TypeOK'
  BY IInvStep DEF ContractInv, IInv
<1> QED BY <1>1, CreatorsAloneStep, ScannersRightStep, CallsRightStep
        DEF ContractInv, ScannersRight, CallsRight

(* Every step is a step of the contract, or invisible to it. *)

Released == {r \in Requests : Published(compTopic, r)}
Refunded == {t \in Txns : Published(refundTopic, t)}
ContractStep == Contract!Next \/ UNCHANGED <<orders, Released, Refunded>>

(* A step that leaves orders and outgoing messages alone.                  *)
LEMMA InvisibleStep ==
  ASSUME UNCHANGED <<orders, compTopic, refundTopic>>
  PROVE  ContractStep
BY DEF ContractStep, Released, Refunded, Published

(* A conditional update settles an order or is not seen.                   *)
LEMMA SettleStep ==
  ASSUME Dependable, NEW r \in Requests, NEW s \in Terminal,
         CasApplied(r, s) \/ CasUnmatched(r) \/ CasFailed(r, s),
         UNCHANGED <<compTopic, refundTopic>>
  PROVE  ContractStep
<1>1. CASE CasApplied(r, s)
  <2>1. Contract!Settle(r, s)
    BY <1>1 DEF CasApplied, Contract!Settle, Published
  <2>2. s \in Contract!Unsold \cup {"PAID"}
    BY DEF Terminal, Unpaid, Contract!Unsold
  <2> QED BY <2>1, <2>2 DEF ContractStep, Contract!Next
<1>2. CASE CasUnmatched(r) \/ CasFailed(r, s)
  <2>1. UNCHANGED orders \/ CasApplied(r, s)
    BY <1>2 DEF CasUnmatched, CasFailed
  <2> QED BY <2>1, <1>1, InvisibleStep
<1> QED BY <1>1, <1>2

(* A compensation, written or not, is released stock or not seen.          *)
LEMMA ReleaseStep ==
  ASSUME TypeOK, NEW r \in Requests, orders[r] \in Unpaid,
         compTopic' \in {Queue(compTopic, r)} \cup FailedWrite(compTopic, r, Faults),
         UNCHANGED <<orders, refundTopic>>
  PROVE  ContractStep
<1>1. CASE compTopic' = compTopic
  BY <1>1, InvisibleStep
<1>2. CASE compTopic' = Queue(compTopic, r)
  <2>1. Released' = Released \cup {r}
    BY <1>2 DEF Released, Published, Queue, TypeOK, MessageState
  <2>2. Contract!Release(r)
    BY <2>1 DEF Contract!Release, Contract!Unsold, Unpaid, Released, Published
  <2> QED BY <2>2 DEF ContractStep, Contract!Next
<1> QED BY <1>1, <1>2 DEF FailedWrite

(* A refund that was asked for, or not, likewise.                          *)
LEMMA RefundStep ==
  ASSUME TypeOK, NEW t \in Txns, orders[OrderOf[t]] \in Unpaid,
         refundTopic' \in {Queue(refundTopic, t)} \cup FailedWrite(refundTopic, t, Faults),
         UNCHANGED <<orders, compTopic>>
  PROVE  ContractStep
<1>1. CASE refundTopic' = refundTopic
  BY <1>1, InvisibleStep
<1>2. CASE refundTopic' = Queue(refundTopic, t)
  <2>1. Refunded' = Refunded \cup {t}
    BY <1>2 DEF Refunded, Published, Queue, TypeOK, MessageState
  <2>2. Contract!Refund(t)
    BY <2>1 DEF Contract!Refund, Contract!Unsold, Unpaid, Refunded, Published
  <2> QED BY <2>2 DEF ContractStep, Contract!Next
<1> QED BY <1>1, <1>2 DEF FailedWrite

(* One case per action; the contract's actions are taken one at a time.    *)
LEMMA ContractKeptByStep ==
  ASSUME Dependable, ContractInv, [Next]_vars
  PROVE  ContractStep
<1>t. TypeOK
  BY DEF ContractInv, IInv
<1>1. CASE UNCHANGED vars
  BY <1>1, InvisibleStep DEF vars, topicVars
<1>2. ASSUME NEW p \in Processes, Create(p) PROVE ContractStep
  <2>1. CASE CreateInsert(p)
    <3>1. /\ creator[p].req \in Requests
          /\ orders[creator[p].req] = "none"
      BY <1>t, <2>1, InHand DEF CreateInsert, CreatorWork, ContractInv, CreatorsAlone, Inserts
    <3>2. /\ orders' = [orders EXCEPT ![creator[p].req] = "PENDING_PAY"]
          /\ UNCHANGED <<compTopic, refundTopic>>
      BY <2>1, <3>1 DEF CreateInsert, Dependable, creatorFrame
    <3>3. Contract!Open(creator[p].req)
      BY <3>1, <3>2 DEF Contract!Open, Published
    <3> QED BY <3>1, <3>3 DEF ContractStep, Contract!Next
  <2>2. ~ CreateCompensate(p)
    BY DEF CreateCompensate, ContractInv, CreatorsAlone, Inserts
  <2> QED BY <1>2, <2>1, <2>2, InvisibleStep
          DEF Create, CreateFetch, CreateAddTimeout, CreateCommit, creatorFrame
<1>3. ASSUME NEW p \in Processes, Pay(p) PROVE ContractStep
  <2>1. PayerKnows(p)
    BY DEF ContractInv, IInv, Knowledge
  <2>2. CASE PayCas(p)
    <3>1. payer[p].report \in Report
      BY <1>t, <2>2, InHand DEF PayCas, PayerWork
    <3>2. payer[p].report.status \in Terminal
      BY <3>1, ReportType DEF Terminal, Unpaid
    <3> QED BY <2>2, <3>1, <3>2, ReportType, SettleStep DEF PayCas
  <2>3. CASE PayRefund(p)
    <3>1. payer[p].report \in Report
      BY <1>t, <2>3, InHand DEF PayRefund, PayerWork
    <3> QED BY <1>t, <2>1, <2>3, <3>1, ReportType, RefundStep DEF PayRefund, PayerKnows
  <2>4. CASE PayCompensate(p)
    <3>1. payer[p].report \in Report
      BY <1>t, <2>4, InHand DEF PayCompensate, PayerWork
    <3>2. orders[OrderOf[payer[p].report.txn]] \in Unpaid
      BY <2>1, <2>4 DEF PayCompensate, PayerKnows, Unpaid
    <3> QED BY <1>t, <2>4, <3>1, <3>2, ReportType, ReleaseStep DEF PayCompensate
  <2> QED BY <1>3, <2>2, <2>3, <2>4, InvisibleStep DEF Pay, PayFetch, PayZrem, PayCommit
<1>4. ASSUME NEW p \in Processes, Scan(p) PROVE ContractStep
  <2>1. CASE ScanCas(p)
    BY <1>t, <2>1, InHand, SettleStep DEF ScanCas, ScannerWork, scannerFrame, Terminal, Unpaid
  <2>2. CASE ScanPublish(p)
    <3>1. scanner[p].cur \in Requests /\ orders[scanner[p].cur] \in Unpaid
      BY <1>t, <2>2, InHand DEF ScanPublish, ScannerWork, ContractInv, ScannersRight
    <3> QED BY <1>t, <2>2, <3>1, ReleaseStep DEF ScanPublish, scannerFrame
  <2> QED BY <1>4, <2>1, <2>2, InvisibleStep DEF Scan, ScanStart, ScanRead, ScanZrem, scannerFrame
<1>5. ASSUME NEW p \in Processes, Update(p) PROVE ContractStep
  <2>1. CASE UpdateCas(p)
    BY <1>t, <2>1, InHand, SettleStep DEF UpdateCas, RpcWork, rpcFrame
  <2>2. CASE UpdatePublish(p)
    <3>1. rpc[p].req \in Requests /\ orders[rpc[p].req] \in Unpaid
      BY <1>t, <2>2, InHand DEF UpdatePublish, RpcWork, ContractInv, CallsRight
    <3> QED BY <1>t, <2>2, <3>1, ReleaseStep DEF UpdatePublish, rpcFrame
  <2> QED BY <1>5, <2>1, <2>2, InvisibleStep DEF Update, UpdateRead, UpdateZrem, rpcFrame
<1>6. ASSUME NEW p \in Processes, Restart(p) PROVE ContractStep
  BY <1>6, InvisibleStep DEF Restart, topicVars
<1>7. CASE Environment
  BY <1>7, InvisibleStep DEF Environment, SubmitOrder, ReportPayment, Elapse, topicVars
<1> QED BY <1>1, <1>2, <1>3, <1>4, <1>5, <1>6, <1>7 DEF Next, ProcessNext

(* Nothing is ordered, released or refunded at the start.                  *)
LEMMA ContractInvInit == Init => ContractInv /\ Contract!Init
<1> SUFFICES ASSUME Init PROVE ContractInv /\ Contract!Init
  OBVIOUS
<1>1. IInv
  BY IInvInit
<1>2. CreatorsAlone /\ ScannersRight /\ CallsRight
  BY DEF Init, CreatorsAlone, Alone, Inserts, ScannersRight, CallsRight,
         IdleCreator, IdleScanner, IdleRpc, CreatorWork, RpcWork
<1>3. Contract!Init
  BY DEF Init, Contract!Init, Published, Empty
<1> QED BY <1>1, <1>2, <1>3 DEF ContractInv

(* The order service keeps its contract with its neighbours wherever its   *)
(* statements are answered: an order settles once, its stock is released   *)
(* and its money asked back only if it settled unpaid                      *)
(* (promotionorder/consumer.go, payreport/consumer.go, timeout/task.go and *)
(* rpc/order/service.go together).                                         *)
THEOREM ContractKept ==
  ASSUME Dependable
  PROVE  Spec => ImplementsContract
<1>1. ContractInv /\ [Next]_vars => ContractInv'
  BY ContractInvStep
<1>2. ContractInv /\ [Next]_vars => [Contract!Next]_<<orders, Released, Refunded>>
  BY ContractKeptByStep DEF ContractStep
<1> QED BY <1>1, <1>2, ContractInvInit, PTL
        DEF Spec, ImplementsContract, Contract!Spec, Released, Refunded
-----------------------------------------------------------------------------
(* The two phases of OrderRecovery.  Before the failures cease it is the   *)
(* service without its calls, afterwards the service without its failures; *)
(* a step of either is one of OrderService, action by action.              *)

LEMMA FailingCreate ==
  ASSUME NEW p, Failing!Create(p)
  PROVE  Create(p)
BY DEF Failing!Create, Create, Failing!CreateFetch, CreateFetch, Failing!CreateInsert,
      CreateInsert, Failing!CreateCompensate, CreateCompensate, Failing!CreateAddTimeout,
      CreateAddTimeout, Failing!CreateCommit, CreateCommit, Failing!Creator, Creator,
      Failing!CreatorDone, CreatorDone, Failing!CreatorStop, CreatorStop,
      Failing!IdleCreator, IdleCreator, Failing!creatorFrame, creatorFrame, Failing!Queue,
      Queue, Failing!FailedWrite, FailedWrite, Failing!AfterCommit, AfterCommit,
      Failing!Committed, Committed

LEMMA FailingPay ==
  ASSUME NEW p, Failing!Pay(p)
  PROVE  Pay(p)
BY DEF Failing!Pay, Pay, Failing!PayFetch, PayFetch, Failing!PayCas, PayCas,
      Failing!PayRefund, PayRefund, Failing!PayCompensate, PayCompensate, Failing!PayZrem,
      PayZrem, Failing!PayCommit, PayCommit, Failing!Payer, Payer, Failing!PayerDone,
      PayerDone, Failing!PayerStop, PayerStop, Failing!IdlePayer, IdlePayer,
      Failing!payerFrame, payerFrame, Failing!Report, Report, Failing!Route, Route,
      Failing!Unpaid, Unpaid, Failing!CasApplied, CasApplied, Failing!CasUnmatched,
      CasUnmatched, Failing!CasFailed, CasFailed, Failing!Zrem, Zrem, Failing!ZremFailed,
      ZremFailed, Failing!Queue, Queue, Failing!FailedWrite, FailedWrite,
      Failing!AfterCommit, AfterCommit, Failing!Committed, Committed

LEMMA FailingScan ==
  ASSUME NEW p, Failing!Scan(p)
  PROVE  Scan(p)
BY DEF Failing!Scan, Scan, Failing!ScanStart, ScanStart, Failing!ScanRead, ScanRead,
      Failing!ScanCas, ScanCas, Failing!ScanPublish, ScanPublish, Failing!ScanZrem,
      ScanZrem, Failing!Scanner, Scanner, Failing!ScannerAbort, ScannerAbort,
      Failing!IdleScanner, IdleScanner, Failing!scannerFrame, scannerFrame,
      Failing!Unpaid, Unpaid, Failing!CasApplied, CasApplied, Failing!CasUnmatched,
      CasUnmatched, Failing!CasFailed, CasFailed, Failing!Zrem, Zrem, Failing!ZremFailed,
      ZremFailed, Failing!Queue, Queue, Failing!FailedWrite, FailedWrite

LEMMA FailingUpdate ==
  ASSUME NEW p, Failing!Update(p)
  PROVE  Update(p)
BY DEF Failing!Update, Update, Failing!UpdateRead, UpdateRead, Failing!UpdateCas,
      UpdateCas, Failing!UpdateZrem, UpdateZrem, Failing!UpdatePublish, UpdatePublish,
      Failing!Rpc, Rpc, Failing!RpcReturn, RpcReturn, Failing!IdleRpc, IdleRpc,
      Failing!rpcFrame, rpcFrame, Failing!CasApplied, CasApplied, Failing!CasUnmatched,
      CasUnmatched, Failing!CasFailed, CasFailed, Failing!Zrem, Zrem, Failing!ZremFailed,
      ZremFailed, Failing!Queue, Queue, Failing!FailedWrite, FailedWrite

LEMMA FailingRestart ==
  ASSUME NEW p, Failing!Restart(p)
  PROVE  Restart(p)
BY DEF Failing!Restart, Restart, Failing!IdleCreator, IdleCreator, Failing!IdlePayer,
      IdlePayer, Failing!IdleScanner, IdleScanner, Failing!IdleRpc, IdleRpc,
      Failing!topicVars, topicVars

LEMMA FailingEnvironment ==
  ASSUME Failing!Environment
  PROVE  Environment
BY DEF Failing!Environment, Environment, Failing!SubmitOrder, SubmitOrder,
      Failing!Elapse, Elapse, Failing!ReportPayment, ReportPayment, Failing!Report,
      Report, Failing!Published, Published, Failing!Queue, Queue, Failing!topicVars,
      topicVars

LEMMA QuietCreate ==
  ASSUME NEW p, Quiet!Create(p)
  PROVE  Create(p)
BY DEF Quiet!Create, Create, Quiet!CreateFetch, CreateFetch, Quiet!CreateInsert,
      CreateInsert, Quiet!CreateCompensate, CreateCompensate, Quiet!CreateAddTimeout,
      CreateAddTimeout, Quiet!CreateCommit, CreateCommit, Quiet!Creator, Creator,
      Quiet!CreatorDone, CreatorDone, Quiet!CreatorStop, CreatorStop, Quiet!IdleCreator,
      IdleCreator, Quiet!creatorFrame, creatorFrame, Quiet!Queue, Queue,
      Quiet!FailedWrite, FailedWrite, Quiet!AfterCommit, AfterCommit, Quiet!Committed,
      Committed

LEMMA QuietPay ==
  ASSUME NEW p, Quiet!Pay(p)
  PROVE  Pay(p)
BY DEF Quiet!Pay, Pay, Quiet!PayFetch, PayFetch, Quiet!PayCas, PayCas, Quiet!PayRefund,
      PayRefund, Quiet!PayCompensate, PayCompensate, Quiet!PayZrem, PayZrem,
      Quiet!PayCommit, PayCommit, Quiet!Payer, Payer, Quiet!PayerDone, PayerDone,
      Quiet!PayerStop, PayerStop, Quiet!IdlePayer, IdlePayer, Quiet!payerFrame,
      payerFrame, Quiet!Report, Report, Quiet!Route, Route, Quiet!Unpaid, Unpaid,
      Quiet!CasApplied, CasApplied, Quiet!CasUnmatched, CasUnmatched, Quiet!CasFailed,
      CasFailed, Quiet!Zrem, Zrem, Quiet!ZremFailed, ZremFailed, Quiet!Queue, Queue,
      Quiet!FailedWrite, FailedWrite, Quiet!AfterCommit, AfterCommit, Quiet!Committed,
      Committed

LEMMA QuietScan ==
  ASSUME NEW p, Quiet!Scan(p)
  PROVE  Scan(p)
BY DEF Quiet!Scan, Scan, Quiet!ScanStart, ScanStart, Quiet!ScanRead, ScanRead,
      Quiet!ScanCas, ScanCas, Quiet!ScanPublish, ScanPublish, Quiet!ScanZrem, ScanZrem,
      Quiet!Scanner, Scanner, Quiet!ScannerAbort, ScannerAbort, Quiet!IdleScanner,
      IdleScanner, Quiet!scannerFrame, scannerFrame, Quiet!Unpaid, Unpaid,
      Quiet!CasApplied, CasApplied, Quiet!CasUnmatched, CasUnmatched, Quiet!CasFailed,
      CasFailed, Quiet!Zrem, Zrem, Quiet!ZremFailed, ZremFailed, Quiet!Queue, Queue,
      Quiet!FailedWrite, FailedWrite

LEMMA QuietUpdate ==
  ASSUME NEW p, Quiet!Update(p)
  PROVE  Update(p)
BY DEF Quiet!Update, Update, Quiet!UpdateRead, UpdateRead, Quiet!UpdateCas, UpdateCas,
      Quiet!UpdateZrem, UpdateZrem, Quiet!UpdatePublish, UpdatePublish, Quiet!Rpc, Rpc,
      Quiet!RpcReturn, RpcReturn, Quiet!IdleRpc, IdleRpc, Quiet!rpcFrame, rpcFrame,
      Quiet!CasApplied, CasApplied, Quiet!CasUnmatched, CasUnmatched, Quiet!CasFailed,
      CasFailed, Quiet!Zrem, Zrem, Quiet!ZremFailed, ZremFailed, Quiet!Queue, Queue,
      Quiet!FailedWrite, FailedWrite

LEMMA QuietEnvironment ==
  ASSUME Quiet!Environment
  PROVE  Environment
BY DEF Quiet!Environment, Environment, Quiet!SubmitOrder, SubmitOrder, Quiet!Elapse,
      Elapse, Quiet!ReportPayment, ReportPayment, Quiet!Report, Report, Quiet!Published,
      Published, Quiet!Queue, Queue, Quiet!topicVars, topicVars

(* So every step is one of OrderService, or starts the consumers again.    *)
LEMMA OrderRecoverySteps ==
  ASSUME [RNext]_recoveryVars
  PROVE  [Next]_vars \/ Cease
<1>1. Failing!Next => Next
  BY FailingCreate, FailingPay, FailingScan, FailingUpdate, FailingRestart, FailingEnvironment
     DEF Failing!Next, Next, Failing!ProcessNext, ProcessNext
<1>2. ASSUME NEW p \in Processes, Quiet!Create(p) \/ Quiet!Pay(p) \/ Quiet!Scan(p) PROVE Next
  BY <1>2, QuietCreate, QuietPay, QuietScan DEF Next, ProcessNext
<1>3. ASSUME NEW p \in Processes,
             Finish(p) \/ \E r \in Requests, q \in RpcRequests : Quiet!UpdateRead(p, r, q)
      PROVE  Next
  <2>1. Quiet!Update(p)
    BY <1>3 DEF Finish, Quiet!Update
  <2> QED BY <2>1, QuietUpdate DEF Next, ProcessNext
<1>4. ASSUME \/ \E r \in Requests : Quiet!SubmitOrder(r) \/ Elapse(r)
             \/ \E e \in Report : Quiet!ReportPayment(e)
      PROVE  Next
  <2>1. ASSUME NEW r \in Requests, Elapse(r) PROVE Next
    BY <2>1 DEF Next, Environment
  <2>2. CASE (\E r \in Requests : Quiet!SubmitOrder(r)) \/ \E e \in Report : Quiet!ReportPayment(e)
    BY <2>2, QuietEnvironment DEF Quiet!Environment, Quiet!Report, Report, Next
  <2> QED BY <1>4, <2>1, <2>2
<1>5. UNCHANGED recoveryVars => UNCHANGED vars
  BY DEF recoveryVars
<1> QED BY <1>1, <1>2, <1>3, <1>4, <1>5 DEF RNext, Calmly

(* Consumers that start again do not know anything, and nobody else sees   *)
(* them do so.                                                             *)
LEMMA StartedAgain ==
  ASSUME Cease, TypeOK
  PROVE  /\ UNCHANGED <<orders, timeoutSet, due, topicVars, scanner, rpc>>
         /\ \A p \in Processes : /\ creator'[p] \in {creator[p], IdleCreator}
                                 /\ payer'[p] \in {payer[p], IdlePayer}
         /\ TypeOK'
<1>1. /\ creator' = [p \in Processes |-> IF creator[p].pc = "stopped"
                                           THEN IdleCreator ELSE creator[p]]
      /\ payer' = [p \in Processes |-> IF payer[p].pc = "stopped" THEN IdlePayer ELSE payer[p]]
      /\ UNCHANGED <<orders, timeoutSet, due, topicVars, scanner, rpc>>
  BY DEF Cease
<1>2. IdleCreator \in CreatorState /\ IdlePayer \in PayerState
  BY DEF IdleCreator, IdlePayer, CreatorState, PayerState
<1>3. creator' \in [Processes -> CreatorState] /\ payer' \in [Processes -> PayerState]
  BY <1>1, <1>2 DEF TypeOK
<1> QED BY <1>1, <1>3 DEF TypeOK, topicVars

LEMMA StartedAgainIInv ==
  ASSUME Cease, IInv
  PROVE  IInv' /\ OrdersSettle
<1>1. /\ UNCHANGED <<orders, timeoutSet, due, topicVars, scanner, rpc>>
      /\ \A p \in Processes : /\ creator'[p] \in {creator[p], IdleCreator}
                              /\ payer'[p] \in {payer[p], IdlePayer}
      /\ TypeOK'
  BY StartedAgain DEF IInv
<1>2. UNCHANGED <<orders, timeoutSet, createTopic, payTopic, compTopic, refundTopic>>
  BY <1>1 DEF topicVars
<1>3. \A e : Answered(e) => Answered(e)'
  BY <1>2 DEF Answered, Published
<1>4. ASSUME NEW p \in Processes PROVE (CreatorKnows(p) /\ PayerKnows(p))'
  BY <1>1, <1>2, <1>3
     DEF IInv, Knowledge, CreatorKnows, PayerKnows, IdleCreator, IdlePayer, CreatorWork
<1>5. ASSUME NEW p \in Processes PROVE (ScannerKnows(p) /\ RpcKnows(p))'
  BY <1>1, <1>2 DEF IInv, Knowledge, ScannerKnows, RpcKnows
<1>6. RowsKnow' /\ RefundOnlyUnpaid' /\ ReportsAnswered' /\ PendingHasTimeout'
  BY <1>2, <1>3
     DEF IInv, Knowledge, RowsKnow, RefundOnlyUnpaid, ReportsAnswered, PendingHasTimeout, Published
<1> QED BY <1>1, <1>2, <1>4, <1>5, <1>6 DEF IInv, Knowledge, OrdersSettle

LEMMA StartedAgainContract ==
  ASSUME Cease, ContractInv
  PROVE  ContractInv' /\ ContractStep
<1>1. /\ UNCHANGED <<orders, topicVars, scanner, rpc>>
      /\ \A p \in Processes : creator'[p] \in {creator[p], IdleCreator}
  BY StartedAgain DEF ContractInv, IInv
<1>2. \A p \in Processes : creator[p].pc \in CreatorWork => creator[p].req # NoRequest
  BY InHand DEF ContractInv, IInv, ConstantsAssumption
<1>3. CreatorsAlone'
  BY <1>1, <1>2 DEF ContractInv, CreatorsAlone, Alone, Inserts, IdleCreator, CreatorWork
<1>4. ScannersRight' /\ CallsRight'
  BY <1>1 DEF ContractInv, ScannersRight, CallsRight
<1>5. ContractStep
  BY <1>1, InvisibleStep DEF topicVars
<1> QED BY <1>3, <1>4, <1>5, StartedAgainIInv DEF ContractInv

(* Where the failures cease, the invariants hold before and after.         *)
THEOREM OrderRecoverySafe ==
  RSpec => [](RefundOnlyUnpaid /\ ReportsAnswered /\ PendingHasTimeout) /\ SettledStable
<1>1. IInv /\ [RNext]_recoveryVars => IInv'
  BY OrderRecoverySteps, IInvStep, StartedAgainIInv
<1>2. IInv /\ [RNext]_recoveryVars => [OrdersSettle]_vars
  <2> SUFFICES ASSUME IInv, [RNext]_recoveryVars PROVE OrdersSettle
    OBVIOUS
  <2>1. ASSUME [Next]_vars PROVE OrdersSettle
    BY <2>1, OrderKept DEF OrdersSettle, IInv
  <2> QED BY <2>1, OrderRecoverySteps, StartedAgainIInv
<1>3. RInit => IInv
  BY IInvInit DEF RInit
<1>4. IInv => RefundOnlyUnpaid /\ ReportsAnswered /\ PendingHasTimeout
  BY DEF IInv
<1> QED BY <1>1, <1>2, <1>3, <1>4, PTL DEF RSpec, SettledStable

(* And the order service keeps its contract through both phases, whatever  *)
(* the failures of the first have left behind.                             *)
THEOREM RecoveryContractKept ==
  ASSUME Dependable
  PROVE  RSpec => ImplementsContract
<1>1. ContractInv /\ [RNext]_recoveryVars => ContractInv'
  BY OrderRecoverySteps, ContractInvStep, StartedAgainContract
<1>2. ContractInv /\ [RNext]_recoveryVars => [Contract!Next]_<<orders, Released, Refunded>>
  <2>1. ContractInv /\ [RNext]_recoveryVars => ContractStep
    BY OrderRecoverySteps, ContractKeptByStep, StartedAgainContract
  <2> QED BY <2>1 DEF ContractStep
<1>3. RInit => ContractInv /\ Contract!Init
  BY ContractInvInit DEF RInit
<1> QED BY <1>1, <1>2, <1>3, PTL
        DEF RSpec, ImplementsContract, Contract!Spec, Released, Refunded
-----------------------------------------------------------------------------
(* The sale.  What the messages between the services stand for: a payer    *)
(* works on a report that was written, a refund was asked for because a    *)
(* payment was reported, and so was the payment of every PAID order.       *)
Paying(t) == Published(payTopic, Payment!Paid(t))

SaleKnowledge ==
  /\ \A p \in Processes : payer[p].pc \in PayerWork => Published(payTopic, payer[p].report)
  /\ \A p \in Processes : rpc[p].pc \in RpcWork => rpc[p].target \in Unpaid
  /\ \A t \in Txns : Published(refundTopic, t) => Paying(t)
  /\ \A r \in Requests : orders[r] = "PAID" => \E t \in Txns : OrderOf[t] = r /\ Paying(t)

SaleInv == IInv /\ PP!PayInv /\ RP!RefundInv /\ SaleKnowledge

(* The services' own actions, under the names their proofs know them by.   *)
LEMMA CallsAreCalls == CallsStep => PP!Next
BY DEF CallsStep, PP!Next, PP!PayNext, Payment!PayNext, PP!Call, Payment!Call,
   PP!Charge, Payment!Charge, PP!PublishReport, Payment!PublishReport,
   PP!PublishFailed, Payment!PublishFailed, PP!CreatePayment, Payment!CreatePayment,
   PP!CreateTransaction, Payment!CreateTransaction, PP!CancelTransaction, Payment!CancelTransaction,
   PP!CallbackSuccess, Payment!CallbackSuccess, PP!CallbackFailed, Payment!CallbackFailed,
   PP!End, Payment!End, PP!EndedAs, Payment!EndedAs, PP!Report, Payment!Report,
   PP!Paid, Payment!Paid, PP!Cancelled, Payment!Cancelled, PP!PayReport, Payment!PayReport,
   PP!NoRow, Payment!NoRow, PP!Queue, Payment!Queue, PP!FailedWrite, Payment!FailedWrite

(* A report of the pay service is a report to the order service.           *)
LEMMA SameReports ==
  /\ PP!PayReport = Report
  /\ \A t \in Txns : Payment!Paid(t) = PP!Paid(t) /\ Payment!Paid(t) \in Report
  /\ \A e \in Report : e.status = "PAID" => e = Payment!Paid(e.txn)
BY DEF PP!PayReport, Report, Payment!Paid, PP!Paid

(* A call changes nothing of the order service's but pay_report, to which  *)
(* it adds.                                                                *)
LEMMA CallsFrame ==
  ASSUME TypeOK, CallsStep
  PROVE  /\ orders' = orders
         /\ payTopic' \in [Report -> MessageState]
         /\ \A e \in Report : payTopic'[e] \in {payTopic[e], "queued"}
<1>1. /\ orders' = orders
      /\ \/ payTopic' = payTopic
         \/ \E e \in Report : payTopic' = [payTopic EXCEPT ![e] = "queued"]
  BY SameReports
  DEF CallsStep, Payment!PayNext, Payment!Call, Payment!Charge, Payment!PublishReport,
      Payment!PublishFailed, Payment!CreatePayment, Payment!CreateTransaction,
      Payment!CancelTransaction, Payment!CallbackSuccess, Payment!CallbackFailed,
      Payment!Queue, Payment!FailedWrite, Payment!PayReport, Report
<1> QED BY <1>1 DEF TypeOK, MessageState

(* Nor does a refund, which acknowledges reports that were written.        *)
LEMMA RefundsFrame ==
  ASSUME TypeOK, RP!RefundInv, RefundsStep
  PROVE  /\ orders' = orders /\ payTopic' = payTopic
         /\ refundTopic' \in [Txns -> MessageState]
         /\ \A t \in Txns : Published(refundTopic', t) <=> Published(refundTopic, t)
<1>1. /\ orders' = orders /\ payTopic' = payTopic
      /\ \/ refundTopic' = refundTopic
         \/ \E p \in PayProcesses :
              /\ refunder[p].pc = "commit"
              /\ refundTopic' \in RP!AfterCommit(refundTopic, refunder[p].txn, PayFaults)
  BY DEF RefundsStep, Refund!RefundNext, Refund!Consume, Refund!RefundFetch, Refund!RefundInsert,
         Refund!RefundCommit, Refund!Batch, Refund!BatchStart, Refund!BatchQuery,
         Refund!BatchUpdate, Refund!BatchExecute, Refund!BatchRetry, Refund!BatchEnd,
         Refund!taskFrame, Refund!RefundRestart, Refund!RetryDue, Refund!Return,
         Refund!AfterCommit, RP!AfterCommit, Refund!Committed, RP!Committed
<1>2. \A p \in PayProcesses : refunder[p].pc = "commit" => Published(refundTopic, refunder[p].txn)
  BY DEF RP!RefundInv, RP!RefunderKnows, RP!Published, Published
<1> QED BY <1>1, <1>2 DEF TypeOK, MessageState, Published, RP!AfterCommit, RP!Committed

(* The refunds' steps, under the names their proofs know them by.          *)
LEMMA RefundsAreRefunds == RefundsStep => RP!Next
BY DEF RefundsStep, RP!Next, RP!RefundNext, Refund!RefundNext, RP!Consume, Refund!Consume,
   RP!RefundFetch, Refund!RefundFetch, RP!RefundInsert, Refund!RefundInsert,
   RP!RefunderStop, Refund!RefunderStop, RP!RefundCommit, Refund!RefundCommit,
   RP!IdleRefunder, Refund!IdleRefunder, RP!AfterCommit, Refund!AfterCommit,
   RP!Committed, Refund!Committed, RP!Batch, Refund!Batch, RP!BatchStart, Refund!BatchStart,
   RP!BatchQuery, Refund!BatchQuery, RP!BatchUpdate, Refund!BatchUpdate,
   RP!BatchExecute, Refund!BatchExecute, RP!BatchRetry, Refund!BatchRetry,
   RP!BatchEnd, Refund!BatchEnd, RP!taskFrame, Refund!taskFrame, RP!Task, Refund!Task,
   RP!Due, Refund!Due, RP!IdleTask, Refund!IdleTask, RP!RefundRestart, Refund!RefundRestart,
   RP!RetryDue, Refund!RetryDue, RP!Return, Refund!Return

(* The order service's steps are steps of its own specification.  They     *)
(* write no report.                                                        *)
LEMMA OrdersFrame ==
  ASSUME TypeOK, SaleKnowledge, OrdersStep
  PROVE  /\ Next
         /\ payTopic' \in [Report -> MessageState]
         /\ \A e \in Report : Published(payTopic', e) <=> Published(payTopic, e)
<1>1. Next
  BY DEF OrdersStep, Next, Environment
<1>2. \/ payTopic' = payTopic
      \/ \E p \in Processes : /\ payer[p].pc = "commit"
                             /\ payTopic' \in AfterCommit(payTopic, payer[p].report, Faults)
  <2>1. ASSUME NEW p \in Processes, Pay(p)
        PROVE  payTopic' = payTopic \/ (/\ payer[p].pc = "commit"
                                       /\ payTopic' \in AfterCommit(payTopic, payer[p].report, Faults))
    BY <2>1 DEF Pay, PayFetch, PayCas, PayRefund, PayCompensate, PayZrem, PayCommit
  <2>2. ASSUME NEW p \in Processes, Create(p) \/ Scan(p) \/ Update(p) \/ Restart(p)
        PROVE  payTopic' = payTopic
    BY <2>2, Frames DEF creatorFrame, scannerFrame, rpcFrame, Restart, topicVars
  <2> QED BY <2>1, <2>2 DEF OrdersStep, ProcessNext, SubmitOrder, Elapse, topicVars
<1>3. \A p \in Processes : payer[p].pc = "commit" => Published(payTopic, payer[p].report)
  BY DEF SaleKnowledge, PayerWork
<1> QED BY <1>1, <1>2, <1>3 DEF TypeOK, AfterCommit, Committed, MessageState, Published

-----------------------------------------------------------------------------
(* Each part of the invariant, step by step. *)

(* The order service's invariant does not notice the other services: they  *)
(* add to the topics it reads and acknowledge what it has written.         *)
LEMMA IInvUndisturbed ==
  ASSUME IInv, UNCHANGED <<orders, timeoutSet, due, creator, payer, scanner, rpc>>,
         createTopic' \in [Requests -> MessageState],
         \A r \in Requests : createTopic'[r] \in {createTopic[r], "queued"},
         compTopic' \in [Requests -> MessageState],
         \A r \in Requests : Published(compTopic', r) <=> Published(compTopic, r),
         payTopic' \in [Report -> MessageState],
         \A e \in Report : payTopic'[e] \in {payTopic[e], "queued"},
         refundTopic' \in [Txns -> MessageState],
         \A t \in Txns : Published(refundTopic', t) <=> Published(refundTopic, t)
  PROVE  IInv'
<1>1. TypeOK'
  BY DEF IInv, TypeOK
<1>2. \A e \in Report : Answered(e) => Answered(e)'
  BY ReportType DEF Answered, Published
<1>3. \A p \in Processes : PayerKnows(p) => PayerKnows(p)'
  <2> SUFFICES ASSUME NEW p \in Processes, PayerKnows(p) PROVE PayerKnows(p)'
    OBVIOUS
  <2>1. payer[p].pc \in {"zrem", "commit"} => payer[p].report \in Report
    BY InHand DEF IInv, PayerWork
  <2> QED BY <1>2, <2>1 DEF PayerKnows
<1>4. Knowledge'
  <2>1. \A p \in Processes : CreatorKnows(p) => CreatorKnows(p)'
    BY InHand DEF IInv, CreatorKnows, CreatorWork
  <2> QED BY <1>3, <2>1 DEF IInv, Knowledge, RowsKnow, ScannerKnows, RpcKnows
<1>5. RefundOnlyUnpaid'
  BY DEF IInv, RefundOnlyUnpaid, Published
<1>6. ReportsAnswered'
  BY <1>2 DEF IInv, ReportsAnswered, TypeOK
<1>7. PendingHasTimeout'
  BY DEF IInv, PendingHasTimeout
<1> QED BY <1>1, <1>4, <1>5, <1>6, <1>7 DEF IInv

(* The rows of the pay service do not notice what is acknowledged.         *)
LEMMA PayInvUndisturbed ==
  ASSUME PP!PayInv, UNCHANGED callsVars,
         payTopic' \in [Report -> MessageState],
         \A e \in Report : Published(payTopic', e) <=> Published(payTopic, e)
  PROVE  PP!PayInv'
<1> USE DEF callsVars
<1>1. PP!PayTypeOK'
  BY SameReports DEF PP!PayInv, PP!PayTypeOK, PP!MessageState, MessageState
<1>2. PP!ReportsBacked'
  <2>1. \A t \in Txns : PP!Paid(t) \in Report /\ PP!Cancelled(t) \in Report
    BY DEF PP!Paid, PP!Cancelled, Report
  <2> QED BY <2>1 DEF PP!PayInv, PP!ReportsBacked, PP!Reported, PP!Published, Published
<1>3. PP!RowsAgree'
  BY DEF PP!PayInv, PP!RowsAgree, PP!TxnsOf
<1> QED BY <1>1, <1>2, <1>3 DEF PP!PayInv

(* The refunds do not notice new requests.                                 *)
LEMMA RefundInvUndisturbed ==
  ASSUME RP!RefundInv, UNCHANGED refundsVars,
         refundTopic' \in [Txns -> MessageState],
         \A t \in Txns : refundTopic'[t] \in {refundTopic[t], "queued"}
  PROVE  RP!RefundInv'
<1> USE DEF refundsVars
<1>1. RP!RefundTypeOK'
  BY DEF RP!RefundInv, RP!RefundTypeOK, RP!MessageState, MessageState
<1>2. RP!RefundsRecorded'
  BY DEF RP!RefundInv, RP!RefundsRecorded, RP!Published
<1>3. RP!RefundsReal'
  BY DEF RP!RefundInv, RP!RefundsReal
<1>4. RP!RefunderKnows'
  <2>1. \A p \in PayProcesses : refunder[p].pc \in {"insert", "commit"} => refunder[p].txn \in Txns
    BY DEF RP!RefundInv, RP!RefundTypeOK
  <2> QED BY <2>1 DEF RP!RefundInv, RP!RefunderKnows, RP!Published
<1>5. RP!TaskKnows'
  BY DEF RP!RefundInv, RP!TaskKnows
<1> QED BY <1>1, <1>2, <1>3, <1>4, <1>5 DEF RP!RefundInv

(* What the order service knows of the reports, after a step of its own.   *)
LEMMA OrdersKnowledge ==
  ASSUME SaleInv, OrdersStep, TypeOK'
  PROVE  SaleKnowledge'
<1>1. /\ TypeOK /\ IInv /\ SaleKnowledge /\ Next
      /\ \A e \in Report : Published(payTopic', e) <=> Published(payTopic, e)
  BY OrdersFrame DEF SaleInv, IInv
<1>2. \A t \in Txns : Paying(t)' <=> Paying(t)
  BY <1>1, SameReports DEF Paying, Published, Payment!Paid
<1>3. ASSUME NEW p \in Processes, payer'[p].pc \in PayerWork
      PROVE  Published(payTopic', payer'[p].report)
  <2>1. CASE payer'[p] = payer[p]
    BY <1>1, <1>3, <2>1, InHand DEF SaleKnowledge
  <2>2. CASE payer'[p] = IdlePayer
    BY <1>3, <2>2 DEF IdlePayer, PayerWork
  <2>3. CASE Pay(p)
    <3>1. CASE \E e \in Report : PayFetch(p, e)
      BY <1>1, <1>3, <3>1 DEF PayFetch, PayerStop, PayerWork, TypeOK, Published
    <3>2. CASE ~ \E e \in Report : PayFetch(p, e)
      <4>1. payer[p].pc \in PayerWork /\ payer'[p].report = payer[p].report
        BY <1>1, <1>3, <2>3, <3>2
        DEF Pay, PayCas, PayRefund, PayCompensate, PayZrem, PayCommit, Payer, PayerStop,
            PayerDone, IdlePayer, PayerWork, TypeOK, PayerState
      <4> QED BY <1>1, <4>1, InHand DEF SaleKnowledge
    <3> QED BY <3>1, <3>2
  <2> QED BY <1>1, <2>1, <2>2, <2>3, PayerOwn
<1>4. ASSUME NEW p \in Processes, rpc'[p].pc \in RpcWork
      PROVE  rpc'[p].target \in Unpaid
  <2>1. CASE rpc'[p] = rpc[p]
    BY <1>1, <1>4, <2>1 DEF SaleKnowledge
  <2>2. CASE rpc'[p] = IdleRpc
    BY <1>4, <2>2 DEF IdleRpc, RpcWork
  <2>3. CASE Update(p)
    <3>1. CASE \E r \in Requests, q \in RpcRequests : UpdateRead(p, r, q)
      BY <1>1, <1>4, <3>1, SaleAssumption DEF UpdateRead, TypeOK
    <3>2. CASE ~ \E r \in Requests, q \in RpcRequests : UpdateRead(p, r, q)
      <4>1. rpc[p].pc \in RpcWork /\ rpc'[p].target = rpc[p].target
        BY <1>1, <1>4, <2>3, <3>2
        DEF Update, UpdateCas, UpdateZrem, UpdatePublish, Rpc, RpcReturn, IdleRpc, RpcWork,
            TypeOK, RpcState
      <4> QED BY <1>1, <4>1 DEF SaleKnowledge
    <3> QED BY <3>1, <3>2
  <2> QED BY <1>1, <2>1, <2>2, <2>3, RpcOwn
<1>5. ASSUME NEW t \in Txns, Published(refundTopic', t) PROVE Paying(t)'
  <2>1. CASE Published(refundTopic, t)
    BY <1>1, <1>2, <2>1 DEF SaleKnowledge
  <2>2. CASE \E p \in Processes : payer[p].pc = "refund" /\ payer[p].report.txn = t
    <3>1. PICK p \in Processes : payer[p].pc = "refund" /\ payer[p].report.txn = t
      BY <2>2
    <3>2. payer[p].report \in Report /\ payer[p].report.status = "PAID"
      BY <1>1, <3>1, InHand DEF IInv, Knowledge, PayerKnows, PayerWork
    <3>3. Published(payTopic, payer[p].report)
      BY <1>1, <3>1 DEF SaleKnowledge, PayerWork
    <3> QED BY <1>2, <3>1, <3>2, <3>3, SameReports DEF Paying
  <2> QED BY <1>1, <1>5, <2>1, <2>2, RefundTopicForward DEF RefundForward, Published
<1>6. ASSUME NEW r \in Requests, orders'[r] = "PAID"
      PROVE  \E t \in Txns : OrderOf[t] = r /\ Paying(t)'
  <2>1. CASE orders[r] = "PAID"
    BY <1>1, <1>2, <2>1 DEF SaleKnowledge
  <2>2. CASE orders[r] # "PAID"
    <3>1. PICK p \in Processes : PayCas(p) /\ OrderOf[payer[p].report.txn] = r
                                /\ payer[p].report.status = "PAID"
      <4>1. ASSUME NEW p \in Processes, Pay(p)
            PROVE  PayCas(p) /\ OrderOf[payer[p].report.txn] = r /\ payer[p].report.status = "PAID"
        BY <1>1, <1>6, <2>2, <4>1
        DEF Pay, PayFetch, PayCas, PayRefund, PayCompensate, PayZrem, PayCommit,
            CasApplied, CasUnmatched, CasFailed, TypeOK
      <4>2. ASSUME NEW p \in Processes, Create(p) PROVE FALSE
        BY <1>1, <1>6, <2>2, <4>2
        DEF Create, CreateFetch, CreateInsert, CreateCompensate, CreateAddTimeout, CreateCommit, TypeOK
      <4>3. ASSUME NEW p \in Processes, Scan(p) PROVE FALSE
        BY <1>1, <1>6, <2>2, <4>3
        DEF Scan, ScanStart, ScanRead, ScanCas, ScanPublish, ScanZrem,
            CasApplied, CasUnmatched, CasFailed, TypeOK
      <4>4. ASSUME NEW p \in Processes, Update(p) PROVE FALSE
        <5>1. rpc[p].pc = "cas" => rpc[p].target # "PAID"
          BY <1>1 DEF SaleKnowledge, RpcWork, Unpaid
        <5> QED BY <1>1, <1>6, <2>2, <4>4, <5>1
            DEF Update, UpdateRead, UpdateCas, UpdateZrem, UpdatePublish,
                CasApplied, CasUnmatched, CasFailed, TypeOK
      <4> QED BY <1>6, <2>2, <4>1, <4>2, <4>3, <4>4
          DEF OrdersStep, ProcessNext, Restart, SubmitOrder, Elapse
    <3>2. payer[p].report \in Report /\ Published(payTopic, payer[p].report)
      BY <1>1, <3>1, InHand DEF SaleKnowledge, PayCas, PayerWork
    <3> QED BY <1>2, <3>1, <3>2, SameReports, ReportType DEF Paying
  <2> QED BY <2>1, <2>2
<1> QED BY <1>3, <1>4, <1>5, <1>6 DEF SaleKnowledge, Paying, Payment!Paid

(* Every step keeps the invariant.                                         *)
LEMMA SaleInvStep == SaleInv /\ [SaleNext]_saleVars => SaleInv'
<1> SUFFICES ASSUME SaleInv, [SaleNext]_saleVars PROVE SaleInv'
  OBVIOUS
<1>1. TypeOK /\ IInv /\ PP!PayInv /\ RP!RefundInv /\ SaleKnowledge
  BY DEF SaleInv, IInv
<1>2. CASE OrdersStep
  <2>1. Next /\ payTopic' \in [Report -> MessageState]
          /\ \A e \in Report : Published(payTopic', e) <=> Published(payTopic, e)
    BY <1>1, <1>2, OrdersFrame
  <2>2. IInv' /\ TypeOK'
    BY <1>1, <2>1, IInvStep DEF IInv
  <2>3. PP!PayInv'
    BY <1>1, <1>2, <2>1, PayInvUndisturbed DEF OrdersStep
  <2>4. RP!RefundInv'
    <3>1. refundTopic' \in [Txns -> MessageState]
      BY <2>2 DEF TypeOK
    <3>2. \A t \in Txns : refundTopic'[t] \in {refundTopic[t], "queued"}
      BY <1>1, <2>1, RefundTopicForward DEF RefundForward
    <3> QED BY <1>1, <1>2, <3>1, <3>2, RefundInvUndisturbed DEF OrdersStep
  <2> QED BY <1>2, <2>2, <2>3, <2>4, OrdersKnowledge DEF SaleInv
<1>3. CASE CallsStep
  <2>1. PP!PayInv'
    BY <1>1, <1>3, CallsAreCalls, SaleAssumption, PP!PayInvStep
    DEF PP!PaymentAssumption, Payment!PaymentAssumption
  <2>2. /\ orders' = orders /\ payTopic' \in [Report -> MessageState]
        /\ \A e \in Report : payTopic'[e] \in {payTopic[e], "queued"}
        /\ UNCHANGED <<ordersVars, refundTopic, refundsVars>>
    BY <1>1, <1>3, CallsFrame DEF CallsStep
  <2>3. IInv'
    BY <1>1, <2>2, IInvUndisturbed DEF TypeOK, ordersVars
  <2>4. RP!RefundInv'
    BY <1>1, <2>2, RefundInvUndisturbed DEF TypeOK
  <2>5. SaleKnowledge'
    <3>1. \A e \in Report : Published(payTopic, e) => Published(payTopic', e)
      BY <2>2 DEF Published
    <3>2. \A t \in Txns : Paying(t) => Paying(t)'
      BY <3>1, SameReports DEF Paying, Payment!Paid
    <3>3. \A p \in Processes : payer[p].pc \in PayerWork => payer[p].report \in Report
      BY <1>1, InHand
    <3> QED BY <1>1, <2>2, <3>1, <3>2, <3>3 DEF SaleKnowledge, ordersVars
  <2> QED BY <2>1, <2>3, <2>4, <2>5 DEF SaleInv
<1>4. CASE RefundsStep
  <2>1. RP!RefundInv'
    BY <1>1, <1>4, RefundsAreRefunds, SaleAssumption, RP!RefundInvStep
    DEF RP!RefundAssumption, Refund!RefundAssumption
  <2>2. /\ orders' = orders /\ payTopic' = payTopic
        /\ refundTopic' \in [Txns -> MessageState]
        /\ \A t \in Txns : Published(refundTopic', t) <=> Published(refundTopic, t)
        /\ UNCHANGED <<ordersVars, callsVars>>
    BY <1>1, <1>4, RefundsFrame DEF RefundsStep
  <2>3. IInv'
    BY <1>1, <2>2, IInvUndisturbed DEF TypeOK, ordersVars
  <2>4. PP!PayInv'
    BY <1>1, <2>2, PayInvUndisturbed DEF TypeOK
  <2>5. SaleKnowledge'
    BY <1>1, <2>2 DEF SaleKnowledge, Paying, Payment!Paid, ordersVars
  <2> QED BY <2>1, <2>3, <2>4, <2>5 DEF SaleInv
<1>5. CASE UNCHANGED saleVars
  <2>1. IInv'
    BY <1>1, <1>5, IInvStep DEF saleVars
  <2>2. PP!PayInv'
    BY <1>1, <1>5, PayInvUndisturbed DEF saleVars, vars, topicVars, TypeOK
  <2>3. RP!RefundInv'
    BY <1>1, <1>5, RefundInvUndisturbed DEF saleVars, vars, topicVars, TypeOK
  <2>4. SaleKnowledge'
    BY <1>1, <1>5 DEF saleVars, vars, topicVars, SaleKnowledge, Paying, Payment!Paid
  <2> QED BY <2>1, <2>2, <2>3, <2>4 DEF SaleInv
<1> QED BY <1>2, <1>3, <1>4, <1>5 DEF SaleNext

(* No report, no row and no call is there at the start.                    *)
LEMMA SaleInvInit == SaleInit => SaleInv
<1> SUFFICES ASSUME SaleInit PROVE SaleInv
  OBVIOUS
<1>1. Init /\ IInv
  BY IInvInit DEF SaleInit
<1>2. PP!PayInv
  <2>1. PP!Init
    BY <1>1 DEF SaleInit, PP!Init, Init, PP!PayInit, Payment!PayInit, PP!Empty, Payment!Empty,
                PP!PayReport, Payment!PayReport, PP!NoRow, Payment!NoRow
  <2> QED BY <2>1, SaleAssumption, PP!PayInvInit
          DEF PP!PaymentAssumption, Payment!PaymentAssumption
<1>3. RP!RefundInv
  <2>1. RP!Init
    BY <1>1 DEF SaleInit, RP!Init, Init, RP!RefundInit, Refund!RefundInit, RP!Empty, Empty,
                RP!IdleRefunder, Refund!IdleRefunder, RP!IdleTask, Refund!IdleTask
  <2> QED BY <2>1, SaleAssumption, RP!RefundInvInit
          DEF RP!RefundAssumption, Refund!RefundAssumption
<1>4. SaleKnowledge
  BY <1>1 DEF Init, Empty, Published, SaleKnowledge, IdlePayer, IdleRpc, PayerWork, RpcWork
<1> QED BY <1>1, <1>2, <1>3, <1>4 DEF SaleInv

(* The invariants of the services, and what their messages stand for, hold *)
(* in every reachable state of the sale.                                   *)
THEOREM SaleInvariance == SaleSpec => []SaleInv
BY SaleInvInit, SaleInvStep, PTL DEF SaleSpec

(* Money back: from the row through the two topics to the charge.          *)
LEMMA MoneyBackKnown == SaleInv => MoneyBackUnsold
<1> SUFFICES ASSUME SaleInv, NEW t \in Txns, channel[t] # "none"
             PROVE  t \in charged /\ orders[OrderOf[t]] \in Unpaid
  BY DEF MoneyBackUnsold
<1>1. Published(refundTopic, t)
  BY DEF SaleInv, RP!RefundInv, RP!RefundsReal, RP!RefundsRecorded, RP!Published, Published
<1>2. orders[OrderOf[t]] \in Unpaid /\ Paying(t)
  BY <1>1 DEF SaleInv, IInv, RefundOnlyUnpaid, SaleKnowledge
<1>3. t \in charged
  BY <1>2, SameReports
  DEF SaleInv, Paying, PP!PayInv, PP!ReportsBacked, PP!Reported, PP!Published, Published
<1> QED BY <1>2, <1>3

(* Money is sent back only for a transaction that was charged and whose    *)
(* order has ended unpaid, over the three services, their two topics and   *)
(* any failures (payreport/consumer.go, refundreport/consumer.go,          *)
(* refund/task.go).                                                        *)
THEOREM MoneyBackSafe == SaleSpec => []MoneyBackUnsold
BY MoneyBackKnown, SaleInvariance, PTL

(* A PAID order: from its report to the row that backs it.                 *)
LEMMA PaidKnown == SaleInv => PaidOrderCharged
<1> SUFFICES ASSUME SaleInv, NEW r \in Requests, orders[r] = "PAID"
             PROVE  \E t \in charged : OrderOf[t] = r /\ txn[t].status = "SUCCESS"
  BY DEF PaidOrderCharged
<1>1. PICK t \in Txns : OrderOf[t] = r /\ Paying(t)
  BY DEF SaleInv, SaleKnowledge
<1> QED BY <1>1, SameReports
    DEF SaleInv, Paying, PP!PayInv, PP!ReportsBacked, PP!Reported, PP!Published, Published

(* An order is PAID only by a transaction that the channel has charged and *)
(* the pay service has committed as a SUCCESS (ThirdPartyCallback commits  *)
(* before it reports; the order service settles only on a report).         *)
THEOREM PaidSafe == SaleSpec => []PaidOrderCharged
BY PaidKnown, SaleInvariance, PTL

(* A payment whose messages are all acknowledged.                          *)
LEMMA AccountedKnown == SaleInv => MoneyAccounted
<1> SUFFICES ASSUME SaleInv, NEW t \in Txns,
                    payTopic[Payment!Paid(t)] = "committed", refundTopic[t] # "queued"
             PROVE  \/ Bought(t) /\ refund[t] = "none"
                    \/ orders[OrderOf[t]] \in Unpaid /\ refund[t] # "none"
                    \/ KeptTwice(t)
  BY DEF MoneyAccounted
<1>1. Answered(Payment!Paid(t)) /\ Payment!Paid(t).txn = t /\ Payment!Paid(t).status = "PAID"
  BY SameReports DEF SaleInv, IInv, ReportsAnswered, Payment!Paid
<1>2. orders[OrderOf[t]] = "PAID" \/ Published(refundTopic, t)
  BY <1>1 DEF Answered
<1>3. /\ Published(refundTopic, t) => refundTopic[t] = "committed" /\ orders[OrderOf[t]] \in Unpaid
      /\ refundTopic[t] = "committed" => refund[t] # "none"
      /\ refund[t] # "none" => Published(refundTopic, t)
  BY DEF SaleInv, IInv, TypeOK, MessageState, Published, RefundOnlyUnpaid,
         RP!RefundInv, RP!RefundsRecorded, RP!Published
<1>4. CASE Published(refundTopic, t)
  BY <1>3, <1>4
<1>5. CASE ~ Published(refundTopic, t)
  BY <1>2, <1>3, <1>5 DEF Bought, KeptTwice
<1> QED BY <1>4, <1>5

(* When nothing is left to be read of a recorded payment, it has bought    *)
(* its order or, if that has ended unpaid, is in the table of refunds:     *)
(* each consumer acknowledges last.  The theorem does not say so of a      *)
(* payment beside another one of the same, PAID, order: KeptTwice.         *)
THEOREM AccountedSafe == SaleSpec => []MoneyAccounted
BY AccountedKnown, SaleInvariance, PTL

-----------------------------------------------------------------------------
(* The flash sale.  An order comes from a request that was sold to; where  *)
(* the order service keeps its contract, stock is asked back for an order  *)
(* that has ended unpaid.                                                  *)
Placed == \A r \in Requests : orders[r] # "none" => Published(createTopic, r)

ReleasedUnpaid == \A r \in Requests : Published(compTopic, r) => orders[r] \in Unpaid

SoldInv == SaleInv /\ SP!LedgerInv /\ Placed
ShopInv == SoldInv /\ ContractInv /\ ReleasedUnpaid

(* The stock is sheltered from what it is known not to survive             *)
(* (PromotionStockProofs): a repeated request, a refresh of the stock, a   *)
(* write with an unknown outcome, and a limit that expires early.          *)
StockShelter ==
  /\ Stock!PromotionAssumption
  /\ StockFaults \cap {"retry", "refresh", "writeUnknown", "rounding"} = {}

(* And the order service is where it keeps its contract.                   *)
ShopDependable == Dependable /\ StockShelter

LEMMA StockSheltered == StockShelter => SP!PromotionAssumption /\ SP!Sheltered
BY DEF StockShelter, Stock!PromotionAssumption, SP!PromotionAssumption, SP!Sheltered

(* The stock's steps, under the names their proofs know them by.           *)
LEMMA StockIsStock == StockStep => SP!StockNext
BY DEF StockStep, Stock!StockNext, SP!StockNext,
   Stock!Seckill, SP!Seckill, Stock!SeckillScript, SP!SeckillScript, Stock!Caller, SP!Caller,
   Stock!SeckillPublish, SP!SeckillPublish, Stock!CallerDone, SP!CallerDone,
   Stock!SeckillUndo, SP!SeckillUndo, Stock!UnkeyedScript, SP!UnkeyedScript,
   Stock!CallerDies, SP!CallerDies, Stock!Compensate, SP!Compensate,
   Stock!CompensateFetch, SP!CompensateFetch, Stock!CompensateScript, SP!CompensateScript,
   Stock!CompensateCommit, SP!CompensateCommit, Stock!CompensatorStop, SP!CompensatorStop,
   Stock!CompensatorRestart, SP!CompensatorRestart, Stock!KeyedScript, SP!KeyedScript,
   Stock!GiveBack, SP!GiveBack, Stock!PositiveTtl, SP!PositiveTtl, Stock!Loaded, SP!Loaded,
   Stock!Refresh, SP!Refresh, Stock!RefreshRead, SP!RefreshRead,
   Stock!RefreshHset, SP!RefreshHset, Stock!RefreshExpire, SP!RefreshExpire,
   Stock!RefresherDies, SP!RefresherDies, Stock!End, SP!End, Stock!StockExpires, SP!StockExpires,
   Stock!LimitExpires, SP!LimitExpires, Stock!MarkExpires, SP!MarkExpires,
   Stock!redisVars, SP!redisVars, Stock!callerFrame, SP!callerFrame,
   Stock!compensatorFrame, SP!compensatorFrame, Stock!refreshFrame, SP!refreshFrame,
   Stock!timeFrame, SP!timeFrame, Stock!IdleCaller, SP!IdleCaller,
   Stock!IdleCompensator, SP!IdleCompensator, Stock!Queue, SP!Queue,
   Stock!FailedWrite, SP!FailedWrite, Stock!AfterCommit, SP!AfterCommit,
   Stock!Committed, SP!Committed

(* The steps of the sale are those that Commerce has.                      *)
LEMMA SaleIsSale == SaleStep => SaleNext
BY DEF SaleStep, OrderingStep, SaleNext, OrdersStep

(* What the stock's steps do to the topics of the order service.           *)
TopicsAdded ==
  /\ createTopic' \in [Requests -> MessageState]
  /\ \A r \in Requests : createTopic'[r] \in {createTopic[r], "queued"}
  /\ compTopic' \in [Requests -> MessageState]
  /\ \A r \in Requests : Published(compTopic', r) <=> Published(compTopic, r)

LEMMA StockTopicsMove ==
  ASSUME SP!PromotionAssumption, SP!StockInv, SP!Handed, StockStep, SP!StockInv'
  PROVE  TopicsAdded
<1>1. /\ \A r \in Requests : createTopic'[r] \in {createTopic[r], "queued"}
      /\ \A r \in Requests : SP!Published(compTopic', r) <=> SP!Published(compTopic, r)
  BY StockIsStock, SP!TopicsForward
<1>2. /\ createTopic' \in [Requests -> MessageState]
      /\ compTopic' \in [Requests -> MessageState]
  BY DEF SP!StockInv, SP!StockTypeOK, SP!MessageState, MessageState
<1> QED BY <1>1, <1>2 DEF TopicsAdded, SP!Published, Published

(* The sale does not notice that orders are placed and compensations       *)
(* acknowledged.                                                           *)
LEMMA SaleUndisturbed ==
  ASSUME SaleInv, UNCHANGED neighbourVars, TopicsAdded
  PROVE  SaleInv'
<1>1. TypeOK /\ IInv /\ PP!PayInv /\ RP!RefundInv /\ SaleKnowledge
  BY DEF SaleInv, IInv
<1>2. IInv'
  BY <1>1, IInvUndisturbed DEF neighbourVars, TypeOK, TopicsAdded
<1>3. PP!PayInv' /\ RP!RefundInv'
  BY <1>1, PayInvUndisturbed, RefundInvUndisturbed DEF neighbourVars, TypeOK
<1>4. SaleKnowledge'
  BY <1>1 DEF neighbourVars, SaleKnowledge, Paying, Payment!Paid
<1> QED BY <1>2, <1>3, <1>4 DEF SaleInv

-----------------------------------------------------------------------------
(* The money of the shop needs no more of the stock than its types.        *)
ShopMoneyInv == SaleInv /\ SP!StockInv /\ SP!Handed

LEMMA ShopMoneyStep ==
  ASSUME SP!PromotionAssumption, ShopMoneyInv, [ShopNext]_<<saleVars, promotionVars>>
  PROVE  ShopMoneyInv'
<1>1. SaleInv /\ IInv /\ TypeOK /\ RP!RefundInv /\ SP!StockInv /\ SP!Handed
  BY DEF ShopMoneyInv, SaleInv, IInv
<1>2. CASE StockStep
  <2>1. SP!StockInv' /\ SP!Handed'
    BY <1>1, <1>2, StockIsStock, SP!StockStepInv, SP!HandedStep DEF SP!Next
  <2>2. SaleInv'
    BY <1>1, <1>2, <2>1, StockTopicsMove, SaleUndisturbed DEF StockStep
  <2> QED BY <2>1, <2>2 DEF ShopMoneyInv
<1>3. CASE SaleStep \/ UNCHANGED <<saleVars, promotionVars>>
  <2>1. SaleInv' /\ TypeOK' /\ UNCHANGED promotionVars
    BY <1>1, <1>3, SaleIsSale, SaleInvStep DEF SaleStep, SaleInv, IInv
  <2>2. \A r \in Requests : CompForward(r)
    <3>1. CASE OrderingStep \/ UNCHANGED saleVars
      BY <1>1, <3>1, CompTopicForward DEF OrderingStep, Next, Environment, saleVars
    <3>2. CASE CallsStep \/ RefundsStep
      BY <3>2 DEF CallsStep, RefundsStep, ordersVars, CompForward
    <3> QED BY <1>3, <3>1, <3>2 DEF SaleStep
  <2>3. SP!NeighbourMoves
    BY <2>1, <2>2 DEF SP!NeighbourMoves, SP!TopicTypeOK, TypeOK, SP!MessageState, MessageState,
       CompForward, promotionVars, SP!redisVars
  <2>4. SP!StockInv'
    BY <1>1, <2>3, SP!NeighbourMovesStock
  <2>5. SP!Handed'
    BY <1>1, <2>1, <2>2 DEF SP!Handed, SP!Published, CompForward, promotionVars
  <2> QED BY <2>1, <2>4, <2>5 DEF ShopMoneyInv
<1> QED BY <1>2, <1>3 DEF ShopNext

LEMMA ShopMoneyInit == SP!PromotionAssumption /\ ShopInit => ShopMoneyInv
<1> SUFFICES ASSUME SP!PromotionAssumption, ShopInit PROVE ShopMoneyInv
  OBVIOUS
<1>1. SaleInit /\ Init
  BY DEF ShopInit, SaleInit
<1>2. SP!Init
  BY <1>1 DEF ShopInit, Init, Empty, SP!Init, SP!Empty, SP!StockInit, Stock!StockInit,
              SP!IdleCaller, Stock!IdleCaller, SP!IdleCompensator, Stock!IdleCompensator
<1>3. SP!Handed
  BY <1>2 DEF SP!PromotionAssumption, SP!Init, SP!StockInit, SP!Handed, SP!IdleCompensator
<1> QED BY <1>1, <1>2, <1>3, SaleInvInit, SP!StockInitInv DEF ShopMoneyInv

(* The money is as safe in the shop as in the sale: whatever dies, fails,  *)
(* repeats or is lost in any of the four services, money is sent back only *)
(* if it was charged and its order ended unpaid, a PAID order was charged, *)
(* and of a recorded payment nothing is left to be read only when it has   *)
(* bought its order, is in the table of refunds, or is KeptTwice: beside   *)
(* another payment of a PAID order, where nothing refunds it.              *)
THEOREM ShopMoneySafe ==
  ASSUME Stock!PromotionAssumption
  PROVE  ShopSpec => [](MoneyBackUnsold /\ PaidOrderCharged /\ MoneyAccounted)
<1>a. SP!PromotionAssumption
  BY DEF Stock!PromotionAssumption, SP!PromotionAssumption
<1>1. ShopInit => ShopMoneyInv
  BY <1>a, ShopMoneyInit
<1>2. ShopMoneyInv /\ [ShopNext]_<<saleVars, promotionVars>> => ShopMoneyInv'
  BY <1>a, ShopMoneyStep
<1>3. ShopMoneyInv => MoneyBackUnsold /\ PaidOrderCharged /\ MoneyAccounted
  BY MoneyBackKnown, PaidKnown, AccountedKnown DEF ShopMoneyInv
<1> QED BY <1>1, <1>2, <1>3, PTL DEF ShopSpec

-----------------------------------------------------------------------------
(* Stock is asked back only for an order that was placed, or is about to   *)
(* be: whoever publishes a compensation has seen the one or the other.     *)
LEMMA ReleasedPlaced ==
  ASSUME IInv, Next, NEW r \in Requests
  PROVE  \/ compTopic'[r] = compTopic[r]
         \/ compTopic'[r] = "queued" /\ (orders[r] # "none" \/ Published(createTopic, r))
<1> USE DEF Queue, FailedWrite, IInv, Knowledge, TypeOK
<1>1. ASSUME NEW p \in Processes, CreateCompensate(p)
      PROVE  \/ compTopic'[r] = compTopic[r]
             \/ compTopic'[r] = "queued" /\ Published(createTopic, r)
  BY <1>1 DEF CreateCompensate, CreatorKnows, CreatorWork, Published
<1>2. ASSUME NEW p \in Processes, PayCompensate(p)
      PROVE  compTopic'[r] = compTopic[r] \/ (compTopic'[r] = "queued" /\ orders[r] # "none")
  BY <1>2 DEF PayCompensate, PayerKnows
<1>3. ASSUME NEW p \in Processes, ScanPublish(p)
      PROVE  compTopic'[r] = compTopic[r] \/ (compTopic'[r] = "queued" /\ orders[r] # "none")
  BY <1>3 DEF ScanPublish, ScannerKnows, ScannerWork
<1>4. ASSUME NEW p \in Processes, UpdatePublish(p)
      PROVE  compTopic'[r] = compTopic[r] \/ (compTopic'[r] = "queued" /\ orders[r] # "none")
  BY <1>4 DEF UpdatePublish, RpcKnows, Terminal, Unpaid
<1>5. \/ UNCHANGED compTopic
      \/ \E p \in Processes :
           CreateCompensate(p) \/ PayCompensate(p) \/ ScanPublish(p) \/ UpdatePublish(p)
  <2>1. ASSUME NEW p \in Processes, ProcessNext(p)
        PROVE  \/ UNCHANGED compTopic
               \/ CreateCompensate(p) \/ PayCompensate(p) \/ ScanPublish(p) \/ UpdatePublish(p)
    BY <2>1 DEF ProcessNext, Restart, topicVars,
       Create, CreateFetch, CreateInsert, CreateAddTimeout, CreateCommit,
       Pay, PayFetch, PayCas, PayRefund, PayZrem, PayCommit,
       Scan, ScanStart, ScanRead, ScanCas, ScanZrem, Update, UpdateRead, UpdateCas, UpdateZrem
  <2>2. CASE Environment
    BY <2>2 DEF Environment, SubmitOrder, ReportPayment, Elapse, topicVars
  <2> QED BY <2>1, <2>2 DEF Next
<1> QED BY <1>1, <1>2, <1>3, <1>4, <1>5

(* What the order service's steps do to the topics of the stock, whatever  *)
(* fails there: orders are acknowledged that were placed.                  *)
LEMMA OrderingMoves ==
  ASSUME SoldInv, TypeOK', OrderingStep, UNCHANGED promotionVars
  PROVE  SP!OrdersMove /\ Placed'
<1>1. TypeOK /\ IInv /\ Next
  BY DEF SoldInv, SaleInv, IInv, OrderingStep, Next, Environment
<1>3. \A r \in Requests : Published(createTopic', r) <=> Published(createTopic, r)
  <2>1. \/ createTopic' = createTopic
        \/ \E p \in Processes : CreateCommit(p)
    <3>1. \A p \in Processes : Pay(p) \/ Scan(p) \/ Update(p) \/ Restart(p)
                               => createTopic' = createTopic
      BY Frames DEF payerFrame, scannerFrame, rpcFrame, Restart, topicVars
    <3>2. \A p \in Processes : Create(p) => createTopic' = createTopic \/ CreateCommit(p)
      BY DEF Create, CreateFetch, CreateInsert, CreateCompensate, CreateAddTimeout
    <3> QED BY <3>1, <3>2 DEF OrderingStep, ProcessNext, Elapse, topicVars
  <2>2. ASSUME NEW p \in Processes, CreateCommit(p)
        PROVE  \A r \in Requests : Published(createTopic', r) <=> Published(createTopic, r)
    <3>1. Published(createTopic, creator[p].req) /\ creator[p].req \in Requests
      BY <1>1, <2>2, InHand
      DEF CreateCommit, IInv, Knowledge, CreatorKnows, CreatorWork, Published
    <3> QED BY <1>1, <2>2, <3>1 DEF CreateCommit, AfterCommit, Committed, Published, TypeOK
  <2> QED BY <2>1, <2>2
<1>4. \A r \in Requests : OrderForward(r)
  BY <1>1, OrdersForward
<1>5. ASSUME NEW r \in Requests, orders'[r] # "none" PROVE Published(createTopic, r)
  <2>1. CASE orders[r] # "none"
    BY <2>1 DEF SoldInv, Placed
  <2>2. CASE orders[r] = "none"
    <3>1. PICK p \in Processes : creator[p].pc = "insert" /\ creator[p].req = r
      BY <1>4, <1>5, <2>2 DEF OrderForward
    <3> QED BY <1>1, <3>1 DEF IInv, Knowledge, CreatorKnows, CreatorWork, Published
  <2> QED BY <2>1, <2>2
<1>6. Placed'
  BY <1>3, <1>5 DEF Placed
<1>7. ASSUME NEW r \in Requests
      PROVE  compTopic'[r] = compTopic[r] \/ (compTopic'[r] = "queued" /\ Published(createTopic, r))
  BY <1>1, ReleasedPlaced DEF SoldInv, Placed
<1>8. SP!OrdersMove
  BY <1>3, <1>7 DEF SP!OrdersMove, SP!NeighbourMoves, SP!TopicTypeOK, TypeOK, SP!MessageState,
     MessageState, SP!Published, Published, promotionVars, SP!redisVars
<1> QED BY <1>6, <1>8

(* The stock's account holds whatever fails in the order and pay services: *)
(* it follows what was asked of the stock, right or wrong.                 *)
LEMMA SoldStep ==
  ASSUME StockShelter, SoldInv, [ShopNext]_<<saleVars, promotionVars>>
  PROVE  SoldInv'
<1>0. SaleInv /\ IInv /\ TypeOK /\ RP!RefundInv /\ SP!LedgerInv /\ SP!StockInv /\ SP!Handed /\ Placed
  BY DEF SoldInv, SaleInv, IInv, SP!LedgerInv, SP!Ledger, SP!Ordered, SP!Handed
<1>1. CASE UNCHANGED <<saleVars, promotionVars>>
  <2>1. SaleInv'
    BY <1>0, <1>1, SaleInvStep
  <2>2. SP!LedgerInv'
    BY <1>0, <1>1, StockSheltered, SP!LedgerStep
    DEF saleVars, vars, topicVars, promotionVars, SP!stockVars, SP!redisVars
  <2>3. Placed'
    BY <1>0, <1>1 DEF Placed, saleVars, vars, topicVars
  <2> QED BY <2>1, <2>2, <2>3 DEF SoldInv
<1>2. CASE StockStep
  <2>1. SP!LedgerInv'
    BY <1>0, <1>2, StockIsStock, StockSheltered, SP!LedgerStep DEF SP!Next
  <2>2. SaleInv' /\ TopicsAdded /\ UNCHANGED neighbourVars
    BY <1>0, <1>2, <2>1, StockSheltered, StockTopicsMove, SaleUndisturbed DEF SP!LedgerInv, StockStep
  <2>3. Placed'
    BY <1>0, <2>2 DEF Placed, neighbourVars, Published, TopicsAdded
  <2> QED BY <2>1, <2>2, <2>3 DEF SoldInv
<1>3. CASE SaleStep
  <2>1. SaleInv' /\ TypeOK' /\ UNCHANGED promotionVars
    BY <1>0, <1>3, SaleIsSale, SaleInvStep DEF SaleStep, SaleInv, IInv
  <2>2. SP!OrdersMove /\ Placed'
    <3>1. CASE OrderingStep
      BY <2>1, <3>1, OrderingMoves
    <3>2. CASE CallsStep \/ RefundsStep
      <4>1. orders' = orders /\ UNCHANGED ordersVars
        BY <1>0, <3>2, CallsFrame, RefundsFrame DEF CallsStep, RefundsStep
      <4>2. SP!OrdersMove
        BY <1>0, <2>1, <4>1 DEF SP!OrdersMove, SP!NeighbourMoves, SP!TopicTypeOK, TypeOK,
           SP!MessageState, MessageState, promotionVars, ordersVars, SP!redisVars
      <4> QED BY <1>0, <4>1, <4>2 DEF Placed, ordersVars
    <3> QED BY <1>3, <3>1, <3>2 DEF SaleStep
  <2>3. SP!LedgerInv'
    BY <1>0, <2>2, StockSheltered, SP!NeighbourMovesStock, SP!OrdersMoveLedger
    DEF SP!LedgerInv, SP!OrdersMove
  <2> QED BY <2>1, <2>2, <2>3 DEF SoldInv
<1> QED BY <1>1, <1>2, <1>3 DEF ShopNext

LEMMA SoldInit == StockShelter /\ ShopInit => SoldInv
<1> SUFFICES ASSUME StockShelter, ShopInit PROVE SoldInv
  OBVIOUS
<1>1. SaleInit /\ Init
  BY DEF ShopInit, SaleInit
<1>2. SP!LedgerInv
  <2>1. SP!Init
    BY <1>1 DEF ShopInit, Init, Empty, SP!Init, SP!Empty, SP!StockInit, Stock!StockInit,
                SP!IdleCaller, Stock!IdleCaller, SP!IdleCompensator, Stock!IdleCompensator
  <2> QED BY <2>1, StockSheltered, SP!LedgerInit
<1>3. Placed
  BY <1>1 DEF Init, Placed
<1> QED BY <1>1, <1>2, <1>3, SaleInvInit DEF SoldInv

(* An order that is open was sold to; and where its stock was not asked    *)
(* back, the stock still counts it.                                        *)
LEMMA OpenCovered ==
  ASSUME StockShelter, SoldInv, ReleasedClosed
  PROVE  OrdersWithinStock /\ OrdersWithinLimit
<1>1. OpenOrders \subseteq SP!Standing
  BY DEF SoldInv, Placed, ReleasedClosed, OpenOrders, SP!Standing, SP!Published, Published
<1>2. SP!Within(OpenOrders) /\ (SP!Loaded => stock.num + SP!Total(OpenOrders) <= DbStock)
  BY <1>1, StockSheltered, SP!StandingBounded DEF SoldInv
<1>3. ASSUME NEW S PROVE SP!Total(S) = Stock!Total(S)
  <2>1. SP!Units(S) = Stock!Units(S)
    BY Zenon DEF SP!Units, Stock!Units
  <2>2. SP!Cardinality(SP!Units(S)) = Stock!Cardinality(SP!Units(S))
    BY Zenon DEF SP!Cardinality, Stock!Cardinality
  <2> QED BY <2>1, <2>2 DEF SP!Total, Stock!Total
<1>4. ASSUME NEW u, NEW S PROVE SP!OfUser(u, S) = Stock!OfUser(u, S)
  BY DEF SP!OfUser, Stock!OfUser
<1>5. OrdersWithinStock
  BY <1>2, <1>3 DEF SP!Within, OrdersWithinStock, SP!Loaded, Stock!Loaded
<1>6. OrdersWithinLimit
  <2>1. ASSUME Limit > 0, NEW u \in Users
        PROVE  Stock!Total(Stock!OfUser(u, OpenOrders)) <= Limit
    <3>1. SP!Total(SP!OfUser(u, OpenOrders)) <= Limit
      BY <1>2, <2>1 DEF SP!Within
    <3>2. SP!Total(SP!OfUser(u, OpenOrders)) = Stock!Total(Stock!OfUser(u, OpenOrders))
      BY <1>3, <1>4
    <3> QED BY <3>1, <3>2
  <2> QED BY <2>1 DEF OrdersWithinLimit
<1> QED BY <1>5, <1>6

(* Whatever dies, fails, is lost, repeated or handed to two processes in   *)
(* the order, pay and refund services: as long as stock is asked back only *)
(* for orders that are not open, the open orders fit the stock and the     *)
(* limit.  An oversold sheltered stock has an open order whose             *)
(* compensation was published, as the failed insert of                     *)
(* promotionorder/consumer.go:78-87 leaves it.                             *)
THEOREM OversoldOnlyByRelease ==
  ASSUME StockShelter
  PROVE  ShopSpec => [](ReleasedClosed => OrdersWithinStock /\ OrdersWithinLimit)
<1>1. ShopInit => SoldInv
  BY SoldInit
<1>2. SoldInv /\ [ShopNext]_<<saleVars, promotionVars>> => SoldInv'
  BY SoldStep
<1>3. SoldInv => (ReleasedClosed => OrdersWithinStock /\ OrdersWithinLimit)
  BY OpenCovered
<1> QED BY <1>1, <1>2, <1>3, PTL DEF ShopSpec

-----------------------------------------------------------------------------
(* Where the order service keeps its contract, stock is asked back for     *)
(* orders that have ended unpaid.                                          *)
LEMMA OrderingReleases ==
  ASSUME Dependable, ContractInv, ReleasedUnpaid, Next
  PROVE  ContractInv' /\ ReleasedUnpaid'
<1>1. TypeOK /\ ContractInv' /\ ContractStep
  BY ContractInvStep, ContractKeptByStep DEF ContractInv, IInv
<1>2. ASSUME NEW r \in Requests, Published(compTopic', r) PROVE orders'[r] \in Unpaid
  <2>1. CASE Published(compTopic, r)
    BY <1>1, <2>1, OrdersForward DEF ReleasedUnpaid, OrderForward, Unpaid
  <2>2. CASE ~ Published(compTopic, r)
    BY <1>1, <1>2, <2>2
    DEF ContractStep, Released, Contract!Next, Contract!Open, Contract!Settle, Contract!Release,
        Contract!Refund, Contract!Unsold, Unpaid
  <2> QED BY <2>1, <2>2
<1> QED BY <1>1, <1>2 DEF ReleasedUnpaid

(* A step of a neighbour that leaves the workers and the orders alone      *)
(* keeps what the order service knows of both.                             *)
LEMMA ContractInvUndisturbed ==
  ASSUME ContractInv, IInv', UNCHANGED <<orders, creator, scanner, rpc>>
  PROVE  ContractInv'
BY DEF ContractInv, CreatorsAlone, Alone, Inserts, ScannersRight, CallsRight

LEMMA ShopInvStep ==
  ASSUME ShopDependable, ShopInv, [ShopNext]_<<saleVars, promotionVars>>
  PROVE  ShopInv'
<1>1. /\ Dependable /\ StockShelter /\ SoldInv /\ ContractInv /\ ReleasedUnpaid
      /\ SaleInv /\ TypeOK /\ RP!RefundInv /\ SP!LedgerInv /\ SP!StockInv /\ SP!Handed
  BY DEF ShopDependable, ShopInv, SoldInv, SaleInv, IInv,
         SP!LedgerInv, SP!Ledger, SP!Ordered, SP!Handed
<1>2. SoldInv' /\ IInv' /\ SP!StockInv'
  <2>1. SoldInv'
    BY <1>1, SoldStep
  <2> QED BY <2>1 DEF SoldInv, SaleInv, SP!LedgerInv
<1>3. CASE OrderingStep
  BY <1>1, <1>2, <1>3, OrderingReleases DEF OrderingStep, Next, Environment, ShopInv
<1>4. CASE CallsStep \/ RefundsStep \/ UNCHANGED <<saleVars, promotionVars>>
  <2>1. orders' = orders /\ UNCHANGED ordersVars
    BY <1>1, <1>4, CallsFrame, RefundsFrame
    DEF CallsStep, RefundsStep, saleVars, vars, topicVars, ordersVars
  <2>2. ContractInv' /\ ReleasedUnpaid'
    BY <1>1, <1>2, <2>1, ContractInvUndisturbed DEF ordersVars, ReleasedUnpaid
  <2> QED BY <1>2, <2>2 DEF ShopInv
<1>5. CASE StockStep
  <2>1. TopicsAdded /\ UNCHANGED neighbourVars
    BY <1>1, <1>2, <1>5, StockSheltered, StockTopicsMove DEF StockStep
  <2>2. ContractInv' /\ ReleasedUnpaid'
    BY <1>1, <1>2, <2>1, ContractInvUndisturbed
    DEF neighbourVars, ReleasedUnpaid, Published, TopicsAdded
  <2> QED BY <1>2, <2>2 DEF ShopInv
<1> QED BY <1>3, <1>4, <1>5 DEF ShopNext, SaleStep

LEMMA ShopInvInit == ShopDependable /\ ShopInit => ShopInv
<1> SUFFICES ASSUME ShopDependable, ShopInit PROVE ShopInv
  OBVIOUS
<1>1. Init /\ SoldInv
  BY SoldInit DEF ShopDependable, ShopInit, SaleInit
<1>2. ReleasedUnpaid
  BY <1>1 DEF Init, Empty, Published, ReleasedUnpaid
<1> QED BY <1>1, <1>2, ContractInvInit DEF ShopInv

(* What the four services know of an order and of its stock, together with *)
(* what they know of its money, in every reachable state of the sale.      *)
THEOREM ShopInvariance ==
  ASSUME ShopDependable
  PROVE  ShopSpec => []ShopInv
<1>1. ShopInv /\ [ShopNext]_<<saleVars, promotionVars>> => ShopInv'
  BY ShopInvStep
<1>2. ShopInit => ShopInv
  BY ShopInvInit
<1> QED BY <1>1, <1>2, PTL DEF ShopSpec

(* In the shop, too, the order service keeps its contract: what the others *)
(* do to its topics is not seen by it, and what it is sent for makes it    *)
(* break no promise.                                                       *)
THEOREM ShopContractKept ==
  ASSUME ShopDependable
  PROVE  ShopSpec => ImplementsContract
<1>1. ASSUME ShopInv, [ShopNext]_<<saleVars, promotionVars>>
      PROVE  [Contract!Next]_<<orders, Released, Refunded>>
  <2>1. Dependable /\ ContractInv /\ TypeOK /\ RP!RefundInv
    BY <1>1 DEF ShopDependable, ShopInv, SoldInv, SaleInv, ContractInv, IInv
  <2>2. CASE OrderingStep \/ UNCHANGED saleVars
    <3>1. [Next]_vars
      BY <2>2 DEF OrderingStep, Next, Environment, saleVars
    <3> QED BY <2>1, <3>1, ContractKeptByStep DEF ContractStep
  <2>3. CASE CallsStep
    BY <2>1, <2>3, CallsFrame DEF CallsStep, ordersVars, Released, Refunded, Published
  <2>4. CASE RefundsStep
    <3>1. UNCHANGED <<orders, compTopic>>
      BY <2>4 DEF RefundsStep, ordersVars
    <3>2. Refunded' = Refunded
      BY <2>1, <2>4, RefundsFrame DEF Refunded
    <3> QED BY <3>1, <3>2 DEF Released, Published
  <2>5. CASE StockStep
    <3>1. SP!StockInv /\ SP!StockInv' /\ SP!Handed
      BY <1>1, ShopInvStep
      DEF ShopInv, SoldInv, SP!LedgerInv, SP!Ledger, SP!Ordered, SP!Handed
    <3>2. TopicsAdded /\ UNCHANGED neighbourVars
      BY <2>5, <3>1, StockSheltered, StockTopicsMove DEF StockStep, ShopDependable
    <3>3. Released' = Released
      BY <3>2 DEF TopicsAdded, Released
    <3> QED BY <3>2, <3>3 DEF neighbourVars, Refunded, Published
  <2> QED BY <1>1, <2>2, <2>3, <2>4, <2>5 DEF ShopNext, SaleStep
<1>2. ShopInit => Contract!Init
  BY ContractInvInit DEF ShopInit, SaleInit
<1> QED BY <1>1, <1>2, ShopInvariance, PTL
        DEF ShopSpec, ImplementsContract, Contract!Spec, Released, Refunded

(* A flash sale does not oversell where the order service's statements are *)
(* answered, a message is in one process's hands, no caller gives a reason *)
(* with PAID (Dependable), and the stock is sheltered (StockShelter): the  *)
(* orders that are paid, or still may be, and the stock on offer are       *)
(* covered by the stock there is, no user's orders take more than the      *)
(* limit, and what is offered again was never paid for.  Outside of these  *)
(* conditions the code does oversell (run order_insert_error, and the      *)
(* limits that docs/order-pay-promotion-edge-cases.md:44, :46, :107 and    *)
(* :108 name).                                                             *)
THEOREM ShopSafe ==
  ASSUME ShopDependable
  PROVE  ShopSpec => [](OrdersWithinStock /\ OrdersWithinLimit /\ ReturnedUnpaid)
<1>1. ShopInv => OrdersWithinStock /\ OrdersWithinLimit /\ ReturnedUnpaid
  <2> SUFFICES ASSUME ShopInv PROVE OrdersWithinStock /\ OrdersWithinLimit /\ ReturnedUnpaid
    OBVIOUS
  <2>1. ReleasedClosed
    BY DEF ShopInv, ReleasedUnpaid, ReleasedClosed, OpenOrders, Unpaid
  <2>2. \A r \in Requests : marked[r] # "none" => Published(compTopic, r)
    BY DEF ShopInv, SoldInv, SP!LedgerInv, SP!Ledger, SP!Ordered, SP!Published, Published
  <2>3. ReturnedUnpaid
    BY <2>2 DEF ShopInv, ReleasedUnpaid, ReturnedUnpaid
  <2> QED BY <2>1, <2>3, OpenCovered DEF ShopDependable, ShopInv
<1> QED BY <1>1, ShopInvariance, PTL
=============================================================================
