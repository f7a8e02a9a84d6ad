---------------------------- MODULE OrderService ----------------------------
(***************************************************************************)
(* The order service (order/internal): the orders table, the Redis sorted  *)
(* set of order timeouts, and the four activities that race on them in     *)
(* every process of the service:                                           *)
(*   creator   the promotion_order_create consumer                         *)
(*   payer     the pay_report consumer                                     *)
(*   scanner   the timeout task                                            *)
(*   rpc       one UpdateOrderStatus call                                  *)
(* One step is one call of the code to MySQL, Redis or Kafka.  Activities  *)
(* of one process, and of several, interleave between any two steps.       *)
(*                                                                         *)
(* orders.request_id is UNIQUE and an order is created from one request,   *)
(* so an order is identified by its request.                               *)
(***************************************************************************)
EXTENDS KafkaTopic

CONSTANTS
  Requests,      \* request ids of promotion_order_create events
  Txns,          \* payment transactions
  OrderOf,       \* the order a transaction pays
  Processes,     \* running instances of the service
  RpcRequests,   \* the [target, reason] of UpdateOrderStatus calls
  Faults,        \* what may go wrong (see FaultKinds)
  NoRequest,     \* the request of an idle creator, scanner or call
  NoReport       \* the report of an idle payer

Unpaid      == {"CANCELLED", "CLOSED"}
Terminal    == Unpaid \cup {"PAID"}
OrderStatus == Terminal \cup {"none", "PENDING_PAY"}
Report      == [txn : Txns, status : {"PAID", "CANCELLED"}]

FaultKinds ==
  { "restart",      \* a process dies and starts again, between any two steps
    "rebalance",    \* a second process is handed a message that is in work
    "duplicate",    \* a message is written or delivered again
    "writeLost",    \* Producer.Write fails and nothing was written
    "writeUnknown", \* Producer.Write fails and the message was written
    "commit",       \* CommitMessages fails
    "redis",        \* a Redis call fails, with or without its effect
    "database",     \* a statement fails and has no effect
    "replyLost" }   \* a statement takes effect and its reply is lost

ASSUME ConstantsAssumption ==
  /\ OrderOf \in [Txns -> Requests]
  /\ RpcRequests \subseteq [target : Terminal, reason : BOOLEAN]
  /\ Faults \subseteq FaultKinds
  /\ NoRequest \notin Requests
  /\ NoReport \notin Report

VARIABLES
  orders,        \* the orders table: the status of each request's order
  timeoutSet,    \* members of the sorted set order:timeout
  due,           \* requests whose CreatedAt + OrderTTL has passed
  createTopic,   \* promotion_order_create
  payTopic,      \* pay_report
  compTopic,     \* promotion_order_compensate
  refundTopic,   \* refund_report
  creator, payer, scanner, rpc

topicVars == <<createTopic, payTopic, compTopic, refundTopic>>
vars == <<orders, timeoutSet, due, topicVars, creator, payer, scanner, rpc>>

IdleCreator == [pc |-> "idle", req |-> NoRequest]
IdlePayer   == [pc |-> "idle", report |-> NoReport]
IdleScanner == [pc |-> "idle", batch |-> {}, cur |-> NoRequest, snap |-> "none"]
IdleRpc     == [pc |-> "idle", req |-> NoRequest, target |-> "PAID", reason |-> FALSE]

CreatorWork == {"insert", "compensate", "add", "commit"}
PayerWork   == {"cas", "refund", "compensate", "zrem", "commit"}
ScannerWork == {"cas", "publish", "zrem"}
RpcWork     == {"cas", "zrem", "publish"}

CreatorState == [pc : {"idle", "stopped"}, req : {NoRequest}]
                  \cup [pc : CreatorWork, req : Requests]
PayerState   == [pc : {"idle", "stopped"}, report : {NoReport}]
                  \cup [pc : PayerWork, report : Report]
ScannerState ==
  {IdleScanner}
    \cup [pc : {"read"}, batch : SUBSET Requests,
          cur : Requests \cup {NoRequest}, snap : OrderStatus]
    \cup [pc : ScannerWork, batch : SUBSET Requests, cur : Requests, snap : OrderStatus]
RpcState ==
  {IdleRpc} \cup [pc : RpcWork, req : Requests, target : Terminal, reason : BOOLEAN]

TypeOK ==
  /\ orders \in [Requests -> OrderStatus]
  /\ timeoutSet \subseteq Requests
  /\ due \subseteq Requests
  /\ createTopic \in [Requests -> MessageState]
  /\ payTopic \in [Report -> MessageState]
  /\ compTopic \in [Requests -> MessageState]
  /\ refundTopic \in [Txns -> MessageState]
  /\ creator \in [Processes -> CreatorState]
  /\ payer \in [Processes -> PayerState]
  /\ scanner \in [Processes -> ScannerState]
  /\ rpc \in [Processes -> RpcState]

Init ==
  /\ orders = [r \in Requests |-> "none"]
  /\ timeoutSet = {}
  /\ due = {}
  /\ createTopic = Empty(Requests)
  /\ payTopic = Empty(Report)
  /\ compTopic = Empty(Requests)
  /\ refundTopic = Empty(Txns)
  /\ creator = [p \in Processes |-> IdleCreator]
  /\ payer = [p \in Processes |-> IdlePayer]
  /\ scanner = [p \in Processes |-> IdleScanner]
  /\ rpc = [p \in Processes |-> IdleRpc]

-----------------------------------------------------------------------------
(* UPDATE orders SET status = target WHERE order_id = r AND status =       *)
(* PENDING_PAY.  Its three outcomes: applied, not matched, failed.         *)

CasApplied(r, target) ==
  /\ orders[r] = "PENDING_PAY"
  /\ orders' = [orders EXCEPT ![r] = target]

CasUnmatched(r) ==
  /\ orders[r] # "PENDING_PAY"
  /\ UNCHANGED orders

CasFailed(r, target) ==
  \/ "database" \in Faults /\ UNCHANGED orders
  \/ "replyLost" \in Faults /\ CasApplied(r, target)

(* ZREM order:timeout r, answered or failed.                               *)
Zrem(r)       == timeoutSet' = timeoutSet \ {r}
ZremFailed(r) == "redis" \in Faults /\ timeoutSet' \in {timeoutSet, timeoutSet \ {r}}

-----------------------------------------------------------------------------
(* The promotion_order_create consumer.                                    *)

creatorFrame == <<due, payTopic, refundTopic, payer, scanner, rpc>>

Creator(p, pc) == creator' = [creator EXCEPT ![p].pc = pc]
CreatorDone(p) == creator' = [creator EXCEPT ![p] = IdleCreator]
CreatorStop(p) ==
  creator' = [creator EXCEPT ![p] = [pc |-> "stopped", req |-> NoRequest]]

(* Mutant: an order that exists already is not put back in the timeout set.*)
CreateFetchSkipsTimeout(p, r) ==
  /\ creator[p].pc = "idle"
  /\ createTopic[r] = "queued"
  /\ "rebalance" \in Faults \/ \A q \in Processes : creator[q].req # r
  /\ creator' = [creator EXCEPT ![p] =
                   [pc |-> IF orders[r] = "none" THEN "insert" ELSE "commit", req |-> r]]
  /\ UNCHANGED <<orders, timeoutSet, createTopic, compTopic, creatorFrame>>

(* Fetch a message and count the orders of its request id.                 *)
CreateFetch(p, r) ==
  /\ creator[p].pc = "idle"
  /\ createTopic[r] = "queued"
  /\ "rebalance" \in Faults \/ \A q \in Processes : creator[q].req # r
  /\ \/ creator' = [creator EXCEPT ![p] =
                      [pc |-> IF orders[r] = "none" THEN "insert" ELSE "add", req |-> r]]
     \/ "database" \in Faults /\ CreatorStop(p)
  /\ UNCHANGED <<orders, timeoutSet, createTopic, compTopic, creatorFrame>>

(* Any insert error, the duplicate key included, goes to compensation.     *)
CreateInsert(p) ==
  /\ creator[p].pc = "insert"
  /\ LET r == creator[p].req IN
     \/ /\ orders[r] = "none"
        /\ orders' = [orders EXCEPT ![r] = "PENDING_PAY"]
        /\ Creator(p, "add") \/ ("replyLost" \in Faults /\ Creator(p, "compensate"))
     \/ /\ orders[r] # "none" \/ "database" \in Faults
        /\ Creator(p, "compensate")
        /\ UNCHANGED orders
  /\ UNCHANGED <<timeoutSet, createTopic, compTopic, creatorFrame>>

(* The consumer stops whether the compensation was published or not.       *)
CreateCompensate(p) ==
  /\ creator[p].pc = "compensate"
  /\ LET r == creator[p].req IN
     compTopic' \in {Queue(compTopic, r)} \cup FailedWrite(compTopic, r, Faults)
  /\ CreatorStop(p)
  /\ UNCHANGED <<orders, timeoutSet, createTopic, creatorFrame>>

(* Mutant: the timeout is not written.                                     *)
CreateOmitsTimeout(p) ==
  /\ creator[p].pc = "add"
  /\ Creator(p, "commit")
  /\ UNCHANGED <<orders, timeoutSet, createTopic, compTopic, creatorFrame>>

CreateAddTimeout(p) ==
  /\ creator[p].pc = "add"
  /\ LET r == creator[p].req IN
     \/ timeoutSet' = timeoutSet \cup {r} /\ Creator(p, "commit")
     \/ /\ "redis" \in Faults
        /\ timeoutSet' \in {timeoutSet, timeoutSet \cup {r}}
        /\ CreatorStop(p)
  /\ UNCHANGED <<orders, createTopic, compTopic, creatorFrame>>

CreateCommit(p) ==
  /\ creator[p].pc = "commit"
  /\ LET r == creator[p].req IN
     \/ createTopic' \in AfterCommit(createTopic, r, Faults) /\ CreatorDone(p)
     \/ "commit" \in Faults /\ CreatorStop(p) /\ UNCHANGED createTopic
  /\ UNCHANGED <<orders, timeoutSet, compTopic, creatorFrame>>

Create(p) ==
  \/ \E r \in Requests : CreateFetch(p, r)
  \/ CreateInsert(p) \/ CreateCompensate(p) \/ CreateAddTimeout(p) \/ CreateCommit(p)

-----------------------------------------------------------------------------
(* The pay_report consumer.                                                *)

payerFrame == <<due, createTopic, creator, scanner, rpc>>

Payer(p, pc) == payer' = [payer EXCEPT ![p].pc = pc]
PayerDone(p) == payer' = [payer EXCEPT ![p] = IdlePayer]
PayerStop(p) ==
  payer' = [payer EXCEPT ![p] = [pc |-> "stopped", report |-> NoReport]]

(* What a report asks for, given the status its order was read with.       *)
Route(reported, status) ==
  CASE reported = "PAID" /\ status = "PAID"           -> "zrem"
    [] reported = "CANCELLED" /\ status = "CANCELLED" -> "compensate"
    [] status = "PENDING_PAY"                         -> "cas"
    [] reported = "PAID" /\ status \in Unpaid         -> "refund"
    [] reported = "CANCELLED" /\ status \in {"PAID", "CLOSED"} -> "zrem"

PayFetch(p, e) ==
  /\ payer[p].pc = "idle"
  /\ payTopic[e] = "queued"
  /\ "rebalance" \in Faults \/ \A q \in Processes : payer[q].report # e
  /\ LET status == orders[OrderOf[e.txn]] IN
     \/ /\ status # "none"
        /\ payer' = [payer EXCEPT ![p] = [pc |-> Route(e.status, status), report |-> e]]
     \/ (status = "none" \/ "database" \in Faults) /\ PayerStop(p)
  /\ UNCHANGED <<orders, timeoutSet, payTopic, compTopic, refundTopic, payerFrame>>

(* Mutants: a lost race is refunded without another look at the order; a   *)
(* lost race is taken for a duplicate.                                     *)
PayCasThen(p, lost) ==
  /\ payer[p].pc = "cas"
  /\ LET e == payer[p].report
         r == OrderOf[e.txn]
     IN \/ CasApplied(r, e.status) /\ Payer(p, IF e.status = "PAID" THEN "zrem" ELSE "compensate")
        \/ CasUnmatched(r) /\ Payer(p, lost)
  /\ UNCHANGED <<timeoutSet, payTopic, compTopic, refundTopic, payerFrame>>
PayCasRefundsLoser(p) == PayCasThen(p, "refund")
PayCasIgnoresLoser(p) == PayCasThen(p, "zrem")

(* A lost race on the order is an error like any other: the consumer stops.*)
PayCas(p) ==
  /\ payer[p].pc = "cas"
  /\ LET e == payer[p].report
         r == OrderOf[e.txn]
     IN \/ /\ CasApplied(r, e.status)
           /\ Payer(p, IF e.status = "PAID" THEN "zrem" ELSE "compensate")
        \/ CasUnmatched(r) /\ PayerStop(p)
        \/ CasFailed(r, e.status) /\ PayerStop(p)
  /\ UNCHANGED <<timeoutSet, payTopic, compTopic, refundTopic, payerFrame>>

(* Mutant: a refund that cannot be published is only logged.               *)
PayRefundIgnoresError(p) ==
  /\ payer[p].pc = "refund"
  /\ LET t == payer[p].report.txn IN
     refundTopic' \in {Queue(refundTopic, t)} \cup FailedWrite(refundTopic, t, Faults)
  /\ Payer(p, "zrem")
  /\ UNCHANGED <<orders, timeoutSet, payTopic, compTopic, payerFrame>>

PayRefund(p) ==
  /\ payer[p].pc = "refund"
  /\ LET t == payer[p].report.txn IN
     \/ refundTopic' = Queue(refundTopic, t) /\ Payer(p, "zrem")
     \/ refundTopic' \in FailedWrite(refundTopic, t, Faults) /\ PayerStop(p)
  /\ UNCHANGED <<orders, timeoutSet, payTopic, compTopic, payerFrame>>

PayCompensate(p) ==
  /\ payer[p].pc = "compensate"
  /\ LET r == OrderOf[payer[p].report.txn] IN
     \/ compTopic' = Queue(compTopic, r) /\ Payer(p, "zrem")
     \/ compTopic' \in FailedWrite(compTopic, r, Faults) /\ PayerStop(p)
  /\ UNCHANGED <<orders, timeoutSet, payTopic, refundTopic, payerFrame>>

PayZrem(p) ==
  /\ payer[p].pc = "zrem"
  /\ LET r == OrderOf[payer[p].report.txn] IN
     \/ Zrem(r) /\ Payer(p, "commit")
     \/ ZremFailed(r) /\ PayerStop(p)
  /\ UNCHANGED <<orders, payTopic, compTopic, refundTopic, payerFrame>>

PayCommit(p) ==
  /\ payer[p].pc = "commit"
  /\ LET e == payer[p].report IN
     \/ payTopic' \in AfterCommit(payTopic, e, Faults) /\ PayerDone(p)
     \/ "commit" \in Faults /\ PayerStop(p) /\ UNCHANGED payTopic
  /\ UNCHANGED <<orders, timeoutSet, compTopic, refundTopic, payerFrame>>

Pay(p) ==
  \/ \E e \in Report : PayFetch(p, e)
  \/ PayCas(p) \/ PayRefund(p) \/ PayCompensate(p) \/ PayZrem(p) \/ PayCommit(p)

-----------------------------------------------------------------------------
(* The timeout task.  A scan reads the due members once and handles them   *)
(* one by one; an error abandons the rest of the batch until the next tick.*)

scannerFrame == <<due, createTopic, payTopic, refundTopic, creator, payer, rpc>>

Scanner(p, pc)  == scanner' = [scanner EXCEPT ![p].pc = pc]
ScannerAbort(p) == scanner' = [scanner EXCEPT ![p] = IdleScanner]

ScanStart(p) ==
  /\ scanner[p].pc = "idle"
  /\ timeoutSet \cap due # {}
  /\ scanner' = [scanner EXCEPT ![p] = [IdleScanner EXCEPT
                   !.pc = "read", !.batch = timeoutSet \cap due]]
  /\ UNCHANGED <<orders, timeoutSet, compTopic, scannerFrame>>

ScanRead(p, r) ==
  /\ scanner[p].pc = "read"
  /\ r \in scanner[p].batch
  /\ \/ scanner' = [scanner EXCEPT ![p] =
           [pc    |-> IF orders[r] = "none" THEN "zrem" ELSE "cas",
            batch |-> scanner[p].batch \ {r}, cur |-> r, snap |-> orders[r]]]
     \/ "database" \in Faults /\ ScannerAbort(p)
  /\ UNCHANGED <<orders, timeoutSet, compTopic, scannerFrame>>

(* Mutant: the decision to compensate looks at the status read before the  *)
(* update, and not at the update's result.                                 *)
ScanCasTrustsRead(p) ==
  /\ scanner[p].pc = "cas"
  /\ LET r == scanner[p].cur IN
     /\ CasApplied(r, "CLOSED") \/ CasUnmatched(r)
     /\ Scanner(p, IF scanner[p].snap # "PAID" THEN "publish" ELSE "zrem")
  /\ UNCHANGED <<timeoutSet, compTopic, scannerFrame>>

(* An order that was not PENDING_PAY is compensated again if it was read   *)
(* as CLOSED or CANCELLED: the scan that changed it may have failed.       *)
ScanCas(p) ==
  /\ scanner[p].pc = "cas"
  /\ LET r == scanner[p].cur IN
     \/ CasApplied(r, "CLOSED") /\ Scanner(p, "publish")
     \/ CasUnmatched(r) /\ Scanner(p, IF scanner[p].snap \in Unpaid THEN "publish" ELSE "zrem")
     \/ CasFailed(r, "CLOSED") /\ ScannerAbort(p)
  /\ UNCHANGED <<timeoutSet, compTopic, scannerFrame>>

(* Mutant: a compensation that cannot be published is only logged.         *)
ScanPublishIgnoresError(p) ==
  /\ scanner[p].pc = "publish"
  /\ LET r == scanner[p].cur IN
     compTopic' \in {Queue(compTopic, r)} \cup FailedWrite(compTopic, r, Faults)
  /\ Scanner(p, "zrem")
  /\ UNCHANGED <<orders, timeoutSet, scannerFrame>>

ScanPublish(p) ==
  /\ scanner[p].pc = "publish"
  /\ LET r == scanner[p].cur IN
     \/ compTopic' = Queue(compTopic, r) /\ Scanner(p, "zrem")
     \/ compTopic' \in FailedWrite(compTopic, r, Faults) /\ ScannerAbort(p)
  /\ UNCHANGED <<orders, timeoutSet, scannerFrame>>

ScanZrem(p) ==
  /\ scanner[p].pc = "zrem"
  /\ LET r == scanner[p].cur IN
     \/ /\ Zrem(r)
        /\ IF scanner[p].batch = {} THEN ScannerAbort(p) ELSE Scanner(p, "read")
     \/ ZremFailed(r) /\ ScannerAbort(p)
  /\ UNCHANGED <<orders, compTopic, scannerFrame>>

Scan(p) ==
  \/ ScanStart(p) \/ (\E r \in Requests : ScanRead(p, r))
  \/ ScanCas(p) \/ ScanPublish(p) \/ ScanZrem(p)

-----------------------------------------------------------------------------
(* UpdateOrderStatus.  The calls that end at their first read (no such     *)
(* order, target already reached, order not PENDING_PAY) change nothing.   *)

rpcFrame == <<due, createTopic, payTopic, refundTopic, creator, payer, scanner>>

Rpc(p, pc)    == rpc' = [rpc EXCEPT ![p].pc = pc]
RpcReturn(p)  == rpc' = [rpc EXCEPT ![p] = IdleRpc]

UpdateRead(p, r, q) ==
  /\ rpc[p].pc = "idle"
  /\ orders[r] = "PENDING_PAY"
  /\ rpc' = [rpc EXCEPT ![p] =
               [pc |-> "cas", req |-> r, target |-> q.target, reason |-> q.reason]]
  /\ UNCHANGED <<orders, timeoutSet, compTopic, rpcFrame>>

UpdateCas(p) ==
  /\ rpc[p].pc = "cas"
  /\ LET r == rpc[p].req IN
     \/ CasApplied(r, rpc[p].target) /\ Rpc(p, "zrem")
     \/ CasUnmatched(r) /\ RpcReturn(p)
     \/ CasFailed(r, rpc[p].target) /\ RpcReturn(p)
  /\ UNCHANGED <<timeoutSet, compTopic, rpcFrame>>

UpdateZrem(p) ==
  /\ rpc[p].pc = "zrem"
  /\ LET r == rpc[p].req IN
     \/ Zrem(r) /\ IF rpc[p].reason THEN Rpc(p, "publish") ELSE RpcReturn(p)
     \/ ZremFailed(r) /\ RpcReturn(p)
  /\ UNCHANGED <<orders, compTopic, rpcFrame>>

UpdatePublish(p) ==
  /\ rpc[p].pc = "publish"
  /\ LET r == rpc[p].req IN
     compTopic' \in {Queue(compTopic, r)} \cup FailedWrite(compTopic, r, Faults)
  /\ RpcReturn(p)
  /\ UNCHANGED <<orders, timeoutSet, rpcFrame>>

Update(p) ==
  \/ \E r \in Requests, q \in RpcRequests : UpdateRead(p, r, q)
  \/ UpdateCas(p) \/ UpdateZrem(p) \/ UpdatePublish(p)

-----------------------------------------------------------------------------
(* A process dies and is started again: its consumers resume from the      *)
(* committed offsets, everything else they held is forgotten.              *)

Restart(p) ==
  /\ "restart" \in Faults
  /\ creator' = [creator EXCEPT ![p] = IdleCreator]
  /\ payer' = [payer EXCEPT ![p] = IdlePayer]
  /\ scanner' = [scanner EXCEPT ![p] = IdleScanner]
  /\ rpc' = [rpc EXCEPT ![p] = IdleRpc]
  /\ UNCHANGED <<orders, timeoutSet, due, topicVars>>

ProcessNext(p) == Create(p) \/ Pay(p) \/ Scan(p) \/ Update(p) \/ Restart(p)

(* CreatedAt + OrderTTL passes, at whatever point the message has reached. *)
Elapse(r) ==
  /\ Published(createTopic, r)
  /\ due' = due \cup {r}
  /\ UNCHANGED <<orders, timeoutSet, topicVars, creator, payer, scanner, rpc>>

(* What the promotion and pay services may send.  A payment is created for *)
(* an order that exists, and a transaction ends in one way.                *)
SubmitOrder(r) ==
  /\ createTopic[r] = "none" \/ "duplicate" \in Faults
  /\ createTopic' = Queue(createTopic, r)
  /\ UNCHANGED <<orders, timeoutSet, due, payTopic, compTopic, refundTopic,
                 creator, payer, scanner, rpc>>

ReportPayment(e) ==
  /\ orders[OrderOf[e.txn]] # "none"
  /\ \A s \in {"PAID", "CANCELLED"} \ {e.status} : payTopic[[txn |-> e.txn, status |-> s]] = "none"
  /\ payTopic[e] = "none" \/ "duplicate" \in Faults
  /\ payTopic' = Queue(payTopic, e)
  /\ UNCHANGED <<orders, timeoutSet, due, createTopic, compTopic, refundTopic,
                 creator, payer, scanner, rpc>>

Environment ==
  \/ \E r \in Requests : SubmitOrder(r) \/ Elapse(r)
  \/ \E e \in Report : ReportPayment(e)

Next == Environment \/ \E p \in Processes : ProcessNext(p)

Spec == Init /\ [][Next]_vars
-----------------------------------------------------------------------------
(* Safety that no fault can break. *)

(* Money goes back only for an order that will never be fulfilled: when a  *)
(* refund has been requested for a transaction, its order ended unpaid.    *)
RefundOnlyUnpaid ==
  \A t \in Txns : Published(refundTopic, t) => orders[OrderOf[t]] \in Unpaid

(* A payment may stand beside another one for the same order, reported     *)
(* too.  When it is the only one, a PAID order is what it has bought.  Of  *)
(* two, the order service keeps both: it takes the second for a repeated   *)
(* report (payreport/consumer.go:58) and acknowledges it, where            *)
(* docs/order-pay-promotion-edge-cases.md:91, :120 and :180 want a refund  *)
(* of each but one.  This is the case that KeptTwice names.                *)
PaidBeside(t) ==
  \E u \in Txns \ {t} :
    OrderOf[u] = OrderOf[t] /\ Published(payTopic, [txn |-> u, status |-> "PAID"])

Bought(t)    == orders[OrderOf[t]] = "PAID" /\ ~ PaidBeside(t)
KeptTwice(t) == orders[OrderOf[t]] = "PAID" /\ PaidBeside(t)

(* No report is acknowledged before it is answered: when every copy of a   *)
(* PAID report is committed, the order is PAID or the refund is requested; *)
(* when a CANCELLED report is, the order ended some other way or its stock *)
(* is released.  A PAID order answers each report of a payment, a second   *)
(* one (KeptTwice) as well.                                                *)
Answered(e) ==
  LET r == OrderOf[e.txn] IN
  \/ e.status = "PAID" /\ (orders[r] = "PAID" \/ Published(refundTopic, e.txn))
  \/ /\ e.status = "CANCELLED"
     /\ \/ orders[r] \in {"PAID", "CLOSED"}
        \/ orders[r] = "CANCELLED" /\ Published(compTopic, r)

ReportsAnswered == \A e \in Report : payTopic[e] = "committed" => Answered(e)

(* No order is left waiting for ever: while an order is PENDING_PAY, it is *)
(* in the timeout set or the message that will put it there is still to be *)
(* redelivered.                                                            *)
PendingHasTimeout ==
  \A r \in Requests :
    orders[r] = "PENDING_PAY" => r \in timeoutSet \/ createTopic[r] = "queued"

(* A settled order never changes again, and no order disappears.           *)
OrdersSettle ==
  \A r \in Requests : /\ orders[r] \in Terminal => orders'[r] = orders[r]
                      /\ orders[r] # "none" => orders'[r] # "none"

SettledStable == [][OrdersSettle]_vars

-----------------------------------------------------------------------------
(* Safety that some faults break. *)

(* Stock that was given back is not also sold: a request whose             *)
(* compensation was published has no paid order.                           *)
CompensatedNeverPaid ==
  \A r \in Requests : Published(compTopic, r) => orders[r] # "PAID"

(* The service keeps its contract with its neighbours (OrderContract).     *)
Contract == INSTANCE OrderContract WITH
  status   <- orders,
  released <- {r \in Requests : Published(compTopic, r)},
  refunded <- {t \in Txns : Published(refundTopic, t)}

ImplementsContract == Contract!Spec
=============================================================================
