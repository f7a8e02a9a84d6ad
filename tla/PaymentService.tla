--------------------------- MODULE PaymentService ---------------------------
(***************************************************************************)
(* The RPC side of the pay service (pay/internal/rpc/pay): payment orders, *)
(* their transactions, and the pay_report a call publishes after its local *)
(* database transaction has committed.                                     *)
(*                                                                         *)
(* A database transaction is one step: the calls lock the rows they change *)
(* (FOR UPDATE) and every conflict that is left rolls one of them back,    *)
(* which changes nothing.  Publishing is a step of its own, so a call can  *)
(* die, or be overtaken by others, between the two.                        *)
(*                                                                         *)
(* A transaction number is derived from the request id, and a payment      *)
(* number from the order number; both are taken to be collision-free.      *)
(* The amount stands for all the parameters that are compared with the     *)
(* payment order's (amount, user, currency).                               *)
(***************************************************************************)
EXTENDS KafkaTopic

CONSTANTS
  Requests,      \* orders, by request id
  Txns,          \* transactions
  OrderOf,       \* the order a transaction pays
  Amounts,       \* amounts a caller of CreateTransaction may name
  OrderAmount,   \* the amount in the orders table
  NoAmount,
  Faults         \* restart, writeLost, writeUnknown, replyLost, as in OrderService

ASSUME PaymentAssumption ==
  /\ OrderOf \in [Txns -> Requests]
  /\ OrderAmount \in Amounts
  /\ NoAmount \notin Amounts

VARIABLES
  orders,        \* the orders table, which belongs to the order service
  payOrder,      \* payment_order: status and amount of each order's row
  txn,           \* payment_transaction: status and amount of each row
  reporting,     \* reports of calls that committed and have not published
  payTopic,      \* pay_report
  charged        \* transactions whose money the channel has taken

payVars == <<orders, payOrder, txn, reporting, payTopic, charged>>

PayReport  == [txn : Txns, status : {"PAID", "CANCELLED"}]
Verdicts   == {"SUCCESS", "FAILED", "CLOSED"}
PayStatus  == Verdicts \cup {"WAIT_PAY"}
Row        == [status : PayStatus, amount : Amounts]
NoRow      == [status |-> "none", amount |-> NoAmount]
Paid(t)      == [txn |-> t, status |-> "PAID"]
Cancelled(t) == [txn |-> t, status |-> "CANCELLED"]

PayTypeOK ==
  /\ payOrder \in [Requests -> {NoRow} \cup Row]
  /\ txn \in [Txns -> {NoRow} \cup Row]
  /\ reporting \subseteq PayReport
  /\ payTopic \in [PayReport -> MessageState]
  /\ charged \subseteq Txns

PayInit ==
  /\ payOrder = [r \in Requests |-> NoRow]
  /\ txn = [t \in Txns |-> NoRow]
  /\ reporting = {}
  /\ payTopic = Empty(PayReport)
  /\ charged = {}

-----------------------------------------------------------------------------
(* CreateTransaction.  A call for a transaction that exists answers from   *)
(* it, or refuses other parameters, and changes nothing; so does a call    *)
(* that the payment order refuses.                                         *)

CreateTransaction(t, amount) ==
  LET r == OrderOf[t]
      row == [status |-> "WAIT_PAY", amount |-> amount]
  IN /\ txn[t] = NoRow
     /\ \/ payOrder[r] = NoRow /\ payOrder' = [payOrder EXCEPT ![r] = row]
        \/ payOrder[r] = row /\ UNCHANGED payOrder
     /\ txn' = [txn EXCEPT ![t] = row]
     /\ UNCHANGED <<orders, reporting, payTopic, charged>>

(* CreatePayment looks the order up, whatever its status, for its amount.  *)
CreatePayment(t) ==
  /\ orders[OrderOf[t]] # "none"
  /\ CreateTransaction(t, OrderAmount)

(* The two calls that end a transaction: lock it, move it out of WAIT_PAY, *)
(* and move its payment order too if that is still WAIT_PAY.               *)
End(t, verdict) ==
  LET r == OrderOf[t] IN
  /\ txn[t].status = "WAIT_PAY"
  /\ txn' = [txn EXCEPT ![t].status = verdict]
  /\ payOrder' = IF payOrder[r].status = "WAIT_PAY"
                   THEN [payOrder EXCEPT ![r].status = verdict] ELSE payOrder

(* A repeated call finds its own verdict, and reports again.               *)
EndedAs(t, verdict) ==
  /\ txn[t].status = verdict
  /\ UNCHANGED <<txn, payOrder>>

(* After the commit a call goes on to its report, unless the reply to the  *)
(* commit was lost.                                                        *)
Report(e) ==
  \/ reporting' = reporting \cup {e}
  \/ "replyLost" \in Faults /\ UNCHANGED reporting

(* Mutants: a transaction that was paid or has failed can be cancelled;    *)
(* cancelling does not touch the payment order.                            *)
CancelEnded(t) ==
  /\ txn[t].status # "none"
  /\ txn' = [txn EXCEPT ![t].status = "CLOSED"]
  /\ Report(Cancelled(t))
  /\ UNCHANGED <<orders, payOrder, payTopic, charged>>
CancelLeavesPaymentOrder(t) ==
  /\ txn[t].status \in {"WAIT_PAY", "CLOSED"}
  /\ txn' = [txn EXCEPT ![t].status = "CLOSED"]
  /\ Report(Cancelled(t))
  /\ UNCHANGED <<orders, payOrder, payTopic, charged>>

CancelTransaction(t) ==
  /\ End(t, "CLOSED") \/ EndedAs(t, "CLOSED")
  /\ Report(Cancelled(t))
  /\ UNCHANGED <<orders, payTopic, charged>>

(* Mutants: a SUCCESS callback reports whatever its transaction has become;*)
(* a repeated callback is answered without a report.                       *)
CallbackReportsAnyway(t) ==
  /\ t \in charged
  /\ End(t, "SUCCESS") \/ (txn[t].status # "WAIT_PAY" /\ UNCHANGED <<txn, payOrder>>)
  /\ Report(Paid(t))
  /\ UNCHANGED <<orders, payTopic, charged>>
CallbackReportsOnce(t) ==
  /\ t \in charged
  /\ End(t, "SUCCESS")
  /\ Report(Paid(t))
  /\ UNCHANGED <<orders, payTopic, charged>>

(* ThirdPartyCallback.  The channel calls with what has happened there.    *)
CallbackSuccess(t) ==
  /\ t \in charged
  /\ End(t, "SUCCESS") \/ EndedAs(t, "SUCCESS")
  /\ Report(Paid(t))
  /\ UNCHANGED <<orders, payTopic, charged>>

CallbackFailed(t) ==
  /\ t \notin charged
  /\ End(t, "FAILED")
  /\ UNCHANGED <<orders, reporting, payTopic, charged>>

(* publishPayReport, or the death of the process that was to publish.      *)
PublishReport(e) ==
  /\ e \in reporting
  /\ reporting' = reporting \ {e}
  /\ payTopic' = Queue(payTopic, e)
  /\ UNCHANGED <<orders, payOrder, txn, charged>>

PublishFailed(e) ==
  /\ e \in reporting
  /\ reporting' = reporting \ {e}
  /\ \/ payTopic' \in FailedWrite(payTopic, e, Faults)
     \/ "restart" \in Faults /\ UNCHANGED payTopic
  /\ UNCHANGED <<orders, payOrder, txn, charged>>

(* The user pays at the channel, which may happen at any time, after the   *)
(* transaction has ended as well.                                          *)
Charge(t) ==
  /\ txn[t] # NoRow
  /\ charged' = charged \cup {t}
  /\ UNCHANGED <<orders, payOrder, txn, reporting, payTopic>>

Call(t) ==
  \/ CreatePayment(t) \/ \E a \in Amounts : CreateTransaction(t, a)
  \/ CancelTransaction(t) \/ CallbackSuccess(t) \/ CallbackFailed(t)

PayNext ==
  \/ \E t \in Txns : Call(t) \/ Charge(t)
  \/ \E e \in PayReport : PublishReport(e) \/ PublishFailed(e)

-----------------------------------------------------------------------------
(* The service on its own: orders appear and stay.                         *)
Init == PayInit /\ orders = [r \in Requests |-> "none"]

OrderInserted(r) ==
  /\ orders' = [orders EXCEPT ![r] = "PENDING_PAY"]
  /\ UNCHANGED <<payOrder, txn, reporting, payTopic, charged>>

Next == PayNext \/ \E r \in Requests : OrderInserted(r)

Spec == Init /\ [][Next]_payVars

(* The channel repeats a callback until it is answered, and not every      *)
(* attempt to publish fails.                                               *)
FairSpec ==
  /\ Spec
  /\ \A t \in Txns : WF_payVars(CallbackSuccess(t)) /\ SF_payVars(PublishReport(Paid(t)))
-----------------------------------------------------------------------------
(* Reports, written or about to be.                                        *)
Reported(e) == Published(payTopic, e) \/ e \in reporting

(* The order service is never told of a payment that is not in the         *)
(* database: a PAID report has a SUCCESS transaction whose money the       *)
(* channel has taken, a CANCELLED report a CLOSED one.                     *)
ReportsBacked ==
  \A t \in Txns :
    /\ Reported(Paid(t)) => txn[t].status = "SUCCESS" /\ t \in charged
    /\ Reported(Cancelled(t)) => txn[t].status = "CLOSED"

(* Cancelling and paying race for a transaction, and the order service     *)
(* hears of one winner, over all retries and redeliveries.                 *)
OneVerdict ==
  \A t \in Txns : ~ (Reported(Paid(t)) /\ Reported(Cancelled(t)))

(* The rows of an order agree: a transaction has the amount of its payment *)
(* order; the payment order waits as long as all its transactions do, and  *)
(* has ended the way one of them has: not always the one that was paid,    *)
(* docs/order-pay-promotion-edge-cases.md:91.                              *)
TxnsOf(r) == {t \in Txns : OrderOf[t] = r /\ txn[t] # NoRow}

RowsAgree ==
  \A r \in Requests :
    /\ \A t \in TxnsOf(r) : txn[t].amount = payOrder[r].amount
    /\ payOrder[r].status = "WAIT_PAY" => \A t \in TxnsOf(r) : txn[t].status = "WAIT_PAY"
    /\ payOrder[r].status \in Verdicts =>
         \E t \in TxnsOf(r) : txn[t].status = payOrder[r].status

(* No transaction is opened for a payment order that has ended: whoever    *)
(* pays later than that has started before it.                             *)
OpensOnlyWaiting ==
  \A t \in Txns :
    txn[t] = NoRow /\ txn'[t] # NoRow => payOrder[OrderOf[t]].status \in {"none", "WAIT_PAY"}

NoLateTransaction == [][OpensOnlyWaiting]_payVars

(* A payment that was recorded is reported, although a process may die, or *)
(* the write fail, between the commit and the report.                      *)
SuccessReported ==
  \A t \in Txns : txn[t].status = "SUCCESS" ~> Published(payTopic, Paid(t))
=============================================================================
