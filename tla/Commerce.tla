------------------------------ MODULE Commerce ------------------------------
(***************************************************************************)
(* A sale, from its order to the return of its money: the order service,   *)
(* the calls of the pay service and its refunds, over what they share.     *)
(*   orders        written by the order service, read by CreatePayment     *)
(*   payTopic      written by the calls, read by the order service's payer *)
(*   refundTopic   written by the payer, read by the refund consumer       *)
(* What each service imagined of its neighbours (ReportPayment,            *)
(* OrderInserted, RefundRequested) gives way to the neighbours' own steps. *)
(***************************************************************************)
EXTENDS OrderService

CONSTANTS
  PayProcesses,   \* running instances of the pay service
  PayFaults,      \* what may go wrong there
  Amounts, OrderAmount, NoAmount, Accepts, NoTxn

VARIABLES
  payOrder, txn, reporting, charged,         \* of PaymentService
  refund, waiting, channel, refunder, task   \* of RefundService

Payment == INSTANCE PaymentService WITH Faults <- PayFaults
Refund  == INSTANCE RefundService WITH Faults <- PayFaults, Processes <- PayProcesses

(* No caller of UpdateOrderStatus declares an order PAID: that would be a  *)
(* sale without a payment.                                                 *)
ASSUME SaleAssumption ==
  /\ Payment!PaymentAssumption
  /\ Refund!RefundAssumption
  /\ \A q \in RpcRequests : q.target \in Unpaid

callsVars   == <<payOrder, txn, reporting, charged>>
refundsVars == <<refund, waiting, channel, refunder, task>>
ordersVars  == <<timeoutSet, due, createTopic, compTopic, creator, payer, scanner, rpc>>
saleVars    == <<vars, callsVars, refundsVars>>

SaleInit == Init /\ Payment!PayInit /\ Refund!RefundInit

OrdersStep ==
  /\ \/ \E p \in Processes : ProcessNext(p)
     \/ \E r \in Requests : SubmitOrder(r) \/ Elapse(r)
  /\ UNCHANGED <<callsVars, refundsVars>>

CallsStep ==
  /\ Payment!PayNext
  /\ UNCHANGED <<ordersVars, refundTopic, refundsVars>>

RefundsStep ==
  /\ Refund!RefundNext
  /\ UNCHANGED <<ordersVars, orders, payTopic, callsVars>>

SaleNext == OrdersStep \/ CallsStep \/ RefundsStep

SaleSpec == SaleInit /\ [][SaleNext]_saleVars
-----------------------------------------------------------------------------
(* The channel is asked to return money only for a transaction whose money *)
(* it has taken and whose order will never be fulfilled.  Between the two  *)
(* lie a callback, two topics, a row and a batch, each of which another    *)
(* process may overtake, repeat or lose.                                   *)
MoneyBackUnsold ==
  \A t \in Txns :
    channel[t] # "none" => t \in charged /\ orders[OrderOf[t]] \in Unpaid

(* An order is PAID only by money that the channel has taken and the pay   *)
(* service has recorded as a success: no report of another outcome, of     *)
(* another order or of a call that lost its race settles it so.            *)
PaidOrderCharged ==
  \A r \in Requests :
    orders[r] = "PAID" =>
      \E t \in charged : OrderOf[t] = r /\ txn[t].status = "SUCCESS"

(* When nothing about a recorded payment is left to be read on either      *)
(* topic, either it has bought its order, or the order has ended unpaid    *)
(* and its refund is in the table: no step between the two services drops  *)
(* it or gives both.  Excepted is a payment beside another one of an order *)
(* that is PAID, which is kept and never refunded (KeptTwice).             *)
MoneyAccounted ==
  \A t \in Txns :
    payTopic[Payment!Paid(t)] = "committed" /\ refundTopic[t] # "queued" =>
      \/ Bought(t) /\ refund[t] = "none"
      \/ orders[OrderOf[t]] \in Unpaid /\ refund[t] # "none"
      \/ KeptTwice(t)
=============================================================================
