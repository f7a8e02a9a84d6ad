--------------------------- MODULE OrderRecovery ---------------------------
(***************************************************************************)
(* The order service in two phases: for as long as it likes, everything    *)
(* may fail; then the failures cease and stopped consumers are started     *)
(* again.  Whatever the failures have left behind must come to its end.    *)
(*                                                                         *)
(* UpdateOrderStatus is called in the second phase only: a call that fails *)
(* or dies between its update and its publish leaves an order whose stock  *)
(* nothing gives back, because a scan that lost the race for the order has *)
(* no second look at it before it removes its timeout.                     *)
(***************************************************************************)
EXTENDS OrderService

VARIABLE calm     \* have the failures ceased

recoveryVars == <<vars, calm>>

Failing == INSTANCE OrderService WITH RpcRequests <- {}
Quiet   == INSTANCE OrderService WITH Faults <- {}

RInit == Init /\ calm = FALSE

Cease ==
  /\ ~ calm /\ calm' = TRUE
  /\ creator' = [p \in Processes |-> IF creator[p].pc = "stopped"
                                       THEN IdleCreator ELSE creator[p]]
  /\ payer' = [p \in Processes |-> IF payer[p].pc = "stopped" THEN IdlePayer ELSE payer[p]]
  /\ UNCHANGED <<orders, timeoutSet, due, topicVars, scanner, rpc>>

Calmly(A) == calm /\ A /\ UNCHANGED calm

Finish(p) == Quiet!UpdateCas(p) \/ Quiet!UpdateZrem(p) \/ Quiet!UpdatePublish(p)

RNext ==
  \/ ~ calm /\ Failing!Next /\ UNCHANGED calm
  \/ Cease
  \/ \E p \in Processes :
       \/ Calmly(Quiet!Create(p)) \/ Calmly(Quiet!Pay(p)) \/ Calmly(Quiet!Scan(p))
       \/ \E r \in Requests, q \in RpcRequests : Calmly(Quiet!UpdateRead(p, r, q))
       \/ Calmly(Finish(p))
  \/ \E r \in Requests : Calmly(Quiet!SubmitOrder(r)) \/ Calmly(Elapse(r))
  \/ \E e \in Report : Calmly(Quiet!ReportPayment(e))

(* Once failures have ceased the goroutines keep running and time passes;  *)
(* nobody has to call the service.                                         *)
RSpec ==
  /\ RInit /\ [][RNext]_recoveryVars
  /\ \A p \in Processes :
       /\ WF_recoveryVars(Calmly(Quiet!Create(p))) /\ WF_recoveryVars(Calmly(Quiet!Pay(p)))
       /\ WF_recoveryVars(Calmly(Quiet!Scan(p)))   /\ WF_recoveryVars(Calmly(Finish(p)))
  /\ \A r \in Requests : WF_recoveryVars(Calmly(Elapse(r)))
-----------------------------------------------------------------------------
(* Once failures cease, an order whose time has passed is paid or gives    *)
(* its stock back, whichever of its consumers, its scans and its callers   *)
(* win the race for it: no earlier failure leaves it open for good, and no *)
(* loser of the race removes its timeout before the winner has published.  *)
DueOrderSettles ==
  \A r \in Requests :
    calm /\ orders[r] = "PENDING_PAY" /\ r \in due
      ~> orders[r] = "PAID" \/ Published(compTopic, r)

(* Once failures cease, an order that had ended unpaid before gives its    *)
(* stock back, as long as the timeout set remembers it and no report of a  *)
(* payment comes for it: whatever such a report says of a closed order,    *)
(* the consumer removes the order from the set, and with it the only       *)
(* memory of a compensation that a scan has failed to publish.             *)
UnpaidReleases ==
  \A r \in Requests :
    calm /\ orders[r] \in Unpaid /\ r \in timeoutSet
      ~> \/ Published(compTopic, r)
         \/ orders[r] = "CLOSED" /\ \E e \in Report : OrderOf[e.txn] = r /\ Published(payTopic, e)

(* Once failures cease, a payment that was reported buys its order or is   *)
(* refunded, unless a pay_report consumer has stopped again: one that      *)
(* loses the race for its order against a timeout or a cancellation does.  *)
(* Excepted is a payment beside another one of an order that is PAID,      *)
(* which is kept and never refunded (KeptTwice).                           *)
PaymentResolves ==
  \A t \in Txns :
    calm /\ Published(payTopic, [txn |-> t, status |-> "PAID"])
      ~> \/ Bought(t) \/ Published(refundTopic, t) \/ KeptTwice(t)
         \/ \E p \in Processes : payer[p].pc = "stopped"
=============================================================================
