------------------------ MODULE PaymentServiceProofs ------------------------
(***************************************************************************)
(* Theorems about PaymentService, for any number of orders, transactions   *)
(* and amounts and any set of faults.                                      *)
(***************************************************************************)
EXTENDS PaymentService, TLAPS

USE PaymentAssumption

-----------------------------------------------------------------------------
(* What the actions have in common. *)

(* The two reports of a transaction are reports, they differ, and no other *)
(* transaction has them.                                                   *)
LEMMA PayReports ==
  /\ \A t \in Txns : Paid(t) \in PayReport /\ Cancelled(t) \in PayReport
  /\ \A t, u \in Txns : Paid(t) # Cancelled(u)
  /\ \A t, u \in Txns : t # u => Paid(t) # Paid(u) /\ Cancelled(t) # Cancelled(u)
BY DEF PayReport, Paid, Cancelled

(* A row has an amount and a status; what is no row has neither.           *)
LEMMA Rows ==
  /\ NoRow \notin Row
  /\ NoRow.status \notin PayStatus
  /\ NoRow.amount \notin Amounts
  /\ \A row \in Row : row.status \in PayStatus /\ row.amount \in Amounts
  /\ \A a \in Amounts : [status |-> "WAIT_PAY", amount |-> a] \in Row
BY DEF Row, NoRow, PayStatus, Verdicts

(* A payment order that has not been written has no transactions.          *)
LEMMA NoOrderNoTxns ==
  ASSUME PayTypeOK, RowsAgree, NEW r \in Requests, payOrder[r] = NoRow
  PROVE  TxnsOf(r) = {}
<1>1. \A t \in TxnsOf(r) : txn[t] \in Row /\ txn[t].amount = NoRow.amount
  BY DEF RowsAgree, TxnsOf, PayTypeOK
<1> QED BY <1>1, Rows

(* A topic that a write leaves behind, as a whole and message by message.  *)
LEMMA PublishedReports ==
  ASSUME PayTypeOK, NEW e \in PayReport,
         payTopic' \in {Queue(payTopic, e)} \cup FailedWrite(payTopic, e, Faults) \cup {payTopic}
  PROVE  /\ payTopic' \in [PayReport -> MessageState]
         /\ \A f \in PayReport : Published(payTopic, f)' => Published(payTopic, f) \/ f = e
BY DEF PayTypeOK, Queue, FailedWrite, MessageState, Published

-----------------------------------------------------------------------------
(* One lemma per kind of step. *)

(* The inductive invariant: the types, what a report is backed by, and the *)
(* agreement of the rows, which says that an unwritten payment order has   *)
(* no transactions.                                                        *)
PayInv == PayTypeOK /\ ReportsBacked /\ RowsAgree

(* A transaction is opened, for a payment order that waits or is new.      *)
LEMMA OpenStep ==
  ASSUME PayInv, NEW t \in Txns, NEW a \in Amounts, CreateTransaction(t, a)
  PROVE  PayInv' /\ OpensOnlyWaiting
<1> DEFINE r   == OrderOf[t]
           row == [status |-> "WAIT_PAY", amount |-> a]
<1>1. /\ r \in Requests /\ row \in Row /\ row.status = "WAIT_PAY" /\ row # NoRow
      /\ txn[t] = NoRow /\ txn' = [txn EXCEPT ![t] = row]
      /\ \/ payOrder[r] = NoRow /\ payOrder' = [payOrder EXCEPT ![r] = row]
         \/ payOrder[r] = row /\ payOrder' = payOrder
      /\ reporting' = reporting /\ payTopic' = payTopic /\ charged' = charged
  BY Rows DEF CreateTransaction
<1> HIDE DEF r, row
<1>2. payOrder' \in [Requests -> {NoRow} \cup Row] /\ payOrder'[r] = row
        /\ \A q \in Requests : q # r => payOrder'[q] = payOrder[q]
  BY <1>1 DEF PayInv, PayTypeOK
<1>3. txn' \in [Txns -> {NoRow} \cup Row] /\ txn'[t] = row
        /\ \A u \in Txns : u # t => txn'[u] = txn[u]
  BY <1>1 DEF PayInv, PayTypeOK
<1>4. PayTypeOK'
  BY <1>1, <1>2, <1>3 DEF PayInv, PayTypeOK
<1>5. ReportsBacked'
  <2>1. \A e : Reported(e)' <=> Reported(e)
    BY <1>1 DEF Reported, Published
  <2>2. ~ Reported(Paid(t)) /\ ~ Reported(Cancelled(t))
    BY <1>1, Rows DEF PayInv, ReportsBacked, NoRow
  <2> QED BY <1>1, <1>3, <2>1, <2>2 DEF PayInv, ReportsBacked
<1>6. RowsAgree'
  <2> SUFFICES ASSUME NEW q \in Requests
               PROVE  /\ \A u \in TxnsOf(q)' : txn'[u].amount = payOrder'[q].amount
                      /\ payOrder'[q].status = "WAIT_PAY" =>
                           \A u \in TxnsOf(q)' : txn'[u].status = "WAIT_PAY"
                      /\ payOrder'[q].status \in Verdicts =>
                           \E u \in TxnsOf(q)' : txn'[u].status = payOrder'[q].status
    BY DEF RowsAgree
  <2>1. CASE q = r
    <3>1. TxnsOf(r)' = TxnsOf(r) \cup {t}
      BY <1>1, <1>3 DEF TxnsOf, r
    <3>2. \A u \in TxnsOf(r) : u # t /\ txn[u].amount = row.amount /\ txn[u].status = "WAIT_PAY"
      BY <1>1, NoOrderNoTxns DEF PayInv, RowsAgree, TxnsOf
    <3>3. TxnsOf(r) \subseteq Txns
      BY DEF TxnsOf
    <3> QED BY <1>1, <1>2, <1>3, <2>1, <3>1, <3>2, <3>3 DEF Verdicts
  <2>2. CASE q # r
    <3>1. TxnsOf(q)' = TxnsOf(q) /\ t \notin TxnsOf(q)
      BY <1>3, <2>2 DEF TxnsOf, r
    <3>2. TxnsOf(q) \subseteq Txns
      BY DEF TxnsOf
    <3> QED BY <1>2, <1>3, <2>2, <3>1, <3>2 DEF PayInv, RowsAgree
  <2> QED BY <2>1, <2>2
<1>7. OpensOnlyWaiting
  <2>1. payOrder[r].status \in {"none", "WAIT_PAY"}
    BY <1>1 DEF NoRow
  <2> QED BY <1>3, <2>1 DEF OpensOnlyWaiting, r
<1> QED BY <1>4, <1>5, <1>6, <1>7 DEF PayInv

(* A transaction ends, or is found ended.                                  *)
LEMMA EndRows ==
  ASSUME PayInv, NEW t \in Txns, NEW v \in Verdicts, End(t, v) \/ EndedAs(t, v)
  PROVE  /\ payOrder' \in [Requests -> {NoRow} \cup Row]
         /\ txn' \in [Txns -> {NoRow} \cup Row]
         /\ txn'[t].status = v
         /\ txn[t].status \in {"WAIT_PAY", v}
         /\ \A u \in Txns : u # t => txn'[u] = txn[u]
         /\ \A u \in Txns : txn'[u] = NoRow <=> txn[u] = NoRow
         /\ RowsAgree'
<1>1. CASE EndedAs(t, v)
  BY <1>1 DEF EndedAs, PayInv, PayTypeOK, RowsAgree, TxnsOf
<1>2. CASE End(t, v)
  <2> DEFINE r == OrderOf[t]
  <2>1. r \in Requests /\ txn[t].status = "WAIT_PAY" /\ txn' = [txn EXCEPT ![t].status = v]
    BY <1>2 DEF End
  <2>2. txn[t] \in Row /\ txn[t] # NoRow /\ t \in TxnsOf(r)
    BY <2>1, Rows DEF PayInv, PayTypeOK, TxnsOf, NoRow
  <2>3. /\ txn'[t] \in Row /\ txn'[t].status = v /\ txn'[t].amount = txn[t].amount
        /\ txn'[t] # NoRow
    BY <2>1, <2>2, Rows DEF PayInv, PayTypeOK, Row, PayStatus
  <2>4. \A u \in Txns : u # t => txn'[u] = txn[u]
    BY <2>1 DEF PayInv, PayTypeOK
  <2>5. txn' \in [Txns -> {NoRow} \cup Row]
    BY <2>1, <2>3, <2>4 DEF PayInv, PayTypeOK
  <2>6. \A q \in Requests : TxnsOf(q)' = TxnsOf(q) /\ TxnsOf(q) \subseteq Txns
    BY <2>2, <2>3, <2>4 DEF TxnsOf
  <2>7. payOrder[r] \in Row
    BY <2>1, <2>2, NoOrderNoTxns DEF PayInv, PayTypeOK
  <2>8. /\ payOrder' \in [Requests -> {NoRow} \cup Row]
        /\ \A q \in Requests : q # r => payOrder'[q] = payOrder[q]
        /\ payOrder'[r].amount = payOrder[r].amount
        /\ payOrder'[r].status = IF payOrder[r].status = "WAIT_PAY" THEN v
                                 ELSE payOrder[r].status
    <3>1. CASE payOrder[r].status = "WAIT_PAY"
      <4>1. payOrder' = [payOrder EXCEPT ![r].status = v]
        BY <1>2, <3>1 DEF End
      <4>2. [payOrder[r] EXCEPT !.status = v] \in Row
        BY <2>7 DEF Row, PayStatus
      <4> QED BY <2>1, <2>7, <3>1, <4>1, <4>2 DEF PayInv, PayTypeOK, Row
    <3>2. CASE payOrder[r].status # "WAIT_PAY"
      BY <1>2, <3>2 DEF End, PayInv, PayTypeOK
    <3> QED BY <3>1, <3>2
  <2>9. RowsAgree'
    <3> SUFFICES ASSUME NEW q \in Requests
                 PROVE  /\ \A u \in TxnsOf(q)' : txn'[u].amount = payOrder'[q].amount
                        /\ payOrder'[q].status = "WAIT_PAY" =>
                             \A u \in TxnsOf(q)' : txn'[u].status = "WAIT_PAY"
                        /\ payOrder'[q].status \in Verdicts =>
                             \E u \in TxnsOf(q)' : txn'[u].status = payOrder'[q].status
      BY DEF RowsAgree
    <3>1. CASE q # r
      <4>1. t \notin TxnsOf(q)
        BY <3>1 DEF TxnsOf
      <4> QED BY <2>4, <2>6, <2>8, <3>1, <4>1 DEF PayInv, RowsAgree
    <3>2. CASE q = r
      <4>1. \A u \in TxnsOf(r) : txn'[u].amount = payOrder'[r].amount
        BY <2>1, <2>3, <2>4, <2>6, <2>8 DEF PayInv, RowsAgree
      <4>2. payOrder'[r].status # "WAIT_PAY"
        BY <2>8 DEF Verdicts
      <4>3. CASE payOrder[r].status = "WAIT_PAY"
        BY <2>2, <2>3, <2>6, <2>8, <3>2, <4>1, <4>2, <4>3
      <4>4. CASE payOrder[r].status # "WAIT_PAY"
        <5>1. payOrder[r].status \in Verdicts
          BY <2>7, <4>4, Rows DEF PayStatus
        <5>2. PICK u \in TxnsOf(r) : txn[u].status = payOrder[r].status
          BY <2>1, <5>1 DEF PayInv, RowsAgree
        <5>3. u # t
          BY <2>1, <4>4, <5>2
        <5> QED BY <2>1, <2>4, <2>6, <2>8, <3>2, <4>1, <4>2, <4>4, <5>2, <5>3
      <4> QED BY <4>3, <4>4
    <3> QED BY <3>1, <3>2
  <2>10. \A u \in Txns : txn'[u] = NoRow <=> txn[u] = NoRow
    BY <2>2, <2>3, <2>4
  <2> HIDE DEF r
  <2> QED BY <2>1, <2>3, <2>4, <2>5, <2>8, <2>9, <2>10
<1> QED BY <1>1, <1>2

(* A cancelled or failed call, and a callback, keep the invariant.         *)
LEMMA VerdictStep ==
  ASSUME PayInv, NEW t \in Txns,
         CancelTransaction(t) \/ CallbackSuccess(t) \/ CallbackFailed(t)
  PROVE  PayInv' /\ OpensOnlyWaiting
<1>1. PICK v \in Verdicts :
        /\ End(t, v) \/ EndedAs(t, v)
        /\ payTopic' = payTopic /\ charged' = charged
        /\ \/ v = "CLOSED" /\ reporting' \in {reporting, reporting \cup {Cancelled(t)}}
           \/ v = "SUCCESS" /\ t \in charged /\ reporting' \in {reporting, reporting \cup {Paid(t)}}
           \/ v = "FAILED" /\ reporting' = reporting
  <2>1. CASE CancelTransaction(t)
    BY <2>1 DEF CancelTransaction, Report, Verdicts
  <2>2. CASE CallbackSuccess(t)
    BY <2>2 DEF CallbackSuccess, Report, Verdicts
  <2>3. CASE CallbackFailed(t)
    BY <2>3 DEF CallbackFailed, Verdicts
  <2> QED BY <2>1, <2>2, <2>3
<1>2. PayTypeOK'
  <2>1. reporting' \subseteq PayReport
    BY <1>1, PayReports DEF PayInv, PayTypeOK
  <2> QED BY <1>1, <2>1, EndRows DEF PayInv, PayTypeOK
<1>3. ReportsBacked'
  <2> SUFFICES ASSUME NEW u \in Txns
               PROVE  /\ Reported(Paid(u))' => txn'[u].status = "SUCCESS" /\ u \in charged'
                      /\ Reported(Cancelled(u))' => txn'[u].status = "CLOSED"
    BY DEF ReportsBacked
  <2>1. CASE u # t
    <3>1. /\ Reported(Paid(u))' => Reported(Paid(u))
          /\ Reported(Cancelled(u))' => Reported(Cancelled(u))
      BY <1>1, <2>1, PayReports DEF Reported, Published
    <3> QED BY <1>1, <2>1, <3>1, EndRows DEF PayInv, ReportsBacked
  <2>2. CASE u = t
    <3>1. /\ Reported(Paid(t))' => Reported(Paid(t)) \/ (v = "SUCCESS" /\ t \in charged)
          /\ Reported(Cancelled(t))' => Reported(Cancelled(t)) \/ v = "CLOSED"
      BY <1>1, PayReports DEF Reported, Published
    <3>2. /\ Reported(Paid(t)) => v = "SUCCESS" /\ t \in charged
          /\ Reported(Cancelled(t)) => v = "CLOSED"
      BY <1>1, EndRows DEF PayInv, ReportsBacked
    <3> QED BY <1>1, <2>2, <3>1, <3>2, EndRows
  <2> QED BY <2>1, <2>2
<1>4. OpensOnlyWaiting
  BY <1>1, EndRows DEF OpensOnlyWaiting
<1> QED BY <1>1, <1>2, <1>3, <1>4, EndRows DEF PayInv

(* Publishing, with any outcome.                                           *)
LEMMA PublishStep ==
  ASSUME PayInv, NEW e \in PayReport, PublishReport(e) \/ PublishFailed(e)
  PROVE  PayInv' /\ OpensOnlyWaiting
<1>1. /\ e \in reporting /\ reporting' = reporting \ {e}
      /\ payTopic' \in {Queue(payTopic, e)} \cup FailedWrite(payTopic, e, Faults) \cup {payTopic}
      /\ payOrder' = payOrder /\ txn' = txn /\ charged' = charged
  BY DEF PublishReport, PublishFailed
<1>2. PayTypeOK'
  BY <1>1, PublishedReports DEF PayInv, PayTypeOK
<1>3. \A f \in PayReport : Reported(f)' => Reported(f)
  BY <1>1, PublishedReports DEF PayInv, Reported
<1>4. ReportsBacked'
  BY <1>1, <1>3, PayReports DEF PayInv, ReportsBacked
<1>5. RowsAgree' /\ OpensOnlyWaiting
  BY <1>1 DEF PayInv, RowsAgree, TxnsOf, OpensOnlyWaiting
<1> QED BY <1>2, <1>4, <1>5 DEF PayInv

(* Steps that leave the rows and the reports alone.                        *)
LEMMA OtherStep ==
  ASSUME PayInv, payOrder' = payOrder, txn' = txn, reporting' = reporting,
         payTopic' = payTopic, charged \subseteq charged', charged' \subseteq Txns
  PROVE  PayInv' /\ OpensOnlyWaiting
BY DEF PayInv, PayTypeOK, ReportsBacked, Reported, Published, RowsAgree, TxnsOf,
       OpensOnlyWaiting

-----------------------------------------------------------------------------
(* The invariant is inductive. *)

(* No row and no report is there at the start.                             *)
LEMMA PayInvInit == Init => PayInv
<1> SUFFICES ASSUME Init PROVE PayInv
  OBVIOUS
<1> USE DEF Init, PayInit
<1>1. PayTypeOK
  BY DEF PayTypeOK, Empty, MessageState
<1>2. ReportsBacked
  BY PayReports DEF ReportsBacked, Reported, Published, Empty
<1>3. RowsAgree
  BY DEF RowsAgree, TxnsOf, NoRow, Verdicts
<1> QED BY <1>1, <1>2, <1>3 DEF PayInv

(* Every step keeps the invariant, and opens only waiting payments.        *)
LEMMA PayInvStep == PayInv /\ [Next]_payVars => PayInv' /\ (OpensOnlyWaiting \/ UNCHANGED payVars)
<1> SUFFICES ASSUME PayInv, [Next]_payVars
             PROVE  PayInv' /\ (OpensOnlyWaiting \/ UNCHANGED payVars)
  OBVIOUS
<1>1. CASE UNCHANGED payVars
  BY <1>1, OtherStep DEF payVars, PayInv, PayTypeOK
<1>2. ASSUME NEW t \in Txns, NEW a \in Amounts, CreateTransaction(t, a) PROVE PayInv' /\ OpensOnlyWaiting
  BY <1>2, OpenStep
<1>3. ASSUME NEW t \in Txns, CreatePayment(t) PROVE PayInv' /\ OpensOnlyWaiting
  BY <1>3, OpenStep DEF CreatePayment
<1>4. ASSUME NEW t \in Txns, CancelTransaction(t) \/ CallbackSuccess(t) \/ CallbackFailed(t)
      PROVE  PayInv' /\ OpensOnlyWaiting
  BY <1>4, VerdictStep
<1>5. ASSUME NEW t \in Txns, Charge(t) PROVE PayInv' /\ OpensOnlyWaiting
  BY <1>5, OtherStep DEF Charge, PayInv, PayTypeOK
<1>6. ASSUME NEW e \in PayReport, PublishReport(e) \/ PublishFailed(e)
      PROVE  PayInv' /\ OpensOnlyWaiting
  BY <1>6, PublishStep
<1>7. ASSUME NEW r \in Requests, OrderInserted(r) PROVE PayInv' /\ OpensOnlyWaiting
  BY <1>7, OtherStep DEF OrderInserted, PayInv, PayTypeOK
<1> QED BY <1>1, <1>2, <1>3, <1>4, <1>5, <1>6, <1>7 DEF Next, PayNext, Call

(* The types, what backs a report and the agreement of the rows hold in    *)
(* every reachable state.                                                  *)
THEOREM PayInvariance == Spec => []PayInv
<1>1. Init => PayInv
  BY PayInvInit
<1>2. PayInv /\ [Next]_payVars => PayInv'
  BY PayInvStep
<1> QED BY <1>1, <1>2, PTL DEF Spec

(* The types hold in every reachable state.                                *)
THEOREM PayTypeCorrect == Spec => []PayTypeOK
BY PayInvariance, PTL DEF PayInv

(* The order service is told only of payments and cancellations that the   *)
(* database has committed, whatever dies or fails after the commit.        *)
THEOREM ReportsBackedSafe == Spec => []ReportsBacked
BY PayInvariance, PTL DEF PayInv

(* No transaction is reported both paid and cancelled, over all retries,   *)
(* redeliveries and races of cancel and callback.                          *)
THEOREM OneVerdictSafe == Spec => []OneVerdict
<1>1. PayInv => OneVerdict
  BY DEF PayInv, ReportsBacked, OneVerdict
<1> QED BY <1>1, PayInvariance, PTL

(* The rows of an order agree in every reachable state: no interleaving of *)
(* calls leaves payment_order and payment_transaction with two stories.    *)
THEOREM RowsAgreeSafe == Spec => []RowsAgree
BY PayInvariance, PTL DEF PayInv

(* No step opens a transaction on a payment order that has ended.          *)
THEOREM LateTransactionSafe == Spec => NoLateTransaction
<1>1. PayInv /\ [Next]_payVars => [OpensOnlyWaiting]_payVars
  BY PayInvStep
<1> QED BY <1>1, PayInvariance, PTL DEF Spec, NoLateTransaction
=============================================================================
