--------------------------- MODULE RefundRecovery ---------------------------
(***************************************************************************)
(* The refunds of RefundService in two phases: for as long as it likes,    *)
(* everything may fail; then the failures cease and stopped consumers are  *)
(* started again.  From whatever the failures have left behind, every      *)
(* refund must still be made.                                              *)
(***************************************************************************)
EXTENDS RefundService

VARIABLE calm     \* have the failures ceased

recoveryVars == <<refundVars, calm>>

(* What remains: the channel accepts, reports are delivered again.         *)
Quiet == INSTANCE RefundService WITH Faults <- {"rebalance", "duplicate"}

RInit == Init /\ calm = FALSE

Cease ==
  /\ ~ calm /\ calm' = TRUE
  /\ refunder' = [p \in Processes |-> IF refunder[p].pc = "stopped"
                                        THEN IdleRefunder ELSE refunder[p]]
  /\ UNCHANGED <<refundTopic, refund, waiting, channel, task>>

Calmly(A) == calm /\ A /\ UNCHANGED calm

RNext ==
  \/ ~ calm /\ Next /\ UNCHANGED calm
  \/ Cease
  \/ \E p \in Processes : Calmly(Quiet!Consume(p)) \/ Calmly(Quiet!Batch(p))
  \/ \E t \in Txns : \/ Calmly(RetryDue(t)) \/ Calmly(Return(t))
                     \/ Calmly(Quiet!RefundRequested(t))

(* The fairness of RefundService, once the failures have ceased.           *)
RSpec ==
  /\ RInit /\ [][RNext]_recoveryVars
  /\ \A p \in Processes : /\ WF_recoveryVars(Calmly(Quiet!Consume(p)))
                          /\ WF_recoveryVars(Calmly(Quiet!Batch(p)))
  /\ \A t \in Txns :
       /\ SF_recoveryVars(\E p \in Processes : Calmly(Quiet!RefundFetch(p, t)))
       /\ WF_recoveryVars(Calmly(RetryDue(t)))
       /\ WF_recoveryVars(Calmly(Return(t)))
-----------------------------------------------------------------------------
(* Once failures cease, every refund that was asked for is made and        *)
(* recorded: a death or a failed call at any step of the consumer or of a  *)
(* batch loses none for good.                                              *)
RefundCompletes ==
  \A t \in Txns : calm /\ Published(refundTopic, t) ~> refund[t] = "SUCCESS"
=============================================================================
