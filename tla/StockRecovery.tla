---------------------------- MODULE StockRecovery ----------------------------
(***************************************************************************)
(* PromotionStock in two phases: for as long as it likes, everything may   *)
(* fail; then the calls in progress end, the failures cease and stopped    *)
(* consumers are started again.  The stock that the failures have left     *)
(* behind must still be given back, and from then on none is lost.         *)
(***************************************************************************)
EXTENDS PromotionStock

VARIABLE calm     \* have the failures ceased

recoveryVars == <<stockVars, calm>>

(* What remains: redelivery, and writes and commits that fail.             *)
Quiet == INSTANCE PromotionStock WITH Faults <- {"rebalance", "duplicate", "writeLost"}

RInit == Init /\ calm = FALSE

Cease ==
  /\ ~ calm /\ calm' = TRUE
  /\ \A c \in Callers : caller[c] = IdleCaller
  /\ compensator' = [p \in Processes |-> IF compensator[p].pc = "stopped"
                                           THEN IdleCompensator ELSE compensator[p]]
  /\ UNCHANGED <<redisVars, compTopic, compensatorFrame>>

Calmly(A) == calm /\ A /\ UNCHANGED calm

RNext ==
  \/ ~ calm /\ Next /\ UNCHANGED calm
  \/ Cease
  \/ \E c \in Callers : \/ \E r \in Requests : Calmly(Quiet!Seckill(c, r))
                        \/ Calmly(Quiet!SeckillPublish(c)) \/ Calmly(Quiet!SeckillUndo(c))
  \/ \E p \in Processes : Calmly(Quiet!Compensate(p))
  \/ \E r \in Requests : Calmly(Quiet!CompensationAsked(r)) \/ Calmly(Quiet!MarkExpires(r))
  \/ \E u \in Users : Calmly(Quiet!LimitExpires(u))
  \/ Calmly(Quiet!Refresh) \/ Calmly(End) \/ Calmly(StockExpires)

(* The fairness of PromotionStock, once the failures have ceased.          *)
RSpec ==
  /\ RInit /\ [][RNext]_recoveryVars
  /\ \A p \in Processes : WF_recoveryVars(Calmly(Quiet!Compensate(p)))
  /\ \A r \in Requests :
       SF_recoveryVars(\E p \in Processes : Calmly(Quiet!CompensateFetch(p, r)))
  /\ \A c \in Callers :
       WF_recoveryVars(Calmly(Quiet!SeckillPublish(c)) \/ Calmly(Quiet!SeckillUndo(c)))
-----------------------------------------------------------------------------
(* Stock on offer and stock held.                                          *)
Accounted == stock.num + Total(Holding)

(* Once failures cease nothing is lost any more, and nothing is made up:   *)
(* while the key lives, every step of a purchase, of a failed publish and  *)
(* its undo, and of a compensation only moves stock between the counter    *)
(* and the requests that hold it.                                          *)
AccountKept == calm /\ Loaded /\ Loaded' => Accounted' = Accounted
StockConserved == [][AccountKept]_recoveryVars

(* Once failures cease, stock that was asked for is given back, while      *)
(* there is a key to give it back to.                                      *)
CompensationLands ==
  \A r \in Requests : calm /\ Published(compTopic, r) ~> marked[r] # "none" \/ ~ Loaded
=============================================================================
