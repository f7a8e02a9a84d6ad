------------------------ MODULE PromotionStockProofs ------------------------
(***************************************************************************)
(* Theorems about PromotionStock, for any requests, users, callers and     *)
(* processes, any stock and limit, and any set of faults.                  *)
(***************************************************************************)
EXTENDS StockRecovery, TLAPS, FiniteSetTheorems

USE PromotionAssumption

CompensatorState ==
  [pc : {"idle", "stopped"}, req : {NoRequest}] \cup [pc : {"script", "commit"}, req : Requests]

CallerState == {IdleCaller} \cup [pc : {"publish", "undo"}, req : Requests]

(* A limit key exists exactly while it counts something.                   *)
LimitKeyed == \A u \in Users : limitKey[u] = "none" <=> purchased[u] = 0

(* The variables that a script writes.                                     *)
RedisTypeOK ==
  /\ stock \in [key : KeyState, num : Nat]
  /\ purchased \in [Users -> Nat]
  /\ limitKey \in [Users -> KeyState]
  /\ LimitKeyed
  /\ marked \in [Requests -> KeyState]

TopicTypeOK ==
  createTopic \in [Requests -> MessageState] /\ compTopic \in [Requests -> MessageState]

-----------------------------------------------------------------------------
(* The scripts keep the types: no counter goes below zero, and a limit key *)
(* goes with the last purchase it counts.                                  *)
LEMMA SeckillScriptType ==
  ASSUME RedisTypeOK, NEW r \in Requests, SeckillScript(r)
  PROVE  RedisTypeOK' /\ marked' = marked
<1> DEFINE u == UserOf[r]
<1>1. u \in Users /\ Num[r] \in Nat \ {0}
  OBVIOUS
<1>2. stock' \in [key : KeyState, num : Nat]
  BY <1>1 DEF RedisTypeOK, SeckillScript
<1>3. PICK k \in KeyState \ {"none"} : limitKey' = [limitKey EXCEPT ![u] = k]
  <2>1. PICK positive \in PositiveTtl :
          limitKey' = [limitKey EXCEPT ![u] = IF positive THEN "ttl"
                                              ELSE IF @ = "none" THEN "persist" ELSE @]
    BY DEF SeckillScript
  <2> QED BY <2>1, <1>1 DEF RedisTypeOK, KeyState
<1>4. purchased' = [purchased EXCEPT ![u] = @ + Num[r]] /\ marked' = marked
  BY DEF SeckillScript
<1> QED BY <1>1, <1>2, <1>3, <1>4 DEF RedisTypeOK, LimitKeyed

LEMMA GiveBackType ==
  ASSUME RedisTypeOK, NEW r \in Requests, GiveBack(r), marked' \in [Requests -> KeyState]
  PROVE  RedisTypeOK'
<1> DEFINE u == UserOf[r]
           remaining == purchased[u] - Num[r]
<1>1. u \in Users /\ Num[r] \in Nat \ {0} /\ purchased[u] \in Nat
  BY DEF RedisTypeOK
<1>2. stock' \in [key : KeyState, num : Nat]
  BY <1>1 DEF RedisTypeOK, GiveBack
<1>3. /\ purchased' = [purchased EXCEPT ![u] = IF remaining > 0 THEN remaining ELSE 0]
      /\ limitKey' = [limitKey EXCEPT ![u] = IF remaining > 0 THEN @ ELSE "none"]
  BY DEF GiveBack
<1>4. purchased' \in [Users -> Nat] /\ limitKey' \in [Users -> KeyState]
  BY <1>1, <1>3 DEF RedisTypeOK, KeyState
<1>5. LimitKeyed'
  BY <1>1, <1>3 DEF RedisTypeOK, LimitKeyed
<1> QED BY <1>2, <1>4, <1>5 DEF RedisTypeOK

(* With its key a compensation is applied, or was before.                  *)
LEMMA KeyedScriptType ==
  ASSUME RedisTypeOK, NEW r \in Requests, KeyedScript(r)
  PROVE  /\ RedisTypeOK' /\ marked'[r] # "none"
         /\ \A q \in Requests : marked[q] # "none" => marked'[q] # "none"
<1>1. CASE marked[r] # "none" /\ UNCHANGED redisVars
  BY <1>1 DEF redisVars, RedisTypeOK, LimitKeyed
<1>2. CASE marked[r] = "none" /\ GiveBack(r)
             /\ \E positive \in PositiveTtl :
                  marked' = [marked EXCEPT ![r] = IF positive THEN "ttl" ELSE "persist"]
  <2>1. PICK k \in KeyState \ {"none"} : marked' = [marked EXCEPT ![r] = k]
    BY <1>2 DEF KeyState
  <2> QED BY <1>2, <2>1, GiveBackType DEF RedisTypeOK
<1> QED BY <1>1, <1>2 DEF KeyedScript

LEMMA SameRedis ==
  ASSUME RedisTypeOK, UNCHANGED redisVars
  PROVE  RedisTypeOK' /\ marked' = marked
BY DEF redisVars, RedisTypeOK, LimitKeyed

(* A topic keeps its type through every write and commit.                  *)
LEMMA TopicType ==
  ASSUME NEW topic \in [Requests -> MessageState], NEW r \in Requests
  PROVE  /\ Queue(topic, r) \in [Requests -> MessageState]
         /\ \A t \in FailedWrite(topic, r, Faults) : t \in [Requests -> MessageState]
         /\ \A t \in AfterCommit(topic, r, Faults) :
              /\ t \in [Requests -> MessageState]
              /\ \A q \in Requests : t[q] = "committed" => q = r \/ topic[q] = "committed"
BY DEF Queue, FailedWrite, AfterCommit, Committed, MessageState

-----------------------------------------------------------------------------
(* A consumer that is about to commit a compensation knows that it was     *)
(* applied; while the promotion is open nothing forgets that.              *)
CompensatorKnows ==
  phase = "open" =>
    \A p \in Processes : compensator[p].pc = "commit" => marked[compensator[p].req] # "none"

StockInv == StockTypeOK /\ CompensationApplied /\ CompensatorKnows

LEMMA TypeParts ==
  StockTypeOK <=> /\ phase \in {"open", "ending"}
                  /\ RedisTypeOK /\ TopicTypeOK
                  /\ submitted \subseteq Requests
                  /\ caller \in [Callers -> CallerState]
                  /\ compensator \in [Processes -> CompensatorState]
                  /\ refresher \in {"idle", "hset", "expire"}
BY DEF StockTypeOK, RedisTypeOK, LimitKeyed, TopicTypeOK, CallerState, CompensatorState

LEMMA TypeAfter ==
  ASSUME phase' \in {"open", "ending"}, RedisTypeOK', TopicTypeOK',
         submitted' \subseteq Requests, caller' \in [Callers -> CallerState],
         compensator' \in [Processes -> CompensatorState],
         refresher' \in {"idle", "hset", "expire"}
  PROVE  StockTypeOK'
BY DEF StockTypeOK, RedisTypeOK, LimitKeyed, TopicTypeOK, CallerState, CompensatorState

LEMMA StockInitInv == Init => StockInv
<1> SUFFICES ASSUME Init PROVE StockInv
  OBVIOUS
<1>1. StockTypeOK
  BY DEF Init, StockInit, StockTypeOK, KeyState, Empty, MessageState, IdleCompensator
<1>2. CompensationApplied /\ CompensatorKnows
  BY DEF Init, StockInit, CompensationApplied, CompensatorKnows, Empty, IdleCompensator
<1> QED BY <1>1, <1>2 DEF StockInv

(* Steps that leave the compensations alone, and the marks while the       *)
(* promotion is open, keep what is known of them.                          *)
LEMMA CompensationsStay ==
  ASSUME StockInv, StockTypeOK',
         phase' = "open" => phase = "open" /\ marked' = marked,
         UNCHANGED <<compTopic, compensator>>
  PROVE  StockInv'
BY DEF StockInv, CompensationApplied, CompensatorKnows

(* The same for marks that are only added.                                 *)
LEMMA MarksGrow ==
  ASSUME StockInv, StockTypeOK', UNCHANGED <<phase, compTopic>>,
         \A q \in Requests : marked[q] # "none" => marked'[q] # "none",
         NEW p \in Processes, NEW s \in CompensatorState,
         compensator' = [compensator EXCEPT ![p] = s],
         s.pc = "commit" => marked'[s.req] # "none"
  PROVE  StockInv'
<1>1. compensator \in [Processes -> CompensatorState]
  BY TypeParts DEF StockInv
<1>2. \A q \in Processes : compensator[q].pc = "commit" => compensator[q].req \in Requests
  BY <1>1 DEF CompensatorState
<1>3. CompensationApplied'
  BY DEF StockInv, CompensationApplied
<1>4. CompensatorKnows'
  BY <1>1, <1>2 DEF StockInv, CompensatorKnows
<1> QED BY <1>3, <1>4 DEF StockInv

LEMMA CallerSteps ==
  ASSUME StockInv, NEW c \in Callers,
         \/ \E r \in Requests : Seckill(c, r)
         \/ SeckillPublish(c) \/ SeckillUndo(c) \/ CallerDies(c)
  PROVE  StockInv'
<1>1. RedisTypeOK /\ TopicTypeOK /\ caller \in [Callers -> CallerState]
  BY TypeParts DEF StockInv
<1>2. \A r \in Requests, pc \in {"publish", "undo"} :
        Caller(c, pc, r) => caller' \in [Callers -> CallerState]
  BY <1>1 DEF Caller, CallerState
<1>3. CallerDone(c) => caller' \in [Callers -> CallerState]
  BY <1>1 DEF CallerDone, CallerState
<1>4. UNCHANGED <<phase, compTopic, compensator, refresher>>
  BY DEF Seckill, SeckillPublish, SeckillUndo, CallerDies, callerFrame
<1>5. ASSUME NEW r \in Requests, Seckill(c, r) PROVE StockInv'
  <2>1. SeckillScript(r) /\ submitted' = submitted \cup {r} /\ createTopic' = createTopic
        /\ caller' \in [Callers -> CallerState]
    BY <1>1, <1>2, <1>5 DEF Seckill
  <2>2. RedisTypeOK' /\ marked' = marked
    BY <1>1, <2>1, SeckillScriptType
  <2>3. StockTypeOK'
    BY <1>1, <1>4, <2>1, <2>2, TypeParts, TypeAfter DEF StockInv, TopicTypeOK
  <2> QED BY <1>4, <2>2, <2>3, CompensationsStay
<1>6. CASE SeckillPublish(c)
  <2>1. UNCHANGED <<redisVars, submitted>>
    BY <1>6 DEF SeckillPublish
  <2>2. caller[c].req \in Requests
    BY <1>1, <1>6 DEF SeckillPublish, CallerState, IdleCaller
  <2>3. createTopic' \in [Requests -> MessageState] /\ caller' \in [Callers -> CallerState]
    BY <1>1, <1>2, <1>3, <1>6, <2>2, TopicType DEF SeckillPublish, TopicTypeOK
  <2>4. RedisTypeOK' /\ marked' = marked
    BY <1>1, <2>1, SameRedis
  <2>5. StockTypeOK'
    BY <1>1, <1>4, <2>1, <2>3, <2>4, TypeParts, TypeAfter DEF StockInv, TopicTypeOK
  <2> QED BY <1>4, <2>4, <2>5, CompensationsStay
<1>7. CASE SeckillUndo(c)
  <2>1. caller[c].req \in Requests
    BY <1>1, <1>7 DEF SeckillUndo, CallerState, IdleCaller
  <2>2. RedisTypeOK' /\ marked' = marked
    <3>1. CASE UnkeyedScript(caller[c].req)
      <4>1. GiveBack(caller[c].req) /\ marked' = marked
        BY <3>1 DEF UnkeyedScript
      <4>2. marked' \in [Requests -> KeyState]
        BY <1>1, <4>1 DEF RedisTypeOK
      <4> QED BY <1>1, <2>1, <4>1, <4>2, GiveBackType
    <3>2. CASE UNCHANGED redisVars
      BY <1>1, <3>2, SameRedis
    <3> QED BY <1>7, <3>1, <3>2 DEF SeckillUndo
  <2>3. UNCHANGED <<submitted, createTopic>> /\ caller' \in [Callers -> CallerState]
    BY <1>3, <1>7 DEF SeckillUndo
  <2>4. StockTypeOK'
    BY <1>1, <1>4, <2>2, <2>3, TypeParts, TypeAfter DEF StockInv, TopicTypeOK
  <2> QED BY <1>4, <2>2, <2>4, CompensationsStay
<1>8. CASE CallerDies(c)
  <2>1. UNCHANGED <<redisVars, submitted, createTopic>> /\ caller' \in [Callers -> CallerState]
    BY <1>3, <1>8 DEF CallerDies
  <2>2. RedisTypeOK' /\ marked' = marked
    BY <1>1, <2>1, SameRedis
  <2>3. StockTypeOK'
    BY <1>1, <1>4, <2>1, <2>2, TypeParts, TypeAfter DEF StockInv, TopicTypeOK
  <2> QED BY <1>4, <2>2, <2>3, CompensationsStay
<1> QED BY <1>5, <1>6, <1>7, <1>8

LEMMA CompensatorSteps ==
  ASSUME StockInv, NEW p \in Processes, Compensate(p) \/ CompensatorRestart(p)
  PROVE  StockInv'
<1>1. RedisTypeOK /\ TopicTypeOK /\ compensator \in [Processes -> CompensatorState]
  BY TypeParts DEF StockInv
<1>2. UNCHANGED <<phase, submitted, createTopic, caller, refresher>>
  BY DEF Compensate, CompensateFetch, CompensateScript, CompensateCommit, CompensatorRestart,
         compensatorFrame
<1>3. ASSUME RedisTypeOK', TopicTypeOK', NEW s \in CompensatorState,
             compensator' = [compensator EXCEPT ![p] = s]
      PROVE  StockTypeOK'
  BY <1>1, <1>2, <1>3, TypeParts, TypeAfter DEF StockInv
<1>4. ASSUME UNCHANGED <<redisVars, compTopic>>, NEW s \in CompensatorState, s.pc # "commit",
             compensator' = [compensator EXCEPT ![p] = s]
      PROVE  StockInv'
  <2>1. RedisTypeOK' /\ TopicTypeOK' /\ marked' = marked
    BY <1>1, <1>2, <1>4, SameRedis DEF TopicTypeOK
  <2> QED BY <1>2, <1>3, <1>4, <2>1, MarksGrow
<1>5. IdleCompensator \in CompensatorState /\ IdleCompensator.pc # "commit"
  BY DEF IdleCompensator, CompensatorState
<1>6. PICK stopped \in CompensatorState :
        stopped.pc # "commit" /\ stopped = [pc |-> "stopped", req |-> NoRequest]
  BY DEF CompensatorState
<1>7. CASE CompensatorRestart(p)
  BY <1>4, <1>5, <1>7 DEF CompensatorRestart
<1>8. ASSUME NEW r \in Requests, CompensateFetch(p, r) PROVE StockInv'
  <2>1. [pc |-> "script", req |-> r] \in CompensatorState
    BY DEF CompensatorState
  <2> QED BY <1>4, <1>8, <2>1 DEF CompensateFetch
<1>9. CASE CompensateScript(p)
  <2> DEFINE r == compensator[p].req
  <2>1. r \in Requests /\ compensator[p] = [pc |-> "script", req |-> r]
    BY <1>1, <1>9 DEF CompensateScript, CompensatorState
  <2>2. compTopic' = compTopic /\ TopicTypeOK'
    BY <1>1, <1>2, <1>9 DEF CompensateScript, TopicTypeOK
  <2>3. ASSUME KeyedScript(r), NEW s \in CompensatorState, s.pc = "commit" => s.req = r,
               compensator' = [compensator EXCEPT ![p] = s]
        PROVE  StockInv'
    <3>1. /\ RedisTypeOK' /\ marked'[r] # "none"
          /\ \A q \in Requests : marked[q] # "none" => marked'[q] # "none"
      BY <1>1, <2>1, <2>3, KeyedScriptType
    <3> QED BY <1>2, <1>3, <2>2, <2>3, <3>1, MarksGrow
  <2>4. CASE KeyedScript(r) /\ compensator' = [compensator EXCEPT ![p].pc = "commit"]
    <3>1. [pc |-> "commit", req |-> r] \in CompensatorState
      BY <2>1 DEF CompensatorState
    <3>2. [compensator[p] EXCEPT !.pc = "commit"] = [pc |-> "commit", req |-> r]
      BY <2>1
    <3>3. compensator' = [compensator EXCEPT ![p] = [pc |-> "commit", req |-> r]]
      BY <2>4, <3>2
    <3> QED BY <2>3, <2>4, <3>1, <3>3
  <2>5. CASE (KeyedScript(r) \/ UNCHANGED redisVars) /\ CompensatorStop(p)
    BY <1>4, <1>6, <2>2, <2>3, <2>5 DEF CompensatorStop
  <2> QED BY <1>9, <2>4, <2>5 DEF CompensateScript
<1>10. CASE CompensateCommit(p)
  <2> DEFINE r == compensator[p].req
  <2>1. r \in Requests /\ compensator[p].pc = "commit" /\ UNCHANGED redisVars
    BY <1>1, <1>10 DEF CompensateCommit, CompensatorState
  <2>2. CASE compTopic' \in AfterCommit(compTopic, r, Faults)
               /\ compensator' = [compensator EXCEPT ![p] = IdleCompensator]
    <3>1. /\ TopicTypeOK'
          /\ \A q \in Requests : compTopic'[q] = "committed" => q = r \/ compTopic[q] = "committed"
      BY <1>1, <1>2, <2>1, <2>2, TopicType DEF TopicTypeOK
    <3>2. RedisTypeOK' /\ marked' = marked
      BY <1>1, <2>1, SameRedis
    <3>3. StockTypeOK'
      BY <1>3, <1>5, <2>2, <3>1, <3>2
    <3>4. CompensationApplied'
      BY <1>2, <2>1, <3>1, <3>2 DEF StockInv, CompensationApplied, CompensatorKnows
    <3>5. CompensatorKnows'
      BY <1>1, <1>2, <1>5, <2>2, <3>2 DEF StockInv, CompensatorKnows
    <3> QED BY <3>3, <3>4, <3>5 DEF StockInv
  <2>3. CASE CompensatorStop(p) /\ UNCHANGED compTopic
    BY <1>4, <1>6, <2>1, <2>3 DEF CompensatorStop
  <2> QED BY <1>10, <2>2, <2>3 DEF CompensateCommit
<1> QED BY <1>7, <1>8, <1>9, <1>10 DEF Compensate

LEMMA RefresherSteps ==
  ASSUME StockInv, Refresh \/ RefresherDies
  PROVE  StockInv'
<1>1. UNCHANGED refreshFrame /\ refresher' \in {"idle", "hset", "expire"}
  BY DEF Refresh, RefreshRead, RefreshHset, RefreshExpire, RefresherDies
<1>2. stock \in [key : KeyState, num : Nat]
  BY DEF StockInv, StockTypeOK
<1>3. stock' \in [key : KeyState, num : Nat]
  <2>1. CASE RefreshHset
    <3> DEFINE written == [key |-> IF Loaded THEN stock.key ELSE "persist", num |-> DbStock]
    <3>1. written \in [key : KeyState, num : Nat]
      BY <1>2 DEF KeyState
    <3>2. stock' \in {stock, written}
      BY <2>1 DEF RefreshHset
    <3> QED BY <1>2, <3>1, <3>2
  <2>2. CASE RefreshExpire
    BY <1>2, <2>2 DEF RefreshExpire, KeyState
  <2>3. CASE RefreshRead \/ RefresherDies
    BY <1>2, <2>3 DEF RefreshRead, RefresherDies
  <2> QED BY <2>1, <2>2, <2>3 DEF Refresh
<1>4. StockTypeOK'
  BY <1>1, <1>3 DEF StockInv, StockTypeOK, refreshFrame
<1> QED BY <1>1, <1>4, CompensationsStay DEF refreshFrame

LEMMA TimeSteps ==
  ASSUME StockInv,
         \/ End \/ StockExpires
         \/ \E u \in Users : LimitExpires(u)
         \/ \E r \in Requests : MarkExpires(r)
  PROVE  StockInv'
<1>1. UNCHANGED timeFrame
  BY DEF End, StockExpires, LimitExpires, MarkExpires
<1>2. phase' = "ending"
  BY DEF End, StockExpires, LimitExpires, MarkExpires
<1>3. StockTypeOK'
  <2>1. CASE End
    BY <2>1 DEF StockInv, StockTypeOK, End, redisVars, timeFrame
  <2>2. CASE StockExpires
    BY <2>2 DEF StockInv, StockTypeOK, StockExpires, timeFrame, KeyState
  <2>3. ASSUME NEW u \in Users, LimitExpires(u) PROVE StockTypeOK'
    BY <2>3 DEF StockInv, StockTypeOK, LimitExpires, timeFrame, KeyState
  <2>4. ASSUME NEW r \in Requests, MarkExpires(r) PROVE StockTypeOK'
    BY <2>4 DEF StockInv, StockTypeOK, MarkExpires, timeFrame, KeyState
  <2> QED BY <2>1, <2>2, <2>3, <2>4
<1> QED BY <1>1, <1>2, <1>3, CompensationsStay DEF timeFrame

(* What the order service may do to the topics it shares with the stock: it*)
(* acknowledges orders, and asks for the stock of orders it was sent.      *)
NeighbourMoves ==
  /\ UNCHANGED <<phase, redisVars, submitted, caller, compensator, refresher>>
  /\ TopicTypeOK'
  /\ \A r \in Requests : compTopic'[r] \in {compTopic[r], "queued"}

OrdersMove ==
  /\ NeighbourMoves
  /\ \A r \in Requests :
       /\ Published(createTopic', r) <=> Published(createTopic, r)
       /\ compTopic'[r] # compTopic[r] => Published(createTopic, r)

LEMMA AskedMoves ==
  ASSUME TopicTypeOK, NEW r \in Requests, CompensationAsked(r)
  PROVE  OrdersMove
BY DEF TopicTypeOK, CompensationAsked, OrdersMove, NeighbourMoves, Queue, MessageState, compensatorFrame

LEMMA NeighbourMovesStock ==
  ASSUME StockInv, NeighbourMoves
  PROVE  StockInv'
<1>1. RedisTypeOK /\ UNCHANGED <<phase, redisVars, submitted, caller, compensator, refresher>>
  BY TypeParts DEF StockInv, NeighbourMoves
<1>2. RedisTypeOK' /\ marked' = marked
  BY <1>1, SameRedis
<1>3. TopicTypeOK' /\ \A q \in Requests : compTopic'[q] = "committed" => compTopic[q] = "committed"
  BY TypeParts DEF NeighbourMoves, StockInv
<1>4. StockTypeOK'
  BY <1>1, <1>2, <1>3, TypeParts, TypeAfter DEF StockInv
<1>5. CompensationApplied' /\ CompensatorKnows'
  BY <1>1, <1>2, <1>3 DEF StockInv, CompensationApplied, CompensatorKnows
<1> QED BY <1>4, <1>5 DEF StockInv

LEMMA StockStepInv == StockInv /\ [Next]_stockVars => StockInv'
<1> SUFFICES ASSUME StockInv, [Next]_stockVars PROVE StockInv'
  OBVIOUS
<1>1. CASE UNCHANGED stockVars
  BY <1>1 DEF stockVars, redisVars, StockInv, StockTypeOK, CompensationApplied, CompensatorKnows
<1>2. CASE Next
  <2>1. ASSUME NEW r \in Requests, CompensationAsked(r) PROVE StockInv'
    BY <2>1, AskedMoves, NeighbourMovesStock, TypeParts DEF StockInv, OrdersMove
  <2> QED BY <1>2, <2>1, CallerSteps, CompensatorSteps, RefresherSteps, TimeSteps
          DEF Next, StockNext
<1> QED BY <1>1, <1>2

(* Seen from the order service: the stock's own steps only add orders, and *)
(* acknowledge compensations that were written, whatever fails.            *)
Handed ==
  \A p \in Processes :
    compensator[p].req \in Requests => Published(compTopic, compensator[p].req)

LEMMA TopicsForward ==
  ASSUME StockInv, Handed, StockNext
  PROVE  /\ \A r \in Requests : createTopic'[r] \in {createTopic[r], "queued"}
         /\ \A r \in Requests : Published(compTopic', r) <=> Published(compTopic, r)
<1>1. TopicTypeOK /\ \A p \in Processes : compensator[p].pc = "commit" =>
                       compensator[p].req \in Requests /\ Published(compTopic, compensator[p].req)
  BY TypeParts DEF StockInv, CompensatorState, Handed
<1>2. ASSUME NEW c \in Callers, SeckillPublish(c)
      PROVE  /\ compTopic' = compTopic
             /\ \A r \in Requests : createTopic'[r] \in {createTopic[r], "queued"}
  BY <1>1, <1>2 DEF SeckillPublish, Queue, FailedWrite, TopicTypeOK, callerFrame
<1>3. ASSUME NEW p \in Processes, CompensateCommit(p)
      PROVE  /\ createTopic' = createTopic
             /\ \A r \in Requests : Published(compTopic', r) <=> Published(compTopic, r)
  BY <1>1, <1>3 DEF CompensateCommit, AfterCommit, Committed, Published, TopicTypeOK,
                    MessageState, compensatorFrame
<1>4. CASE UNCHANGED <<createTopic, compTopic>>
  BY <1>4
<1>5. \/ UNCHANGED <<createTopic, compTopic>>
      \/ \E c \in Callers : SeckillPublish(c)
      \/ \E p \in Processes : CompensateCommit(p)
  BY DEF StockNext, Seckill, SeckillUndo, CallerDies, callerFrame, Compensate, CompensateFetch,
         CompensateScript, CompensatorRestart, compensatorFrame, Refresh, RefreshRead,
         RefreshHset, RefreshExpire, RefresherDies, refreshFrame, End, StockExpires,
         LimitExpires, MarkExpires, timeFrame
<1> QED BY <1>2, <1>3, <1>4, <1>5

(* A consumer takes up what is queued and keeps it until it lets go of it. *)
LEMMA HandedStep ==
  ASSUME StockInv, Handed, StockNext
  PROVE  Handed'
<1>t. compensator \in [Processes -> CompensatorState]
  BY TypeParts DEF StockInv
<1>1. \A r \in Requests : Published(compTopic', r) <=> Published(compTopic, r)
  BY TopicsForward
<1>2. ASSUME NEW p \in Processes, Compensate(p) \/ CompensatorRestart(p)
      PROVE  \A q \in Processes :
               \/ compensator'[q].req \in {compensator[q].req, NoRequest}
               \/ Published(compTopic, compensator'[q].req)
  <2>1. ASSUME NEW s, compensator' = [compensator EXCEPT ![p] = s],
               s.req \in {compensator[p].req, NoRequest} \/ Published(compTopic, s.req)
        PROVE  \A q \in Processes :
                 \/ compensator'[q].req \in {compensator[q].req, NoRequest}
                 \/ Published(compTopic, compensator'[q].req)
    BY <1>t, <2>1
  <2>2. ASSUME NEW r \in Requests, CompensateFetch(p, r)
        PROVE  /\ compensator' = [compensator EXCEPT ![p] = [pc |-> "script", req |-> r]]
               /\ Published(compTopic, r)
    BY <2>2 DEF CompensateFetch, Published
  <2>3. CompensateScript(p) \/ CompensateCommit(p) \/ CompensatorRestart(p) =>
          \/ compensator' = [compensator EXCEPT ![p] = [pc |-> "idle", req |-> NoRequest]]
          \/ compensator' = [compensator EXCEPT ![p] = [pc |-> "stopped", req |-> NoRequest]]
          \/ compensator' = [compensator EXCEPT ![p].pc = "commit"]
    BY DEF CompensateScript, CompensateCommit, CompensatorStop, CompensatorRestart, IdleCompensator
  <2>4. CASE compensator' = [compensator EXCEPT ![p].pc = "commit"]
    BY <1>t, <2>4 DEF CompensatorState
  <2> QED BY <1>2, <2>1, <2>2, <2>3, <2>4 DEF Compensate
<1>3. \/ compensator' = compensator
      \/ \E p \in Processes : Compensate(p) \/ CompensatorRestart(p)
  BY DEF StockNext, Seckill, SeckillPublish, SeckillUndo, CallerDies, callerFrame, Refresh,
         RefreshRead, RefreshHset, RefreshExpire, RefresherDies, refreshFrame, End,
         StockExpires, LimitExpires, MarkExpires, timeFrame
<1>4. \A p \in Processes :
        \/ compensator'[p].req \in {compensator[p].req, NoRequest}
        \/ Published(compTopic, compensator'[p].req)
  BY <1>2, <1>3
<1> QED BY <1>1, <1>4 DEF Handed

LEMMA StockAlways == Spec => []StockInv
BY StockInitInv, StockStepInv, PTL DEF Spec

(* The counters and keys in Redis, the topics and the activities have      *)
(* their types: in particular no counter falls below zero.                 *)
THEOREM StockTypeCorrect == Spec => []StockTypeOK
<1>1. StockInv => StockTypeOK
  BY DEF StockInv
<1> QED BY <1>1, StockAlways, PTL

(* A compensation is acknowledged only after its stock was given back,     *)
(* whatever dies, fails or is delivered to several processes.              *)
THEOREM CompensationSafe == Spec => []CompensationApplied
<1>1. StockInv => CompensationApplied
  BY DEF StockInv
<1> QED BY <1>1, StockAlways, PTL

-----------------------------------------------------------------------------
(* Sums: the pieces of a set of requests.                                  *)
LEMMA UnitsAdd ==
  ASSUME NEW S, NEW r
  PROVE  Units(S \cup {r}) = Units(S) \cup ({r} \X (1 .. Num[r]))
BY DEF Units

LEMMA UnitsSubset ==
  ASSUME NEW S, NEW T, S \subseteq T
  PROVE  Units(S) \subseteq Units(T)
BY DEF Units

LEMMA TotalEmpty == IsFiniteSet(Units({})) /\ Total({}) = 0
<1>1. Units({}) = {}
  BY DEF Units
<1> QED BY <1>1, FS_EmptySet DEF Total

(* Fewer requests take no more.                                            *)
LEMMA TotalSubset ==
  ASSUME NEW S, NEW T, S \subseteq T, IsFiniteSet(Units(T))
  PROVE  IsFiniteSet(Units(S)) /\ Total(S) \in Nat /\ Total(T) \in Nat /\ Total(S) <= Total(T)
<1>1. Units(S) \in SUBSET Units(T)
  BY UnitsSubset
<1>2. IsFiniteSet(Units(S)) /\ Cardinality(Units(S)) <= Cardinality(Units(T))
  BY <1>1, FS_Subset
<1> QED BY <1>2, FS_CardinalityType DEF Total

(* One more request takes the number of pieces it names.                   *)
LEMMA TotalAdd ==
  ASSUME NEW S, NEW r \in Requests, r \notin S, IsFiniteSet(Units(S))
  PROVE  IsFiniteSet(Units(S \cup {r})) /\ Total(S \cup {r}) = Total(S) + Num[r]
<1> DEFINE own == {r} \X (1 .. Num[r])
<1>1. Num[r] \in Nat \ {0}
  OBVIOUS
<1>2. IsFiniteSet({r}) /\ Cardinality({r}) = 1
  BY FS_Singleton
<1>3. IsFiniteSet(1 .. Num[r]) /\ Cardinality(1 .. Num[r]) = Num[r]
  BY <1>1, FS_Interval
<1>4. IsFiniteSet(own) /\ Cardinality(own) = Num[r]
  <2>1. /\ IsFiniteSet({r} \X (1 .. Num[r]))
        /\ Cardinality({r} \X (1 .. Num[r])) = Cardinality({r}) * Cardinality(1 .. Num[r])
    BY <1>2, <1>3, FS_Product
  <2> QED BY <1>1, <1>2, <1>3, <2>1
<1>5. Units(S) \cap own = {}
  BY DEF Units
<1>6. Cardinality(Units(S) \cap own) = 0
  BY <1>5, FS_EmptySet
<1>7. Cardinality(Units(S)) \in Nat
  BY FS_CardinalityType
<1> HIDE DEF own
<1>8. /\ IsFiniteSet(Units(S) \cup own)
      /\ Cardinality(Units(S) \cup own) = Cardinality(Units(S)) + Num[r]
  BY <1>1, <1>4, <1>6, <1>7, FS_Union
<1> QED BY <1>8, UnitsAdd DEF Total, own

LEMMA TotalRemove ==
  ASSUME NEW S, NEW r \in Requests, r \in S, IsFiniteSet(Units(S))
  PROVE  Total(S) = Total(S \ {r}) + Num[r]
<1>1. IsFiniteSet(Units(S \ {r}))
  BY TotalSubset
<1>2. (S \ {r}) \cup {r} = S
  OBVIOUS
<1> QED BY <1>1, <1>2, TotalAdd

LEMMA OfUserAdd ==
  ASSUME NEW S, NEW r \in Requests, NEW u
  PROVE  OfUser(u, S \cup {r}) = IF UserOf[r] = u THEN OfUser(u, S) \cup {r} ELSE OfUser(u, S)
BY DEF OfUser

LEMMA OfUserSubset ==
  ASSUME NEW S, NEW T, S \subseteq T, NEW u
  PROVE  OfUser(u, S) \subseteq OfUser(u, T) /\ OfUser(u, T) \subseteq T
BY DEF OfUser

-----------------------------------------------------------------------------
(* n pieces on offer and what each user has bought leave room for the      *)
(* requests of S.                                                          *)
Fits(n, bought, S) ==
  /\ n + Total(S) <= DbStock
  /\ \A u \in Users : bought[u] >= Total(OfUser(u, S))

(* The requests of S take no more than there is, and than users may have.  *)
Within(S) ==
  /\ Total(S) <= DbStock
  /\ Limit > 0 => \A u \in Users : Total(OfUser(u, S)) <= Limit

LEMMA SubsetTotals ==
  ASSUME NEW S, NEW T, S \subseteq T, IsFiniteSet(Units(T))
  PROVE  /\ Total(S) \in Nat /\ Total(T) \in Nat /\ Total(S) <= Total(T)
         /\ \A u : /\ Total(OfUser(u, S)) \in Nat /\ Total(OfUser(u, T)) \in Nat
                   /\ Total(OfUser(u, S)) <= Total(OfUser(u, T))
<1>1. Total(S) \in Nat /\ Total(T) \in Nat /\ Total(S) <= Total(T)
  BY TotalSubset
<1>2. ASSUME NEW u
      PROVE  /\ Total(OfUser(u, S)) \in Nat /\ Total(OfUser(u, T)) \in Nat
             /\ Total(OfUser(u, S)) <= Total(OfUser(u, T))
  <2>1. OfUser(u, S) \subseteq OfUser(u, T) /\ OfUser(u, T) \subseteq T
    BY OfUserSubset
  <2>2. IsFiniteSet(Units(OfUser(u, T)))
    BY <2>1, TotalSubset
  <2> QED BY <2>1, <2>2, TotalSubset
<1> QED BY <1>1, <1>2

LEMMA FitsSubset ==
  ASSUME NEW S, NEW T, S \subseteq T, IsFiniteSet(Units(T)),
         NEW n \in Nat, NEW bought \in [Users -> Nat], Fits(n, bought, T)
  PROVE  Fits(n, bought, S)
BY SubsetTotals DEF Fits

LEMMA WithinSubset ==
  ASSUME NEW S, NEW T, S \subseteq T, IsFiniteSet(Units(T)), Within(T)
  PROVE  Within(S)
<1>1. Total(S) <= DbStock
  BY SubsetTotals DEF Within
<1>2. ASSUME Limit > 0, NEW u \in Users PROVE Total(OfUser(u, S)) <= Limit
  BY <1>2, SubsetTotals DEF Within
<1> QED BY <1>1, <1>2 DEF Within

(* What fits is within the bounds, as long as the counts of the users are. *)
LEMMA FitsWithin ==
  ASSUME NEW S, NEW T, S \subseteq T, IsFiniteSet(Units(T)),
         NEW n \in Nat, NEW bought \in [Users -> Nat], Fits(n, bought, T),
         Limit > 0 => \A u \in Users : bought[u] <= Limit
  PROVE  Within(S)
BY SubsetTotals DEF Fits, Within

(* A request that takes its pieces, and counts them.                       *)
LEMMA FitsTake ==
  ASSUME NEW S, NEW r \in Requests, r \notin S, IsFiniteSet(Units(S)),
         NEW n \in Nat, n >= Num[r], NEW bought \in [Users -> Nat], Fits(n, bought, S)
  PROVE  Fits(n - Num[r], [bought EXCEPT ![UserOf[r]] = @ + Num[r]], S \cup {r})
<1>1. UserOf[r] \in Users /\ Num[r] \in Nat
  OBVIOUS
<1>2. Total(S \cup {r}) = Total(S) + Num[r] /\ Total(S) \in Nat
  BY TotalAdd, TotalSubset
<1>3. ASSUME NEW u \in Users
      PROVE  [bought EXCEPT ![UserOf[r]] = @ + Num[r]][u] >= Total(OfUser(u, S \cup {r}))
  <2>1. IsFiniteSet(Units(OfUser(u, S))) /\ Total(OfUser(u, S)) \in Nat
    BY OfUserSubset, TotalSubset
  <2>2. bought[u] \in Nat /\ bought[u] >= Total(OfUser(u, S))
    BY DEF Fits
  <2>3. CASE UserOf[r] # u
    BY <1>1, <2>2, <2>3, OfUserAdd
  <2>4. CASE UserOf[r] = u
    <3>1. OfUser(u, S \cup {r}) = OfUser(u, S) \cup {r} /\ r \notin OfUser(u, S)
      BY <2>4, OfUserAdd DEF OfUser
    <3>2. Total(OfUser(u, S \cup {r})) = Total(OfUser(u, S)) + Num[r]
      BY <2>1, <3>1, TotalAdd
    <3> QED BY <1>1, <2>1, <2>2, <2>4, <3>2
  <2> QED BY <2>3, <2>4
<1>4. n - Num[r] + Total(S \cup {r}) <= DbStock
  BY <1>1, <1>2 DEF Fits
<1> QED BY <1>3, <1>4 DEF Fits

(* A request that gives them back.  The count does not fall below zero,    *)
(* because it covered the request.                                         *)
LEMMA FitsGive ==
  ASSUME NEW S, NEW r \in Requests, r \in S, IsFiniteSet(Units(S)),
         NEW n \in Nat, NEW bought \in [Users -> Nat], Fits(n, bought, S)
  PROVE  Fits(n + Num[r],
              [bought EXCEPT ![UserOf[r]] = IF bought[UserOf[r]] - Num[r] > 0
                                              THEN bought[UserOf[r]] - Num[r] ELSE 0],
              S \ {r})
<1> DEFINE left == [bought EXCEPT ![UserOf[r]] = IF bought[UserOf[r]] - Num[r] > 0
                                                   THEN bought[UserOf[r]] - Num[r] ELSE 0]
<1>1. UserOf[r] \in Users /\ Num[r] \in Nat
  OBVIOUS
<1>2. Total(S) = Total(S \ {r}) + Num[r] /\ Total(S \ {r}) \in Nat
  BY TotalRemove, TotalSubset
<1>3. ASSUME NEW u \in Users
      PROVE  left[u] >= Total(OfUser(u, S \ {r}))
  <2>1. /\ IsFiniteSet(Units(OfUser(u, S))) /\ Total(OfUser(u, S)) \in Nat
        /\ Total(OfUser(u, S \ {r})) \in Nat
        /\ Total(OfUser(u, S \ {r})) <= Total(OfUser(u, S))
    BY OfUserSubset, TotalSubset, SubsetTotals
  <2>2. bought[u] \in Nat /\ bought[u] >= Total(OfUser(u, S))
    BY DEF Fits
  <2>3. CASE UserOf[r] # u
    BY <1>1, <2>1, <2>2, <2>3
  <2>4. CASE UserOf[r] = u
    <3>1. OfUser(u, S \ {r}) = OfUser(u, S) \ {r} /\ r \in OfUser(u, S)
      BY <2>4 DEF OfUser
    <3>2. Total(OfUser(u, S)) = Total(OfUser(u, S \ {r})) + Num[r]
      BY <2>1, <3>1, TotalRemove
    <3> QED BY <1>1, <2>1, <2>2, <2>4, <3>2
  <2> QED BY <2>3, <2>4
<1>4. n + Num[r] + Total(S \ {r}) <= DbStock
  BY <1>1, <1>2 DEF Fits
<1> QED BY <1>3, <1>4 DEF Fits

-----------------------------------------------------------------------------
(* Where the stock is safe: no caller repeats a request, the stock is not  *)
(* refreshed while it is sold, a publish that failed has published         *)
(* nothing, and no key expires before the stock's.                         *)
Sheltered == Faults \cap {"retry", "refresh", "writeUnknown", "rounding"} = {}

(* Requests whose order stands or may yet be placed.                       *)
Sold == Standing \cup InHand

(* A request is sent before its order is placed, that before its stock is  *)
(* asked for, and that before it is given back.                            *)
Ordered ==
  /\ \A r \in Requests : /\ Published(createTopic, r) => r \in submitted
                         /\ Published(compTopic, r) => Published(createTopic, r)
                         /\ marked[r] # "none" => Published(compTopic, r)
  /\ \A p \in Processes :
       compensator[p].req \in Requests => Published(compTopic, compensator[p].req)

(* A request is in one caller's hands at most, and then not placed.        *)
CallersApart ==
  \A c \in Callers : caller[c].pc # "idle" =>
    /\ caller[c].req \in submitted /\ ~ Published(createTopic, caller[c].req)
    /\ \A d \in Callers : caller[d].req = caller[c].req => d = c

(* The stock is written once, before anything is sold.                     *)
LoadedOnce == refresher = "hset" => ~ Loaded /\ submitted = {}

LimitKept == Limit > 0 => \A u \in Users : purchased[u] <= Limit

(* The bounds hold while there is a key because it covers what is held;    *)
(* once it has expired nothing more is sold.                               *)
Ledger ==
  /\ IsFiniteSet(Units(submitted))
  /\ Ordered /\ CallersApart /\ LoadedOnce /\ LimitKept
  /\ StockCovered /\ Within(Sold)

LedgerInv == StockInv /\ Ledger

LEMMA LedgerTypes ==
  ASSUME LedgerInv
  PROVE  /\ RedisTypeOK /\ TopicTypeOK /\ submitted \subseteq Requests
         /\ stock.num \in Nat /\ purchased \in [Users -> Nat]
         /\ caller \in [Callers -> CallerState]
         /\ compensator \in [Processes -> CompensatorState]
         /\ \A c \in Callers : caller[c].pc # "idle" => caller[c].req \in Requests
         /\ \A c \in Callers : caller[c].pc = "idle" => caller[c].req = NoRequest
<1>1. /\ RedisTypeOK /\ TopicTypeOK /\ submitted \subseteq Requests
      /\ caller \in [Callers -> CallerState]
      /\ compensator \in [Processes -> CompensatorState]
  BY TypeParts DEF LedgerInv, StockInv
<1>2. stock.num \in Nat /\ purchased \in [Users -> Nat]
  BY <1>1 DEF RedisTypeOK
<1>3. ASSUME NEW c \in Callers
      PROVE  /\ caller[c].pc # "idle" => caller[c].req \in Requests
             /\ caller[c].pc = "idle" => caller[c].req = NoRequest
  BY <1>1 DEF CallerState, IdleCaller
<1> QED BY <1>1, <1>2, <1>3

(* What is sold is held, and what is held was sent.                        *)
LEMMA HeldSent ==
  ASSUME LedgerInv
  PROVE  /\ Sold \subseteq Holding /\ Holding \subseteq submitted
         /\ InHand \subseteq Holding
         /\ IsFiniteSet(Units(Holding)) /\ IsFiniteSet(Units(Sold))
<1>1. InHand \subseteq submitted
  BY LedgerTypes DEF LedgerInv, Ledger, CallersApart, InHand
<1>2. Sold \subseteq Holding /\ InHand \subseteq Holding
  BY DEF LedgerInv, Ledger, Ordered, Sold, Standing, Holding
<1>3. Holding \subseteq submitted
  BY <1>1 DEF LedgerInv, Ledger, Ordered, Holding
<1>4. IsFiniteSet(Units(Holding))
  BY <1>3, TotalSubset DEF LedgerInv, Ledger
<1>5. IsFiniteSet(Units(Sold))
  BY <1>2, <1>4, TotalSubset
<1> QED BY <1>1, <1>2, <1>3, <1>4, <1>5

LEMMA CoveredFits == StockCovered <=> (Loaded => Fits(stock.num, purchased, Holding))
BY DEF StockCovered, Fits

(* A step that only lets requests go.                                      *)
LEMMA LetGo ==
  ASSUME LedgerInv, Holding' \subseteq Holding,
         Loaded' => Loaded /\ stock'.num = stock.num /\ purchased' = purchased
  PROVE  StockCovered'
<1>1. CASE Loaded'
  <2>1. Fits(stock.num, purchased, Holding)
    BY <1>1, CoveredFits DEF LedgerInv, Ledger
  <2>2. Fits(stock.num, purchased, Holding')
    BY <2>1, FitsSubset, HeldSent, LedgerTypes
  <2> QED BY <1>1, <2>2 DEF StockCovered, Fits
<1>2. CASE ~ Loaded'
  BY <1>2 DEF StockCovered
<1> QED BY <1>1, <1>2

LEMMA StillWithin ==
  ASSUME LedgerInv, Sold' \subseteq Sold
  PROVE  Within(Sold)'
<1>1. Within(Sold')
  BY HeldSent, WithinSubset DEF LedgerInv, Ledger
<1> QED BY <1>1 DEF Within, OfUser, Total, Units

-----------------------------------------------------------------------------
(* What each step does to the requests that are held and sold.             *)
LEMMA InHandAfter ==
  ASSUME LedgerInv, NEW c \in Callers, NEW s \in CallerState,
         caller' = [caller EXCEPT ![c] = s]
  PROVE  /\ caller[c].pc = "idle" /\ s.pc # "idle" => InHand' = InHand \cup {s.req}
         /\ s.req = caller[c].req => InHand' = InHand
         /\ caller[c].pc # "idle" /\ s.pc = "idle" => InHand' = InHand \ {caller[c].req}
<1>1. /\ caller'[c] = s /\ \A d \in Callers : d # c => caller'[d] = caller[d]
  BY LedgerTypes
<1>2. /\ \A d \in Callers : caller[d].pc = "idle" => caller[d].req = NoRequest
      /\ \A d \in Callers : caller[d].pc # "idle" => caller[d].req \in Requests
  BY LedgerTypes
<1>3. /\ s.pc = "idle" => s.req = NoRequest
      /\ s.pc # "idle" => s.req \in Requests
  BY DEF CallerState, IdleCaller
<1>4. ASSUME caller[c].pc = "idle", s.pc # "idle" PROVE InHand' = InHand \cup {s.req}
  <2>1. caller[c].req = NoRequest /\ s.req # NoRequest
    BY <1>2, <1>3, <1>4
  <2> QED BY <1>1, <2>1 DEF InHand
<1>5. ASSUME s.req = caller[c].req PROVE InHand' = InHand
  <2>1. \A d \in Callers : caller'[d].req = caller[d].req
    BY <1>1, <1>5
  <2> QED BY <2>1 DEF InHand
<1>6. ASSUME caller[c].pc # "idle", s.pc = "idle" PROVE InHand' = InHand \ {caller[c].req}
  <2>1. \A d \in Callers : d # c => caller[d].req # caller[c].req
    BY <1>6 DEF LedgerInv, Ledger, CallersApart
  <2> QED BY <1>1, <1>2, <1>3, <1>6, <2>1 DEF InHand
<1> QED BY <1>4, <1>5, <1>6

LEMMA TakeHolds ==
  ASSUME LedgerInv, NEW c \in Callers, NEW r \in Requests, caller[c].pc = "idle",
         r \notin submitted, Caller(c, "publish", r), UNCHANGED <<createTopic, marked>>
  PROVE  r \notin Holding /\ Holding' = Holding \cup {r}
<1>1. [pc |-> "publish", req |-> r] \in CallerState
  BY DEF CallerState
<1>2. InHand' = InHand \cup {r}
  BY <1>1, InHandAfter DEF Caller
<1> QED BY <1>2, HeldSent DEF Holding

LEMMA PublishHolds ==
  ASSUME LedgerInv, NEW c \in Callers, caller[c].pc = "publish",
         \/ createTopic' = Queue(createTopic, caller[c].req) /\ CallerDone(c)
         \/ createTopic' = createTopic /\ Caller(c, "undo", caller[c].req),
         UNCHANGED <<compTopic, marked>>
  PROVE  Holding' = Holding /\ Sold' = Sold
<1> DEFINE r == caller[c].req
<1>1. r \in Requests /\ ~ Published(createTopic, r) /\ r \in InHand
  BY LedgerTypes DEF LedgerInv, Ledger, CallersApart, InHand
<1>2. marked[r] = "none" /\ ~ Published(compTopic, r)
  BY <1>1 DEF LedgerInv, Ledger, Ordered
<1>3. CASE createTopic' = createTopic /\ Caller(c, "undo", r)
  <2>1. [pc |-> "undo", req |-> r] \in CallerState
    BY <1>1 DEF CallerState
  <2>2. InHand' = InHand
    BY <1>3, <2>1, InHandAfter DEF Caller
  <2> QED BY <1>3, <2>2 DEF Holding, Sold, Standing
<1>4. CASE createTopic' = Queue(createTopic, r) /\ CallerDone(c)
  <2>1. IdleCaller \in CallerState /\ IdleCaller.pc = "idle"
    BY DEF CallerState, IdleCaller
  <2>2. InHand' = InHand \ {r}
    BY <1>4, <2>1, InHandAfter DEF CallerDone
  <2>3. \A q \in Requests : Published(createTopic', q) <=> Published(createTopic, q) \/ q = r
    BY <1>1, <1>4, LedgerTypes DEF Queue, Published, TopicTypeOK
  <2>4. Holding' = Holding
    BY <1>1, <1>2, <2>2, <2>3 DEF Holding
  <2>5. Sold' = Sold
    BY <1>1, <1>2, <2>2, <2>3 DEF Sold, Standing
  <2> QED BY <2>4, <2>5
<1> QED BY <1>3, <1>4

(* A call that ends lets its request go.                                   *)
LEMMA DoneHolds ==
  ASSUME LedgerInv, NEW c \in Callers, CallerDone(c),
         UNCHANGED <<createTopic, compTopic, marked>>
  PROVE  /\ caller[c].pc # "idle" => /\ caller[c].req \in Holding
                                     /\ Holding' = Holding \ {caller[c].req}
         /\ Holding' \subseteq Holding /\ Sold' \subseteq Sold
<1>1. IdleCaller \in CallerState /\ IdleCaller.pc = "idle" /\ IdleCaller.req = NoRequest
  BY DEF CallerState, IdleCaller
<1>2. CASE caller[c].pc = "idle"
  <2>1. InHand' = InHand
    BY <1>1, <1>2, InHandAfter, LedgerTypes DEF CallerDone
  <2> QED BY <1>2, <2>1 DEF Holding, Sold, Standing
<1>3. CASE caller[c].pc # "idle"
  <2> DEFINE r == caller[c].req
  <2>1. r \in Requests /\ ~ Published(createTopic, r) /\ r \in InHand
    BY <1>3, LedgerTypes DEF LedgerInv, Ledger, CallersApart, InHand
  <2>2. InHand' = InHand \ {r}
    BY <1>1, <1>3, InHandAfter DEF CallerDone
  <2> QED BY <2>1, <2>2 DEF Holding, Sold, Standing
<1> QED BY <1>2, <1>3

(* A compensation that is marked lets its request go.                      *)
LEMMA MarkHolds ==
  ASSUME LedgerInv, NEW p \in Processes, compensator[p].pc = "script",
         marked[compensator[p].req] = "none",
         NEW k \in KeyState \ {"none"}, marked' = [marked EXCEPT ![compensator[p].req] = k],
         UNCHANGED <<createTopic, caller>>
  PROVE  compensator[p].req \in Holding /\ Holding' = Holding \ {compensator[p].req}
<1> DEFINE r == compensator[p].req
<1>1. r \in Requests
  BY LedgerTypes DEF CompensatorState
<1>2. Published(createTopic, r)
  BY <1>1 DEF LedgerInv, Ledger, Ordered
<1>3. r \notin InHand
  BY <1>1, <1>2, LedgerTypes DEF LedgerInv, Ledger, CallersApart, InHand
<1>4. InHand' = InHand
  BY DEF InHand
<1>5. marked'[r] # "none" /\ \A q \in Requests : q # r => marked'[q] = marked[q]
  BY <1>1, LedgerTypes DEF RedisTypeOK
<1> QED BY <1>1, <1>2, <1>3, <1>4, <1>5 DEF Holding

-----------------------------------------------------------------------------
(* What each script does to the cover.                                     *)
LEMMA TakeCovers ==
  ASSUME LedgerInv, NEW r \in Requests, r \notin submitted, SeckillScript(r),
         Holding' \subseteq Holding \cup {r}, Sold' \subseteq Holding \cup {r}
  PROVE  StockCovered' /\ LimitKept' /\ Within(Sold)'
<1> DEFINE bought == [purchased EXCEPT ![UserOf[r]] = @ + Num[r]]
<1>1. UserOf[r] \in Users /\ Num[r] \in Nat /\ stock.num \in Nat /\ purchased \in [Users -> Nat]
  BY LedgerTypes
<1>2. /\ Loaded /\ stock.num >= Num[r] /\ purchased' = bought
      /\ Limit = 0 \/ purchased[UserOf[r]] + Num[r] <= Limit
      /\ stock' = [stock EXCEPT !.num = @ - Num[r]]
  BY DEF SeckillScript
<1>3. stock'.num = stock.num - Num[r] /\ stock.num - Num[r] \in Nat
  BY <1>1, <1>2, LedgerTypes DEF RedisTypeOK
<1>4. bought \in [Users -> Nat]
  BY <1>1
<1>5. r \notin Holding /\ IsFiniteSet(Units(Holding \cup {r}))
  BY HeldSent, TotalAdd
<1>6. Fits(stock.num, purchased, Holding)
  BY <1>2, CoveredFits DEF LedgerInv, Ledger
<1>7. Fits(stock.num - Num[r], bought, Holding \cup {r})
  BY <1>1, <1>2, <1>5, <1>6, FitsTake, HeldSent
<1>8. LimitKept'
  <2>1. ASSUME Limit > 0, NEW u \in Users PROVE bought[u] <= Limit
    BY <1>1, <1>2, <2>1 DEF LedgerInv, Ledger, LimitKept
  <2> QED BY <1>2, <2>1 DEF LimitKept
<1>9. Limit > 0 => \A u \in Users : bought[u] <= Limit
  BY <1>2, <1>8 DEF LimitKept
<1> HIDE DEF bought
<1>10. Fits(stock.num - Num[r], bought, Holding')
  BY <1>3, <1>4, <1>5, <1>7, FitsSubset
<1>11. Within(Sold')
  BY <1>3, <1>4, <1>5, <1>7, <1>9, FitsWithin
<1>12. StockCovered'
  BY <1>2, <1>3, <1>10 DEF StockCovered, Fits
<1> QED BY <1>8, <1>11, <1>12 DEF Within, OfUser, Total, Units

LEMMA GiveCovers ==
  ASSUME LedgerInv, NEW r \in Requests, r \in Holding, Loaded, GiveBack(r),
         Holding' = Holding \ {r}
  PROVE  StockCovered' /\ LimitKept'
<1> DEFINE bought == [purchased EXCEPT ![UserOf[r]] = IF purchased[UserOf[r]] - Num[r] > 0
                                                        THEN purchased[UserOf[r]] - Num[r] ELSE 0]
<1>1. UserOf[r] \in Users /\ Num[r] \in Nat /\ stock.num \in Nat /\ purchased \in [Users -> Nat]
  BY LedgerTypes
<1>2. purchased' = bought /\ stock'.num = stock.num + Num[r]
  BY LedgerTypes DEF GiveBack, RedisTypeOK
<1>3. Fits(stock.num, purchased, Holding)
  BY CoveredFits DEF LedgerInv, Ledger
<1>4. Fits(stock.num + Num[r], bought, Holding \ {r})
  BY <1>1, <1>3, FitsGive, HeldSent
<1>5. LimitKept'
  <2>1. ASSUME Limit > 0, NEW u \in Users PROVE bought[u] <= Limit
    BY <1>1, <2>1 DEF LedgerInv, Ledger, LimitKept
  <2> QED BY <1>2, <2>1 DEF LimitKept
<1> HIDE DEF bought
<1> QED BY <1>2, <1>4, <1>5 DEF StockCovered, Fits

LEMMA ApartDone ==
  ASSUME LedgerInv, NEW c \in Callers, CallerDone(c), UNCHANGED submitted,
         \A q \in Requests : Published(createTopic', q) =>
           Published(createTopic, q) \/ (caller[c].pc # "idle" /\ q = caller[c].req)
  PROVE  CallersApart'
<1>1. /\ caller'[c] = IdleCaller /\ \A d \in Callers : d # c => caller'[d] = caller[d]
  BY LedgerTypes DEF CallerDone
<1>2. IdleCaller.pc = "idle" /\ IdleCaller.req = NoRequest
  BY DEF IdleCaller
<1>3. ASSUME NEW d \in Callers, caller'[d].pc # "idle"
      PROVE  /\ caller'[d].req \in submitted /\ ~ Published(createTopic', caller'[d].req)
             /\ \A e \in Callers : caller'[e].req = caller'[d].req => e = d
  <2>1. d # c /\ caller'[d] = caller[d] /\ caller[d].pc # "idle"
    BY <1>1, <1>2, <1>3
  <2>2. /\ caller[d].req \in Requests /\ caller[d].req \in submitted
        /\ ~ Published(createTopic, caller[d].req)
        /\ \A e \in Callers : caller[e].req = caller[d].req => e = d
    BY <2>1, LedgerTypes DEF LedgerInv, Ledger, CallersApart
  <2>3. caller[d].req # NoRequest
    BY <2>2
  <2> QED BY <1>1, <1>2, <2>1, <2>2, <2>3
<1> QED BY <1>3 DEF CallersApart

-----------------------------------------------------------------------------
(* A Seckill call takes a request that nobody has sent; whether the caller *)
(* learns of it or not, the script has counted it.                         *)
LEMMA SeckillLedger ==
  ASSUME LedgerInv, Sheltered, NEW c \in Callers, NEW r \in Requests, Seckill(c, r)
  PROVE  Ledger'
<1>1. /\ caller[c].pc = "idle" /\ r \notin submitted /\ submitted' = submitted \cup {r}
      /\ SeckillScript(r) /\ (Caller(c, "publish", r) \/ UNCHANGED caller)
      /\ UNCHANGED <<createTopic, compTopic, compensator, refresher, marked>> /\ Loaded
  BY DEF Seckill, Sheltered, callerFrame, SeckillScript
<1>2. Holding' \subseteq Holding \cup {r}
  <2>1. CASE Caller(c, "publish", r)
    BY <1>1, <2>1, TakeHolds
  <2>2. CASE UNCHANGED caller
    BY <1>1, <2>2 DEF Holding, InHand
  <2> QED BY <1>1, <2>1, <2>2
<1>3. Sold' \subseteq Holding \cup {r}
  <2>1. Standing' = Standing
    BY <1>1 DEF Standing
  <2>2. InHand' \subseteq Holding'
    BY DEF Holding
  <2> QED BY <1>2, <2>1, <2>2, HeldSent DEF Sold
<1>4. StockCovered' /\ LimitKept' /\ Within(Sold)'
  BY <1>1, <1>2, <1>3, TakeCovers
<1>5. IsFiniteSet(Units(submitted))'
  <2>1. IsFiniteSet(Units(submitted \cup {r}))
    BY <1>1, TotalAdd DEF LedgerInv, Ledger
  <2> QED BY <1>1, <2>1 DEF Units
<1>6. Ordered' /\ LoadedOnce'
  BY <1>1 DEF LedgerInv, Ledger, Ordered, LoadedOnce
<1>7. CallersApart'
  <2>1. ~ Published(createTopic, r) /\ \A d \in Callers : caller[d].req # r
    BY <1>1, LedgerTypes DEF LedgerInv, Ledger, Ordered, CallersApart
  <2>2. CASE UNCHANGED caller
    BY <1>1, <2>2 DEF LedgerInv, Ledger, CallersApart
  <2>3. CASE Caller(c, "publish", r)
    <3>1. /\ caller'[c] = [pc |-> "publish", req |-> r]
          /\ \A d \in Callers : d # c => caller'[d] = caller[d]
      BY <2>3, LedgerTypes DEF Caller
    <3>2. /\ caller[c].req = NoRequest
          /\ \A d \in Callers : caller[d].pc # "idle" => caller[d].req # NoRequest
      BY <1>1, LedgerTypes
    <3> QED BY <1>1, <2>1, <3>1, <3>2 DEF LedgerInv, Ledger, CallersApart
  <2> QED BY <1>1, <2>2, <2>3
<1> QED BY <1>4, <1>5, <1>6, <1>7 DEF Ledger

(* A publish moves a request from its caller to the topic, or to the undo. *)
LEMMA PublishLedger ==
  ASSUME LedgerInv, Sheltered, NEW c \in Callers, SeckillPublish(c)
  PROVE  Ledger'
<1> DEFINE r == caller[c].req
<1>1. /\ caller[c].pc = "publish"
      /\ UNCHANGED <<redisVars, submitted, compTopic, compensator, refresher>>
      /\ \/ createTopic' = Queue(createTopic, r) /\ CallerDone(c)
         \/ createTopic' = createTopic /\ Caller(c, "undo", r)
  BY DEF SeckillPublish, FailedWrite, Sheltered, callerFrame
<1>2. UNCHANGED <<stock, purchased, marked>>
  BY <1>1 DEF redisVars
<1>3. r \in Requests /\ r \in submitted
  BY <1>1, LedgerTypes DEF LedgerInv, Ledger, CallersApart
<1>4. Holding' = Holding /\ Sold' = Sold
  BY <1>1, <1>2, PublishHolds
<1>5. StockCovered' /\ Within(Sold)'
  BY <1>2, <1>4, LetGo, StillWithin DEF Loaded
<1>6. \A q \in Requests : /\ Published(createTopic', q) => Published(createTopic, q) \/ q = r
                          /\ Published(createTopic, q) => Published(createTopic', q)
  BY <1>1, <1>3, LedgerTypes DEF Queue, Published, TopicTypeOK
<1>7. Ordered' /\ LoadedOnce' /\ LimitKept'
  BY <1>1, <1>2, <1>3, <1>6
     DEF LedgerInv, Ledger, Ordered, LoadedOnce, LimitKept, Loaded
<1>8. CallersApart'
  <2>1. CASE CallerDone(c)
    BY <1>1, <1>6, <2>1, ApartDone
  <2>2. CASE createTopic' = createTopic /\ Caller(c, "undo", r)
    <3>1. \A d \in Callers : caller'[d].req = caller[d].req /\ (caller'[d].pc # "idle" => caller[d].pc # "idle")
      BY <1>1, <2>2, LedgerTypes DEF Caller
    <3> QED BY <1>1, <2>2, <3>1 DEF LedgerInv, Ledger, CallersApart
  <2> QED BY <1>1, <2>1, <2>2
<1>9. IsFiniteSet(Units(submitted))'
  BY <1>1 DEF LedgerInv, Ledger, Units
<1> QED BY <1>5, <1>7, <1>8, <1>9 DEF Ledger

(* A call that ends without a trace in Redis leaves its pieces to nobody.  *)
LEMMA DoneLedger ==
  ASSUME LedgerInv, NEW c \in Callers, CallerDone(c),
         UNCHANGED <<submitted, createTopic, compTopic, compensator, refresher, marked>>,
         StockCovered', LimitKept', Loaded' <=> Loaded
  PROVE  Ledger'
<1>1. Within(Sold)'
  BY DoneHolds, StillWithin
<1>2. Ordered' /\ LoadedOnce'
  BY DEF LedgerInv, Ledger, Ordered, LoadedOnce
<1>3. CallersApart'
  BY ApartDone
<1>4. IsFiniteSet(Units(submitted))'
  BY DEF LedgerInv, Ledger, Units
<1> QED BY <1>1, <1>2, <1>3, <1>4 DEF Ledger

LEMMA UndoLedger ==
  ASSUME LedgerInv, NEW c \in Callers, SeckillUndo(c) \/ CallerDies(c)
  PROVE  Ledger'
<1>1. CallerDone(c) /\ UNCHANGED <<submitted, createTopic, compTopic, compensator, refresher>>
  BY DEF SeckillUndo, CallerDies, callerFrame
<1>2. CASE UNCHANGED redisVars
  <2>1. UNCHANGED <<stock, purchased, marked>>
    BY <1>2 DEF redisVars
  <2>2. StockCovered' /\ LimitKept'
    BY <1>1, <2>1, DoneHolds, LetGo DEF Loaded, LedgerInv, Ledger, LimitKept
  <2> QED BY <1>1, <2>1, <2>2, DoneLedger DEF Loaded
<1>3. CASE SeckillUndo(c) /\ UnkeyedScript(caller[c].req)
  <2> DEFINE r == caller[c].req
  <2>1. r \in Requests /\ caller[c].pc # "idle"
    BY <1>3, LedgerTypes DEF SeckillUndo
  <2>2. Loaded /\ GiveBack(r) /\ marked' = marked
    BY <1>3 DEF UnkeyedScript
  <2>3. r \in Holding /\ Holding' = Holding \ {r}
    BY <1>1, <2>1, <2>2, DoneHolds
  <2>4. StockCovered' /\ LimitKept'
    BY <2>1, <2>2, <2>3, GiveCovers
  <2>5. Loaded'
    BY <2>2, LedgerTypes DEF GiveBack, Loaded, RedisTypeOK
  <2> QED BY <1>1, <2>2, <2>4, <2>5, DoneLedger
<1> QED BY <1>2, <1>3 DEF SeckillUndo, CallerDies

-----------------------------------------------------------------------------
(* The consumers, when they leave the orders and the stock alone.          *)
LEMMA ConsumersMove ==
  ASSUME LedgerInv,
         UNCHANGED <<stock, purchased, marked, submitted, createTopic, caller, refresher>>,
         \A q \in Requests : Published(compTopic', q) <=> Published(compTopic, q),
         \A p \in Processes :
           compensator'[p].req \in Requests => Published(compTopic, compensator'[p].req)
  PROVE  Ledger'
<1>1. Holding' = Holding /\ Sold' = Sold
  BY DEF Holding, Sold, Standing, InHand
<1>2. StockCovered' /\ Within(Sold)'
  BY <1>1, LetGo, StillWithin DEF Loaded
<1>3. Ordered' /\ CallersApart' /\ LoadedOnce' /\ LimitKept' /\ IsFiniteSet(Units(submitted))'
  BY DEF LedgerInv, Ledger, Ordered, CallersApart, LoadedOnce, LimitKept, Loaded, Units
<1> QED BY <1>2, <1>3 DEF Ledger

(* The script gives back what its mark lets go, once.                      *)
LEMMA KeyedLedger ==
  ASSUME LedgerInv, NEW p \in Processes, compensator[p].pc = "script",
         KeyedScript(compensator[p].req),
         UNCHANGED <<submitted, createTopic, compTopic, caller, refresher>>,
         \A q \in Processes :
           compensator'[q].req \in Requests => Published(compTopic, compensator'[q].req)
  PROVE  Ledger'
<1> DEFINE r == compensator[p].req
<1>1. r \in Requests
  BY LedgerTypes DEF CompensatorState
<1>2. CASE UNCHANGED redisVars
  BY <1>2, ConsumersMove DEF redisVars
<1>3. CASE marked[r] = "none" /\ GiveBack(r)
             /\ \E positive \in PositiveTtl :
                  marked' = [marked EXCEPT ![r] = IF positive THEN "ttl" ELSE "persist"]
  <2>1. PICK k \in KeyState \ {"none"} : marked' = [marked EXCEPT ![r] = k]
    BY <1>3 DEF KeyState
  <2>2. r \in Holding /\ Holding' = Holding \ {r}
    BY <1>3, <2>1, MarkHolds
  <2>3. Loaded /\ Loaded'
    BY <1>3, LedgerTypes DEF KeyedScript, GiveBack, Loaded, RedisTypeOK
  <2>4. StockCovered' /\ LimitKept'
    BY <1>1, <1>3, <2>2, <2>3, GiveCovers
  <2>5. Sold' = Sold
    BY DEF Sold, Standing, InHand
  <2>6. Within(Sold)'
    BY <2>5, StillWithin
  <2>7. Published(compTopic, r) /\ \A q \in Requests : q # r => marked'[q] = marked[q]
    BY <1>1, <2>1, LedgerTypes DEF LedgerInv, Ledger, Ordered, RedisTypeOK
  <2>8. Ordered'
    BY <2>7 DEF LedgerInv, Ledger, Ordered
  <2>9. CallersApart' /\ LoadedOnce' /\ IsFiniteSet(Units(submitted))'
    BY <2>3 DEF LedgerInv, Ledger, CallersApart, LoadedOnce, Units
  <2> QED BY <2>4, <2>6, <2>8, <2>9 DEF Ledger
<1> QED BY <1>2, <1>3 DEF KeyedScript

LEMMA ConsumerLedger ==
  ASSUME LedgerInv, NEW p \in Processes, Compensate(p) \/ CompensatorRestart(p)
  PROVE  Ledger'
<1>1. UNCHANGED <<submitted, createTopic, caller, refresher>>
  BY DEF Compensate, CompensateFetch, CompensateScript, CompensateCommit, CompensatorRestart,
         compensatorFrame
<1>2. \A q \in Processes :
        compensator[q].req \in Requests => Published(compTopic, compensator[q].req)
  BY DEF LedgerInv, Ledger, Ordered
<1>3. ASSUME NEW s, compensator' = [compensator EXCEPT ![p] = s],
             s.req \in Requests => Published(compTopic, s.req)
      PROVE  \A q \in Processes :
               compensator'[q].req \in Requests => Published(compTopic, compensator'[q].req)
  <2>1. /\ compensator'[p] = s
        /\ \A q \in Processes : q # p => compensator'[q] = compensator[q]
    BY <1>3, LedgerTypes
  <2> QED BY <1>2, <1>3, <2>1
<1>4. ASSUME CompensatorStop(p)
      PROVE  \A q \in Processes :
               compensator'[q].req \in Requests => Published(compTopic, compensator'[q].req)
  <2> DEFINE s == [pc |-> "stopped", req |-> NoRequest]
  <2>1. compensator' = [compensator EXCEPT ![p] = s] /\ s.req = NoRequest
    BY <1>4 DEF CompensatorStop
  <2> HIDE DEF s
  <2> QED BY <1>3, <2>1
<1>5. CASE CompensatorRestart(p)
  <2>1. /\ compensator' = [compensator EXCEPT ![p] = IdleCompensator]
        /\ IdleCompensator.req = NoRequest /\ UNCHANGED <<redisVars, compTopic>>
    BY <1>5 DEF CompensatorRestart, IdleCompensator
  <2> QED BY <1>1, <1>3, <2>1, ConsumersMove DEF redisVars
<1>6. ASSUME NEW r \in Requests, CompensateFetch(p, r) PROVE Ledger'
  <2> DEFINE s == [pc |-> "script", req |-> r]
  <2>1. /\ compensator' = [compensator EXCEPT ![p] = s] /\ s.req = r
        /\ UNCHANGED <<redisVars, compTopic>> /\ Published(compTopic, r)
    BY <1>6 DEF CompensateFetch, Published
  <2> HIDE DEF s
  <2> QED BY <1>1, <1>3, <2>1, ConsumersMove DEF redisVars
<1>7. CASE CompensateScript(p)
  <2> DEFINE r == compensator[p].req
  <2>1. compensator[p].pc = "script" /\ UNCHANGED compTopic
    BY <1>7 DEF CompensateScript
  <2>2. \A q \in Processes :
          compensator'[q].req \in Requests => Published(compTopic, compensator'[q].req)
    <3>1. CASE compensator' = [compensator EXCEPT ![p].pc = "commit"]
      <4>1. \A q \in Processes : compensator'[q].req = compensator[q].req
        BY <3>1, LedgerTypes DEF CompensatorState
      <4> QED BY <1>2, <4>1
    <3> QED BY <1>4, <1>7, <3>1 DEF CompensateScript
  <2>3. CASE KeyedScript(r)
    BY <1>1, <2>1, <2>2, <2>3, KeyedLedger
  <2>4. CASE UNCHANGED redisVars
    BY <1>1, <2>1, <2>2, <2>4, ConsumersMove DEF redisVars
  <2> QED BY <1>7, <2>3, <2>4 DEF CompensateScript
<1>8. CASE CompensateCommit(p)
  <2> DEFINE r == compensator[p].req
  <2>1. r \in Requests /\ Published(compTopic, r) /\ UNCHANGED redisVars
    BY <1>2, <1>8, LedgerTypes DEF CompensateCommit, CompensatorState
  <2>2. \A q \in Requests : Published(compTopic', q) <=> Published(compTopic, q)
    BY <1>8, <2>1, LedgerTypes
       DEF CompensateCommit, AfterCommit, Committed, Published, TopicTypeOK
  <2>3. CASE compensator' = [compensator EXCEPT ![p] = IdleCompensator]
    <3>1. IdleCompensator.req = NoRequest
      BY DEF IdleCompensator
    <3> QED BY <1>1, <1>3, <2>1, <2>2, <2>3, <3>1, ConsumersMove DEF redisVars
  <2>4. CASE CompensatorStop(p)
    BY <1>1, <1>4, <2>1, <2>2, <2>4, ConsumersMove DEF redisVars
  <2> QED BY <1>8, <2>3, <2>4 DEF CompensateCommit
<1> QED BY <1>5, <1>6, <1>7, <1>8 DEF Compensate

(* An order that is acknowledged still stands; one whose stock is asked for*)
(* holds it until it is given back.                                        *)
LEMMA OrdersMoveLedger ==
  ASSUME LedgerInv, OrdersMove
  PROVE  Ledger'
<1>1. /\ UNCHANGED <<stock, purchased, marked, submitted, caller, compensator, refresher>>
      /\ \A q \in Requests :
           /\ Published(createTopic', q) <=> Published(createTopic, q)
           /\ Published(compTopic, q) => Published(compTopic', q)
           /\ Published(compTopic', q) => Published(createTopic, q)
  BY DEF OrdersMove, NeighbourMoves, redisVars, Published, LedgerInv, Ledger, Ordered
<1>2. Holding' = Holding /\ Sold' \subseteq Sold
  BY <1>1 DEF Holding, Sold, Standing, InHand
<1>3. StockCovered' /\ Within(Sold)'
  BY <1>1, <1>2, LetGo, StillWithin DEF Loaded
<1>4. CallersApart'
  BY <1>1, LedgerTypes DEF LedgerInv, Ledger, CallersApart
<1>5. Ordered' /\ LoadedOnce' /\ LimitKept' /\ IsFiniteSet(Units(submitted))'
  BY <1>1 DEF LedgerInv, Ledger, Ordered, LoadedOnce, LimitKept, Loaded, Units
<1> QED BY <1>3, <1>4, <1>5 DEF Ledger

(* The stock is loaded when nothing is sold, and then covers nothing.      *)
LEMMA RefreshLedger ==
  ASSUME LedgerInv, Sheltered, Refresh \/ RefresherDies
  PROVE  Ledger'
<1>1. UNCHANGED <<purchased, marked, submitted, createTopic, compTopic, caller, compensator>>
  BY DEF Refresh, RefreshRead, RefreshHset, RefreshExpire, RefresherDies, refreshFrame
<1>2. Holding' = Holding /\ Sold' = Sold
  BY <1>1 DEF Holding, Sold, Standing, InHand
<1>3. Within(Sold)'
  BY <1>2, StillWithin
<1>4. Ordered' /\ CallersApart' /\ LimitKept' /\ IsFiniteSet(Units(submitted))'
  BY <1>1 DEF LedgerInv, Ledger, Ordered, CallersApart, LimitKept, Units
<1>5. CASE Loaded' => Loaded /\ stock'.num = stock.num
  <2>1. StockCovered'
    BY <1>1, <1>2, <1>5, LetGo
  <2>2. LoadedOnce'
    BY <1>1, <1>5
       DEF LedgerInv, Ledger, LoadedOnce, Refresh, RefreshRead, RefreshHset, RefreshExpire,
           RefresherDies, Sheltered, Loaded
  <2> QED BY <1>3, <1>4, <2>1, <2>2 DEF Ledger
<1>6. CASE RefreshHset
  <2>1. ~ Loaded /\ submitted = {} /\ refresher' # "hset"
    BY <1>6 DEF RefreshHset, LedgerInv, Ledger, LoadedOnce
  <2>2. CASE stock' = stock
    BY <1>5, <2>2 DEF Loaded
  <2>3. CASE stock' # stock
    <3>1. stock'.num = DbStock
      BY <1>6, <2>3 DEF RefreshHset
    <3>2. Holding = {}
      BY <2>1, HeldSent
    <3>3. Total(Holding) = 0 /\ \A u \in Users : OfUser(u, Holding) = {}
      BY <3>2, TotalEmpty DEF OfUser
    <3>4. ASSUME NEW u \in Users PROVE purchased[u] >= Total(OfUser(u, Holding))
      <4>1. Total(OfUser(u, Holding)) = 0
        BY <3>3, TotalEmpty
      <4>2. purchased[u] \in Nat
        BY LedgerTypes
      <4> QED BY <4>1, <4>2
    <3>5. StockCovered'
      BY <1>1, <1>2, <3>1, <3>3, <3>4 DEF StockCovered
    <3>6. LoadedOnce'
      BY <2>1 DEF LoadedOnce
    <3> QED BY <1>3, <1>4, <3>5, <3>6 DEF Ledger
  <2> QED BY <2>2, <2>3
<1>7. CASE RefreshExpire
  <2>1. Loaded' => Loaded /\ stock'.num = stock.num
    BY <1>7, LedgerTypes DEF RefreshExpire, Loaded, RedisTypeOK
  <2> QED BY <1>5, <2>1
<1>8. CASE RefreshRead \/ RefresherDies
  BY <1>5, <1>8 DEF RefreshRead, RefresherDies, Loaded
<1> QED BY <1>6, <1>7, <1>8 DEF Refresh

(* No key vanishes that the stock's key still needs.                       *)
LEMMA TimeLedger ==
  ASSUME LedgerInv, Sheltered,
         \/ End \/ StockExpires
         \/ \E u \in Users : LimitExpires(u)
         \/ \E r \in Requests : MarkExpires(r)
  PROVE  Ledger'
<1>1. UNCHANGED <<submitted, createTopic, compTopic, caller, compensator, refresher>>
  BY DEF End, StockExpires, LimitExpires, MarkExpires, timeFrame
<1>2. Sold' = Sold
  BY <1>1 DEF Sold, Standing, InHand
<1>3. Within(Sold)'
  BY <1>2, StillWithin
<1>4. CallersApart' /\ IsFiniteSet(Units(submitted))'
  BY <1>1 DEF LedgerInv, Ledger, CallersApart, Units
<1>5. \A r \in Requests : marked'[r] # "none" => marked[r] # "none"
  BY LedgerTypes DEF End, StockExpires, LimitExpires, MarkExpires, redisVars, RedisTypeOK
<1>6. Ordered'
  BY <1>1, <1>5 DEF LedgerInv, Ledger, Ordered
<1>7. LimitKept'
  <2>1. \A u \in Users : purchased'[u] = purchased[u] \/ purchased'[u] = 0
    BY LedgerTypes DEF End, StockExpires, LimitExpires, MarkExpires, redisVars
  <2>2. \A u \in Users : purchased[u] \in Nat
    BY LedgerTypes
  <2> QED BY <2>1, <2>2 DEF LedgerInv, Ledger, LimitKept
<1>8. CASE End
  <2>1. UNCHANGED <<stock, purchased, marked>>
    BY <1>8 DEF End, redisVars
  <2>2. Holding' = Holding
    BY <1>1, <2>1 DEF Holding, InHand
  <2>3. StockCovered' /\ LoadedOnce'
    BY <1>1, <2>1, <2>2, LetGo DEF Loaded, LoadedOnce, LedgerInv, Ledger
  <2> QED BY <1>3, <1>4, <1>6, <1>7, <2>3 DEF Ledger
<1>9. CASE ~ Loaded'
  BY <1>1, <1>3, <1>4, <1>6, <1>7, <1>9 DEF Ledger, StockCovered, LoadedOnce, LedgerInv
<1>10. ~ End => ~ Loaded'
  BY DEF StockExpires, LimitExpires, MarkExpires, Sheltered, Loaded
<1> QED BY <1>8, <1>9, <1>10

LEMMA LedgerInit == Init => LedgerInv
<1> SUFFICES ASSUME Init PROVE LedgerInv
  OBVIOUS
<1>1. StockInv
  BY StockInitInv
<1>2. /\ \A r \in Requests : /\ ~ Published(createTopic, r) /\ ~ Published(compTopic, r)
                            /\ marked[r] = "none"
      /\ \A p \in Processes : compensator[p].req = NoRequest
      /\ \A c \in Callers : caller[c].pc = "idle" /\ caller[c].req = NoRequest
      /\ submitted = {} /\ ~ Loaded /\ \A u \in Users : purchased[u] = 0
  BY DEF Init, StockInit, Empty, Published, IdleCompensator, IdleCaller, Loaded
<1>3. Sold = {} /\ \A u : OfUser(u, Sold) = {}
  BY <1>2 DEF Sold, Standing, InHand, OfUser
<1>4. Within(Sold)
  BY <1>3, TotalEmpty DEF Within
<1>5. IsFiniteSet(Units(submitted))
  BY <1>2, TotalEmpty
<1>6. Ordered /\ CallersApart /\ LoadedOnce /\ LimitKept /\ StockCovered
  BY <1>2 DEF Ordered, CallersApart, LoadedOnce, LimitKept, StockCovered
<1> QED BY <1>1, <1>4, <1>5, <1>6 DEF LedgerInv, Ledger

LEMMA LedgerStep == Sheltered /\ LedgerInv /\ [Next]_stockVars => LedgerInv'
<1> SUFFICES ASSUME Sheltered, LedgerInv, [Next]_stockVars PROVE LedgerInv'
  OBVIOUS
<1>1. StockInv'
  BY StockStepInv DEF LedgerInv
<1>2. CASE UNCHANGED stockVars
  <2>1. \A p \in Processes :
          compensator[p].req \in Requests => Published(compTopic, compensator[p].req)
    BY DEF LedgerInv, Ledger, Ordered
  <2>2. Ledger'
    BY <1>2, <2>1, ConsumersMove DEF stockVars, redisVars
  <2> QED BY <1>1, <2>2 DEF LedgerInv
<1>3. CASE Next
  <2>1. ASSUME NEW r \in Requests, CompensationAsked(r) PROVE Ledger'
    BY <2>1, AskedMoves, OrdersMoveLedger, LedgerTypes
  <2>2. Ledger'
    BY <1>3, <2>1, SeckillLedger, PublishLedger, UndoLedger, ConsumerLedger, RefreshLedger,
       TimeLedger DEF Next, StockNext
  <2> QED BY <1>1, <2>2 DEF LedgerInv
<1> QED BY <1>2, <1>3

LEMMA LedgerImplies == LedgerInv => NoOversell /\ WithinLimit /\ StockCovered
<1> SUFFICES ASSUME LedgerInv PROVE NoOversell /\ WithinLimit /\ StockCovered
  OBVIOUS
<1>1. Standing \subseteq Sold
  BY DEF Sold
<1>2. Within(Standing)
  BY <1>1, HeldSent, WithinSubset DEF LedgerInv, Ledger
<1> QED BY <1>2 DEF Within, NoOversell, WithinLimit, LedgerInv, Ledger

(* Nor can any other set of requests that hold stock for an order.         *)
LEMMA StandingBounded ==
  ASSUME LedgerInv, NEW S, S \subseteq Standing
  PROVE  /\ Within(S)
         /\ Loaded => stock.num + Total(S) <= DbStock
<1>1. S \subseteq Sold /\ S \subseteq Holding
  BY HeldSent DEF Sold
<1>2. Within(S)
  BY <1>1, HeldSent, WithinSubset DEF LedgerInv, Ledger
<1>3. ASSUME Loaded PROVE Fits(stock.num, purchased, S)
  BY <1>1, <1>3, HeldSent, LedgerTypes, CoveredFits, FitsSubset DEF LedgerInv, Ledger
<1> QED BY <1>2, <1>3 DEF Fits

(* Where the stock is safe, no more is sold than there is, no user gets    *)
(* more than the limit, and Redis never offers stock that a request holds, *)
(* whatever dies, fails or is redelivered.                                 *)
THEOREM StockSafe ==
  ASSUME Sheltered
  PROVE  Spec => [](NoOversell /\ WithinLimit /\ StockCovered)
<1>1. LedgerInv /\ [Next]_stockVars => LedgerInv'
  BY LedgerStep
<1> QED BY <1>1, LedgerInit, LedgerImplies, PTL DEF Spec

-----------------------------------------------------------------------------
(* The failures that remain are among those there were.                    *)
Remaining == {"rebalance", "duplicate", "writeLost"} \subseteq Faults

(* What a calm step is, in the words of PromotionStock.                    *)
LEMMA QuietScripts ==
  ASSUME NEW r
  PROVE  /\ Quiet!SeckillScript(r) <=> SeckillScript(r)
         /\ Quiet!UnkeyedScript(r) <=> UnkeyedScript(r)
         /\ Quiet!KeyedScript(r) <=> KeyedScript(r)
         /\ Quiet!Loaded <=> Loaded
BY DEF Quiet!SeckillScript, SeckillScript, Quiet!UnkeyedScript, UnkeyedScript,
       Quiet!KeyedScript, KeyedScript, Quiet!GiveBack, GiveBack, Quiet!Loaded, Loaded,
       Quiet!PositiveTtl, PositiveTtl, Quiet!redisVars, redisVars

LEMMA QuietSeckill ==
  ASSUME NEW c, NEW r, Quiet!Seckill(c, r)
  PROVE  /\ caller[c].pc = "idle" /\ r \notin submitted /\ submitted' = submitted \cup {r}
         /\ SeckillScript(r) /\ Caller(c, "publish", r)
         /\ UNCHANGED <<createTopic, callerFrame>>
BY QuietScripts DEF Quiet!Seckill, Quiet!Caller, Caller, Quiet!callerFrame, callerFrame

LEMMA QuietPublish ==
  ASSUME NEW c, Quiet!SeckillPublish(c)
  PROVE  /\ caller[c].pc = "publish"
         /\ \/ createTopic' = Queue(createTopic, caller[c].req) /\ CallerDone(c)
            \/ createTopic' = createTopic /\ Caller(c, "undo", caller[c].req)
         /\ UNCHANGED <<redisVars, submitted, callerFrame>>
BY DEF Quiet!SeckillPublish, Quiet!Caller, Caller, Quiet!CallerDone, CallerDone, Quiet!Queue, Queue,
       Quiet!FailedWrite, Quiet!callerFrame, callerFrame, Quiet!redisVars, redisVars,
       Quiet!IdleCaller, IdleCaller

LEMMA QuietUndo ==
  ASSUME NEW c, Quiet!SeckillUndo(c)
  PROVE  /\ caller[c].pc = "undo"
         /\ UnkeyedScript(caller[c].req) \/ (~ Loaded /\ UNCHANGED redisVars)
         /\ CallerDone(c)
         /\ UNCHANGED <<submitted, createTopic, callerFrame>>
BY QuietScripts
   DEF Quiet!SeckillUndo, Quiet!CallerDone, CallerDone, Quiet!callerFrame, callerFrame,
       Quiet!redisVars, redisVars, Quiet!IdleCaller, IdleCaller

LEMMA QuietCompensate ==
  ASSUME Remaining, NEW p, Quiet!Compensate(p)
  PROVE  /\ Compensate(p)
         /\ \/ UNCHANGED redisVars
            \/ compensator[p].pc = "script" /\ KeyedScript(compensator[p].req)
         /\ UNCHANGED compensatorFrame
<1>1. UNCHANGED compensatorFrame
  BY DEF Quiet!Compensate, Quiet!CompensateFetch, Quiet!CompensateScript, Quiet!CompensateCommit,
         Quiet!compensatorFrame, compensatorFrame
<1>2. CASE \E r \in Requests : Quiet!CompensateFetch(p, r)
  <2>1. \E r \in Requests : CompensateFetch(p, r)
    BY <1>2 DEF Remaining, Quiet!CompensateFetch, CompensateFetch, Quiet!compensatorFrame,
                compensatorFrame, Quiet!redisVars, redisVars
  <2> QED BY <1>1, <2>1 DEF Compensate, CompensateFetch
<1>3. CASE Quiet!CompensateScript(p)
  <2>1. CompensateScript(p)
    BY <1>1, <1>3, QuietScripts
       DEF Quiet!CompensateScript, CompensateScript, Quiet!CompensatorStop, CompensatorStop,
           Quiet!redisVars, redisVars
  <2>2. \/ UNCHANGED redisVars
        \/ compensator[p].pc = "script" /\ KeyedScript(compensator[p].req)
    BY <1>3, QuietScripts DEF Quiet!CompensateScript, Quiet!redisVars, redisVars
  <2> QED BY <1>1, <2>1, <2>2 DEF Compensate
<1>4. CASE Quiet!CompensateCommit(p)
  <2>1. CompensateCommit(p)
    BY <1>1, <1>4
       DEF Remaining, Quiet!CompensateCommit, CompensateCommit, Quiet!CompensatorStop,
           CompensatorStop, Quiet!AfterCommit, AfterCommit, Quiet!Committed, Committed,
           Quiet!IdleCompensator, IdleCompensator, Quiet!redisVars, redisVars
  <2> QED BY <1>1, <2>1 DEF Compensate, CompensateCommit
<1> QED BY <1>2, <1>3, <1>4 DEF Quiet!Compensate

LEMMA QuietRefresh == Quiet!Refresh => Refresh
BY QuietScripts
   DEF Quiet!Refresh, Quiet!RefreshRead, Quiet!RefreshHset, Quiet!RefreshExpire, Refresh,
       RefreshRead, RefreshHset, RefreshExpire, Quiet!refreshFrame, refreshFrame

LEMMA QuietTime ==
  /\ \A r \in Requests : Quiet!MarkExpires(r) => MarkExpires(r)
  /\ \A u \in Users : Quiet!LimitExpires(u) => LimitExpires(u)
BY QuietScripts
   DEF Quiet!MarkExpires, MarkExpires, Quiet!LimitExpires, LimitExpires, Quiet!timeFrame, timeFrame

LEMMA QuietAsked ==
  ASSUME Remaining, NEW r, Quiet!CompensationAsked(r)
  PROVE  CompensationAsked(r)
BY DEF Remaining, Quiet!CompensationAsked, CompensationAsked, Quiet!Published, Published,
       Quiet!Queue, Queue, Quiet!redisVars, redisVars, Quiet!compensatorFrame, compensatorFrame

(* So a step of the two phases is a step of PromotionStock or starts the   *)
(* consumers again.                                                        *)
LEMMA RecoverySteps ==
  ASSUME Remaining, [RNext]_recoveryVars
  PROVE  [Next]_stockVars \/ Cease
<1>1. ASSUME NEW c \in Callers, NEW r \in Requests, Quiet!Seckill(c, r) PROVE Next
  <2>1. Seckill(c, r)
    BY <1>1, QuietSeckill DEF Seckill
  <2> QED BY <2>1 DEF Next, StockNext
<1>2. ASSUME NEW c \in Callers, Quiet!SeckillPublish(c) PROVE Next
  <2>1. SeckillPublish(c)
    BY <1>2, QuietPublish DEF SeckillPublish, Remaining, FailedWrite
  <2> QED BY <2>1 DEF Next, StockNext
<1>3. ASSUME NEW c \in Callers, Quiet!SeckillUndo(c) PROVE Next
  <2>1. SeckillUndo(c)
    BY <1>3, QuietUndo DEF SeckillUndo
  <2> QED BY <2>1 DEF Next, StockNext
<1>4. ASSUME NEW p \in Processes, Quiet!Compensate(p) PROVE Next
  BY <1>4, QuietCompensate DEF Next, StockNext
<1>5. ASSUME NEW r \in Requests, Quiet!CompensationAsked(r) \/ Quiet!MarkExpires(r) PROVE Next
  BY <1>5, QuietAsked, QuietTime DEF Next, StockNext
<1>6. ASSUME NEW u \in Users, Quiet!LimitExpires(u) PROVE Next
  BY <1>6, QuietTime DEF Next, StockNext
<1>7. Quiet!Refresh \/ End \/ StockExpires => Next
  BY QuietRefresh DEF Next, StockNext
<1>8. UNCHANGED recoveryVars => UNCHANGED stockVars
  BY DEF recoveryVars
<1> QED BY <1>1, <1>2, <1>3, <1>4, <1>5, <1>6, <1>7, <1>8 DEF RNext, Calmly

LEMMA CeaseKeeps ==
  ASSUME StockInv, Cease
  PROVE  StockInv' /\ (Ledger => Ledger')
<1>1. /\ compensator' = [p \in Processes |-> IF compensator[p].pc = "stopped"
                                               THEN IdleCompensator ELSE compensator[p]]
      /\ UNCHANGED <<redisVars, compTopic, phase, submitted, createTopic, caller, refresher>>
  BY DEF Cease, compensatorFrame
<1>2. /\ RedisTypeOK /\ TopicTypeOK /\ compensator \in [Processes -> CompensatorState]
      /\ phase \in {"open", "ending"} /\ submitted \subseteq Requests
      /\ caller \in [Callers -> CallerState] /\ refresher \in {"idle", "hset", "expire"}
  BY TypeParts DEF StockInv
<1>3. IdleCompensator \in CompensatorState /\ IdleCompensator.pc = "idle"
      /\ IdleCompensator.req = NoRequest
  BY DEF IdleCompensator, CompensatorState
<1>4. RedisTypeOK' /\ TopicTypeOK' /\ marked' = marked
  BY <1>1, <1>2, SameRedis DEF TopicTypeOK
<1>5. compensator' \in [Processes -> CompensatorState]
  BY <1>1, <1>2, <1>3
<1>6. StockTypeOK'
  BY <1>1, <1>2, <1>4, <1>5, TypeAfter
<1>7. CompensationApplied' /\ CompensatorKnows'
  BY <1>1, <1>3, <1>4 DEF StockInv, CompensationApplied, CompensatorKnows
<1>8. StockInv'
  BY <1>6, <1>7 DEF StockInv
<1>9. ASSUME Ledger PROVE Ledger'
  <2>1. \A p \in Processes :
          compensator'[p].req \in Requests => Published(compTopic, compensator'[p].req)
    BY <1>1, <1>3, <1>9 DEF Ledger, Ordered
  <2>2. LedgerInv
    BY <1>9 DEF LedgerInv
  <2> QED BY <1>1, <2>1, <2>2, ConsumersMove DEF redisVars
<1> QED BY <1>8, <1>9

LEMMA RecoveryInit == RInit => StockInv /\ LedgerInv
BY LedgerInit DEF RInit, LedgerInv

LEMMA RecoveryStockStep == Remaining /\ StockInv /\ [RNext]_recoveryVars => StockInv'
BY RecoverySteps, StockStepInv, CeaseKeeps

LEMMA RecoveryLedgerStep ==
  Sheltered /\ Remaining /\ LedgerInv /\ [RNext]_recoveryVars => LedgerInv'
BY RecoverySteps, LedgerStep, CeaseKeeps DEF LedgerInv

(* A compensation is acknowledged only after it was applied, before the    *)
(* failures cease and after.                                               *)
THEOREM RecoveryCompensationSafe ==
  ASSUME Remaining
  PROVE  RSpec => []CompensationApplied
<1>1. StockInv => CompensationApplied
  BY DEF StockInv
<1>2. StockInv /\ [RNext]_recoveryVars => StockInv'
  BY RecoveryStockStep
<1> QED BY <1>1, <1>2, RecoveryInit, PTL DEF RSpec

LEMMA LedgerAlways ==
  ASSUME Sheltered, Remaining
  PROVE  RSpec => []LedgerInv
<1>1. LedgerInv /\ [RNext]_recoveryVars => LedgerInv'
  BY RecoveryLedgerStep
<1> QED BY <1>1, RecoveryInit, PTL DEF RSpec

(* Where the stock is safe, no more is sold than there is.                 *)
THEOREM OversellSafe ==
  ASSUME Sheltered, Remaining
  PROVE  RSpec => []NoOversell
BY LedgerAlways, LedgerImplies, PTL

(* Where the stock is safe, no user gets more than the limit.              *)
THEOREM LimitSafe ==
  ASSUME Sheltered, Remaining
  PROVE  RSpec => []WithinLimit
BY LedgerAlways, LedgerImplies, PTL

(* Where the stock is safe, Redis never offers stock that a request holds, *)
(* nor forgets that its user has purchased it.                             *)
THEOREM CoverSafe ==
  ASSUME Sheltered, Remaining
  PROVE  RSpec => []StockCovered
BY LedgerAlways, LedgerImplies, PTL

-----------------------------------------------------------------------------
(* Once the failures have ceased, a step of the counter is the opposite of *)
(* a step of what is held.                                                 *)
LEMMA CalmAccount ==
  ASSUME Sheltered, Remaining, LedgerInv, [RNext]_recoveryVars
  PROVE  AccountKept
<1> SUFFICES ASSUME calm, Loaded, Loaded' PROVE Accounted' = Accounted
  BY DEF AccountKept
<1>1. /\ stock.num \in Nat /\ IsFiniteSet(Units(Holding)) /\ Total(Holding) \in Nat
      /\ stock \in [key : KeyState, num : Nat]
  BY LedgerTypes, HeldSent, TotalSubset DEF RedisTypeOK
<1>2. ASSUME Holding' = Holding, stock'.num = stock.num PROVE Accounted' = Accounted
  <2>1. Total(Holding)' = Total(Holding)
    BY <1>2 DEF Total, Units
  <2> QED BY <1>2, <2>1 DEF Accounted
<1>3. ASSUME NEW r \in Requests, r \in Holding, Holding' = Holding \ {r}, GiveBack(r)
      PROVE  Accounted' = Accounted
  <2>1. Total(Holding) = Total(Holding \ {r}) + Num[r] /\ Total(Holding \ {r}) \in Nat
    BY <1>1, <1>3, TotalRemove, TotalSubset
  <2>2. stock'.num = stock.num + Num[r]
    BY <1>1, <1>3 DEF GiveBack
  <2>3. Total(Holding)' = Total(Holding \ {r})
    BY <1>3 DEF Total, Units
  <2>4. Num[r] \in Nat
    OBVIOUS
  <2> QED BY <1>1, <2>1, <2>2, <2>3, <2>4 DEF Accounted
<1>4. ASSUME NEW c \in Callers, NEW r \in Requests, Quiet!Seckill(c, r)
      PROVE  Accounted' = Accounted
  <2>1. /\ caller[c].pc = "idle" /\ r \notin submitted /\ Caller(c, "publish", r)
        /\ SeckillScript(r) /\ UNCHANGED <<createTopic, marked>>
    BY <1>4, QuietSeckill DEF SeckillScript
  <2>2. r \notin Holding /\ Holding' = Holding \cup {r}
    BY <2>1, TakeHolds
  <2>3. Total(Holding \cup {r}) = Total(Holding) + Num[r]
    BY <1>1, <2>2, TotalAdd
  <2>4. stock'.num = stock.num - Num[r]
    BY <1>1, <2>1 DEF SeckillScript
  <2>5. Total(Holding)' = Total(Holding \cup {r})
    BY <2>2 DEF Total, Units
  <2>6. Num[r] \in Nat
    OBVIOUS
  <2> QED BY <1>1, <2>3, <2>4, <2>5, <2>6 DEF Accounted
<1>5. ASSUME NEW c \in Callers, Quiet!SeckillPublish(c) PROVE Accounted' = Accounted
  <2>1. UNCHANGED <<stock, marked, compTopic>>
    BY <1>5, QuietPublish DEF redisVars, callerFrame
  <2>2. Holding' = Holding
    BY <1>5, <2>1, QuietPublish, PublishHolds
  <2> QED BY <1>2, <2>1, <2>2
<1>6. ASSUME NEW c \in Callers, Quiet!SeckillUndo(c) PROVE Accounted' = Accounted
  <2> DEFINE r == caller[c].req
  <2>1. /\ caller[c].pc = "undo" /\ GiveBack(r) /\ CallerDone(c)
        /\ UNCHANGED <<createTopic, compTopic, marked>>
    BY <1>6, QuietUndo DEF UnkeyedScript, callerFrame
  <2>2. r \in Requests /\ r \in Holding /\ Holding' = Holding \ {r}
    BY <2>1, DoneHolds, LedgerTypes
  <2> QED BY <1>3, <2>1, <2>2
<1>7. ASSUME NEW p \in Processes, Quiet!Compensate(p) PROVE Accounted' = Accounted
  <2> DEFINE r == compensator[p].req
  <2>1. UNCHANGED <<createTopic, caller>>
    BY <1>7, QuietCompensate DEF compensatorFrame
  <2>2. CASE UNCHANGED redisVars
    BY <1>2, <2>1, <2>2 DEF redisVars, Holding, InHand
  <2>3. CASE compensator[p].pc = "script" /\ marked[r] = "none" /\ GiveBack(r)
               /\ \E positive \in PositiveTtl :
                    marked' = [marked EXCEPT ![r] = IF positive THEN "ttl" ELSE "persist"]
    <3>1. PICK k \in KeyState \ {"none"} : marked' = [marked EXCEPT ![r] = k]
      BY <2>3 DEF KeyState
    <3>2. r \in Requests /\ r \in Holding /\ Holding' = Holding \ {r}
      BY <2>1, <2>3, <3>1, MarkHolds, LedgerTypes DEF CompensatorState
    <3> QED BY <1>3, <2>3, <3>2
  <2> QED BY <1>7, <2>2, <2>3, QuietCompensate DEF KeyedScript
<1>8. ASSUME NEW r \in Requests, Quiet!CompensationAsked(r) PROVE Accounted' = Accounted
  <2>1. UNCHANGED <<stock, marked, createTopic, caller>>
    BY <1>8, QuietAsked DEF CompensationAsked, redisVars, compensatorFrame
  <2> QED BY <1>2, <2>1 DEF Holding, InHand
<1>9. CASE Quiet!Refresh
  <2>1. Refresh /\ ~ RefreshHset
    BY <1>9, QuietRefresh DEF LedgerInv, Ledger, LoadedOnce, RefreshHset
  <2>2. stock'.num = stock.num
    BY <1>1, <2>1 DEF Refresh, RefreshRead, RefreshExpire, Loaded
  <2>3. Holding' = Holding
    BY <2>1 DEF Refresh, RefreshRead, RefreshExpire, refreshFrame, Holding, InHand
  <2> QED BY <1>2, <2>2, <2>3
<1>10. CASE End
  BY <1>2, <1>10 DEF End, redisVars, timeFrame, Holding, InHand
<1>11. ASSUME NEW u \in Users, Quiet!LimitExpires(u) PROVE Accounted' = Accounted
  <2>1. LimitExpires(u)
    BY <1>11, QuietTime
  <2> QED BY <1>2, <2>1 DEF LimitExpires, timeFrame, Holding, InHand
<1>12. ~ StockExpires /\ \A r \in Requests : ~ Quiet!MarkExpires(r)
  BY QuietTime DEF StockExpires, MarkExpires, Sheltered, Loaded
<1>13. CASE UNCHANGED recoveryVars
  BY <1>2, <1>13 DEF recoveryVars, stockVars, redisVars, Holding, InHand
<1>14. ~ Cease
  BY DEF Cease
<1> QED BY <1>4, <1>5, <1>6, <1>7, <1>8, <1>9, <1>10, <1>11, <1>12, <1>13, <1>14
        DEF RNext, Calmly

(* Once the failures have ceased no stock is lost and none is made up, as  *)
(* long as there is a key to count it.                                     *)
THEOREM ConservedSafe ==
  ASSUME Sheltered, Remaining
  PROVE  RSpec => StockConserved
<1>1. LedgerInv /\ [RNext]_recoveryVars => [AccountKept]_recoveryVars
  BY CalmAccount
<1> QED BY <1>1, LedgerAlways, PTL DEF RSpec, StockConserved
=============================================================================
