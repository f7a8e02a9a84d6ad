--------------------------- MODULE PromotionStock ---------------------------
(***************************************************************************)
(* The promotion service: the stock of one promotion product in Redis, the *)
(* number each user has purchased, the Seckill and PromotionStockRefresh   *)
(* RPCs, and the promotion_order_compensate consumer that gives stock back.*)
(*                                                                         *)
(* A Lua script is one step.  Redis keys expire: every expiry is computed  *)
(* from the end of the promotion, but rounded to seconds, so in the last   *)
(* second the keys may vanish in any order.  A key is                      *)
(*   "none"     absent                                                     *)
(*   "ttl"      present, with an expiry                                    *)
(*   "persist"  present, without one                                       *)
(***************************************************************************)
EXTENDS KafkaTopic, Integers, FiniteSets

CONSTANTS
  Requests,      \* Seckill calls, by request id
  UserOf, Num,   \* the user and the pay_num of a request
  Users,
  DbStock,       \* promotion_product.stock, which nothing decrements
  Limit,         \* promotion_product.limit_num, 0 when there is no limit
  Callers,       \* Seckill calls in progress at a time
  Processes,     \* running instances of the service
  Faults,        \* restart, rebalance, duplicate, writeLost, writeUnknown,
                 \* commit and redis as in OrderService;
                 \* retry: a caller sends a request again;
                 \* refresh: the stock is refreshed while it is being sold;
                 \* rounding: a key expires up to a second before the stock
  NoRequest

ASSUME PromotionAssumption ==
  /\ UserOf \in [Requests -> Users]
  /\ Num \in [Requests -> Nat \ {0}]
  /\ DbStock \in Nat
  /\ Limit \in Nat
  /\ NoRequest \notin Requests

VARIABLES
  phase,         \* of the promotion: "open", or "ending" from its last second
  stock,         \* promotion:{promotion}:{product}: the key and its stock field
  purchased,     \* promotion_limit:{promotion}:{product}:{user}
  limitKey,      \* the state of that key
  marked,        \* promotion:compensate:{request}
  submitted,     \* requests that have been sent
  createTopic,   \* promotion_order_create
  compTopic,     \* promotion_order_compensate
  caller,        \* the Seckill call in each slot
  compensator,   \* the consumer of each process
  refresher      \* a PromotionStockRefresh call

redisVars == <<stock, purchased, limitKey, marked>>
stockVars ==
  <<phase, redisVars, submitted, createTopic, compTopic, caller, compensator, refresher>>

KeyState == {"none", "ttl", "persist"}

IdleCaller      == [pc |-> "idle", req |-> NoRequest]
IdleCompensator == [pc |-> "idle", req |-> NoRequest]

StockTypeOK ==
  /\ phase \in {"open", "ending"}
  /\ stock \in [key : KeyState, num : Nat]
  /\ purchased \in [Users -> Nat]
  /\ limitKey \in [Users -> KeyState]
  /\ \A u \in Users : limitKey[u] = "none" <=> purchased[u] = 0
  /\ marked \in [Requests -> KeyState]
  /\ submitted \subseteq Requests
  /\ createTopic \in [Requests -> MessageState]
  /\ compTopic \in [Requests -> MessageState]
  /\ caller \in [Callers -> {IdleCaller} \cup [pc : {"publish", "undo"}, req : Requests]]
  /\ compensator \in [Processes -> [pc : {"idle", "stopped"}, req : {NoRequest}]
                                     \cup [pc : {"script", "commit"}, req : Requests]]
  /\ refresher \in {"idle", "hset", "expire"}

StockInit ==
  /\ phase = "open"
  /\ stock = [key |-> "none", num |-> 0]
  /\ purchased = [u \in Users |-> 0]
  /\ limitKey = [u \in Users |-> "none"]
  /\ marked = [r \in Requests |-> "none"]
  /\ submitted = {}
  /\ caller = [c \in Callers |-> IdleCaller]
  /\ compensator = [p \in Processes |-> IdleCompensator]
  /\ refresher = "idle"

-----------------------------------------------------------------------------
(* The scripts.                                                            *)

Loaded == stock.key # "none"

(* TTL of the stock key: in the last half second it is rounded to zero.    *)
PositiveTtl ==
  {b \in BOOLEAN : /\ b => stock.key = "ttl"
                   /\ ~ b => stock.key # "ttl" \/ phase = "ending"}

(* Mutant: the purchases of the user are not counted.                      *)
SeckillScriptUncounted(r) ==
  LET u == UserOf[r] IN
  /\ Loaded
  /\ stock.num >= Num[r]
  /\ Limit = 0 \/ purchased[u] + Num[r] <= Limit
  /\ stock' = [stock EXCEPT !.num = @ - Num[r]]
  /\ UNCHANGED <<purchased, limitKey, marked>>

(* Mutant: the stock is compared with nothing.                             *)
SeckillScriptUnbounded(r) ==
  LET u == UserOf[r] IN
  /\ Loaded
  /\ Limit = 0 \/ purchased[u] + Num[r] <= Limit
  /\ stock' = [stock EXCEPT !.num = @ - Num[r]]
  /\ purchased' = [purchased EXCEPT ![u] = @ + Num[r]]
  /\ limitKey' = [limitKey EXCEPT ![u] = "ttl"]
  /\ UNCHANGED marked

(* seckill.lua, where it does not refuse.                                  *)
SeckillScript(r) ==
  LET u == UserOf[r] IN
  /\ Loaded
  /\ stock.num >= Num[r]
  /\ Limit = 0 \/ purchased[u] + Num[r] <= Limit
  /\ stock' = [stock EXCEPT !.num = @ - Num[r]]
  /\ purchased' = [purchased EXCEPT ![u] = @ + Num[r]]
  /\ \E positive \in PositiveTtl :
       limitKey' = [limitKey EXCEPT ![u] = IF positive THEN "ttl"
                                           ELSE IF @ = "none" THEN "persist" ELSE @]
  /\ UNCHANGED marked

(* The part of seckill_compensate.lua after the idempotency key.           *)
GiveBack(r) ==
  LET u == UserOf[r]
      remaining == purchased[u] - Num[r]
  IN /\ stock' = [stock EXCEPT !.num = @ + Num[r]]
     /\ purchased' = [purchased EXCEPT ![u] = IF remaining > 0 THEN remaining ELSE 0]
     /\ limitKey' = [limitKey EXCEPT ![u] = IF remaining > 0 THEN @ ELSE "none"]

(* Mutant: the idempotency key is written and not looked at.               *)
KeyedScriptRepeats(r) ==
  /\ Loaded
  /\ GiveBack(r)
  /\ marked' = [marked EXCEPT ![r] = "ttl"]

(* seckill_compensate.lua with an idempotency key: applied, or -3 because  *)
(* the key is there.  With -2 (the stock key is gone) it changes nothing.  *)
KeyedScript(r) ==
  /\ Loaded
  /\ \/ /\ marked[r] = "none"
        /\ \E positive \in PositiveTtl :
             marked' = [marked EXCEPT ![r] = IF positive THEN "ttl" ELSE "persist"]
        /\ GiveBack(r)
     \/ marked[r] # "none" /\ UNCHANGED redisVars

(* The same without a key.                                                 *)
UnkeyedScript(r) == Loaded /\ GiveBack(r) /\ UNCHANGED marked

-----------------------------------------------------------------------------
(* Seckill.  A call that its script refuses changes nothing.               *)

callerFrame == <<phase, compTopic, compensator, refresher>>

Caller(c, pc, r) == caller' = [caller EXCEPT ![c] = [pc |-> pc, req |-> r]]
CallerDone(c)    == caller' = [caller EXCEPT ![c] = IdleCaller]

Seckill(c, r) ==
  /\ caller[c].pc = "idle"
  /\ r \in submitted => "retry" \in Faults
  /\ submitted' = submitted \cup {r}
  /\ \/ SeckillScript(r) /\ Caller(c, "publish", r)
     \/ "redis" \in Faults /\ SeckillScript(r) /\ UNCHANGED caller
  /\ UNCHANGED <<createTopic, callerFrame>>

SeckillPublish(c) ==
  /\ caller[c].pc = "publish"
  /\ LET r == caller[c].req IN
     \/ createTopic' = Queue(createTopic, r) /\ CallerDone(c)
     \/ createTopic' \in FailedWrite(createTopic, r, Faults) /\ Caller(c, "undo", r)
  /\ UNCHANGED <<redisVars, submitted, callerFrame>>

(* Mutant: stock that could not be sold is not given back.                 *)
SeckillUndoOmitted(c) ==
  /\ caller[c].pc = "undo"
  /\ CallerDone(c)
  /\ UNCHANGED <<redisVars, submitted, createTopic, callerFrame>>

(* The write failed: the deduction is undone at once, without a key.       *)
SeckillUndo(c) ==
  /\ caller[c].pc = "undo"
  /\ \/ UnkeyedScript(caller[c].req)
     \/ (~ Loaded \/ "redis" \in Faults) /\ UNCHANGED redisVars
  /\ CallerDone(c)
  /\ UNCHANGED <<submitted, createTopic, callerFrame>>

-----------------------------------------------------------------------------
(* The promotion_order_compensate consumer.                                *)

compensatorFrame == <<phase, submitted, createTopic, caller, refresher>>

CompensatorStop(p) ==
  compensator' = [compensator EXCEPT ![p] = [pc |-> "stopped", req |-> NoRequest]]

CompensateFetch(p, r) ==
  /\ compensator[p].pc = "idle"
  /\ compTopic[r] = "queued"
  /\ "rebalance" \in Faults \/ \A q \in Processes : compensator[q].req # r
  /\ compensator' = [compensator EXCEPT ![p] = [pc |-> "script", req |-> r]]
  /\ UNCHANGED <<redisVars, compTopic, compensatorFrame>>

(* Mutant: a failed script is only logged.                                 *)
CompensateScriptIgnoresError(p) ==
  /\ compensator[p].pc = "script"
  /\ KeyedScript(compensator[p].req) \/ UNCHANGED redisVars
  /\ compensator' = [compensator EXCEPT ![p].pc = "commit"]
  /\ UNCHANGED <<compTopic, compensatorFrame>>

CompensateScript(p) ==
  /\ compensator[p].pc = "script"
  /\ LET r == compensator[p].req IN
     \/ KeyedScript(r) /\ compensator' = [compensator EXCEPT ![p].pc = "commit"]
     \/ ~ Loaded /\ UNCHANGED redisVars /\ CompensatorStop(p)
     \/ "redis" \in Faults /\ (KeyedScript(r) \/ UNCHANGED redisVars) /\ CompensatorStop(p)
  /\ UNCHANGED <<compTopic, compensatorFrame>>

CompensateCommit(p) ==
  /\ compensator[p].pc = "commit"
  /\ \/ /\ compTopic' \in AfterCommit(compTopic, compensator[p].req, Faults)
        /\ compensator' = [compensator EXCEPT ![p] = IdleCompensator]
     \/ "commit" \in Faults /\ CompensatorStop(p) /\ UNCHANGED compTopic
  /\ UNCHANGED <<redisVars, compensatorFrame>>

Compensate(p) ==
  \/ \E r \in Requests : CompensateFetch(p, r)
  \/ CompensateScript(p) \/ CompensateCommit(p)

-----------------------------------------------------------------------------
(* PromotionStockRefresh: read the row of a promotion that is open, HSET   *)
(* its stock, then EXPIRE the key when the promotion ends.                 *)

refreshFrame ==
  <<phase, purchased, limitKey, marked, submitted, createTopic, compTopic, caller, compensator>>

RefreshRead ==
  /\ refresher = "idle"
  /\ phase = "open"
  /\ "refresh" \in Faults \/ (~ Loaded /\ submitted = {})
  /\ refresher' = "hset"
  /\ UNCHANGED <<stock, refreshFrame>>

RefreshHset ==
  /\ refresher = "hset"
  /\ LET written == [key |-> IF Loaded THEN stock.key ELSE "persist", num |-> DbStock] IN
     \/ stock' = written /\ refresher' = "expire"
     \/ "redis" \in Faults /\ stock' \in {stock, written} /\ refresher' = "idle"
  /\ UNCHANGED refreshFrame

(* An expiry that has passed removes the key.                              *)
RefreshExpire ==
  /\ refresher = "expire"
  /\ \/ stock' = [stock EXCEPT !.key = IF Loaded THEN "ttl" ELSE "none"]
     \/ phase = "ending" /\ stock' = [key |-> "none", num |-> 0]
     \/ "redis" \in Faults /\ UNCHANGED stock
  /\ refresher' = "idle"
  /\ UNCHANGED refreshFrame

Refresh == RefreshRead \/ RefreshHset \/ RefreshExpire

-----------------------------------------------------------------------------
(* A process dies: a call in it, or its consumer, starts over.             *)
CallerDies(c) ==
  /\ "restart" \in Faults
  /\ CallerDone(c)
  /\ UNCHANGED <<redisVars, submitted, createTopic, callerFrame>>

CompensatorRestart(p) ==
  /\ "restart" \in Faults
  /\ compensator' = [compensator EXCEPT ![p] = IdleCompensator]
  /\ UNCHANGED <<redisVars, compTopic, compensatorFrame>>

RefresherDies ==
  /\ "restart" \in Faults
  /\ refresher' = "idle"
  /\ UNCHANGED <<stock, refreshFrame>>

(* The promotion ends, and the keys with an expiry vanish.                 *)
timeFrame == <<submitted, createTopic, compTopic, caller, compensator, refresher>>

End ==
  /\ phase' = "ending"
  /\ UNCHANGED <<redisVars, timeFrame>>

StockExpires ==
  /\ phase = "ending" /\ stock.key = "ttl"
  /\ stock' = [key |-> "none", num |-> 0]
  /\ UNCHANGED <<phase, purchased, limitKey, marked, timeFrame>>

LimitExpires(u) ==
  /\ phase = "ending" /\ limitKey[u] = "ttl"
  /\ "rounding" \in Faults \/ ~ Loaded
  /\ limitKey' = [limitKey EXCEPT ![u] = "none"]
  /\ purchased' = [purchased EXCEPT ![u] = 0]
  /\ UNCHANGED <<phase, stock, marked, timeFrame>>

MarkExpires(r) ==
  /\ phase = "ending" /\ marked[r] = "ttl"
  /\ "rounding" \in Faults \/ ~ Loaded
  /\ marked' = [marked EXCEPT ![r] = "none"]
  /\ UNCHANGED <<phase, stock, purchased, limitKey, timeFrame>>

StockNext ==
  \/ \E c \in Callers : \/ \E r \in Requests : Seckill(c, r)
                        \/ SeckillPublish(c) \/ SeckillUndo(c) \/ CallerDies(c)
  \/ \E p \in Processes : Compensate(p) \/ CompensatorRestart(p)
  \/ Refresh \/ RefresherDies
  \/ End \/ StockExpires
  \/ (\E u \in Users : LimitExpires(u)) \/ (\E r \in Requests : MarkExpires(r))

-----------------------------------------------------------------------------
(* The service on its own: the order service may ask for the stock of any  *)
(* order back, once its message was written.                               *)
Init == StockInit /\ createTopic = Empty(Requests) /\ compTopic = Empty(Requests)

CompensationAsked(r) ==
  /\ Published(createTopic, r)
  /\ compTopic[r] = "none" \/ "duplicate" \in Faults
  /\ compTopic' = Queue(compTopic, r)
  /\ UNCHANGED <<redisVars, compensator, compensatorFrame>>

Next == StockNext \/ \E r \in Requests : CompensationAsked(r)

Spec == Init /\ [][Next]_stockVars
-----------------------------------------------------------------------------
(* The pieces that a set of requests takes from the stock.                 *)
Units(S) == UNION {{r} \X (1 .. Num[r]) : r \in S}
Total(S) == Cardinality(Units(S))

OfUser(u, S) == {r \in S : UserOf[r] = u}

(* Requests whose order stands: it was sent to the order service, and      *)
(* nobody has asked for its stock back.                                    *)
Standing == {r \in Requests : Published(createTopic, r) /\ ~ Published(compTopic, r)}

(* No more is sold than there is.                                          *)
NoOversell == Total(Standing) <= DbStock

(* No user gets more than the limit.                                       *)
WithinLimit == Limit > 0 => \A u \in Users : Total(OfUser(u, Standing)) <= Limit

(* Requests that hold stock: sent and not given back, or in hand.          *)
InHand == {caller[c].req : c \in Callers} \ {NoRequest}
Holding == {r \in Requests : Published(createTopic, r) /\ marked[r] = "none"} \cup InHand

(* Redis never offers stock that a request holds, and never forgets that a *)
(* user has purchased it, whatever dies, fails or is redelivered.          *)
StockCovered ==
  Loaded => /\ stock.num + Total(Holding) <= DbStock
            /\ \A u \in Users : purchased[u] >= Total(OfUser(u, Holding))

(* A compensation is acknowledged only after it was applied.               *)
CompensationApplied ==
  phase = "open" => \A r \in Requests : compTopic[r] = "committed" => marked[r] # "none"
=============================================================================
