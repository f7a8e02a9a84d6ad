----------------------------- MODULE FlashSale -----------------------------
(***************************************************************************)
(* The whole path of a promotion order: the promotion service that sells   *)
(* from its stock in Redis, the order service, the calls of the pay        *)
(* service and its refunds.  To what Commerce shares come                  *)
(*   createTopic   written by Seckill, read by the creator                 *)
(*   compTopic     written by the order service, read by the compensator   *)
(* What the two services imagined of each other (SubmitOrder,              *)
(* CompensationAsked) gives way to the neighbour's own steps.              *)
(***************************************************************************)
EXTENDS Commerce, Naturals

CONSTANTS
  UserOf, Num, Users, DbStock, Limit,   \* of the promotion
  Callers,                              \* Seckill calls in progress at a time
  StockProcesses,                       \* running instances of the promotion service
  StockFaults                           \* what may go wrong there

VARIABLES
  phase, stock, purchased, limitKey, marked,   \* of PromotionStock
  submitted, caller, compensator, refresher

Stock == INSTANCE PromotionStock WITH Faults <- StockFaults, Processes <- StockProcesses

promotionVars ==
  <<phase, stock, purchased, limitKey, marked, submitted, caller, compensator, refresher>>

(* What Commerce has of its own, and what the stock's steps leave alone.   *)
neighbourVars ==
  <<orders, timeoutSet, due, payTopic, refundTopic, creator, payer, scanner, rpc,
    callsVars, refundsVars>>

ShopInit == SaleInit /\ Stock!StockInit

(* Orders come from Seckill alone.                                         *)
OrderingStep ==
  /\ \/ \E p \in Processes : ProcessNext(p)
     \/ \E r \in Requests : Elapse(r)
  /\ UNCHANGED <<callsVars, refundsVars>>

SaleStep == (OrderingStep \/ CallsStep \/ RefundsStep) /\ UNCHANGED promotionVars

StockStep == Stock!StockNext /\ UNCHANGED neighbourVars

ShopNext == SaleStep \/ StockStep

ShopSpec == ShopInit /\ [][ShopNext]_<<saleVars, promotionVars>>
-----------------------------------------------------------------------------
(* Orders that have been paid, or still may be.                            *)
OpenOrders == {r \in Requests : orders[r] \in {"PENDING_PAY", "PAID"}}

(* The orders that are paid or can be take no more pieces than there are,  *)
(* and what is on offer beside them is covered too.  Between the counter   *)
(* in Redis and the table of orders lie a topic in each direction.         *)
OrdersWithinStock ==
  /\ Stock!Total(OpenOrders) <= DbStock
  /\ Stock!Loaded => stock.num + Stock!Total(OpenOrders) <= DbStock

(* Nor do one user's orders take more than the limit.                      *)
OrdersWithinLimit ==
  Limit > 0 => \A u \in Users : Stock!Total(Stock!OfUser(u, OpenOrders)) <= Limit

(* Stock is asked back for no order that is paid or still may be.          *)
ReleasedClosed == \A r \in OpenOrders : ~ Published(compTopic, r)

(* Stock goes back on offer only for an order that has ended unpaid, and   *)
(* so is never paid for.                                                   *)
ReturnedUnpaid == \A r \in Requests : marked[r] # "none" => orders[r] \in Unpaid
=============================================================================
