# one_adventure backend: TLA+ specifications

Specifications of the core of this backend: the path of a promotion order from the
seckill that takes the stock to the refund of a payment that came too late; the registry
of services and the control plane that leads Envoy to them; the gates that claim logical
servers, and the WebSocket connections they serve. Each module is translated from the Go (and Lua) source it names; `PROJECT.json` maps every
definition to its lines, and lists the runs, the hazards and the theorems.

Check a run with `tlc -config <run>.cfg <module>` and the proofs with
`tlapm <module>Proofs.tla`.

## 1. Inventory

| Component | State it keeps | Operations | Talks to | What is hard |
|---|---|---|---|---|
| promotion service (`promotion/`) | Redis: stock hash, purchase count per user, marks of applied compensations | `Seckill`, `PromotionStockRefresh`, compensation consumer | writes `promotion_order_create`, reads `promotion_order_compensate` | script, publish and undo are three calls; keys expire; messages repeat |
| order service (`order/`) | MySQL `orders`; Redis sorted set of timeouts | create consumer, pay report consumer, timeout task, `UpdateOrderStatus` | reads `promotion_order_create`, `pay_report`; writes `promotion_order_compensate`, `refund_report` | four activities race on a row; several calls per handler, any of which can fail or be the last |
| pay service, RPC (`pay/internal/rpc`) | MySQL `payment_order`, `payment_transaction` | `CreatePayment`, `CreateTransaction`, `CancelTransaction`, `ThirdPartyCallback` | reads `orders`; writes `pay_report`; called by the payment channel | report published after the database commit; cancel against callback |
| pay service, refunds (`pay/internal/consumer`, `refund`) | MySQL `payment_refund` | refund consumer, refund task | reads `refund_report`; calls the channel | query and refund are apart; every process runs the task on the same rows |
| servicekit/kafka | group offsets (in Kafka) | `Producer.Write`, `Consumer.Run` | all of the above | late commits, rebalances, a loop that ends on an error |
| servicekit/discovery | etcd leases and keys | `Registrar.Run` (`KVLease` and `Discoverer` are called by nothing) | every service; xds | lost leases, calls given up that still take effect, instances that come back |
| gate_server: registration | one etcd lease per server identity | `Acquire`, `KeepAlive`, `Release` | ws_gateway, etcd | servers racing for an identity; a lost lease |
| gate_server: websocket | connections, pending requests, counts per channel | connect, request, response, close | clients, ws_gateway | close against pending requests, handlers on goroutines |
| ws_gateway | cached lists, Redis counts | `ServerInfoGet`, `ChannelInfoGet`, proxy | gate_server, MySQL, etcd | lists that are stale when used |
| gateway rate limiters | token bucket, leaky bucket, window per user | `Allow` | its requests | window boundaries, cleanup, concurrent callers |
| gateway routing, authentication | none of its own | handlers | token, discovery | little state |
| xds | the snapshot Envoy sees | `watch`, `buildSnapshot` | etcd | an event between Get and Watch |
| servicekit/token, user service | Redis refresh tokens | issue, verify, refresh | gateway | truncated TTLs |
| observability_kit | the log writer's list of entries | log, trace, metrics | all | flushes against shutdown |
| computing, item, commerce, one_adventure | tables | single inserts and reads | | nothing a model would add |
| rpc, deploy, sql, tools | none (`sql` is the reference for keys and column types) | | | |

What makes each modelled component correct:

- **order service**: an order settles once; money goes back only for an order that ended
  unpaid; no report is acknowledged unanswered; no PENDING_PAY order loses its timeout; due
  orders settle; unpaid orders release their stock, and only they do.
- **pay service**: reports tell what the database says; one verdict per transaction; no
  transaction opens on a settled payment; a recorded payment gets reported; a requested refund
  gets a row, a row is finished only by money returned, and in the end it is.
- **promotion service**: Redis never offers stock a request holds; no oversell; limits hold; a
  compensation is applied once, and before it is acknowledged.
- **kafka loop**: what is committed was handled, and nothing is passed by.
- **amounts**: no overflow reaches a row; a refund is the payment, through the roundings of float64.
- **registry and control plane**: a server that keeps a lease alive is registered under that lease;
  Envoy's routes are the registry, up to the events under way; in the end running servers are
  routed to and stopped ones are not.
- **gates**: clients of one logical server meet at one gate; every claim ends; no server stays
  claimed by a gate that is gone.
- **connections**: every request can still be answered, and is at most once; nobody blocks on a
  channel; a close ends every goroutine and is noticed by the manager.

The hazards this code is exposed to are listed in `PROJECT.json` at their lines, those no
property covers yet with the reason.

## 2. Modules

| Module | Models |
|---|---|
| `KafkaTopic` | A topic as a service sees it: at-least-once, unordered. The operators every other module uses for writes and commits, with their failures. |
| `KafkaConsumer` | `Consumer.Run` on one partition by offset: it justifies the view of `KafkaTopic` and the stopped consumers of the service modules. |
| `OrderService` | The four activities of every process of the order service. |
| `OrderContract` | What the order service promises its neighbours; `OrderService` implements it. |
| `PaymentService` | The RPCs of the pay service and their reports. |
| `RefundService` | The refund consumer and the refund task, with the channel. |
| `PromotionStock` | The stock of one promotion product in Redis, and everything that changes it. |
| `Commerce` | A sale from its order to the return of its money: `OrderService`, `PaymentService` and `RefundService` over the topics and the table they share. |
| `FlashSale` | The whole path of a promotion order: `PromotionStock` and `Commerce` over the two topics between them. It has theorems and no run (section 5). |
| `OrderAmount` | One amount in all its representations: int64, `DECIMAL`, float64 with its two roundings, cents. |
| `OrderRecovery`, `RefundRecovery`, `StockRecovery` | The service modules in two phases: everything may fail, then the failures cease. What must happen in the end, from whatever was left behind. |
| `ServiceRegistry` | `Registrar.Run` of every service instance, against etcd's leases and keys. |
| `ControlPlane` | `xds`, composed with the registry it follows: `watch`, `buildSnapshot`, and the routes Envoy has. |
| `GateRegistration` | `gate_server`'s `Main` and registration, with `ws_gateway`'s list of unclaimed servers and its proxy, against etcd. |
| `GateConnection` | The goroutines of one WebSocket connection of a gate. |
| `CommerceProofs` (of `OrderService`, `OrderRecovery` and `FlashSale` too), `PaymentServiceProofs`, `RefundServiceProofs`, `PromotionStockProofs`, `SupportProofs` (of `KafkaConsumer` and `OrderAmount`), `ControlPlaneProofs`, `GateRegistrationProofs`, `GateConnectionProofs` | The theorems about these modules. |
| `MC*` | The instances for TLC. |

`OrderService`, `PaymentService`, `RefundService` and `PromotionStock` have the names of the
variables they share with each other: `orders`, `createTopic`, `compTopic`, `payTopic`,
`refundTopic`. Each module has what the others do to these variables as an action of its
environment (`SubmitOrder`, `ReportPayment`, `OrderInserted`, `RefundRequested`,
`CompensationAsked`), so that it can be checked alone. `Commerce` puts the neighbours' own steps in their place: a report
comes from a callback that the channel made, an order that can be paid from the create consumer, a refund from the payer.
In `FlashSale` the last two go: an order is submitted by a Seckill call that took its stock (no `SubmitOrder`), and stock is asked
back by an activity of the order service (no `CompensationAsked`).

### State and actions

**Granularity.** One step is one call to MySQL, Redis, Kafka or the channel, together with
the local code up to the next call; a local database transaction is one step. Between any two steps any other process or
activity may move, and `Restart` may end everything a process holds. A call can fail without
its effect, or with it (a lost reply); the constant `Faults` says which failures an instance has:

| Fault | Meaning |
|---|---|
| `restart` | a process dies and starts again |
| `rebalance` | a second process is handed a message that is in work |
| `duplicate` | a message is written, or delivered, again |
| `writeLost`, `writeUnknown` | `Producer.Write` fails, without or with the message written |
| `commit` | `CommitMessages` fails |
| `redis`, `database`, `replyLost`, `gateway` | a call to Redis, MySQL or the channel fails; `replyLost`: a statement took effect |
| `fetch`, `handler` | (KafkaConsumer) a fetch fails; a handler fails, with or without its effect |
| `retry` | (PromotionStock) a client repeats a Seckill request |
| `refresh`, `rounding` | (PromotionStock) a refresh during the sale; TTLs that end before the stock's |
| `timeout`, `partition` | (ServiceRegistry) a call to etcd fails, whether or not it takes effect then or later; keep-alives do not come through |
| `read`, `watch`, `restart` | (ControlPlane) a read of etcd fails, a watch ends, xds dies |
| `call`, `slow`, `partition`, `die` | (GateRegistration) a call fails, with its effect or without; a gate is slower than its lease; keep-alives do not come through; a gate dies |
| `write`, `stall` | (GateConnection) a write fails though the client is there; the client stops reading |

- `orders[r]` is the status of the order of request `r` (`orders.request_id` is unique, so
  a request has at most one order, whatever number `uuid.NewString` gives it); `timeoutSet` is the sorted
  set, `due` the requests whose time has passed. Each process has a `creator`
  (`promotionorder/consumer.go`), a `payer` (`payreport/consumer.go`), a `scanner`
  (`timeout/task.go`) and an `rpc` (`rpc/order/service.go`), each a program counter and what
  the code holds in local variables across calls, e.g. the status that the scan has read (`snap`).
- `txn`, `payOrder` are the rows of the pay service; `reporting` the reports of calls that have
  committed and not published; `charged` what the channel has done, which no local row can stop.
- `refund`, `waiting`, `channel`: the rows, their retry time and what the channel has done;
  `task` keeps the lists `RunBatch` builds before it updates and executes.
- `stock`, `purchased`, `limitKey`, `marked` are the Redis keys, with whether they exist and
  expire; a script is one step. `caller`, `compensator` and `refresher` are the activities.

- `registrar[i]` is where `Run` is in the process of instance `i`, with its lease; `key[i]` the lease
  that the instance's key is bound to. `late` holds Puts whose caller has given up and that etcd may still
  apply. `ControlPlane` adds `watcher` (where the function `watch` is), `event` (changes the watch has
  delivered) and `routes`; a step of the registry that changes a key becomes an event when a watch is open and
  is `missed` when xds has read but not yet opened one.
- `gate[g]` is where `Main` is in a gate's process, with the list it goes through, its server and its lease;
  `key[s]` the claim of a server; `conn[c]` where a client's connection is: `routed` by `ws_gateway` to
  a gate, then `open` if that gate accepts the handshake. `lost` are gates whose lease expired under them, which go on.
- In `GateConnection` each goroutine has a `pc`; a step runs from one point where it can wait, or where another
  goroutine can see a difference, to the next. A channel is named by its call: `pending` maps session ids to
  channels, `full` are those whose buffer of one is used, `held` and `owed` those that the reader and `Close` have
  taken out of `pending` and not sent to yet. `writer` is who holds `writeMu`, `once` how far `closeOnce` has come.
- `calm` (the recovery modules, `ControlPlane`, `GateRegistration`) says that the failures have ceased.

**Left out**: names and texts, `retry_count` and error texts (written, never read), logging, the
100 and 1000 rows of a batch, the creation and parsing of JSON. Messages are well-formed.
Endpoints whose DNS lookup fails (`xds/server.go:201`) and empty names of servers (`registration.go:100`, `:122`), which the code skips.
Numbers derived by hashing are taken to be collision-free. A query that finds no row leaves
its struct empty, as the code relies on (`order.OrderId == 0`).

## 3. Runs

| Run | Bounds | Shows |
|---|---|---|
| `sale_faults` | 1 order, 1 transaction, 1 process of each service with all its activities, two kinds of `UpdateOrderStatus` calls; every fault in the order service, deaths and lost replies of writes in the pay service | money goes back only if it was taken and its order ended unpaid (`MoneyBackUnsold`), a PAID order was paid for (`PaidOrderCharged`), the order's payment buys it or is in the table of refunds, never neither or both, once it is read everywhere (`MoneyAccounted`), reports are answered, timeouts kept; no deadlock |
| `order_recovery` | 1 order, 2 transactions, 1 process; all faults but `database` and `replyLost`, then none; cancellations are called in the second phase | `OrderService` implements `OrderContract` throughout; then due orders settle, unpaid orders release their stock, each payment buys its order or is refunded, but for `KeptTwice` |
| `order_insert_error` | 1 order, 2 transactions, database errors and restarts only | **violated**: an order is paid whose stock was given back |
| `pay_faults` | 2 orders, 3 transactions, 2 amounts, all faults | the rows agree, reports match them, one verdict; a recorded payment is reported |
| `refund_faults` | 1 refund, 2 processes; all faults, then only redelivery | every acknowledged report has a row; SUCCESS means returned, for good; every requested refund is made and recorded in the end |
| `stock_faults` | 3 requests of 2 users for 2, 1 and 2 pieces, stock 3, limit 2, 2 callers, 1 compensator; restarts, redelivery, failing writes, commits and Redis, then the last two no more | no oversell, limits, stock covered, compensations applied before they are acknowledged; then stock is conserved exactly and every compensation lands |
| `kafka_faults` | 2 members, 3 messages, all faults | nothing committed or passed by unhandled, all handled in the end |
| `amount_exact` | every price and quantity of 5-bit integers; every amount of a column of 3 digits and two that do not fit it; floats of 13 bits | no wrapped amount is stored; a refund is the payment, to the hundredth |
| `amount_unit` | the same, payments of orders only | **violated**: a price in cents is charged a hundredfold |
| `control_plane` | 2 instances, 2 lease ids that are given out again, all faults, then none; starts and stops all along | keys are bound to the leases kept alive; routes are the registry; running servers get routed to, stopped ones do not stay |
| `gate_registration` | 2 gates, 2 servers, 2 clients of one server, 2 lease ids, all faults, then none | clients of a server meet at one gate; every `Acquire` ends; no server stays claimed by a gate that is gone |
| `gate_connection` | 2 calls (one with a context that ends), 2 session ids, 1 handler, the reader, `CloseAll`; a client that answers late and repeatedly, stalls or goes | each call can be answered, once; nothing blocks on a channel; contexts are honoured; a close ends everything |

**Why the bounds are enough.** Every activity of the order service works on one order at a time
and every conflict is about one row, so one order shows every race; two transactions (`order_recovery`) let a
second payment come beside the first (`KeptTwice`, below). `sale_faults` has one transaction, whose report already races with the scan, the calls and
its own redelivery; with every activity of three services in it, it is the largest run (917,187 states), and the theorems cover any number. Two processes matter where a process's own activity conflicts with its twin
(`refund_faults`, `kafka_faults`); in the order runs the conflicts are between different activities, and a
redelivery after a restart stands for the twin (`CommerceProofs` proves the safety properties for any number).
One refund is enough because rows do not meet; the proofs cover any number. Three messages allow a
stale commit to move the offset back behind a message handled in between. Stock 3 and limit 2 with three
requests for 2, 1 and 2 pieces make both refusals happen. 5-bit integers wrap like 64-bit ones. The floats of the
instance have 4096 values from one power of two to the next, 4 for each amount of the column (float64 has 4500 for each of `DECIMAL(12,2)`),
and so its roundings are coarser than the real ones; only quarters of a unit are floats themselves, all other amounts are rounded.
Instances of the registry do not conflict with each other, two show that one's lease does not disturb the other's key; an
id is given out again once nobody refers to it, so two ids are any number of leases in a row. Two gates and
two servers let a gate lose a race and find another server, or none. Two calls with two ids let a call reuse the id of
one that is answered, cancelled or removed late; the first is given the first id, because ids are alike.

**The two violations** are disagreements between the code and what the repository says:

- `order_insert_error`. `promotionorder/consumer.go` compensates when the insert fails and
  returns without committing. The message comes again after a restart, the order is created and
  can be paid; its stock was released. `api-contract/event/promotion.go:22` says that the
  compensation "restores promotion stock for an unpaid terminal order".
- `amount_unit`. `orderAmount` multiplies a price in the smallest unit
  (`sql/promotion-test-data.sql:34`) and stores it as whole units of a `DECIMAL(12,2)`;
  `CreatePayment` turns units into cents.

**Known limits.** Each is in its module, excepted by name in the property it would break, or switched off in the run:

- `OrderService` implements its contract under the faults of `order_recovery`. With `database` or `replyLost` the
  finding above breaks it, and with two processes and `rebalance` two creators do: the one that loses the insert meets
  a duplicate key and compensates an order that exists.
- An order that `UpdateOrderStatus` settles loses its compensation when the publish fails, and also when it is only
  delayed past a scan that read the order earlier. `OrderRecovery` therefore calls it only after the failures.
- A report for a closed order removes its timeout, and with it the memory of a compensation not yet published
  (`UnpaidReleases` excepts it).
- `PromotionStock` keeps its properties without `writeUnknown` (the undo has no idempotency key), `refresh` and
  `rounding`; these three break `NoOversell`, `StockCovered` or `WithinLimit` when switched on, and are known
  (`docs/order-pay-promotion-edge-cases.md:108`) or used as no document says. `retry` costs stock, though it never oversells.
- Of two payments of one order the second is kept. `payreport/consumer.go:58` takes the report of a second transaction for a repeated
  one when it finds the order PAID, and commits it; `docs/order-pay-promotion-edge-cases.md:91`, `:120` and `:180` require a refund of
  every payment but one. `PaymentResolves` and `MoneyAccounted` except this by name (`KeptTwice` in `OrderService`); without the
  exception TLC refutes `PaymentResolves` in `order_recovery`: t1 pays the order, t2 is reported, nothing follows.
- `RowsAgree` says that a payment order ended as one of its transactions did, not as the paid one: beside a cancelled transaction, which
  ends the payment order, a payment that was open already can still succeed (`docs/order-pay-promotion-edge-cases.md:91`, too).
- A Put that etcd applies after a later one takes a running server out of the registry for good (`overtaken`).
- A change between xds's read and its watch, or one whose read fails, stays unseen until the next change (`missed`).
- A gate whose lease expires under it serves on beside the next owner (`lost`); a handshake that passes `CloseAll` by
  stays until its process ends (`late`).
- A call behind a write to a client that does not read does not honour its context (`CancelReturns`).

## 4. Fairness

- *Goroutines run*: weak fairness of each activity's steps. A ticker and a blocking fetch justify no more.
- *Time passes*: weak fairness of `Elapse` and of `RetryDue`.
- *Failures cease*: the liveness properties of the recovery modules, `ControlPlane` and `GateRegistration` speak of states after
  `calm`, and nothing forces it to come. Fairness is asked only of steps without failures in that phase. An operator starts stopped
  consumers again at its beginning (`Cease`); after it, a stopped consumer stays stopped.
- *A message is reached*: strong fairness of fetching a given message (`RefundService`,
  `PromotionStock`): topics are unordered in the model, but a partition is read by offset, so no message is overtaken for ever.
- *etcd*: weak fairness of expiry and of late Puts; strong fairness of `Grant` in `ControlPlane`, because etcd does not run out
  of lease ids and the instance's few are taken again and again.
- *Connections*: weak fairness of each goroutine. Callers, answers, contexts and the client's going are not fair.
- `KafkaConsumer`: strong fairness of the steps of each loop. A member is not killed, nor does it lose the partition, every time it has work.
- `PaymentService`: the channel repeats its callback until answered (weak fairness of
  `CallbackSuccess`; the code answers an error when the publish fails), and not every publish
  fails (strong fairness of `PublishReport`).
- Nothing is assumed of RPC callers, of payments, or of operators after `Cease`: a stopped consumer stays stopped, and the liveness
  properties say so where that can happen. A consumer that loses the race for an order does stop:
  `payreport/consumer.go` returns an error after a compare-and-set that matched nothing, and its redelivery takes the refund branch.

## 5. Proofs

`CommerceProofs` (2338 obligations, any number of requests, transactions and processes, any set of faults). First the order service alone:

| Theorem | States |
|---|---|
| `TypeCorrect` | `Spec => []TypeOK` |
| `RefundSafe` | `Spec => []RefundOnlyUnpaid` |
| `ReportsSafe` | `Spec => []ReportsAnswered` |
| `TimeoutSafe` | `Spec => []PendingHasTimeout` |
| `SettledSafe` | `Spec => SettledStable` |
| `ContractKept` | `Spec => ImplementsContract`, under `Dependable` |

The only assumption of the first five is `ConstantsAssumption` (transactions pay orders, calls are calls, and the idle values are no requests or reports).
The three invariants are not inductive: a worker in the middle of a handler acts on what it
learned at an earlier step. The inductive invariant `IInv` adds to them what each worker knows:
a creator about to add or commit knows that its order exists (and, at its commit, that the
timeout is set or the order settled); a payer about to refund knows that the order ended unpaid, and
at its commit that the report is answered; a scanner or a call about to remove a timeout knows that the order is
settled. `OrdersSettle`, proved first for every step, keeps this knowledge true while others
move. The step proof has one case per action.

`ContractKept` is the refinement that `order_recovery` checks. `Dependable` says where the code keeps its contract: statements are
answered (neither `database` nor `replyLost`), a message is in one process's hands at a time (no `rebalance`, or one process), and no
call gives a reason, which asks for compensation, while it declares an order paid. `ContractInv` adds to `IInv` that a creator which
inserts is alone with an order that is not there, so that it never compensates, and that a scanner or a call which is about to publish
works on an order that ended unpaid. Each action is then one step of the contract (`SettleStep`, `ReleaseStep`, `RefundStep`) or none.

Both carry over to the two phases of `OrderRecovery`, so that what `order_recovery` checks is what is proved:

| Theorem | States |
|---|---|
| `OrderRecoverySafe` | `RSpec => [](RefundOnlyUnpaid /\ ReportsAnswered /\ PendingHasTimeout) /\ SettledStable` |
| `RecoveryContractKept` | `RSpec => ImplementsContract`, under `Dependable` |

A step of the second phase is one that `OrderService` has too (`OrderRecoverySteps`), and `Cease`, which starts
stopped consumers again, takes nothing away that the invariants say of the others (`StartedAgain...`).

Then the three services together, over the same variables:

| Theorem | States |
|---|---|
| `SaleInvariance` | `SaleSpec => []SaleInv` |
| `MoneyBackSafe` | `SaleSpec => []MoneyBackUnsold` |
| `PaidSafe` | `SaleSpec => []PaidOrderCharged` |
| `AccountedSafe` | `SaleSpec => []MoneyAccounted` |

`MoneyAccounted` holds for any number of transactions because it names the one case that the code gets wrong, a payment beside another
one of a PAID order (`KeptTwice`, known limits); of every other payment it says that it is accounted for.
Assumed besides: `SaleAssumption` (the assumptions of the two other services, and that no caller of `UpdateOrderStatus` declares an
order PAID, which would be a sale without a payment). `SaleInv` is `IInv`, `PayInv` and `RefundInv` of the three services with
`SaleKnowledge`, what the messages between them stand for: a payer works on a report that was written, a refund was asked for because a
payment was reported, and the payment of a PAID order was reported. The step lemmas of the services are used as they are (the pay
service's through `INSTANCE`): a step of the composition is a step of one of them, and what it writes to a shared topic or row is a step
of the others' environment, or changes nothing that their invariants speak of (`...Undisturbed`).

At last all four services, `FlashSale`, for any number of requests, users, processes, callers and pieces:

| Theorem | States |
|---|---|
| `ShopMoneySafe` | `ShopSpec => [](MoneyBackUnsold /\ PaidOrderCharged /\ MoneyAccounted)` |
| `OversoldOnlyByRelease` | `ShopSpec => [](ReleasedClosed => OrdersWithinStock /\ OrdersWithinLimit)`, under `StockShelter` |
| `ShopInvariance` | `ShopSpec => []ShopInv`, under `ShopDependable` |
| `ShopContractKept` | `ShopSpec => ImplementsContract`, under `ShopDependable` |
| `ShopSafe` | `ShopSpec => [](OrdersWithinStock /\ OrdersWithinLimit /\ ReturnedUnpaid)`, under `ShopDependable` |

`ShopMoneySafe` holds whatever fails, with the exception that `MoneyAccounted` names. The other three are what neither service can say
alone: the counter is in Redis, the orders are in
MySQL, and a topic leads each way. `OrdersWithinStock` says that the orders which are paid, or still may be, take no more pieces than
there are, together with what is on offer; `ReturnedUnpaid` that stock given back is never paid for.

They hold under conditions, and the code meets these only in part. `StockShelter` is the absence of four faults of the stock: a request
that is repeated (`docs/order-pay-promotion-edge-cases.md:44`, `:107`), a write whose outcome is unknown (`:46`, `:108`), a refresh
during the sale and a limit that expires early. Under it alone, whatever fails, races or repeats in the order, pay and refund services,
`OversoldOnlyByRelease` leaves one way to oversell: an open order whose compensation was published (`ReleasedClosed` is false), which is
what the finding of `order_insert_error` produces. `ShopDependable` adds `Dependable`, under which the order service never does that, so
`ShopSafe` needs no such condition.

`SoldInv` is `SaleInv` and the stock's `LedgerInv` with `Placed`: an order in the table was placed on
`createTopic`. It is inductive without `Dependable`, because the ledger follows what was asked of the stock, right or wrong. The open orders
whose stock was not asked back are then among the requests whose stock was taken (`Standing`), which the ledger bounds
(`StandingBounded`). `ShopInv` adds `ContractInv` and `ReleasedUnpaid`, that an order whose compensation was published has ended
unpaid; this is where the contract is used: that
a compensation is published only for an order that ended unpaid is its `Release`, and that it stays so is its `Settle`. For the stock, a step
of the order service is one of its environment (`OrdersMove`); for the sale, a step of the stock adds orders and acknowledges
compensations (`TopicsAdded`).

`FlashSale` is proved without an exhaustive run: with two requests its states are beyond the five minutes of a run. TLC's
simulation of two orders of one user, for 1 and 2 pieces of a stock of 2, with all the faults that `ShopDependable` leaves, has visited
75 million states (not all distinct), among them paid orders beside returned ones and a stock that is sold out, and violated nothing.

`PaymentServiceProofs` (313 obligations, any orders, transactions, amounts and faults):

| Theorem | States |
|---|---|
| `PayTypeCorrect` | `Spec => []PayTypeOK` |
| `ReportsBackedSafe` | `Spec => []ReportsBacked` |
| `OneVerdictSafe` | `Spec => []OneVerdict` |
| `RowsAgreeSafe` | `Spec => []RowsAgree` |
| `LateTransactionSafe` | `Spec => NoLateTransaction` |

Assumed: `PaymentAssumption` (a transaction pays one order; the amount of the orders table is an amount,
no amount is none). The inductive invariant `PayInv` is `PayTypeOK`, `ReportsBacked` and `RowsAgree`, each
of which the others need: that a call may open the first transaction of an order without a row rests on the
rows agreeing. `OneVerdict` follows from what backs a report, as a row has one status.

`RefundServiceProofs` (472 obligations, any refunds, processes and faults):

| Theorem | States |
|---|---|
| `RefundTypeCorrect` | `Spec => []RefundTypeOK` |
| `RecordedSafe` | `Spec => []RefundsRecorded` |
| `RealSafe` | `Spec => []RefundsReal` |
| `FinalSafe` | `Spec => RefundFinal` |
| `RefundRecoverySafe` | `RSpec => [](RefundsRecorded /\ RefundsReal)`, under `Remaining` |
| `RefundRecoveryFinal` | `RSpec => RefundFinal`, under `Remaining` |

Assumed: `RefundAssumption` (`Accepts` is a Boolean, the idle value is no transaction). `RefundInv` adds to the
invariants what the activities know: a consumer about to commit knows that the row is there, and the lists
that a task holds contain only rows (and, among the successful, only returned refunds). This knowledge stays
true while other processes move, since nothing undoes a report, a row or a refund (`Grows`). `RSpec` has the two phases of
`RefundRecovery`; `Remaining` says that the failures its second phase still has are among those of the first, as in `refund_faults`.

`PromotionStockProofs` (1658 obligations, any requests, users, processes, stock and limit):

| Theorem | States |
|---|---|
| `StockTypeCorrect` | `Spec => []StockTypeOK` |
| `CompensationSafe` | `Spec => []CompensationApplied` |
| `StockSafe` | `Spec => [](NoOversell /\ WithinLimit /\ StockCovered)`, under `Sheltered` |
| `RecoveryCompensationSafe` | `RSpec => []CompensationApplied`, under `Remaining` |
| `OversellSafe`, `LimitSafe`, `CoverSafe` | `RSpec => []NoOversell`, `[]WithinLimit`, `[]StockCovered`, under `Sheltered` and `Remaining` |
| `ConservedSafe` | `RSpec => StockConserved`, under the same |

Assumed: `PromotionAssumption`. `StockInv` adds to the types and to `CompensationApplied` that, while the promotion is open, a consumer
about to commit holds a compensation that is already marked (`CompensatorKnows`). It is inductive because a step only ever adds
marks then: they are forgotten in the promotion's last second and never before. This much holds whatever fails.

The sums need more. A sum over requests is the cardinality of their pieces, `Total(S) == Cardinality(Units(S))`, so that facts about
finite sets stand for the induction the prover cannot do: to take or give a request's pieces adds or removes a set disjoint from the
rest (`TotalAdd`, `TotalRemove`). `Sheltered` says that there is no `retry`, `refresh`, `writeUnknown` or `rounding`: three of
them break the invariants (section 3, known limits), and with `retry` a request no longer stands for one purchase. `LedgerInv` is `StockInv`
with `Ledger`: `StockCovered`, which alone is no bound once the key has expired, so beside it the bounds themselves for everything sold and not
asked back (`Within(Sold)`, placed orders and those still in a caller's hands); a request is in one caller's hands at most
(`CallersApart`); it is sent before its order is placed, that before its compensation, that before its mark (`Ordered`);
and the stock is written before anything is sold (`LoadedOnce`). A calm step is one of `PromotionStock` too (`RecoverySteps`). `StockConserved` is
an action property: once the failures have ceased, each step of a script is balanced by a step of the account (`CalmAccount`).

`SupportProofs` (549 obligations). The loop of a consumer, for any group, any length of the partition, any faults:

| Theorem | States |
|---|---|
| `ConsumerTypeCorrect` | `Spec => []TypeOK` |
| `AtLeastOnceSafe` | `Spec => []AtLeastOnce` |
| `NoneSkippedSafe` | `Spec => []NoneSkipped` |

Assumed: `ConsumerAssumption` (the bound is a number). `AtLeastOnce` needs `NoneSkipped`, because a commit
covers all lower offsets; `Positive` adds that a loop with a message in hand has moved.

The amount, for any width of the integers, any column, any prices and quantities, and floats that are dense enough for the column:

| Theorem | States |
|---|---|
| `AmountTypeCorrect` | `AmountSpec => []AmountTypeOK` |
| `AmountExactSafe` | `AmountSpec => []AmountExact` |
| `RefundIsPaymentSafe` | `AmountSpec => []RefundIsPayment` |

Assumed: `AmountAssumption` and `FloatAssumption`: the floats reach from the least amount to a hundred times the largest, and have at least 300 values
between two powers of two for every unit of the column (float64 has 2^52, `DECIMAL(12,2)` wants 3 * 10^12). The test before the multiplication is exact: a quantity that
`quantity > MaxInt64/price` lets pass has
a product that does not wrap (`QuotientBounds`). `amountCents` of a column is the number of its hundredths (`CentsOfColumn`) although both the
column's value and a hundred times it are rounded: a rounding is off by one part of twice the precision at most (`NearestClose`), two of
them by less than half a cent, and a number that near to a whole one rounds to it (`RoundsTo`).
`AmountInv` adds that a report is the cents of the payment and a refund the report.

`ControlPlaneProofs` (171 obligations, any instances, leases and faults):

| Theorem | States |
|---|---|
| `PlaneTypeCorrect` | `PlaneSpec => []PlaneTypeOK` |
| `RegistrationHolds` | `PlaneSpec => []KeptKeyBound` |
| `SnapshotsCurrent` | `PlaneSpec => []RoutesCurrent` |

Assumed: `RegistryAssumption` (the idle value is no lease id). `RegistryInv` adds to `KeptKeyBound` that the lease of a Put has not
expired (`PutUnderLease`); that a fresh lease is one nobody refers to comes from the guard of `Grant`. `ControlPlane` is
composed of steps of the registry and steps of `watch`, so `RegistryInv` carries over (`PlaneSteps`), and `RoutesCurrent` is
inductive beside it: every step that changes a key says what it does to `event` and `missed`.

`GateRegistrationProofs` (403 obligations, any gates, servers, clients, leases and faults):

| Theorem | States |
|---|---|
| `GateTypeCorrect` | `Spec => []GateTypeOK` |
| `ServersExclusive` | `Spec => []OneGatePerServer` |

Assumed: `GateAssumption` (ids of servers are numbers, idle values are no members). `GateInv` adds to the types that a gate which
owns a server has its key, under its own living lease, unless it is `lost` (`Held`), so that two owners would be two values of one key;
that no two gates have one lease (`Distinct`), which keeps one gate's revocation from another's key; and that a connection not `late`
is at a gate that serves its server (`Admitted`). The first of a list exists because numbers are well-founded.

`GateConnectionProofs` (480 obligations, any calls, handlers, session ids):

| Theorem | States |
|---|---|
| `ConnTypeCorrect` | `Spec => []ConnTypeOK` |
| `WaitersAnswered` | `Spec => []StillAnswered` |
| `ResultsSingle` | `Spec => []OneResult` |

Assumed: `ConnAssumption` (goroutines are distinct). A result's way leads from `pending` through the hands of the reader or of `Close`
to the channel. `ConnInv` says that a call which has not entered is on no such way, that one which waits is on one, that nobody is on
two, and that an entry stands under its call's own id, which is what a reused id would break; `OwesLater` that `Close` owes nothing
before it has taken `pending`.

**Model-checked only**: liveness, because it rests on fairness. Every invariant, every action property and the refinement that the passing
runs check has a theorem. **Proved only**: `NoLateTransaction` (the code checks and inserts under one row lock, and a
small run would say no more) and the properties of `FlashSale`.

## 6. Not modelled, and the plan

Not modelled: rate limiters (a few assignments under one mutex each, over floating-point time), routing, authentication, login and
tokens (sequential), the log writer (a list under a mutex that goroutines append to and flush; what a failed push or a flush under way
at shutdown loses is log lines, and nothing of the shop depends on them), display lists and counts of `ws_gateway` and `gate_server`,
`KVLease` and `Discoverer.run` (called by nothing), contents of Envoy snapshots, decoding of messages, tables without behaviour
(`computing`, `item`), generated code (more than a quarter of the Go files' lines) and the accessors generated for tables.

1. *Done*: order, payment, refund, stock, kafka loop, amounts; registry and control plane; gates and their connections;
   recovery after failures; the order and pay services composed, and all four services of the shop; safety proofs of all of
   these, and the refinement of the order service's contract.
2. A contract of the stock (what a purchase promises the order service), so that `FlashSale` could be checked over two contracts
   instead of two services, and with it the liveness of the whole path.
3. The malformed message that stops a consumer for good, and TTLs as numbers (two hazards without a property).

Runs are kept few and each asks its own question; when modules are composed, the run of a part gives way to the run of the whole where that asks more.
