# TLA+ models of the stock exchange core

This directory specifies the exchange core in `src/`: the order book with its two
matching strategies, the gateway that batches orders on their way to it, the bytes
they travel as, the event queue and notification service that carry execution reports
back, the quote service, the recovery of lost batches, and the simulation of
`main.cpp` that puts them together. The modules are checked with TLC on small instances; the theorems are
checked with TLAPS for every value of the constants. Paths below are those of the repository
(`src/` is its root).

## 1. The system

```
 client threads            batch thread             notifier thread     quote thread
   submit                    run()                    run()               run()
     |                         |                        |                   |
 acceptOrder --- batchMutex ---+                        |                   |
     |  number, stamp, batch   |                        |                   |
     +-----> OrderBookPool::process(batch)              |                   |
               OrderBook::process  <---- (no lock) ---- | ---- getHighestBuy, ...
                 gap test, batchedMatch, match()        |
                 EventQueue::push --- queueMutex ------ pollWait
                                                        dispatch -> Client::getNotification
```

| Component | State | Operations | Called by |
|---|---|---|---|
| `OrderEntryGateway` | `running`, `batch`, the static `transactionCounter`, the batch thread | `start`, `stop`, `acceptOrder`, `run` | clients on any thread; `main` |
| `BatchSystemProtocol`, `translate` | 22 messages of 44 bytes; the static atomic `transactionId` | `add_message`, `get_message`, `get_all_messages`, checksum | gateway, order book |
| `OrderBook`, `OrderBookPool` | maps `bids` and `asks` of price levels; the static atomics `expectedTransactionNum`, `lastProcessedSeqNum` | `process`, `getHighestBuy`, `getLowestSell`, `getTopPriceLevels` | gateway under `batchMutex`; quote service under no lock |
| `MatchingStrategy`: `FIFOStrategy`, `ProRataStrategy` | none | `batchedMatch`, `match`, `allocate`, `validateOrder` | order book |
| `PriceLevel` | a `std::set` ordered by time, or by size | add, remove, update, best order, all orders | strategies |
| `EventQueue` | a queue; mutex and condition variable are statics of the file, shared by all queues | `push`, `poll`, `pollWait`, `wake` | order book, notification service |
| `TradeNotificationService` | `clients`, `running`, a thread | `start`, `stop`, `dispatch`, `run`, `addClient` | `main` |
| `RetransmissionService`, `SnapshotService` | a queue of messages, a queue of batches; nothing fills them | `batchRequest`, `getSnapshots`, (`processBatch`, `process`) | order book after a gap |
| `QuoteService` | subscribers, a thread | `publishQuotes`, `getSpread`, `getTopBids`, `getTopAsks` | its thread, users |
| `MarketMaker`, `NoiseTrader` | inventory, cash, last quotes; position and counters | `createOrder`, `getNotification`, `receiveQuoteUpdate` | `main`, notifier, quote service |

What is hard in it:

* **Two mutexes, one of them late.** `acceptOrder` stamps and numbers an order
  before it takes `batchMutex`, so orders can be queued out of the order of their
  numbers, and the number itself comes from an unsynchronised `int`.
* **Three ways out of the batch**: the caller that finds it full, the batch thread,
  and `stop()`. Together they must match every order once and in order.
* **Condition variables**: the batch thread and the notifier must not miss a
  notification, and `stop()` must not join a thread that sleeps on; `queueCv` is
  shared by queues whose readers have different predicates.
* **A matching loop seen from outside**: the quote service reads the maps between
  any two steps of a match.
* **Nested loops with early exits** over levels and orders, which change the set
  they walk through; partial fills, remainders that rest or are cancelled, and the
  pro-rata rounding.
* **Gap detection** from process-wide counters, with a recovery that has nothing to
  recover from in this program.
* **A participant that decides on what it has heard so far**: the market maker reads
  its inventory twice and a flag in between, while the notifier writes all three.
* **Offsets and capacities written out by hand** in the byte array of a batch.

What makes each component correct is stated with its module in section 3; the
hazards, line by line, are in `PROJECT.json`.

## 2. Modules

| Module | Models | Role |
|---|---|---|
| `Orders` | `message.h`, `types.h`, `price_level.*`, `validateOrder` | data, comparators, price level as a set |
| `OrderBook` | `batchedMatch`, the push loop of `OrderBook::process`, what both `match()` share | frame, invariants of the book |
| `FifoStrategy` | `fifo_strategy.cpp` | complete specification of a FIFO book |
| `ProRataStrategy` | `pro_rata_strategy.cpp` | complete specification of a pro-rata book, allocation properties |
| `BookAccounts` | — | what events add up to, accounting properties |
| `PriceTimeMarket` | — | abstract market: price-time priority in closed form |
| `FifoRefinement` | — | `FifoStrategy` implements `PriceTimeMarket` |
| `Quotes` | `quote_service.cpp`, the queries of `order_book.cpp` 87-133 | publishing thread, subscribers, a thread that asks, moving books |
| `Exchange` | `main.cpp`, `client/*`, over `FifoStrategy` | the whole simulation |
| `Recovery` | `OrderBook::process` 12-51, `snapshot_service.cpp`, `retransmission_service.cpp` | lost batches and what the stores bring back |
| `Wire` | `message.h` | orders as bytes in the array of a batch, checksum |
| `Gateway` | `order_entry_gateway.cpp`, `OrderBook::process` 12-51 | producers, batch thread, start/stop, gap test |
| `OrderFlow` | — | abstract channel: accepted messages are delivered once, in order, eventually |
| `GatewayRefinement` | — | `Gateway` with one sender implements `OrderFlow` |
| `Notification` | `event_queue.cpp`, `trade_notification_service.cpp` | queues, threads, start/stop with drain |
| `NotificationRefinement` | — | a service implements `OrderFlow` for each client |
| `MCFifo`, `MCProRata`, `MCQuotes`, `MCExchange`, `MCWire` | — | inputs for TLC; the other runs need only their `.cfg` |
| `Arithmetic` | — | facts about least elements, quotients and sums over sets, for the proofs |
| `FifoStrategyProofs`, `GatewayProofs`, `NotificationProofs`, `QuotesProofs`, `ExchangeProofs`, `WireProofs`, `RecoveryProofs` | — | theorems |

### Order book (`Orders`, `OrderBook`, `FifoStrategy`, `ProRataStrategy`)

`levels[s]` is the key set of the map in which side `s` rests, `resting[s][p]` the
`PriceLevel` at key `p`; the two branches of `match()` (buy and sell) are the same
code with `bids` and `asks` exchanged and become one, indexed by the side. A
`PriceLevel` is a set in which `Equivalent` orders (neither before the other under
the comparator) count as one, as in `std::set`: `AddOrder` inserts nothing when an
equivalent order is there, `RemoveOrder` removes what is equivalent, and
`UpdateOrder` is the one after the other. A partially filled order keeps its stamp,
hence its place under the time comparator, and changes its place under the size
comparator.

One step is one iteration: `Trade` is the body of FIFO's inner loop, `Allocate` one
call of `allocate()` with the taker's event after the makers', `EraseLevel` the
`erase` that follows an emptied level, `EndFilled`, `CancelRemainder` and
`RestRemainder` the three ways out, `SkipInvalid` the message that fails
`validateOrder`, `PushEvent` one call of `EventQueue::push`. `RestRemainder` joins the
`try_emplace` of the level to the `addOrder` that follows, and `Allocate` the changes to the
orders of one level: nothing in the code decides anything in between, and what a reader of
the maps sees there (a level with no order yet, or with some of them reduced) is in the range
of books `Quotes` reads. `Arrive` stands for
the gateway's batching; it gives each order any stamp of `Times`, because stamps
are taken before the lock and with a clock that may not advance between two calls.
The iterator of the outer loop is not a variable: a level is left only when it is
empty and has been erased or when nothing of the order is left, so it always stands
at `begin()` (`AtLevel`).

Left out: the `timestamp` and `checksum` fields of reports and messages (nothing
reads them), int16 widths (every quantity that trades is at most `MAX_QUANTITY`, and
differences and floors of such quantities stay in range; the sum over a level is an
`int32_t` in `allocate`), and a null strategy.

### Gateway (`Gateway`)

Each producer goes through `acceptOrder` in the steps other threads can get between:
`Enter` (the test of `running`), `LoadCounter` and `StoreCounter` (a `++` on a plain
`static int` is a load and a store), `Translate` (one `fetch_add`), `Enqueue`
(everything under `batchMutex`, a full batch processed first). The batch thread:
`LoopTest`, `Sleep` / `Flush` / `Break` under the lock, `Timeout` for the deadline of
`wait_for` and for spurious wakeups, `IdleRound` for a deadline with nothing to do.
`stop()`: the test of `running` (`StopCalled`), the locked part (`FinalBatch`),
`NotifyAll`, `Join`. `ProcessBatch` is `OrderBook::process` up to `batchedMatch`:
`GiveUp` when the first number is more than one past `lastProcessedSeqNum` (the
snapshots that replace the batch are none, so `process` returns `false` and changes
no counter), else `Match`, which advances `expectedTransactionNum` message by
message. What the strategy does with the messages is `FifoStrategy`'s subject;
here they go to `processed`. The requests to the recovery services are
remembered in `asked`. The two stores are empty because neither
`RetransmissionService::processBatch` nor `SnapshotService::process` has a caller.

The data race on `transactionCounter` is undefined behaviour by the language; it
is modelled by what a compiled read-modify-write can do (lost updates), not by tearing.

### Notification (`Notification`)

All `EventQueue`s of a process share one mutex and one condition variable, so one
module describes all services at once, each with its queue. `NotifyOne` wakes any one
sleeper, whichever queue it waits for; a woken thread tests its own predicate
(`Take` or `Sleep`), which does not know of `running`. `GiveUpWait` is the timeout,
`Deliver` the call of `dispatch` outside the lock, and `stop()` is `StopCalled`,
`WakeAll`, `Join`, `Drain` per event, `Drained`.

### Quote service (`Quotes`)

`subscriberMutex` is held for a round of `publishQuotes` (`MutexFree`); no lock protects
the books, so the two prices of a summary (`ReadBid`, `ReadAsk`), the two of a spread
(`AskSpread`, `AnswerSpread`) and the books of a depth query (`ReadBook`, one per book)
are read one at a time, and `BookMoves` puts any other book in between. `moved`
remembers under whom a book has moved: the properties say what holds when none did.
What a book can look like is a constant (`BookStates`), uncrossed as `FifoStrategyProofs`
shows. A side is a map whose keys are the levels (`Levels`), as in the code, and a key may be
there with nothing resting: a level stands empty between the trade that took its last order
and the `erase` (`fifo_strategy.cpp:39` and `:46`), and a quote read then may be its price,
a depth may spend one of its places on it. The properties say so: such a book is `Midway`,
and only of a book that is not do they promise that an order rests at the price quoted
(`QuotedAt`); in both cases no order rests at a better one. Prices are unsigned and the sum of a level is an `int16_t`: both wrap around, at
a word size of the instance. `Trim` drops one level when there are more than `depth`,
after each book, as the code does.

### Simulation (`Exchange`)

`Exchange` EXTENDS `FifoStrategy`: the book matches iteration by iteration while three
threads run. `main` stands in a noise trader's `createOrder` (`TraderSends`) or in one of
the steps of the maker's that other threads can get between: the prices from the first
read of the inventory (`MakerPrices`), the flag (`MakerTakesFlag`), the second read
(`MakerLooks`), the two orders. The notifier tells one event at a time
(`TellTrader`, `TellMakerFill`), and sets the maker's flag in a step of its own
(`MarkRequote`). `overtaken` is a history variable: a fill came between the first read and
the taking of the flag. `FillNotOverlooked` promises the prices of the present inventory
(`QuotesFor`) only without one. The shutdown is `GatewayStops` (the last batch is matched), then
`NotifierStops` (the queue is drained): what `Gateway` and `Notification` show of the two
services is used here instead of their threads.

### Recovery (`Recovery`)

Nothing in the program loses a batch, and nothing fills the two stores. `Recovery` gives
`OrderBook::process` the environment its gap detection is written for: a wire that may
lose batches (`Send`, `Lose`, external) and a tap at the sender that feeds the stores through
their public operations, at any later time (`Store`; `ordersFed` says whether
the retransmission service is fed too). That may be in the middle of a call of `process()`:
each store has a mutex of its own and the call holds neither. `getSnapshots` and `batchRequest` are modelled
with what they pop (`SnapshotsLeft`, `OrdersLeft`) as well as what they return: each loop
takes the messages or batches in front as long as they are `Below` a bound. The
loop of `process()` that inserts into the list it walks is one step per message (`Count`).

### Wire (`Wire`)

A field is its bytes, a batch an array of bytes; `AddMessage` and `GetMessage` place them
by the offsets of `message.h`, and the array has one message of memory behind its end to
show what would be written there. `translate` numbers an order and computes the checksum.
The number of values of a byte and the size of the array are constants.

### Abstract specifications

* `PriceTimeMarket` executes an order in one step. Each resting order's share is
  given in closed form: what is left of the order once everything ahead of it (better
  price, then earlier stamp, then lower id) has been served. The mapping of
  `FifoRefinement` shows a running match as the book it opened with, and lets the
  abstract step happen when `match()` returns.
* `OrderFlow` has two sequences, `accepted` and `delivered`; the second is always a
  prefix of the first and is eventually all of it. The gateway with one sender
  implements it (`delivered <- processed`), and so does a notification service for
  each of its clients (`accepted` = the events pushed for the client, `delivered` =
  the calls of its `getNotification`).

## 3. Runs

| Run | Properties | What it shows |
|---|---|---|
| `fifo` | `TypeOK`, `BookUncrossed`, `BookWellFormed`, `AccountsBalance`, `ReportsMatchBook`, `LifecycleOrdered`, `ImplementsPriceTime` | every kind of order, sweeps, partial fills; price-time priority |
| `prorata` | `BookUncrossed`, `AccountsBalance`, `AllocationFair` | levels with unequal orders, remainders of the rounding |
| `gateway_main` | `InOrder`, `NoFalseAlarm`, `ImplementsOrderFlow` | the gateway as `main.cpp` uses it, and a second gateway on the counters of the first |
| `gateway_threads` | `AcceptedOnce`, `AcceptedKept`, `ClientOrderKept`, `AcceptedIsHandled`, `StopReturns` | two senders, `stop()` racing with them, and a second `start()`; an order matched after a later one of its client is matched for the second time |
| `notify_main` | `ClientsHearInOrder`, `PushedIsDelivered` | one service started twice, pushes at any time, unregistered users, no help from the timer |
| `notify_pair` | `NothingLeftAtStop`, `ImplementsChannel`, `StopReturns` | two services on one condition variable; shutdown in `main.cpp`'s order loses no event |
| `quotes` | `PricesTrue`, `DepthTrue`, `NoLateCall`, `SubscriberHears` | what is published and answered is true of books that did not move meanwhile, also of one in the middle of a match; nobody who left is called, who stays hears |
| `exchange` | `NetPositionZero`, `TradersAnswered`, `QuotesPositive`, `FillNotOverlooked`, `SimulationEnds` | `main.cpp` from the first order to the totals it prints |
| `recovery` | `NoHole`, `MatchedInOrder`, `CaughtUp`, `MatchedAtMostTwice`, `ProcessReturns` | lost batches, stores that lag behind, have let a batch go or are fed during a call |
| `wire` | `NothingPastTheEnd`, `HandedIsAccepted`, `ChecksumTells` | offsets, capacity, what the checksum detects |
| `gateway_gap`, `maker_bound` | one each | disagreements with the documentation, below |

`CHECK_DEADLOCK FALSE` everywhere except in `quotes`: the bounded system ends in a state
in which every order has been sent and the services are stopped or idle. The type
invariants of `Gateway`, `Notification`, `Quotes`, `Wire` and `Recovery` are proved instead of run
(section 4).

**Bounds.**

* `fifo`, `prorata`: two prices and two stamps are enough for every branch of the
  comparators and for a sweep over two levels; four orders give resting orders and one
  that meets them, also across a batch boundary (`BatchCap` 2 for 22). `MaxQuantity` 3 with
  an order of 4 exercises the rejected size; pro-rata has sizes 1, 3 and 5 against 4, 2
  and 6, which leave a remainder of the rounding and also empty whole levels.
* `gateway_*`: `main` has a batch of 3 and 7 orders, so that the full-batch path, the
  flush and the final batch of `stop()` all occur in one behaviour; `threads` has two
  producers, a batch of 2 and 3 orders, enough for every race of two callers with a
  `stop()` and a restart.
* `notify_*`: four events and three users (one unregistered); two events for each of two
  services.
* `quotes`: two books, four states of a book (a single level just emptied; two-sided; bids
  only; asks only, the best of three levels just emptied), words of three bits, depth 2, two
  clients and a restart: 452 400 states. A level of 5 is already negative there, the levels
  of the two books together exceed the depth, and an emptied level takes a place in it.
* `exchange`: two traders, two rounds, the inventory limit at one and quotes of 2, so
  that a fill takes the maker past its limit; prices 1 to 7, a tick being a fifth of the
  half spread: 393 169 states.
* `recovery`: up to seven orders in batches of one to three, and a store of two batches, so
  that batches are lost in a row, evicted, or not yet stored, and that one question for
  retransmission is answered with several orders: 161 275 states.
* `wire`: a byte of four values, an array two messages long, five orders: batches fill,
  are handed over and reused.

`MaxOrders`, `MaxStarts` and `MaxEvents` are the only bounds on behaviour and stand in
the guards of `Arrive`, `Enter`, `Start`, `Send`, `AcceptOrder` and `Push`; `Rounds` is the
program's own.

**Fairness.** `Gateway!FairSpec`: weak fairness of the
batch thread and of a `stop()` in progress, that is, threads are scheduled and a lock
that is released again and again is obtained. No fairness for the callers, and none for
the timer or for spurious wakeups: `AcceptedIsHandled`, `StopReturns` and
`ImplementsOrderFlow` hold without them, so condition variables alone carry the hot
path. `Notification!FairSpec` likewise; `TimedSpec` adds strong fairness of `Timeout`:
`wait_for` computes its deadline once, so being woken in between does not put it
off and time does pass. `notify_main` shows that with one service no event needs the
timer. With two services it does: the one notification of a push may wake the wrong
thread, which goes back to sleep. `stop()` needs it in any case: `wake()` does not end a
`pollWait` on an empty queue, whose predicate tests only the queue (`event_queue.cpp:35`;
the comment in `event_queue.h:21` reads as if it did), so `stop()` can take up to 50 ms.
`Quotes!FairSpec`: the publishing thread is scheduled, and its sleep ends.
`Exchange!SimFairSpec`: each of the three threads is scheduled; that the batch thread and
the notifier do not sleep through work is what the liveness properties of `Gateway` and
`Notification` show. `Recovery!FairSpec`: `process()`, once called, goes on; the wire and
the stores may do anything. That it returns (`ProcessReturns`) also rests on `MaxOrders`: the
loop goes on as long as its questions are answered, so a store fed as fast as the loop empties
it could keep the call going. What is shown is that it ends when the feed does, whenever that is.

### Disagreements with the documentation

Two are runs whose property TLC violates:

1. `gateway_gap`: two callers number their orders in one order and lock in the other.
   The book sees a gap, asks for snapshots nobody stored, drops the batch, and since
   `lastProcessedSeqNum` stays where it is, drops every batch whose head is no nearer.
   (`README.md:12` and `:64` claim thread safety and recovery.)
2. `maker_bound`: the market maker tests its limit before it adds a quote of full size to
   those it has left on the book, GTC and never cancelled, in earlier rounds. When several
   are hit, its inventory passes the limit by more than one quote (`README.md:84`: the
   limit "bounds its risk").

Seen while modelling, and named here because the properties above are stated around them:

3. The gateway accepts any positive quantity (`order_entry_gateway.cpp:51`), the strategy
   passes over one above `MAX_QUANTITY` without an event (`matching_strategy.cpp:11`). An
   IOC order of that size is neither traded nor reported `Cancelled`, which `README.md:60`
   promises; `AccountsBalance` speaks of the orders that pass `validateOrder`, and of one that
   does not, no property asks for an event.
4. `transactionCounter++` is not atomic; two orders can carry one number. `AcceptedOnce` and
   `AcceptedKept` hold in spite of it; no property asks for distinct numbers.
5. `stop()` leaves the processed batch in place; after another `start()` it is matched
   again. `AcceptedOnce` speaks of the first run of a gateway; `ClientOrderKept` speaks of all
   runs and allows for an order that is matched a second time, after later ones of its client.
6. A spread, or the two prices of a published summary, may be crossed (and the unsigned
   spread enormous) when the book moves between the two reads.
7. The depth of two books or more may hold more levels than asked for: one level too many
   is dropped per book (`quote_service.cpp:97`). The first `depth` of them are right.
8. Once a gap was recovered, `expectedTransactionNum` is behind for good. With a
   `RetransmissionService` that is fed, `process()` then asks it for orders already
   matched and matches them again: without its antecedent, `MatchedInOrder` fails after
   seven orders. Twice is the most (`MatchedAtMostTwice`): once from a batch, once from the
   store. The bounds it passes are sequence numbers (from 1) where the store
   compares transaction ids (from 0).
9. The checksum is a sum of words: it tells any one changed byte (`ChecksumTells`), but not
   two words exchanged, and nothing in the program verifies it (`README.md:66`).
10. "A fresh order book expects it to start at 1" (`tests/performance/runner.cpp:22`) is not
   what the code does: the book's counters are as process-wide as the gateway's
   (`order_book.h:17`), and one gateway after another is no trouble (`NoFalseAlarm`). What is:
   `performance_tests.cpp:158` to `:228` feed books without a gateway, with numbers that start
   again at 1. That leaves `lastProcessedSeqNum` behind the gateway's counter when the latter has
   come further, and the next gateway's batches are then dropped as if something had been lost. `NoFalseAlarm`
   speaks of books that only gateways feed; no run has the others.
11. A fill that the market maker is told of after it has read the inventory for its prices
   (`market_maker.cpp:26`) and before it takes the flag (`:30`) leaves it with prices of the older
   inventory and no flag, until `createOrder` is called again. `README.md:84` has it requote
   "when a fill arrives". `FillNotOverlooked` names the exception (`overtaken`).
12. A quote or a depth read in the middle of a match can be the price of a level at which nothing
   rests any more (section 2, Quote service).

`main.cpp` meets none of 1, 4 to 10 and 12: it sends from one thread, starts each service once,
and starts neither a quote service nor anything that loses a batch. That is what
`QuiesceBeforeStop`, a single producer and `Restarts = FALSE` say in `gateway_main` and
in the theorems.

## 4. Proofs

All proofs are checked by TLAPS with no assumption beyond the named `ASSUME`s of the
modules (`OrdersAssumption`, `BookAssumption`, `FifoAssumption`, `GatewayAssumption`,
`NotificationAssumption`, `QuotesAssumption`, `ExchangeAssumption`, `WireAssumption`,
`RecoveryAssumption`), which TLC evaluates in the runs. They say no more than the program's own
numbers do; `Aggression < ReferencePrice`, for one, keeps `referencePrice - aggression` of a
selling trader from wrapping around (`noise_trader.cpp:21`; `main.cpp` passes 10 and 10000).

| Theorem | States |
|---|---|
| `FifoStrategyProofs!TypeCorrect` | `Spec => []TypeOK` |
| `FifoStrategyProofs!NeverCrossed` | `Spec => []BookUncrossed` |
| `FifoStrategyProofs!AlwaysWellFormed` | `Spec => []BookWellFormed` |
| `FifoStrategyProofs!LifeAsReported` | `Spec => []LifecycleOrdered` |
| `FifoStrategyProofs!BookAsReported` | `Spec => []ReportsMatchBook` |
| `FifoStrategyProofs!BooksBalance` | `Spec => []AccountsBalance` |
| `GatewayProofs!TypeCorrect` | `Spec => []TypeOK` |
| `GatewayProofs!MainInOrder` | `MainThread => (Spec => []InOrder)` |
| `GatewayProofs!MainNoFalseAlarm` | `MainThread => (Spec => []NoFalseAlarm)` |
| `GatewayProofs!ThreadsAcceptedKept` | `Restarts => (Spec => []AcceptedKept)` |
| `GatewayProofs!ThreadsAcceptedOnce` | `Spec => []AcceptedOnce` |
| `GatewayProofs!ThreadsClientOrder` | `Spec => []ClientOrderKept` |
| `GatewayProofs!MainIsOrderFlow` | `MainThread => (Spec => Flow!FlowSafety)` |
| `QuotesProofs!QuotesTypes` | `Spec => []TypeOK` |
| `QuotesProofs!QuotedPricesTrue` | `Spec => []PricesTrue` |
| `QuotesProofs!QuotedDepthTrue` | `Spec => []DepthTrue` |
| `QuotesProofs!NobodyCalledLate` | `Spec => NoLateCall` |
| `NotificationProofs!NotificationTypes` | `Spec => []TypeOK` |
| `NotificationProofs!ClientsHearAll` | `Spec => []ClientsHearInOrder` |
| `NotificationProofs!StopLeavesNothing` | `QuiesceBeforeStop => (Spec => []NothingLeftAtStop)` |
| `NotificationProofs!ClientsSeeOrderFlow` | `Clients # {} => (Spec => Channel!FlowSafety)` |
| `ExchangeProofs!SimulationRunsBook` | `SimSpec => Spec` (of `FifoStrategy`) |
| `ExchangeProofs!SimulationNeverCrossed` | `SimSpec => []BookUncrossed` |
| `ExchangeProofs!NoFillOverlooked` | `SimSpec => []FillNotOverlooked` |
| `ExchangeProofs!MakerQuotesPrices` | `SimSpec => []QuotesPositive` |
| `ExchangeProofs!MakerProvidesLiquidity` | `SimSpec => []MakerOnOneSide` |
| `ExchangeProofs!PositionsAddUp` | `SimSpec => []NetPositionZero` |
| `ExchangeProofs!EveryTraderAnswered` | `SimSpec => []TradersAnswered` |
| `RecoveryProofs!RecoveryTypes` | `Spec => []TypeOK` |
| `RecoveryProofs!LossesLeaveNoHole` | `Spec => []NoHole` |
| `RecoveryProofs!RecoveredInOrder` | `Spec => []MatchedInOrder` |
| `RecoveryProofs!RecoveryCatchesUp` | `Spec => []CaughtUp` |
| `RecoveryProofs!TwiceAtMost` | `Spec => []MatchedAtMostTwice` |
| `WireProofs!WireTypes` | `Spec => []TypeOK` |
| `WireProofs!WireInBounds` | `Spec => []NothingPastTheEnd` |
| `WireProofs!WireReadsBack` | `Spec => []HandedIsAccepted` |
| `WireProofs!WireChecksumTells` | `Spec => []ChecksumTells` |

*Order book.* Neither property is inductive alone. Resting the remainder keeps the
book uncrossed because `LoopDone` leaves no opposite level that the order crosses and
because a level without orders is gone by then; it keeps the book well formed because
what is left of the order is at most what `validateOrder` let through; and a level may
be vacant only while a match on the other side runs. `Inv` joins `TypeOK`,
`BookWellFormed`, `BookUncrossed` and `TakerBounded` (the order in hand is within
`MaxQuantity`). `LevelAfterBounds` and `AddOrderBounds` say what a trade and
an insertion do to a level; `TradeFacts` and `RestFacts` lift them to the two steps that
change the book; each conjunct then has a lemma with one step per action.

*Reports and accounts.* `ReportsInv` joins to `Inv` that ids count the orders in the order
they were sent and that an id is on the book or in hand once at most (`IdsInStep`), and that what
was said so far fits the book, also while an order is in hand (`SaidInStep`): neither
`LifecycleOrdered` nor `ReportsMatchBook` is inductive without them, for a second `Added` is
impossible only because whoever has been Added is on the book and not in hand.
`AccountsInv` adds the balance of each order the matching has got to (`AccountsInStep`). Its sums
are folds that take the elements in an order nobody knows; `Arithmetic` shows once, by a least
counterexample, that one element more adds its term and that the order is of no
consequence. The rest is one lemma per kind of step: `AccountAppend` for an event, and what a trade, an
insertion and a removal do to the quantities of the book.

*Gateway.* `MainThread` is the assumption that one producer calls `acceptOrder`, is done
before `stop()`, and that the gateway is started once. `InOrder` needs `MainInv`: the
accepted orders carry the numbers 1, 2, 3, ... (`Numbered`), the call in progress is
about to add the next one (`CallerInStep`), the two counters of the book agree with the
length of `processed` (`BookInStep`), and the gateway runs exactly from `start()` until
`stop()` holds the mutex (`ControlInStep`). `HandOver` shows once that
processing such a batch keeps all of it; the full batch, the flush and the final batch
cite it.

*Gateway, any number of callers.* Every step leaves all orders where they are, appends
one to the batch, or moves the batch to what was matched or given up (`StepMoves`,
`Handled`). That the batch never loses an order (`Kept`) is inductive as it stands as long
as no gateway is replaced. That each is in one place once, in the first run, is not: `FirstRun` adds that
`processed`, `dropped` and the batch are each in order and the batch after the other two
(`Tidy`), and that an order already numbered but not yet queued comes after all of its
client's and shares its id with nobody (`HeldInTurn`). A `transactionCounter` that loses an
update and a batch given up disturb none of this: ids come from an atomic, and dropping the
batch takes away a final piece. `FirstRun` ends when `stop()` holds the mutex, and only there.

*Gateway, the order of a client.* `ClientOrderKept` goes on through the final batch and the
restarts, where `Tidy` is gone: the batch then holds orders that were matched already. What
lasts is `ClientsInv`: each order in the batch either comes after all that was matched of its
client or has been matched before (`NewOrMatched`), the batch is in each client's order
(`Rising`), and an order numbered but not yet queued comes after all of its client's. From these,
matching the batch, by whomever, puts an order behind a later one of its client only when it is
matched for the second time (`MatchedAgain`). Ids are never used twice, whatever becomes of
`transactionCounter`.

*Gateway, the abstract channel.* `MainIsOrderFlow` is the step simulation of `OrderFlow`:
`InOrder` makes what is matched a prefix of what was accepted, `ProcessedGrows` never takes
any of it back, and `CountInStep` bounds the ids and numbers of the messages.

*Notification, a client's channel.* `ClientsSeeOrderFlow` is the step simulation of `OrderFlow` for
a client of a service. Every step pushes an event to the service, hands one out or does neither
(`ServiceMoves`). `ClientsHearInOrder` counts what a client heard; the simulation needs it as a
sequence: `SharesHeard` says that a client has heard exactly its `Share` of the events handed out,
in their order, and `ShareStarts` that the share of fewer events is a prefix of the share of more.
The refinement mapping `For` is a recursive function for this proof's sake: the provers know
nothing of `SelectSeq`. That some client exists is the theorem's hypothesis, for the mapping
chooses one.

*Quotes.* `BestExists` (a set of numbers has a least element) makes the two prices of one
moment those of an uncrossed book, emptied levels included, and `QuotedAt` follows because an
order that rests is on some level; `SpreadOfMoment` makes the unsigned difference a true one.
`PublishedInStep` and `AskedInStep` say that a price read still holds until the move of book 0
is remembered in `moved` (`MovesNoticed`). `CallsInStep` needs the mutex: whom the round has
still to call stays subscribed because `Unsubscribe` waits for the end of the round.

*Quotes, the depth.* `ReadSoFar` is what holds between two books: the first `depth` levels of
the books read so far are kept, each with all that rests there in them, wrapped. That is less than the
answer promises about what is kept (levels behind the first may be too many, or short of a
book), and it is enough: a level among the first of more books is among the first of
fewer (`FirstOfFewer`), hence in what each book gives and in what was kept; `Trim` never reaches
it, since it keeps `depth` levels or more; and at the end dropping levels behind the first ones
changes nothing (`FirstOfKept`, which needs `FirstFills`: the first n of n or more are
n). Wrapping on the way or at the end is the same (`WrapSum`), and the quantity of the pool is
the sum over its books in whatever order (`PoolAddsUp`).

*Notification.* `Inv` adds to the types that the thread which calls `stop()` knows whether
the processing thread exists (`ThreadsInStep`), and `EventsKept`: of the events pushed, the
last ones are in the queue, the one before them may be in the thread's hand, and what each
client has heard is its share of all the others (`Kept`, `Heard`). Neither holds without
the other: `stop()` may hand out the queue itself only because, after `Join`, no thread holds
an event. `PushKeeps`, `TakeKeeps`, `DeliverKeeps` and `DrainKeeps` say what the four moves
of an event do to `Kept`; all other steps move none. The services share only the condition
variable, and who is woken touches none of this: order never depends on it.

*Simulation.* Every step of `Exchange` is a step of its book or leaves the book alone
(`StepDrivesBook`), so the simulation is a behaviour of `FifoStrategy` and the theorems
about the book carry over. `FlagInv` says, for each place at which `createOrder` and
`getNotification` can stand, what a flag that is down entails of the sides quoted and, unless
`overtaken`, of the prices. `OwnerInv` follows the
maker's and the traders' orders from the batch through `match()` onto the book.
`NetPositionZero` and `TradersAnswered` hold only at the end, after a shutdown; `SharesInv`
says what leads there: every trade is in the log twice, once for each side, and what a
trader was answered is what it ordered less what is in hand (`SharesInStep`); the ledgers are the sums
over the events handed out so far, whoever heard them (`LedgersInStep`); and from the stop of the
gateway on nothing is under way (`QuietInStep`). It rests on `ReportsInv` and `OwnerInv`: no order
of a trader ever rests, so all of it has been answered when its match returns.

*Wire.* `IInv` joins the types, the fit of the messages counted (`count * 44 < BatchSize`),
`NothingPastTheEnd` and `HandedIsAccepted`. `PlacesApart` and `PlacesCover` say that the
fields neither share nor miss a byte, `RoundTrip` that a message read back is the one
written, `AddedMessage` that adding one leaves those before it alone. `WireAssumption` is
what the numbers of the code satisfy: 44 < 1000 <= 44 * 256. For `ChecksumTells`, `IInv` also has
every order sent verify (`Sound`). A word is the sum of its bytes, each with its
`Weight`, and a byte is one digit of it (`WordOfBytes`, `DigitUnique`, on `Division` and
`DivideTwice` of `Arithmetic`), so one changed byte moves its word, and a word
both its halves or only one, by something that is not a multiple of `WordSize` (`HalvesApart`,
`SignsApart`); the sum of the words then has another remainder (`ChecksumApart`), and a
changed checksum is another number (`ChangeDetected`). A bool is a byte that is 0 or 1
(`ClientMessage`): the sum takes 1 for any other, so two of those would not be told apart, but
neither is the representation of a bool.

*Recovery.* `NoHole` needs to know where each order is. `BatchesInStep` keeps the batches on the
wire, at the tap and in the store whole and in order; `StoresInStep` says that whatever was sent
after the last order processed is stored, let go, or about to be matched; `CallInStep` that the
messages of a call in progress close the gap up to their end; `OrderInStep` that they and what was
matched ascend, as long as nothing is retransmitted; `CountersInStep` that the two counters agree until
a gap is seen. `FlattenFacts` (the messages of several batches, one after the other, are those
of the batches and in their order) goes by a least counterexample over the prefixes of the list of
batches, `SnapshotFacts` says what `getSnapshots` returns and leaves behind, and each action has a lemma.

`MatchedAtMostTwice` does not follow from that: the retransmitted orders are in no order with those
around them. `TwiceInv` adds what the two sources have handed over between them. `OrdersInLine`: the
service holds its orders ascending and before those it is still to be fed. `FromEachSourceOnce`: an
order the service may still hand out was handed over once at most, one whose batch has not come yet
once at most, and one that may still come from both never. `Inserted` says what becomes of repetitions
when ascending orders are put into a sequence, `HandedOut` that `batchRequest` keeps nothing of what
it returns; each action moves orders from one source to what was handed over, or moves nothing.

**Model-checked only.** Liveness, with it the second half of `ImplementsOrderFlow` and
`ImplementsChannel`, is outside TLAPS's reach. `ImplementsPriceTime` and the properties of the
pro-rata book (its `AccountsBalance` too: the theorem is about FIFO) rest on folds
or on the recursive function of `HandOut`; some of it can be reached the way `Arithmetic` reaches
sums (section 6).

## 5. Not modelled

* `MarketMaker::receiveQuoteUpdate`, `cash` and the totals computed from it: `main.cpp`
  starts no quote service, so the fair value keeps its first value, and no control
  depends on the cash account.
* The unsynchronised `fairValue` that a quote thread would write while `createOrder` reads
  it: it is read once, so there is nothing between a read before and one after the write.
* Undefined behaviour of reading a `std::map` during an insertion (the quote thread's
  data race): the model shows it the states between two steps of a match, not the inside
  of a rebalancing.
* `std::terminate` when a service other than the gateway is started twice: `Start` is
  enabled only when no thread runs.
* The threads of the two recovery services, which only sleep, and their lists of
  consumers, which nothing reads.
* `OrderEntryGateway::forward` and `process` and `TradeNotificationService::forward`, which
  nothing calls.
* Books fed without a gateway, as two of the benchmarks do (disagreement 10).
* Logging, `ServiceInterface` (no state), tests, benchmarks and build files.

## 6. Plan

The order is that of importance to the exchange. Done: 1 to 9.

1. `Orders`, `OrderBook`, `FifoStrategy`, `BookAccounts`, `PriceTimeMarket`,
   `FifoRefinement`, `ProRataStrategy`, and the proofs about the FIFO book.
2. `Gateway`, `OrderFlow`, `GatewayRefinement`, and the proofs about one sender.
3. `Notification`, `NotificationRefinement`, and the proofs about what a client hears.
4. `Quotes`.
5. `Exchange`, and the proofs about the book and the maker in it.
6. `Recovery`.
7. `Wire`, and its proofs.
8. Proofs about any number of callers of the gateway, its step simulation of `OrderFlow`,
   and the proofs about `Quotes`.

9. Proofs about reports and accounts of the FIFO book (with `Arithmetic`), about the totals of
   the simulation, about `Recovery`, the checksum, the depth and the channel of a client.

Left: proofs of `BookUncrossed` and `BookWellFormed` for pro-rata, and of the step simulation
of `PriceTimeMarket`; a market maker that is fed by the quote service, should `main.cpp` come to start one.
