----------------------------- MODULE OrderBook ------------------------------
(***************************************************************************)
(* One order book taking a batch: OrderBook::process from the call of      *)
(* batchedMatch on, MatchingStrategy::batchedMatch, and the frame both     *)
(* strategies' match() share.  FifoStrategy and ProRataStrategy add the    *)
(* step that trades.                                                       *)
(*                                                                         *)
(* The whole of it runs under the gateway's batchMutex, but the quote      *)
(* thread reads the book without that lock, so a match is modelled loop    *)
(* iteration by loop iteration: every state between two of them is one     *)
(* that getHighestBuy, getLowestSell and getTopPriceLevels can see.        *)
(*                                                                         *)
(* match() has one branch per side, the same code with bids and asks       *)
(* exchanged.  Here both maps are indexed by the side that rests in them:  *)
(* levels["buy"] is the key set of `bids`, resting["buy"][p] the PriceLevel*)
(* at key p.                                                               *)
(***************************************************************************)
EXTENDS Orders, Sequences

CONSTANTS
  Inputs,    \* the client orders that may be sent, with their stamps
  MaxOrders, \* bound on the number of orders sent
  BatchCap,  \* messages a batch holds (22 in the code)
  NoOrder    \* no match is running

ASSUME BookAssumption ==
  /\ Inputs \subseteq ClientOrder
  /\ MaxOrders \in Nat
  /\ BatchCap \in Nat \ {0}
  /\ NoOrder \notin Order

VARIABLES
  levels,    \* [Side -> set of prices]: the keys of the maps bids and asks
  resting,   \* [Side -> [Prices -> set of orders]]: the PriceLevels
  phase,     \* "idle", or "match" while OrderBook::process runs
  incoming,  \* the messages of the batch still to be matched
  taker,     \* match()'s local copy `order`, or NoOrder
  fills,     \* match()'s local `events`
  pending,   \* batchedMatch's `events`, not yet pushed
  published, \* every event pushed to the EventQueue, in order
  sent,      \* history: every order the gateway batched, in arrival order
  opening    \* history: the resting orders and the order when match() began

vars == <<levels, resting, phase, incoming, taker, fills, pending, published,
          sent, opening>>

bookVars == <<levels, resting>>

NoOpening == [book |-> {}, order |-> NoOrder]

Resting(side) == UNION {resting[side][p] : p \in Prices}

Init ==
  /\ levels = [s \in Side |-> {}]
  /\ resting = [s \in Side |-> [p \in Prices |-> {}]]
  /\ phase = "idle"
  /\ incoming = <<>>
  /\ taker = NoOrder
  /\ fills = <<>>
  /\ pending = <<>>
  /\ published = <<>>
  /\ sent = <<>>
  /\ opening = NoOpening

-----------------------------------------------------------------------------
(* The gateway fills a batch and hands it over.  The stamps of concurrent  *)
(* callers are taken before the batch lock, so they arrive in any order.   *)

Accept(c) ==
  /\ phase = "idle"
  /\ Len(incoming) < BatchCap
  /\ incoming' = Append(incoming, NewOrder(c, Len(sent)))
  /\ sent' = Append(sent, NewOrder(c, Len(sent)))
  /\ UNCHANGED <<bookVars, phase, taker, fills, pending, published, opening>>

Arrive ==
  /\ Len(sent) < MaxOrders
  /\ \E c \in Inputs : Accept(c)

StartBatch ==
  /\ phase = "idle"
  /\ incoming # <<>>
  /\ phase' = "match"
  /\ UNCHANGED <<bookVars, incoming, taker, fills, pending, published, sent, opening>>

-----------------------------------------------------------------------------
(* batchedMatch takes the messages one by one. *)

AtNextMessage == phase = "match" /\ taker = NoOrder /\ incoming # <<>>

\* A message that fails validation is passed over without any event.
SkipInvalid ==
  /\ AtNextMessage
  /\ ~ValidateOrder(Head(incoming))
  /\ incoming' = Tail(incoming)
  /\ UNCHANGED <<bookVars, phase, taker, fills, pending, published, sent, opening>>

BeginMatch ==
  /\ AtNextMessage
  /\ ValidateOrder(Head(incoming))
  /\ taker' = Head(incoming)
  /\ incoming' = Tail(incoming)
  /\ opening' = [book |-> Resting("buy") \union Resting("sell"),
                 order |-> Head(incoming)]
  /\ UNCHANGED <<bookVars, phase, fills, pending, published, sent>>

-----------------------------------------------------------------------------
(* match(): the loop over the opposite map, from its begin().  A level is  *)
(* left behind only when it is empty and erased, or when nothing of the    *)
(* order is left, so the iterator always stands at the first key.          *)

\* Mutants: an order does not meet its own limit; a sell does not.
CrossesStrictly(o, price) ==
  IF o.side = "buy" THEN price < o.price ELSE price > o.price

CrossesBuysOnly(o, price) ==
  IF o.side = "buy" THEN price <= o.price ELSE price > o.price

Crosses(o, price) ==
  IF o.side = "buy" THEN price <= o.price ELSE price >= o.price

\* `bids` sorts its keys descending, `asks` ascending.
BetterPrice(side, p, q) == IF side = "buy" THEN p > q ELSE p < q

\* The iterator stands at level p, and the break at the loop's head is not taken.
AtLevel(p) ==
  /\ p \in levels[Opposite(taker.side)]
  /\ \A q \in levels[Opposite(taker.side)] :
       ~BetterPrice(Opposite(taker.side), q, p)
  /\ Crosses(taker, p)

\* Whether an emptied level is still in the map.
StaleLevel == \E p \in levels[Opposite(taker.side)] :
                resting[Opposite(taker.side)][p] = {}

EraseLevel ==
  /\ taker # NoOrder
  /\ \E p \in levels[Opposite(taker.side)] :
       /\ resting[Opposite(taker.side)][p] = {}
       /\ levels' = [levels EXCEPT ![Opposite(taker.side)] = @ \ {p}]
  /\ UNCHANGED <<resting, phase, incoming, taker, fills, pending, published, sent, opening>>

\* Mutant: the loop tests the price only.
LoopDoneByPrice ==
  /\ taker # NoOrder
  /\ ~StaleLevel
  /\ \A q \in levels[Opposite(taker.side)] : ~Crosses(taker, q)

\* The loop is over: nothing is left, or no key of the opposite map crosses.
LoopDone ==
  /\ taker # NoOrder
  /\ ~StaleLevel
  /\ \/ taker.qty = 0
     \/ \A q \in levels[Opposite(taker.side)] : ~Crosses(taker, q)

\* What every return from match() does: its events join the batch's.
Return(events) ==
  /\ pending' = pending \o events
  /\ fills' = <<>>
  /\ taker' = NoOrder
  /\ opening' = NoOpening
  /\ UNCHANGED <<phase, incoming, published, sent>>

EndFilled ==
  /\ LoopDone
  /\ taker.qty = 0
  /\ Return(fills)
  /\ UNCHANGED bookVars

CancelRemainder ==
  /\ LoopDone
  /\ taker.qty > 0
  /\ taker.tif = "IOC"
  /\ Return(Append(fills, Report(taker, "Cancelled", taker.price, taker.qty)))
  /\ UNCHANGED bookVars

RestRemainder ==
  /\ LoopDone
  /\ taker.qty > 0
  /\ taker.tif # "IOC"
  /\ levels' = [levels EXCEPT ![taker.side] = @ \union {taker.price}]
  /\ resting' = [resting EXCEPT ![taker.side][taker.price] = AddOrder(@, taker)]
  /\ Return(Append(fills, Report(taker, "Added", taker.price, taker.qty)))

\* Mutants: a partial fill reports the whole order; a partial fill reports Filled.
MakerReportWhole(cur, q) ==
  Report(cur, IF cur.qty = q THEN "Filled" ELSE "PartiallyFilled", cur.price, cur.qty)

MakerReportFilled(cur, q) == Report(cur, "Filled", cur.price, q)

\* Mutant: a filled order stays in its level.
LevelAfterKeeping(level, cur, q) == UpdateOrder(level, cur, [cur EXCEPT !.qty = @ - q])

\* Mutant: the comparison for the status is turned.
TakerReportTurned(q, price) ==
  Report(taker, IF taker.qty < q THEN "PartiallyFilled" ELSE "Filled", price, q)

\* processFilledOrder and processPartiallyFilledOrder: the resting order `cur`
\* trades q and leaves the level or stays in it with what is left.
MakerReport(cur, q) ==
  IF cur.qty = q THEN Report(cur, "Filled", cur.price, cur.qty)
                 ELSE Report(cur, "PartiallyFilled", cur.price, q)

LevelAfter(level, cur, q) ==
  IF cur.qty = q THEN RemoveOrder(level, cur)
                 ELSE UpdateOrder(level, cur, [cur EXCEPT !.qty = @ - q])

TakerReport(q, price) ==
  Report(taker, IF taker.qty > q THEN "PartiallyFilled" ELSE "Filled", price, q)

-----------------------------------------------------------------------------
(* The batch is matched: its events are pushed one at a time, each push    *)
(* taking the queue's own lock, so the notifier can run in between.        *)

BatchMatched == phase = "match" /\ taker = NoOrder /\ incoming = <<>>

PushEvent ==
  /\ BatchMatched
  /\ pending # <<>>
  /\ published' = Append(published, Head(pending))
  /\ pending' = Tail(pending)
  /\ UNCHANGED <<bookVars, phase, incoming, taker, fills, sent, opening>>

EndBatch ==
  /\ BatchMatched
  /\ pending = <<>>
  /\ phase' = "idle"
  /\ UNCHANGED <<bookVars, incoming, taker, fills, pending, published, sent, opening>>

\* Every step of process() that both strategies share.
Frame ==
  \/ SkipInvalid
  \/ BeginMatch
  \/ EraseLevel
  \/ EndFilled
  \/ CancelRemainder
  \/ RestRemainder
  \/ PushEvent
  \/ EndBatch

-----------------------------------------------------------------------------
(* Invariants of the book. *)

\* Each variable holds a value of its C++ type; the orders in the book and the
\* order being matched are within the bounds validateOrder lets through.
TypeOK ==
  /\ levels \in [Side -> SUBSET Prices]
  /\ resting \in [Side -> [Prices -> SUBSET Order]]
  /\ phase \in {"idle", "match"}
  /\ incoming \in Seq(Order)
  /\ taker \in Order \union {NoOrder}
  /\ fills \in Seq(Event)
  /\ pending \in Seq(Event)
  /\ published \in Seq(Event)
  /\ sent \in Seq(Order)

\* Best bid below best ask in every state another thread can see, also in the
\* middle of a match: QuoteService::getSpread subtracts them as unsigned numbers.
BookUncrossed ==
  \A b \in levels["buy"], a \in levels["sell"] : b < a

\* A key of the map stands for orders that are really there, at that price and
\* on that side, with something left to trade; only the level that the running
\* match has just emptied may be vacant.
BookWellFormed ==
  /\ \A s \in Side, p \in Prices :
       resting[s][p] # {} => p \in levels[s]
  /\ \A s \in Side, p \in Prices : \A o \in resting[s][p] :
       /\ o.side = s
       /\ o.price = p
       /\ o.tif = "GTC"
       /\ 0 < o.qty
       /\ o.qty <= MaxQuantity
  /\ \A s \in Side : \A p \in levels[s] :
       resting[s][p] = {} => taker # NoOrder /\ s = Opposite(taker.side)
=============================================================================
