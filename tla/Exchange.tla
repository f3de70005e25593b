------------------------------ MODULE Exchange ------------------------------
(***************************************************************************)
(* The simulation main.cpp runs: one thread lets the noise traders and the *)
(* market maker send orders round after round and then shuts the services  *)
(* down; the gateway's thread has the book match what has come in; the     *)
(* notifier's thread tells the participants what became of their orders.   *)
(*                                                                         *)
(* The book is FifoStrategy's, iteration by iteration.  Of the gateway and *)
(* the notifier only what Gateway and Notification show of them is used:   *)
(* orders reach the book in the order they were accepted, the last ones    *)
(* before stop() returns, and events reach the clients in the order of     *)
(* their publication, the last ones before stop() returns.  A full batch   *)
(* (BatchCap) makes the sender wait until it is matched.  As one thread    *)
(* sends, stamps never decrease: all are 0 and the transaction id decides. *)
(* The cash of the market maker is left out, and so is its fair value's    *)
(* update: main.cpp starts no QuoteService.                                *)
(***************************************************************************)
EXTENDS FifoStrategy, FiniteSetsExt, Functions

CONSTANTS
  Traders,         \* 1..Traders are the ids of the noise traders ...
  Rounds,          \* the rounds of main's loop (50)
  Quantities,      \* what a noise trader draws its quantity from (1..40)
  ReferencePrice,  \* 10000 in main.cpp, also the maker's fairValue
  Aggression,      \* 10
  HalfSpread,      \* 5
  QuoteSize,       \* 50
  MaxInventory     \* 400

Maker == Traders + 1   \* ... and the market maker's id follows

ASSUME ExchangeAssumption ==
  /\ Traders \in Nat
  /\ Rounds \in Nat
  /\ Quantities \subseteq 1..MaxQuantity
  /\ ReferencePrice \in Nat
  /\ Aggression \in Nat /\ Aggression < ReferencePrice
  /\ HalfSpread \in Nat
  /\ QuoteSize \in Nat \ {0}
  /\ MaxInventory \in Nat

VARIABLES
  main,          \* where main(), or createOrder() below it, stands
  round, turn,   \* the round, and the trader whose turn it is
  tally,         \* [1..Traders -> netPosition, sharesTraded, cancelledShares]
  inventory,     \* MarketMaker's atomics and members
  makerShares,
  needsRequote,
  lastQuotes,
  quotes,        \* createOrder's locals bid and ask ...
  position,      \* ... and the inventory it acts on
  overtaken,     \* history: a fill was added between its pricing and its taking the flag
  notifier,      \* "ready", or "marking" inside the maker's getNotification
  heard          \* the number of published events that were dispatched

mainVars == <<main, round, turn>>
makerLocals == <<lastQuotes, quotes, position, overtaken>>
ledgers == <<tally, inventory, makerShares>>
notifierVars == <<notifier, heard>>
simVars == <<vars, mainVars, makerLocals, ledgers, needsRequote, notifierVars>>

NoQuotes == [bid |-> 0, ask |-> 0]

SimInit ==
  /\ Init
  /\ main = "turn"
  /\ round = 1
  /\ turn = 1
  /\ tally = [t \in 1..Traders |-> [net |-> 0, traded |-> 0, cancelled |-> 0]]
  /\ inventory = 0
  /\ makerShares = 0
  /\ needsRequote = TRUE
  /\ lastQuotes = NoQuotes
  /\ quotes = NoQuotes
  /\ position = 0
  /\ overtaken = FALSE
  /\ notifier = "ready"
  /\ heard = 0

-----------------------------------------------------------------------------
(* Client::submit: within the bounds the orders are Inputs and MaxOrders,  *)
(* and no order of this simulation is outside of them.                     *)

Submit(user, side, tif, price, qty) ==
  LET c == [user |-> user, side |-> side, tif |-> tif, price |-> price,
            qty |-> qty, ts |-> 0]
  IN  /\ c \in Inputs
      /\ Len(sent) < MaxOrders
      /\ Accept(c)

-----------------------------------------------------------------------------
(* NoiseTrader *)

\* createOrder: the price is through the reference, on the aggressive side.
TraderSends(t) ==
  /\ main = "turn" /\ turn = t
  /\ \E side \in Side, qty \in Quantities :
       Submit(t, side, "IOC",
              IF side = "buy" THEN ReferencePrice + Aggression
                              ELSE ReferencePrice - Aggression, qty)
  /\ turn' = turn + 1
  /\ UNCHANGED <<main, round, makerLocals, ledgers, needsRequote, notifierVars>>

Signed(e) == IF e.side = "buy" THEN e.qty ELSE -e.qty

\* getNotification
TraderHears(l, e) ==
  CASE e.status = "Cancelled" -> [l EXCEPT !.cancelled = @ + e.qty]
    [] e.status \in {"Filled", "PartiallyFilled"} ->
         [l EXCEPT !.net = @ + Signed(e), !.traded = @ + e.qty]
    [] OTHER -> l

-----------------------------------------------------------------------------
(* MarketMaker *)

\* C++ division, which rounds towards zero.
Quotient(a, b) == IF a >= 0 THEN a \div b ELSE -((-a) \div b)

Skew(held) == Quotient(HalfSpread * held, IF MaxInventory > 0 THEN MaxInventory ELSE 1)

\* Mutant: the price is not kept above the half spread.
QuoteCentreUnkept(held) == ReferencePrice - Skew(held)

QuoteCentre(held) ==
  LET centre == ReferencePrice - Skew(held)
  IN  IF centre <= HalfSpread THEN HalfSpread + 1 ELSE centre

QuotesFor(held) ==
  [bid |-> QuoteCentre(held) - HalfSpread, ask |-> QuoteCentre(held) + HalfSpread]

EndTurn ==
  /\ main' = "turn"
  /\ turn' = 1
  /\ round' = round + 1

\* createOrder first computes its prices from the inventory it sees ...
MakerPrices ==
  /\ main = "turn" /\ turn = Maker
  /\ quotes' = QuotesFor(inventory)
  /\ overtaken' = FALSE
  /\ main' = "pricing"
  /\ UNCHANGED <<vars, round, turn, lastQuotes, position, ledgers, needsRequote,
                 notifierVars>>

\* ... then takes the flag, and is done when nothing has changed ...
MakerTakesFlag ==
  /\ main = "pricing"
  /\ needsRequote' = FALSE
  /\ \/ /\ ~needsRequote /\ quotes = lastQuotes
        /\ EndTurn
        /\ UNCHANGED lastQuotes
     \/ /\ needsRequote \/ quotes # lastQuotes
        /\ main' = "deciding"
        /\ lastQuotes' = quotes
        /\ UNCHANGED <<round, turn>>
  /\ UNCHANGED <<vars, quotes, position, overtaken, ledgers, notifierVars>>

\* Mutant: the flag is lowered here, when the decision is made.
MakerLooksAndTakesFlag ==
  /\ main = "deciding"
  /\ position' = inventory
  /\ needsRequote' = FALSE
  /\ main' = "bid"
  /\ UNCHANGED <<vars, round, turn, lastQuotes, quotes, overtaken, ledgers, notifierVars>>

\* ... looks at the inventory again ...
MakerLooks ==
  /\ main = "deciding"
  /\ position' = inventory
  /\ main' = "bid"
  /\ UNCHANGED <<vars, round, turn, lastQuotes, quotes, overtaken, ledgers, needsRequote,
                 notifierVars>>

\* ... and quotes the sides its limits allow.
MakerBids ==
  /\ main = "bid"
  /\ IF position < MaxInventory
     THEN Submit(Maker, "buy", "GTC", quotes.bid, QuoteSize)
     ELSE UNCHANGED vars
  /\ main' = "ask"
  /\ UNCHANGED <<round, turn, makerLocals, ledgers, needsRequote, notifierVars>>

MakerAsks ==
  /\ main = "ask"
  /\ IF position > -MaxInventory
     THEN Submit(Maker, "sell", "GTC", quotes.ask, QuoteSize)
     ELSE UNCHANGED vars
  /\ EndTurn
  /\ UNCHANGED <<makerLocals, ledgers, needsRequote, notifierVars>>

-----------------------------------------------------------------------------
(* The notifier's thread, and main() when it drains the queue: dispatch()  *)
(* and the clients' getNotification.                                       *)

NextEvent == published[heard + 1]

CanDispatch == notifier = "ready" /\ heard < Len(published) /\ main # "done"

TellTrader ==
  /\ CanDispatch
  /\ NextEvent.user # Maker
  /\ tally' = [tally EXCEPT ![NextEvent.user] = TraderHears(@, NextEvent)]
  /\ heard' = heard + 1
  /\ UNCHANGED <<vars, mainVars, makerLocals, inventory, makerShares, needsRequote, notifier>>

TellMakerNothing ==
  /\ CanDispatch
  /\ NextEvent.user = Maker
  /\ NextEvent.status \notin {"Filled", "PartiallyFilled"}
  /\ heard' = heard + 1
  /\ UNCHANGED <<vars, mainVars, makerLocals, ledgers, needsRequote, notifier>>

TellMakerFill ==
  /\ CanDispatch
  /\ NextEvent.user = Maker
  /\ NextEvent.status \in {"Filled", "PartiallyFilled"}
  /\ inventory' = inventory + Signed(NextEvent)
  /\ makerShares' = makerShares + NextEvent.qty
  /\ heard' = heard + 1
  /\ notifier' = "marking"
  /\ overtaken' = (overtaken \/ main = "pricing")
  /\ UNCHANGED <<vars, mainVars, lastQuotes, quotes, position, tally, needsRequote>>

\* The flag is set last.
MarkRequote ==
  /\ notifier = "marking"
  /\ needsRequote' = TRUE
  /\ notifier' = "ready"
  /\ UNCHANGED <<vars, mainVars, makerLocals, ledgers, heard>>

Notifier == TellTrader \/ TellMakerNothing \/ TellMakerFill \/ MarkRequote

-----------------------------------------------------------------------------
(* The gateway's thread has the book match; main() shuts down. *)

Match ==
  /\ StartBatch \/ Process
  /\ UNCHANGED <<mainVars, makerLocals, ledgers, needsRequote, notifierVars>>

LastRound ==
  /\ main = "turn" /\ turn = 1 /\ round > Rounds
  /\ main' = "stop gateway"
  /\ UNCHANGED <<vars, round, turn, makerLocals, ledgers, needsRequote, notifierVars>>

\* OrderEntryGateway::stop() returns when the final batch is matched.  Mutant: stop()
\* does not match it.
GatewayStopsAtOnce ==
  /\ main = "stop gateway"
  /\ phase = "idle"
  /\ main' = "stop notifier"
  /\ UNCHANGED <<vars, round, turn, makerLocals, ledgers, needsRequote, notifierVars>>

GatewayStops ==
  /\ main = "stop gateway"
  /\ phase = "idle" /\ incoming = <<>>
  /\ main' = "stop notifier"
  /\ UNCHANGED <<vars, round, turn, makerLocals, ledgers, needsRequote, notifierVars>>

\* TradeNotificationService::stop() returns when the queue is drained.  Mutant: it
\* does not drain it.
NotifierStopsAtOnce ==
  /\ main = "stop notifier"
  /\ notifier = "ready"
  /\ main' = "done"
  /\ UNCHANGED <<vars, round, turn, makerLocals, ledgers, needsRequote, notifierVars>>

NotifierStops ==
  /\ main = "stop notifier"
  /\ notifier = "ready" /\ heard = Len(published)
  /\ main' = "done"
  /\ UNCHANGED <<vars, round, turn, makerLocals, ledgers, needsRequote, notifierVars>>

Participants ==
  /\ round <= Rounds
  /\ \/ \E t \in 1..Traders : TraderSends(t)
     \/ MakerPrices \/ MakerTakesFlag \/ MakerLooks \/ MakerBids \/ MakerAsks

Main == Participants \/ LastRound \/ GatewayStops \/ NotifierStops

-----------------------------------------------------------------------------

SimNext == Main \/ Match \/ Notifier

SimSpec == SimInit /\ [][SimNext]_simVars

\* Each of the three threads is scheduled.  (The batch thread's and the notifier's
\* waits end: Gateway and Notification show that no notification is lost on them.)
SimFairSpec ==
  SimSpec /\ WF_simVars(Main) /\ WF_simVars(Match) /\ WF_simVars(Notifier)

-----------------------------------------------------------------------------
(* Properties. *)

\* "net position across all participants: (must be 0), shares reported by both sides:
\* (must be even)": after the shutdown, whatever was still in the batch, in the book or
\* in the queue when it began, the ledgers count every share that changed hands twice,
\* once for its buyer and once for its seller.
NetPositionZero ==
  main = "done" =>
    /\ inventory + FoldFunction(LAMBDA l, n : l.net + n, 0, tally) = 0
    /\ makerShares + FoldFunction(LAMBDA l, n : l.traded + n, 0, tally)
         = 2 * MapThenSumSet(LAMBDA k : published[k].qty,
                             {k \in DOMAIN published :
                                /\ published[k].status \in {"Filled", "PartiallyFilled"}
                                /\ published[k].side = "buy"})

\* By then every share a noise trader has ordered was reported to it, as traded or as
\* cancelled: the IOC orders leave nothing behind.
TradersAnswered ==
  main = "done" =>
    \A t \in 1..Traders :
      tally[t].traded + tally[t].cancelled =
        MapThenSumSet(LAMBDA i : sent[i].qty, {i \in DOMAIN sent : sent[i].user = t})

\* However far the inventory pushes its quotes, the maker never quotes a price that is
\* not positive: unsigned, it would be enormous, and acceptOrder refuses 0.
QuotesPositive ==
  main \in {"pricing", "deciding", "bid", "ask"} =>
    0 < quotes.bid /\ quotes.bid <= quotes.ask

\* Only the market maker provides liquidity, so it is on one side of every trade.
MakerOnOneSide ==
  \A s \in Side : \A o \in Resting(s) : o.user = Maker

\* When the maker's flag is down and no notification is half way, the sides it last
\* quoted were decided on the inventory it has now, and their prices computed from it,
\* although flag, inventory and quotes are not written in one step.  The prices have an
\* exception: a fill added after createOrder has read the inventory for them, whose flag
\* createOrder then takes, leaves them those of the inventory before.  The next call
\* computes them anew and compares, and that ends it.
FillNotOverlooked ==
  main = "turn" /\ notifier = "ready" /\ ~needsRequote =>
    /\ position = inventory
    /\ ~overtaken => lastQuotes = QuotesFor(inventory)

\* main() comes to its end: no sender waits forever for a batch to be matched, and
\* both stop() return.
SimulationEnds == <>(main = "done")

\* Claimed by the README of the maker's limit ("which bounds its risk"): once past the
\* limit it does not bid, so one more quote is all it can be beyond it.
InventoryBounded ==
  /\ inventory <= MaxInventory + QuoteSize
  /\ inventory >= -(MaxInventory + QuoteSize)
=============================================================================
