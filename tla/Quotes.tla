------------------------------- MODULE Quotes -------------------------------
(***************************************************************************)
(* QuoteService over an OrderBookPool: the publishing thread and its       *)
(* subscribers, start() and stop(), and a thread that asks for the spread  *)
(* or for the market depth while the books go on trading.                  *)
(*                                                                         *)
(* subscriberMutex protects the list of subscribers and is held for a      *)
(* whole round of publishQuotes.  No lock protects the books: highestBid   *)
(* and lowestAsk are two reads, the depth is one read per book, and a book *)
(* may move in between.  A read that overlaps a change of the same map has *)
(* no defined outcome; here a read sees a book between two steps of a      *)
(* match, where a book is uncrossed (FifoStrategyProofs) and may hold a    *)
(* level just emptied that the match has still to erase.  What happens in  *)
(* a book is OrderBook's subject, so here one moves between BookStates.    *)
(***************************************************************************)
EXTENDS Integers, Sequences, SequencesExt, FiniteSets, Functions

CONSTANTS
  Clients,     \* those that subscribe
  Prices,      \* the prices of resting orders (ticks)
  PriceWord,   \* 2^64 in the code: prices are unsigned
  QtyWord,     \* 2^16 in the code: quantities are signed
  Books,       \* the number of books in the pool
  BookStates,  \* what a book can look like: the quantity on each level of a side
  Depth,       \* the depth asked for
  MaxStarts    \* bound on the number of calls of start()

Side == {"buy", "sell"}

\* A side of the book is a map from prices to levels.  Its keys are the levels, the one
\* included that a trade has emptied and the match has still to erase.
Levels(b, side) == DOMAIN b[side]

Uncrossed(b) == \A p \in Levels(b, "buy"), q \in Levels(b, "sell") : p < q

ASSUME QuotesAssumption ==
  /\ PriceWord \in Nat \ {0, 1}
  /\ Prices \subseteq 1..PriceWord - 2
  /\ IsFiniteSet(Prices)
  /\ QtyWord \in Nat \ {0}
  /\ Books \in Nat
  /\ BookStates # {}
  /\ \A b \in BookStates, side \in Side :
       Levels(b, side) \subseteq Prices /\ b[side] \in [Levels(b, side) -> Nat]
  /\ \A b \in BookStates : Uncrossed(b)
  /\ Depth \in Nat
  /\ MaxStarts \in Nat

VARIABLES
  books,        \* the pool
  subscribers,  \* the vector of subscribed clients
  running,      \* std::atomic<bool> running
  publisher,    \* where the publishing thread is
  summary,      \* the QuoteSummary of the round
  untold,       \* the subscribers its loop still has to call
  told,         \* history: the calls of receiveQuoteUpdate in this round
  control,      \* where the thread that calls start() and stop() is
  starts,       \* its calls of start()
  reader,       \* where the thread that asks is
  answer,       \* what it has read, then what it was answered
  cursor,       \* the next book it will read
  moved         \* history: the threads under which a book has moved

publisherVars == <<publisher, summary, untold, told>>
readerVars == <<reader, answer, cursor>>
controlVars == <<running, control, starts>>
vars == <<books, subscribers, publisherVars, readerVars, controlVars, moved>>

NoBid == 0
NoAsk == PriceWord - 1   \* std::numeric_limits<uint64_t>::max()
NoSummary == [bid |-> NoBid, ask |-> NoAsk]
NoAnswer == [bid |-> NoBid, spread |-> 0, side |-> "buy", depth |-> [p \in {} |-> 0]]

Init ==
  /\ books \in [0..Books - 1 -> BookStates]
  /\ subscribers = <<>>
  /\ running = FALSE
  /\ publisher = "none"
  /\ summary = NoSummary
  /\ untold = <<>>
  /\ told = <<>>
  /\ control = "down"
  /\ starts = 0
  /\ reader = "idle"
  /\ answer = NoAnswer
  /\ cursor = 0
  /\ moved = {}

-----------------------------------------------------------------------------
(* OrderBook::getHighestBuy, getLowestSell and getTopPriceLevels *)

Better(side, p, q) == IF side = "buy" THEN p > q ELSE p < q

Best(b, side) ==
  CHOOSE p \in Levels(b, side) : \A q \in Levels(b, side) : ~Better(side, q, p)

HighestBuy(b) == IF Levels(b, "buy") = {} THEN NoBid ELSE Best(b, "buy")
LowestSell(b) == IF Levels(b, "sell") = {} THEN NoAsk ELSE Best(b, "sell")

\* int16_t: sums wrap around.
Wrap(n) == ((n + QtyWord \div 2) % QtyWord) - QtyWord \div 2

\* The first n of a set of prices, in the order of the map of that side.
First(n, ps, side) == {p \in ps : Cardinality({q \in ps : Better(side, q, p)}) < n}

TopPriceLevels(b, side) ==
  [p \in First(Depth, Levels(b, side), side) |-> Wrap(b[side][p])]

-----------------------------------------------------------------------------
(* The queries of QuoteService *)

HighestBid == IF Books = 0 THEN NoBid ELSE HighestBuy(books[0])
LowestAsk == IF Books = 0 THEN NoAsk ELSE LowestSell(books[0])

\* Mutant: an empty side counts.
SpreadUnchecked(bid, ask) == (ask - bid) % PriceWord

\* uint64_t: a difference wraps around.
Spread(bid, ask) ==
  IF bid = NoBid \/ ask = NoAsk THEN 0 ELSE (ask - bid) % PriceWord

At(agg, p) == IF p \in DOMAIN agg THEN agg[p] ELSE 0

\* Mutant: the level of the next book replaces what was summed.
AddBookReplacing(agg, lv) ==
  [p \in DOMAIN agg \union DOMAIN lv |->
     IF p \in DOMAIN lv THEN lv[p] ELSE agg[p]]

\* aggregated[level.first] += level.second
AddBook(agg, lv) ==
  [p \in DOMAIN agg \union DOMAIN lv |-> Wrap(At(agg, p) + At(lv, p))]

\* One level is dropped, the last, however many there are too many.
Trim(agg, side) ==
  LET n == Cardinality(DOMAIN agg)
  IN  IF n > Depth THEN Restrict(agg, First(n - 1, DOMAIN agg, side)) ELSE agg

-----------------------------------------------------------------------------
(* The books trade.  The spread and the summary read book 0 only. *)

Watching(i) ==
  {t \in {"publisher", "reader"} :
     \/ t = "publisher" /\ i = 0 /\ publisher \in {"ask", "tell"}
     \/ t = "reader" /\ i = 0 /\ reader \in {"spread", "spread answered"}
     \/ t = "reader" /\ reader \in {"depth", "depth answered"}}

BookMoves(i) ==
  /\ \E b \in BookStates : b # books[i] /\ books' = [books EXCEPT ![i] = b]
  /\ moved' = moved \union Watching(i)
  /\ UNCHANGED <<subscribers, publisherVars, readerVars, controlVars>>

-----------------------------------------------------------------------------
(* subscribe and unsubscribe, under subscriberMutex *)

MutexFree == publisher \notin {"bid", "ask", "tell"}

Subscribe(c) ==
  /\ MutexFree
  /\ c \notin Range(subscribers)
  /\ subscribers' = Append(subscribers, c)
  /\ UNCHANGED <<books, publisherVars, readerVars, controlVars, moved>>

\* No client is in the vector twice.
Unsubscribe(c) ==
  /\ MutexFree
  /\ \E i \in DOMAIN subscribers :
       subscribers[i] = c /\ subscribers' = RemoveAt(subscribers, i)
  /\ UNCHANGED <<books, publisherVars, readerVars, controlVars, moved>>

-----------------------------------------------------------------------------
(* run() and publishQuotes() *)

\* Mutant: the test is inverted.
LoopTestInverted ==
  /\ publisher = "top"
  /\ publisher' = IF running THEN "done" ELSE "lock"
  /\ UNCHANGED <<books, subscribers, summary, untold, told, readerVars, controlVars,
                 moved>>

LoopTest ==
  /\ publisher = "top"
  /\ publisher' = IF running THEN "lock" ELSE "done"
  /\ UNCHANGED <<books, subscribers, summary, untold, told, readerVars, controlVars,
                 moved>>

\* The mutex is taken, and given back at once when nobody listens.
BeginRound ==
  /\ publisher = "lock"
  /\ publisher' = IF subscribers = <<>> THEN "sleep" ELSE "bid"
  /\ told' = <<>>
  /\ untold' = subscribers
  /\ UNCHANGED <<books, subscribers, summary, readerVars, controlVars, moved>>

ReadBid ==
  /\ publisher = "bid"
  /\ summary' = [summary EXCEPT !.bid = HighestBid]
  /\ publisher' = "ask"
  /\ UNCHANGED <<books, subscribers, untold, told, readerVars, controlVars, moved>>

ReadAsk ==
  /\ publisher = "ask"
  /\ summary' = [summary EXCEPT !.ask = LowestAsk]
  /\ publisher' = "tell"
  /\ UNCHANGED <<books, subscribers, untold, told, readerVars, controlVars, moved>>

\* One client is called; after the last one the mutex is given back.
Tell ==
  /\ publisher = "tell"
  /\ told' = Append(told, Head(untold))
  /\ untold' = Tail(untold)
  /\ \/ /\ Tail(untold) # <<>>
        /\ UNCHANGED <<publisher, summary, moved>>
     \/ /\ Tail(untold) = <<>>
        /\ publisher' = "sleep"
        /\ summary' = NoSummary
        /\ moved' = moved \ {"publisher"}
  /\ UNCHANGED <<books, subscribers, readerVars, controlVars>>

Wake ==
  /\ publisher = "sleep"
  /\ publisher' = "top"
  /\ UNCHANGED <<books, subscribers, summary, untold, told, readerVars, controlVars,
                 moved>>

Publisher == LoopTest \/ BeginRound \/ ReadBid \/ ReadAsk \/ Tell \/ Wake

-----------------------------------------------------------------------------
(* start() and stop(), called by one thread.  A start() without a stop()   *)
(* would assign to a joinable thread, which ends the process.              *)

Start ==
  /\ control = "down"
  /\ starts < MaxStarts
  /\ running' = TRUE
  /\ publisher' = "top"
  /\ control' = "up"
  /\ starts' = starts + 1
  /\ UNCHANGED <<books, subscribers, summary, untold, told, readerVars, moved>>

StopCalled ==
  /\ control = "up"
  /\ running' = FALSE
  /\ control' = "joining"
  /\ UNCHANGED <<books, subscribers, publisherVars, starts, readerVars, moved>>

\* Mutant: the thread is left to itself.
JoinNot ==
  /\ control = "joining"
  /\ control' = "down"
  /\ UNCHANGED <<books, subscribers, publisherVars, running, starts, readerVars, moved>>

Join ==
  /\ control = "joining"
  /\ publisher = "done"
  /\ publisher' = "none"
  /\ control' = "down"
  /\ UNCHANGED <<books, subscribers, summary, untold, told, running, starts, readerVars,
                 moved>>

-----------------------------------------------------------------------------
(* getSpread, getTopBids and getTopAsks, called by a thread of their own *)

AskSpread ==
  /\ reader = "idle"
  /\ answer' = [answer EXCEPT !.bid = HighestBid]
  /\ reader' = "spread"
  /\ UNCHANGED <<books, subscribers, publisherVars, cursor, controlVars, moved>>

AnswerSpread ==
  /\ reader = "spread"
  /\ answer' = [answer EXCEPT !.spread = Spread(answer.bid, LowestAsk)]
  /\ reader' = "spread answered"
  /\ UNCHANGED <<books, subscribers, publisherVars, cursor, controlVars, moved>>

AskDepth(side) ==
  /\ reader = "idle"
  /\ answer' = [answer EXCEPT !.side = side]
  /\ cursor' = 0
  /\ reader' = IF Books = 0 THEN "depth answered" ELSE "depth"
  /\ UNCHANGED <<books, subscribers, publisherVars, controlVars, moved>>

ReadBook ==
  /\ reader = "depth"
  /\ answer' = [answer EXCEPT
       !.depth = Trim(AddBook(@, TopPriceLevels(books[cursor], answer.side)), answer.side)]
  /\ cursor' = cursor + 1
  /\ reader' = IF cursor + 1 = Books THEN "depth answered" ELSE "depth"
  /\ UNCHANGED <<books, subscribers, publisherVars, controlVars, moved>>

Return ==
  /\ reader \in {"spread answered", "depth answered"}
  /\ reader' = "idle"
  /\ answer' = NoAnswer
  /\ cursor' = 0
  /\ moved' = moved \ {"reader"}
  /\ UNCHANGED <<books, subscribers, publisherVars, controlVars>>

Reader ==
  \/ AskSpread \/ AnswerSpread
  \/ \E side \in Side : AskDepth(side)
  \/ ReadBook \/ Return

-----------------------------------------------------------------------------

Next ==
  \/ \E i \in 0..Books - 1 : BookMoves(i)
  \/ \E c \in Clients : Subscribe(c) \/ Unsubscribe(c)
  \/ Publisher
  \/ Reader
  \/ Start \/ StopCalled \/ Join

Spec == Init /\ [][Next]_vars

\* The publishing thread is scheduled and its sleep ends.
FairSpec == Spec /\ WF_vars(Publisher)

-----------------------------------------------------------------------------
(* Properties. *)

\* What a signed quantity can be; levels of one side and what rests there.
Quantities == -(QtyWord \div 2)..(QtyWord - QtyWord \div 2 - 1)

Depths == UNION {[ps -> Quantities] : ps \in SUBSET Prices}

\* Where the threads are and what they hold.
TypeOK ==
  /\ books \in [0..Books - 1 -> BookStates]
  /\ subscribers \in Seq(Clients)
  /\ running \in BOOLEAN
  /\ publisher \in {"none", "top", "lock", "bid", "ask", "tell", "sleep", "done"}
  /\ summary \in [bid: Prices \union {NoBid}, ask: Prices \union {NoAsk}]
  /\ untold \in Seq(Clients)
  /\ told \in Seq(Clients)
  /\ control \in {"down", "up", "joining"}
  /\ starts \in Nat
  /\ reader \in {"idle", "spread", "spread answered", "depth", "depth answered"}
  /\ answer \in [bid: Prices \union {NoBid}, spread: 0..PriceWord - 1, side: Side,
                depth: Depths]
  /\ cursor \in 0..Books
  /\ moved \subseteq {"publisher", "reader"}

\* The prices at which something rests, and a book in the middle of a match: a level
\* is there at which nothing rests any more.
Resting(b, side) == {p \in Levels(b, side) : b[side][p] > 0}

Midway(b) == \E side \in Side : Resting(b, side) # Levels(b, side)

\* p is what a side of b may be quoted at, `none` when it has nothing: no order rests
\* at a better price and, unless b is midway, one does rest at p.  A book midway may
\* be quoted at the price of the level that was just emptied.
QuotedAt(b, side, p, none) ==
  /\ p \in Levels(b, side) \union {none}
  /\ \A q \in Resting(b, side) : ~Better(side, q, p)
  /\ ~Midway(b) => p \in Resting(b, side) \union {none}

\* The two prices a round of publishQuotes sends out are not crossed, and each is what
\* its side of one and the same book 0 may be quoted at, unless book 0 moved after the
\* first of the two reads.
SummaryTrue ==
  publisher = "tell" /\ "publisher" \notin moved =>
    /\ summary.bid < summary.ask
    /\ IF Books = 0
       THEN summary = NoSummary
       ELSE /\ QuotedAt(books[0], "buy", summary.bid, NoBid)
            /\ QuotedAt(books[0], "sell", summary.ask, NoAsk)

\* getSpread is the distance of two such prices, and 0 when a side has no level; it
\* wraps around to an enormous number only when the book moved between its two reads.
SpreadTrue ==
  reader = "spread answered" /\ "reader" \notin moved =>
    IF Books = 0 \/ Levels(books[0], "buy") = {} \/ Levels(books[0], "sell") = {}
    THEN answer.spread = 0
    ELSE \E bid \in Levels(books[0], "buy"), ask \in Levels(books[0], "sell") :
           /\ bid + answer.spread = ask
           /\ QuotedAt(books[0], "buy", bid, NoBid)
           /\ QuotedAt(books[0], "sell", ask, NoAsk)

\* What two reads of a book say of it, to a subscriber as to one who asks for the
\* spread, is true of the orders that rest in it, unless the book moved between the
\* reads; when it is in the middle of a match the price of a level just emptied may
\* still be quoted, never one worse than an order that rests.
PricesTrue == SummaryTrue /\ SpreadTrue

\* The pool as one book: every level of some book, its quantities summed, wrapping.
PoolLevels(side) == UNION {Levels(books[i], side) : i \in 0..Books - 1}

PoolQuantity(side, p) ==
  FoldFunction(LAMBDA b, n : At(b[side], p) + n, 0, books)

PoolResting(side) == UNION {Resting(books[i], side) : i \in 0..Books - 1}

\* Although only one level too many is dropped per book, the first `depth` levels of
\* getTopBids and getTopAsks are the first levels of the whole pool with everything
\* that rests there (modulo the width of a quantity); what follows them is not.  A
\* level that a match has emptied and not yet erased takes one of the places; when no
\* book is midway they are the best prices at which an order rests.
DepthTrue ==
  reader = "depth answered" /\ "reader" \notin moved =>
    LET top == First(Depth, DOMAIN answer.depth, answer.side)
    IN  /\ top = First(Depth, PoolLevels(answer.side), answer.side)
        /\ \A p \in top : answer.depth[p] = Wrap(PoolQuantity(answer.side, p))
        /\ (\A i \in 0..Books - 1 : ~Midway(books[i])) =>
             top = First(Depth, PoolResting(answer.side), answer.side)

\* Neither a client that has left nor, once stop() has returned, any client at all is
\* called: it may be destroyed.
NoLateCall ==
  [][told' # told /\ told' # <<>> =>
       control # "down" /\ told'[Len(told')] \in Range(subscribers)]_vars

\* Whoever stays subscribed while the service runs hears of the market.
SubscriberHears ==
  \A c \in Clients :
    (c \in Range(subscribers) /\ control = "up") ~>
      (c \in Range(told) \/ c \notin Range(subscribers) \/ control # "up")
=============================================================================
