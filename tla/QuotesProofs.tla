---------------------------- MODULE QuotesProofs ----------------------------
(***************************************************************************)
(* What the quote service publishes and answers, for any books, prices and *)
(* word sizes, any clients and any number of restarts.                     *)
(***************************************************************************)
EXTENDS Quotes, Arithmetic, SequenceTheorems, TLAPS

-----------------------------------------------------------------------------
(* The best price of a side. *)

LEMMA LevelsType ==
  ASSUME NEW b \in BookStates, NEW side \in Side
  PROVE  Levels(b, side) \subseteq Prices
BY QuotesAssumption

LEMMA PriceRange ==
  /\ PriceWord \in Nat /\ 0 < PriceWord - 1
  /\ \A p \in Prices : p \in Nat /\ 0 < p /\ p < PriceWord - 1
BY QuotesAssumption

\* Some price of a set is the best of it.
LEMMA BestOfExists ==
  ASSUME NEW T, T \subseteq Prices, T # {}, NEW side
  PROVE  \E p \in T : \A q \in T : ~Better(side, q, p)
<1> DEFINE far(p) == IF side = "buy" THEN PriceWord - p ELSE p
<1>1. \A p \in T : p \in Nat /\ far(p) \in Nat
  BY PriceRange
<1> DEFINE F == {far(p) : p \in T}
<1>2. F \subseteq Nat /\ F # {}
  BY <1>1
<1> HIDE DEF F
<1>3. PICK x \in F : \A y \in F : ~(y < x)
  BY <1>2, LeastExists
<1>4. PICK p \in T : \A q \in T : ~(far(q) < far(p))
  <2> HIDE DEF far
  <2>1. PICK p \in T : x = far(p)
    BY DEF F
  <2>2. ASSUME NEW q \in T PROVE far(q) \in F
    BY DEF F
  <2>3. QED BY <1>3, <2>1, <2>2
<1>5. \A q \in T : ~Better(side, q, p)
  BY <1>1, <1>4, PriceRange DEF Better
<1>6. QED BY <1>5

LEMMA BestExists ==
  ASSUME NEW b \in BookStates, NEW side \in Side, Levels(b, side) # {}
  PROVE  /\ Best(b, side) \in Levels(b, side)
         /\ \A q \in Levels(b, side) : ~Better(side, q, Best(b, side))
<1>1. \E p \in Levels(b, side) : \A q \in Levels(b, side) : ~Better(side, q, p)
  BY LevelsType, BestOfExists
<1>2. QED BY <1>1 DEF Best

\* The best key of a side is what the side may be quoted at, nothing when it has none.
LEMMA BestIsQuoted ==
  ASSUME NEW b \in BookStates, NEW side \in Side, NEW none
  PROVE  QuotedAt(b, side, IF Levels(b, side) = {} THEN none ELSE Best(b, side), none)
<1>1. Resting(b, side) \subseteq Levels(b, side)
  BY DEF Resting
<1>2. ~Midway(b) => Resting(b, side) = Levels(b, side)
  BY DEF Midway
<1>3. CASE Levels(b, side) = {}
  BY <1>1, <1>3 DEF QuotedAt
<1>4. CASE Levels(b, side) # {}
  <2>1. /\ Best(b, side) \in Levels(b, side)
        /\ \A q \in Levels(b, side) : ~Better(side, q, Best(b, side))
    BY <1>4, BestExists
  <2>2. QED BY <1>1, <1>2, <1>4, <2>1 DEF QuotedAt
<1>5. QED BY <1>3, <1>4

Pool == [0..Books - 1 -> BookStates]

Empty(side) == Books = 0 \/ Levels(books[0], side) = {}

\* The two prices of the moment, of an uncrossed book.
LEMMA PricesOfMoment ==
  ASSUME books \in Pool
  PROVE  /\ HighestBid \in Prices \union {NoBid} /\ LowestAsk \in Prices \union {NoAsk}
         /\ HighestBid \in Nat /\ LowestAsk \in Nat
         /\ HighestBid < LowestAsk
         /\ Empty("buy") <=> HighestBid = NoBid
         /\ Empty("sell") <=> LowestAsk = NoAsk
<1> DEFINE b == books[0]
<1>1. CASE Books = 0
  <2>1. HighestBid = 0 /\ LowestAsk = PriceWord - 1
    BY <1>1 DEF HighestBid, LowestAsk, NoBid, NoAsk
  <2>2. QED BY <1>1, <2>1, PriceRange DEF Empty, NoBid, NoAsk
<1>2. CASE Books # 0
  <2>1. b \in BookStates
    BY <1>2, QuotesAssumption DEF Pool
  <2> HIDE DEF b
  <2>2. \A p \in Levels(b, "buy"), q \in Levels(b, "sell") : p < q
    BY <2>1, QuotesAssumption DEF Uncrossed
  <2>3. /\ HighestBid = IF Levels(b, "buy") = {} THEN 0 ELSE Best(b, "buy")
        /\ LowestAsk = IF Levels(b, "sell") = {} THEN PriceWord - 1 ELSE Best(b, "sell")
    BY <1>2 DEF HighestBid, LowestAsk, HighestBuy, LowestSell, b, NoBid, NoAsk
  <2>4. /\ Levels(b, "buy") # {} => Best(b, "buy") \in Levels(b, "buy")
        /\ Levels(b, "sell") # {} => Best(b, "sell") \in Levels(b, "sell")
    BY <2>1, BestExists DEF Side
  <2>5. Levels(b, "buy") \subseteq Prices /\ Levels(b, "sell") \subseteq Prices
    BY <2>1, LevelsType DEF Side
  <2>6. /\ Empty("buy") <=> Levels(b, "buy") = {}
        /\ Empty("sell") <=> Levels(b, "sell") = {}
    BY <1>2 DEF Empty, b
  <2>7. QED BY <2>2, <2>3, <2>4, <2>5, <2>6, PriceRange DEF NoBid, NoAsk
<1>3. QED BY <1>1, <1>2

\* They are what its sides may be quoted at.
LEMMA QuotedOfMoment ==
  ASSUME books \in Pool, Books # 0
  PROVE  /\ QuotedAt(books[0], "buy", HighestBid, NoBid)
         /\ QuotedAt(books[0], "sell", LowestAsk, NoAsk)
<1> DEFINE b == books[0]
<1>1. b \in BookStates
  BY QuotesAssumption DEF Pool
<1>2. /\ HighestBid = IF Levels(b, "buy") = {} THEN NoBid ELSE Best(b, "buy")
      /\ LowestAsk = IF Levels(b, "sell") = {} THEN NoAsk ELSE Best(b, "sell")
  BY DEF HighestBid, LowestAsk, HighestBuy, LowestSell
<1> HIDE DEF b
<1>3. /\ QuotedAt(b, "buy", HighestBid, NoBid)
      /\ QuotedAt(b, "sell", LowestAsk, NoAsk)
  BY <1>1, <1>2, BestIsQuoted DEF Side
<1>4. QED BY <1>3 DEF b

LEMMA SpreadOfMoment ==
  ASSUME books \in Pool
  PROVE  IF Empty("buy") \/ Empty("sell")
         THEN Spread(HighestBid, LowestAsk) = 0
         ELSE HighestBid + Spread(HighestBid, LowestAsk) = LowestAsk
<1> DEFINE x == HighestBid
           y == LowestAsk
<1>1. /\ x \in Nat /\ y \in Nat /\ x < y /\ y <= PriceWord - 1
      /\ Empty("buy") <=> x = NoBid
      /\ Empty("sell") <=> y = NoAsk
      /\ PriceWord \in Nat
  BY PricesOfMoment, PriceRange DEF NoAsk
<1> HIDE DEF x, y
<1>2. \A d, w \in Nat : d < w => d % w = d
  OBVIOUS
<1>3. (y - x) % PriceWord = y - x
  BY <1>1, <1>2
<1>4. QED BY <1>1, <1>3 DEF Spread, x, y

-----------------------------------------------------------------------------
(* Types. *)

LEMMA DepthsType ==
  ASSUME NEW ps, ps \subseteq Prices, NEW f \in [ps -> Quantities]
  PROVE  f \in Depths
BY DEF Depths

LEMMA DepthsDomain ==
  ASSUME NEW f \in Depths
  PROVE  DOMAIN f \subseteq Prices /\ f \in [DOMAIN f -> Quantities]
<1>1. PICK ps \in SUBSET Prices : f \in [ps -> Quantities]
  BY DEF Depths
<1>2. QED BY <1>1

LEMMA WrapType == \A n \in Int : Wrap(n) \in Quantities
<1>1. \A m \in Int, w \in Nat \ {0} : m % w \in 0..w - 1
  OBVIOUS
<1>2. QtyWord \in Nat \ {0} /\ QtyWord \div 2 \in Int
  BY QuotesAssumption
<1> DEFINE h == QtyWord \div 2
<1>3. ASSUME NEW n \in Int PROVE Wrap(n) \in Quantities
  <2>1. (n + h) % QtyWord \in 0..QtyWord - 1
    BY <1>1, <1>2
  <2> DEFINE r == (n + h) % QtyWord
  <2> HIDE DEF r, h
  <2>2. r - h \in -h..QtyWord - h - 1
    BY <1>2, <2>1 DEF r, h
  <2>3. QED BY <2>2 DEF Wrap, Quantities, r, h
<1>4. QED BY <1>3

LEMMA QuantitiesAreInts == Quantities \subseteq Int
BY QuotesAssumption DEF Quantities

LEMMA TopType ==
  ASSUME NEW b \in BookStates, NEW side \in Side
  PROVE  TopPriceLevels(b, side) \in Depths
<1> DEFINE ps == First(Depth, Levels(b, side), side)
<1>1. ps \subseteq Levels(b, side) /\ Levels(b, side) \subseteq Prices
  BY LevelsType DEF First
<1>2. \A p \in Levels(b, side) : b[side][p] \in Int
  BY QuotesAssumption
<1> HIDE DEF ps
<1>3. [p \in ps |-> Wrap(b[side][p])] \in [ps -> Quantities]
  BY <1>1, <1>2, WrapType
<1>4. QED BY <1>1, <1>3, DepthsType DEF TopPriceLevels, ps

LEMMA AddBookType ==
  ASSUME NEW agg \in Depths, NEW lv \in Depths
  PROVE  AddBook(agg, lv) \in Depths
<1> DEFINE ps == DOMAIN agg \union DOMAIN lv
<1>1. ps \subseteq Prices
  BY DepthsDomain
<1>2. \A p : At(agg, p) \in Int /\ At(lv, p) \in Int
  BY DepthsDomain, QuantitiesAreInts DEF At
<1>3. \A p : Wrap(At(agg, p) + At(lv, p)) \in Quantities
  BY <1>2, WrapType
<1> HIDE DEF ps
<1>4. [p \in ps |-> Wrap(At(agg, p) + At(lv, p))] \in [ps -> Quantities]
  BY <1>3
<1>5. QED BY <1>1, <1>4, DepthsType DEF AddBook, ps

LEMMA TrimType ==
  ASSUME NEW agg \in Depths, NEW side
  PROVE  Trim(agg, side) \in Depths
<1> DEFINE ps == First(Cardinality(DOMAIN agg) - 1, DOMAIN agg, side)
<1>1. ps \subseteq DOMAIN agg /\ DOMAIN agg \subseteq Prices /\ agg \in [DOMAIN agg -> Quantities]
  BY DepthsDomain DEF First
<1> HIDE DEF ps
<1>2. [p \in ps |-> agg[p]] \in [ps -> Quantities]
  BY <1>1
<1>3. [p \in ps |-> agg[p]] \in Depths
  BY <1>1, <1>2, DepthsType
<1>4. Restrict(agg, ps) \in Depths
  BY <1>3 DEF Restrict
<1>5. QED BY <1>4 DEF Trim, ps

LEMMA RemoveAtType ==
  ASSUME NEW S, NEW q \in Seq(S), NEW i \in DOMAIN q
  PROVE  RemoveAt(q, i) \in Seq(S)
<1>1. DOMAIN q = 1..Len(q) /\ Len(q) \in Nat /\ i \in 1..Len(q)
  OBVIOUS
<1>2. \A j \in 1..i - 1 : q[j] \in S
  BY <1>1
<1>3. \A j \in i + 1..Len(q) : q[j] \in S
  BY <1>1
<1>4. /\ SubSeq(q, 1, i - 1) \in Seq(S)
      /\ SubSeq(q, i + 1, Len(q)) \in Seq(S)
  BY <1>1, <1>2, <1>3, SubSeqProperties
<1>5. QED BY <1>4, ConcatProperties DEF RemoveAt

\* The thread that asks has a book to read while it reads.
CursorInStep == reader = "depth" => cursor < Books

\* The publishing thread has a client to call while it is in a round.
RoundInStep == publisher \in {"bid", "ask", "tell"} => untold # <<>>

Types == TypeOK /\ CursorInStep /\ RoundInStep

\* Each group of variables separately.
ServiceTypes ==
  /\ subscribers \in Seq(Clients)
  /\ running \in BOOLEAN
  /\ publisher \in {"none", "top", "lock", "bid", "ask", "tell", "sleep", "done"}
  /\ untold \in Seq(Clients)
  /\ told \in Seq(Clients)
  /\ control \in {"down", "up", "joining"}
  /\ starts \in Nat
  /\ RoundInStep

SummaryTypes == summary \in [bid: Prices \union {NoBid}, ask: Prices \union {NoAsk}]

ReaderTypes ==
  /\ reader \in {"idle", "spread", "spread answered", "depth", "depth answered"}
  /\ answer \in [bid: Prices \union {NoBid}, spread: 0..PriceWord - 1, side: Side,
                 depth: Depths]
  /\ cursor \in 0..Books
  /\ CursorInStep

BookTypes == books \in Pool /\ moved \subseteq {"publisher", "reader"}

LEMMA TypesGrouped ==
  Types <=> ServiceTypes /\ SummaryTypes /\ ReaderTypes /\ BookTypes
BY DEF Types, TypeOK, ServiceTypes, SummaryTypes, ReaderTypes, BookTypes, Pool

LEMMA ServiceTypesStep ==
  ASSUME ServiceTypes, [Next]_vars
  PROVE  ServiceTypes'
<1> USE DEF ServiceTypes, RoundInStep
<1>1. ASSUME NEW i \in 0..Books - 1, BookMoves(i) PROVE ServiceTypes'
  BY <1>1 DEF BookMoves, publisherVars, controlVars
<1>2. ASSUME NEW c \in Clients, Subscribe(c) PROVE ServiceTypes'
  <2>1. subscribers' \in Seq(Clients)
    BY <1>2 DEF Subscribe
  <2>2. QED BY <1>2, <2>1 DEF Subscribe, publisherVars, controlVars
<1>3. ASSUME NEW c \in Clients, Unsubscribe(c) PROVE ServiceTypes'
  <2>1. subscribers' \in Seq(Clients)
    BY <1>3, RemoveAtType DEF Unsubscribe
  <2>2. QED BY <1>3, <2>1 DEF Unsubscribe, publisherVars, controlVars
<1>4. CASE LoopTest \/ ReadBid \/ ReadAsk \/ Wake
  BY <1>4 DEF LoopTest, ReadBid, ReadAsk, Wake, controlVars
<1>5. CASE BeginRound
  BY <1>5 DEF BeginRound, controlVars
<1>6. CASE Tell
  <2>1. Head(untold) \in Clients /\ Tail(untold) \in Seq(Clients)
    BY <1>6 DEF Tell
  <2>2. QED BY <1>6, <2>1 DEF Tell, controlVars
<1>7. CASE Reader
  BY <1>7
     DEF Reader, AskSpread, AnswerSpread, AskDepth, ReadBook, Return, publisherVars,
         controlVars
<1>8. CASE Start \/ StopCalled \/ Join
  <2>1. CASE Start
    BY <2>1 DEF Start
  <2>2. CASE StopCalled
    BY <2>2 DEF StopCalled, publisherVars
  <2>3. CASE Join
    BY <2>3 DEF Join
  <2>4. QED BY <1>8, <2>1, <2>2, <2>3
<1>9. CASE UNCHANGED vars
  BY <1>9 DEF vars, publisherVars, controlVars
<1>10. QED BY <1>1, <1>2, <1>3, <1>4, <1>5, <1>6, <1>7, <1>8, <1>9 DEF Next, Publisher

LEMMA BookTypesStep ==
  ASSUME BookTypes, [Next]_vars
  PROVE  BookTypes'
<1> USE DEF BookTypes
<1>1. ASSUME NEW i \in 0..Books - 1, BookMoves(i) PROVE BookTypes'
  BY <1>1 DEF BookMoves, Watching, Pool
<1>2. CASE UNCHANGED <<books, moved>>
  BY <1>2 DEF Pool
<1>3. CASE Tell \/ Return
  BY <1>3 DEF Tell, Return, Pool
<1>4. CASE (\E c \in Clients : Subscribe(c) \/ Unsubscribe(c))
  BY <1>2, <1>4 DEF Subscribe, Unsubscribe
<1>5. CASE LoopTest \/ BeginRound \/ ReadBid \/ ReadAsk \/ Wake
  BY <1>2, <1>5 DEF LoopTest, BeginRound, ReadBid, ReadAsk, Wake
<1>6. CASE AskSpread \/ AnswerSpread \/ ReadBook \/ \E side \in Side : AskDepth(side)
  BY <1>2, <1>6 DEF AskSpread, AnswerSpread, ReadBook, AskDepth
<1>7. CASE Start \/ StopCalled \/ Join
  BY <1>2, <1>7 DEF Start, StopCalled, Join
<1>8. CASE UNCHANGED vars
  BY <1>2, <1>8 DEF vars
<1>9. QED BY <1>1, <1>3, <1>4, <1>5, <1>6, <1>7, <1>8 DEF Next, Publisher, Reader

\* What a step may do to what the publishing thread has read.
LEMMA SummaryMoves ==
  ASSUME [Next]_vars
  PROVE  ReadBid \/ ReadAsk \/ Tell \/ UNCHANGED summary
<1>1. CASE \E i \in 0..Books - 1 : BookMoves(i)
  BY <1>1 DEF BookMoves, publisherVars
<1>2. CASE \E c \in Clients : Subscribe(c) \/ Unsubscribe(c)
  BY <1>2 DEF Subscribe, Unsubscribe, publisherVars
<1>3. CASE LoopTest \/ BeginRound \/ Wake
  BY <1>3 DEF LoopTest, BeginRound, Wake
<1>4. CASE Reader
  BY <1>4
     DEF Reader, AskSpread, AnswerSpread, ReadBook, AskDepth, Return, publisherVars
<1>5. CASE Start \/ StopCalled \/ Join
  BY <1>5 DEF Start, StopCalled, Join, publisherVars
<1>6. CASE UNCHANGED vars
  BY <1>6 DEF vars, publisherVars
<1>7. QED BY <1>1, <1>2, <1>3, <1>4, <1>5, <1>6 DEF Next, Publisher

LEMMA SummaryTypesStep ==
  ASSUME BookTypes, SummaryTypes, [Next]_vars
  PROVE  SummaryTypes'
<1> USE DEF SummaryTypes
<1>1. HighestBid \in Prices \union {NoBid} /\ LowestAsk \in Prices \union {NoAsk}
  BY PricesOfMoment DEF BookTypes
<1>2. CASE ReadBid
  BY <1>1, <1>2 DEF ReadBid
<1>3. CASE ReadAsk
  BY <1>1, <1>3 DEF ReadAsk
<1>4. CASE Tell
  BY <1>4 DEF Tell, NoSummary
<1>5. CASE UNCHANGED summary
  BY <1>5
<1>6. QED BY <1>2, <1>3, <1>4, <1>5, SummaryMoves

\* What a step may do to the thread that asks.
LEMMA ReaderMoves ==
  ASSUME [Next]_vars
  PROVE  Reader \/ UNCHANGED readerVars
<1>1. CASE \E i \in 0..Books - 1 : BookMoves(i)
  BY <1>1 DEF BookMoves
<1>2. CASE \E c \in Clients : Subscribe(c) \/ Unsubscribe(c)
  BY <1>2 DEF Subscribe, Unsubscribe
<1>3. CASE Publisher
  BY <1>3 DEF Publisher, LoopTest, BeginRound, ReadBid, ReadAsk, Tell, Wake
<1>4. CASE Start \/ StopCalled \/ Join
  BY <1>4 DEF Start, StopCalled, Join
<1>5. CASE UNCHANGED vars
  BY <1>5 DEF vars
<1>6. QED BY <1>1, <1>2, <1>3, <1>4, <1>5 DEF Next

\* An answer is a record whose fields can be set one by one.
Answer == [bid: Prices \union {NoBid}, spread: 0..PriceWord - 1, side: Side, depth: Depths]

LEMMA AnswerFields ==
  ASSUME NEW a \in Answer
  PROVE  /\ \A x \in Prices \union {NoBid} :
              [a EXCEPT !.bid = x] \in Answer /\ [a EXCEPT !.bid = x].bid = x
         /\ \A x \in 0..PriceWord - 1 :
              [a EXCEPT !.spread = x] \in Answer /\ [a EXCEPT !.spread = x].spread = x
         /\ \A x \in Side : [a EXCEPT !.side = x] \in Answer
         /\ \A x \in Depths : [a EXCEPT !.depth = x] \in Answer
         /\ a.bid \in Prices \union {NoBid} /\ a.side \in Side /\ a.depth \in Depths
BY DEF Answer

LEMMA BlankAnswer == NoAnswer \in Answer
<1>1. [p \in {} |-> 0] \in [{} -> Quantities]
  OBVIOUS
<1>2. [p \in {} |-> 0] \in Depths
  BY <1>1, DepthsType
<1>3. QED BY <1>2, QuotesAssumption DEF NoAnswer, Answer, Side

LEMMA SpreadType ==
  ASSUME NEW x \in Int, NEW y \in Int
  PROVE  Spread(x, y) \in 0..PriceWord - 1
<1>1. \A n \in Int, w \in Nat \ {0} : n % w \in 0..w - 1
  OBVIOUS
<1>2. PriceWord \in Nat \ {0} /\ 0 \in 0..PriceWord - 1
  BY QuotesAssumption
<1>3. (y - x) % PriceWord \in 0..PriceWord - 1
  BY <1>1, <1>2
<1>4. QED BY <1>2, <1>3 DEF Spread

LEMMA ReaderTypesStep ==
  ASSUME BookTypes, ReaderTypes, [Next]_vars
  PROVE  ReaderTypes'
<1>1. /\ answer \in Answer
      /\ cursor \in 0..Books /\ Books \in Nat
      /\ reader = "depth" => cursor < Books
      /\ books \in [0..Books - 1 -> BookStates]
  BY QuotesAssumption DEF ReaderTypes, Answer, CursorInStep, BookTypes, Pool
<1> DEFINE Goal == /\ reader' \in {"idle", "spread", "spread answered", "depth",
                                   "depth answered"}
                   /\ answer' \in Answer
                   /\ cursor' \in 0..Books
                   /\ reader' = "depth" => cursor' < Books
<1>2. SUFFICES Goal
  BY DEF ReaderTypes, Answer, CursorInStep
<1>3. CASE AskSpread
  <2>1. HighestBid \in Prices \union {NoBid}
    BY PricesOfMoment DEF BookTypes
  <2>2. QED BY <1>1, <1>3, <2>1, AnswerFields DEF AskSpread
<1>4. CASE AnswerSpread
  <2>1. answer.bid \in Int /\ LowestAsk \in Int
    BY <1>1, AnswerFields, PriceRange, PricesOfMoment DEF BookTypes, NoBid
  <2>2. QED BY <1>1, <1>4, <2>1, AnswerFields, SpreadType DEF AnswerSpread
<1>5. ASSUME NEW side \in Side, AskDepth(side) PROVE Goal
  <2>1. 0 \in 0..Books /\ (Books = 0 \/ 0 < Books)
    BY <1>1
  <2>2. [answer EXCEPT !.side = side] \in Answer
    BY <1>1, AnswerFields
  <2>3. QED BY <1>5, <2>1, <2>2 DEF AskDepth
<1>6. CASE ReadBook
  <2> DEFINE d == Trim(AddBook(answer.depth, TopPriceLevels(books[cursor], answer.side)),
                       answer.side)
  <2>1. /\ cursor \in 0..Books - 1 /\ cursor + 1 \in 0..Books
        /\ cursor + 1 = Books \/ cursor + 1 < Books
    <3>1. cursor \in 0..Books /\ cursor < Books /\ Books \in Nat
      BY <1>1, <1>6 DEF ReadBook
    <3>2. QED BY <3>1
  <2>2. books[cursor] \in BookStates /\ answer.side \in Side /\ answer.depth \in Depths
    BY <1>1, <2>1, AnswerFields
  <2>3. d \in Depths
    BY <2>2, TopType, AddBookType, TrimType
  <2>4. answer' = [answer EXCEPT !.depth = d]
    BY <1>6 DEF ReadBook
  <2> HIDE DEF d
  <2>5. answer' \in Answer
    BY <1>1, <2>3, <2>4, AnswerFields
  <2>6. /\ cursor' = cursor + 1
        /\ reader' = IF cursor + 1 = Books THEN "depth answered" ELSE "depth"
    BY <1>6 DEF ReadBook
  <2>7. QED BY <2>1, <2>5, <2>6
<1>7. CASE Return
  <2>1. 0 \in 0..Books
    BY <1>1
  <2>2. QED BY <1>7, <2>1, BlankAnswer DEF Return
<1>8. CASE UNCHANGED readerVars
  BY <1>1, <1>8 DEF readerVars, ReaderTypes
<1>9. QED BY <1>3, <1>4, <1>5, <1>6, <1>7, <1>8, ReaderMoves DEF Reader

LEMMA TypesInvariance == Spec => []Types
<1>1. Init => Types
  <2> SUFFICES ASSUME Init PROVE Types
    OBVIOUS
  <2>1. ServiceTypes
    <3>1. /\ subscribers = <<>> /\ untold = <<>> /\ told = <<>>
          /\ running = FALSE /\ publisher = "none" /\ control = "down" /\ starts = 0
      BY DEF Init
    <3>2. <<>> \in Seq(Clients)
      OBVIOUS
    <3>3. running \in BOOLEAN
      BY <3>1
    <3>4. QED BY <3>1, <3>2, <3>3 DEF ServiceTypes, RoundInStep
  <2>2. SummaryTypes
    BY DEF Init, NoSummary, SummaryTypes
  <2>3. BookTypes
    BY DEF Init, BookTypes, Pool
  <2>4. ReaderTypes
    <3>1. NoAnswer \in Answer
      BY BlankAnswer
    <3>2. 0 \in 0..Books
      BY QuotesAssumption
    <3>3. QED BY <3>1, <3>2 DEF Init, ReaderTypes, Answer, CursorInStep
  <2>5. QED BY <2>1, <2>2, <2>3, <2>4, TypesGrouped
<1>2. Types /\ [Next]_vars => Types'
  <2> SUFFICES ASSUME Types, [Next]_vars PROVE Types'
    OBVIOUS
  <2>1. ServiceTypes /\ SummaryTypes /\ ReaderTypes /\ BookTypes
    BY TypesGrouped
  <2>2. ServiceTypes' /\ SummaryTypes' /\ ReaderTypes' /\ BookTypes'
    BY <2>1, ServiceTypesStep, SummaryTypesStep, ReaderTypesStep, BookTypesStep
  <2>3. QED BY <2>2 DEF Types, TypeOK, ServiceTypes, SummaryTypes, ReaderTypes, BookTypes,
                        Pool
<1>3. QED BY <1>1, <1>2, PTL DEF Spec

\* Each thread stays within its program and each price and answer within its word.
THEOREM QuotesTypes == Spec => []TypeOK
<1>1. Types => TypeOK
  BY DEF Types
<1>2. QED BY <1>1, TypesInvariance, PTL

-----------------------------------------------------------------------------
(* Nobody is called too late. *)

\* No thread without a start(), and whom the round still has to call is subscribed.
CallsInStep ==
  /\ control = "down" => publisher = "none"
  /\ publisher \in {"bid", "ask", "tell"} =>
       \A i \in 1..Len(untold) : untold[i] \in Range(subscribers)

LEMMA CallsStep ==
  ASSUME ServiceTypes, CallsInStep, [Next]_vars
  PROVE  CallsInStep'
<1> USE DEF CallsInStep
<1>1. ASSUME NEW i \in 0..Books - 1, BookMoves(i) PROVE CallsInStep'
  BY <1>1 DEF BookMoves, publisherVars, controlVars
<1>2. ASSUME NEW c \in Clients, Subscribe(c) \/ Unsubscribe(c) PROVE CallsInStep'
  BY <1>2 DEF Subscribe, Unsubscribe, MutexFree, publisherVars, controlVars
<1>3. CASE BeginRound
  <2>1. untold' = subscribers /\ subscribers' = subscribers /\ control' = control
        /\ publisher = "lock"
    BY <1>3 DEF BeginRound, controlVars
  <2>2. \A i \in 1..Len(subscribers) : subscribers[i] \in Range(subscribers)
    BY DEF Range, ServiceTypes
  <2>3. QED BY <2>1, <2>2
<1>4. CASE Tell
  <2>1. /\ untold # <<>> /\ untold \in Seq(Clients)
        /\ untold' = Tail(untold) /\ UNCHANGED <<subscribers, control>>
        /\ publisher = "tell"
    BY <1>4 DEF Tell, ServiceTypes, RoundInStep, controlVars
  <2>2. \A i \in 1..Len(Tail(untold)) : i + 1 \in 1..Len(untold)
                                       /\ Tail(untold)[i] = untold[i + 1]
    BY <2>1
  <2>3. QED BY <2>1, <2>2
<1>5. CASE LoopTest \/ ReadBid \/ ReadAsk \/ Wake
  BY <1>5 DEF LoopTest, ReadBid, ReadAsk, Wake, controlVars
<1>6. CASE Reader
  BY <1>6
     DEF Reader, AskSpread, AnswerSpread, AskDepth, ReadBook, Return, publisherVars,
         controlVars
<1>7. CASE Start \/ StopCalled \/ Join
  BY <1>7 DEF Start, StopCalled, Join, publisherVars
<1>8. CASE UNCHANGED vars
  BY <1>8 DEF vars, publisherVars, controlVars
<1>9. QED BY <1>1, <1>2, <1>3, <1>4, <1>5, <1>6, <1>7, <1>8 DEF Next, Publisher

\* Who is called is subscribed at that moment, and no one is called once stop() has
\* returned: a client may be destroyed after unsubscribe() or after stop().
THEOREM NobodyCalledLate == Spec => NoLateCall
<1>1. Init => CallsInStep
  BY DEF Init, CallsInStep
<1>2. Types /\ CallsInStep /\ [Next]_vars => CallsInStep'
  BY TypesGrouped, CallsStep
<1>3. Types /\ CallsInStep /\ [Next]_vars =>
        [told' # told /\ told' # <<>> =>
           control # "down" /\ told'[Len(told')] \in Range(subscribers)]_vars
  <2> SUFFICES ASSUME Types, CallsInStep, [Next]_vars, told' # told, told' # <<>>
               PROVE  control # "down" /\ told'[Len(told')] \in Range(subscribers)
    OBVIOUS
  <2>1. Tell
    <3>1. CASE Next
      BY <3>1
         DEF Next, Publisher, Reader, BookMoves, Subscribe, Unsubscribe, LoopTest, BeginRound,
             ReadBid, ReadAsk, Wake, AskSpread, AnswerSpread, AskDepth, ReadBook, Return,
             Start, StopCalled, Join, publisherVars
    <3>2. QED BY <3>1 DEF vars, publisherVars
  <2>2. /\ told \in Seq(Clients) /\ untold \in Seq(Clients) /\ untold # <<>>
        /\ told' = Append(told, Head(untold)) /\ publisher = "tell"
    BY <2>1, TypesGrouped DEF Tell, ServiceTypes, RoundInStep
  <2>3. told'[Len(told')] = untold[1] /\ 1 \in 1..Len(untold)
    BY <2>2
  <2>4. QED BY <2>2, <2>3 DEF CallsInStep
<1>4. QED BY <1>1, <1>2, <1>3, TypesInvariance, PTL DEF Spec, NoLateCall

-----------------------------------------------------------------------------
(* What is read in two reads. *)

\* As long as book 0 has not moved since the first read, what was read still holds.
PublishedInStep ==
  "publisher" \notin moved =>
    /\ publisher \in {"ask", "tell"} => summary.bid = HighestBid
    /\ publisher = "tell" => summary.ask = LowestAsk

AskedInStep ==
  "reader" \notin moved =>
    /\ reader = "spread" => answer.bid = HighestBid
    /\ reader = "spread answered" => answer.spread = Spread(HighestBid, LowestAsk)

LEMMA SameBook ==
  ASSUME BookTypes, Books = 0 \/ books'[0] = books[0]
  PROVE  HighestBid' = HighestBid /\ LowestAsk' = LowestAsk
BY DEF HighestBid, LowestAsk

\* A book that moves is not the one a thread watches, or the move is remembered.
LEMMA MovesNoticed ==
  ASSUME BookTypes, NEW i \in 0..Books - 1, BookMoves(i)
  PROVE  /\ publisher \in {"ask", "tell"} /\ "publisher" \notin moved' =>
              HighestBid' = HighestBid /\ LowestAsk' = LowestAsk
         /\ reader \in {"spread", "spread answered"} /\ "reader" \notin moved' =>
              HighestBid' = HighestBid /\ LowestAsk' = LowestAsk
         /\ moved \subseteq moved'
<1>1. /\ moved' = moved \union Watching(i)
      /\ \E b \in BookStates : books' = [books EXCEPT ![i] = b]
      /\ books \in [0..Books - 1 -> BookStates] /\ Books \in Nat
  BY QuotesAssumption DEF BookMoves, BookTypes, Pool
<1>2. CASE i = 0
  BY <1>1, <1>2 DEF Watching
<1>3. CASE i # 0
  <2>1. books'[0] = books[0]
    BY <1>1, <1>3
  <2>2. QED BY <1>1, <2>1, SameBook
<1>4. QED BY <1>2, <1>3

LEMMA PublishedStep ==
  ASSUME BookTypes, SummaryTypes, PublishedInStep, [Next]_vars
  PROVE  PublishedInStep'
<1>1. ASSUME NEW i \in 0..Books - 1, BookMoves(i) PROVE PublishedInStep'
  <2>1. UNCHANGED <<publisher, summary>>
    BY <1>1 DEF BookMoves, publisherVars
  <2>2. QED BY <1>1, <2>1, MovesNoticed DEF PublishedInStep
<1>2. ASSUME UNCHANGED <<books, moved, summary>>,
             publisher' \in {"ask", "tell"} => publisher' = publisher
      PROVE  PublishedInStep'
  BY <1>2, SameBook DEF PublishedInStep
<1>3. CASE ReadBid
  <2>1. summary' = [summary EXCEPT !.bid = HighestBid] /\ publisher' = "ask" /\ books' = books
    BY <1>3 DEF ReadBid
  <2>2. summary'.bid = HighestBid
    BY <2>1 DEF SummaryTypes
  <2>3. QED BY <2>1, <2>2, SameBook DEF PublishedInStep
<1>4. CASE ReadAsk
  <2>1. /\ summary' = [summary EXCEPT !.ask = LowestAsk]
        /\ publisher = "ask" /\ publisher' = "tell" /\ UNCHANGED <<books, moved>>
    BY <1>4 DEF ReadAsk
  <2>2. summary'.bid = summary.bid /\ summary'.ask = LowestAsk
    BY <2>1 DEF SummaryTypes
  <2>3. QED BY <2>1, <2>2, SameBook DEF PublishedInStep
<1>5. CASE Tell
  <2>1. CASE publisher' = "sleep"
    BY <2>1 DEF PublishedInStep
  <2>2. CASE UNCHANGED <<publisher, summary, moved>>
    BY <1>2, <1>5, <2>2 DEF Tell
  <2>3. QED BY <1>5, <2>1, <2>2 DEF Tell
<1>6. CASE Return
  <2>1. UNCHANGED <<books, publisher, summary>> /\ moved' = moved \ {"reader"}
    BY <1>6 DEF Return, publisherVars
  <2>2. QED BY <2>1, SameBook DEF PublishedInStep
<1>7. CASE LoopTest \/ BeginRound \/ Wake
  BY <1>2, <1>7 DEF LoopTest, BeginRound, Wake
<1>8. CASE AskSpread \/ AnswerSpread \/ ReadBook \/ \E side \in Side : AskDepth(side)
  BY <1>2, <1>8 DEF AskSpread, AnswerSpread, ReadBook, AskDepth, publisherVars
<1>9. CASE (\E c \in Clients : Subscribe(c) \/ Unsubscribe(c))
  BY <1>2, <1>9 DEF Subscribe, Unsubscribe, publisherVars
<1>10. CASE Start \/ StopCalled \/ Join
  BY <1>2, <1>10 DEF Start, StopCalled, Join, publisherVars
<1>11. CASE UNCHANGED vars
  BY <1>2, <1>11 DEF vars, publisherVars
<1>12. QED BY <1>1, <1>3, <1>4, <1>5, <1>6, <1>7, <1>8, <1>9, <1>10, <1>11
           DEF Next, Publisher, Reader

LEMMA AskedStep ==
  ASSUME BookTypes, ReaderTypes, AskedInStep, [Next]_vars
  PROVE  AskedInStep'
<1>1. ASSUME NEW i \in 0..Books - 1, BookMoves(i) PROVE AskedInStep'
  <2>1. UNCHANGED <<reader, answer>>
    BY <1>1 DEF BookMoves, readerVars
  <2>2. QED BY <1>1, <2>1, MovesNoticed DEF AskedInStep, Spread
<1>2. ASSUME UNCHANGED <<books, answer>>, "reader" \in moved => "reader" \in moved',
             reader' = reader
      PROVE  AskedInStep'
  BY <1>2, SameBook DEF AskedInStep, Spread
<1>3. CASE AskSpread
  <2>1. answer' = [answer EXCEPT !.bid = HighestBid] /\ reader' = "spread" /\ books' = books
    BY <1>3 DEF AskSpread
  <2>2. answer'.bid = HighestBid
    BY <2>1 DEF ReaderTypes
  <2>3. QED BY <2>1, <2>2, SameBook DEF AskedInStep
<1>4. CASE AnswerSpread
  <2>1. /\ answer' = [answer EXCEPT !.spread = Spread(answer.bid, LowestAsk)]
        /\ reader = "spread" /\ reader' = "spread answered" /\ UNCHANGED <<books, moved>>
    BY <1>4 DEF AnswerSpread
  <2>2. answer'.spread = Spread(answer.bid, LowestAsk)
    BY <2>1 DEF ReaderTypes
  <2>3. QED BY <2>1, <2>2, SameBook DEF AskedInStep, Spread
<1>5. CASE ReadBook \/ Return \/ \E side \in Side : AskDepth(side)
  BY <1>5 DEF ReadBook, Return, AskDepth, AskedInStep
<1>6. CASE Tell
  BY <1>2, <1>6 DEF Tell, readerVars
<1>7. CASE LoopTest \/ BeginRound \/ ReadBid \/ ReadAsk \/ Wake
  BY <1>2, <1>7 DEF LoopTest, BeginRound, ReadBid, ReadAsk, Wake, readerVars
<1>8. CASE (\E c \in Clients : Subscribe(c) \/ Unsubscribe(c))
  BY <1>2, <1>8 DEF Subscribe, Unsubscribe, readerVars
<1>9. CASE Start \/ StopCalled \/ Join
  BY <1>2, <1>9 DEF Start, StopCalled, Join, readerVars
<1>10. CASE UNCHANGED vars
  BY <1>2, <1>10 DEF vars, readerVars
<1>11. QED BY <1>1, <1>3, <1>4, <1>5, <1>6, <1>7, <1>8, <1>9, <1>10
           DEF Next, Publisher, Reader

\* The two prices of a summary, and of the spread, are uncrossed and no worse than any
\* order that rests in the book, for any book, any prices and any word, unless the book
\* moved between the two reads; an order rests at each, or the side is empty, unless the
\* book is in the middle of a match.
THEOREM QuotedPricesTrue == Spec => []PricesTrue
<1>1. Init => PublishedInStep /\ AskedInStep
  BY DEF Init, PublishedInStep, AskedInStep
<1>2. Types /\ PublishedInStep /\ AskedInStep /\ [Next]_vars
        => PublishedInStep' /\ AskedInStep'
  BY TypesGrouped, PublishedStep, AskedStep
<1>3. Types /\ PublishedInStep /\ AskedInStep => PricesTrue
  <2> SUFFICES ASSUME Types, PublishedInStep, AskedInStep PROVE SummaryTrue /\ SpreadTrue
    BY DEF PricesTrue
  <2>1. books \in Pool
    BY TypesGrouped DEF BookTypes
  <2>2. ASSUME publisher = "tell", "publisher" \notin moved
        PROVE  /\ summary.bid < summary.ask
               /\ IF Books = 0
                  THEN summary = NoSummary
                  ELSE /\ QuotedAt(books[0], "buy", summary.bid, NoBid)
                       /\ QuotedAt(books[0], "sell", summary.ask, NoAsk)
    <3>1. summary.bid = HighestBid /\ summary.ask = LowestAsk
      BY <2>2 DEF PublishedInStep
    <3>2. summary.bid < summary.ask
      BY <2>1, <3>1, PricesOfMoment
    <3>3. CASE Books = 0
      <4>1. summary.bid = NoBid /\ summary.ask = NoAsk
        BY <3>1, <3>3 DEF HighestBid, LowestAsk
      <4>2. summary = NoSummary
        BY <4>1, TypesGrouped DEF SummaryTypes, NoSummary
      <4>3. QED BY <3>2, <3>3, <4>2
    <3>4. CASE Books # 0
      BY <2>1, <3>1, <3>2, <3>4, QuotedOfMoment
    <3>5. QED BY <3>3, <3>4
  <2>3. ASSUME reader = "spread answered", "reader" \notin moved
        PROVE  IF Empty("buy") \/ Empty("sell")
               THEN answer.spread = 0
               ELSE \E bid \in Levels(books[0], "buy"), ask \in Levels(books[0], "sell") :
                      /\ bid + answer.spread = ask
                      /\ QuotedAt(books[0], "buy", bid, NoBid)
                      /\ QuotedAt(books[0], "sell", ask, NoAsk)
    <3>1. IF Empty("buy") \/ Empty("sell")
          THEN answer.spread = 0
          ELSE HighestBid + answer.spread = LowestAsk
      BY <2>1, <2>3, SpreadOfMoment DEF AskedInStep
    <3>2. CASE Empty("buy") \/ Empty("sell")
      BY <3>1, <3>2
    <3>3. CASE ~(Empty("buy") \/ Empty("sell"))
      <4>1. /\ Books # 0
            /\ Levels(books[0], "buy") # {} /\ Levels(books[0], "sell") # {}
        BY <3>3 DEF Empty
      <4>2. books[0] \in BookStates
        BY <2>1, <4>1, QuotesAssumption DEF Pool
      <4>3. /\ HighestBid \in Levels(books[0], "buy")
            /\ LowestAsk \in Levels(books[0], "sell")
        BY <4>1, <4>2, BestExists
           DEF HighestBid, LowestAsk, HighestBuy, LowestSell, Side
      <4>4. QED BY <2>1, <3>1, <3>3, <4>1, <4>3, QuotedOfMoment
    <3>4. QED BY <3>2, <3>3
  <2>4. SummaryTrue
    BY <2>2 DEF SummaryTrue
  <2>5. SpreadTrue
    BY <2>3 DEF SpreadTrue, Empty
  <2>6. QED BY <2>4, <2>5
<1>4. QED BY <1>1, <1>2, <1>3, TypesInvariance, PTL DEF Spec

-----------------------------------------------------------------------------
(* The first levels of a set of prices. *)

Ahead(T, p, side) == {q \in T : Better(side, q, p)}

LEMMA FirstMeans ==
  \A n, T, side : First(n, T, side) = {p \in T : Cardinality(Ahead(T, p, side)) < n}
BY DEF First, Ahead

\* Better is a strict total order of prices.
LEMMA BetterOrders ==
  ASSUME NEW side, NEW p \in Prices, NEW q \in Prices
  PROVE  /\ ~Better(side, p, p)
         /\ p # q => Better(side, p, q) \/ Better(side, q, p)
         /\ \A r \in Prices : Better(side, p, q) /\ Better(side, q, r) => Better(side, p, r)
<1>1. \A x \in Prices : x \in Nat
  BY PriceRange
<1>2. QED BY <1>1 DEF Better

LEMMA AheadCounted ==
  ASSUME NEW S, NEW T, S \subseteq T, T \subseteq Prices, NEW p, NEW side
  PROVE  /\ IsFiniteSet(T) /\ Cardinality(T) \in Nat
         /\ Cardinality(Ahead(T, p, side)) \in Nat
         /\ Cardinality(Ahead(S, p, side)) <= Cardinality(Ahead(T, p, side))
         /\ Cardinality(Ahead(S, p, side)) \in Nat
<1>1. IsFiniteSet(T)
  BY QuotesAssumption, FS_Subset
<1>2. Ahead(T, p, side) \in SUBSET T /\ Ahead(S, p, side) \in SUBSET Ahead(T, p, side)
  BY DEF Ahead
<1>3. IsFiniteSet(Ahead(T, p, side)) /\ IsFiniteSet(Ahead(S, p, side))
  BY <1>1, <1>2, FS_Subset
<1>4. QED BY <1>1, <1>2, <1>3, FS_Subset, FS_CardinalityType

\* Fewer prices are ahead of a better one.
LEMMA AheadOfBetter ==
  ASSUME NEW T, T \subseteq Prices, NEW side, NEW p \in T, NEW q \in T, Better(side, p, q)
  PROVE  Cardinality(Ahead(T, p, side)) <= Cardinality(Ahead(T, q, side))
<1>1. Ahead(T, p, side) \subseteq Ahead(T, q, side)
  BY BetterOrders DEF Ahead
<1>2. IsFiniteSet(Ahead(T, q, side))
  <2>1. IsFiniteSet(T) /\ Ahead(T, q, side) \in SUBSET T
    BY AheadCounted DEF Ahead
  <2>2. QED BY <2>1, FS_Subset
<1>3. QED BY <1>1, <1>2, FS_Subset

\* A price among the first of many is among the first of fewer.
LEMMA FirstOfFewer ==
  ASSUME NEW S, NEW T, S \subseteq T, T \subseteq Prices, NEW n \in Int, NEW m \in Int, n <= m,
         NEW side, NEW p \in First(n, T, side), p \in S
  PROVE  p \in First(m, S, side)
<1>1. Cardinality(Ahead(T, p, side)) < n
  BY FirstMeans
<1>2. Cardinality(Ahead(S, p, side)) < m
  BY <1>1, AheadCounted
<1>3. QED BY <1>2, FirstMeans

\* Of n prices or more, the first n are n.
LEMMA FirstFills ==
  ASSUME NEW T, T \subseteq Prices, NEW side
  PROVE  \A n \in Nat : n <= Cardinality(T) => Cardinality(First(n, T, side)) = n
<1> DEFINE Bad == {n \in Nat : n <= Cardinality(T) /\ Cardinality(First(n, T, side)) # n}
<1>1. IsFiniteSet(T) /\ Cardinality(T) \in Nat
  BY AheadCounted
<1>2. SUFFICES ASSUME Bad # {} PROVE FALSE
  OBVIOUS
<1>3. PICK n \in Bad : \A m \in Bad : ~(m < n)
  <2>1. Bad \subseteq Nat
    OBVIOUS
  <2> HIDE DEF Bad
  <2>2. QED BY <1>2, <2>1, LeastExists
<1>4. n \in Nat /\ n <= Cardinality(T) /\ Cardinality(First(n, T, side)) # n
  BY <1>3
<1>5. n # 0
  <2>1. First(0, T, side) = {}
    BY FirstMeans, AheadCounted
  <2>2. QED BY <1>4, <2>1, FS_EmptySet
<1> DEFINE F == First(n - 1, T, side)
<1>6. Cardinality(F) = n - 1 /\ n - 1 \in Nat
  <2>1. n - 1 \in Nat /\ n - 1 < n /\ n - 1 <= Cardinality(T)
    BY <1>1, <1>4, <1>5
  <2>2. n - 1 \notin Bad
    BY <1>3, <2>1
  <2>3. QED BY <2>1, <2>2
<1> HIDE DEF Bad
<1>7. F \subseteq T /\ IsFiniteSet(F) /\ T \ F # {}
  <2>1. F \in SUBSET T
    BY FirstMeans
  <2>2. F # T
    BY <1>1, <1>4, <1>6
  <2>3. QED BY <1>1, <2>1, <2>2, FS_Subset
<1>8. PICK x \in T \ F : \A y \in T \ F : ~Better(side, y, x)
  BY <1>7, BestOfExists
<1>9. \A q \in F : Better(side, q, x)
  <2> SUFFICES ASSUME NEW q \in F PROVE Better(side, q, x)
    OBVIOUS
  <2>1. x \in Prices /\ q \in Prices /\ x # q /\ q \in T
    BY <1>7, <1>8
  <2>2. ASSUME Better(side, x, q) PROVE FALSE
    <3>1. Cardinality(Ahead(T, x, side)) <= Cardinality(Ahead(T, q, side))
      BY <1>8, <2>1, <2>2, AheadOfBetter
    <3>2. Cardinality(Ahead(T, q, side)) < n - 1
      BY FirstMeans
    <3>3. Cardinality(Ahead(T, x, side)) < n - 1
      BY <1>6, <3>1, <3>2, AheadCounted
    <3>4. QED BY <1>8, <3>3, FirstMeans
  <2>3. QED BY <2>1, <2>2, BetterOrders
<1>10. Ahead(T, x, side) = F
  <2>1. ASSUME NEW q \in T, Better(side, q, x) PROVE q \in F
    BY <1>8, <2>1
  <2> HIDE DEF F
  <2>2. QED BY <1>7, <1>9, <2>1 DEF Ahead
<1>11. Cardinality(F \union {x}) = n
  <2>1. x \notin F /\ IsFiniteSet(F)
    BY <1>7, <1>8
  <2> HIDE DEF F
  <2>2. Cardinality(F \union {x}) = Cardinality(F) + 1
    BY <2>1, FS_AddElement
  <2>3. QED BY <1>4, <1>6, <2>2
<1>12. First(n, T, side) = F \union {x}
  <2>1. x \in First(n, T, side)
    <3>1. Cardinality(Ahead(T, x, side)) < n
      BY <1>4, <1>6, <1>10
    <3>2. QED BY <1>8, <3>1, FirstMeans
  <2>2. ASSUME NEW q \in F PROVE q \in First(n, T, side)
    <3>1. Cardinality(Ahead(T, q, side)) < n - 1 /\ q \in T
      BY FirstMeans
    <3>2. Cardinality(Ahead(T, q, side)) < n
      BY <1>4, <3>1, AheadCounted
    <3>3. QED BY <3>1, <3>2, FirstMeans
  <2>3. ASSUME NEW y \in First(n, T, side), y \notin F, y # x PROVE FALSE
    <3>1. y \in T /\ Cardinality(Ahead(T, y, side)) < n
      BY FirstMeans
    <3>2. x \in Prices /\ y \in Prices /\ ~Better(side, y, x)
      BY <1>8, <2>3, <3>1
    <3>3. Better(side, x, y)
      BY <2>3, <3>2, BetterOrders
    <3>4. ASSUME NEW q \in F \union {x} PROVE q \in Ahead(T, y, side)
      <4>1. q \in Prices /\ q \in T
        BY <1>7, <1>8
      <4>2. Better(side, q, y)
        BY <1>9, <3>2, <3>3, <3>4, <4>1, BetterOrders
      <4>3. QED BY <4>1, <4>2 DEF Ahead
    <3> HIDE DEF F
    <3>5. Cardinality(F \union {x}) = n
      BY <1>11
    <3>6. IsFiniteSet(Ahead(T, y, side))
      <4>1. Ahead(T, y, side) \in SUBSET T
        BY DEF Ahead
      <4>2. QED BY <1>1, <4>1, FS_Subset
    <3>7. F \union {x} \in SUBSET Ahead(T, y, side)
      BY <3>4
    <3>8. n <= Cardinality(Ahead(T, y, side))
      BY <3>5, <3>6, <3>7, FS_Subset
    <3>9. QED BY <1>4, <3>1, <3>8, AheadCounted
  <2> HIDE DEF F
  <2>4. QED BY <2>1, <2>2, <2>3
<1>13. QED BY <1>4, <1>11, <1>12

\* As long as the first n of a set are kept, dropping others changes nothing.
LEMMA FirstOfKept ==
  ASSUME NEW D, NEW P, D \subseteq P, P \subseteq Prices, NEW n \in Nat, NEW side,
         First(n, P, side) \subseteq D
  PROVE  First(n, D, side) = First(n, P, side)
<1>1. ASSUME NEW p \in First(n, P, side) PROVE p \in First(n, D, side)
  <2>1. n \in Int /\ n <= n /\ p \in D
    BY <1>1
  <2>2. QED BY <2>1, FirstOfFewer
<1>2. ASSUME NEW p \in First(n, D, side), p \notin First(n, P, side) PROVE FALSE
  <2>1. p \in D /\ p \in P /\ Cardinality(Ahead(D, p, side)) < n
    BY <1>2, FirstMeans
  <2>2. ~(Cardinality(Ahead(P, p, side)) < n)
    BY <1>2, <2>1, FirstMeans
  <2>3. IsFiniteSet(P) /\ Ahead(P, p, side) \in SUBSET P
    BY AheadCounted DEF Ahead
  <2>4. n <= Cardinality(P)
    <3>1. Cardinality(Ahead(P, p, side)) <= Cardinality(P)
      BY <2>3, FS_Subset
    <3>2. QED BY <2>2, <3>1, AheadCounted
  <2>5. Cardinality(First(n, P, side)) = n
    BY <2>4, FirstFills
  <2>6. ASSUME NEW q \in First(n, P, side) PROVE q \in Ahead(D, p, side)
    <3>1. q \in D /\ q \in P /\ Cardinality(Ahead(P, q, side)) < n /\ q # p
      BY <1>2, <2>6, FirstMeans
    <3>2. ASSUME Better(side, p, q) PROVE FALSE
      <4>1. Cardinality(Ahead(P, p, side)) <= Cardinality(Ahead(P, q, side))
        BY <2>1, <3>1, <3>2, AheadOfBetter
      <4>2. QED BY <2>2, <3>1, <4>1, AheadCounted
    <3>3. p \in Prices /\ q \in Prices
      BY <2>1, <3>1
    <3>4. Better(side, q, p)
      BY <3>1, <3>2, <3>3, BetterOrders
    <3>5. QED BY <3>1, <3>4 DEF Ahead
  <2>7. IsFiniteSet(Ahead(D, p, side))
    <3>1. Ahead(D, p, side) \in SUBSET P
      BY DEF Ahead
    <3>2. QED BY <2>3, <3>1, FS_Subset
  <2>8. First(n, P, side) \in SUBSET Ahead(D, p, side)
    BY <2>6
  <2>9. n <= Cardinality(Ahead(D, p, side))
    BY <2>5, <2>7, <2>8, FS_Subset
  <2>10. QED BY <2>1, <2>9, AheadCounted
<1>3. QED BY <1>1, <1>2
-----------------------------------------------------------------------------
(* Quantities that wrap around. *)

\* It is the same to wrap as one goes and at the end.
LEMMA WrapSum ==
  /\ Wrap(0) = 0
  /\ \A x, y \in Int : Wrap(Wrap(x) + Wrap(y)) = Wrap(x + y)
<1> DEFINE h == QtyWord \div 2
           q(n) == (n + h) \div QtyWord
<1>1. QtyWord \in Nat \ {0} /\ h \in 0..QtyWord - 1
  BY QuotesAssumption
<1>2. ASSUME NEW n \in Int
      PROVE  /\ q(n) \in Int /\ Wrap(n) + h \in 0..QtyWord - 1 /\ Wrap(n) \in Int
             /\ n + h = QtyWord * q(n) + (Wrap(n) + h)
  <2>1. n + h \in Int
    BY <1>1
  <2>2. Wrap(n) + h = (n + h) % QtyWord /\ Wrap(n) \in Int
    <3>1. (n + h) % QtyWord \in Int
      BY <1>1, <2>1
    <3> DEFINE r == (n + h) % QtyWord
    <3>2. Wrap(n) = r - h
      BY DEF Wrap
    <3> HIDE DEF r, h
    <3>3. QED BY <1>1, <3>1, <3>2 DEF r
  <2> DEFINE m == n + h
  <2> HIDE DEF m, h
  <2>3. /\ m \div QtyWord \in Int /\ m % QtyWord \in 0..QtyWord - 1
        /\ m = QtyWord * (m \div QtyWord) + (m % QtyWord)
    BY <1>1, <2>1, Division DEF m
  <2>4. QED BY <2>2, <2>3 DEF m
<1>3. ASSUME NEW n \in Int, NEW w \in Int, w + h \in 0..QtyWord - 1,
             NEW k \in Int, n = QtyWord * k + w
      PROVE  Wrap(n) = w
  <2>1. /\ q(n) \in Int /\ Wrap(n) + h \in 0..QtyWord - 1 /\ Wrap(n) \in Int
        /\ n + h = QtyWord * q(n) + (Wrap(n) + h)
    BY <1>2
  <2> DEFINE p == q(n)
             v == Wrap(n)
  <2> HIDE DEF p, v, h, q
  <2>2. p \in Int /\ v \in Int /\ v + h \in 0..QtyWord - 1 /\ n + h = QtyWord * p + (v + h)
    BY <2>1 DEF p, v
  <2>3. QtyWord * k \in Int /\ QtyWord * p \in Int
    BY <1>1, <2>2
  <2>4. QtyWord * p + (v + h) = QtyWord * k + (w + h)
    BY <1>1, <1>3, <2>2, <2>3
  <2>5. v + h = w + h
    BY <1>1, <1>3, <2>2, <2>4, QuotientUnique
  <2>6. v = w
    BY <1>1, <2>2, <2>5
  <2>7. QED BY <2>6 DEF v
<1>4. Wrap(0) = 0
  <2> HIDE DEF h, q
  <2>1. 0 = QtyWord * 0 + 0 /\ 0 + h \in 0..QtyWord - 1
    BY <1>1
  <2>2. QED BY <1>3, <2>1
<1>5. ASSUME NEW x \in Int, NEW y \in Int
      PROVE  Wrap(Wrap(x) + Wrap(y)) = Wrap(x + y)
  <2> DEFINE wx == Wrap(x)
             wy == Wrap(y)
             w == Wrap(x + y)
             a == q(x)
             b == q(y)
             c == q(x + y)
  <2>1. /\ a \in Int /\ wx \in Int /\ x + h = QtyWord * a + (wx + h)
        /\ b \in Int /\ wy \in Int /\ y + h = QtyWord * b + (wy + h)
    BY <1>2
  <2>2. /\ c \in Int /\ w \in Int /\ w + h \in 0..QtyWord - 1
        /\ (x + y) + h = QtyWord * c + (w + h)
    <3>1. x + y \in Int
      OBVIOUS
    <3>2. QED BY <1>2, <3>1
  <2> HIDE DEF wx, wy, w, a, b, c, h, q
  <2>3. /\ QtyWord * a \in Int /\ QtyWord * b \in Int /\ QtyWord * c \in Int
        /\ c - a - b \in Int
        /\ QtyWord * (c - a - b) = QtyWord * c - QtyWord * a - QtyWord * b
    BY <1>1, <2>1, <2>2
  <2>4. wx + wy = QtyWord * (c - a - b) + w
    BY <1>1, <2>1, <2>2, <2>3
  <2>5. Wrap(wx + wy) = w
    BY <1>3, <2>1, <2>2, <2>3, <2>4
  <2>6. QED BY <2>5 DEF wx, wy, w
<1>6. QED BY <1>4, <1>5

-----------------------------------------------------------------------------
(* The pool, one book after the other. *)

PoolTo(bs, k, side) == UNION {Levels(bs[i], side) : i \in 0..k - 1}

RestingAt(bs, side, p) == [i \in 0..Books - 1 |-> At(bs[i][side], p)]

QuantityTo(bs, k, side, p) == SumOf(RestingAt(bs, side, p), 0..k - 1)

LEMMA PoolToType ==
  ASSUME NEW bs \in Pool, NEW k \in 0..Books, NEW side \in Side
  PROVE  PoolTo(bs, k, side) \subseteq Prices
<1>1. \A i \in 0..k - 1 : bs[i] \in BookStates
  BY QuotesAssumption DEF Pool
<1>2. \A i \in 0..k - 1 : Levels(bs[i], side) \subseteq Prices
  BY <1>1, LevelsType
<1>3. QED BY <1>2 DEF PoolTo

\* Nothing rests where there is no level.
LEMMA AtLevels ==
  ASSUME NEW b \in BookStates, NEW side \in Side, NEW p
  PROVE  /\ At(b[side], p) \in Nat
         /\ p \notin Levels(b, side) => At(b[side], p) = 0
         /\ p \in Levels(b, side) => At(b[side], p) = b[side][p]
<1>1. b[side] \in [Levels(b, side) -> Nat]
  BY QuotesAssumption
<1>2. QED BY <1>1 DEF At, Levels

LEMMA PoolStarts ==
  ASSUME NEW bs \in Pool, NEW side \in Side, NEW p
  PROVE  PoolTo(bs, 0, side) = {} /\ QuantityTo(bs, 0, side, p) = 0
<1>1. 0..0 - 1 = {}
  OBVIOUS
<1>2. QED BY <1>1, SumEmpty DEF PoolTo, QuantityTo

\* A book more.
LEMMA PoolGrows ==
  ASSUME NEW bs \in Pool, NEW k \in 0..Books, k < Books, NEW side \in Side
  PROVE  /\ PoolTo(bs, k + 1, side) = PoolTo(bs, k, side) \union Levels(bs[k], side)
         /\ \A p \in Prices :
              /\ QuantityTo(bs, k, side, p) \in Int
              /\ At(bs[k][side], p) \in Nat
              /\ QuantityTo(bs, k + 1, side, p) = At(bs[k][side], p) + QuantityTo(bs, k, side, p)
<1>1. /\ Books \in Nat /\ k \in Nat /\ k \in 0..Books - 1 /\ k \notin 0..k - 1
      /\ 0..k - 1 \subseteq 0..Books - 1
      /\ 0..(k + 1) - 1 = (0..k - 1) \union {k}
  BY QuotesAssumption
<1>2. PoolTo(bs, k + 1, side) = PoolTo(bs, k, side) \union Levels(bs[k], side)
  BY <1>1 DEF PoolTo
<1>3. ASSUME NEW p \in Prices
      PROVE  /\ QuantityTo(bs, k, side, p) \in Int
             /\ At(bs[k][side], p) \in Nat
             /\ QuantityTo(bs, k + 1, side, p) = At(bs[k][side], p) + QuantityTo(bs, k, side, p)
  <2>1. \A i \in 0..Books - 1 : At(bs[i][side], p) \in Nat
    BY AtLevels DEF Pool
  <2> DEFINE f == RestingAt(bs, side, p)
             S == 0..k - 1
  <2>2. \A i \in 0..Books - 1 : f[i] = At(bs[i][side], p) /\ f[i] \in Int
    BY <2>1 DEF RestingAt
  <2>3. IsFiniteSet(S)
    BY <1>1, FS_Interval
  <2> HIDE DEF f
  <2>4. Summable(f, S)
    BY <1>1, <2>2, <2>3 DEF Summable
  <2>5. f[k] \in Int /\ k \notin S
    BY <1>1, <2>2
  <2>6. 0..(k + 1) - 1 = S \union {k}
    BY <1>1
  <2> HIDE DEF S
  <2>7. SumOf(f, S \union {k}) = f[k] + SumOf(f, S) /\ SumOf(f, S) \in Int
    BY <2>4, <2>5, SumAdd, SumType
  <2>8. QED BY <1>1, <2>1, <2>2, <2>6, <2>7 DEF QuantityTo, f, S
<1>4. QED BY <1>2, <1>3

\* FoldFunction adds up the whole pool.
LEMMA PoolAddsUp ==
  ASSUME books \in Pool, NEW side \in Side, NEW p \in Prices
  PROVE  QuantityTo(books, Books, side, p) = PoolQuantity(side, p)
<1> DEFINE D == 0..Books - 1
           f == RestingAt(books, side, p)
<1>1. DOMAIN books = D
  BY DEF Pool
<1>2. IsFiniteSet(D)
  BY FS_Interval, QuotesAssumption
<1>3. \A i \in D : f[i] = At(books[i][side], p) /\ f[i] \in Int
  <2>1. ASSUME NEW i \in D PROVE f[i] = At(books[i][side], p) /\ f[i] \in Int
    <3>1. books[i] \in BookStates
      BY DEF Pool
    <3>2. At(books[i][side], p) \in Nat
      BY <3>1, AtLevels
    <3>3. QED BY <3>2 DEF RestingAt
  <2>2. QED BY <2>1
<1> HIDE DEF f, D
<1>4. Summable(f, D)
  BY <1>2, <1>3 DEF Summable
<1> DEFINE Fits(h) == h = [U \in SUBSET D |->
             IF U = {} THEN 0
             ELSE At(books[CHOOSE i \in U : TRUE][side], p) + h[U \ {CHOOSE i \in U : TRUE}]]
           H == CHOOSE h : Fits(h)
<1>5. PoolQuantity(side, p) = H[D]
  BY <1>1, Zenon DEF PoolQuantity, FoldFunction, FoldFunctionOnSet, MapThenFoldSet
<1>6. ASSUME NEW h PROVE Fits(h) <=> Adds(h, f, D)
  <2>1. ASSUME NEW U \in SUBSET D
        PROVE  (IF U = {} THEN 0
                ELSE At(books[CHOOSE i \in U : TRUE][side], p) + h[U \ {CHOOSE i \in U : TRUE}])
             = (IF U = {} THEN 0
                ELSE f[CHOOSE i \in U : TRUE] + h[U \ {CHOOSE i \in U : TRUE}])
    <3>1. CASE U = {}
      BY <3>1
    <3>2. CASE U # {}
      <4>1. (CHOOSE i \in U : TRUE) \in D
        BY <3>2
      <4>2. QED BY <1>3, <3>2, <4>1
    <3>3. QED BY <3>1, <3>2
  <2>2. QED BY <2>1, Zenon DEF Adds
<1>7. PICK g : AddsAnyhow(g, f, D)
  BY <1>4, AddsAnyhowExists DEF Summable
<1>8. Fits(H)
  <2>1. Fits(g)
    BY <1>6, <1>7, AddsInOrder
  <2> HIDE DEF Fits
  <2>2. QED BY <2>1
<1> HIDE DEF Fits, H
<1>9. SumOf(f, D) = H[D]
  BY <1>4, <1>6, <1>8, SumAdds
<1>10. QED BY <1>5, <1>9 DEF QuantityTo, f, D

-----------------------------------------------------------------------------
(* What is kept while the books are read. *)

\* The first levels of the books read so far are kept, with all that rests there.
ReadSoFar(d, bs, k, side) ==
  /\ DOMAIN d \subseteq PoolTo(bs, k, side)
  /\ First(Depth, PoolTo(bs, k, side), side) \subseteq DOMAIN d
  /\ \A p \in First(Depth, PoolTo(bs, k, side), side) :
       d[p] = Wrap(QuantityTo(bs, k, side, p))
  /\ \A p \in Prices \ PoolTo(bs, k, side) : QuantityTo(bs, k, side, p) = 0

LEMMA NothingRead ==
  ASSUME NEW bs \in Pool, NEW side \in Side
  PROVE  ReadSoFar([p \in {} |-> 0], bs, 0, side)
BY PoolStarts DEF ReadSoFar, First

LEMMA BookRead ==
  ASSUME NEW bs \in Pool, NEW k \in 0..Books, k < Books, NEW side \in Side,
         NEW d \in Depths, ReadSoFar(d, bs, k, side)
  PROVE  ReadSoFar(Trim(AddBook(d, TopPriceLevels(bs[k], side)), side), bs, k + 1, side)
<1> DEFINE P == PoolTo(bs, k, side)
           Q == PoolTo(bs, k + 1, side)
           L == Levels(bs[k], side)
           lv == TopPriceLevels(bs[k], side)
           agg == AddBook(d, lv)
           t == Trim(agg, side)
<1>0. bs[k] \in BookStates
  BY QuotesAssumption DEF Pool
<1>1. /\ Q = P \union L /\ P \subseteq Prices /\ L \subseteq Prices
      /\ \A p \in Prices :
           /\ QuantityTo(bs, k, side, p) \in Int /\ At(bs[k][side], p) \in Nat
           /\ QuantityTo(bs, k + 1, side, p) = At(bs[k][side], p) + QuantityTo(bs, k, side, p)
  BY <1>0, PoolGrows, PoolToType, LevelsType
<1>2. \A p \in Prices \ L : At(bs[k][side], p) = 0
  BY <1>0, AtLevels
<1>3. /\ DOMAIN lv = First(Depth, L, side)
      /\ \A p \in First(Depth, L, side) : lv[p] = Wrap(At(bs[k][side], p))
  BY <1>0, AtLevels, FirstMeans DEF TopPriceLevels
<1>4. /\ DOMAIN agg = DOMAIN d \union DOMAIN lv
      /\ \A p \in DOMAIN agg : agg[p] = Wrap(At(d, p) + At(lv, p))
  BY DEF AddBook
<1>5. /\ DOMAIN d \subseteq P /\ First(Depth, P, side) \subseteq DOMAIN d
      /\ \A p \in First(Depth, P, side) : d[p] = Wrap(QuantityTo(bs, k, side, p))
      /\ \A p \in Prices \ P : QuantityTo(bs, k, side, p) = 0
  BY DEF ReadSoFar
<1>6. Depth \in Nat
  BY QuotesAssumption
<1> HIDE DEF P, Q, L, lv, agg
<1>7. First(Depth, L, side) \subseteq L
  BY FirstMeans
<1>8. DOMAIN agg \subseteq Q /\ Q \subseteq Prices
  BY <1>1, <1>3, <1>4, <1>5, <1>7
<1>9. ASSUME NEW p \in First(Depth, Q, side)
      PROVE  p \in DOMAIN agg /\ agg[p] = Wrap(QuantityTo(bs, k + 1, side, p))
  <2>1. p \in Q /\ p \in Prices /\ Depth \in Int /\ Depth <= Depth
    BY <1>6, <1>8, FirstMeans
  <2>2. p \in P => p \in First(Depth, P, side)
    BY <1>1, <1>8, <2>1, FirstOfFewer
  <2>3. p \in L => p \in First(Depth, L, side)
    BY <1>1, <1>8, <2>1, FirstOfFewer
  <2>4. At(d, p) = Wrap(QuantityTo(bs, k, side, p))
    <3>1. CASE p \in P
      BY <1>5, <2>2, <3>1 DEF At
    <3>2. CASE p \notin P
      BY <1>5, <2>1, <3>2, WrapSum DEF At
    <3>3. QED BY <3>1, <3>2
  <2>5. At(lv, p) = Wrap(At(bs[k][side], p))
    <3>1. CASE p \in L
      BY <1>3, <2>3, <3>1 DEF At
    <3>2. CASE p \notin L
      BY <1>2, <1>3, <1>7, <2>1, <3>2, WrapSum DEF At
    <3>3. QED BY <3>1, <3>2
  <2>6. p \in DOMAIN agg
    BY <1>1, <1>3, <1>4, <1>5, <2>1, <2>2, <2>3
  <2> DEFINE x == QuantityTo(bs, k, side, p)
             y == At(bs[k][side], p)
  <2>7. x \in Int /\ y \in Int /\ QuantityTo(bs, k + 1, side, p) = y + x
    BY <1>1, <2>1
  <2>8. agg[p] = Wrap(Wrap(x) + Wrap(y))
    BY <1>4, <2>4, <2>5, <2>6
  <2> HIDE DEF x, y
  <2>9. Wrap(Wrap(x) + Wrap(y)) = Wrap(x + y) /\ x + y = y + x
    BY <2>7, WrapSum
  <2>10. QED BY <2>6, <2>7, <2>8, <2>9
<1>10. /\ DOMAIN t \subseteq DOMAIN agg
       /\ First(Depth, Q, side) \subseteq DOMAIN t
       /\ \A p \in DOMAIN t : t[p] = agg[p]
  <2> DEFINE n == Cardinality(DOMAIN agg)
  <2>1. n \in Nat
    BY <1>8, AheadCounted
  <2>2. CASE n > Depth
    <3> DEFINE kept == First(n - 1, DOMAIN agg, side)
    <3>1. t = [p \in kept |-> agg[p]]
      BY <2>2 DEF Trim, Restrict
    <3>2. kept \subseteq DOMAIN agg
      BY FirstMeans
    <3>3. ASSUME NEW p \in First(Depth, Q, side) PROVE p \in kept
      <4>1. Depth \in Int /\ n - 1 \in Int /\ Depth <= n - 1
        BY <1>6, <2>1, <2>2
      <4>2. p \in DOMAIN agg
        BY <1>9
      <4> HIDE DEF n
      <4>3. QED BY <1>8, <4>1, <4>2, FirstOfFewer
    <3> HIDE DEF kept, t
    <3>4. QED BY <3>1, <3>2, <3>3
  <2>3. CASE ~(n > Depth)
    <3>1. t = agg
      BY <2>3 DEF Trim
    <3> HIDE DEF t
    <3>2. QED BY <1>9, <3>1
  <2>4. QED BY <2>2, <2>3
<1> HIDE DEF t
<1>11. ASSUME NEW p \in Prices \ Q PROVE QuantityTo(bs, k + 1, side, p) = 0
  BY <1>1, <1>2, <1>5
<1>12. ReadSoFar(t, bs, k + 1, side)
  BY <1>8, <1>9, <1>10, <1>11 DEF ReadSoFar, Q
<1>13. QED BY <1>12 DEF t, agg, lv

\* When all books have been read, the first levels kept are those of the pool.
LEMMA AllRead ==
  ASSUME books \in Pool, NEW side \in Side, NEW d, ReadSoFar(d, books, Books, side)
  PROVE  /\ First(Depth, DOMAIN d, side) = First(Depth, PoolLevels(side), side)
         /\ \A p \in First(Depth, PoolLevels(side), side) :
              d[p] = Wrap(PoolQuantity(side, p))
<1> DEFINE D == DOMAIN d
           P == PoolLevels(side)
<1>1. Depth \in Nat /\ Books \in Nat
  BY QuotesAssumption
<1>2. Books \in 0..Books
  BY <1>1
<1>3. P = PoolTo(books, Books, side)
  BY DEF PoolTo, PoolLevels
<1>4. P \subseteq Prices
  BY <1>2, <1>3, PoolToType
<1> HIDE DEF P
<1>5. /\ D \subseteq P /\ First(Depth, P, side) \subseteq D
      /\ \A p \in First(Depth, P, side) : d[p] = Wrap(QuantityTo(books, Books, side, p))
  BY <1>3 DEF ReadSoFar
<1> HIDE DEF D
<1>6. First(Depth, D, side) = First(Depth, P, side)
  BY <1>1, <1>4, <1>5, FirstOfKept
<1>7. ASSUME NEW p \in First(Depth, P, side) PROVE d[p] = Wrap(PoolQuantity(side, p))
  <2>1. p \in Prices
    BY <1>4, FirstMeans
  <2>2. QuantityTo(books, Books, side, p) = PoolQuantity(side, p)
    BY <2>1, PoolAddsUp
  <2>3. QED BY <1>5, <2>2
<1>8. QED BY <1>6, <1>7 DEF D, P

\* Only what is kept of the books that do not move counts.
DepthInStep ==
  /\ reader = "idle" => answer.depth = [p \in {} |-> 0]
  /\ reader = "depth answered" => cursor = Books
  /\ reader \in {"depth", "depth answered"} /\ "reader" \notin moved =>
       ReadSoFar(answer.depth, books, cursor, answer.side)

LEMMA DepthStep ==
  ASSUME BookTypes, ReaderTypes, DepthInStep, [Next]_vars
  PROVE  DepthInStep'
<1>1. ASSUME NEW i \in 0..Books - 1, BookMoves(i) PROVE DepthInStep'
  <2>1. UNCHANGED readerVars /\ moved' = moved \union Watching(i)
    BY <1>1 DEF BookMoves
  <2>2. reader \in {"depth", "depth answered"} => "reader" \in moved'
    BY <2>1 DEF Watching
  <2>3. QED BY <2>1, <2>2 DEF DepthInStep, readerVars
<1>2. ASSUME UNCHANGED readerVars, books' = books, "reader" \in moved => "reader" \in moved'
      PROVE  DepthInStep'
  BY <1>2 DEF DepthInStep, readerVars
<1>3. /\ answer \in Answer /\ cursor \in 0..Books /\ books \in Pool /\ Books \in Nat
      /\ reader = "depth" => cursor < Books
  BY QuotesAssumption DEF ReaderTypes, Answer, CursorInStep, BookTypes
<1>4. CASE AskSpread \/ AnswerSpread
  BY <1>4 DEF AskSpread, AnswerSpread, DepthInStep
<1>5. ASSUME NEW side \in Side, AskDepth(side) PROVE DepthInStep'
  <2>1. /\ reader = "idle" /\ answer' = [answer EXCEPT !.side = side] /\ cursor' = 0
        /\ reader' = IF Books = 0 THEN "depth answered" ELSE "depth"
        /\ books' = books
    BY <1>5 DEF AskDepth
  <2>2. answer'.depth = [p \in {} |-> 0] /\ answer'.side = side
    BY <1>3, <2>1 DEF DepthInStep, Answer
  <2>3. ReadSoFar(answer'.depth, books', cursor', answer'.side)
    BY <1>3, <2>1, <2>2, NothingRead
  <2>4. QED BY <2>1, <2>3 DEF DepthInStep
<1>6. CASE ReadBook
  <2> DEFINE d == Trim(AddBook(answer.depth, TopPriceLevels(books[cursor], answer.side)),
                       answer.side)
  <2>1. /\ reader = "depth" /\ answer' = [answer EXCEPT !.depth = d] /\ cursor' = cursor + 1
        /\ reader' = IF cursor + 1 = Books THEN "depth answered" ELSE "depth"
        /\ UNCHANGED <<books, moved>>
    BY <1>6 DEF ReadBook
  <2>2. answer.side \in Side /\ answer.depth \in Depths
    BY <1>3, AnswerFields
  <2>3. ASSUME "reader" \notin moved PROVE ReadSoFar(d, books, cursor + 1, answer.side)
    <3>1. ReadSoFar(answer.depth, books, cursor, answer.side) /\ cursor < Books
      BY <1>3, <2>1, <2>3 DEF DepthInStep
    <3>2. QED BY <1>3, <2>2, <3>1, BookRead
  <2> HIDE DEF d
  <2>4. answer'.depth = d /\ answer'.side = answer.side
    BY <1>3, <2>1 DEF Answer
  <2>5. QED BY <2>1, <2>3, <2>4 DEF DepthInStep
<1>7. CASE Return
  BY <1>7 DEF Return, NoAnswer, DepthInStep
<1>8. CASE \E c \in Clients : Subscribe(c) \/ Unsubscribe(c)
  BY <1>2, <1>8 DEF Subscribe, Unsubscribe
<1>9. CASE LoopTest \/ BeginRound \/ ReadBid \/ ReadAsk \/ Wake
  BY <1>2, <1>9 DEF LoopTest, BeginRound, ReadBid, ReadAsk, Wake
<1>10. CASE Tell
  BY <1>2, <1>10 DEF Tell
<1>11. CASE Start \/ StopCalled \/ Join
  BY <1>2, <1>11 DEF Start, StopCalled, Join
<1>12. CASE UNCHANGED vars
  BY <1>2, <1>12 DEF vars
<1>13. QED BY <1>1, <1>4, <1>5, <1>6, <1>7, <1>8, <1>9, <1>10, <1>11, <1>12
           DEF Next, Publisher, Reader

\* The first `depth` levels of getTopBids and getTopAsks are those of the whole pool
\* with all that rests there, for any books, depth and width of a quantity, although
\* only one level too many is dropped per book, unless a book moved meanwhile; when no
\* book is in the middle of a match they are levels at which an order rests.
THEOREM QuotedDepthTrue == Spec => []DepthTrue
<1>1. Init => DepthInStep
  BY DEF Init, DepthInStep, NoAnswer
<1>2. Types /\ DepthInStep /\ [Next]_vars => DepthInStep'
  BY TypesGrouped, DepthStep
<1>3. Types /\ DepthInStep => DepthTrue
  <2> SUFFICES ASSUME Types, DepthInStep, reader = "depth answered", "reader" \notin moved
               PROVE  DepthTrue
    BY DEF DepthTrue
  <2>1. books \in Pool /\ answer \in Answer
    BY TypesGrouped DEF BookTypes, ReaderTypes, Answer
  <2>2. answer.side \in Side
    BY <2>1, AnswerFields
  <2>3. ReadSoFar(answer.depth, books, Books, answer.side)
    BY DEF DepthInStep
  <2> DEFINE top == First(Depth, DOMAIN answer.depth, answer.side)
  <2>4. /\ top = First(Depth, PoolLevels(answer.side), answer.side)
        /\ \A p \in top : answer.depth[p] = Wrap(PoolQuantity(answer.side, p))
    BY <2>1, <2>2, <2>3, AllRead
  <2>5. ASSUME \A i \in 0..Books - 1 : ~Midway(books[i])
        PROVE  PoolLevels(answer.side) = PoolResting(answer.side)
    <3>1. \A i \in 0..Books - 1 :
            Levels(books[i], answer.side) = Resting(books[i], answer.side)
      BY <2>2, <2>5 DEF Midway
    <3>2. QED BY <3>1 DEF PoolLevels, PoolResting
  <2> HIDE DEF top
  <2>6. QED BY <2>4, <2>5 DEF DepthTrue, top
<1>4. QED BY <1>1, <1>2, <1>3, TypesInvariance, PTL DEF Spec
=============================================================================
