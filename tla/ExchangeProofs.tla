--------------------------- MODULE ExchangeProofs ---------------------------
(***************************************************************************)
(* The simulation for any number of traders, rounds, prices and limits:    *)
(* its book does what FifoStrategy does, so what is proved of that holds   *)
(* here; only the market maker's orders rest; its quotes are prices; no    *)
(* fill is overlooked; and the totals main.cpp prints at the end add up.   *)
(***************************************************************************)
EXTENDS Exchange, FifoStrategyProofs, TLAPS

-----------------------------------------------------------------------------
(* The simulation drives the book. *)

LEMMA SubmitIsArrival ==
  ASSUME NEW user, NEW side, NEW tif, NEW price, NEW qty,
         Submit(user, side, tif, price, qty)
  PROVE  Next
<1> DEFINE c == [user |-> user, side |-> side, tif |-> tif, price |-> price,
                 qty |-> qty, ts |-> 0]
<1>1. c \in Inputs /\ Len(sent) < MaxOrders /\ Accept(c)
  BY DEF Submit
<1> HIDE DEF c
<1>2. Arrive
  BY <1>1 DEF Arrive
<1>3. QED BY <1>2 DEF Next

\* Every step of the three threads is a step of the book or leaves it alone.
LEMMA StepDrivesBook == [SimNext]_simVars => [Next]_vars
<1> SUFFICES ASSUME [SimNext]_simVars PROVE [Next]_vars
  OBVIOUS
<1>1. ASSUME NEW t \in 1..Traders, TraderSends(t) PROVE Next
  BY <1>1, SubmitIsArrival DEF TraderSends
<1>2. CASE MakerPrices \/ MakerTakesFlag \/ MakerLooks
  BY <1>2 DEF MakerPrices, MakerTakesFlag, MakerLooks
<1>3. CASE MakerBids \/ MakerAsks
  BY <1>3, SubmitIsArrival DEF MakerBids, MakerAsks
<1>4. CASE LastRound \/ GatewayStops \/ NotifierStops
  BY <1>4 DEF LastRound, GatewayStops, NotifierStops
<1>5. CASE Match
  BY <1>5 DEF Match, Next
<1>6. CASE Notifier
  BY <1>6 DEF Notifier, TellTrader, TellMakerNothing, TellMakerFill, MarkRequote
<1>7. CASE UNCHANGED simVars
  BY <1>7 DEF simVars
<1>8. QED
  BY <1>1, <1>2, <1>3, <1>4, <1>5, <1>6, <1>7 DEF SimNext, Main, Participants

\* The simulation implements the book of FifoStrategy, fed by an arbitrary arrival of
\* orders: what main.cpp composes adds no behaviour to the book.
THEOREM SimulationRunsBook == SimSpec => Spec
<1>1. SimInit => Init
  BY DEF SimInit
<1>2. QED BY <1>1, StepDrivesBook, PTL DEF SimSpec, Spec

\* In the whole simulation the best bid stays below the best ask, although the maker
\* leaves its earlier quotes on the book when it moves them.
THEOREM SimulationNeverCrossed == SimSpec => []BookUncrossed
BY SimulationRunsBook, NeverCrossed, PTL

-----------------------------------------------------------------------------
(* The flag of the market maker. *)

\* Between taking the flag and looking at the inventory the maker's position may be
\* behind, between pricing and taking the flag its last quotes may be; the prices it
\* has computed then are those of its inventory, unless a fill overtakes them.
FlagInv ==
  /\ main # "deciding" /\ notifier = "ready" /\ ~needsRequote => position = inventory
  /\ main = "pricing" /\ ~overtaken => quotes = QuotesFor(inventory)
  /\ main # "pricing" /\ notifier = "ready" /\ ~needsRequote /\ ~overtaken =>
       lastQuotes = QuotesFor(inventory)

LEMMA FlagStep == FlagInv /\ [SimNext]_simVars => FlagInv'
<1> SUFFICES ASSUME FlagInv, [SimNext]_simVars PROVE FlagInv'
  OBVIOUS
<1> USE DEF FlagInv
<1>0. UNCHANGED inventory => UNCHANGED QuotesFor(inventory)
  OBVIOUS
<1>1. ASSUME NEW t \in 1..Traders, TraderSends(t) PROVE FlagInv'
  BY <1>1 DEF TraderSends, makerLocals, ledgers, notifierVars
<1>2. CASE MakerPrices
  BY <1>2 DEF MakerPrices, ledgers, notifierVars
<1>3. CASE MakerTakesFlag
  BY <1>3 DEF MakerTakesFlag, EndTurn, ledgers, notifierVars
<1>4. CASE MakerLooks
  BY <1>0, <1>4 DEF MakerLooks, ledgers, notifierVars
<1>5. CASE MakerBids \/ MakerAsks
  BY <1>0, <1>5 DEF MakerBids, MakerAsks, EndTurn, makerLocals, ledgers, notifierVars
<1>6. CASE LastRound \/ GatewayStops \/ NotifierStops
  BY <1>6 DEF LastRound, GatewayStops, NotifierStops, makerLocals, ledgers, notifierVars
<1>7. CASE Match
  BY <1>7 DEF Match, mainVars, makerLocals, ledgers, notifierVars
<1>8. CASE TellTrader \/ TellMakerNothing
  BY <1>0, <1>8 DEF TellTrader, TellMakerNothing, mainVars, makerLocals, ledgers
<1>9. CASE TellMakerFill \/ MarkRequote
  BY <1>0, <1>9 DEF TellMakerFill, MarkRequote, mainVars, makerLocals, ledgers
<1>10. CASE UNCHANGED simVars
  BY <1>10 DEF simVars, mainVars, makerLocals, ledgers, notifierVars
<1>11. QED
  BY <1>1, <1>2, <1>3, <1>4, <1>5, <1>6, <1>7, <1>8, <1>9, <1>10
     DEF SimNext, Main, Participants, Notifier

\* However the notifier's thread interleaves with createOrder, a fill the maker was
\* told of is either the reason of a requote to come or part of the inventory its last
\* quotes were decided on, and of the prices too unless it came between the pricing and
\* the taking of the flag.
THEOREM NoFillOverlooked == SimSpec => []FillNotOverlooked
<1>1. SimInit => FlagInv
  BY DEF SimInit, FlagInv
<1>2. FlagInv => FillNotOverlooked
  BY DEF FlagInv, FillNotOverlooked
<1>3. QED BY <1>1, <1>2, FlagStep, PTL DEF SimSpec

-----------------------------------------------------------------------------
(* The prices of the market maker. *)

LEMMA QuotientType ==
  ASSUME NEW a \in Int, NEW b \in Nat \ {0}
  PROVE  Quotient(a, b) \in Int
<1>1. \A n \in Nat : n \div b \in Int
  OBVIOUS
<1>2. CASE a >= 0
  BY <1>1, <1>2 DEF Quotient
<1>3. CASE ~(a >= 0)
  <2>1. -a \in Nat
    BY <1>3
  <2>2. (-a) \div b \in Int
    BY <1>1, <2>1
  <2>3. QED BY <1>3, <2>2 DEF Quotient
<1>4. QED BY <1>2, <1>3

\* The centre stays above the half spread, whatever the inventory.
LEMMA CentreBounds ==
  ASSUME NEW held \in Int
  PROVE  QuoteCentre(held) \in Int /\ QuoteCentre(held) > HalfSpread
<1>1. HalfSpread \in Nat /\ ReferencePrice \in Nat /\ MaxInventory \in Nat
  BY ExchangeAssumption
<1>2. Skew(held) \in Int
  <2> DEFINE a == HalfSpread * held
             b == IF MaxInventory > 0 THEN MaxInventory ELSE 1
  <2>1. a \in Int
    BY <1>1
  <2>2. b \in Nat \ {0}
    BY <1>1
  <2> HIDE DEF a, b
  <2>3. Quotient(a, b) \in Int
    BY <2>1, <2>2, QuotientType
  <2>4. QED BY <2>3 DEF Skew, a, b
<1>3. QED BY <1>1, <1>2 DEF QuoteCentre

PriceInv == inventory \in Int /\ heard \in Nat /\ QuotesPositive

LEMMA PriceStep == TypeOK /\ PriceInv /\ [SimNext]_simVars => PriceInv'
<1> SUFFICES ASSUME TypeOK, PriceInv, [SimNext]_simVars PROVE PriceInv'
  OBVIOUS
<1> USE DEF PriceInv, QuotesPositive
<1>1. ASSUME NEW t \in 1..Traders, TraderSends(t) PROVE PriceInv'
  BY <1>1 DEF TraderSends, makerLocals, ledgers, notifierVars
<1>2. CASE MakerPrices
  <2> DEFINE centre == QuoteCentre(inventory)
  <2>1. centre \in Int /\ centre > HalfSpread /\ HalfSpread \in Nat
    BY CentreBounds, ExchangeAssumption
  <2>2. quotes' = [bid |-> centre - HalfSpread, ask |-> centre + HalfSpread]
    BY <1>2 DEF MakerPrices, QuotesFor
  <2> HIDE DEF centre
  <2>3. 0 < quotes'.bid /\ quotes'.bid <= quotes'.ask
    BY <2>1, <2>2
  <2>4. QED BY <1>2, <2>3 DEF MakerPrices, ledgers, notifierVars
<1>3. CASE MakerTakesFlag \/ MakerLooks
  BY <1>3 DEF MakerTakesFlag, MakerLooks, EndTurn, ledgers, notifierVars
<1>4. CASE MakerBids \/ MakerAsks
  BY <1>4 DEF MakerBids, MakerAsks, EndTurn, makerLocals, ledgers, notifierVars
<1>5. CASE LastRound \/ GatewayStops \/ NotifierStops
  BY <1>5 DEF LastRound, GatewayStops, NotifierStops, makerLocals, ledgers, notifierVars
<1>6. CASE Match \/ UNCHANGED simVars
  BY <1>6 DEF Match, simVars, mainVars, makerLocals, ledgers, notifierVars
<1>7. CASE TellTrader \/ TellMakerNothing \/ MarkRequote
  BY <1>7 DEF TellTrader, TellMakerNothing, MarkRequote, mainVars, makerLocals, ledgers
<1>8. CASE TellMakerFill
  <2>1. heard + 1 \in 1..Len(published) /\ published \in Seq(Event)
    BY <1>8 DEF TellMakerFill, CanDispatch, TypeOK
  <2>2. NextEvent \in Event
    BY <2>1 DEF NextEvent
  <2>3. Signed(NextEvent) \in Int
    BY <2>2 DEF Signed, Event
  <2>4. QED BY <1>8, <2>3 DEF TellMakerFill, mainVars, makerLocals
<1>9. QED
  BY <1>1, <1>2, <1>3, <1>4, <1>5, <1>6, <1>7, <1>8
     DEF SimNext, Main, Participants, Notifier

\* Whatever its parameters and its inventory, the maker quotes positive prices and
\* never bids above its own ask.
THEOREM MakerQuotesPrices == SimSpec => []QuotesPositive
<1>1. SimInit => PriceInv
  BY DEF SimInit, PriceInv, QuotesPositive
<1>2. SimSpec => []TypeOK
  BY SimulationRunsBook, TypeCorrect, PTL
<1>3. PriceInv => QuotesPositive
  BY DEF PriceInv
<1>4. QED BY <1>1, <1>2, <1>3, PriceStep, PTL DEF SimSpec

-----------------------------------------------------------------------------
(* Whose orders rest. *)

\* A good-till-cancelled order is the maker's, wherever it is.
Owned(o) == o.tif = "GTC" => o.user = Maker

OwnerInv ==
  /\ \A i \in 1..Len(incoming) : Owned(incoming[i])
  /\ taker # NoOrder => Owned(taker)
  /\ MakerOnOneSide

LEMMA SubmitOwner ==
  ASSUME TypeOK, OwnerInv, NEW user, NEW side, NEW tif, NEW price, NEW qty,
         tif = "GTC" => user = Maker, Submit(user, side, tif, price, qty)
  PROVE  OwnerInv'
<1> DEFINE c == [user |-> user, side |-> side, tif |-> tif, price |-> price,
                 qty |-> qty, ts |-> 0]
           o == NewOrder(c, Len(sent))
<1>1. Accept(c)
  BY DEF Submit
<1>2. Owned(o)
  BY DEF NewOrder, Owned
<1>3. o \in Order
  <2>1. c \in ClientOrder
    BY BookAssumption DEF Submit
  <2>2. Len(sent) \in Nat
    BY DEF TypeOK
  <2> HIDE DEF c
  <2>3. QED BY <2>1, <2>2, NewOrderType
<1>4. incoming' = Append(incoming, o) /\ UNCHANGED <<taker, levels, resting>>
  BY <1>1 DEF Accept, bookVars
<1> HIDE DEF o
<1>5. \A i \in 1..Len(incoming') : Owned(incoming'[i])
  <2>1. incoming \in Seq(Order)
    BY DEF TypeOK
  <2>2. SUFFICES ASSUME NEW i \in 1..Len(incoming') PROVE Owned(incoming'[i])
    OBVIOUS
  <2>3. CASE i = Len(incoming) + 1
    BY <1>2, <1>3, <1>4, <2>1, <2>3
  <2>4. CASE i # Len(incoming) + 1
    <3>1. i \in 1..Len(incoming) /\ incoming'[i] = incoming[i]
      BY <1>3, <1>4, <2>1, <2>4
    <3>2. QED BY <3>1 DEF OwnerInv
  <2>5. QED BY <2>3, <2>4
<1>6. QED BY <1>4, <1>5 DEF OwnerInv, MakerOnOneSide, Resting

\* The match neither changes owners nor lets an immediate order rest.
LEMMA MatchOwner ==
  ASSUME Inv, OwnerInv, StartBatch \/ Process
  PROVE  OwnerInv'
<1> USE DEF OwnerInv
<1>1. incoming \in Seq(Order)
  BY DEF Inv, TypeOK
<1>2. CASE SkipInvalid \/ BeginMatch
  <2>1. incoming # <<>> /\ incoming' = Tail(incoming)
    BY <1>2 DEF SkipInvalid, BeginMatch, AtNextMessage
  <2>2. taker' = taker \/ taker' = incoming[1]
    BY <1>1, <1>2, <2>1 DEF SkipInvalid, BeginMatch
  <2>3. \A i \in 1..Len(incoming') : Owned(incoming'[i])
    <3>1. SUFFICES ASSUME NEW i \in 1..Len(incoming') PROVE Owned(incoming'[i])
      OBVIOUS
    <3>2. i + 1 \in 1..Len(incoming) /\ incoming'[i] = incoming[i + 1]
      BY <1>1, <2>1
    <3>3. QED BY <3>2
  <2>4. taker' # NoOrder => Owned(taker')
    BY <1>1, <2>1, <2>2
  <2>5. UNCHANGED resting
    BY <1>2 DEF SkipInvalid, BeginMatch, bookVars
  <2>6. QED BY <2>3, <2>4, <2>5 DEF MakerOnOneSide, Resting
<1>3. CASE Trade
  <2>1. PICK p \in Prices, cur \in Order, q \in Nat :
          /\ taker \in Order
          /\ cur \in resting[Opposite(taker.side)][p]
          /\ taker' = [taker EXCEPT !.qty = taker.qty - q]
          /\ resting' = [resting EXCEPT ![Opposite(taker.side)][p] =
                           LevelAfter(resting[Opposite(taker.side)][p], cur, q)]
    BY <1>3, TradeFacts
  <2> DEFINE opp == Opposite(taker.side)
             left == LevelAfter(resting[opp][p], cur, q)
  <2>2. opp \in Side
    BY <2>1, SidesOpposed DEF Order
  <2>3. cur.user = Maker
    BY <2>1, <2>2 DEF MakerOnOneSide, Resting
  <2>4. \A x \in left : x.user = Maker
    <3>1. \A x \in resting[opp][p] : x.user = Maker
      BY <2>2 DEF MakerOnOneSide, Resting
    <3>2. [cur EXCEPT !.qty = cur.qty - q].user = cur.user
      BY <2>1 DEF Order
    <3>3. \A x \in left : \/ x \in resting[opp][p]
                          \/ x = [cur EXCEPT !.qty = cur.qty - q]
      BY LevelAfterBounds
    <3> HIDE DEF left
    <3>4. QED BY <2>3, <3>1, <3>2, <3>3
  <2> HIDE DEF left
  <2>5. resting' = [resting EXCEPT ![opp][p] = left]
    BY <2>1 DEF left
  <2>6. \A s \in Side, r \in Prices :
          resting'[s][r] = resting[s][r] \/ resting'[s][r] = left
    BY <2>2, <2>5 DEF Inv, TypeOK
  <2>7. MakerOnOneSide'
    BY <2>4, <2>6 DEF MakerOnOneSide, Resting
  <2>8. taker'.tif = taker.tif /\ taker'.user = taker.user
    BY <2>1 DEF Order
  <2>9. Owned(taker')
    BY <1>3, <2>8 DEF Owned, Trade
  <2>10. QED BY <1>3, <2>7, <2>9 DEF Trade
<1>4. CASE RestRemainder
  <2>1. /\ taker \in Order /\ taker # NoOrder
        /\ taker.tif = "GTC"
        /\ resting' = [resting EXCEPT ![taker.side][taker.price] =
                         AddOrder(resting[taker.side][taker.price], taker)]
    BY <1>4, RestFacts DEF RestRemainder, LoopDone
  <2> DEFINE level == AddOrder(resting[taker.side][taker.price], taker)
  <2>2. taker.user = Maker /\ taker.side \in Side /\ taker.price \in Prices
    BY <2>1 DEF Owned, Order
  <2>3. \A x \in level : x.user = Maker
    <3>1. level \subseteq resting[taker.side][taker.price] \union {taker}
      BY AddOrderBounds
    <3>2. QED BY <2>2, <3>1 DEF MakerOnOneSide, Resting
  <2> HIDE DEF level
  <2>4. resting' = [resting EXCEPT ![taker.side][taker.price] = level]
    BY <2>1 DEF level
  <2>5. \A s \in Side, r \in Prices :
          resting'[s][r] = resting[s][r] \/ resting'[s][r] = level
    BY <2>2, <2>4 DEF Inv, TypeOK
  <2>6. MakerOnOneSide'
    BY <2>3, <2>5 DEF MakerOnOneSide, Resting
  <2>7. taker' = NoOrder /\ incoming' = incoming
    BY <1>4 DEF RestRemainder, Return
  <2>8. QED BY <2>6, <2>7
<1>5. CASE UNCHANGED resting /\ incoming' = incoming /\ taker' \in {taker, NoOrder}
  BY <1>5 DEF MakerOnOneSide, Resting
<1>6. QED
  BY <1>2, <1>3, <1>4, <1>5
     DEF Process, Frame, StartBatch, EraseLevel, EndFilled, CancelRemainder, Return,
         PushEvent, EndBatch, bookVars

LEMMA OwnerStep == Inv /\ OwnerInv /\ [SimNext]_simVars => OwnerInv'
<1> SUFFICES ASSUME Inv, OwnerInv, [SimNext]_simVars PROVE OwnerInv'
  OBVIOUS
<1>1. TypeOK
  BY DEF Inv
<1>2. ASSUME UNCHANGED vars PROVE OwnerInv'
  BY <1>2 DEF OwnerInv, MakerOnOneSide, Resting, vars
<1>3. ASSUME NEW t \in 1..Traders, TraderSends(t) PROVE OwnerInv'
  BY <1>1, <1>3, SubmitOwner DEF TraderSends
<1>4. CASE MakerBids \/ MakerAsks
  BY <1>1, <1>2, <1>4, SubmitOwner DEF MakerBids, MakerAsks
<1>5. CASE MakerPrices \/ MakerTakesFlag \/ MakerLooks
  BY <1>2, <1>5 DEF MakerPrices, MakerTakesFlag, MakerLooks
<1>6. CASE LastRound \/ GatewayStops \/ NotifierStops
  BY <1>2, <1>6 DEF LastRound, GatewayStops, NotifierStops
<1>7. CASE Match
  BY <1>7, MatchOwner DEF Match
<1>8. CASE Notifier
  BY <1>2, <1>8 DEF Notifier, TellTrader, TellMakerNothing, TellMakerFill, MarkRequote
<1>9. CASE UNCHANGED simVars
  BY <1>2, <1>9 DEF simVars
<1>10. QED
  BY <1>3, <1>4, <1>5, <1>6, <1>7, <1>8, <1>9 DEF SimNext, Main, Participants

\* The noise traders leave nothing on the book: whatever trades, the market maker is
\* the one that was resting.
THEOREM MakerProvidesLiquidity == SimSpec => []MakerOnOneSide
<1>1. SimInit => OwnerInv
  BY DEF SimInit, Init, OwnerInv, MakerOnOneSide, Resting
<1>2. SimSpec => []Inv
  BY SimulationRunsBook, Invariance, PTL
<1>3. OwnerInv => MakerOnOneSide
  BY DEF OwnerInv
<1>4. QED BY <1>1, <1>2, <1>3, OwnerStep, PTL DEF SimSpec

-----------------------------------------------------------------------------
(* What a log says of the shares traded. *)

FillsOn(side) == {e \in Event : IsFill(e) /\ e.side = side}
AnswersTo(t) == {e \in Event : e.user = t /\ e.status # "Added"}

Net(log) == TotalOf(log, FillsOn("buy")) - TotalOf(log, FillsOn("sell"))
Volume(log) == TotalOf(log, FillsOn("buy")) + TotalOf(log, FillsOn("sell"))

LEMMA EventCounts ==
  ASSUME NEW log \in Seq(Event), NEW e \in Event
  PROVE  /\ Net(log) \in Int /\ Volume(log) \in Int
         /\ IsFill(e) => /\ Net(Append(log, e)) = Net(log) + Signed(e)
                         /\ Volume(Append(log, e)) = Volume(log) + e.qty
         /\ ~IsFill(e) => /\ Net(Append(log, e)) = Net(log)
                          /\ Volume(Append(log, e)) = Volume(log)
<1> DEFINE b == TotalOf(log, FillsOn("buy"))
           s == TotalOf(log, FillsOn("sell"))
           bb == TotalOf(Append(log, e), FillsOn("buy"))
           ss == TotalOf(Append(log, e), FillsOn("sell"))
<1>1. /\ b \in Int /\ s \in Int
      /\ bb = b + (IF e \in FillsOn("buy") THEN e.qty ELSE 0)
      /\ ss = s + (IF e \in FillsOn("sell") THEN e.qty ELSE 0)
  BY TotalAppend
<1>2. /\ e \in FillsOn("buy") <=> IsFill(e) /\ e.side = "buy"
      /\ e \in FillsOn("sell") <=> IsFill(e) /\ e.side = "sell"
  BY DEF FillsOn
<1>3. e.side \in {"buy", "sell"} /\ e.qty \in Int
  BY DEF Event, Side
<1>4. /\ Net(log) = b - s /\ Volume(log) = b + s
      /\ Net(Append(log, e)) = bb - ss /\ Volume(Append(log, e)) = bb + ss
  BY DEF Net, Volume
<1> HIDE DEF b, s, bb, ss
<1>5. CASE IsFill(e) /\ e.side = "buy"
  <2>1. bb = b + e.qty /\ ss = s + 0 /\ Signed(e) = e.qty
    BY <1>1, <1>2, <1>5 DEF Signed
  <2>2. QED BY <1>1, <1>3, <1>4, <1>5, <2>1, SMTT(30)
<1>6. CASE IsFill(e) /\ e.side = "sell"
  <2>1. bb = b + 0 /\ ss = s + e.qty /\ Signed(e) = -e.qty
    BY <1>1, <1>2, <1>6 DEF Signed
  <2>2. QED BY <1>1, <1>3, <1>4, <1>6, <2>1
<1>7. CASE ~IsFill(e)
  <2>1. bb = b + 0 /\ ss = s + 0
    BY <1>1, <1>2, <1>7
  <2>2. QED BY <1>1, <1>4, <1>7, <2>1
<1>8. QED BY <1>3, <1>5, <1>6, <1>7

LEMMA AnswerCounts ==
  ASSUME NEW log \in Seq(Event), NEW e \in Event, NEW t
  PROVE  /\ TotalOf(log, AnswersTo(t)) \in Int
         /\ e.user = t /\ e.status # "Added" =>
              TotalOf(Append(log, e), AnswersTo(t)) = TotalOf(log, AnswersTo(t)) + e.qty
         /\ ~(e.user = t /\ e.status # "Added") =>
              TotalOf(Append(log, e), AnswersTo(t)) = TotalOf(log, AnswersTo(t))
<1>1. e \in AnswersTo(t) <=> e.user = t /\ e.status # "Added"
  BY DEF AnswersTo
<1>2. TotalOf(log, AnswersTo(t)) \in Int
  BY TotalType
<1>3. QED BY <1>1, <1>2, TotalAppend

-----------------------------------------------------------------------------
(* Whose the events are, and what the traders were told. *)

\* What trader t ordered of what the matching has got to.
OrderedBy(t) == SumOf(QtysOf(sent), {i \in 1..Reached : sent[i].user = t})

HeldFor(t) == IF taker # NoOrder /\ taker.user = t THEN taker.qty ELSE 0

\* Every order and event is of a participant, and a trader's order is never turned down.
SharesInStep ==
  /\ \A i \in 1..Len(sent) : /\ sent[i].user \in 1..Maker
                             /\ sent[i].user # Maker => ValidateOrder(sent[i])
  /\ \A k \in 1..Len(Log) : Log[k].user \in 1..Maker
  /\ taker # NoOrder => taker.user \in 1..Maker
  /\ Net(Log) = 0
  /\ \A t \in 1..Traders : OrderedBy(t) = TotalOf(Log, AnswersTo(t)) + HeldFor(t)

\* The steps of the book in terms of the log.
LEMMA BookSteps ==
  ASSUME Inv, IdsInStep, StartBatch \/ Process
  PROVE  \/ SkipInvalid \/ BeginMatch
         \/ /\ taker' = taker /\ Log' = Log /\ UNCHANGED <<sent, incoming>>
         \/ EndFilled /\ Log' = Log
         \/ Returned("Cancelled")
         \/ Returned("Added") /\ taker.tif = "GTC"
         \/ \E p \in Prices : \E cur \in Order : \E q \in Nat : TradeOf(p, cur, q)
<1>1. CASE StartBatch \/ EraseLevel \/ PushEvent \/ EndBatch
  <2>1. Log' = Log
    BY <1>1, QuietEvents
  <2>2. QED BY <1>1, <2>1 DEF StartBatch, EraseLevel, PushEvent, EndBatch
<1>2. CASE EndFilled \/ CancelRemainder \/ RestRemainder
  <2>1. RestRemainder => taker.tif = "GTC"
    BY RestFacts DEF RestRemainder, Order, TimeInForce
  <2>2. QED BY <1>2, <2>1, ReturnEvents
<1>3. CASE Trade
  BY <1>3, TradeEvents
<1>4. QED BY <1>1, <1>2, <1>3 DEF Process, Frame

LEMMA UsersOfLog ==
  ASSUME NEW log \in Seq(Event), NEW e \in Event, e.user \in 1..Maker,
         \A k \in 1..Len(log) : log[k].user \in 1..Maker
  PROVE  \A k \in 1..Len(Append(log, e)) : Append(log, e)[k].user \in 1..Maker
<1> DEFINE z == Append(log, e)
           n == Len(log)
<1>1. /\ Len(z) = n + 1 /\ 1..n + 1 = 1..n \union {n + 1}
      /\ \A k \in 1..n : z[k] = log[k]
      /\ z[n + 1] = e
  BY AppendFacts
<1> HIDE DEF z
<1>2. QED BY <1>1 DEF z

LEMMA TradersAside == /\ Maker \in Nat /\ Traders \in Nat
                      /\ \A t \in 1..Traders : t # Maker /\ t \in 1..Maker /\ t > 0
BY ExchangeAssumption DEF Maker

LEMMA OrderedKept ==
  ASSUME Inv, IdsInStep, sent' \in Seq(Order), Len(sent) <= Len(sent'),
         \A i \in 1..Len(sent) : sent'[i] = sent[i], Reached' = Reached, NEW t
  PROVE  OrderedBy(t)' = OrderedBy(t)
<1> DEFINE S == {i \in 1..Reached : sent[i].user = t}
           f == QtysOf(sent)
           g == QtysOf(sent')
<1>1. Len(sent) \in Nat /\ Len(sent') \in Nat /\ Reached \in Nat /\ Reached <= Len(sent)
  BY DEF Inv, TypeOK, IdsInStep, Reached
<1>2. \A i \in 1..Reached : i \in 1..Len(sent) /\ i \in 1..Len(sent') /\ sent'[i] = sent[i]
  BY <1>1
<1>3. {i \in 1..Reached' : sent'[i].user = t} = S
  BY <1>2
<1>4. \A i \in S : f[i] = g[i]
  BY <1>2 DEF QtysOf
<1>5. Summable(f, S)
  BY <1>2, LogsQuantified, QuantitiesSummable DEF Inv, TypeOK
<1> HIDE DEF f, g, S
<1>6. SumOf(f, S) = SumOf(g, S)
  BY <1>4, <1>5, SumSame
<1>7. QED BY <1>3, <1>6 DEF OrderedBy, f, g, S

\* The next order is got to.
LEMMA OrderedNext ==
  ASSUME Inv, IdsInStep, incoming # <<>>, incoming' = Tail(incoming), sent' = sent, NEW t
  PROVE  OrderedBy(t)' = OrderedBy(t)
                           + (IF Head(incoming).user = t THEN Head(incoming).qty ELSE 0)
<1> DEFINE n == Reached + 1
           S == {i \in 1..Reached : sent[i].user = t}
           T == {i \in 1..n : sent[i].user = t}
           f == QtysOf(sent)
<1>1. /\ sent \in Seq(Order) /\ incoming \in Seq(Order)
      /\ Len(sent) \in Nat /\ Len(incoming) \in Nat /\ Len(incoming) > 0
      /\ Len(incoming') = Len(incoming) - 1 /\ Head(incoming) = incoming[1]
  BY DEF Inv, TypeOK
<1>2. Reached \in Nat /\ Reached' = n /\ n \in 1..Len(sent)
  BY <1>1 DEF IdsInStep, Reached
<1>3. Head(incoming) = sent[n] /\ sent[n] \in Order
  BY <1>1, <1>2 DEF IdsInStep
<1>4. f[n] = Head(incoming).qty /\ f[n] \in Int
  BY <1>2, <1>3 DEF QtysOf, Order
<1>5. Summable(f, S) /\ Summable(f, T)
  BY <1>1, <1>2, LogsQuantified, QuantitiesSummable
<1>6. n \notin S /\ T = S \union (IF sent[n].user = t THEN {n} ELSE {})
  BY <1>2
<1>7. OrderedBy(t) = SumOf(f, S) /\ OrderedBy(t)' = SumOf(f, T)
  BY <1>2 DEF OrderedBy
<1>8. SumOf(f, S) \in Int
  BY <1>5, SumType
<1> HIDE DEF n, S, T, f
<1>9. CASE sent[n].user = t
  <2>1. SumOf(f, T) = f[n] + SumOf(f, S)
    BY <1>4, <1>5, <1>6, <1>9, SumAdd
  <2>2. QED BY <1>3, <1>4, <1>7, <1>8, <1>9, <2>1
<1>10. CASE sent[n].user # t
  BY <1>3, <1>6, <1>7, <1>8, <1>10
<1>11. QED BY <1>9, <1>10

LEMMA SubmitShares ==
  ASSUME Inv, IdsInStep, SharesInStep, NEW user \in 1..Maker, NEW side, NEW tif, NEW price,
         NEW qty, user # Maker => price > 0 /\ qty > 0 /\ qty <= MaxQuantity,
         Submit(user, side, tif, price, qty)
  PROVE  SharesInStep'
<1> DEFINE c == [user |-> user, side |-> side, tif |-> tif, price |-> price,
                 qty |-> qty, ts |-> 0]
           o == NewOrder(c, Len(sent))
<1>1. Accept(c) /\ c \in ClientOrder
  BY BookAssumption DEF Submit
<1>2. /\ sent \in Seq(Order) /\ incoming \in Seq(Order) /\ Len(sent) \in Nat
      /\ Len(incoming) \in Nat
  BY DEF Inv, TypeOK
<1>3. o \in Order
  BY <1>1, <1>2, NewOrderType
<1>4. o.user = user /\ (o.user # Maker => ValidateOrder(o))
  BY TradersAside DEF NewOrder, ValidateOrder
<1>5. /\ sent' = Append(sent, o) /\ incoming' = Append(incoming, o)
      /\ UNCHANGED <<bookVars, taker, fills, pending, published>>
  BY <1>1 DEF Accept
<1> HIDE DEF o
<1>6. /\ sent' \in Seq(Order) /\ Len(sent') = Len(sent) + 1
      /\ \A i \in 1..Len(sent) : sent'[i] = sent[i]
      /\ sent'[Len(sent) + 1] = o
      /\ Reached' = Reached
  BY <1>2, <1>3, <1>5 DEF Reached
<1>7. \A t : OrderedBy(t)' = OrderedBy(t) /\ HeldFor(t)' = HeldFor(t)
  BY <1>2, <1>5, <1>6, OrderedKept DEF HeldFor
<1>8. \A i \in 1..Len(sent') : /\ sent'[i].user \in 1..Maker
                               /\ sent'[i].user # Maker => ValidateOrder(sent'[i])
  <2>1. \A i \in 1..Len(sent') : i \in 1..Len(sent) \/ i = Len(sent) + 1
    BY <1>2, <1>6
  <2>2. QED BY <1>4, <1>6, <2>1 DEF SharesInStep
<1>9. Log' = Log
  BY <1>5 DEF Log
<1>10. QED BY <1>5, <1>7, <1>8, <1>9 DEF SharesInStep

LEMMA MatchShares ==
  ASSUME Inv, IdsInStep, OwnerInv, SharesInStep, StartBatch \/ Process
  PROVE  SharesInStep'
<1>1. /\ TypeOK /\ Log \in Seq(Event) /\ sent \in Seq(Order) /\ incoming \in Seq(Order)
      /\ taker # NoOrder => taker \in Order
  BY LogType DEF Inv, TypeOK
<1>2. sent' = sent
  BY DEF StartBatch, Process, Frame, SkipInvalid, BeginMatch, EraseLevel, EndFilled, Return,
         CancelRemainder, RestRemainder, PushEvent, EndBatch, Trade
<1>3. ASSUME incoming' = incoming, NEW t PROVE OrderedBy(t)' = OrderedBy(t)
  BY <1>1, <1>2, <1>3, OrderedKept DEF Reached
<1>4. ASSUME \A k \in 1..Len(Log') : Log'[k].user \in 1..Maker,
             taker' # NoOrder => taker'.user \in 1..Maker,
             Net(Log') = 0,
             \A t \in 1..Traders : OrderedBy(t)' = TotalOf(Log', AnswersTo(t)) + HeldFor(t)'
      PROVE  SharesInStep'
  BY <1>4, <1>2 DEF SharesInStep
<1>5. ASSUME NEW t \in 1..Traders
      PROVE  /\ OrderedBy(t) = TotalOf(Log, AnswersTo(t)) + HeldFor(t)
             /\ TotalOf(Log, AnswersTo(t)) \in Int
             /\ t # Maker
  BY <1>1, TotalType, TradersAside DEF SharesInStep
<1>6. CASE SkipInvalid \/ BeginMatch
  <2>1. /\ incoming # <<>> /\ incoming' = Tail(incoming) /\ taker = NoOrder
        /\ Len(incoming) > 0 /\ Head(incoming) = incoming[1] /\ Head(incoming) \in Order
    BY <1>1, <1>6 DEF SkipInvalid, BeginMatch, AtNextMessage
  <2>2. Log' = Log
    BY <1>6, QuietEvents
  <2>3. /\ Head(incoming).user \in 1..Maker
        /\ Head(incoming).user # Maker => ValidateOrder(Head(incoming))
    <3>1. Reached + 1 \in 1..Len(sent) /\ Head(incoming) = sent[Reached + 1]
      BY <1>1, <2>1 DEF IdsInStep, Reached
    <3>2. QED BY <3>1 DEF SharesInStep
  <2>4. ASSUME NEW t \in 1..Traders
        PROVE  OrderedBy(t)' = TotalOf(Log', AnswersTo(t)) + HeldFor(t)'
    <3>1. /\ HeldFor(t) = 0
          /\ OrderedBy(t)' = OrderedBy(t)
                              + (IF Head(incoming).user = t THEN Head(incoming).qty ELSE 0)
      BY <1>2, <2>1, OrderedNext DEF HeldFor
    <3>2. HeldFor(t)' = IF Head(incoming).user = t THEN Head(incoming).qty ELSE 0
      <4>1. CASE SkipInvalid
        BY <1>5, <2>1, <2>3, <4>1 DEF SkipInvalid, HeldFor
      <4>2. CASE BeginMatch
        BY <2>1, <4>2, BookAssumption DEF BeginMatch, HeldFor
      <4>3. QED BY <1>6, <4>1, <4>2
    <3>3. Head(incoming).qty \in Int
      BY <2>1 DEF Order
    <3> HIDE DEF HeldFor
    <3>4. QED BY <1>5, <2>2, <3>1, <3>2, <3>3
  <2>5. taker' # NoOrder => taker'.user \in 1..Maker
    BY <1>6, <2>1, <2>3 DEF SkipInvalid, BeginMatch
  <2>6. QED BY <1>4, <2>2, <2>4, <2>5 DEF SharesInStep
<1>7. CASE taker' = taker /\ Log' = Log /\ UNCHANGED <<sent, incoming>>
  BY <1>3, <1>4, <1>7 DEF SharesInStep, HeldFor
<1>8. CASE EndFilled /\ Log' = Log
  <2>1. taker.qty = 0 /\ taker' = NoOrder /\ incoming' = incoming
    BY <1>8 DEF EndFilled, Return
  <2>2. \A t \in 1..Traders : HeldFor(t) = 0 /\ HeldFor(t)' = 0
    BY <2>1 DEF HeldFor
  <2>3. QED BY <1>3, <1>4, <1>5, <1>8, <2>1, <2>2 DEF SharesInStep
<1>9. ASSUME NEW status \in {"Cancelled", "Added"}, Returned(status),
             status = "Added" => taker.user = Maker
      PROVE  SharesInStep'
  <2> DEFINE e == Report(taker, status, taker.price, taker.qty)
  <2>1. /\ taker \in Order /\ taker # NoOrder /\ taker' = NoOrder
        /\ Log' = Append(Log, e) /\ incoming' = incoming
    BY <1>9, BookAssumption DEF Returned
  <2>2. e \in Event /\ e.user = taker.user /\ e.status = status /\ e.qty = taker.qty
    BY <2>1, ReportType DEF Order, Report, OrderStatus
  <2> HIDE DEF e
  <2>3. ~IsFill(e)
    BY <2>2 DEF IsFill, FillStatus
  <2>4. Net(Log') = 0
    BY <1>1, <2>1, <2>2, <2>3, EventCounts DEF SharesInStep
  <2>5. \A k \in 1..Len(Log') : Log'[k].user \in 1..Maker
    BY <1>1, <2>1, <2>2, UsersOfLog DEF SharesInStep
  <2>6. ASSUME NEW t \in 1..Traders
        PROVE  OrderedBy(t)' = TotalOf(Log', AnswersTo(t)) + HeldFor(t)'
    <3>1. HeldFor(t)' = 0 /\ taker.qty \in Int /\ OrderedBy(t)' = OrderedBy(t)
      BY <1>3, <2>1 DEF HeldFor, Order
    <3>2. CASE taker.user = t
      <4>1. HeldFor(t) = taker.qty /\ e.user = t /\ e.status # "Added"
        BY <1>5, <1>9, <2>1, <2>2, <3>2 DEF HeldFor
      <4>2. TotalOf(Log', AnswersTo(t)) = TotalOf(Log, AnswersTo(t)) + taker.qty
        BY <1>1, <2>1, <2>2, <4>1, AnswerCounts
      <4> HIDE DEF HeldFor
      <4>3. QED BY <1>5, <3>1, <4>1, <4>2
    <3>3. CASE taker.user # t
      <4>1. HeldFor(t) = 0
        BY <3>3 DEF HeldFor
      <4>2. TotalOf(Log', AnswersTo(t)) = TotalOf(Log, AnswersTo(t))
        BY <1>1, <2>1, <2>2, <3>3, AnswerCounts
      <4>3. QED BY <1>5, <3>1, <4>1, <4>2
    <3>4. QED BY <3>2, <3>3
  <2>7. QED BY <1>4, <2>1, <2>4, <2>5, <2>6
<1>10. ASSUME NEW p \in Prices, NEW cur \in Order, NEW q \in Nat, TradeOf(p, cur, q)
       PROVE  SharesInStep'
  <2> DEFINE d == TakerReport(q, p)
             e == MakerReport(cur, q)
             mid == Append(Log, d)
  <2>1. /\ taker \in Order /\ taker # NoOrder /\ q <= taker.qty /\ q <= cur.qty
        /\ taker' = Reduced(taker, q) /\ incoming' = incoming
        /\ Log' = Append(Append(Log, d), e)
    BY <1>10, BookAssumption DEF TradeOf, Reduced
  <2>2. cur.side = Opposite(taker.side) /\ cur.user = Maker
    <3>1. cur \in Book /\ cur.side = Opposite(taker.side)
      BY <1>10, BookAfterTrade DEF IdsInStep
    <3>2. QED BY <3>1 DEF OwnerInv, MakerOnOneSide, Book, Side
  <2>3. /\ d \in Event /\ e \in Event /\ IsFill(d) /\ IsFill(e)
        /\ d.qty = q /\ e.qty = q /\ d.user = taker.user /\ e.user = Maker
        /\ d.side = taker.side /\ e.side = Opposite(taker.side)
        /\ d.status # "Added" /\ e.status # "Added"
    BY <2>1, <2>2, ReportType
       DEF TakerReport, MakerReport, OrderStatus, Order, Report, IsFill, FillStatus
  <2> HIDE DEF d, e
  <2>4. mid \in Seq(Event) /\ Log' = Append(mid, e)
    BY <1>1, <2>1, <2>3
  <2>5. mid = Append(Log, d)
    OBVIOUS
  <2> HIDE DEF mid
  <2>6. /\ taker.user \in 1..Maker /\ Maker \in 1..Maker
        /\ \A k \in 1..Len(Log) : Log[k].user \in 1..Maker
    BY <2>1, ExchangeAssumption DEF SharesInStep, Maker
  <2>7. \A k \in 1..Len(Log') : Log'[k].user \in 1..Maker
    <3>1. \A k \in 1..Len(mid) : mid[k].user \in 1..Maker
      BY <1>1, <2>3, <2>5, <2>6, UsersOfLog
    <3>2. QED BY <2>3, <2>4, <2>6, <3>1, UsersOfLog
  <2>8. Net(Log') = 0
    <3>1. Net(mid) = 0 + Signed(d)
      BY <1>1, <2>3, <2>5, EventCounts DEF SharesInStep
    <3>2. Net(Log') = Net(mid) + Signed(e)
      BY <2>3, <2>4, EventCounts
    <3>3. taker.side \in {"buy", "sell"}
      BY <2>1 DEF Order, Side
    <3>4. Signed(d) = -Signed(e) /\ Signed(d) \in Int /\ Signed(e) \in Int
      BY <2>3, <3>3 DEF Signed, Opposite
    <3>5. QED BY <3>1, <3>2, <3>4
  <2>9. ASSUME NEW t \in 1..Traders
        PROVE  OrderedBy(t)' = TotalOf(Log', AnswersTo(t)) + HeldFor(t)'
    <3>1. OrderedBy(t)' = OrderedBy(t) /\ t # Maker
      BY <1>3, <1>5, <2>1
    <3>2. /\ taker' \in Order /\ taker' # NoOrder /\ taker'.user = taker.user
          /\ taker'.qty = taker.qty - q /\ taker.qty \in Int
      BY <2>1, ReducedFields, BookAssumption DEF Order
    <3>3. TotalOf(Log', AnswersTo(t)) = TotalOf(mid, AnswersTo(t))
      BY <2>3, <2>4, <3>1, AnswerCounts
    <3>4. CASE taker.user = t
      <4>1. HeldFor(t) = taker.qty /\ HeldFor(t)' = taker.qty - q
        BY <2>1, <3>2, <3>4 DEF HeldFor
      <4>2. TotalOf(mid, AnswersTo(t)) = TotalOf(Log, AnswersTo(t)) + q
        BY <1>1, <2>3, <2>5, <3>4, AnswerCounts
      <4> HIDE DEF HeldFor
      <4>3. QED BY <1>5, <3>1, <3>2, <3>3, <4>1, <4>2
    <3>5. CASE taker.user # t
      <4>1. HeldFor(t) = 0 /\ HeldFor(t)' = 0
        BY <3>2, <3>5 DEF HeldFor
      <4>2. TotalOf(mid, AnswersTo(t)) = TotalOf(Log, AnswersTo(t))
        BY <1>1, <2>3, <2>5, <3>5, AnswerCounts
      <4>3. QED BY <1>5, <3>1, <3>3, <4>1, <4>2
    <3>6. QED BY <3>4, <3>5
  <2>10. taker'.user \in 1..Maker
    BY <2>1, <2>6, ReducedFields
  <2>11. QED BY <1>4, <2>7, <2>8, <2>9, <2>10
<1>11. Returned("Added") /\ taker.tif = "GTC" => taker.user = Maker
  BY BookAssumption DEF Returned, OwnerInv, Owned
<1>12. QED
  BY <1>6, <1>7, <1>8, <1>9, <1>10, <1>11, BookSteps

-----------------------------------------------------------------------------
(* The ledgers of the participants. *)

\* The events the notifier has handed out.
Heard == SubSeq(published, 1, heard)

Ledger == [net: Int, traded: Int, cancelled: Int]

Nets(l) == [t \in 1..Traders |-> l[t].net]
Shares(l) == [t \in 1..Traders |-> l[t].traded]

LEMMA LedgerTotals ==
  ASSUME NEW l \in [1..Traders -> Ledger]
  PROVE  /\ Summable(Nets(l), 1..Traders) /\ Summable(Shares(l), 1..Traders)
         /\ FoldFunction(LAMBDA x, n : x.net + n, 0, l) = SumOf(Nets(l), 1..Traders)
         /\ FoldFunction(LAMBDA x, n : x.traded + n, 0, l) = SumOf(Shares(l), 1..Traders)
<1> DEFINE D == 1..Traders
<1>1. DOMAIN l = D
  OBVIOUS
<1>2. IsFiniteSet(D)
  BY FS_Interval, TradersAside
<1>3. \A t \in D : /\ Nets(l)[t] = l[t].net /\ l[t].net \in Int
                   /\ Shares(l)[t] = l[t].traded /\ l[t].traded \in Int
  BY DEF Nets, Shares, Ledger
<1>4. Summable(Nets(l), D) /\ Summable(Shares(l), D)
  BY <1>2, <1>3 DEF Summable
<1> HIDE DEF D
<1>5. FoldFunction(LAMBDA x, n : x.net + n, 0, l) = SumOf(Nets(l), D)
  <2> DEFINE f == Nets(l)
             Fits(h) == h = [U \in SUBSET D |->
               IF U = {} THEN 0
               ELSE l[CHOOSE t \in U : TRUE].net + h[U \ {CHOOSE t \in U : TRUE}]]
             H == CHOOSE h : Fits(h)
  <2>1. FoldFunction(LAMBDA x, n : x.net + n, 0, l) = H[D]
    BY <1>1, Zenon DEF FoldFunction, FoldFunctionOnSet, MapThenFoldSet
  <2>2. ASSUME NEW h PROVE Fits(h) <=> Adds(h, f, D)
    <3>1. ASSUME NEW U \in SUBSET D
          PROVE  (IF U = {} THEN 0
                  ELSE l[CHOOSE t \in U : TRUE].net + h[U \ {CHOOSE t \in U : TRUE}])
               = (IF U = {} THEN 0
                  ELSE f[CHOOSE t \in U : TRUE] + h[U \ {CHOOSE t \in U : TRUE}])
      <4>1. CASE U = {}
        BY <4>1
      <4>2. CASE U # {}
        <5>1. (CHOOSE t \in U : TRUE) \in D
          BY <4>2
        <5>2. QED BY <1>3, <4>2, <5>1
      <4>3. QED BY <4>1, <4>2
    <3>2. QED BY <3>1, Zenon DEF Adds
  <2>3. PICK g : AddsAnyhow(g, f, D)
    BY <1>4, AddsAnyhowExists DEF Summable
  <2>4. Adds(g, f, D)
    BY <2>3, AddsInOrder
  <2>5. Fits(H)
    <3>1. Fits(g)
      BY <2>2, <2>4
    <3> HIDE DEF Fits
    <3>2. QED BY <3>1
  <2> HIDE DEF Fits, H, f
  <2>6. Adds(H, f, D)
    BY <2>2, <2>5
  <2>7. SumOf(f, D) = H[D]
    BY <1>4, <2>6, SumAdds DEF f
  <2>8. QED BY <2>1, <2>7 DEF f
<1>6. FoldFunction(LAMBDA x, n : x.traded + n, 0, l) = SumOf(Shares(l), D)
  <2> DEFINE f == Shares(l)
             Fits(h) == h = [U \in SUBSET D |->
               IF U = {} THEN 0
               ELSE l[CHOOSE t \in U : TRUE].traded + h[U \ {CHOOSE t \in U : TRUE}]]
             H == CHOOSE h : Fits(h)
  <2>1. FoldFunction(LAMBDA x, n : x.traded + n, 0, l) = H[D]
    BY <1>1, Zenon DEF FoldFunction, FoldFunctionOnSet, MapThenFoldSet
  <2>2. ASSUME NEW h PROVE Fits(h) <=> Adds(h, f, D)
    <3>1. ASSUME NEW U \in SUBSET D
          PROVE  (IF U = {} THEN 0
                  ELSE l[CHOOSE t \in U : TRUE].traded + h[U \ {CHOOSE t \in U : TRUE}])
               = (IF U = {} THEN 0
                  ELSE f[CHOOSE t \in U : TRUE] + h[U \ {CHOOSE t \in U : TRUE}])
      <4>1. CASE U = {}
        BY <4>1
      <4>2. CASE U # {}
        <5>1. (CHOOSE t \in U : TRUE) \in D
          BY <4>2
        <5>2. QED BY <1>3, <4>2, <5>1
      <4>3. QED BY <4>1, <4>2
    <3>2. QED BY <3>1, Zenon DEF Adds
  <2>3. PICK g : AddsAnyhow(g, f, D)
    BY <1>4, AddsAnyhowExists DEF Summable
  <2>4. Adds(g, f, D)
    BY <2>3, AddsInOrder
  <2>5. Fits(H)
    <3>1. Fits(g)
      BY <2>2, <2>4
    <3> HIDE DEF Fits
    <3>2. QED BY <3>1
  <2> HIDE DEF Fits, H, f
  <2>6. Adds(H, f, D)
    BY <2>2, <2>5
  <2>7. SumOf(f, D) = H[D]
    BY <1>4, <2>6, SumAdds DEF f
  <2>8. QED BY <2>1, <2>7 DEF f
<1>7. QED BY <1>4, <1>5, <1>6 DEF D

\* What has been handed out is in the ledgers, and nothing else.
LedgersInStep ==
  /\ heard \in 0..Len(published)
  /\ inventory \in Int /\ makerShares \in Int
  /\ tally \in [1..Traders -> Ledger]
  /\ inventory + SumOf(Nets(tally), 1..Traders) = Net(Heard)
  /\ makerShares + SumOf(Shares(tally), 1..Traders) = Volume(Heard)
  /\ \A t \in 1..Traders :
       tally[t].traded + tally[t].cancelled = TotalOf(Heard, AnswersTo(t))

LEMMA HeardSame ==
  ASSUME NEW s \in Seq(Event), NEW e \in Event, NEW n \in 0..Len(s)
  PROVE  SubSeq(Append(s, e), 1, n) = SubSeq(s, 1, n)
OBVIOUS

LEMMA HeardNext ==
  ASSUME NEW s \in Seq(Event), NEW n \in Nat, n < Len(s)
  PROVE  /\ SubSeq(s, 1, n) \in Seq(Event)
         /\ s[n + 1] \in Event
         /\ SubSeq(s, 1, n + 1) = Append(SubSeq(s, 1, n), s[n + 1])
OBVIOUS

\* Only the notifier writes the ledgers.
LEMMA LedgersKept ==
  ASSUME TypeOK, LedgersInStep, UNCHANGED <<ledgers, heard>>,
         \/ UNCHANGED published
         \/ \E e \in Event : published' = Append(published, e)
  PROVE  LedgersInStep'
<1>1. published \in Seq(Event) /\ heard \in 0..Len(published)
  BY DEF TypeOK, LedgersInStep
<1>2. Heard' = Heard
  BY <1>1, HeardSame DEF Heard
<1>3. heard \in 0..Len(published')
  BY <1>1
<1>4. QED BY <1>2, <1>3 DEF LedgersInStep, ledgers

LEMMA TraderHearsFields ==
  ASSUME NEW l \in Ledger, NEW e \in Event
  PROVE  /\ TraderHears(l, e) \in Ledger
         /\ IsFill(e) => /\ TraderHears(l, e).net = l.net + Signed(e)
                         /\ TraderHears(l, e).traded = l.traded + e.qty
                         /\ TraderHears(l, e).cancelled = l.cancelled
         /\ ~IsFill(e) => /\ TraderHears(l, e).net = l.net
                          /\ TraderHears(l, e).traded = l.traded
         /\ e.status = "Cancelled" => TraderHears(l, e).cancelled = l.cancelled + e.qty
         /\ e.status = "Added" => TraderHears(l, e).cancelled = l.cancelled
<1> DEFINE x == Signed(e)
<1>1. x \in Int /\ e.qty \in Int /\ e.status \in OrderStatus
  BY DEF Signed, Event
<1> HIDE DEF x
<1>2. CASE e.status = "Cancelled"
  <2>1. TraderHears(l, e) = [l EXCEPT !.cancelled = l.cancelled + e.qty] /\ ~IsFill(e)
    BY <1>2 DEF TraderHears, IsFill, FillStatus, Ledger
  <2>2. QED BY <1>1, <1>2, <2>1 DEF Ledger
<1>3. CASE IsFill(e)
  <2>1. e.status # "Cancelled" /\ e.status # "Added"
    BY <1>3 DEF IsFill, FillStatus
  <2>2. e.status \in {"Filled", "PartiallyFilled"}
    BY <1>3 DEF IsFill, FillStatus
  <2>3. TraderHears(l, e) = [l EXCEPT !.net = l.net + Signed(e), !.traded = l.traded + e.qty]
    BY <2>1, <2>2, Zenon DEF TraderHears
  <2>4. l.net \in Int /\ l.traded \in Int /\ l.cancelled \in Int
    BY DEF Ledger
  <2>5. TraderHears(l, e) = [net |-> l.net + x, traded |-> l.traded + e.qty,
                             cancelled |-> l.cancelled]
    BY <2>3 DEF Ledger, x
  <2>6. TraderHears(l, e) \in Ledger
    BY <1>1, <2>4, <2>5 DEF Ledger
  <2>7. QED BY <1>3, <2>1, <2>5, <2>6 DEF x
<1>4. CASE e.status = "Added"
  <2>1. TraderHears(l, e) = l /\ ~IsFill(e)
    BY <1>4 DEF TraderHears, IsFill, FillStatus
  <2>2. QED BY <1>4, <2>1
<1>5. QED BY <1>1, <1>2, <1>3, <1>4 DEF OrderStatus, IsFill, FillStatus

\* The next event is handed out: of whom it is, and what it adds to the counts.
LEMMA NextHeard ==
  ASSUME TypeOK, LedgersInStep, SharesInStep, CanDispatch, heard' = heard + 1,
         published' = published
  PROVE  /\ NextEvent \in Event /\ NextEvent.user \in 1..Maker
         /\ heard' \in 0..Len(published')
         /\ Heard \in Seq(Event) /\ Heard' = Append(Heard, NextEvent)
<1>1. /\ published \in Seq(Event) /\ pending \in Seq(Event) /\ fills \in Seq(Event)
      /\ heard \in Nat /\ heard < Len(published)
  BY DEF TypeOK, LedgersInStep, CanDispatch
<1>2. /\ NextEvent \in Event
      /\ Heard \in Seq(Event) /\ Heard' = Append(Heard, NextEvent)
  BY <1>1, HeardNext DEF Heard, NextEvent
<1>3. heard + 1 \in 1..Len(Log) /\ Log[heard + 1] = published[heard + 1]
  <2>1. /\ published \o pending \in Seq(Event)
        /\ heard + 1 \in 1..Len(published \o pending)
        /\ (published \o pending)[heard + 1] = published[heard + 1]
    BY <1>1
  <2>2. QED BY <1>1, <2>1 DEF Log
<1>4. NextEvent.user \in 1..Maker
  BY <1>3 DEF SharesInStep, NextEvent
<1>5. QED BY <1>1, <1>2, <1>4

LEMMA TellStep ==
  ASSUME TypeOK, LedgersInStep, SharesInStep, TellTrader \/ TellMakerNothing \/ TellMakerFill
  PROVE  LedgersInStep'
<1> DEFINE e == NextEvent
           N == SumOf(Nets(tally), 1..Traders)
           S == SumOf(Shares(tally), 1..Traders)
<1>1. CanDispatch /\ heard' = heard + 1 /\ published' = published
  BY DEF TellTrader, TellMakerNothing, TellMakerFill, vars
<1>2. /\ e \in Event /\ e.user \in 1..Maker /\ heard' \in 0..Len(published')
      /\ Heard \in Seq(Event) /\ Heard' = Append(Heard, e)
  BY <1>1, NextHeard
<1>3. /\ tally \in [1..Traders -> Ledger] /\ inventory \in Int /\ makerShares \in Int
      /\ inventory + N = Net(Heard) /\ makerShares + S = Volume(Heard)
      /\ \A t \in 1..Traders :
           tally[t].traded + tally[t].cancelled = TotalOf(Heard, AnswersTo(t))
  BY DEF LedgersInStep
<1>4. /\ Summable(Nets(tally), 1..Traders) /\ Summable(Shares(tally), 1..Traders)
      /\ N \in Int /\ S \in Int
  BY <1>3, LedgerTotals, SumType
<1>5. e.qty \in Int /\ Signed(e) \in Int
  BY <1>2 DEF Event, Signed
<1>6. IsFill(e) <=> e.status \in {"Filled", "PartiallyFilled"}
  BY DEF IsFill, FillStatus
<1>7. e.status \in {"Filled", "PartiallyFilled", "Added", "Cancelled"}
  BY <1>2 DEF Event, OrderStatus
<1>8. CASE TellTrader
  <2> DEFINE t == e.user
             l == tally[t]
             new == TraderHears(l, e)
  <2>1. t \in 1..Traders
    BY <1>2, <1>8, ExchangeAssumption DEF TellTrader, Maker
  <2>2. /\ tally' = [tally EXCEPT ![t] = new] /\ UNCHANGED <<inventory, makerShares>>
    BY <1>3, <1>8, <2>1 DEF TellTrader
  <2>3. l \in Ledger
    BY <1>3, <2>1
  <2>4. /\ new \in Ledger
        /\ IsFill(e) => /\ new.net = l.net + Signed(e) /\ new.traded = l.traded + e.qty
                        /\ new.cancelled = l.cancelled
        /\ ~IsFill(e) => new.net = l.net /\ new.traded = l.traded
        /\ e.status = "Cancelled" => new.cancelled = l.cancelled + e.qty
        /\ e.status = "Added" => new.cancelled = l.cancelled
    BY <1>2, <2>3, TraderHearsFields
  <2>5. l.net \in Int /\ l.traded \in Int /\ l.cancelled \in Int
    BY <2>3 DEF Ledger
  <2>6. /\ tally' \in [1..Traders -> Ledger] /\ tally'[t] = new
        /\ \A u \in 1..Traders : u # t => tally'[u] = tally[u]
    BY <1>3, <2>1, <2>2, <2>4
  <2>7. l = tally[t] /\ t = e.user
    OBVIOUS
  <2> HIDE DEF new, l, t
  <2>8. /\ SumOf(Nets(tally'), 1..Traders) = N + (new.net - l.net)
        /\ SumOf(Shares(tally'), 1..Traders) = S + (new.traded - l.traded)
    <3>1. /\ Nets(tally)[t] = l.net /\ Nets(tally')[t] = new.net
          /\ Shares(tally)[t] = l.traded /\ Shares(tally')[t] = new.traded
      BY <2>1, <2>6, <2>7 DEF Nets, Shares
    <3>2. new.net \in Int /\ new.traded \in Int
      BY <2>4 DEF Ledger
    <3>3. \A u \in (1..Traders) \ {t} : /\ Nets(tally')[u] = Nets(tally)[u]
                                        /\ Shares(tally')[u] = Shares(tally)[u]
      BY <2>6 DEF Nets, Shares
    <3> DEFINE D == 1..Traders
               f == Nets(tally)
               g == Nets(tally')
               h == Shares(tally)
               k == Shares(tally')
    <3>4. /\ Summable(f, D) /\ t \in D /\ g[t] \in Int /\ \A u \in D \ {t} : g[u] = f[u]
          /\ Summable(h, D) /\ k[t] \in Int /\ \A u \in D \ {t} : k[u] = h[u]
      BY <1>4, <2>1, <3>1, <3>2, <3>3
    <3> HIDE DEF D, f, g, h, k
    <3>5. SumOf(g, D) = SumOf(f, D) + (g[t] - f[t])
      BY <3>4, SumChange
    <3>6. SumOf(k, D) = SumOf(h, D) + (k[t] - h[t])
      BY <3>4, SumChange, ZenonT(40)
    <3>7. QED BY <3>1, <3>5, <3>6 DEF D, f, g, h, k
  <2>9. /\ inventory' + SumOf(Nets(tally'), 1..Traders) = Net(Heard')
        /\ makerShares' + SumOf(Shares(tally'), 1..Traders) = Volume(Heard')
    <3> HIDE DEF N, S, e
    <3>1. CASE IsFill(e)
      <4>1. Net(Heard') = Net(Heard) + Signed(e) /\ Volume(Heard') = Volume(Heard) + e.qty
        BY <1>2, <3>1, EventCounts
      <4>2. QED BY <1>3, <1>4, <1>5, <2>2, <2>4, <2>5, <2>8, <3>1, <4>1, SMTT(30)
    <3>2. CASE ~IsFill(e)
      <4>1. Net(Heard') = Net(Heard) /\ Volume(Heard') = Volume(Heard)
        BY <1>2, <3>2, EventCounts
      <4>2. QED BY <1>3, <1>4, <2>2, <2>4, <2>5, <2>8, <3>2, <4>1
    <3>3. QED BY <3>1, <3>2
  <2>10. ASSUME NEW u \in 1..Traders
         PROVE  tally'[u].traded + tally'[u].cancelled = TotalOf(Heard', AnswersTo(u))
    <3>1. tally[u].traded + tally[u].cancelled = TotalOf(Heard, AnswersTo(u))
      BY <1>3
    <3> HIDE DEF e
    <3>2. CASE u # t
      <4>1. TotalOf(Heard', AnswersTo(u)) = TotalOf(Heard, AnswersTo(u))
        BY <1>2, <2>7, <3>2, AnswerCounts
      <4>2. QED BY <2>6, <3>1, <3>2, <4>1
    <3>3. CASE u = t /\ e.status = "Added"
      <4>1. TotalOf(Heard', AnswersTo(u)) = TotalOf(Heard, AnswersTo(u))
        BY <1>2, <3>3, AnswerCounts
      <4>2. QED BY <1>6, <2>4, <2>6, <2>7, <3>1, <3>3, <4>1
    <3>4. CASE u = t /\ e.status # "Added"
      <4>1. TotalOf(Heard', AnswersTo(u)) = TotalOf(Heard, AnswersTo(u)) + e.qty
        BY <1>2, <2>7, <3>4, AnswerCounts
      <4>2. CASE IsFill(e)
        BY <1>5, <2>4, <2>5, <2>6, <2>7, <3>1, <3>4, <4>1, <4>2
      <4>3. CASE e.status = "Cancelled"
        BY <1>5, <1>6, <2>4, <2>5, <2>6, <2>7, <3>1, <3>4, <4>1, <4>3, SMTT(30)
      <4>4. QED BY <1>6, <1>7, <3>4, <4>2, <4>3
    <3>5. QED BY <3>2, <3>3, <3>4
  <2>11. inventory' \in Int /\ makerShares' \in Int
    BY <1>3, <2>2
  <2>12. QED BY <1>2, <2>6, <2>9, <2>10, <2>11 DEF LedgersInStep
<1>9. CASE TellMakerNothing \/ TellMakerFill
  <2>1. tally' = tally /\ e.user = Maker
    BY <1>9 DEF TellMakerNothing, TellMakerFill, ledgers
  <2>2. \/ IsFill(e) /\ inventory' = inventory + Signed(e) /\ makerShares' = makerShares + e.qty
        \/ ~IsFill(e) /\ inventory' = inventory /\ makerShares' = makerShares
    BY <1>6, <1>9 DEF TellMakerNothing, TellMakerFill, ledgers
  <2> HIDE DEF N, S, e
  <2>3. /\ inventory' + N = Net(Heard') /\ makerShares' + S = Volume(Heard')
        /\ inventory' \in Int /\ makerShares' \in Int
    <3>1. CASE IsFill(e)
      <4>1. Net(Heard') = Net(Heard) + Signed(e) /\ Volume(Heard') = Volume(Heard) + e.qty
        BY <1>2, <3>1, EventCounts
      <4>2. QED BY <1>3, <1>4, <1>5, <2>2, <3>1, <4>1
    <3>2. CASE ~IsFill(e)
      <4>1. Net(Heard') = Net(Heard) /\ Volume(Heard') = Volume(Heard)
        BY <1>2, <3>2, EventCounts
      <4>2. QED BY <1>3, <2>2, <3>2, <4>1
    <3>3. QED BY <3>1, <3>2
  <2>4. \A t \in 1..Traders : TotalOf(Heard', AnswersTo(t)) = TotalOf(Heard, AnswersTo(t))
    <3>1. \A t \in 1..Traders : t # e.user
      BY <2>1, TradersAside
    <3>2. QED BY <1>2, <3>1, AnswerCounts
  <2>5. QED BY <1>2, <1>3, <2>1, <2>3, <2>4 DEF LedgersInStep, N, S
<1>10. QED BY <1>8, <1>9

\* Between batches nothing is under way, and the book is between batches for good once
\* the gateway has stopped; when main() ends every event has been handed out.
QuietInStep ==
  /\ taker = NoOrder => fills = <<>>
  /\ phase = "idle" => taker = NoOrder /\ pending = <<>>
  /\ main \in {"stop notifier", "done"} => phase = "idle" /\ incoming = <<>>
  /\ main = "done" => heard = Len(published)

SharesInv ==
  ReportsInv /\ OwnerInv /\ SharesInStep /\ LedgersInStep /\ QuietInStep

LEMMA QuietStep == SharesInv /\ [SimNext]_simVars => QuietInStep'
<1> SUFFICES ASSUME SharesInv, [SimNext]_simVars PROVE QuietInStep'
  OBVIOUS
<1>1. QuietInStep /\ TypeOK
  BY DEF SharesInv, ReportsInv, Inv
<1>2. ASSUME UNCHANGED <<vars, main>>, main # "done" PROVE QuietInStep'
  BY <1>1, <1>2 DEF QuietInStep, vars, bookVars
<1>3. ASSUME NEW user, NEW side, NEW tif, NEW price, NEW qty,
             Submit(user, side, tif, price, qty), main' \notin {"stop notifier", "done"}
      PROVE  QuietInStep'
  BY <1>1, <1>3 DEF Submit, Accept, QuietInStep
<1>4. ASSUME NEW t \in 1..Traders, TraderSends(t) PROVE QuietInStep'
  BY <1>3, <1>4 DEF TraderSends
<1>5. CASE MakerBids \/ MakerAsks
  <2>1. main' \notin {"stop notifier", "done"}
    BY <1>5 DEF MakerBids, MakerAsks, EndTurn
  <2>2. CASE UNCHANGED vars
    BY <1>1, <2>1, <2>2 DEF QuietInStep, vars, bookVars
  <2>3. QED BY <1>3, <1>5, <2>1, <2>2 DEF MakerBids, MakerAsks
<1>6. CASE MakerPrices \/ MakerTakesFlag \/ MakerLooks \/ LastRound
  <2>1. UNCHANGED vars /\ main' \notin {"stop notifier", "done"}
    BY <1>6 DEF MakerPrices, MakerTakesFlag, MakerLooks, LastRound, EndTurn
  <2>2. QED BY <1>1, <2>1 DEF QuietInStep, vars, bookVars
<1>7. CASE GatewayStops
  <2>1. /\ UNCHANGED vars /\ phase = "idle" /\ incoming = <<>> /\ main' = "stop notifier"
    BY <1>7 DEF GatewayStops
  <2>2. QED BY <1>1, <2>1 DEF QuietInStep, vars, bookVars
<1>8. CASE NotifierStops
  <2>1. /\ UNCHANGED <<vars, heard>> /\ heard = Len(published)
        /\ main = "stop notifier" /\ main' = "done"
    BY <1>8 DEF NotifierStops, notifierVars
  <2>2. QED BY <1>1, <2>1 DEF QuietInStep, vars, bookVars
<1>9. CASE Match
  <2>1. (StartBatch \/ Process) /\ UNCHANGED <<main, heard>>
    BY <1>9 DEF Match, mainVars, notifierVars
  <2>2. main \notin {"stop notifier", "done"}
    BY <1>1, <2>1 DEF QuietInStep, StartBatch, Process, Frame, SkipInvalid, BeginMatch,
          AtNextMessage, EraseLevel, EndFilled, CancelRemainder, RestRemainder, LoopDone,
          PushEvent, EndBatch, BatchMatched, Trade
  <2>3. CASE StartBatch
    BY <1>1, <2>1, <2>2, <2>3 DEF QuietInStep, StartBatch
  <2>4. CASE SkipInvalid \/ PushEvent \/ EndBatch
    BY <1>1, <2>1, <2>2, <2>4
       DEF QuietInStep, SkipInvalid, AtNextMessage, PushEvent, EndBatch, BatchMatched
  <2>5. CASE BeginMatch
    <3>1. incoming # <<>> /\ taker' = Head(incoming) /\ phase' = "match"
      BY <2>5 DEF BeginMatch, AtNextMessage
    <3>2. taker' \in Order
      BY <1>1, <3>1 DEF TypeOK
    <3>3. QED BY <1>1, <2>1, <2>2, <3>1, <3>2, BookAssumption DEF QuietInStep
  <2>6. CASE EraseLevel
    BY <1>1, <2>1, <2>2, <2>6 DEF QuietInStep, EraseLevel
  <2>7. CASE EndFilled \/ CancelRemainder \/ RestRemainder
    BY <1>1, <2>1, <2>2, <2>7
       DEF QuietInStep, EndFilled, CancelRemainder, RestRemainder, LoopDone, Return
  <2>8. CASE Trade
    <3>1. taker # NoOrder /\ phase' = phase
      BY <2>8 DEF Trade
    <3>2. taker' \in Order
      <4>1. PICK p \in Prices, cur \in Order, q \in Nat : TradeOf(p, cur, q)
        BY <2>8, TradeEvents DEF SharesInv, ReportsInv
      <4>2. taker \in Order /\ q <= taker.qty /\ taker' = Reduced(taker, q)
        BY <4>1 DEF TradeOf, Reduced
      <4>3. QED BY <4>2, ReducedFields
    <3>3. QED BY <1>1, <2>1, <2>2, <3>1, <3>2, BookAssumption DEF QuietInStep
  <2>9. QED
    BY <2>1, <2>3, <2>4, <2>5, <2>6, <2>7, <2>8 DEF Process, Frame
<1>10. CASE Notifier
  <2>1. UNCHANGED <<vars, main>>
    BY <1>10 DEF Notifier, TellTrader, TellMakerNothing, TellMakerFill, MarkRequote, mainVars
  <2>2. main # "done" \/ heard' = heard
    BY <1>10 DEF Notifier, TellTrader, TellMakerNothing, TellMakerFill, MarkRequote, CanDispatch
  <2>3. QED BY <1>1, <2>1, <2>2 DEF QuietInStep, vars, bookVars
<1>11. CASE UNCHANGED simVars
  BY <1>1, <1>11 DEF QuietInStep, simVars, vars, bookVars, mainVars, notifierVars
<1>12. QED
  BY <1>4, <1>5, <1>6, <1>7, <1>8, <1>9, <1>10, <1>11 DEF SimNext, Main, Participants

LEMMA LedgersStep == SharesInv /\ [SimNext]_simVars => LedgersInStep'
<1> SUFFICES ASSUME SharesInv, [SimNext]_simVars PROVE LedgersInStep'
  OBVIOUS
<1>1. TypeOK /\ LedgersInStep /\ SharesInStep
  BY DEF SharesInv, ReportsInv, Inv
<1>2. CASE TellTrader \/ TellMakerNothing \/ TellMakerFill
  BY <1>1, <1>2, TellStep
<1>3. CASE MarkRequote \/ UNCHANGED simVars
  BY <1>1, <1>3, LedgersKept DEF MarkRequote, simVars, vars, notifierVars
<1>4. ASSUME NEW t \in 1..Traders, TraderSends(t) PROVE LedgersInStep'
  BY <1>1, <1>4, LedgersKept DEF TraderSends, Submit, Accept, notifierVars
<1>5. CASE MakerBids \/ MakerAsks
  BY <1>1, <1>5, LedgersKept DEF MakerBids, MakerAsks, Submit, Accept, notifierVars, vars
<1>6. CASE MakerPrices \/ MakerTakesFlag \/ MakerLooks
  BY <1>1, <1>6, LedgersKept DEF MakerPrices, MakerTakesFlag, MakerLooks, notifierVars, vars
<1>7. CASE LastRound \/ GatewayStops \/ NotifierStops
  BY <1>1, <1>7, LedgersKept DEF LastRound, GatewayStops, NotifierStops, notifierVars, vars
<1>8. CASE Match
  <2>1. UNCHANGED published \/ \E e \in Event : published' = Append(published, e)
    <3>1. CASE PushEvent
      <4>1. Head(pending) \in Event /\ published' = Append(published, Head(pending))
        BY <1>1, <3>1 DEF PushEvent, TypeOK
      <4>2. QED BY <4>1
    <3>2. QED
      BY <1>8, <3>1 DEF Match, StartBatch, Process, Frame, SkipInvalid, BeginMatch, EraseLevel,
         EndFilled, CancelRemainder, RestRemainder, Return, EndBatch, Trade
  <2>2. QED BY <1>1, <1>8, <2>1, LedgersKept DEF Match, notifierVars
<1>9. QED
  BY <1>2, <1>3, <1>4, <1>5, <1>6, <1>7, <1>8 DEF SimNext, Main, Participants, Notifier

LEMMA SharesStep == SharesInv /\ [SimNext]_simVars => SharesInStep'
<1> SUFFICES ASSUME SharesInv, [SimNext]_simVars PROVE SharesInStep'
  OBVIOUS
<1>1. Inv /\ IdsInStep /\ OwnerInv /\ SharesInStep
  BY DEF SharesInv, ReportsInv
<1>2. ASSUME UNCHANGED vars PROVE SharesInStep'
  BY <1>1, <1>2 DEF SharesInStep, OrderedBy, HeldFor, Reached, Log, vars
<1>3. ASSUME NEW t \in 1..Traders, TraderSends(t) PROVE SharesInStep'
  <2>1. PICK side \in Side, qty \in Quantities :
          Submit(t, side, "IOC", IF side = "buy" THEN ReferencePrice + Aggression
                                                 ELSE ReferencePrice - Aggression, qty)
    BY <1>3 DEF TraderSends
  <2> DEFINE price == IF side = "buy" THEN ReferencePrice + Aggression
                                      ELSE ReferencePrice - Aggression
  <2>2. price > 0 /\ qty > 0 /\ qty <= MaxQuantity
    BY ExchangeAssumption, OrdersAssumption
  <2>3. t \in 1..Maker
    BY TradersAside
  <2> HIDE DEF price
  <2>4. Submit(t, side, "IOC", price, qty)
    BY <2>1 DEF price
  <2>5. QED BY <1>1, <2>2, <2>3, <2>4, SubmitShares
<1>4. CASE MakerBids \/ MakerAsks
  <2>1. Maker \in 1..Maker
    BY ExchangeAssumption DEF Maker
  <2>2. QED BY <1>1, <1>2, <1>4, <2>1, SubmitShares DEF MakerBids, MakerAsks
<1>5. CASE Match
  BY <1>1, <1>5, MatchShares DEF Match
<1>6. CASE MakerPrices \/ MakerTakesFlag \/ MakerLooks \/ LastRound \/ GatewayStops
             \/ NotifierStops \/ Notifier \/ UNCHANGED simVars
  BY <1>2, <1>6 DEF MakerPrices, MakerTakesFlag, MakerLooks, LastRound, GatewayStops,
     NotifierStops, Notifier, TellTrader, TellMakerNothing, TellMakerFill, MarkRequote, simVars
<1>7. QED
  BY <1>3, <1>4, <1>5, <1>6 DEF SimNext, Main, Participants

LEMMA InitShares == SimInit => SharesInv
<1> SUFFICES ASSUME SimInit PROVE SharesInv
  OBVIOUS
<1>1. /\ Init /\ main = "turn" /\ inventory = 0 /\ makerShares = 0 /\ heard = 0
      /\ tally = [t \in 1..Traders |-> [net |-> 0, traded |-> 0, cancelled |-> 0]]
  BY DEF SimInit
<1>2. /\ sent = <<>> /\ incoming = <<>> /\ taker = NoOrder /\ phase = "idle"
      /\ published = <<>> /\ pending = <<>> /\ fills = <<>>
      /\ resting = [s \in Side |-> [p \in Prices |-> {}]]
  BY <1>1 DEF Init
<1>3. Log = <<>> /\ Heard = <<>>
  BY <1>1, <1>2 DEF Log, Heard
<1>4. /\ Log \in Seq(Event) /\ 1..Len(Log) = {} /\ 1..Len(Heard) = {}
      /\ 1..Reached = {} /\ 1..Len(sent) = {} /\ Len(published) = 0
  BY <1>2, <1>3 DEF Reached
<1>5. \A E : TotalOf(Log, E) = 0 /\ TotalOf(Heard, E) = 0
  BY <1>4, TotalNone
<1>6. Net(Log) = 0 /\ Net(Heard) = 0 /\ Volume(Heard) = 0
  BY <1>5 DEF Net, Volume
<1>7. SharesInStep
  <2>1. ASSUME NEW t \in 1..Traders
        PROVE  OrderedBy(t) = TotalOf(Log, AnswersTo(t)) + HeldFor(t)
    <3>1. {i \in 1..Reached : sent[i].user = t} = {}
      BY <1>4
    <3>2. OrderedBy(t) = 0
      BY <3>1, SumEmpty DEF OrderedBy
    <3>3. HeldFor(t) = 0
      BY <1>2 DEF HeldFor
    <3>4. QED BY <1>5, <3>2, <3>3
  <2>2. QED BY <1>2, <1>4, <1>6, <2>1 DEF SharesInStep
<1>8. LedgersInStep
  <2>1. tally \in [1..Traders -> Ledger]
    BY <1>1 DEF Ledger
  <2> DEFINE D == 1..Traders
             N == Nets(tally)
             S == Shares(tally)
             zero == [t \in D |-> 0]
  <2>2. N = zero /\ S = zero
    BY <1>1 DEF Nets, Shares
  <2>3. Summable(zero, D)
    BY <2>1, <2>2, LedgerTotals
  <2>4. SumOf(zero, D) = 0
    <3> DEFINE h == [T \in SUBSET D |-> 0]
    <3>1. AddsAnyhow(h, zero, D) /\ h[D] = 0
      BY DEF AddsAnyhow
    <3> HIDE DEF h, zero, D
    <3>2. SumOf(zero, D) = h[D]
      BY <2>3, <3>1, AddsInOrder, SumAdds
    <3>3. QED BY <3>1, <3>2
  <2>5. \A t \in D : tally[t].traded + tally[t].cancelled = 0
    BY <1>1
  <2> HIDE DEF zero
  <2>6. SumOf(N, D) = 0 /\ SumOf(S, D) = 0
    BY <2>2, <2>4
  <2>7. QED BY <1>1, <1>4, <1>5, <1>6, <2>1, <2>5, <2>6 DEF LedgersInStep
<1>9. QuietInStep
  BY <1>1, <1>2 DEF QuietInStep
<1>10. OwnerInv
  BY <1>2 DEF OwnerInv, MakerOnOneSide, Resting
<1>11. QED BY <1>1, <1>7, <1>8, <1>9, <1>10, InitReports DEF SharesInv

LEMMA SharesInvariance == SimSpec => []SharesInv
<1>1. SimSpec => []ReportsInv
  BY SimulationRunsBook, ReportsInvariance, PTL
<1>2. SharesInv /\ ReportsInv' /\ [SimNext]_simVars => SharesInv'
  BY OwnerStep, SharesStep, LedgersStep, QuietStep DEF SharesInv, ReportsInv
<1>3. QED BY InitShares, <1>1, <1>2, PTL DEF SimSpec

\* What main.cpp prints after the shutdown, for any number of traders, rounds and prices
\* and every order in which the three threads run: the positions add up to 0, and every
\* share that changed hands is in the ledgers twice.
THEOREM PositionsAddUp == SimSpec => []NetPositionZero
<1>1. SharesInv => NetPositionZero
  <2> SUFFICES ASSUME SharesInv, main = "done"
               PROVE  /\ inventory + FoldFunction(LAMBDA l, n : l.net + n, 0, tally) = 0
                      /\ makerShares + FoldFunction(LAMBDA l, n : l.traded + n, 0, tally)
                           = 2 * MapThenSumSet(LAMBDA k : published[k].qty,
                               {k \in DOMAIN published :
                                  /\ published[k].status \in {"Filled", "PartiallyFilled"}
                                  /\ published[k].side = "buy"})
    BY Zenon DEF NetPositionZero
  <2>1. /\ published \in Seq(Event) /\ taker = NoOrder /\ fills = <<>> /\ pending = <<>>
        /\ heard = Len(published) /\ tally \in [1..Traders -> Ledger]
        /\ inventory + SumOf(Nets(tally), 1..Traders) = Net(Heard)
        /\ makerShares + SumOf(Shares(tally), 1..Traders) = Volume(Heard)
        /\ Net(Log) = 0
    BY DEF SharesInv, QuietInStep, LedgersInStep, SharesInStep, ReportsInv, Inv, TypeOK
  <2>2. Heard = published /\ Log = published
    BY <2>1 DEF Heard, Log
  <2>3. /\ FoldFunction(LAMBDA l, n : l.net + n, 0, tally) = SumOf(Nets(tally), 1..Traders)
        /\ FoldFunction(LAMBDA l, n : l.traded + n, 0, tally) = SumOf(Shares(tally), 1..Traders)
    BY <2>1, LedgerTotals
  <2> DEFINE b == TotalOf(published, FillsOn("buy"))
             s == TotalOf(published, FillsOn("sell"))
             T == {k \in DOMAIN published :
                     /\ published[k].status \in {"Filled", "PartiallyFilled"}
                     /\ published[k].side = "buy"}
  <2>4. b \in Int /\ s \in Int /\ b - s = 0 /\ Volume(published) = b + s
    BY <2>1, <2>2, TotalType DEF Net, Volume
  <2>5. T = {k \in 1..Len(published) : published[k] \in FillsOn("buy")}
    <3>1. /\ DOMAIN published = 1..Len(published)
          /\ \A k \in 1..Len(published) : published[k] \in Event
      BY <2>1
    <3>2. QED BY <3>1 DEF FillsOn, IsFill, FillStatus
  <2>6. MapThenSumSet(LAMBDA k : published[k].qty, T) = b
    <3>1. T \in SUBSET (1..Len(published)) /\ Quantified(published)
      BY <2>1, LogsQuantified
    <3> HIDE DEF T
    <3>2. MapThenSumSet(LAMBDA k : published[k].qty, T) = SumOf(QtysOf(published), T)
      BY <3>1, SumOfQuantities
    <3>3. QED BY <2>5, <3>2 DEF TotalOf
  <2> HIDE DEF b, s
  <2>7. Volume(published) = 2 * b
    BY <2>4
  <2>8. inventory + SumOf(Nets(tally), 1..Traders) = 0
    BY <2>1, <2>2
  <2>9. makerShares + SumOf(Shares(tally), 1..Traders) = 2 * b
    BY <2>1, <2>2, <2>7
  <2>10. inventory + FoldFunction(LAMBDA l, n : l.net + n, 0, tally) = 0
    BY <2>3, <2>8, Zenon
  <2>11. makerShares + FoldFunction(LAMBDA l, n : l.traded + n, 0, tally)
           = 2 * MapThenSumSet(LAMBDA k : published[k].qty, T)
    BY <2>3, <2>6, <2>9, Zenon
  <2>12. QED BY <2>10, <2>11, Zenon
<1>2. QED BY <1>1, SharesInvariance, PTL

\* And every share a noise trader ordered was reported to it, traded or cancelled.
THEOREM EveryTraderAnswered == SimSpec => []TradersAnswered
<1>1. SharesInv => TradersAnswered
  <2> SUFFICES ASSUME SharesInv, main = "done", NEW t \in 1..Traders
               PROVE  tally[t].traded + tally[t].cancelled =
                        MapThenSumSet(LAMBDA i : sent[i].qty,
                                      {i \in DOMAIN sent : sent[i].user = t})
    BY Zenon DEF TradersAnswered
  <2>1. /\ published \in Seq(Event) /\ sent \in Seq(Order)
        /\ taker = NoOrder /\ fills = <<>> /\ pending = <<>> /\ incoming = <<>>
        /\ heard = Len(published)
        /\ tally[t].traded + tally[t].cancelled = TotalOf(Heard, AnswersTo(t))
        /\ OrderedBy(t) = TotalOf(Log, AnswersTo(t)) + HeldFor(t)
    BY DEF SharesInv, QuietInStep, LedgersInStep, SharesInStep, ReportsInv, Inv, TypeOK
  <2>2. Heard = published /\ Log = published
    BY <2>1 DEF Heard, Log
  <2>3. HeldFor(t) = 0 /\ TotalOf(published, AnswersTo(t)) \in Int
    BY <2>1, TotalType DEF HeldFor
  <2>4. tally[t].traded + tally[t].cancelled = OrderedBy(t)
    BY <2>1, <2>2, <2>3
  <2> DEFINE T == {i \in DOMAIN sent : sent[i].user = t}
  <2>5. T \in SUBSET (1..Len(sent)) /\ Quantified(sent) /\ Reached = Len(sent)
    BY <2>1, LogsQuantified DEF Reached
  <2>6. T = {i \in 1..Reached : sent[i].user = t}
    BY <2>1, <2>5
  <2> HIDE DEF T
  <2>7. MapThenSumSet(LAMBDA i : sent[i].qty, T) = SumOf(QtysOf(sent), T)
    BY <2>5, SumOfQuantities
  <2>8. MapThenSumSet(LAMBDA i : sent[i].qty, T) = OrderedBy(t)
    BY <2>6, <2>7 DEF OrderedBy
  <2>9. QED BY <2>4, <2>8, Zenon DEF T
<1>2. QED BY <1>1, SharesInvariance, PTL

=============================================================================
