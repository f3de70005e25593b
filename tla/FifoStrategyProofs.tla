------------------------- MODULE FifoStrategyProofs -------------------------
(***************************************************************************)
(* Safety of an order book under FIFOStrategy, for every set of prices,    *)
(* stamps and inputs and for batches and histories of any length; in the   *)
(* second part, what its events tell the participants.                     *)
(***************************************************************************)
EXTENDS FifoStrategy, BookAccounts, Arithmetic, SequenceTheorems, TLAPS

-----------------------------------------------------------------------------
(* The operations of a price level. *)

LEMMA SidesOpposed ==
  ASSUME NEW s \in Side
  PROVE  Opposite(s) \in Side /\ Opposite(s) # s /\ \A t \in Side : t = s \/ t = Opposite(s)
BY DEF Side, Opposite

\* An order added is there or its equivalent is; nothing else comes in.
LEMMA AddOrderBounds ==
  ASSUME NEW level, NEW o
  PROVE  /\ AddOrder(level, o) \subseteq level \union {o}
         /\ AddOrder(level, o) # {}
BY DEF AddOrder

\* What is left of a level once `cur` has traded q: orders it had before, and `cur`
\* with its quantity reduced if that leaves anything.
LEMMA LevelAfterBounds ==
  ASSUME NEW level, NEW cur, NEW q
  PROVE  \A x \in LevelAfter(level, cur, q) :
           \/ x \in level
           \/ cur.qty # q /\ x = [cur EXCEPT !.qty = cur.qty - q]
<1> DEFINE new == [cur EXCEPT !.qty = @ - q]
<1>1. RemoveOrder(level, cur) \subseteq level
  BY DEF RemoveOrder
<1>2. CASE cur.qty = q
  BY <1>1, <1>2 DEF LevelAfter
<1>3. CASE cur.qty # q
  <2>1. LevelAfter(level, cur, q) = AddOrder(RemoveOrder(level, cur), new)
    BY <1>3 DEF LevelAfter, UpdateOrder
  <2>2. QED BY <2>1, <1>1, <1>3, AddOrderBounds
<1>4. QED BY <1>2, <1>3

\* The quantity a trade exchanges.
LEMMA SmallerBounds ==
  ASSUME NEW a \in Nat, NEW b \in Nat
  PROVE  /\ Smaller(a, b) \in Nat
         /\ Smaller(a, b) <= a
         /\ Smaller(a, b) <= b
         /\ a > 0 /\ b > 0 => Smaller(a, b) > 0
BY DEF Smaller

-----------------------------------------------------------------------------
(* The inductive invariant: what the book promises, and that the order in  *)
(* match()'s hand has passed validateOrder.                                *)

TakerBounded == taker # NoOrder => taker.qty <= MaxQuantity

Inv == TypeOK /\ BookWellFormed /\ BookUncrossed /\ TakerBounded

LEMMA InitInv == Init => Inv
<1> SUFFICES ASSUME Init PROVE Inv
  OBVIOUS
<1>1. TypeOK
  BY DEF Init, TypeOK
<1>2. BookWellFormed /\ BookUncrossed /\ TakerBounded
  BY DEF Init, BookWellFormed, BookUncrossed, TakerBounded, Side
<1>3. QED BY <1>1, <1>2 DEF Inv

\* An order numbered and stamped is an order.
LEMMA NewOrderType ==
  ASSUME NEW c \in ClientOrder, NEW n \in Nat
  PROVE  NewOrder(c, n) \in Order
BY DEF NewOrder, ClientOrder, Order

LEMMA ReportType ==
  ASSUME NEW o \in Order, NEW status \in OrderStatus, NEW price \in Prices, NEW qty \in Nat
  PROVE  Report(o, status, price, qty) \in Event
BY DEF Report, Order, Event

LEMMA ReducedType ==
  ASSUME NEW o \in Order, NEW q \in Nat, q <= o.qty
  PROVE  /\ [o EXCEPT !.qty = o.qty - q] \in Order
         /\ [o EXCEPT !.qty = o.qty - q].qty = o.qty - q
         /\ [o EXCEPT !.qty = o.qty - q].side = o.side
         /\ [o EXCEPT !.qty = o.qty - q].price = o.price
         /\ [o EXCEPT !.qty = o.qty - q].tif = o.tif
BY DEF Order

-----------------------------------------------------------------------------
(* Type correctness, step by step. *)

LEMMA TypeStep == TypeOK /\ [Next]_vars => TypeOK'
<1> SUFFICES ASSUME TypeOK, [Next]_vars PROVE TypeOK'
  OBVIOUS
<1> USE BookAssumption DEF TypeOK
<1>1. CASE Arrive
  <2>1. PICK c \in Inputs : Accept(c)
    BY <1>1 DEF Arrive
  <2>2. NewOrder(c, Len(sent)) \in Order
    BY <2>1, NewOrderType, BookAssumption
  <2>3. QED BY <2>1, <2>2 DEF Accept, bookVars
<1>2. CASE StartBatch
  BY <1>2 DEF StartBatch, bookVars
<1>3. CASE SkipInvalid
  BY <1>3 DEF SkipInvalid, AtNextMessage, bookVars
<1>4. CASE BeginMatch
  BY <1>4 DEF BeginMatch, AtNextMessage, bookVars
<1>5. CASE EraseLevel
  BY <1>5 DEF EraseLevel
<1>6. CASE EndFilled
  BY <1>6 DEF EndFilled, Return, bookVars
<1>7. CASE CancelRemainder
  <2>1. taker \in Order
    BY <1>7 DEF CancelRemainder, LoopDone
  <2>2. Report(taker, "Cancelled", taker.price, taker.qty) \in Event
    BY <2>1, ReportType DEF Order, OrderStatus
  <2>3. QED BY <1>7, <2>2 DEF CancelRemainder, Return, bookVars
<1>8. CASE RestRemainder
  <2>1. taker \in Order
    BY <1>8 DEF RestRemainder, LoopDone
  <2>2. Report(taker, "Added", taker.price, taker.qty) \in Event
    BY <2>1, ReportType DEF Order, OrderStatus
  <2>3. taker.side \in Side /\ taker.price \in Prices
    BY <2>1 DEF Order
  <2>4. levels' \in [Side -> SUBSET Prices]
    BY <1>8, <2>3 DEF RestRemainder
  <2>5. AddOrder(resting[taker.side][taker.price], taker) \subseteq Order
    BY <2>1, <2>3, AddOrderBounds
  <2>6. resting' \in [Side -> [Prices -> SUBSET Order]]
    BY <1>8, <2>3, <2>5 DEF RestRemainder
  <2>7. QED BY <1>8, <2>2, <2>4, <2>6 DEF RestRemainder, Return
<1>9. CASE PushEvent
  BY <1>9 DEF PushEvent, bookVars
<1>10. CASE EndBatch
  BY <1>10 DEF EndBatch, bookVars
<1>11. CASE Trade
  <2> DEFINE opp == Opposite(taker.side)
  <2>1. taker \in Order
    BY <1>11 DEF Trade
  <2>2. taker.side \in Side /\ opp \in Side
    BY <2>1, SidesOpposed DEF Order
  <2>3. PICK p \in Prices : \E cur \in resting[opp][p] :
          LET q == Smaller(taker.qty, cur.qty)
          IN  /\ taker' = [taker EXCEPT !.qty = @ - q]
              /\ resting' = [resting EXCEPT ![opp][p] = LevelAfter(@, cur, q)]
              /\ fills' = fills \o <<TakerReport(q, p), MakerReport(cur, q)>>
    BY <1>11 DEF Trade
  <2>4. PICK cur \in resting[opp][p] :
          LET q == Smaller(taker.qty, cur.qty)
          IN  /\ taker' = [taker EXCEPT !.qty = @ - q]
              /\ resting' = [resting EXCEPT ![opp][p] = LevelAfter(@, cur, q)]
              /\ fills' = fills \o <<TakerReport(q, p), MakerReport(cur, q)>>
    BY <2>3
  <2> DEFINE q == Smaller(taker.qty, cur.qty)
  <2>5. resting[opp][p] \subseteq Order
    BY <2>2
  <2>6. cur \in Order
    BY <2>5
  <2>7. q \in Nat /\ q <= taker.qty /\ q <= cur.qty
    BY <2>1, <2>6, SmallerBounds DEF Order
  <2>8. taker' \in Order
    BY <2>1, <2>4, <2>7, ReducedType
  <2>9. LevelAfter(resting[opp][p], cur, q) \subseteq Order
    BY <2>5, <2>6, <2>7, LevelAfterBounds, ReducedType
  <2>10. resting' \in [Side -> [Prices -> SUBSET Order]]
    BY <2>2, <2>4, <2>9
  <2>11. TakerReport(q, p) \in Event
    BY <2>1, <2>7, ReportType DEF TakerReport, OrderStatus
  <2>12. MakerReport(cur, q) \in Event
    BY <2>6, <2>7, ReportType DEF MakerReport, OrderStatus, Order
  <2>13. fills' \in Seq(Event)
    BY <2>4, <2>11, <2>12
  <2>14. QED BY <1>11, <2>8, <2>10, <2>13 DEF Trade
<1>12. CASE UNCHANGED vars
  BY <1>12 DEF vars
<1>13. QED
  BY <1>1, <1>2, <1>3, <1>4, <1>5, <1>6, <1>7, <1>8, <1>9, <1>10, <1>11, <1>12
     DEF Next, Process, Frame

-----------------------------------------------------------------------------
(* The three other parts of the invariant, step by step.  Only three       *)
(* actions touch the book: EraseLevel, RestRemainder and Trade.            *)

\* What a trade does, with its level and resting order named.
LEMMA TradeFacts ==
  ASSUME Inv, Trade
  PROVE  \E p \in Prices : \E cur \in Order : \E q \in Nat :
           /\ taker \in Order
           /\ p \in levels[Opposite(taker.side)]
           /\ cur \in resting[Opposite(taker.side)][p]
           /\ 0 < q /\ q <= taker.qty /\ q <= cur.qty
           /\ taker' = [taker EXCEPT !.qty = taker.qty - q]
           /\ resting' = [resting EXCEPT ![Opposite(taker.side)][p] =
                            LevelAfter(resting[Opposite(taker.side)][p], cur, q)]
           /\ levels' = levels
<1> USE DEF Inv
<1> DEFINE opp == Opposite(taker.side)
<1>1. taker \in Order
  BY DEF Trade, TypeOK
<1>2. opp \in Side
  BY <1>1, SidesOpposed DEF Order
<1>3. PICK p \in Prices : AtLevel(p) /\ \E cur \in resting[opp][p] :
        LET q == Smaller(taker.qty, cur.qty)
        IN  /\ taker' = [taker EXCEPT !.qty = @ - q]
            /\ resting' = [resting EXCEPT ![opp][p] = LevelAfter(@, cur, q)]
  BY DEF Trade
<1>4. PICK cur \in resting[opp][p] :
        /\ taker' = [taker EXCEPT !.qty = taker.qty - Smaller(taker.qty, cur.qty)]
        /\ resting' = [resting EXCEPT ![opp][p] =
                         LevelAfter(@, cur, Smaller(taker.qty, cur.qty))]
  BY <1>3
<1> DEFINE q == Smaller(taker.qty, cur.qty)
<1>5. resting \in [Side -> [Prices -> SUBSET Order]]
  BY DEF TypeOK
<1>6. resting' = [resting EXCEPT ![opp][p] = LevelAfter(resting[opp][p], cur, q)]
  BY <1>2, <1>4, <1>5
<1>7. cur \in Order /\ cur.qty > 0
  BY <1>2, <1>3, <1>4, <1>5 DEF BookWellFormed
<1>8. q \in Nat /\ 0 < q /\ q <= taker.qty /\ q <= cur.qty
  BY <1>1, <1>7, SmallerBounds DEF Order, Trade
<1>9. p \in levels[opp]
  BY <1>3 DEF AtLevel
<1>10. levels' = levels
  BY DEF Trade
<1>11. QED BY <1>1, <1>3, <1>4, <1>6, <1>7, <1>8, <1>9, <1>10

\* What resting the remainder does.
LEMMA RestFacts ==
  ASSUME Inv, RestRemainder
  PROVE  /\ taker \in Order
         /\ taker.qty > 0 /\ taker.qty <= MaxQuantity /\ taker.tif = "GTC"
         /\ \A p \in levels[Opposite(taker.side)] : ~Crosses(taker, p)
         /\ \A p \in levels[Opposite(taker.side)] :
              resting[Opposite(taker.side)][p] # {}
         /\ levels' = [levels EXCEPT ![taker.side] = levels[taker.side] \union {taker.price}]
         /\ resting' = [resting EXCEPT ![taker.side][taker.price] =
                          AddOrder(resting[taker.side][taker.price], taker)]
         /\ taker' = NoOrder
<1> USE DEF Inv
<1>1. taker \in Order
  BY DEF RestRemainder, LoopDone, TypeOK
<1>2. taker.side \in Side /\ taker.price \in Prices /\ taker.tif \in TimeInForce
  BY <1>1 DEF Order
<1>3. taker.qty > 0 /\ taker.qty <= MaxQuantity
  BY <1>1, BookAssumption DEF RestRemainder, LoopDone, TakerBounded
<1>4. taker.tif = "GTC"
  BY <1>2 DEF RestRemainder, TimeInForce
<1>5. \A p \in levels[Opposite(taker.side)] : ~Crosses(taker, p)
  BY <1>1, <1>3 DEF RestRemainder, LoopDone, Order
<1>6. \A p \in levels[Opposite(taker.side)] : resting[Opposite(taker.side)][p] # {}
  BY DEF RestRemainder, LoopDone, StaleLevel
<1>7. /\ levels' = [levels EXCEPT ![taker.side] = levels[taker.side] \union {taker.price}]
      /\ resting' = [resting EXCEPT ![taker.side][taker.price] =
                       AddOrder(resting[taker.side][taker.price], taker)]
  BY <1>2 DEF RestRemainder, TypeOK
<1>8. taker' = NoOrder
  BY DEF RestRemainder, Return
<1>9. QED BY <1>1, <1>3, <1>4, <1>5, <1>6, <1>7, <1>8

\* The order in match()'s hand only shrinks.
LEMMA TakerBoundedStep == Inv /\ [Next]_vars => TakerBounded'
<1> SUFFICES ASSUME Inv, [Next]_vars PROVE TakerBounded'
  OBVIOUS
<1> USE DEF Inv
<1>1. CASE BeginMatch
  <2>1. ValidateOrder(taker')
    BY <1>1 DEF BeginMatch
  <2>2. QED BY <2>1 DEF ValidateOrder, TakerBounded
<1>2. CASE Trade
  <2>1. PICK q \in Nat : /\ taker \in Order
                         /\ q <= taker.qty
                         /\ taker' = [taker EXCEPT !.qty = taker.qty - q]
    BY <1>2, TradeFacts
  <2>2. taker'.qty = taker.qty - q /\ taker.qty \in Nat
    BY <2>1, ReducedType DEF Order
  <2>3. taker # NoOrder
    BY <1>2 DEF Trade
  <2>4. QED BY <2>1, <2>2, <2>3, OrdersAssumption DEF TakerBounded
<1>3. CASE taker' = NoOrder
  BY <1>3 DEF TakerBounded
<1>4. CASE taker' = taker
  BY <1>4 DEF TakerBounded
<1>5. QED
  BY <1>1, <1>2, <1>3, <1>4
     DEF Next, Process, Frame, Arrive, Accept, StartBatch, SkipInvalid, EraseLevel, EndFilled,
         CancelRemainder, RestRemainder, Return, PushEvent, EndBatch, bookVars, vars

\* Steps that leave the book and the order in hand alone, or return from match()
\* when the loop is over, keep the book as it was.
LEMMA BookStep ==
  ASSUME Inv, [Next]_vars
  PROVE  \/ EraseLevel
         \/ RestRemainder
         \/ Trade
         \/ UNCHANGED <<levels, resting>> /\ taker' = taker
         \/ UNCHANGED <<levels, resting>> /\ taker = NoOrder
         \/ UNCHANGED <<levels, resting>> /\ LoopDone
BY DEF Next, Process, Frame, Arrive, Accept, StartBatch, SkipInvalid, BeginMatch, AtNextMessage,
       EndFilled, CancelRemainder, PushEvent, EndBatch, bookVars, vars

LEMMA UncrossedStep == Inv /\ [Next]_vars => BookUncrossed'
<1> SUFFICES ASSUME Inv, [Next]_vars PROVE BookUncrossed'
  OBVIOUS
<1> USE DEF Inv
<1>1. CASE levels' = levels
  BY <1>1 DEF BookUncrossed
<1>2. CASE EraseLevel
  <2>1. \A s \in Side : levels'[s] \subseteq levels[s]
    BY <1>2 DEF EraseLevel, TypeOK
  <2>2. QED BY <2>1 DEF BookUncrossed, Side
<1>3. CASE RestRemainder
  <2>1. /\ taker \in Order
        /\ \A p \in levels[Opposite(taker.side)] : ~Crosses(taker, p)
        /\ levels' = [levels EXCEPT ![taker.side] = levels[taker.side] \union {taker.price}]
    BY <1>3, RestFacts
  <2>2. levels \in [Side -> SUBSET Prices]
    BY DEF TypeOK
  <2>3. taker.side \in Side /\ taker.price \in Nat
    BY <2>1, OrdersAssumption DEF Order
  <2>4. SUFFICES ASSUME NEW b \in levels'["buy"], NEW a \in levels'["sell"]
                 PROVE  b < a
    BY DEF BookUncrossed
  <2>5. CASE taker.side = "buy"
    <3>1. a \in levels["sell"] /\ (b \in levels["buy"] \/ b = taker.price)
      BY <2>1, <2>2, <2>4, <2>5 DEF Side
    <3>2. a \in Nat /\ ~(a <= taker.price)
      BY <2>1, <2>2, <2>5, <3>1, OrdersAssumption DEF Crosses, Opposite, Side
    <3>3. QED BY <2>3, <3>1, <3>2 DEF BookUncrossed
  <2>6. CASE taker.side = "sell"
    <3>1. b \in levels["buy"] /\ (a \in levels["sell"] \/ a = taker.price)
      BY <2>1, <2>2, <2>4, <2>6 DEF Side
    <3>2. b \in Nat /\ ~(b >= taker.price)
      BY <2>1, <2>2, <2>6, <3>1, OrdersAssumption DEF Crosses, Opposite, Side
    <3>3. QED BY <2>3, <3>1, <3>2 DEF BookUncrossed
  <2>7. QED BY <2>3, <2>5, <2>6 DEF Side
<1>4. CASE Trade
  BY <1>1, <1>4 DEF Trade
<1>5. QED BY <1>1, <1>2, <1>3, <1>4, BookStep

\* What BookWellFormed asks of one resting order.
Proper(o, s, p) ==
  o.side = s /\ o.price = p /\ o.tif = "GTC" /\ 0 < o.qty /\ o.qty <= MaxQuantity

LEMMA WellFormedStep == Inv /\ [Next]_vars => BookWellFormed'
<1> SUFFICES ASSUME Inv, [Next]_vars PROVE BookWellFormed'
  OBVIOUS
<1> USE DEF Inv
<1>1. /\ levels \in [Side -> SUBSET Prices]
      /\ resting \in [Side -> [Prices -> SUBSET Order]]
  BY DEF TypeOK
<1>2. /\ \A s \in Side, p \in Prices : resting[s][p] # {} => p \in levels[s]
      /\ \A s \in Side, p \in Prices : \A o \in resting[s][p] : Proper(o, s, p)
      /\ \A s \in Side : \A p \in levels[s] :
           resting[s][p] = {} => taker # NoOrder /\ s = Opposite(taker.side)
  BY DEF BookWellFormed, Proper
<1>3. SUFFICES
        /\ \A s \in Side, p \in Prices : resting'[s][p] # {} => p \in levels'[s]
        /\ \A s \in Side, p \in Prices : \A o \in resting'[s][p] : Proper(o, s, p)
        /\ \A s \in Side : \A p \in levels'[s] :
             resting'[s][p] = {} => taker' # NoOrder /\ s = Opposite(taker'.side)
  BY DEF BookWellFormed, Proper
<1>4. CASE UNCHANGED <<levels, resting>> /\ taker' = taker
  BY <1>2, <1>4
<1>5. CASE UNCHANGED <<levels, resting>> /\ taker = NoOrder
  BY <1>2, <1>5
<1>6. CASE UNCHANGED <<levels, resting>> /\ LoopDone
  <2>1. \A s \in Side : \A p \in levels[s] : resting[s][p] # {}
    BY <1>2, <1>6 DEF LoopDone, StaleLevel
  <2>2. QED BY <1>2, <1>6, <2>1
<1>7. CASE EraseLevel
  <2>1. taker \in Order /\ taker' = taker /\ resting' = resting
    BY <1>7 DEF EraseLevel, TypeOK
  <2>2. Opposite(taker.side) \in Side
    BY <2>1, SidesOpposed DEF Order
  <2>3. PICK p \in levels[Opposite(taker.side)] :
          /\ resting[Opposite(taker.side)][p] = {}
          /\ levels' = [levels EXCEPT ![Opposite(taker.side)] =
                          levels[Opposite(taker.side)] \ {p}]
    BY <1>1, <1>7, <2>2 DEF EraseLevel
  <2>4. \A s \in Side : /\ levels'[s] \subseteq levels[s]
                        /\ \A x \in levels[s] : resting[s][x] # {} => x \in levels'[s]
    BY <1>1, <2>2, <2>3
  <2>5. QED BY <1>2, <2>1, <2>4
<1>8. CASE RestRemainder
  <2> DEFINE side == taker.side
             price == taker.price
             new == AddOrder(resting[side][price], taker)
  <2>1. /\ taker \in Order
        /\ taker.qty > 0 /\ taker.qty <= MaxQuantity /\ taker.tif = "GTC"
        /\ \A p \in levels[Opposite(side)] : resting[Opposite(side)][p] # {}
        /\ levels' = [levels EXCEPT ![side] = levels[side] \union {price}]
        /\ resting' = [resting EXCEPT ![side][price] = new]
    BY <1>8, RestFacts
  <2>2. side \in Side /\ price \in Prices
    BY <2>1 DEF Order
  <2>3. new \subseteq resting[side][price] \union {taker} /\ new # {}
    BY AddOrderBounds
  <2> HIDE DEF new
  <2>4. \A s \in Side, p \in Prices :
          IF s = side /\ p = price THEN resting'[s][p] = new /\ p \in levels'[s]
                                   ELSE /\ resting'[s][p] = resting[s][p]
                                        /\ p \in levels'[s] <=> p \in levels[s]
    BY <1>1, <2>1, <2>2
  <2>5. Proper(taker, side, price)
    BY <2>1 DEF Proper, Order
  <2>6. \A s \in Side, p \in Prices : \A o \in resting'[s][p] : Proper(o, s, p)
    BY <1>2, <2>2, <2>3, <2>4, <2>5
  <2>7. \A s \in Side : \A p \in levels[s] : resting[s][p] # {}
    BY <1>2, <2>1, <2>2, SidesOpposed
  <2>8. \A s \in Side : levels'[s] \subseteq Prices
    BY <1>1, <2>1, <2>2
  <2>9. \A s \in Side : \A p \in levels'[s] : resting'[s][p] # {}
    BY <2>3, <2>4, <2>7, <2>8
  <2>10. QED BY <1>2, <2>4, <2>6, <2>9
<1>9. CASE Trade
  <2> DEFINE opp == Opposite(taker.side)
  <2>1. PICK p \in Prices, cur \in Order, q \in Nat :
           /\ taker \in Order
           /\ p \in levels[opp]
           /\ cur \in resting[opp][p]
           /\ 0 < q /\ q <= taker.qty /\ q <= cur.qty
           /\ taker' = [taker EXCEPT !.qty = taker.qty - q]
           /\ resting' = [resting EXCEPT ![opp][p] = LevelAfter(resting[opp][p], cur, q)]
           /\ levels' = levels
    BY <1>9, TradeFacts
  <2> DEFINE new == LevelAfter(resting[opp][p], cur, q)
  <2>2. opp \in Side
    BY <2>1, SidesOpposed DEF Order
  <2>3. Proper(cur, opp, p)
    BY <1>2, <2>1, <2>2
  <2>4. cur.qty # q => Proper([cur EXCEPT !.qty = cur.qty - q], opp, p)
    <3>1. SUFFICES ASSUME cur.qty # q
                   PROVE  Proper([cur EXCEPT !.qty = cur.qty - q], opp, p)
      OBVIOUS
    <3> DEFINE reduced == [cur EXCEPT !.qty = cur.qty - q]
    <3>2. /\ reduced.qty = cur.qty - q
          /\ reduced.side = cur.side
          /\ reduced.price = cur.price
          /\ reduced.tif = cur.tif
      BY <2>1, ReducedType
    <3>3. cur.qty \in Nat /\ 0 < cur.qty - q /\ cur.qty - q <= cur.qty
      BY <2>1, <3>1 DEF Order
    <3> HIDE DEF reduced
    <3>4. Proper(reduced, opp, p)
      BY <2>3, <3>2, <3>3, OrdersAssumption DEF Proper
    <3>5. QED BY <3>4 DEF reduced
  <2>5. \A o \in new : Proper(o, opp, p)
    BY <1>2, <2>1, <2>2, <2>4, LevelAfterBounds
  <2>6. \A s \in Side, x \in Prices :
          resting'[s][x] = IF s = opp /\ x = p THEN new ELSE resting[s][x]
    BY <1>1, <2>1, <2>2
  <2> HIDE DEF new
  <2>7. \A s \in Side, x \in Prices : resting'[s][x] # {} => x \in levels'[s]
    BY <1>2, <2>1, <2>6
  <2>8. \A s \in Side, x \in Prices : \A o \in resting'[s][x] : Proper(o, s, x)
    BY <1>2, <2>5, <2>6
  <2>9. taker' # NoOrder /\ taker'.side = taker.side
    BY <2>1, ReducedType, BookAssumption
  <2>10. \A s \in Side : \A x \in levels'[s] : resting'[s][x] = {} => s = opp
    BY <1>1, <1>2, <2>1, <2>6
  <2>11. QED BY <2>7, <2>8, <2>9, <2>10
<1>10. QED BY <1>4, <1>5, <1>6, <1>7, <1>8, <1>9, BookStep

-----------------------------------------------------------------------------
(* The theorems. *)

LEMMA Invariance == Spec => []Inv
<1>1. Inv /\ [Next]_vars => Inv'
  <2>1. Inv /\ [Next]_vars => TypeOK'
    BY TypeStep DEF Inv
  <2>2. QED
    BY <2>1, WellFormedStep, UncrossedStep, TakerBoundedStep DEF Inv
<1>2. QED BY InitInv, <1>1, PTL DEF Spec

\* Every variable of the book, of the batch and of match() keeps its C++ type:
\* in particular no quantity ever goes below zero.
THEOREM TypeCorrect == Spec => []TypeOK
<1>1. Inv => TypeOK
  BY DEF Inv
<1>2. QED BY <1>1, Invariance, PTL

\* The best bid stays below the best ask, in the middle of a match as well, so the
\* spread a quote thread computes from one such state is positive.
THEOREM NeverCrossed == Spec => []BookUncrossed
<1>1. Inv => BookUncrossed
  BY DEF Inv
<1>2. QED BY <1>1, Invariance, PTL

\* The maps hold a level for every resting order and, once match() returns, nothing
\* but levels with orders in them, each order live, on its side and at its price.
THEOREM AlwaysWellFormed == Spec => []BookWellFormed
<1>1. Inv => BookWellFormed
  BY DEF Inv
<1>2. QED BY <1>1, Invariance, PTL

-----------------------------------------------------------------------------
(* A log that grows by an event. *)

\* `log` says of order `id` that it is `status`.
Says(log, id, status) ==
  \E k \in 1..Len(log) : log[k].id = id /\ log[k].status = status

LEMMA AppendFacts ==
  ASSUME NEW log \in Seq(Event), NEW e \in Event
  PROVE  /\ Append(log, e) \in Seq(Event)
         /\ Len(log) \in Nat
         /\ Len(Append(log, e)) = Len(log) + 1
         /\ \A k \in 1..Len(log) : Append(log, e)[k] = log[k]
         /\ Append(log, e)[Len(log) + 1] = e
         /\ 1..Len(log) + 1 = 1..Len(log) \union {Len(log) + 1}
         /\ Len(log) + 1 \notin 1..Len(log)
OBVIOUS

LEMMA SaysAppend ==
  ASSUME NEW log \in Seq(Event), NEW e \in Event, NEW id, NEW status
  PROVE  Says(Append(log, e), id, status)
           <=> Says(log, id, status) \/ (e.id = id /\ e.status = status)
<1> DEFINE z == Append(log, e)
           n == Len(log)
<1>1. /\ Len(z) = n + 1 /\ 1..n + 1 = 1..n \union {n + 1}
      /\ \A k \in 1..n : z[k] = log[k]
      /\ z[n + 1] = e
  BY AppendFacts
<1>2. Says(z, id, status) <=> \E k \in 1..n \union {n + 1} : z[k].id = id /\ z[k].status = status
  BY <1>1 DEF Says
<1> HIDE DEF z
<1>3. QED BY <1>1, <1>2 DEF Says, z

\* LifecycleOrdered of any log.
Ordered(log) ==
  \A j, k \in 1..Len(log) :
    j < k /\ log[j].id = log[k].id =>
      /\ log[j].status \notin {"Filled", "Cancelled"}
      /\ log[j].status = "Added" => log[k].status # "Added"

LEMMA OrderedAppend ==
  ASSUME NEW log \in Seq(Event), NEW e \in Event, Ordered(log),
         ~Says(log, e.id, "Filled"), ~Says(log, e.id, "Cancelled"),
         e.status = "Added" => ~Says(log, e.id, "Added")
  PROVE  Ordered(Append(log, e))
<1> DEFINE z == Append(log, e)
           n == Len(log)
<1>1. /\ n \in Nat /\ Len(z) = n + 1
      /\ \A k \in 1..n : z[k] = log[k]
      /\ z[n + 1] = e
  BY AppendFacts
<1> HIDE DEF z, n
<1>2. SUFFICES ASSUME NEW j \in 1..Len(z), NEW k \in 1..Len(z), j < k, z[j].id = z[k].id
               PROVE  /\ z[j].status \notin {"Filled", "Cancelled"}
                      /\ z[j].status = "Added" => z[k].status # "Added"
  BY DEF Ordered, z
<1>3. j \in 1..n /\ (k \in 1..n \/ k = n + 1)
  BY <1>1, <1>2
<1>4. CASE k \in 1..n
  BY <1>1, <1>2, <1>3, <1>4 DEF Ordered, n
<1>5. CASE k = n + 1
  BY <1>1, <1>2, <1>3, <1>5 DEF Says, n
<1>6. QED BY <1>3, <1>4, <1>5

-----------------------------------------------------------------------------
(* How the log of a book grows. *)

LEMMA LogType == TypeOK => Log \in Seq(Event)
BY DEF TypeOK, Log

\* The same steps as TradeFacts, with the events.
TradeOf(p, cur, q) ==
  /\ taker \in Order /\ taker.qty > 0
  /\ p \in levels[Opposite(taker.side)]
  /\ cur \in resting[Opposite(taker.side)][p]
  /\ 0 < q /\ q <= taker.qty /\ q <= cur.qty
  /\ taker' = [taker EXCEPT !.qty = taker.qty - q]
  /\ resting' = [resting EXCEPT ![Opposite(taker.side)][p] =
                   LevelAfter(resting[Opposite(taker.side)][p], cur, q)]
  /\ levels' = levels
  /\ UNCHANGED <<incoming, sent>>
  /\ Log' = Append(Append(Log, TakerReport(q, p)), MakerReport(cur, q))

LEMMA ConcatAppend ==
  ASSUME NEW s \in Seq(Event), NEW t \in Seq(Event), NEW e \in Event
  PROVE  s \o Append(t, e) = Append(s \o t, e)
OBVIOUS

LEMMA ConcatPair ==
  ASSUME NEW s \in Seq(Event), NEW d \in Event, NEW e \in Event
  PROVE  s \o <<d, e>> = Append(Append(s, d), e)
OBVIOUS

LEMMA ConcatHead ==
  ASSUME NEW s \in Seq(Event), NEW t \in Seq(Event), t # <<>>
  PROVE  Append(s, Head(t)) \o Tail(t) = s \o t
OBVIOUS

LEMMA ConcatEmpty ==
  ASSUME NEW s \in Seq(Event)
  PROVE  s \o <<>> = s
OBVIOUS

LEMMA TradeEvents ==
  ASSUME Inv, Trade
  PROVE  \E p \in Prices : \E cur \in Order : \E q \in Nat : TradeOf(p, cur, q)
<1> USE DEF Inv
<1> DEFINE opp == Opposite(taker.side)
<1>1. taker \in Order /\ taker.qty > 0
  BY DEF Trade, TypeOK
<1>2. opp \in Side
  BY <1>1, SidesOpposed DEF Order
<1>3. PICK p \in Prices : AtLevel(p) /\ \E cur \in resting[opp][p] :
        LET q == Smaller(taker.qty, cur.qty)
        IN  /\ taker' = [taker EXCEPT !.qty = @ - q]
            /\ resting' = [resting EXCEPT ![opp][p] = LevelAfter(@, cur, q)]
            /\ fills' = fills \o <<TakerReport(q, p), MakerReport(cur, q)>>
  BY DEF Trade
<1>4. PICK cur \in resting[opp][p] :
        LET q == Smaller(taker.qty, cur.qty)
        IN  /\ taker' = [taker EXCEPT !.qty = @ - q]
            /\ resting' = [resting EXCEPT ![opp][p] = LevelAfter(@, cur, q)]
            /\ fills' = fills \o <<TakerReport(q, p), MakerReport(cur, q)>>
  BY <1>3
<1> DEFINE q == Smaller(taker.qty, cur.qty)
           made == TakerReport(q, p)
           given == MakerReport(cur, q)
<1>5. resting \in [Side -> [Prices -> SUBSET Order]]
  BY DEF TypeOK
<1>6. resting' = [resting EXCEPT ![opp][p] = LevelAfter(resting[opp][p], cur, q)]
  BY <1>2, <1>4, <1>5
<1>7. cur \in Order /\ cur.qty > 0
  BY <1>2, <1>3, <1>4, <1>5 DEF BookWellFormed
<1>8. q \in Nat /\ 0 < q /\ q <= taker.qty /\ q <= cur.qty
  BY <1>1, <1>7, SmallerBounds DEF Order
<1>9. /\ p \in levels[opp] /\ cur \in resting[opp][p]
      /\ UNCHANGED <<levels, incoming, pending, published, sent>>
  BY <1>3 DEF AtLevel, Trade
<1>10. made \in Event /\ given \in Event
  BY <1>1, <1>7, <1>8, ReportType DEF TakerReport, MakerReport, OrderStatus, Order
<1>11. fills' = fills \o <<made, given>> /\ taker' = [taker EXCEPT !.qty = taker.qty - q]
  BY <1>4
<1> HIDE DEF q, made, given
<1>12. /\ fills \in Seq(Event) /\ published \o pending \in Seq(Event)
       /\ Append(fills, made) \in Seq(Event)
  BY <1>10 DEF TypeOK
<1>13. fills' = Append(Append(fills, made), given)
  BY <1>10, <1>11, <1>12, ConcatPair
<1>14. Log' = Append(Append(Log, made), given)
  <2> DEFINE out == published \o pending
  <2>1. Log = out \o fills /\ Log' = out \o fills'
    BY <1>9 DEF Log
  <2> HIDE DEF out
  <2>2. out \o fills' = Append(out \o Append(fills, made), given)
    BY <1>10, <1>12, <1>13, ConcatAppend DEF out
  <2>3. out \o Append(fills, made) = Append(out \o fills, made)
    BY <1>10, <1>12, ConcatAppend DEF out
  <2>4. QED BY <2>1, <2>2, <2>3
<1>15. TradeOf(p, cur, q)
  BY <1>1, <1>6, <1>8, <1>9, <1>11, <1>14 DEF TradeOf, made, given
<1>16. QED BY <1>7, <1>8, <1>15

\* The other steps that report something report one event, of the order in hand.
Returned(status) ==
  /\ taker \in Order /\ taker.qty > 0
  /\ taker' = NoOrder
  /\ UNCHANGED <<incoming, sent>>
  /\ Log' = Append(Log, Report(taker, status, taker.price, taker.qty))

LEMMA ReturnEvents ==
  ASSUME Inv
  PROVE  /\ EndFilled => Log' = Log
         /\ CancelRemainder => Returned("Cancelled") /\ taker.tif = "IOC"
         /\ RestRemainder => Returned("Added")
<1>1. TypeOK /\ published \in Seq(Event) /\ pending \in Seq(Event) /\ fills \in Seq(Event)
  BY DEF Inv, TypeOK
<1>2. ASSUME NEW events \in Seq(Event), Return(events)
      PROVE  Log' = (published \o pending) \o events
  <2>1. Log' = (published \o (pending \o events)) \o <<>>
    BY <1>2 DEF Return, Log
  <2>2. published \o (pending \o events) = (published \o pending) \o events
    BY <1>1, <1>2
  <2>3. (published \o pending) \o events \in Seq(Event)
    BY <1>1, <1>2
  <2>4. QED BY <2>1, <2>2, <2>3, ConcatEmpty
<1>3. EndFilled => Log' = Log
  BY <1>1, <1>2 DEF EndFilled, Log
<1>4. ASSUME NEW status \in {"Cancelled", "Added"},
             Return(Append(fills, Report(taker, status, taker.price, taker.qty))),
             taker \in Order, taker.qty > 0
      PROVE  Returned(status)
  <2> DEFINE e == Report(taker, status, taker.price, taker.qty)
             out == published \o pending
  <2>1. e \in Event
    BY <1>4, ReportType DEF Order, OrderStatus
  <2> HIDE DEF e
  <2>2. Append(fills, e) \in Seq(Event) /\ Return(Append(fills, e))
    BY <1>1, <1>4, <2>1 DEF e
  <2>3. Log' = out \o Append(fills, e) /\ Log = out \o fills
    BY <1>2, <2>2 DEF Log
  <2>4. out \in Seq(Event)
    BY <1>1
  <2> HIDE DEF out
  <2>5. Log' = Append(Log, e)
    BY <1>1, <2>1, <2>3, <2>4, ConcatAppend
  <2>6. QED BY <1>4, <2>5 DEF Returned, Return, e
<1>5. taker # NoOrder => taker \in Order
  BY <1>1 DEF TypeOK
<1>6. QED BY <1>3, <1>4, <1>5 DEF CancelRemainder, RestRemainder, LoopDone

\* All other steps leave the log as it is, the pushes to the queue too.
LEMMA QuietEvents ==
  ASSUME Inv,
         Arrive \/ StartBatch \/ SkipInvalid \/ BeginMatch \/ EraseLevel \/ EndFilled
           \/ PushEvent \/ EndBatch \/ UNCHANGED vars
  PROVE  Log' = Log
<1>1. CASE EndFilled
  BY <1>1, ReturnEvents
<1>2. CASE PushEvent
  <2>1. published \in Seq(Event) /\ pending \in Seq(Event) /\ pending # <<>>
    BY <1>2 DEF Inv, TypeOK, PushEvent
  <2>2. published' \o pending' = published \o pending
    BY <1>2, <2>1, ConcatHead DEF PushEvent
  <2>3. QED BY <1>2, <2>2 DEF PushEvent, Log
<1>3. CASE UNCHANGED <<published, pending, fills>>
  BY <1>3 DEF Log
<1>4. QED
  BY <1>1, <1>2, <1>3
     DEF Arrive, Accept, StartBatch, SkipInvalid, BeginMatch, EraseLevel, EndBatch, vars

-----------------------------------------------------------------------------
(* The book as a set of orders.  Ids tell resting orders apart, so the     *)
(* comparator of a level never takes two orders for one, and a level loses *)
(* no order by an insertion.                                               *)

Book == Resting("buy") \union Resting("sell")

LEMMA InBook ==
  ASSUME NEW o
  PROVE  o \in Book <=> \E s \in Side, p \in Prices : o \in resting[s][p]
BY DEF Book, Resting, Side

DistinctIds(S) == \A o, x \in S : o.id = x.id => o = x

LEMMA EquivalentIsSameId ==
  ASSUME NEW a \in Order, NEW b \in Order
  PROVE  Equivalent(a, b) <=> a.id = b.id /\ a.ts = b.ts
<1>1. Before(a, b) = OrderTimeBefore(a, b) /\ Before(b, a) = OrderTimeBefore(b, a)
  BY FifoAssumption DEF Before
<1>2. a.ts \in Nat /\ b.ts \in Nat /\ a.id \in Nat /\ b.id \in Nat
  BY OrdersAssumption DEF Order
<1>3. OrderTimeBefore(a, b) <=> a.ts < b.ts \/ (a.ts = b.ts /\ a.id < b.id)
  BY DEF OrderTimeBefore
<1>4. OrderTimeBefore(b, a) <=> b.ts < a.ts \/ (b.ts = a.ts /\ b.id < a.id)
  BY DEF OrderTimeBefore
<1>5. ~OrderTimeBefore(a, b) /\ ~OrderTimeBefore(b, a) <=> a.id = b.id /\ a.ts = b.ts
  BY <1>2, <1>3, <1>4
<1>6. QED BY <1>1, <1>5 DEF Equivalent

LEMMA AddOrderFresh ==
  ASSUME NEW level \in SUBSET Order, NEW o \in Order, \A x \in level : x.id # o.id
  PROVE  AddOrder(level, o) = level \union {o}
<1>1. \A x \in level : ~Equivalent(x, o)
  BY EquivalentIsSameId
<1>2. QED BY <1>1 DEF AddOrder

Reduced(o, q) == [o EXCEPT !.qty = o.qty - q]

LEMMA ReducedFields ==
  ASSUME NEW o \in Order, NEW q \in Nat, q <= o.qty
  PROVE  /\ Reduced(o, q) \in Order
         /\ Reduced(o, q).id = o.id /\ Reduced(o, q).ts = o.ts /\ Reduced(o, q).user = o.user
         /\ Reduced(o, q).side = o.side /\ Reduced(o, q).price = o.price
         /\ Reduced(o, q).tif = o.tif
         /\ Reduced(o, q).qty = o.qty - q
BY DEF Order, Reduced

LEMMA LevelAfterExact ==
  ASSUME NEW level \in SUBSET Order, DistinctIds(level), NEW cur \in level,
         NEW q \in Nat, q <= cur.qty
  PROVE  LevelAfter(level, cur, q) =
           (level \ {cur}) \union (IF cur.qty = q THEN {} ELSE {Reduced(cur, q)})
<1>1. RemoveOrder(level, cur) = level \ {cur}
  <2>1. \A x \in level : Equivalent(x, cur) <=> x = cur
    BY EquivalentIsSameId DEF DistinctIds
  <2>2. QED BY <2>1 DEF RemoveOrder
<1>2. CASE cur.qty = q
  BY <1>1, <1>2 DEF LevelAfter
<1>3. CASE cur.qty # q
  <2>1. Reduced(cur, q) \in Order /\ Reduced(cur, q).id = cur.id
    BY ReducedFields
  <2>2. \A x \in level \ {cur} : x.id # Reduced(cur, q).id
    BY <2>1 DEF DistinctIds
  <2>3. AddOrder(level \ {cur}, Reduced(cur, q)) = (level \ {cur}) \union {Reduced(cur, q)}
    BY <2>1, <2>2, AddOrderFresh
  <2>4. LevelAfter(level, cur, q) = AddOrder(RemoveOrder(level, cur), Reduced(cur, q))
    BY <1>3 DEF LevelAfter, UpdateOrder, Reduced
  <2>5. QED BY <1>1, <1>3, <2>3, <2>4
<1>4. QED BY <1>2, <1>3

\* Where a resting order stands can be read from the order.
LEMMA Placed ==
  ASSUME Inv
  PROVE  /\ \A s \in Side, p \in Prices : \A o \in resting[s][p] :
              o \in Book /\ o.side = s /\ o.price = p
         /\ \A o \in Book : /\ o \in Order /\ o.qty > 0
                            /\ o.side \in Side /\ o.price \in Prices
                            /\ o \in resting[o.side][o.price]
<1>1. \A s \in Side, p \in Prices : \A o \in resting[s][p] :
        o \in Book /\ o.side = s /\ o.price = p /\ 0 < o.qty /\ o \in Order
  BY InBook DEF Inv, BookWellFormed, TypeOK
<1>2. QED BY <1>1, InBook

LEMMA BookAfterTrade ==
  ASSUME Inv, DistinctIds(Book),
         NEW p \in Prices, NEW cur \in Order, NEW q \in Nat, TradeOf(p, cur, q)
  PROVE  /\ cur \in Book /\ cur.side = Opposite(taker.side) /\ cur.price = p
         /\ Book' = (Book \ {cur}) \union (IF cur.qty = q THEN {} ELSE {Reduced(cur, q)})
<1> DEFINE opp == Opposite(taker.side)
           left == IF cur.qty = q THEN {} ELSE {Reduced(cur, q)}
<1>1. /\ taker \in Order /\ opp \in Side /\ cur \in resting[opp][p] /\ q <= cur.qty
      /\ resting' = [resting EXCEPT ![opp][p] = LevelAfter(resting[opp][p], cur, q)]
  BY SidesOpposed DEF TradeOf, Order
<1>2. resting \in [Side -> [Prices -> SUBSET Order]]
  BY DEF Inv, TypeOK
<1>3. cur \in Book /\ cur.side = opp /\ cur.price = p
  BY <1>1, Placed
<1>4. DistinctIds(resting[opp][p])
  BY <1>1, Placed DEF DistinctIds
<1>5. LevelAfter(resting[opp][p], cur, q) = (resting[opp][p] \ {cur}) \union left
  BY <1>1, <1>2, <1>4, LevelAfterExact
<1> HIDE DEF left
<1>6. \A s \in Side, x \in Prices :
        resting'[s][x] = IF s = opp /\ x = p THEN (resting[opp][p] \ {cur}) \union left
                                             ELSE resting[s][x]
  BY <1>1, <1>2, <1>5
<1>7. \A s \in Side, x \in Prices : cur \in resting[s][x] => s = opp /\ x = p
  BY <1>3, Placed
<1>8. ASSUME NEW o PROVE o \in Book' <=> o \in (Book \ {cur}) \union left
  <2>1. o \in Book' <=> \E s \in Side, x \in Prices : o \in resting'[s][x]
    BY DEF Book, Resting, Side
  <2>2. QED BY <1>1, <1>6, <1>7, <2>1, InBook
<1>9. QED BY <1>3, <1>8 DEF left

LEMMA BookAfterRest ==
  ASSUME Inv, RestRemainder, \A o \in Book : o.id # taker.id
  PROVE  Book' = Book \union {taker}
<1>1. /\ taker \in Order
      /\ resting' = [resting EXCEPT ![taker.side][taker.price] =
                       AddOrder(resting[taker.side][taker.price], taker)]
  BY RestFacts
<1>2. taker.side \in Side /\ taker.price \in Prices
  BY <1>1 DEF Order
<1>3. resting \in [Side -> [Prices -> SUBSET Order]]
  BY DEF Inv, TypeOK
<1>4. AddOrder(resting[taker.side][taker.price], taker)
        = resting[taker.side][taker.price] \union {taker}
  BY <1>1, <1>2, <1>3, Placed, AddOrderFresh
<1>5. \A s \in Side, x \in Prices :
        resting'[s][x] = IF s = taker.side /\ x = taker.price
                         THEN resting[s][x] \union {taker} ELSE resting[s][x]
  BY <1>1, <1>2, <1>3, <1>4
<1>6. ASSUME NEW o PROVE o \in Book' <=> o \in Book \union {taker}
  <2>1. o \in Book' <=> \E s \in Side, x \in Prices : o \in resting'[s][x]
    BY DEF Book, Resting, Side
  <2>2. CASE o = taker
    BY <1>2, <1>5, <2>1, <2>2
  <2>3. CASE o # taker
    <3>1. \A s \in Side, x \in Prices : o \in resting'[s][x] <=> o \in resting[s][x]
      <4>1. SUFFICES ASSUME NEW s \in Side, NEW x \in Prices
                     PROVE  o \in resting'[s][x] <=> o \in resting[s][x]
        OBVIOUS
      <4>2. CASE s = taker.side /\ x = taker.price
        BY <1>5, <2>3, <4>2
      <4>3. CASE ~(s = taker.side /\ x = taker.price)
        BY <1>5, <4>3
      <4>4. QED BY <4>2, <4>3
    <3>2. o \in Book' <=> o \in Book
      BY <2>1, <3>1, InBook
    <3>3. QED BY <2>3, <3>2
  <2>4. QED BY <2>2, <2>3
<1>7. QED BY <1>6

-----------------------------------------------------------------------------
(* The ids of the orders. *)

\* How many orders the matching has got to; the ids below are theirs.
Reached == Len(sent) - Len(incoming)

\* Ids count the orders in the order they were sent, so those still waiting have the
\* last ones; no event, resting order or order in hand is of a waiting order; and an
\* id is on the book or in hand once at most.
IdsInStep ==
  /\ Len(incoming) <= Len(sent)
  /\ \A i \in 1..Len(sent) : sent[i].id = i - 1
  /\ \A i \in 1..Len(incoming) : incoming[i] = sent[Reached + i]
  /\ \A k \in 1..Len(Log) : Log[k].id < Reached
  /\ \A o \in Book : o.id < Reached
  /\ DistinctIds(Book)
  /\ taker # NoOrder => /\ taker.id < Reached
                       /\ \A o \in Book : o.id # taker.id

\* What was said so far fits the book: an order rests when and only when it was
\* Added and not Filled, none that rests was Cancelled, and of an order in hand with
\* something left nothing but partial fills was reported.
SaidInStep ==
  /\ Ordered(Log)
  /\ \A id \in Nat : (\E o \in Book : o.id = id)
                       <=> Says(Log, id, "Added") /\ ~Says(Log, id, "Filled")
  /\ \A o \in Book : ~Says(Log, o.id, "Cancelled")
  /\ taker # NoOrder /\ taker.qty > 0 =>
       \A status \in {"Filled", "Cancelled", "Added"} : ~Says(Log, taker.id, status)

ReportsInv == Inv /\ IdsInStep /\ SaidInStep

LEMMA IdsBelowAppend ==
  ASSUME NEW log \in Seq(Event), NEW e \in Event, NEW n \in Nat,
         \A k \in 1..Len(log) : log[k].id < n, e.id < n
  PROVE  \A k \in 1..Len(Append(log, e)) : Append(log, e)[k].id < n
<1> DEFINE z == Append(log, e)
<1>1. /\ \A k \in 1..Len(log) : z[k] = log[k]
      /\ z[Len(log) + 1] = e
      /\ 1..Len(z) = 1..Len(log) \union {Len(log) + 1}
  BY AppendFacts
<1> HIDE DEF z
<1>2. \A k \in 1..Len(z) : z[k].id < n
  BY <1>1
<1>3. QED BY <1>2 DEF z

LEMMA IdsStep == ReportsInv /\ [Next]_vars => IdsInStep'
<1> SUFFICES ASSUME ReportsInv, [Next]_vars PROVE IdsInStep'
  OBVIOUS
<1>1. /\ Inv /\ TypeOK /\ IdsInStep
      /\ sent \in Seq(Order) /\ incoming \in Seq(Order) /\ Log \in Seq(Event)
  BY LogType DEF ReportsInv, Inv, TypeOK
<1>2. Reached \in Nat /\ Len(sent) \in Nat /\ Len(incoming) \in Nat
  BY <1>1 DEF IdsInStep, Reached
<1>20. /\ \A k \in 1..Len(Log) : Log[k].id \in Int
       /\ \A o \in Book : o.id \in Int
       /\ taker # NoOrder => taker.id \in Int
  <2>1. \A e \in Event : e.id \in Int
    BY DEF Event
  <2>2. \A o \in Order : o.id \in Int
    BY DEF Order
  <2>3. \A k \in 1..Len(Log) : Log[k] \in Event
    BY <1>1
  <2>4. QED BY <1>1, <2>1, <2>2, <2>3, Placed DEF TypeOK
<1>21. /\ \A k \in 1..Len(Log) : Log[k].id < Reached
       /\ \A o \in Book : o.id < Reached
       /\ taker # NoOrder => taker.id < Reached
  BY <1>1 DEF IdsInStep
<1>3. ASSUME UNCHANGED <<sent, incoming>> PROVE Reached' = Reached
  BY <1>3 DEF Reached
<1>4. CASE Arrive
  <2>1. PICK c \in Inputs : Accept(c)
    BY <1>4 DEF Arrive
  <2> DEFINE m == NewOrder(c, Len(sent))
  <2>2. m \in Order /\ m.id = Len(sent)
    BY <1>2, <2>1, NewOrderType, BookAssumption DEF NewOrder
  <2>3. sent' = Append(sent, m) /\ incoming' = Append(incoming, m)
    BY <2>1 DEF Accept
  <2>4. Log' = Log /\ taker' = taker /\ Book' = Book
    BY <1>1, <1>4, <2>1, QuietEvents DEF Accept, bookVars, Book, Resting
  <2> HIDE DEF m
  <2>5. /\ Len(sent') = Len(sent) + 1 /\ Len(incoming') = Len(incoming) + 1
        /\ \A i \in 1..Len(sent) : sent'[i] = sent[i]
        /\ sent'[Len(sent) + 1] = m
        /\ \A i \in 1..Len(incoming) : incoming'[i] = incoming[i]
        /\ incoming'[Len(incoming) + 1] = m
    BY <1>1, <2>2, <2>3
  <2>6. Reached' = Reached
    BY <1>2, <2>5 DEF Reached
  <2>7. \A i \in 1..Len(sent') : sent'[i].id = i - 1
    <3>1. SUFFICES ASSUME NEW i \in 1..Len(sent') PROVE sent'[i].id = i - 1
      OBVIOUS
    <3>2. CASE i \in 1..Len(sent)
      BY <1>1, <2>5, <3>2 DEF IdsInStep
    <3>3. CASE i = Len(sent) + 1
      BY <1>2, <2>2, <2>5, <3>3
    <3>4. QED BY <1>2, <2>5, <3>2, <3>3
  <2>8. \A i \in 1..Len(incoming') : incoming'[i] = sent'[Reached' + i]
    <3>1. SUFFICES ASSUME NEW i \in 1..Len(incoming') PROVE incoming'[i] = sent'[Reached + i]
      BY <2>6
    <3>2. CASE i \in 1..Len(incoming)
      <4>1. Reached + i \in 1..Len(sent)
        BY <1>2, <3>2 DEF Reached
      <4>2. QED BY <1>1, <2>5, <3>2, <4>1 DEF IdsInStep
    <3>3. CASE i = Len(incoming) + 1
      <4>1. Reached + i = Len(sent) + 1
        BY <1>2, <3>3 DEF Reached
      <4>2. QED BY <2>5, <3>3, <4>1
    <3>4. QED BY <1>2, <2>5, <3>2, <3>3
  <2>9. Len(incoming') <= Len(sent')
    BY <1>1, <1>2, <2>5 DEF IdsInStep
  <2>10. QED BY <1>1, <2>4, <2>6, <2>7, <2>8, <2>9 DEF IdsInStep
\* A message is taken from the batch.
<1>5. ASSUME incoming # <<>>, incoming' = Tail(incoming), sent' = sent
      PROVE  /\ Reached' = Reached + 1
             /\ Head(incoming) \in Order /\ Head(incoming).id = Reached
             /\ Len(incoming') <= Len(sent')
             /\ \A i \in 1..Len(incoming') : incoming'[i] = sent'[Reached' + i]
  <2>1. /\ Len(incoming) > 0 /\ Len(incoming') = Len(incoming) - 1
        /\ Head(incoming) = incoming[1] /\ Head(incoming) \in Order
        /\ \A i \in 1..Len(incoming') : incoming'[i] = incoming[i + 1]
    BY <1>1, <1>5
  <2>2. Reached' = Reached + 1 /\ Len(incoming') <= Len(sent')
    BY <1>1, <1>2, <1>5, <2>1 DEF Reached, IdsInStep
  <2>3. 1 \in 1..Len(incoming) /\ Reached + 1 \in 1..Len(sent)
    BY <1>2, <2>1 DEF Reached
  <2>4. incoming[1].id = Reached
    <3>1. incoming[1] = sent[Reached + 1] /\ sent[Reached + 1].id = (Reached + 1) - 1
      BY <1>1, <2>3 DEF IdsInStep
    <3>2. QED BY <1>2, <3>1
  <2>5. ASSUME NEW i \in 1..Len(incoming') PROVE incoming'[i] = sent'[Reached' + i]
    <3>1. i + 1 \in 1..Len(incoming) /\ Reached + (i + 1) = Reached' + i
      BY <1>2, <2>1, <2>2
    <3>2. incoming[i + 1] = sent[Reached + (i + 1)]
      BY <1>1, <3>1 DEF IdsInStep
    <3>3. QED BY <1>5, <2>1, <3>1, <3>2
  <2>6. QED BY <2>1, <2>2, <2>4, <2>5
<1>6. CASE SkipInvalid
  <2>1. incoming # <<>> /\ incoming' = Tail(incoming) /\ sent' = sent
    BY <1>6 DEF SkipInvalid, AtNextMessage
  <2>2. Log' = Log /\ taker' = taker /\ Book' = Book
    BY <1>1, <1>6, QuietEvents DEF SkipInvalid, bookVars, Book, Resting
  <2>3. \A n \in Int : n < Reached => n < Reached'
    BY <1>2, <1>5, <2>1
  <2>4. /\ \A k \in 1..Len(Log) : Log[k].id < Reached'
        /\ \A o \in Book : o.id < Reached'
        /\ taker # NoOrder => taker.id < Reached'
    BY <1>20, <1>21, <2>3
  <2>5. QED BY <1>1, <1>5, <2>1, <2>2, <2>4 DEF IdsInStep
<1>7. CASE BeginMatch
  <2>1. /\ incoming # <<>> /\ incoming' = Tail(incoming) /\ sent' = sent
        /\ taker' = Head(incoming)
    BY <1>7 DEF BeginMatch, AtNextMessage
  <2>2. Log' = Log /\ Book' = Book
    BY <1>1, <1>7, QuietEvents DEF BeginMatch, bookVars, Book, Resting
  <2>3. \A n \in Int : n < Reached => n < Reached'
    BY <1>2, <1>5, <2>1
  <2>4. /\ \A k \in 1..Len(Log) : Log[k].id < Reached'
        /\ \A o \in Book : o.id < Reached'
    BY <1>20, <1>21, <2>3
  <2>5. taker'.id < Reached' /\ \A o \in Book : o.id # taker'.id
    <3>1. taker'.id = Reached /\ Reached' = Reached + 1
      BY <1>5, <2>1
    <3>2. \A o \in Book : o.id # Reached
      BY <1>1, <1>2, Placed DEF IdsInStep, Order
    <3>3. QED BY <1>2, <3>1, <3>2
  <2>6. QED BY <1>1, <1>5, <2>1, <2>2, <2>4, <2>5 DEF IdsInStep
\* The other steps take no message and bring no new id.
<1>8. ASSUME UNCHANGED <<sent, incoming>>,
             \A k \in 1..Len(Log') : Log'[k].id < Reached,
             \A o \in Book' : o.id < Reached, DistinctIds(Book'),
             taker' # NoOrder => /\ taker'.id < Reached
                                 /\ \A o \in Book' : o.id # taker'.id
      PROVE  IdsInStep'
  BY <1>1, <1>3, <1>8 DEF IdsInStep
<1>9. CASE StartBatch \/ EraseLevel \/ EndFilled \/ PushEvent \/ EndBatch \/ UNCHANGED vars
  <2>1. Log' = Log
    BY <1>1, <1>9, QuietEvents
  <2>2. UNCHANGED <<sent, incoming, resting>> /\ taker' \in {taker, NoOrder}
    BY <1>9 DEF StartBatch, EraseLevel, EndFilled, Return, PushEvent, EndBatch, bookVars, vars
  <2>3. Book' = Book
    BY <2>2 DEF Book, Resting
  <2>4. QED BY <1>1, <1>8, <2>1, <2>2, <2>3 DEF IdsInStep
<1>10. ASSUME NEW status \in OrderStatus, Returned(status)
       PROVE  /\ UNCHANGED <<sent, incoming>> /\ taker' = NoOrder
              /\ taker \in Order /\ taker.id < Reached /\ \A o \in Book : o.id # taker.id
              /\ \A k \in 1..Len(Log') : Log'[k].id < Reached
  <2> DEFINE e == Report(taker, status, taker.price, taker.qty)
  <2>1. /\ taker \in Order /\ taker # NoOrder
        /\ UNCHANGED <<sent, incoming>> /\ taker' = NoOrder
        /\ Log' = Append(Log, e)
    BY <1>10, BookAssumption DEF Returned
  <2>2. e \in Event /\ e.id = taker.id
    BY <2>1, ReportType DEF Order, Report
  <2> HIDE DEF e
  <2>3. taker.id < Reached /\ \A o \in Book : o.id # taker.id
    BY <1>1, <2>1 DEF IdsInStep
  <2>4. QED BY <1>1, <1>2, <2>1, <2>2, <2>3, IdsBelowAppend DEF IdsInStep
<1>11. CASE CancelRemainder
  <2>1. Returned("Cancelled") /\ Book' = Book
    BY <1>1, <1>11, ReturnEvents DEF CancelRemainder, bookVars, Book, Resting
  <2>2. QED BY <1>1, <1>8, <1>10, <2>1 DEF IdsInStep, OrderStatus
<1>12. CASE RestRemainder
  <2>1. Returned("Added")
    BY <1>1, <1>12, ReturnEvents
  <2>2. taker.id < Reached /\ \A o \in Book : o.id # taker.id
    BY <1>10, <2>1 DEF OrderStatus
  <2>3. Book' = Book \union {taker}
    BY <1>1, <1>12, <2>2, BookAfterRest
  <2>4. DistinctIds(Book') /\ \A o \in Book' : o.id < Reached
    BY <1>1, <2>2, <2>3 DEF IdsInStep, DistinctIds
  <2>5. QED BY <1>8, <1>10, <2>1, <2>4 DEF OrderStatus
<1>13. CASE Trade
  <2>1. PICK p \in Prices, cur \in Order, q \in Nat : TradeOf(p, cur, q)
    BY <1>1, <1>13, TradeEvents
  <2> DEFINE d == TakerReport(q, p)
             e == MakerReport(cur, q)
             left == IF cur.qty = q THEN {} ELSE {Reduced(cur, q)}
  <2>2. /\ taker \in Order /\ taker # NoOrder /\ q <= taker.qty /\ q <= cur.qty
        /\ taker' = Reduced(taker, q)
        /\ UNCHANGED <<sent, incoming>>
        /\ Log' = Append(Append(Log, d), e)
    BY <2>1, BookAssumption DEF TradeOf, Reduced
  <2>3. cur \in Book /\ Book' = (Book \ {cur}) \union left
    BY <1>1, <2>1, BookAfterTrade DEF IdsInStep
  <2>4. d \in Event /\ e \in Event /\ d.id = taker.id /\ e.id = cur.id
    BY <2>2, ReportType DEF TakerReport, MakerReport, OrderStatus, Order, Report
  <2>5. \A o \in left : o.id = cur.id
    BY <2>2, ReducedFields
  <2>6. taker'.id = taker.id
    BY <2>2, ReducedFields
  <2> HIDE DEF d, e, left
  <2>7. taker.id < Reached /\ cur.id < Reached /\ \A o \in Book : o.id # taker.id
    BY <1>1, <2>2, <2>3 DEF IdsInStep
  <2>8. \A k \in 1..Len(Log') : Log'[k].id < Reached
    <3>1. Append(Log, d) \in Seq(Event)
      BY <1>1, <2>4
    <3>2. \A k \in 1..Len(Append(Log, d)) : Append(Log, d)[k].id < Reached
      BY <1>1, <1>2, <2>4, <2>7, IdsBelowAppend DEF IdsInStep
    <3>3. QED BY <1>2, <2>2, <2>4, <2>7, <3>1, <3>2, IdsBelowAppend
  <2>9. \A o, x \in left : o = x
    BY DEF left
  <2>10. DistinctIds(Book') /\ \A o \in Book' : o.id < Reached
    <3>1. DistinctIds(Book) /\ \A o \in Book : o.id < Reached
      BY <1>1 DEF IdsInStep
    <3>2. QED BY <2>3, <2>5, <2>7, <2>9, <3>1 DEF DistinctIds
  <2>11. taker'.id < Reached /\ \A o \in Book' : o.id # taker'.id
    BY <2>3, <2>5, <2>6, <2>7
  <2>12. QED BY <1>8, <2>2, <2>8, <2>10, <2>11
<1>14. QED
  BY <1>4, <1>6, <1>7, <1>9, <1>11, <1>12, <1>13 DEF Next, Process, Frame

-----------------------------------------------------------------------------
(* What the reports say of an order. *)

\* Nothing was said of an order the matching has not got to, the next one included.
LEMMA NothingSaidYet ==
  ASSUME Inv, IdsInStep, incoming # <<>>
  PROVE  /\ Head(incoming) \in Order
         /\ Head(incoming).id = Reached
         /\ \A status : ~Says(Log, Head(incoming).id, status)
<1>1. /\ Len(sent) \in Nat /\ Len(incoming) \in Nat /\ Len(incoming) > 0
      /\ Head(incoming) = incoming[1] /\ Head(incoming) \in Order
  BY DEF Inv, TypeOK
<1>2. Reached \in Nat /\ 1 \in 1..Len(incoming) /\ Reached + 1 \in 1..Len(sent)
  BY <1>1 DEF IdsInStep, Reached
<1>3. incoming[1] = sent[Reached + 1] /\ sent[Reached + 1].id = (Reached + 1) - 1
  BY <1>2 DEF IdsInStep
<1>4. Head(incoming).id = Reached
  BY <1>1, <1>2, <1>3
<1>5. \A k \in 1..Len(Log) : Log[k].id < Reached
  BY DEF IdsInStep
<1>6. \A k \in 1..Len(Log) : Log[k].id # Reached
  BY <1>2, <1>5
<1>7. QED BY <1>1, <1>4, <1>6 DEF Says

LEMMA SaidStep == ReportsInv /\ [Next]_vars => SaidInStep'
<1> SUFFICES ASSUME ReportsInv, [Next]_vars PROVE SaidInStep'
  OBVIOUS
<1>1. Inv /\ TypeOK /\ IdsInStep /\ SaidInStep /\ Log \in Seq(Event)
  BY LogType DEF ReportsInv, Inv
<1>2. /\ Ordered(Log)
      /\ \A id \in Nat : (\E o \in Book : o.id = id)
                            <=> Says(Log, id, "Added") /\ ~Says(Log, id, "Filled")
      /\ \A o \in Book : ~Says(Log, o.id, "Cancelled")
      /\ taker # NoOrder /\ taker.qty > 0 =>
           /\ ~Says(Log, taker.id, "Filled")
           /\ ~Says(Log, taker.id, "Cancelled")
           /\ ~Says(Log, taker.id, "Added")
  BY <1>1 DEF SaidInStep
<1>3. /\ \A o \in Book : o \in Order /\ o.id \in Nat
      /\ taker # NoOrder => \A o \in Book : o.id # taker.id
      /\ DistinctIds(Book)
  BY <1>1, Placed DEF IdsInStep, Order
<1>4. SUFFICES /\ Ordered(Log')
               /\ \A id \in Nat : (\E o \in Book' : o.id = id)
                                     <=> Says(Log', id, "Added") /\ ~Says(Log', id, "Filled")
               /\ \A o \in Book' : ~Says(Log', o.id, "Cancelled")
               /\ taker' # NoOrder /\ taker'.qty > 0 =>
                    /\ ~Says(Log', taker'.id, "Filled")
                    /\ ~Says(Log', taker'.id, "Cancelled")
                    /\ ~Says(Log', taker'.id, "Added")
  BY DEF SaidInStep
<1>5. CASE Arrive \/ StartBatch \/ SkipInvalid \/ EraseLevel \/ EndFilled \/ PushEvent
             \/ EndBatch \/ UNCHANGED vars
  <2>1. Log' = Log
    BY <1>1, <1>5, QuietEvents
  <2>2. resting' = resting /\ taker' \in {taker, NoOrder}
    BY <1>5 DEF Arrive, Accept, StartBatch, SkipInvalid, EraseLevel, EndFilled, Return,
                PushEvent, EndBatch, bookVars, vars
  <2>3. Book' = Book
    BY <2>2 DEF Book, Resting
  <2>4. QED BY <1>2, <2>1, <2>2, <2>3
<1>6. CASE BeginMatch
  <2>1. incoming # <<>> /\ taker' = Head(incoming) /\ resting' = resting
    BY <1>6 DEF BeginMatch, AtNextMessage, bookVars
  <2>2. Log' = Log /\ Book' = Book
    BY <1>1, <1>6, <2>1, QuietEvents DEF Book, Resting
  <2>3. \A status : ~Says(Log, taker'.id, status)
    BY <1>1, <2>1, NothingSaidYet
  <2>4. QED BY <1>2, <2>2, <2>3
<1>7. ASSUME NEW status \in {"Cancelled", "Added"}, Returned(status)
      PROVE  /\ taker' = NoOrder
             /\ taker \in Order /\ taker # NoOrder /\ taker.qty > 0
             /\ Ordered(Log')
             /\ \A id, said : Says(Log', id, said)
                  <=> Says(Log, id, said) \/ (taker.id = id /\ status = said)
  <2> DEFINE e == Report(taker, status, taker.price, taker.qty)
  <2>1. /\ taker \in Order /\ taker # NoOrder /\ taker' = NoOrder /\ taker.qty > 0
        /\ Log' = Append(Log, e)
    BY <1>7, BookAssumption DEF Returned
  <2>2. e \in Event /\ e.id = taker.id /\ e.status = status
    BY <2>1, ReportType DEF Order, Report, OrderStatus
  <2> HIDE DEF e
  <2>3. \A id, said : Says(Log', id, said)
          <=> Says(Log, id, said) \/ (taker.id = id /\ status = said)
    BY <1>1, <2>1, <2>2, SaysAppend
  <2>4. Ordered(Log')
    BY <1>1, <1>2, <2>1, <2>2, OrderedAppend
  <2>5. QED BY <2>1, <2>3, <2>4
<1>8. CASE CancelRemainder
  <2>1. Returned("Cancelled") /\ Book' = Book
    BY <1>1, <1>8, ReturnEvents DEF CancelRemainder, bookVars, Book, Resting
  <2>2. /\ taker' = NoOrder /\ taker # NoOrder /\ Ordered(Log')
        /\ \A id, said : Says(Log', id, said)
              <=> Says(Log, id, said) \/ (taker.id = id /\ "Cancelled" = said)
    BY <1>7, <2>1
  <2>3. QED BY <1>2, <1>3, <2>1, <2>2
<1>9. CASE RestRemainder
  <2>1. Returned("Added")
    BY <1>1, <1>9, ReturnEvents
  <2>2. /\ taker' = NoOrder /\ taker # NoOrder /\ taker.qty > 0 /\ Ordered(Log')
        /\ \A id, said : Says(Log', id, said)
              <=> Says(Log, id, said) \/ (taker.id = id /\ "Added" = said)
    BY <1>7, <2>1
  <2>3. Book' = Book \union {taker}
    BY <1>1, <1>3, <1>9, <2>2, BookAfterRest
  <2>4. QED BY <1>2, <1>3, <2>2, <2>3
<1>10. CASE Trade
  <2>1. PICK p \in Prices, cur \in Order, q \in Nat : TradeOf(p, cur, q)
    BY <1>1, <1>10, TradeEvents
  <2> DEFINE d == TakerReport(q, p)
             e == MakerReport(cur, q)
             left == IF cur.qty = q THEN {} ELSE {Reduced(cur, q)}
  <2>2. /\ taker \in Order /\ taker # NoOrder /\ q <= taker.qty /\ q <= cur.qty
        /\ taker.qty > 0
        /\ taker' = Reduced(taker, q)
        /\ Log' = Append(Append(Log, d), e)
    BY <2>1, BookAssumption DEF TradeOf, Reduced
  <2>3. cur \in Book /\ Book' = (Book \ {cur}) \union left
    BY <1>1, <2>1, BookAfterTrade DEF IdsInStep
  <2>4. /\ d \in Event /\ e \in Event /\ d.id = taker.id /\ e.id = cur.id
        /\ d.status = (IF taker.qty > q THEN "PartiallyFilled" ELSE "Filled")
        /\ e.status = (IF cur.qty = q THEN "Filled" ELSE "PartiallyFilled")
    BY <2>2, ReportType DEF TakerReport, MakerReport, OrderStatus, Order, Report
  <2>5. \A o \in left : o.id = cur.id
    BY <2>2, ReducedFields
  <2>6. taker'.id = taker.id /\ taker'.qty = taker.qty - q /\ taker.qty \in Nat
    BY <2>2, ReducedFields DEF Order
  <2>7. taker.id # cur.id
    BY <1>3, <2>2, <2>3
  <2> HIDE DEF d, e
  <2>8. Append(Log, d) \in Seq(Event)
    BY <1>1, <2>4
  <2>9. \A id, said :
          /\ Says(Append(Log, d), id, said)
               <=> Says(Log, id, said) \/ (taker.id = id /\ d.status = said)
          /\ Says(Log', id, said)
               <=> Says(Append(Log, d), id, said) \/ (cur.id = id /\ e.status = said)
    BY <1>1, <2>2, <2>4, <2>8, SaysAppend, ZenonT(40)
  <2>10. Ordered(Log')
    <3>1. Ordered(Append(Log, d))
      BY <1>1, <1>2, <2>2, <2>4, OrderedAppend
    <3>2. /\ ~Says(Append(Log, d), cur.id, "Filled")
          /\ ~Says(Append(Log, d), cur.id, "Cancelled")
      BY <1>2, <1>3, <2>3, <2>7, <2>9
    <3>3. e.status # "Added"
      BY <2>4
    <3>4. QED BY <2>2, <2>4, <2>8, <3>1, <3>2, <3>3, OrderedAppend
  <2>11. ASSUME NEW id \in Nat
         PROVE  (\E o \in Book' : o.id = id)
                  <=> Says(Log', id, "Added") /\ ~Says(Log', id, "Filled")
    <3>1. CASE id = taker.id
      BY <1>2, <1>3, <2>2, <2>3, <2>4, <2>5, <2>7, <2>9, <3>1
    <3>2. CASE id = cur.id
      <4>1. (\E o \in Book' : o.id = id) <=> cur.qty # q
        BY <1>3, <2>2, <2>3, <2>5, <3>2 DEF DistinctIds, left
      <4>2. Says(Log, id, "Added") /\ ~Says(Log, id, "Filled")
        BY <1>2, <1>3, <2>3, <3>2
      <4>3. QED BY <2>4, <2>7, <2>9, <3>2, <4>1, <4>2
    <3>3. CASE id # taker.id /\ id # cur.id
      <4>1. (\E o \in Book' : o.id = id) <=> (\E o \in Book : o.id = id)
        BY <2>3, <2>5, <3>3
      <4>2. QED BY <1>2, <2>9, <3>3, <4>1
    <3>4. QED BY <3>1, <3>2, <3>3
  <2>12. ASSUME NEW o \in Book' PROVE ~Says(Log', o.id, "Cancelled")
    <3>1. \E x \in Book : x.id = o.id
      BY <2>3, <2>5
    <3>2. QED BY <1>2, <1>3, <2>2, <2>4, <2>9, <3>1
  <2>13. ASSUME taker'.qty > 0
         PROVE  /\ ~Says(Log', taker'.id, "Filled")
                /\ ~Says(Log', taker'.id, "Cancelled")
                /\ ~Says(Log', taker'.id, "Added")
    <3>1. d.status = "PartiallyFilled"
      BY <2>4, <2>6, <2>13
    <3>2. QED BY <1>2, <2>2, <2>6, <2>7, <2>9, <3>1
  <2>14. QED BY <2>10, <2>11, <2>12, <2>13
<1>11. QED
  BY <1>5, <1>6, <1>8, <1>9, <1>10 DEF Next, Process, Frame

LEMMA InitReports == Init => ReportsInv
<1> SUFFICES ASSUME Init PROVE ReportsInv
  OBVIOUS
<1>1. /\ sent = <<>> /\ incoming = <<>> /\ taker = NoOrder
      /\ published = <<>> /\ pending = <<>> /\ fills = <<>>
      /\ resting = [s \in Side |-> [p \in Prices |-> {}]]
  BY DEF Init
<1>2. Log = <<>> /\ Book = {}
  BY <1>1 DEF Log, Book, Resting, Side
<1>3. Len(Log) = 0 /\ Len(sent) = 0 /\ Len(incoming) = 0 /\ 1..0 = {}
  BY <1>1, <1>2
<1>4. IdsInStep
  BY <1>1, <1>2, <1>3 DEF IdsInStep, DistinctIds
<1>5. \A id, status : ~Says(Log, id, status)
  BY <1>3 DEF Says
<1>6. SaidInStep
  BY <1>1, <1>2, <1>3, <1>5 DEF SaidInStep, Ordered
<1>7. QED BY <1>4, <1>6, InitInv DEF ReportsInv

LEMMA ReportsInvariance == Spec => []ReportsInv
<1>1. ReportsInv /\ [Next]_vars => Inv'
  BY TypeStep, WellFormedStep, UncrossedStep, TakerBoundedStep DEF Inv, ReportsInv
<1>2. ReportsInv /\ [Next]_vars => ReportsInv'
  BY <1>1, IdsStep, SaidStep DEF ReportsInv
<1>3. QED BY InitReports, <1>2, PTL DEF Spec

\* Whatever is sent, in batches of any size: after Filled or Cancelled nothing more is
\* reported of an order, and Added is reported once at most.
THEOREM LifeAsReported == Spec => []LifecycleOrdered
<1>1. ReportsInv => LifecycleOrdered
  <2> SUFFICES ASSUME ReportsInv PROVE LifecycleOrdered
    OBVIOUS
  <2>1. Ordered(Log) /\ Log \in Seq(Event)
    BY LogType DEF ReportsInv, SaidInStep, Inv
  <2>2. DOMAIN Log = 1..Len(Log)
    BY <2>1
  <2>3. QED BY <2>1, <2>2 DEF Ordered, LifecycleOrdered
<1>2. QED BY <1>1, ReportsInvariance, PTL

\* In every state, in the middle of a match as well, the orders on the book are those
\* of which Added and not yet Filled was reported.
THEOREM BookAsReported == Spec => []ReportsMatchBook
<1>1. ReportsInv => ReportsMatchBook
  <2> SUFFICES ASSUME ReportsInv PROVE ReportsMatchBook
    OBVIOUS
  <2>1. Log \in Seq(Event) /\ sent \in Seq(Order)
    BY LogType DEF ReportsInv, Inv, TypeOK
  <2>2. DOMAIN Log = 1..Len(Log) /\ DOMAIN sent = 1..Len(sent)
    BY <2>1
  <2>3. \A i \in DOMAIN sent : sent[i].id \in Nat
    <3>1. \A i \in DOMAIN sent : sent[i] \in Order
      BY <2>1, <2>2
    <3>2. QED BY <3>1 DEF Order
  <2>4. \A id \in Nat : (\E o \in Book : o.id = id)
                         <=> Says(Log, id, "Added") /\ ~Says(Log, id, "Filled")
    BY DEF ReportsInv, SaidInStep
  <2>5. QED BY <2>2, <2>3, <2>4, ZenonT(40) DEF ReportsMatchBook, Book, Says
<1>2. QED BY <1>1, ReportsInvariance, PTL

-----------------------------------------------------------------------------
(* Totals of a log, for sets of events instead of tests. *)

QtysOf(log) == [i \in 1..Len(log) |-> log[i].qty]

TotalOf(log, E) == SumOf(QtysOf(log), {i \in 1..Len(log) : log[i] \in E})

\* Events and orders have quantities.
Quantified(log) ==
  /\ Len(log) \in Nat
  /\ \A i \in 1..Len(log) : log[i].qty \in Int

LEMMA LogsQuantified ==
  /\ \A log \in Seq(Event) : Quantified(log)
  /\ \A log \in Seq(Order) : Quantified(log)
<1>1. ASSUME NEW log \in Seq(Event) PROVE Quantified(log)
  <2>1. \A e \in Event : e.qty \in Int
    BY DEF Event
  <2>2. \A i \in 1..Len(log) : log[i] \in Event
    OBVIOUS
  <2>3. QED BY <2>1, <2>2 DEF Quantified
<1>2. ASSUME NEW log \in Seq(Order) PROVE Quantified(log)
  <2>1. \A o \in Order : o.qty \in Int
    BY DEF Order
  <2>2. \A i \in 1..Len(log) : log[i] \in Order
    OBVIOUS
  <2>3. QED BY <2>1, <2>2 DEF Quantified
<1>3. QED BY <1>1, <1>2

LEMMA QuantitiesSummable ==
  ASSUME NEW log, Quantified(log), NEW T \in SUBSET (1..Len(log))
  PROVE  Summable(QtysOf(log), T)
<1>1. \A i \in 1..Len(log) : QtysOf(log)[i] = log[i].qty /\ log[i].qty \in Int
  BY DEF QtysOf, Quantified
<1>2. IsFiniteSet(1..Len(log))
  BY FS_Interval DEF Quantified
<1>3. IsFiniteSet(T)
  BY <1>2, FS_Subset
<1>4. QED BY <1>1, <1>3 DEF Summable

LEMMA SumOfQuantities ==
  ASSUME NEW log, Quantified(log), NEW T \in SUBSET (1..Len(log))
  PROVE  MapThenSumSet(LAMBDA i : log[i].qty, T) = SumOf(QtysOf(log), T)
<1> DEFINE f == QtysOf(log)
           Fits(h) == h = [U \in SUBSET T |->
             IF U = {} THEN 0
             ELSE log[CHOOSE i \in U : TRUE].qty + h[U \ {CHOOSE i \in U : TRUE}]]
           H == CHOOSE h : Fits(h)
<1>1. MapThenSumSet(LAMBDA i : log[i].qty, T) = H[T]
  BY Zenon DEF MapThenSumSet, MapThenFoldSet
<1>2. Summable(f, T)
  BY QuantitiesSummable
<1>3. ASSUME NEW h PROVE Fits(h) <=> Adds(h, f, T)
  <2>1. ASSUME NEW U \in SUBSET T
        PROVE  (IF U = {} THEN 0
                ELSE log[CHOOSE i \in U : TRUE].qty + h[U \ {CHOOSE i \in U : TRUE}])
             = (IF U = {} THEN 0
                ELSE f[CHOOSE i \in U : TRUE] + h[U \ {CHOOSE i \in U : TRUE}])
    <3>1. CASE U = {}
      BY <3>1
    <3>2. CASE U # {}
      <4>1. (CHOOSE i \in U : TRUE) \in 1..Len(log)
        BY <3>2
      <4>2. f[CHOOSE i \in U : TRUE] = log[CHOOSE i \in U : TRUE].qty
        BY <4>1 DEF QtysOf
      <4>3. QED BY <3>2, <4>2
    <3>3. QED BY <3>1, <3>2
  <2>2. QED BY <2>1, Zenon DEF Adds
<1>4. PICK g : AddsAnyhow(g, f, T)
  BY <1>2, AddsAnyhowExists DEF Summable
<1>5. Adds(g, f, T)
  BY <1>4, AddsInOrder
<1>6. Fits(H)
  <2>1. Fits(g)
    BY <1>3, <1>5
  <2> HIDE DEF Fits
  <2>2. QED BY <2>1
<1> HIDE DEF Fits, H, f
<1>7. Adds(H, f, T)
  BY <1>3, <1>6
<1>8. SumOf(f, T) = H[T]
  BY <1>2, <1>7, SumAdds
<1>9. QED BY <1>1, <1>8 DEF f

\* A total of one more event.
LEMMA TotalAppend ==
  ASSUME NEW log \in Seq(Event), NEW e \in Event, NEW E
  PROVE  /\ TotalOf(log, E) \in Int
         /\ TotalOf(Append(log, e), E) \in Int
         /\ TotalOf(Append(log, e), E) = TotalOf(log, E) + (IF e \in E THEN e.qty ELSE 0)
<1> DEFINE z == Append(log, e)
           n == Len(log)
           T == {i \in 1..n : log[i] \in E}
           U == {i \in 1..Len(z) : z[i] \in E}
           f == QtysOf(log)
           g == QtysOf(z)
<1>1. /\ z \in Seq(Event) /\ n \in Nat /\ Len(z) = n + 1
      /\ \A i \in 1..n : z[i] = log[i]
      /\ z[n + 1] = e
      /\ 1..n + 1 = 1..n \union {n + 1}
      /\ n + 1 \notin 1..n
  BY AppendFacts
<1> HIDE DEF z, n
<1>2. T \subseteq 1..n /\ U = T \union (IF e \in E THEN {n + 1} ELSE {})
  BY <1>1
<1>3. T \in SUBSET (1..Len(z)) /\ U \in SUBSET (1..Len(z))
  BY <1>1, <1>2
<1>4. Summable(f, T) /\ Summable(g, T) /\ Summable(g, U)
  BY <1>1, <1>2, <1>3, LogsQuantified, QuantitiesSummable DEF n
<1>5. \A i \in T : f[i] = g[i]
  BY <1>1, <1>2 DEF QtysOf, n
<1>6. g[n + 1] = e.qty /\ e.qty \in Int
  BY <1>1 DEF QtysOf, Event
<1>7. TotalOf(log, E) = SumOf(f, T) /\ TotalOf(z, E) = SumOf(g, U)
  BY DEF TotalOf, n
<1> HIDE DEF T, U, f, g
<1>8. SumOf(f, T) = SumOf(g, T) /\ SumOf(g, T) \in Int
  BY <1>4, <1>5, SumSame, SumType
<1>9. CASE e \in E
  <2>1. n + 1 \notin T /\ U = T \union {n + 1}
    BY <1>1, <1>2, <1>9
  <2>2. SumOf(g, U) = g[n + 1] + SumOf(g, T)
    BY <1>4, <1>6, <2>1, SumAdd
  <2>3. QED BY <1>6, <1>7, <1>8, <1>9, <2>2 DEF z
<1>10. CASE e \notin E
  BY <1>2, <1>7, <1>8, <1>10 DEF z
<1>11. QED BY <1>9, <1>10

LEMMA TotalNone ==
  ASSUME NEW log, NEW E, \A i \in 1..Len(log) : log[i] \notin E
  PROVE  TotalOf(log, E) = 0
<1>1. {i \in 1..Len(log) : log[i] \in E} = {}
  OBVIOUS
<1>2. QED BY <1>1, SumEmpty DEF TotalOf

-----------------------------------------------------------------------------
(* The totals of BookAccounts. *)

FillsOf(id) == {e \in Event : IsFill(e) /\ e.id = id}
CancelsOf(id) == {e \in Event : e.status = "Cancelled" /\ e.id = id}
FillsAt(p, side) == {e \in Event : IsFill(e) /\ e.price = p /\ e.side = side}

LEMMA TotalsOfLog ==
  ASSUME NEW log \in Seq(Event), NEW x
  PROVE  /\ Traded(log, x) = TotalOf(log, FillsOf(x))
         /\ CancelledQty(log, x) = TotalOf(log, CancelsOf(x))
         /\ Total(log, LAMBDA e : IsFill(e) /\ e.price = x /\ e.side = "buy")
              = TotalOf(log, FillsAt(x, "buy"))
         /\ Total(log, LAMBDA e : IsFill(e) /\ e.price = x /\ e.side = "sell")
              = TotalOf(log, FillsAt(x, "sell"))
<1>1. DOMAIN log = 1..Len(log) /\ \A i \in 1..Len(log) : log[i] \in Event
  OBVIOUS
<1>2. Traded(log, x) = TotalOf(log, FillsOf(x))
  <2> DEFINE T == {i \in DOMAIN log : IsFill(log[i]) /\ log[i].id = x}
  <2>1. Traded(log, x) = MapThenSumSet(LAMBDA i : log[i].qty, T)
    BY Zenon DEF Traded, Total
  <2>2. T = {i \in 1..Len(log) : log[i] \in FillsOf(x)}
    BY <1>1 DEF FillsOf
  <2> HIDE DEF T
  <2>3. QED BY <2>1, <2>2, LogsQuantified, SumOfQuantities DEF TotalOf
<1>3. CancelledQty(log, x) = TotalOf(log, CancelsOf(x))
  <2> DEFINE T == {i \in DOMAIN log : log[i].status = "Cancelled" /\ log[i].id = x}
  <2>1. CancelledQty(log, x) = MapThenSumSet(LAMBDA i : log[i].qty, T)
    BY Zenon DEF CancelledQty, Total
  <2>2. T = {i \in 1..Len(log) : log[i] \in CancelsOf(x)}
    BY <1>1 DEF CancelsOf
  <2> HIDE DEF T
  <2>3. QED BY <2>1, <2>2, LogsQuantified, SumOfQuantities DEF TotalOf
<1>4. Total(log, LAMBDA e : IsFill(e) /\ e.price = x /\ e.side = "buy")
        = TotalOf(log, FillsAt(x, "buy"))
  <2> DEFINE T == {i \in DOMAIN log : IsFill(log[i]) /\ log[i].price = x /\ log[i].side = "buy"}
  <2>1. Total(log, LAMBDA e : IsFill(e) /\ e.price = x /\ e.side = "buy")
          = MapThenSumSet(LAMBDA i : log[i].qty, T)
    BY Zenon DEF Total
  <2>2. T = {i \in 1..Len(log) : log[i] \in FillsAt(x, "buy")}
    BY <1>1 DEF FillsAt
  <2> HIDE DEF T
  <2>3. QED BY <2>1, <2>2, LogsQuantified, SumOfQuantities DEF TotalOf
<1>5. Total(log, LAMBDA e : IsFill(e) /\ e.price = x /\ e.side = "sell")
        = TotalOf(log, FillsAt(x, "sell"))
  <2> DEFINE T == {i \in DOMAIN log : IsFill(log[i]) /\ log[i].price = x /\ log[i].side = "sell"}
  <2>1. Total(log, LAMBDA e : IsFill(e) /\ e.price = x /\ e.side = "sell")
          = MapThenSumSet(LAMBDA i : log[i].qty, T)
    BY Zenon DEF Total
  <2>2. T = {i \in 1..Len(log) : log[i] \in FillsAt(x, "sell")}
    BY <1>1 DEF FillsAt
  <2> HIDE DEF T
  <2>3. QED BY <2>1, <2>2, LogsQuantified, SumOfQuantities DEF TotalOf
<1>6. QED BY <1>2, <1>3, <1>4, <1>5

\* What rests of an order, on a book where an id is found once at most.
LEMMA SumOfOrders ==
  ASSUME NEW S, IsFiniteSet(S), \A o \in S : o.qty \in Int
  PROVE  MapThenSumSet(LAMBDA o : o.qty, S) = SumOf([o \in S |-> o.qty], S)
<1> DEFINE f == [o \in S |-> o.qty]
           Fits(h) == h = [U \in SUBSET S |->
             IF U = {} THEN 0
             ELSE (CHOOSE o \in U : TRUE).qty + h[U \ {CHOOSE o \in U : TRUE}]]
           H == CHOOSE h : Fits(h)
<1>1. MapThenSumSet(LAMBDA o : o.qty, S) = H[S]
  BY Zenon DEF MapThenSumSet, MapThenFoldSet
<1>2. Summable(f, S)
  BY DEF Summable
<1>3. ASSUME NEW h PROVE Fits(h) <=> Adds(h, f, S)
  <2>1. ASSUME NEW U \in SUBSET S
        PROVE  (IF U = {} THEN 0
                ELSE (CHOOSE o \in U : TRUE).qty + h[U \ {CHOOSE o \in U : TRUE}])
             = (IF U = {} THEN 0
                ELSE f[CHOOSE o \in U : TRUE] + h[U \ {CHOOSE o \in U : TRUE}])
    <3>1. CASE U = {}
      BY <3>1
    <3>2. CASE U # {}
      <4>1. (CHOOSE o \in U : TRUE) \in S
        BY <3>2
      <4>2. f[CHOOSE o \in U : TRUE] = (CHOOSE o \in U : TRUE).qty
        BY <4>1
      <4>3. QED BY <3>2, <4>2
    <3>3. QED BY <3>1, <3>2
  <2>2. QED BY <2>1, Zenon DEF Adds
<1>4. PICK g : AddsAnyhow(g, f, S)
  BY <1>2, AddsAnyhowExists DEF Summable
<1>5. Adds(g, f, S)
  BY <1>4, AddsInOrder
<1>6. Fits(H)
  <2>1. Fits(g)
    BY <1>3, <1>5
  <2> HIDE DEF Fits
  <2>2. QED BY <2>1
<1> HIDE DEF Fits, H, f
<1>7. Adds(H, f, S)
  BY <1>3, <1>6
<1>8. SumOf(f, S) = H[S]
  BY <1>2, <1>7, SumAdds
<1>9. QED BY <1>1, <1>8 DEF f

QtyIn(B, id) == MapThenSumSet(LAMBDA o : o.qty, {o \in B : o.id = id})

LEMMA RestingQtyInBook == ASSUME NEW id PROVE RestingQty(id) = QtyIn(Book, id)
BY Zenon DEF RestingQty, QtyIn, Book

LEMMA QtyInIs ==
  ASSUME NEW B \in SUBSET Order, DistinctIds(B), NEW id
  PROVE  /\ (\A o \in B : o.id # id) => QtyIn(B, id) = 0
         /\ \A o \in B : o.id = id => QtyIn(B, id) = o.qty
<1> DEFINE S == {o \in B : o.id = id}
           f == [o \in S |-> o.qty]
<1>1. \A o \in S : o.qty \in Int
  BY DEF Order
<1>2. CASE S = {}
  <2>1. IsFiniteSet(S)
    BY <1>2, FS_EmptySet
  <2> HIDE DEF S
  <2>2. QtyIn(B, id) = SumOf(f, S)
    BY <1>1, <2>1, SumOfOrders DEF QtyIn, S
  <2>3. SumOf(f, S) = 0
    BY <1>2, SumEmpty
  <2>4. QED BY <1>2, <2>2, <2>3 DEF S
<1>3. ASSUME NEW o \in S PROVE QtyIn(B, id) = o.qty
  <2>1. S = {o}
    BY <1>3 DEF DistinctIds
  <2>2. IsFiniteSet(S)
    BY <2>1, FS_Singleton
  <2>3. f[o] = o.qty /\ o.qty \in Int /\ S \ {o} = {}
    BY <1>1, <1>3, <2>1
  <2> HIDE DEF S
  <2>4. QtyIn(B, id) = SumOf(f, S)
    BY <1>1, <2>2, SumOfOrders DEF QtyIn, S
  <2>5. Summable(f, S)
    BY <1>1, <2>2 DEF Summable
  <2> HIDE DEF f
  <2>6. SumOf(f, S) = f[o] + SumOf(f, S \ {o})
    BY <1>3, <2>5, SumRemove
  <2>7. QED BY <2>3, <2>4, <2>6, SumEmpty
<1>4. QED BY <1>2, <1>3

-----------------------------------------------------------------------------
(* Nothing is created or lost. *)

Accounted(id) ==
  TotalOf(Log, FillsOf(id)) + TotalOf(Log, CancelsOf(id)) + QtyIn(Book, id) + InHand(id)

\* AccountsBalance, for the orders the matching has got to.
AccountsInStep ==
  /\ \A i \in 1..Reached :
       ValidateOrder(sent[i]) => sent[i].qty = Accounted(i - 1)
  /\ \A p \in Prices : TotalOf(Log, FillsAt(p, "buy")) = TotalOf(Log, FillsAt(p, "sell"))

AccountsInv == ReportsInv /\ AccountsInStep

LEMMA TotalType ==
  ASSUME NEW log \in Seq(Event), NEW E
  PROVE  TotalOf(log, E) \in Int
<1>1. {i \in 1..Len(log) : log[i] \in E} \in SUBSET (1..Len(log))
  OBVIOUS
<1>2. QED BY <1>1, LogsQuantified, QuantitiesSummable, SumType DEF TotalOf

\* What one event adds to the account of an order.
LEMMA AccountAppend ==
  ASSUME NEW log \in Seq(Event), NEW e \in Event, NEW id
  PROVE  TotalOf(Append(log, e), FillsOf(id)) + TotalOf(Append(log, e), CancelsOf(id))
           = (TotalOf(log, FillsOf(id)) + TotalOf(log, CancelsOf(id)))
               + (IF e.id = id /\ e.status # "Added" THEN e.qty ELSE 0)
<1> DEFINE f == TotalOf(log, FillsOf(id))
           c == TotalOf(log, CancelsOf(id))
           ff == TotalOf(Append(log, e), FillsOf(id))
           cc == TotalOf(Append(log, e), CancelsOf(id))
<1>1. /\ f \in Int /\ c \in Int
      /\ ff = f + (IF e \in FillsOf(id) THEN e.qty ELSE 0)
      /\ cc = c + (IF e \in CancelsOf(id) THEN e.qty ELSE 0)
  BY TotalAppend
<1>2. /\ e \in FillsOf(id) <=> e.id = id /\ e.status \in {"Filled", "PartiallyFilled"}
      /\ e \in CancelsOf(id) <=> e.id = id /\ e.status = "Cancelled"
  BY DEF FillsOf, CancelsOf, IsFill, FillStatus
<1>3. e.status \in {"Filled", "PartiallyFilled", "Added", "Cancelled"} /\ e.qty \in Int
  BY DEF Event, OrderStatus
<1> HIDE DEF f, c, ff, cc
<1>4. ff + cc = (f + c) + (IF e.id = id /\ e.status # "Added" THEN e.qty ELSE 0)
  <2>1. CASE e.id = id /\ e.status \in {"Filled", "PartiallyFilled"}
    <3>1. ff = f + e.qty /\ cc = c + 0
      BY <1>1, <1>2, <2>1
    <3>2. QED BY <1>1, <1>3, <2>1, <3>1
  <2>2. CASE e.id = id /\ e.status = "Cancelled"
    <3>1. ff = f + 0 /\ cc = c + e.qty
      BY <1>1, <1>2, <2>2
    <3>2. QED BY <1>1, <1>3, <2>2, <3>1
  <2>3. CASE e.id # id \/ e.status = "Added"
    <3>1. ff = f + 0 /\ cc = c + 0
      BY <1>1, <1>2, <2>3
    <3>2. QED BY <1>1, <2>3, <3>1
  <2>4. QED BY <1>3, <2>1, <2>2, <2>3
<1>5. QED BY <1>4 DEF f, c, ff, cc

\* What one event adds to what was reported bought or sold at a price.
LEMMA PriceAppend ==
  ASSUME NEW log \in Seq(Event), NEW e \in Event, NEW p, NEW side
  PROVE  /\ IsFill(e) /\ e.price = p /\ e.side = side =>
              TotalOf(Append(log, e), FillsAt(p, side)) = TotalOf(log, FillsAt(p, side)) + e.qty
         /\ ~(IsFill(e) /\ e.price = p /\ e.side = side) =>
              TotalOf(Append(log, e), FillsAt(p, side)) = TotalOf(log, FillsAt(p, side))
<1>1. e \in FillsAt(p, side) <=> IsFill(e) /\ e.price = p /\ e.side = side
  BY DEF FillsAt
<1>2. TotalOf(log, FillsAt(p, side)) \in Int
  BY TotalType
<1>3. QED BY <1>1, <1>2, TotalAppend

\* A step leaves the account of an order as it is; only the next order gets one.
LEMMA AccountKept ==
  ASSUME ReportsInv, [Next]_vars, NEW id \in Nat, ~(BeginMatch /\ id = Reached)
  PROVE  Accounted(id)' = Accounted(id)
<1>1. /\ Inv /\ TypeOK /\ IdsInStep /\ Log \in Seq(Event)
      /\ Book \in SUBSET Order /\ DistinctIds(Book)
  BY LogType, Placed DEF ReportsInv, Inv, IdsInStep
<1> DEFINE told(log) == TotalOf(log, FillsOf(id)) + TotalOf(log, CancelsOf(id))
<1>2. told(Log) \in Int
  BY <1>1, TotalType
<1>3. /\ Accounted(id) = told(Log) + QtyIn(Book, id) + InHand(id)
      /\ Accounted(id)' = told(Log') + QtyIn(Book', id) + InHand(id)'
  BY DEF Accounted
<1>4. CASE Arrive \/ StartBatch \/ SkipInvalid \/ BeginMatch \/ EraseLevel \/ EndFilled
             \/ PushEvent \/ EndBatch \/ UNCHANGED vars
  <2>1. Log' = Log
    BY <1>1, <1>4, QuietEvents
  <2>2. resting' = resting
    BY <1>4 DEF Arrive, Accept, StartBatch, SkipInvalid, BeginMatch, EraseLevel, EndFilled,
                PushEvent, EndBatch, bookVars, vars
  <2>3. Book' = Book
    BY <2>2 DEF Book, Resting
  <2>4. InHand(id)' = InHand(id)
    <3>1. CASE BeginMatch
      <4>1. taker = NoOrder /\ incoming # <<>> /\ taker' = Head(incoming)
        BY <3>1 DEF BeginMatch, AtNextMessage
      <4>2. taker'.id # id
        BY <1>1, <3>1, <4>1, NothingSaidYet
      <4>3. QED BY <4>1, <4>2 DEF InHand
    <3>2. CASE EndFilled
      BY <3>2 DEF EndFilled, Return, InHand
    <3>3. CASE taker' = taker
      BY <3>3 DEF InHand
    <3>4. QED
      BY <1>4, <3>1, <3>2, <3>3
         DEF Arrive, Accept, StartBatch, SkipInvalid, EraseLevel, PushEvent, EndBatch, vars
  <2>5. QED BY <1>3, <2>1, <2>3, <2>4
<1>5. ASSUME NEW status \in {"Cancelled", "Added"}, Returned(status)
      PROVE  /\ taker \in Order /\ taker # NoOrder /\ InHand(id)' = 0
             /\ \A o \in Book : o.id # taker.id
             /\ told(Log') = told(Log)
                  + (IF taker.id = id /\ status # "Added" THEN taker.qty ELSE 0)
  <2> DEFINE e == Report(taker, status, taker.price, taker.qty)
  <2>1. /\ taker \in Order /\ taker # NoOrder /\ taker' = NoOrder
        /\ Log' = Append(Log, e)
    BY <1>5, BookAssumption DEF Returned
  <2>2. e \in Event /\ e.id = taker.id /\ e.status = status /\ e.qty = taker.qty
    BY <2>1, ReportType DEF Order, Report, OrderStatus
  <2> HIDE DEF e
  <2>3. told(Log') = told(Log) + (IF taker.id = id /\ status # "Added" THEN taker.qty ELSE 0)
    BY <1>1, <2>1, <2>2, AccountAppend
  <2>4. InHand(id)' = 0
    BY <2>1 DEF InHand
  <2>5. \A o \in Book : o.id # taker.id
    BY <1>1, <2>1 DEF IdsInStep
  <2>6. QED BY <2>1, <2>3, <2>4, <2>5
<1> HIDE DEF told
<1>6. CASE CancelRemainder
  <2>1. Returned("Cancelled") /\ Book' = Book
    BY <1>1, <1>6, ReturnEvents DEF CancelRemainder, bookVars, Book, Resting
  <2>2. /\ taker \in Order /\ taker # NoOrder /\ InHand(id)' = 0
        /\ \A o \in Book : o.id # taker.id
        /\ told(Log') = told(Log) + (IF taker.id = id THEN taker.qty ELSE 0)
    BY <1>5, <2>1
  <2>3. taker.qty \in Int
    BY <2>2 DEF Order
  <2>4. CASE taker.id = id
    <3>1. QtyIn(Book, id) = 0 /\ InHand(id) = taker.qty
      BY <1>1, <2>2, <2>4, QtyInIs DEF InHand
    <3>2. told(Log') = told(Log) + taker.qty
      BY <2>2, <2>4
    <3>3. Accounted(id) = told(Log) + 0 + taker.qty
      BY <1>3, <3>1
    <3>4. Accounted(id)' = told(Log) + taker.qty + 0 + 0
      BY <1>3, <2>1, <2>2, <3>1, <3>2
    <3>5. QED BY <1>2, <2>3, <3>3, <3>4
  <2>5. CASE taker.id # id
    <3>1. InHand(id) = 0
      BY <2>5 DEF InHand
    <3>2. told(Log') = told(Log)
      BY <1>2, <2>2, <2>5
    <3>3. QED BY <1>3, <2>1, <2>2, <3>1, <3>2
  <2>6. QED BY <2>4, <2>5
<1>7. CASE RestRemainder
  <2>1. Returned("Added")
    BY <1>1, <1>7, ReturnEvents
  <2>2. /\ taker \in Order /\ taker # NoOrder /\ InHand(id)' = 0
        /\ \A o \in Book : o.id # taker.id
        /\ told(Log') = told(Log)
    <3>1. told(Log') = told(Log) + 0
      BY <1>5, <2>1
    <3>2. QED BY <1>2, <1>5, <2>1, <3>1
  <2>3. Book' = Book \union {taker}
    BY <1>1, <1>7, <2>2, BookAfterRest
  <2>4. Book' \in SUBSET Order /\ DistinctIds(Book')
    BY <1>1, <2>2, <2>3 DEF DistinctIds
  <2>5. taker.qty \in Int
    BY <2>2 DEF Order
  <2>6. CASE taker.id = id
    <3>1. QtyIn(Book, id) = 0 /\ InHand(id) = taker.qty
      BY <1>1, <2>2, <2>6, QtyInIs DEF InHand
    <3>2. QtyIn(Book', id) = taker.qty
      BY <2>3, <2>4, <2>6, QtyInIs
    <3>3. Accounted(id) = told(Log) + 0 + taker.qty
      BY <1>3, <3>1
    <3>4. Accounted(id)' = told(Log) + taker.qty + 0
      BY <1>3, <2>2, <3>2
    <3>5. QED BY <1>2, <2>5, <3>3, <3>4
  <2>7. CASE taker.id # id
    <3>1. InHand(id) = 0
      BY <2>7 DEF InHand
    <3>2. QtyIn(Book', id) = QtyIn(Book, id)
      <4>1. {o \in Book' : o.id = id} = {o \in Book : o.id = id}
        BY <2>3, <2>7
      <4>2. QED BY <4>1 DEF QtyIn
    <3>3. QED BY <1>3, <2>2, <3>1, <3>2
  <2>8. QED BY <2>6, <2>7
<1>8. CASE Trade
  <2>1. PICK p \in Prices, cur \in Order, q \in Nat : TradeOf(p, cur, q)
    BY <1>1, <1>8, TradeEvents
  <2> DEFINE d == TakerReport(q, p)
             e == MakerReport(cur, q)
             left == IF cur.qty = q THEN {} ELSE {Reduced(cur, q)}
  <2>2. /\ taker \in Order /\ taker # NoOrder /\ q <= taker.qty /\ q <= cur.qty
        /\ taker' = Reduced(taker, q)
        /\ Log' = Append(Append(Log, d), e)
    BY <2>1, BookAssumption DEF TradeOf, Reduced
  <2>3. cur \in Book /\ Book' = (Book \ {cur}) \union left
    BY <1>1, <2>1, BookAfterTrade DEF IdsInStep
  <2>4. /\ d \in Event /\ e \in Event /\ d.id = taker.id /\ e.id = cur.id
        /\ d.status # "Added" /\ e.status # "Added"
        /\ d.qty = q /\ e.qty = q
    BY <2>2, ReportType DEF TakerReport, MakerReport, OrderStatus, Order, Report
  <2>5. \A o \in left : o \in Order /\ o.id = cur.id /\ o.qty = cur.qty - q
    BY <2>2, ReducedFields
  <2>6. /\ taker' \in Order /\ taker'.id = taker.id /\ taker'.qty = taker.qty - q
        /\ taker.qty \in Int /\ cur.qty \in Int /\ taker' # NoOrder
    BY <2>2, ReducedFields, BookAssumption DEF Order
  <2>7. taker.id # cur.id /\ \A o \in Book : o.id # taker.id
    BY <1>1, <2>2, <2>3 DEF IdsInStep
  <2>8. \A o, x \in left : o = x
    BY DEF left
  <2>9. left = {} => cur.qty = q
    BY DEF left
  <2> HIDE DEF d, e, left
  <2>10. Book' \in SUBSET Order /\ DistinctIds(Book')
    BY <1>1, <2>3, <2>5, <2>8 DEF DistinctIds
  <2>11. told(Log') = told(Log) + (IF taker.id = id THEN q ELSE 0)
                        + (IF cur.id = id THEN q ELSE 0)
    <3>1. Append(Log, d) \in Seq(Event)
      BY <1>1, <2>4
    <3>2. told(Append(Log, d)) = told(Log) + (IF taker.id = id THEN q ELSE 0)
      BY <1>1, <2>4, AccountAppend DEF told
    <3>3. told(Log') = told(Append(Log, d)) + (IF cur.id = id THEN q ELSE 0)
      BY <2>2, <2>4, <3>1, AccountAppend DEF told
    <3>4. QED BY <3>2, <3>3
  <2>12. CASE taker.id = id
    <3>1. QtyIn(Book, id) = 0 /\ QtyIn(Book', id) = 0
      BY <1>1, <2>3, <2>5, <2>7, <2>10, <2>12, QtyInIs
    <3>2. InHand(id) = taker.qty /\ InHand(id)' = taker.qty - q
      BY <2>2, <2>6, <2>12 DEF InHand
    <3>3. told(Log') = told(Log) + q + 0
      BY <2>7, <2>11, <2>12
    <3>4. QED BY <1>2, <1>3, <2>6, <3>1, <3>2, <3>3
  <2>13. CASE cur.id = id
    <3>1. QtyIn(Book, id) = cur.qty /\ QtyIn(Book', id) = cur.qty - q
      <4>1. QtyIn(Book, id) = cur.qty
        BY <1>1, <2>3, <2>13, QtyInIs
      <4>2. CASE left = {}
        <5>1. \A o \in Book' : o.id # id
          BY <1>1, <2>3, <2>13, <4>2 DEF DistinctIds
        <5>2. QtyIn(Book', id) = 0
          BY <2>10, <5>1, QtyInIs
        <5>3. QED BY <2>6, <2>9, <4>1, <4>2, <5>2
      <4>3. ASSUME NEW o \in left PROVE QtyIn(Book', id) = cur.qty - q
        BY <2>3, <2>5, <2>10, <2>13, <4>3, QtyInIs
      <4>4. QED BY <4>1, <4>2, <4>3
    <3>2. InHand(id) = 0 /\ InHand(id)' = 0
      BY <2>6, <2>7, <2>13 DEF InHand
    <3>3. told(Log') = told(Log) + 0 + q
      BY <2>7, <2>11, <2>13
    <3>4. QED BY <1>2, <1>3, <2>6, <3>1, <3>2, <3>3
  <2>14. CASE taker.id # id /\ cur.id # id
    <3>1. QtyIn(Book', id) = QtyIn(Book, id)
      <4>1. {o \in Book' : o.id = id} = {o \in Book : o.id = id}
        BY <2>3, <2>5, <2>14
      <4>2. QED BY <4>1 DEF QtyIn
    <3>2. InHand(id) = 0 /\ InHand(id)' = 0
      BY <2>6, <2>14 DEF InHand
    <3>3. told(Log') = told(Log)
      BY <1>2, <2>11, <2>14
    <3>4. QED BY <1>3, <3>1, <3>2, <3>3
  <2>15. QED BY <2>12, <2>13, <2>14
<1>9. QED
  BY <1>4, <1>6, <1>7, <1>8 DEF Next, Process, Frame

\* A trade reports the same price and size to both sides, everything else no trade.
LEMMA PriceKept ==
  ASSUME ReportsInv, AccountsInStep, [Next]_vars, NEW p \in Prices
  PROVE  TotalOf(Log', FillsAt(p, "buy")) = TotalOf(Log', FillsAt(p, "sell"))
<1>1. /\ Inv /\ TypeOK /\ IdsInStep /\ Log \in Seq(Event)
      /\ TotalOf(Log, FillsAt(p, "buy")) = TotalOf(Log, FillsAt(p, "sell"))
  BY LogType DEF ReportsInv, Inv, AccountsInStep
<1>2. CASE Log' = Log
  BY <1>1, <1>2
<1>3. ASSUME NEW status \in {"Cancelled", "Added"}, Returned(status)
      PROVE  TotalOf(Log', FillsAt(p, "buy")) = TotalOf(Log', FillsAt(p, "sell"))
  <2> DEFINE e == Report(taker, status, taker.price, taker.qty)
  <2>1. taker \in Order /\ Log' = Append(Log, e)
    BY <1>3 DEF Returned
  <2>2. e \in Event /\ e.status = status
    BY <2>1, ReportType DEF Order, Report, OrderStatus
  <2> HIDE DEF e
  <2>3. ~IsFill(e)
    BY <2>2 DEF IsFill, FillStatus
  <2>4. \A side : TotalOf(Log', FillsAt(p, side)) = TotalOf(Log, FillsAt(p, side))
    BY <1>1, <2>1, <2>2, <2>3, PriceAppend
  <2>5. QED BY <1>1, <2>4
<1>4. CASE Trade
  <2>1. PICK x \in Prices, cur \in Order, q \in Nat : TradeOf(x, cur, q)
    BY <1>1, <1>4, TradeEvents
  <2> DEFINE d == TakerReport(q, x)
             e == MakerReport(cur, q)
  <2>2. /\ taker \in Order /\ taker.side \in Side /\ q <= taker.qty /\ q <= cur.qty
        /\ Log' = Append(Append(Log, d), e)
    BY <2>1 DEF TradeOf, Order
  <2>3. cur.side = Opposite(taker.side) /\ cur.price = x
    BY <1>1, <2>1, BookAfterTrade DEF IdsInStep
  <2>4. /\ d \in Event /\ e \in Event /\ IsFill(d) /\ IsFill(e)
        /\ d.price = x /\ e.price = x /\ d.qty = q /\ e.qty = q
        /\ d.side = taker.side /\ e.side = cur.side
    BY <2>2, <2>3, ReportType
       DEF TakerReport, MakerReport, OrderStatus, Order, Report, IsFill, FillStatus
  <2> HIDE DEF d, e
  <2> DEFINE mid == Append(Log, d)
  <2>5. mid \in Seq(Event) /\ Log' = Append(mid, e)
    BY <1>1, <2>2, <2>4
  <2>6. mid = Append(Log, d)
    BY DEF mid
  <2> HIDE DEF mid
  <2>7. Log \in Seq(Event)
    BY <1>1
  <2>8. CASE x # p
    <3>1. ASSUME NEW side
          PROVE  TotalOf(Log', FillsAt(p, side)) = TotalOf(Log, FillsAt(p, side))
      <4>1. TotalOf(mid, FillsAt(p, side)) = TotalOf(Log, FillsAt(p, side))
        BY <2>4, <2>6, <2>7, <2>8, PriceAppend
      <4>2. TotalOf(Log', FillsAt(p, side)) = TotalOf(mid, FillsAt(p, side))
        BY <2>4, <2>5, <2>8, PriceAppend
      <4>3. QED BY <4>1, <4>2
    <3>2. QED BY <1>1, <3>1
  <2>9. CASE x = p
    <3> DEFINE s == taker.side
               t == cur.side
    <3>1. s \in Side /\ t \in Side /\ s # t /\ {s, t} = {"buy", "sell"}
      BY <2>2, <2>3, SidesOpposed DEF Side
    <3>2. /\ TotalOf(mid, FillsAt(p, s)) = TotalOf(Log, FillsAt(p, s)) + q
          /\ TotalOf(mid, FillsAt(p, t)) = TotalOf(Log, FillsAt(p, t))
      <4>1. d.side = s /\ d.side # t
        BY <2>4, <3>1
      <4> HIDE DEF s, t
      <4>2. TotalOf(mid, FillsAt(p, s)) = TotalOf(Log, FillsAt(p, s)) + q
        BY <2>4, <2>6, <2>7, <2>9, <4>1, PriceAppend
      <4>3. TotalOf(mid, FillsAt(p, t)) = TotalOf(Log, FillsAt(p, t))
        BY <2>4, <2>6, <2>7, <2>9, <4>1, PriceAppend
      <4>4. QED BY <4>2, <4>3
    <3>3. /\ TotalOf(Log', FillsAt(p, s)) = TotalOf(mid, FillsAt(p, s))
          /\ TotalOf(Log', FillsAt(p, t)) = TotalOf(mid, FillsAt(p, t)) + q
      <4>1. e.side = t /\ e.side # s
        BY <2>4, <3>1
      <4> HIDE DEF s, t
      <4>2. TotalOf(Log', FillsAt(p, s)) = TotalOf(mid, FillsAt(p, s))
        BY <2>4, <2>5, <2>9, <4>1, PriceAppend
      <4>3. TotalOf(Log', FillsAt(p, t)) = TotalOf(mid, FillsAt(p, t)) + q
        BY <2>4, <2>5, <2>9, <4>1, PriceAppend
      <4>4. QED BY <4>2, <4>3
    <3>4. TotalOf(Log, FillsAt(p, s)) = TotalOf(Log, FillsAt(p, t))
      BY <1>1, <3>1
    <3>5. TotalOf(Log', FillsAt(p, s)) = TotalOf(Log', FillsAt(p, t))
      BY <3>2, <3>3, <3>4
    <3>6. QED BY <3>1, <3>5
  <2>10. QED BY <2>8, <2>9
<1>5. CASE CancelRemainder \/ RestRemainder
  BY <1>1, <1>3, <1>5, ReturnEvents
<1>6. QED
  BY <1>1, <1>2, <1>4, <1>5, QuietEvents DEF Next, Process, Frame

\* A valid order that the matching gets to is all in hand.
LEMMA AccountOpened ==
  ASSUME ReportsInv, BeginMatch, NEW id \in Nat, id = Reached
  PROVE  Accounted(id)' = taker'.qty
<1>1. /\ Inv /\ IdsInStep /\ Log \in Seq(Event) /\ Book \in SUBSET Order /\ DistinctIds(Book)
  BY LogType, Placed DEF ReportsInv, Inv, IdsInStep
<1>2. incoming # <<>> /\ taker' = Head(incoming) /\ resting' = resting
  BY DEF BeginMatch, AtNextMessage, bookVars
<1>3. Log' = Log /\ Book' = Book
  BY <1>1, <1>2, QuietEvents DEF Book, Resting
<1>4. taker' \in Order /\ taker'.id = id /\ \A status : ~Says(Log, id, status)
  BY <1>1, <1>2, NothingSaidYet
<1>5. \A k \in 1..Len(Log) : Log[k].id # id
  BY <1>4 DEF Says
<1>6. TotalOf(Log, FillsOf(id)) = 0 /\ TotalOf(Log, CancelsOf(id)) = 0
  BY <1>5, TotalNone DEF FillsOf, CancelsOf
<1>7. \A o \in Book : o.id # id
  <2>1. \A o \in Book : o.id < Reached /\ o.id \in Int
    BY <1>1 DEF IdsInStep, Order
  <2>2. Reached \in Int
    BY <1>1 DEF Inv, TypeOK, Reached
  <2>3. QED BY <2>1, <2>2
<1>8. QtyIn(Book, id) = 0
  BY <1>1, <1>7, QtyInIs
<1>9. InHand(id)' = taker'.qty /\ taker'.qty \in Int
  BY <1>4, BookAssumption DEF InHand, Order
<1>10. Accounted(id)' = 0 + 0 + 0 + taker'.qty
  BY <1>3, <1>6, <1>8, <1>9 DEF Accounted
<1>11. QED BY <1>9, <1>10

LEMMA AccountsStep == AccountsInv /\ [Next]_vars => AccountsInStep'
<1> SUFFICES ASSUME AccountsInv, [Next]_vars PROVE AccountsInStep'
  OBVIOUS
<1>1. /\ ReportsInv /\ AccountsInStep /\ Inv /\ IdsInStep
      /\ sent \in Seq(Order) /\ incoming \in Seq(Order)
  BY DEF AccountsInv, ReportsInv, Inv, TypeOK
<1>2. Reached \in Nat /\ Len(sent) \in Nat /\ Reached <= Len(sent)
  BY <1>1 DEF IdsInStep, Reached
<1>3. ASSUME NEW i \in 1..Reached, sent'[i] = sent[i], ValidateOrder(sent'[i])
      PROVE  sent'[i].qty = Accounted(i - 1)'
  <2>1. sent[i].qty = Accounted(i - 1)
    BY <1>1, <1>3 DEF AccountsInStep
  <2>2. i - 1 \in Nat /\ i - 1 # Reached
    BY <1>2
  <2>3. Accounted(i - 1)' = Accounted(i - 1)
    BY <1>1, <2>2, AccountKept
  <2>4. QED BY <1>3, <2>1, <2>3
<1>4. SUFFICES \A i \in 1..Reached' :
                 ValidateOrder(sent'[i]) => sent'[i].qty = Accounted(i - 1)'
  BY <1>1, PriceKept DEF AccountsInStep
<1>5. CASE Arrive
  <2>1. PICK c \in Inputs : Accept(c)
    BY <1>5 DEF Arrive
  <2> DEFINE m == NewOrder(c, Len(sent))
  <2>2. m \in Order
    BY <1>2, <2>1, NewOrderType, BookAssumption
  <2>3. sent' = Append(sent, m) /\ incoming' = Append(incoming, m)
    BY <2>1 DEF Accept
  <2> HIDE DEF m
  <2>4. Reached' = Reached
    BY <1>1, <1>2, <2>2, <2>3 DEF Reached
  <2>5. \A i \in 1..Reached : sent'[i] = sent[i]
    BY <1>1, <1>2, <2>2, <2>3
  <2>6. QED BY <1>3, <2>4, <2>5
<1>6. CASE SkipInvalid \/ BeginMatch
  <2>1. incoming # <<>> /\ incoming' = Tail(incoming) /\ sent' = sent
    BY <1>6 DEF SkipInvalid, BeginMatch, AtNextMessage
  <2>2. /\ Len(incoming) > 0 /\ Len(incoming) \in Nat /\ Len(incoming') = Len(incoming) - 1
        /\ Head(incoming) = incoming[1]
    BY <1>1, <2>1
  <2>3. Reached' = Reached + 1
    BY <1>1, <1>2, <2>1, <2>2 DEF Reached
  <2>4. Head(incoming) = sent[Reached + 1]
    BY <1>1, <2>1, <2>2 DEF IdsInStep
  <2>5. SUFFICES ASSUME NEW i \in 1..Reached', i \notin 1..Reached, ValidateOrder(sent'[i])
                 PROVE  sent'[i].qty = Accounted(i - 1)'
    BY <1>3, <2>1
  <2>6. i = Reached + 1 /\ i - 1 = Reached /\ i - 1 \in Nat
    BY <1>2, <2>3, <2>5
  <2>7. sent'[i] = Head(incoming)
    BY <2>1, <2>4, <2>6
  <2>8. BeginMatch /\ taker' = Head(incoming)
    BY <1>6, <2>5, <2>7 DEF SkipInvalid, BeginMatch
  <2>9. Accounted(i - 1)' = taker'.qty
    BY <1>1, <2>6, <2>8, AccountOpened
  <2>10. QED BY <2>7, <2>8, <2>9
<1>7. CASE UNCHANGED <<sent, incoming>>
  <2>1. Reached' = Reached
    BY <1>7 DEF Reached
  <2>2. QED BY <1>3, <1>7, <2>1
<1>8. QED
  BY <1>5, <1>6, <1>7
     DEF Next, Process, Frame, StartBatch, EraseLevel, EndFilled, CancelRemainder,
         RestRemainder, Return, Trade, PushEvent, EndBatch, vars

LEMMA AccountsInvariance == Spec => []AccountsInv
<1>1. Init => AccountsInv
  <2> SUFFICES ASSUME Init PROVE AccountsInv
    OBVIOUS
  <2>1. sent = <<>> /\ incoming = <<>> /\ published = <<>> /\ pending = <<>> /\ fills = <<>>
    BY DEF Init
  <2>2. Log = <<>>
    BY <2>1 DEF Log
  <2>3. Log \in Seq(Event) /\ 1..Len(Log) = {} /\ 1..Reached = {}
    BY <2>1, <2>2 DEF Reached
  <2>4. \A E : TotalOf(Log, E) = 0
    BY <2>3, TotalNone
  <2>5. QED BY <2>3, <2>4, InitReports DEF AccountsInv, AccountsInStep
<1>2. AccountsInv /\ [Next]_vars => ReportsInv'
  <2>1. ReportsInv /\ [Next]_vars => Inv'
    BY TypeStep, WellFormedStep, UncrossedStep, TakerBoundedStep DEF Inv, ReportsInv
  <2>2. QED BY <2>1, IdsStep, SaidStep DEF ReportsInv, AccountsInv
<1>3. AccountsInv /\ [Next]_vars => AccountsInv'
  BY <1>2, AccountsStep DEF AccountsInv
<1>4. QED BY <1>1, <1>3, PTL DEF Spec

\* In every state of every match, for every valid order the matching has got to: what
\* was sent is traded, cancelled, resting or in hand; and at every price as much was
\* reported bought as sold.
THEOREM BooksBalance == Spec => []AccountsBalance
<1>1. AccountsInv => AccountsBalance
  <2> SUFFICES ASSUME AccountsInv PROVE AccountsBalance
    OBVIOUS
  <2>1. /\ AccountsInStep /\ IdsInStep /\ Log \in Seq(Event)
        /\ sent \in Seq(Order) /\ incoming \in Seq(Order)
    BY LogType DEF AccountsInv, ReportsInv, Inv, TypeOK
  <2>2. BuysMatchSells
    <3> SUFFICES ASSUME NEW p \in Prices
                 PROVE  Total(Log, LAMBDA e : IsFill(e) /\ e.price = p /\ e.side = "buy")
                          = Total(Log, LAMBDA e : IsFill(e) /\ e.price = p /\ e.side = "sell")
      BY Zenon DEF BuysMatchSells
    <3>1. TotalOf(Log, FillsAt(p, "buy")) = TotalOf(Log, FillsAt(p, "sell"))
      BY <2>1 DEF AccountsInStep
    <3>2. /\ Total(Log, LAMBDA e : IsFill(e) /\ e.price = p /\ e.side = "buy")
               = TotalOf(Log, FillsAt(p, "buy"))
          /\ Total(Log, LAMBDA e : IsFill(e) /\ e.price = p /\ e.side = "sell")
               = TotalOf(Log, FillsAt(p, "sell"))
      BY <2>1, TotalsOfLog
    <3>3. QED BY <3>1, <3>2, Zenon
  <2>3. ASSUME NEW i \in Handled, ValidateOrder(sent[i])
        PROVE  sent[i].qty = Traded(Log, sent[i].id) + CancelledQty(Log, sent[i].id)
                               + RestingQty(sent[i].id) + InHand(sent[i].id)
    <3>1. i \in 1..Len(sent) /\ ~Waiting(sent[i].id)
      BY <2>1, <2>3 DEF Handled
    <3>2. Len(sent) \in Nat /\ Len(incoming) \in Nat /\ Reached \in Nat /\ sent[i].id = i - 1
      BY <2>1, <3>1 DEF IdsInStep, Reached
    <3>3. i \in 1..Reached
      <4>1. ASSUME i > Reached PROVE FALSE
        <5>1. i - Reached \in 1..Len(incoming)
          BY <3>1, <3>2, <4>1 DEF Reached
        <5>2. incoming[i - Reached] = sent[Reached + (i - Reached)]
          BY <2>1, <5>1 DEF IdsInStep
        <5>3. Reached + (i - Reached) = i
          BY <3>1, <3>2
        <5>4. i - Reached \in DOMAIN incoming
          BY <2>1, <5>1
        <5>5. QED BY <3>1, <5>2, <5>3, <5>4 DEF Waiting
      <4>2. QED BY <3>1, <3>2, <4>1
    <3>4. sent[i].qty = Accounted(sent[i].id)
      BY <2>1, <2>3, <3>2, <3>3 DEF AccountsInStep
    <3> DEFINE id == sent[i].id
    <3> HIDE DEF id
    <3>5. /\ Traded(Log, id) = TotalOf(Log, FillsOf(id))
          /\ CancelledQty(Log, id) = TotalOf(Log, CancelsOf(id))
          /\ RestingQty(id) = QtyIn(Book, id)
      BY <2>1, TotalsOfLog, RestingQtyInBook
    <3>6. Accounted(id) = Traded(Log, id) + CancelledQty(Log, id) + RestingQty(id) + InHand(id)
      BY <3>5 DEF Accounted
    <3>7. QED BY <3>4, <3>6 DEF id
  <2>4. QED BY <2>2, <2>3 DEF AccountsBalance, QuantityConserved
<1>2. QED BY <1>1, AccountsInvariance, PTL

=============================================================================
