------------------------------- MODULE Orders -------------------------------
(***************************************************************************)
(* The data every component of the exchange passes around: an order        *)
(* (SystemProtocol once the gateway has numbered it), the report of what   *)
(* happened to it (Event), the admission rule of the matching strategies   *)
(* and the comparators a price level sorts its orders by.                  *)
(*                                                                         *)
(* Sequence numbers and checksums travel in SystemProtocol as well; they   *)
(* never influence matching, so an order here is identified by its         *)
(* transaction id only.  The wall-clock time of an Event is left out.      *)
(***************************************************************************)
EXTENDS Integers

CONSTANTS
  Prices,       \* the prices orders are sent at (ticks)
  Times,        \* the values the gateway's steady_clock stamp can take
  MaxQuantity,  \* MatchingStrategy::MAX_QUANTITY (30000 in the code)
  LevelType     \* "TIME" or "SIZE": MatchingStrategy::levelType()

ASSUME OrdersAssumption ==
  /\ Prices \subseteq Nat
  /\ Times \subseteq Nat
  /\ MaxQuantity \in Nat \ {0}
  /\ LevelType \in {"TIME", "SIZE"}

Side == {"buy", "sell"}                         \* `bool side`: TRUE is a buy
TimeInForce == {"GTC", "IOC"}
OrderStatus == {"Filled", "PartiallyFilled", "Added", "Cancelled"}

Opposite(side) == IF side = "buy" THEN "sell" ELSE "buy"

\* What a client sends, with the stamp the gateway puts on it, and the same thing
\* numbered.
ClientOrder ==
  [user: Nat, side: Side, tif: TimeInForce, price: Prices, qty: Nat, ts: Times]

Order ==
  [id: Nat, user: Nat, side: Side, tif: TimeInForce, price: Prices,
   qty: Nat, ts: Times]

NewOrder(c, n) ==
  [id |-> n, user |-> c.user, side |-> c.side, tif |-> c.tif,
   price |-> c.price, qty |-> c.qty, ts |-> c.ts]

Event ==
  [id: Nat, status: OrderStatus, user: Nat, price: Prices, qty: Nat, side: Side]

Report(o, status, price, qty) ==
  [id |-> o.id, status |-> status, user |-> o.user,
   price |-> price, qty |-> qty, side |-> o.side]

\* MatchingStrategy::validateOrder
ValidateOrder(o) ==
  /\ o.price > 0
  /\ o.qty > 0
  /\ o.user > 0
  /\ o.qty <= MaxQuantity

-----------------------------------------------------------------------------
(* PriceLevel: a std::set of orders sorted by one of two comparators.      *)

OrderTimeBefore(a, b) ==
  \/ a.ts < b.ts
  \/ a.ts = b.ts /\ a.id < b.id

OrderSizeBefore(a, b) ==
  \/ a.qty > b.qty
  \/ a.qty = b.qty /\ OrderTimeBefore(a, b)

Before(a, b) ==
  IF LevelType = "SIZE" THEN OrderSizeBefore(a, b) ELSE OrderTimeBefore(a, b)

\* std::set identifies two elements when neither is ordered before the other.
Equivalent(a, b) == ~Before(a, b) /\ ~Before(b, a)

AddOrder(level, o) ==
  IF \E x \in level : Equivalent(x, o) THEN level ELSE level \union {o}

RemoveOrder(level, o) == {x \in level : ~Equivalent(x, o)}

UpdateOrder(level, old, new) == AddOrder(RemoveOrder(level, old), new)

\* Mutant: the level is read from its end.
IsWorstOrder(o, level) ==
  /\ o \in level
  /\ \A x \in level : ~Before(o, x)

\* PriceLevel::getBestOrder on a nonempty level: the first element of the set.
IsBestOrder(o, level) ==
  /\ o \in level
  /\ \A x \in level : ~Before(x, o)
=============================================================================
