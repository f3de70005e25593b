---------------------------- MODULE BookAccounts ----------------------------
(***************************************************************************)
(* What the participants can conclude from the events of an order book:    *)
(* the totals reported per order and per price, and the properties that    *)
(* relate them to the book.  They hold for either strategy.                *)
(***************************************************************************)
EXTENDS OrderBook, FiniteSetsExt

\* Everything reported so far, the part not yet pushed included.
Log == published \o pending \o fills

FillStatus == {"Filled", "PartiallyFilled"}

\* The quantity of the events of `log` at the indices that satisfy Test.
Total(log, Test(_)) ==
  MapThenSumSet(LAMBDA i : log[i].qty, {i \in DOMAIN log : Test(log[i])})

IsFill(e) == e.status \in FillStatus

Traded(log, id) == Total(log, LAMBDA e : IsFill(e) /\ e.id = id)

CancelledQty(log, id) == Total(log, LAMBDA e : e.status = "Cancelled" /\ e.id = id)

RestingQty(id) ==
  MapThenSumSet(LAMBDA o : o.qty,
                {o \in Resting("buy") \union Resting("sell") : o.id = id})

InHand(id) == IF taker # NoOrder /\ taker.id = id THEN taker.qty ELSE 0

Waiting(id) == \E i \in DOMAIN incoming : incoming[i].id = id

\* The orders the running or an earlier batch has got to.
Handled == {i \in DOMAIN sent : ~Waiting(sent[i].id)}

-----------------------------------------------------------------------------

\* No share is created or lost: what was sent is traded, cancelled, resting or
\* still in match()'s hand, for every order that passed validateOrder, in every
\* state of a match (partial fills and resting remainders included).
QuantityConserved ==
  \A i \in Handled :
    LET o == sent[i]
    IN  ValidateOrder(o) =>
          o.qty = Traded(Log, o.id) + CancelledQty(Log, o.id)
                    + RestingQty(o.id) + InHand(o.id)

\* At every price, the quantity reported bought equals the quantity reported
\* sold: taker and maker get the same price and size (the "net position must be
\* 0" line main.cpp prints rests on it).
BuysMatchSells ==
  \A p \in Prices :
    Total(Log, LAMBDA e : IsFill(e) /\ e.price = p /\ e.side = "buy")
      = Total(Log, LAMBDA e : IsFill(e) /\ e.price = p /\ e.side = "sell")

\* Shares are conserved, order by order and price by price.
AccountsBalance == QuantityConserved /\ BuysMatchSells

\* A client can tell from its events alone which of its orders rest on the book:
\* those reported Added and not yet Filled.
ReportsMatchBook ==
  \A i \in DOMAIN sent :
    LET id == sent[i].id
        Said(status) == \E k \in DOMAIN Log : Log[k].id = id /\ Log[k].status = status
    IN  (\E o \in Resting("buy") \union Resting("sell") : o.id = id)
          <=> Said("Added") /\ ~Said("Filled")

\* The life of an order as its owner sees it: after Filled or Cancelled nothing
\* more is heard of it, and Added is said once at most.
LifecycleOrdered ==
  \A j, k \in DOMAIN Log :
    j < k /\ Log[j].id = Log[k].id =>
      /\ Log[j].status \notin {"Filled", "Cancelled"}
      /\ Log[j].status = "Added" => Log[k].status # "Added"

=============================================================================
