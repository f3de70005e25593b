-------------------------- MODULE PriceTimeMarket ---------------------------
(***************************************************************************)
(* What a price-time-priority market promises, without levels, loops or    *)
(* event lists: orders wait in an inbox; one is executed in a single step, *)
(* against the set of resting orders, and every resting order's share is   *)
(* given in closed form.                                                   *)
(***************************************************************************)
EXTENDS Orders, Sequences, FiniteSetsExt

CONSTANTS Inputs, Ids

VARIABLES
  inbox,      \* orders accepted and not yet executed
  book,       \* the set of resting orders
  traded,     \* [Ids \X Prices -> Nat]: quantity traded per order and price
  cancelled   \* [Ids -> Nat]: quantity cancelled per order

market == <<inbox, book, traded, cancelled>>

Volume(S) == MapThenSumSet(LAMBDA o : o.qty, S)

Least(a, b) == IF a <= b THEN a ELSE b

\* The resting orders t may trade with.
Eligible(t) ==
  {o \in book : IF t.side = "buy" THEN o.side = "sell" /\ o.price <= t.price
                                  ELSE o.side = "buy" /\ o.price >= t.price}

\* The better price goes first, then the earlier stamp, then the lower id.
Ahead(o, x) ==
  \/ IF o.side = "sell" THEN x.price < o.price ELSE x.price > o.price
  \/ x.price = o.price /\ OrderTimeBefore(x, o)

\* o gets what is left of t once everyone ahead of o is served.
Share(t, o) ==
  LET ahead == Volume({x \in Eligible(t) : Ahead(o, x)})
  IN  IF ahead >= t.qty THEN 0 ELSE Least(o.qty, t.qty - ahead)

Executed(t) == Least(t.qty, Volume(Eligible(t)))

MarketInit ==
  /\ inbox = <<>>
  /\ book = {}
  /\ traded = [k \in Ids \X Prices |-> 0]
  /\ cancelled = [i \in Ids |-> 0]

Accept ==
  /\ \E c \in Inputs, n \in Ids : inbox' = Append(inbox, NewOrder(c, n))
  /\ UNCHANGED <<book, traded, cancelled>>

Refuse ==
  /\ inbox # <<>>
  /\ ~ValidateOrder(Head(inbox))
  /\ inbox' = Tail(inbox)
  /\ UNCHANGED <<book, traded, cancelled>>

Execute ==
  /\ inbox # <<>>
  /\ ValidateOrder(Head(inbox))
  /\ inbox' = Tail(inbox)
  /\ LET t == Head(inbox)
         eligible == Eligible(t)
         left == t.qty - Executed(t)
         served == {[o EXCEPT !.qty = @ - Share(t, o)] :
                      o \in {x \in eligible : Share(t, x) < x.qty}}
         ShareAt(i, p) ==
           MapThenSumSet(LAMBDA o : Share(t, o),
                         {o \in eligible : o.price = p /\ i \in {o.id, t.id}})
     IN  /\ book' = (book \ eligible) \union served \union
                      IF left > 0 /\ t.tif = "GTC"
                        THEN {[t EXCEPT !.qty = left]} ELSE {}
         /\ traded' = [k \in Ids \X Prices |-> traded[k] + ShareAt(k[1], k[2])]
         /\ cancelled' = IF left > 0 /\ t.tif = "IOC"
                           THEN [cancelled EXCEPT ![t.id] = left] ELSE cancelled

MarketNext == Accept \/ Refuse \/ Execute

MarketSpec == MarketInit /\ [][MarketNext]_market
=============================================================================
