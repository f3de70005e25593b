--------------------------- MODULE FifoRefinement ---------------------------
(***************************************************************************)
(* FifoStrategy implements PriceTimeMarket.  The abstract step happens     *)
(* when match() returns: until then the market is the one it opened with,  *)
(* and the order it works on still waits in the inbox.                     *)
(***************************************************************************)
EXTENDS FifoStrategy, BookAccounts

AllIds == 0 .. MaxOrders - 1

\* What the finished matches have reported.
Reported == published \o pending

Market == INSTANCE PriceTimeMarket WITH
  Ids <- AllIds,
  inbox <- IF taker = NoOrder THEN incoming ELSE <<opening.order>> \o incoming,
  book <- IF taker = NoOrder THEN Resting("buy") \union Resting("sell")
                             ELSE opening.book,
  traded <- [k \in AllIds \X Prices |->
               Total(Reported, LAMBDA e : IsFill(e) /\ e.id = k[1] /\ e.price = k[2])],
  cancelled <- [i \in AllIds |-> CancelledQty(Reported, i)]

\* The loops over levels and orders, with their iterators, early breaks and
\* in-place updates, amount to price-time priority: each match changes the book,
\* the traded quantities and the cancellations exactly as the closed form says.
ImplementsPriceTime == Market!MarketSpec
=============================================================================
