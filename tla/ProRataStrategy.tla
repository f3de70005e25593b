-------------------------- MODULE ProRataStrategy ---------------------------
(***************************************************************************)
(* An order book under ProRataStrategy: an incoming order that cannot take *)
(* a whole level is shared out over its orders in proportion to their      *)
(* sizes, the shares rounded down and the rest handed round one by one,    *)
(* the largest order first.                                                *)
(***************************************************************************)
EXTENDS OrderBook, SequencesExt, FiniteSetsExt

ASSUME ProRataAssumption == LevelType = "SIZE"

\* PriceLevel::getAllOrders: the level in its comparator's order.
AllOrders(level) == SetToSortSeq(level, Before)

TotalQty(orders) == FoldLeft(LAMBDA sum, o : sum + o.qty, 0, orders)

\* Mutants: the remainder stays undistributed; all of it goes to the first order that
\* can take it.
HandOutNothing(orders, floors, left) == floors

HandOutToFirst(orders, floors, left) ==
  LET n == Len(orders)
      loop[alloc \in [1..n -> Nat], rest \in Nat, i \in 1..n] ==
        IF rest = 0 THEN alloc
        ELSE IF alloc[i] < orders[i].qty
             THEN loop[[alloc EXCEPT ![i] = @ + 1], rest - 1, i]
             ELSE loop[alloc, rest, (i % n) + 1]
  IN  loop[floors, left, 1]

\* The second loop of allocate(): the index runs round and round, giving one more
\* share to every order that can take it, until `left` shares are handed out.
HandOut(orders, floors, left) ==
  LET n == Len(orders)
      loop[alloc \in [1..n -> Nat], rest \in Nat, i \in 1..n] ==
        IF rest = 0 THEN alloc
        ELSE IF alloc[i] < orders[i].qty
             THEN loop[[alloc EXCEPT ![i] = @ + 1], rest - 1, (i % n) + 1]
             ELSE loop[alloc, rest, (i % n) + 1]
  IN  loop[floors, left, 1]

\* What each order of the level gives: everything if the incoming order is as large
\* as the level, else its proportion rounded down and topped up.
Allocation(orders, incomingQty) ==
  LET total == TotalQty(orders)
      floors == [i \in 1..Len(orders) |-> (incomingQty * orders[i].qty) \div total]
  IN  IF incomingQty >= total
      THEN [i \in 1..Len(orders) |-> orders[i].qty]
      ELSE HandOut(orders, floors, incomingQty - FoldLeft(+, 0, floors))

\* allocate() on the level the loop of match() stands at, and the event match()
\* adds for the incoming order.  Orders whose share is 0 are left untouched.
Allocate ==
  /\ taker # NoOrder
  /\ taker.qty > 0
  /\ \E p \in Prices :
       /\ AtLevel(p)
       /\ resting[Opposite(taker.side)][p] # {}
       /\ LET level == resting[Opposite(taker.side)][p]
              orders == AllOrders(level)
              alloc == Allocation(orders, taker.qty)
              filled == Min({taker.qty, TotalQty(orders)})
              served == SelectSeq([i \in 1..Len(orders) |-> i], LAMBDA i : alloc[i] > 0)
          IN  /\ resting' = [resting EXCEPT ![Opposite(taker.side)][p] =
                   FoldLeft(LAMBDA l, i : LevelAfter(l, orders[i], alloc[i]), level, served)]
              /\ fills' = fills
                   \o [k \in DOMAIN served |-> MakerReport(orders[served[k]], alloc[served[k]])]
                   \o <<TakerReport(filled, p)>>
              /\ taker' = [taker EXCEPT !.qty = @ - filled]
  /\ UNCHANGED <<levels, phase, incoming, pending, published, sent, opening>>

Process == Frame \/ Allocate

Next == Arrive \/ StartBatch \/ Process

Spec == Init /\ [][Next]_vars

-----------------------------------------------------------------------------

\* The level the running match stands at, if this step trades with it.
TradedLevel ==
  IF taker = NoOrder \/ fills' = fills \/ taker' = NoOrder THEN {}
  ELSE UNION {resting[Opposite(taker.side)][p] :
                p \in {p \in Prices : resting'[Opposite(taker.side)][p]
                                        # resting[Opposite(taker.side)][p]}}

\* What resting order o gives up in a step.
Given(o) ==
  o.qty - MapThenSumSet(LAMBDA x : x.qty,
                        {x \in resting'[o.side][o.price] : x.id = o.id})

\* A level that trades with an order smaller than itself is shared fairly.  Every
\* resting order gives its exact proportion, give or take less than one share, so the
\* remainder loop never goes round twice and no order is overdrawn; and of two orders
\* the smaller one is never rounded up while the larger one is rounded down.
AllocationFair ==
  [][LET level == TradedLevel
         total == MapThenSumSet(LAMBDA o : o.qty, level)
         q == Min({total, taker.qty})
         RoundedUp(o) == Given(o) * total > q * o.qty
         RoundedDown(o) == Given(o) * total < q * o.qty
     IN  /\ \A o \in level :
              /\ Given(o) * total < q * o.qty + total
              /\ q * o.qty < (Given(o) + 1) * total
         /\ \A a, b \in level :
              OrderSizeBefore(a, b) => ~(RoundedDown(a) /\ RoundedUp(b))]_vars
=============================================================================
