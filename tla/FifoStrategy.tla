---------------------------- MODULE FifoStrategy ----------------------------
(***************************************************************************)
(* An order book under FIFOStrategy: price, then time priority.            *)
(***************************************************************************)
EXTENDS OrderBook

ASSUME FifoAssumption == LevelType = "TIME"

\* Mutant: std::max.
Larger(a, b) == IF a <= b THEN b ELSE a

\* std::min
Smaller(a, b) == IF a <= b THEN a ELSE b

\* One iteration of the inner while loop of match().
Trade ==
  /\ taker # NoOrder
  /\ taker.qty > 0
  /\ \E p \in Prices :
       /\ AtLevel(p)
       /\ \E cur \in resting[Opposite(taker.side)][p] :
            LET q == Smaller(taker.qty, cur.qty)
            IN  /\ IsBestOrder(cur, resting[Opposite(taker.side)][p])
                /\ taker' = [taker EXCEPT !.qty = @ - q]
                /\ resting' = [resting EXCEPT ![Opposite(taker.side)][p] =
                                 LevelAfter(@, cur, q)]
                /\ fills' = fills \o <<TakerReport(q, p), MakerReport(cur, q)>>
  /\ UNCHANGED <<levels, phase, incoming, pending, published, sent, opening>>

Process == Frame \/ Trade

Next == Arrive \/ StartBatch \/ Process

Spec == Init /\ [][Next]_vars

=============================================================================
