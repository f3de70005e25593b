------------------------------ MODULE Recovery ------------------------------
(***************************************************************************)
(* OrderBook::process when batches are lost, and the two services it turns *)
(* to: SnapshotService, which keeps the last batches, and                  *)
(* RetransmissionService, which keeps orders.                              *)
(*                                                                         *)
(* Nothing in the program loses a batch, and nothing calls the operations  *)
(* that fill the two stores (Gateway models the program as it is).  Here   *)
(* the batches travel over a lossy wire, and a tap at the sender feeds the *)
(* stores, at any time, through their public operations: this is the    *)
(* environment the code of the gap detection is written for.  The orders   *)
(* come from one thread, so an order is its sequence number, its           *)
(* transaction id is one less, and a batch is a run of consecutive ones.   *)
(***************************************************************************)
EXTENDS Integers, Sequences, SequencesExt, Functions

CONSTANTS
  BatchCap,          \* messages a batch holds (22)
  MaxSnapshotNumber, \* batches the snapshot service keeps (1000)
  MaxOrders          \* bound on the number of orders sent

ASSUME RecoveryAssumption ==
  /\ BatchCap \in Nat \ {0}
  /\ MaxSnapshotNumber \in Nat \ {0}
  /\ MaxOrders \in Nat

VARIABLES
  wire,                   \* batches on their way to the book
  tap,                    \* batches on their way to the stores
  ordersFed,              \* whether RetransmissionService is fed as well
  batchSnapshots,         \* SnapshotService's queue
  orders,                 \* RetransmissionService's queue
  process,                \* where process() is: "idle", "counting" or "matching"
  messages, index,        \* its local list of messages and loop index
  lastProcessedSeqNum,
  expectedTransactionNum,
  sent,                   \* history: how many orders were sent
  processed,              \* history: the orders batchedMatch was given
  evicted,                \* history: orders of the batches the snapshots let go
  newest,                 \* history: the last order of the batch delivered last
  recorded,               \* history: that batch was in the snapshots' store by then
  recovered               \* history: a gap was seen

stores == <<batchSnapshots, orders>>
counters == <<lastProcessedSeqNum, expectedTransactionNum>>
locals == <<process, messages, index>>
histories == <<newest, recorded, recovered>>
vars == <<wire, tap, ordersFed, stores, locals, counters, sent, processed, evicted,
          histories>>

Init ==
  /\ wire = <<>> /\ tap = <<>>
  /\ ordersFed \in BOOLEAN
  /\ batchSnapshots = <<>> /\ orders = <<>>
  /\ process = "idle" /\ messages = <<>> /\ index = 1
  /\ lastProcessedSeqNum = 0
  /\ expectedTransactionNum = 1
  /\ sent = 0
  /\ processed = <<>>
  /\ evicted = {}
  /\ newest = 0
  /\ recorded = TRUE
  /\ recovered = FALSE

-----------------------------------------------------------------------------
(* The environment *)

Send ==
  /\ \E n \in 1..BatchCap :
       LET batch == [i \in 1..n |-> sent + i]
       IN  /\ sent + n <= MaxOrders
           /\ wire' = Append(wire, batch)
           /\ tap' = Append(tap, batch)
           /\ sent' = sent + n
  /\ UNCHANGED <<ordersFed, stores, locals, counters, processed, evicted, histories>>

Lose ==
  /\ wire # <<>>
  /\ wire' = Tail(wire)
  /\ UNCHANGED <<tap, ordersFed, stores, locals, counters, sent, processed, evicted,
                 histories>>

-----------------------------------------------------------------------------
(* SnapshotService::process and RetransmissionService::processBatch *)

\* Each store has a mutex of its own and the call of process() holds neither: a store may
\* grow between two turns of its loop.
Store ==
  /\ tap # <<>>
  /\ tap' = Tail(tap)
  /\ IF Len(batchSnapshots) = MaxSnapshotNumber
     THEN /\ batchSnapshots' = Append(Tail(batchSnapshots), Head(tap))
          /\ evicted' = evicted \union Range(Head(batchSnapshots))
     ELSE /\ batchSnapshots' = Append(batchSnapshots, Head(tap))
          /\ UNCHANGED evicted
  /\ orders' = IF ordersFed THEN orders \o Head(tap) ELSE orders
  /\ UNCHANGED <<wire, ordersFed, locals, counters, sent, processed, histories>>

\* How many elements `while (!q.empty() && q.front() < n) q.pop();` takes from a queue of
\* elements with these numbers.
Below(numbers, n) ==
  CHOOSE k \in 0..Len(numbers) :
    /\ \A i \in 1..k : numbers[i] < n
    /\ k < Len(numbers) => numbers[k + 1] >= n

\* getSnapshots(from, to): the batches that begin before `from` are let go, those that
\* begin up to `to` (included) are handed out and forgotten.  The batches are stored in
\* their order, so the one loop of the code does first the one and then the other.
FirstsOf(batches) == [i \in DOMAIN batches |-> batches[i][1]]

\* Mutant: what lies before `from` is handed out as well.
FromStart(from) == batchSnapshots

From(from) ==
  SubSeq(batchSnapshots, Below(FirstsOf(batchSnapshots), from) + 1, Len(batchSnapshots))

\* Mutant: the upper bound is exclusive.
SnapshotsBefore(from, to) ==
  SubSeq(From(from), 1, Below(FirstsOf(From(from)), to))

Snapshots(from, to) ==
  SubSeq(From(from), 1, Below(FirstsOf(From(from)), to + 1))

SnapshotsLeft(from, to) ==
  SubSeq(From(from), Below(FirstsOf(From(from)), to + 1) + 1, Len(From(from)))

\* batchRequest(from, to), on transaction ids, which are one less than the sequence
\* numbers process() passes: what lies before is let go, [from, to) is handed out.
TransactionIds == [i \in DOMAIN orders |-> orders[i] - 1]

Retransmitted(from, to) ==
  IF from > to THEN <<>>
  ELSE SubSeq(orders, Below(TransactionIds, from) + 1, Below(TransactionIds, to))

\* Mutant: what is handed out is kept.
OrdersLeftKeeping(from, to) ==
  IF from > to THEN orders
  ELSE SubSeq(orders, Below(TransactionIds, from) + 1, Len(orders))

OrdersLeft(from, to) ==
  IF from > to THEN orders
  ELSE SubSeq(orders, Below(TransactionIds, to) + 1, Len(orders))

-----------------------------------------------------------------------------
(* OrderBook::process *)

\* Mutant: the batch is compared with the last order processed itself.
GapUnlessSame(batch) == batch[1] > lastProcessedSeqNum + 2

Gap(batch) == batch[1] > lastProcessedSeqNum + 1

Deliver(batch) ==
  /\ process = "idle"
  /\ wire # <<>> /\ batch = Head(wire)
  /\ wire' = Tail(wire)
  /\ newest' = batch[Len(batch)]
  /\ recorded' = (batch[1] \notin evicted /\ \A i \in DOMAIN tap : tap[i][1] > batch[1])
  /\ index' = 1
  /\ UNCHANGED <<tap, ordersFed, orders, counters, sent, processed, evicted>>

\* The batch itself is dropped with the rest: the snapshots have to bring it back.
DeliverAfterGap ==
  \E batch \in Range(wire) :
    /\ Deliver(batch)
    /\ Gap(batch)
    /\ messages' = FlattenSeq(Snapshots(lastProcessedSeqNum + 1, batch[1]))
    /\ batchSnapshots' = SnapshotsLeft(lastProcessedSeqNum + 1, batch[1])
    /\ recovered' = TRUE
    /\ process' = IF messages' = <<>> THEN "idle" ELSE "matching"

DeliverInTurn ==
  \E batch \in Range(wire) :
    /\ Deliver(batch)
    /\ ~Gap(batch)
    /\ messages' = batch
    /\ process' = "counting"
    /\ UNCHANGED <<batchSnapshots, recovered>>

\* Mutant: after a retransmission the same place is looked at again.
CountAgain ==
  /\ process = "counting"
  /\ index <= Len(messages)
  /\ IF messages[index] = expectedTransactionNum
     THEN /\ expectedTransactionNum' = expectedTransactionNum + 1
          /\ index' = index + 1
          /\ UNCHANGED <<messages, orders>>
     ELSE LET from == expectedTransactionNum
              to == expectedTransactionNum + Len(messages) - index
          IN  /\ messages' = SubSeq(messages, 1, index - 1) \o Retransmitted(from, to)
                               \o SubSeq(messages, index, Len(messages))
              /\ orders' = OrdersLeft(from, to)
              /\ UNCHANGED <<expectedTransactionNum, index>>
  /\ UNCHANGED <<wire, tap, ordersFed, batchSnapshots, process, lastProcessedSeqNum, sent,
                 processed, evicted, histories>>

\* One message of the else branch's loop.
Count ==
  /\ process = "counting"
  /\ index <= Len(messages)
  /\ IF messages[index] = expectedTransactionNum
     THEN UNCHANGED <<messages, orders>>
     ELSE LET from == expectedTransactionNum
              to == expectedTransactionNum + Len(messages) - index
          IN  /\ messages' = SubSeq(messages, 1, index - 1) \o Retransmitted(from, to)
                               \o SubSeq(messages, index, Len(messages))
              /\ orders' = OrdersLeft(from, to)
  /\ expectedTransactionNum' = expectedTransactionNum + 1
  /\ index' = index + 1
  /\ UNCHANGED <<wire, tap, ordersFed, batchSnapshots, process, lastProcessedSeqNum, sent,
                 processed, evicted, histories>>

Match ==
  /\ \/ process = "matching"
     \/ process = "counting" /\ index > Len(messages)
  /\ processed' = processed \o messages
  /\ lastProcessedSeqNum' = messages[Len(messages)]
  /\ process' = "idle"
  /\ messages' = <<>>
  /\ index' = 1
  /\ UNCHANGED <<wire, tap, ordersFed, stores, expectedTransactionNum, sent, evicted,
                 histories>>

-----------------------------------------------------------------------------

Next ==
  \/ Send \/ Lose \/ Store
  \/ DeliverAfterGap \/ DeliverInTurn
  \/ Count \/ Match

Spec == Init /\ [][Next]_vars

\* A call of process() goes on.  Nothing is assumed of the wire and of the stores.
FairSpec == Spec /\ WF_vars(Count \/ Match)

-----------------------------------------------------------------------------
(* Properties. *)

\* Each variable holds a value of its type.
TypeOK ==
  /\ wire \in Seq(Seq(Nat)) /\ tap \in Seq(Seq(Nat)) /\ batchSnapshots \in Seq(Seq(Nat))
  /\ ordersFed \in BOOLEAN /\ orders \in Seq(Nat)
  /\ process \in {"idle", "counting", "matching"}
  /\ messages \in Seq(Nat) /\ index \in Nat \ {0}
  /\ lastProcessedSeqNum \in Nat /\ expectedTransactionNum \in Nat
  /\ sent \in Nat /\ processed \in Seq(Nat) /\ evicted \subseteq Nat
  /\ newest \in Nat /\ recorded \in BOOLEAN /\ recovered \in BOOLEAN

\* Lost batches leave no hole: an order at or before the last one processed was matched,
\* unless so many batches came since that the snapshot service had let it go.
NoHole ==
  \A n \in 1..lastProcessedSeqNum : n \in Range(processed) \/ n \in evicted

\* A recovery never matches an order twice nor out of order, however many batches were
\* lost and however far the stores lag behind - as long as the retransmission service
\* has nothing: after a gap process() asks it with numbers that are out of step.
MatchedInOrder ==
  ~ordersFed \/ ~recovered =>
    \A j, k \in DOMAIN processed : j < k => processed[j] < processed[k]

\* When the stores are not behind, a batch that reveals a gap is itself recovered with
\* those before it: the book has caught up with it when process() returns.
CaughtUp == process = "idle" /\ recorded => lastProcessedSeqNum = newest

\* What retransmission can do wrong is limited: an order comes to the strategy once from
\* its batch, on the wire or among the snapshots, and at most once more from batchRequest,
\* however often the loop of process() asks and whatever the stores learn meanwhile.
MatchedAtMostTwice ==
  \A i, j, k \in DOMAIN processed :
    i < j /\ j < k => ~(processed[i] = processed[j] /\ processed[j] = processed[k])

\* process() returns: asking for retransmissions in its loop, on every message once it has
\* lost count, comes to an end, although every answer makes the list it walks longer and
\* the store may be fed between two questions.  It rests on the store running dry: the
\* orders sent are bounded, and a service fed as fast as the loop empties it could keep
\* the call going.
ProcessReturns == (process # "idle") ~> (process = "idle")
=============================================================================
