------------------------------ MODULE Gateway -------------------------------
(***************************************************************************)
(* OrderEntryGateway between its callers and the order book: the threads   *)
(* that call acceptOrder, the batch thread in run(), the thread that calls *)
(* start() and stop(), and the bookkeeping by which OrderBook::process     *)
(* recognises a gap in the sequence numbers of a batch.                    *)
(*                                                                         *)
(* What runs under batchMutex is one step; what runs before the lock is    *)
(* taken is not.  In particular acceptOrder numbers an order first and     *)
(* queues it under the lock later, and `transactionCounter++` on a plain   *)
(* static int is a load and a store.  An order that acceptOrder refuses    *)
(* (gateway stopped, fields out of range) changes nothing and has no step. *)
(*                                                                         *)
(* Matching is FifoStrategy's subject; here a message that reaches         *)
(* batchedMatch is appended to `processed`.  The stores of the recovery    *)
(* services are empty: nothing in src/ calls their process or processBatch.*)
(***************************************************************************)
EXTENDS Integers, Sequences, FiniteSets

CONSTANTS
  Producers,         \* the threads that call acceptOrder
  BatchCap,          \* messages a BatchSystemProtocol holds (22 in the code)
  MaxOrders,         \* bound on the number of orders accepted
  MaxStarts,         \* bound on the number of calls of start()
  Restarts,          \* TRUE: a stopped gateway is started again; FALSE: it is replaced
  QuiesceBeforeStop  \* TRUE: no acceptOrder runs during stop() (as in main.cpp)

ASSUME GatewayAssumption ==
  /\ Producers # {}
  /\ IsFiniteSet(Producers)
  /\ BatchCap \in Nat \ {0}
  /\ MaxOrders \in Nat
  /\ MaxStarts \in Nat
  /\ Restarts \in BOOLEAN
  /\ QuiesceBeforeStop \in BOOLEAN

VARIABLES
  running,                \* std::atomic<bool> running
  batch,                  \* the batch being filled
  pc, held,               \* [Producers -> ...]: where acceptOrder is, its order
  transactionCounter,     \* the static int of acceptOrder
  transactionId,          \* BatchSystemProtocol::transactionId
  flusher,                \* where the batch thread is
  control, starts,        \* where the controlling thread is, its calls of start()
  lastProcessedSeqNum,    \* OrderBook's static counters
  expectedTransactionNum,
  processed,              \* history: what batchedMatch was given, in order
  dropped,                \* history: what process() gave up after a gap
  asked,                  \* history: the recovery services the book turned to
  accepted                \* history: what acceptOrder returned true for, in order

bookVars == <<lastProcessedSeqNum, expectedTransactionNum, processed, dropped, asked>>
producerVars == <<pc, held, transactionCounter, transactionId, accepted>>
controlVars == <<control, starts>>
vars == <<running, batch, producerVars, flusher, controlVars, bookVars>>

Message == [id: Nat, seq: Nat, by: Producers]

Init ==
  /\ running = FALSE
  /\ batch = <<>>
  /\ pc = [p \in Producers |-> "idle"]
  /\ held = [p \in Producers |-> [id |-> 0, seq |-> 0, by |-> p]]
  /\ transactionCounter = 1
  /\ transactionId = 0
  /\ flusher = "none"
  /\ control = "down"
  /\ starts = 0
  /\ lastProcessedSeqNum = 0
  /\ expectedTransactionNum = 1
  /\ processed = <<>>
  /\ dropped = <<>>
  /\ asked = {}
  /\ accepted = <<>>

-----------------------------------------------------------------------------
(* BatchSystemProtocol: add_message refuses once the array is full. *)

HasRoom(b) == Len(b) < BatchCap

-----------------------------------------------------------------------------
(* OrderBook::process *)

\* The first message is further on than the one after the last processed.
Gap(b) == b[1].seq > lastProcessedSeqNum + 1

\* Some message is not the next expected one.
OutOfStep(b) == \E i \in DOMAIN b : b[i].seq # expectedTransactionNum + i - 1

\* The whole batch is replaced by what the snapshot service has, which is nothing,
\* and process() returns without matching or counting.
GiveUp(b) ==
  /\ Gap(b)
  /\ asked' = asked \union {"snapshots"}
  /\ dropped' = dropped \o b
  /\ UNCHANGED <<lastProcessedSeqNum, expectedTransactionNum, processed>>

\* Mutant: the expected number is advanced once per batch.
MatchCountingBatches(b) ==
  /\ ~Gap(b)
  /\ asked' = asked \union IF OutOfStep(b) THEN {"retransmission"} ELSE {}
  /\ expectedTransactionNum' = expectedTransactionNum + 1
  /\ processed' = processed \o b
  /\ lastProcessedSeqNum' = b[Len(b)].seq
  /\ UNCHANGED dropped

\* The retransmission service has nothing to insert either; the batch is matched.
Match(b) ==
  /\ ~Gap(b)
  /\ asked' = asked \union IF OutOfStep(b) THEN {"retransmission"} ELSE {}
  /\ expectedTransactionNum' = expectedTransactionNum + Len(b)
  /\ processed' = processed \o b
  /\ lastProcessedSeqNum' = b[Len(b)].seq
  /\ UNCHANGED dropped

ProcessBatch(b) ==
  \/ b = <<>> /\ UNCHANGED bookVars
  \/ b # <<>> /\ GiveUp(b)
  \/ b # <<>> /\ Match(b)

-----------------------------------------------------------------------------
(* acceptOrder, called by producer p *)

InFlight == {p \in Producers : pc[p] \in {"load", "store", "translate"}}

Enter(p) ==
  /\ pc[p] = "idle"
  /\ running
  /\ QuiesceBeforeStop => control = "up"
  /\ transactionId + Cardinality(InFlight) < MaxOrders
  /\ pc' = [pc EXCEPT ![p] = "load"]
  /\ UNCHANGED <<running, batch, held, transactionCounter, transactionId, accepted,
                 flusher, controlVars, bookVars>>

\* transactionCounter++: the value is read ...
LoadCounter(p) ==
  /\ pc[p] = "load"
  /\ held' = [held EXCEPT ![p].seq = transactionCounter]
  /\ pc' = [pc EXCEPT ![p] = "store"]
  /\ UNCHANGED <<running, batch, transactionCounter, transactionId, accepted,
                 flusher, controlVars, bookVars>>

\* ... and the successor of what was read is written.
StoreCounter(p) ==
  /\ pc[p] = "store"
  /\ transactionCounter' = held[p].seq + 1
  /\ pc' = [pc EXCEPT ![p] = "translate"]
  /\ UNCHANGED <<running, batch, held, transactionId, accepted, flusher,
                 controlVars, bookVars>>

\* translate(): the id is a fetch_add on an atomic.
Translate(p) ==
  /\ pc[p] = "translate"
  /\ held' = [held EXCEPT ![p].id = transactionId]
  /\ transactionId' = transactionId + 1
  /\ pc' = [pc EXCEPT ![p] = "queue"]
  /\ UNCHANGED <<running, batch, transactionCounter, accepted, flusher,
                 controlVars, bookVars>>

\* Mutant: nobody is notified.
NotifyNobody == UNCHANGED flusher

\* notify_one on the condition variable of the batch thread.
Notify == flusher' = IF flusher = "asleep" THEN "lock" ELSE flusher

\* Mutant: a full batch is replaced without having been processed.
EnqueueOverwriting(p) ==
  /\ pc[p] = "queue"
  /\ batch' = IF HasRoom(batch) THEN Append(batch, held[p]) ELSE <<held[p]>>
  /\ accepted' = Append(accepted, held[p])
  /\ Notify
  /\ pc' = [pc EXCEPT ![p] = "idle"]
  /\ UNCHANGED <<running, held, transactionCounter, transactionId, controlVars, bookVars>>

\* Under batchMutex: a full batch is processed first.
Enqueue(p) ==
  /\ pc[p] = "queue"
  /\ \/ /\ HasRoom(batch)
        /\ batch' = Append(batch, held[p])
        /\ UNCHANGED bookVars
     \/ /\ ~HasRoom(batch)
        /\ ProcessBatch(batch)
        /\ batch' = <<held[p]>>
  /\ accepted' = Append(accepted, held[p])
  /\ Notify
  /\ pc' = [pc EXCEPT ![p] = "idle"]
  /\ UNCHANGED <<running, held, transactionCounter, transactionId, controlVars>>

Producer(p) ==
  Enter(p) \/ LoadCounter(p) \/ StoreCounter(p) \/ Translate(p) \/ Enqueue(p)

-----------------------------------------------------------------------------
(* run(): the batch thread *)

LoopTest ==
  /\ flusher = "top"
  /\ flusher' = IF running THEN "lock" ELSE "done"
  /\ UNCHANGED <<running, batch, producerVars, controlVars, bookVars>>

\* wait_for holds the mutex and its predicate is false.
Sleep ==
  /\ flusher = "lock"
  /\ running
  /\ batch = <<>>
  /\ flusher' = "asleep"
  /\ UNCHANGED <<running, batch, producerVars, controlVars, bookVars>>

\* wait_for is over, by its predicate or ("late") by its deadline.
Break ==
  /\ flusher \in {"lock", "late"}
  /\ ~running
  /\ flusher' = "done"
  /\ UNCHANGED <<running, batch, producerVars, controlVars, bookVars>>

\* Mutant: the batch is reset before it is processed.
FlushResetFirst ==
  /\ flusher \in {"lock", "late"}
  /\ running
  /\ batch # <<>>
  /\ batch' = <<>>
  /\ flusher' = "top"
  /\ UNCHANGED <<running, producerVars, controlVars, bookVars>>

Flush ==
  /\ flusher \in {"lock", "late"}
  /\ running
  /\ batch # <<>>
  /\ ProcessBatch(batch)
  /\ batch' = <<>>
  /\ flusher' = "top"
  /\ UNCHANGED <<running, producerVars, controlVars>>

IdleRound ==
  /\ flusher = "late"
  /\ running
  /\ batch = <<>>
  /\ flusher' = "top"
  /\ UNCHANGED <<running, batch, producerVars, controlVars, bookVars>>

\* The batch thread runs on whenever it is not asleep.
Flusher == LoopTest \/ Sleep \/ Break \/ Flush \/ IdleRound

\* batchInterval has passed, or the wait ended for no reason at all.
Timeout ==
  /\ flusher = "asleep"
  /\ flusher' \in {"late", "lock"}
  /\ UNCHANGED <<running, batch, producerVars, controlVars, bookVars>>

-----------------------------------------------------------------------------
(* start() and stop(), called by one thread *)

BeginRun ==
  /\ control = "down"
  /\ ~running
  /\ starts < MaxStarts
  /\ running' = TRUE
  /\ flusher' = "top"
  /\ control' = "up"
  /\ starts' = starts + 1

\* Mutant: the ids are the gateway's own and begin anew.
StartNumberingAnew ==
  /\ starts = 0 \/ Restarts
  /\ BeginRun
  /\ transactionId' = 0
  /\ UNCHANGED <<batch, pc, held, transactionCounter, accepted, bookVars>>

Start ==
  /\ starts = 0 \/ Restarts
  /\ BeginRun
  /\ UNCHANGED <<batch, producerVars, bookVars>>

\* Another gateway and another book take over in the same process: the batch is new,
\* the counters are static and go on.  (Books that were fed directly in between, with
\* numbers of their own, as some benchmarks feed them, would have moved the book's
\* counters and not the gateway's; there are none here.)
StartAnother ==
  /\ starts > 0 /\ ~Restarts
  /\ \A p \in Producers : pc[p] = "idle"
  /\ BeginRun
  /\ batch' = <<>>
  /\ UNCHANGED <<producerVars, bookVars>>

StopCalled ==
  /\ control = "up"
  /\ running
  /\ QuiesceBeforeStop => \A p \in Producers : pc[p] = "idle"
  /\ control' = "stopping"
  /\ UNCHANGED <<running, batch, producerVars, flusher, starts, bookVars>>

\* Under batchMutex.  The batch is processed and left as it is.
FinalBatch ==
  /\ control = "stopping"
  /\ running' = FALSE
  /\ ProcessBatch(batch)
  /\ control' = "notifying"
  /\ UNCHANGED <<batch, producerVars, flusher, starts>>

\* Mutant: stop() goes straight to join().
NotifyNone ==
  /\ control = "notifying"
  /\ control' = "joining"
  /\ UNCHANGED <<running, batch, producerVars, flusher, starts, bookVars>>

NotifyAll ==
  /\ control = "notifying"
  /\ Notify
  /\ control' = "joining"
  /\ UNCHANGED <<running, batch, producerVars, starts, bookVars>>

Join ==
  /\ control = "joining"
  /\ flusher = "done"
  /\ flusher' = "none"
  /\ control' = "down"
  /\ UNCHANGED <<running, batch, producerVars, starts, bookVars>>

\* stop() runs on, the join excepted, which waits for the batch thread.
Stopping == FinalBatch \/ NotifyAll \/ Join

-----------------------------------------------------------------------------

Next ==
  \/ \E p \in Producers : Producer(p)
  \/ Flusher
  \/ Timeout
  \/ Start
  \/ StartAnother
  \/ StopCalled
  \/ Stopping

Spec == Init /\ [][Next]_vars

\* The batch thread and a stop() in progress are scheduled.  Nothing is asked of
\* the timer, of spurious wakeups or of the callers.
FairSpec == Spec /\ WF_vars(Flusher) /\ WF_vars(Stopping)

-----------------------------------------------------------------------------
(* Properties. *)

\* Where the threads and the counters can be.
TypeOK ==
  /\ running \in BOOLEAN
  /\ batch \in Seq(Message)
  /\ pc \in [Producers -> {"idle", "load", "store", "translate", "queue"}]
  /\ held \in [Producers -> Message]
  /\ transactionCounter \in Nat \ {0}
  /\ transactionId \in Nat
  /\ flusher \in {"none", "top", "lock", "asleep", "late", "done"}
  /\ control \in {"down", "up", "stopping", "notifying", "joining"}
  /\ starts \in Nat
  /\ lastProcessedSeqNum \in Nat
  /\ expectedTransactionNum \in Nat
  /\ processed \in Seq(Message)
  /\ dropped \in Seq(Message)
  /\ asked \subseteq {"snapshots", "retransmission"}
  /\ accepted \in Seq(Message)

\* What still waits in the batch; after stop() it only looks as if it did.
Waiting == IF running THEN batch ELSE <<>>

\* The orders matched and the orders still in the batch are the orders accepted,
\* in the order of their acceptance, whatever mix of full batches, flushes and the
\* final batch of stop() took them there.
InOrder == accepted = processed \o Waiting

\* While nothing is lost a book that a gateway with one caller feeds, and nobody else,
\* never believes that something is: it turns to neither recovery service, nor does the
\* book of the next gateway.
NoFalseAlarm == asked = {}

\* Until stop() is called an order accepted is matched, given up after a gap, or in
\* the batch: in one of these places, once, however the producers and the batch
\* thread interleave.  Afterwards an acceptOrder that raced with stop() may append to
\* the batch stop() has processed and left, which is then processed a second time.
AcceptedOnce ==
  starts = 1 /\ running =>
    LET places == processed \o dropped \o batch
    IN  /\ Len(places) = Len(accepted)
        /\ \A i \in DOMAIN accepted : \E k \in DOMAIN places : places[k] = accepted[i]
        /\ \A j, k \in DOMAIN places : places[j].id = places[k].id => j = k

\* Also when stop() races with acceptOrder and when the gateway is started again,
\* no accepted order vanishes: it is matched, given up or in the batch.
AcceptedKept ==
  LET places == processed \o dropped \o batch
  IN  \A i \in DOMAIN accepted : \E k \in DOMAIN places : places[k] = accepted[i]

\* The orders of one client reach the book in the order the client sent them, also in
\* the final batch of stop() and when an acceptOrder races with it.  An order that is
\* matched after a later one of its client has been matched before that: it stayed in
\* the batch stop() processed and left, and the restarted gateway processed it again.
ClientOrderKept ==
  \A j, k \in DOMAIN processed :
    j < k /\ processed[j].by = processed[k].by /\ processed[k].id < processed[j].id =>
      \E i \in 1..j - 1 : processed[i] = processed[k]

\* Nothing accepted waits forever, even if the batch thread's timer never fires:
\* no notification is lost.  What is accepted while stop() is under way may stay in
\* the batch until the next start().
AcceptedIsHandled ==
  \A n \in 1..MaxOrders :
    (Len(accepted) >= n) ~>
      \/ control = "down"
      \/ Len(accepted) >= n /\ \E k \in DOMAIN (processed \o dropped) :
                                  (processed \o dropped)[k] = accepted[n]

\* stop() returns: the batch thread sees running = FALSE and is joined, wherever it
\* was when stop() was called and without help from its timer.
StopReturns == (control = "stopping") ~> (control = "down")

\* Claimed by the README of concurrent order flows: no accepted order is given up.
NothingGivenUp == dropped = <<>>
=============================================================================
