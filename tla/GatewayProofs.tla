--------------------------- MODULE GatewayProofs ----------------------------
(***************************************************************************)
(* OrderEntryGateway, for batches of any capacity and any number of        *)
(* orders.  Driven by one thread, as main.cpp drives it: what acceptOrder  *)
(* accepted is matched in order and exactly once, and the book never       *)
(* suspects a gap.  Under any number of callers, with stop() at any        *)
(* moment: no accepted order vanishes, and the orders of one client are    *)
(* matched in the order it sent them.  The last part shows every step to   *)
(* be a step of OrderFlow or to leave it alone.                            *)
(***************************************************************************)
EXTENDS GatewayRefinement, SequenceTheorems, FiniteSetTheorems, TLAPS

-----------------------------------------------------------------------------
(* Type correctness, for any number of callers and of restarts. *)

\* Numbering a message.
LEMMA MessageFields ==
  ASSUME NEW m \in Message, NEW n \in Nat
  PROVE  /\ [m EXCEPT !.seq = n] \in Message
         /\ [m EXCEPT !.seq = n].seq = n
         /\ [m EXCEPT !.id = n] \in Message
         /\ [m EXCEPT !.id = n].seq = m.seq
         /\ m.seq \in Nat
BY DEF Message

LEMMA QueueType ==
  ASSUME NEW b \in Seq(Message), NEW m \in Message
  PROVE  Append(b, m) \in Seq(Message) /\ <<m>> \in Seq(Message)
OBVIOUS

LEMMA ProcessBatchType ==
  ASSUME TypeOK, ProcessBatch(batch)
  PROVE  /\ lastProcessedSeqNum' \in Nat
         /\ expectedTransactionNum' \in Nat
         /\ processed' \in Seq(Message)
         /\ dropped' \in Seq(Message)
         /\ asked' \subseteq {"snapshots", "retransmission"}
<1> USE DEF TypeOK
<1>1. CASE batch = <<>> /\ UNCHANGED bookVars
  BY <1>1 DEF bookVars
<1>2. CASE GiveUp(batch)
  BY <1>2 DEF GiveUp
<1>3. CASE batch # <<>> /\ Match(batch)
  <2>1. batch[Len(batch)] \in Message
    BY <1>3
  <2>2. lastProcessedSeqNum' \in Nat
    BY <1>3, <2>1 DEF Match, Message
  <2>3. QED BY <1>3, <2>2 DEF Match
<1>4. QED BY <1>1, <1>2, <1>3 DEF ProcessBatch

LEMMA TypeStep == TypeOK /\ [Next]_vars => TypeOK'
<1> SUFFICES ASSUME TypeOK, [Next]_vars PROVE TypeOK'
  OBVIOUS
<1> USE DEF TypeOK
<1>1. ASSUME NEW p \in Producers, Producer(p) PROVE TypeOK'
  <2>1. CASE Enter(p)
    BY <2>1 DEF Enter, controlVars, bookVars
  <2>2. CASE LoadCounter(p)
    <3>1. [held[p] EXCEPT !.seq = transactionCounter] \in Message
      BY MessageFields
    <3>2. held' \in [Producers -> Message]
      BY <2>2, <3>1 DEF LoadCounter
    <3>3. QED BY <2>2, <3>2 DEF LoadCounter, controlVars, bookVars
  <2>3. CASE StoreCounter(p)
    <3>1. held[p].seq \in Nat
      BY MessageFields
    <3>2. QED BY <2>3, <3>1 DEF StoreCounter, controlVars, bookVars
  <2>4. CASE Translate(p)
    <3>1. [held[p] EXCEPT !.id = transactionId] \in Message
      BY MessageFields
    <3>2. held' \in [Producers -> Message]
      BY <2>4, <3>1 DEF Translate
    <3>3. QED BY <2>4, <3>2 DEF Translate, controlVars, bookVars
  <2>5. CASE Enqueue(p)
    <3> DEFINE m == held[p]
    <3>1. m \in Message
      OBVIOUS
    <3>2. /\ batch' = Append(batch, m) \/ batch' = <<m>>
          /\ accepted' = Append(accepted, m)
      BY <2>5 DEF Enqueue
    <3>3. batch' \in Seq(Message) /\ accepted' \in Seq(Message)
      <4> HIDE DEF m
      <4>1. batch \in Seq(Message) /\ accepted \in Seq(Message)
        OBVIOUS
      <4>2. QED BY <3>1, <3>2, <4>1, QueueType
    <3>4. UNCHANGED bookVars \/ ProcessBatch(batch)
      BY <2>5 DEF Enqueue
    <3>5. /\ lastProcessedSeqNum' \in Nat
          /\ expectedTransactionNum' \in Nat
          /\ processed' \in Seq(Message)
          /\ dropped' \in Seq(Message)
          /\ asked' \subseteq {"snapshots", "retransmission"}
      BY <3>4, ProcessBatchType DEF bookVars
    <3>6. QED BY <2>5, <3>3, <3>5 DEF Enqueue, Notify, controlVars
  <2>6. QED BY <1>1, <2>1, <2>2, <2>3, <2>4, <2>5 DEF Producer
<1>2. CASE Flusher
  <2>1. CASE LoopTest \/ Sleep \/ Break \/ IdleRound
    BY <2>1 DEF LoopTest, Sleep, Break, IdleRound, producerVars, controlVars, bookVars
  <2>2. CASE Flush
    BY <2>2, ProcessBatchType DEF Flush, producerVars, controlVars
  <2>3. QED BY <1>2, <2>1, <2>2 DEF Flusher
<1>3. CASE Timeout
  BY <1>3 DEF Timeout, producerVars, controlVars, bookVars
<1>4. CASE Start \/ StartAnother
  <2>1. starts' = starts + 1 /\ running' /\ flusher' = "top" /\ control' = "up"
    BY <1>4 DEF Start, StartAnother, BeginRun
  <2>2. (batch' = batch \/ batch' = <<>>) /\ UNCHANGED <<producerVars, bookVars>>
    BY <1>4 DEF Start, StartAnother
  <2>3. batch' \in Seq(Message)
    <3>1. <<>> \in Seq(Message)
      OBVIOUS
    <3>2. QED BY <2>2, <3>1
  <2>4. UNCHANGED <<pc, held, transactionCounter, transactionId, accepted,
                    lastProcessedSeqNum, expectedTransactionNum, processed, dropped, asked>>
    BY <2>2 DEF producerVars, bookVars
  <2>5. starts' \in Nat
    BY <2>1
  <2>6. running' \in BOOLEAN
    BY <1>4 DEF Start, StartAnother, BeginRun
  <2>7. QED BY <2>1, <2>3, <2>4, <2>5, <2>6
<1>5. CASE StopCalled
  BY <1>5 DEF StopCalled, producerVars, bookVars
<1>6. CASE Stopping
  <2>1. CASE FinalBatch
    BY <2>1, ProcessBatchType DEF FinalBatch, producerVars
  <2>2. CASE NotifyAll
    BY <2>2 DEF NotifyAll, Notify, producerVars, bookVars
  <2>3. CASE Join
    BY <2>3 DEF Join, producerVars, bookVars
  <2>4. QED BY <1>6, <2>1, <2>2, <2>3 DEF Stopping
<1>7. CASE UNCHANGED vars
  BY <1>7 DEF vars, producerVars, controlVars, bookVars
<1>8. QED BY <1>1, <1>2, <1>3, <1>4, <1>5, <1>6, <1>7 DEF Next

LEMMA InitType == Init => TypeOK
<1> SUFFICES ASSUME Init PROVE TypeOK
  OBVIOUS
<1> DEFINE blank(p) == [id |-> 0, seq |-> 0, by |-> p]
<1>1. \A p \in Producers : blank(p) \in Message
  BY DEF Message
<1>2. held = [p \in Producers |-> blank(p)]
  BY DEF Init
<1>3. held \in [Producers -> Message]
  <2> HIDE DEF blank
  <2>1. [p \in Producers |-> blank(p)] \in [Producers -> Message]
    BY <1>1
  <2>2. QED BY <1>2, <2>1
<1>4. /\ running = FALSE /\ flusher = "none" /\ control = "down"
      /\ pc = [p \in Producers |-> "idle"]
      /\ batch = <<>> /\ processed = <<>> /\ dropped = <<>> /\ accepted = <<>>
      /\ transactionCounter = 1 /\ expectedTransactionNum = 1
      /\ transactionId = 0 /\ starts = 0 /\ lastProcessedSeqNum = 0
      /\ asked = {}
  BY DEF Init
<1>5. running \in BOOLEAN
  BY <1>4
<1>6. pc \in [Producers -> {"idle", "load", "store", "translate", "queue"}]
  BY <1>4
<1>7. /\ batch \in Seq(Message) /\ processed \in Seq(Message)
      /\ dropped \in Seq(Message) /\ accepted \in Seq(Message)
  BY <1>4
<1>8. /\ transactionCounter \in Nat \ {0} /\ expectedTransactionNum \in Nat
      /\ transactionId \in Nat /\ starts \in Nat /\ lastProcessedSeqNum \in Nat
  BY <1>4
<1>9. QED BY <1>3, <1>4, <1>5, <1>6, <1>7, <1>8 DEF TypeOK

\* The threads stay within their program and the counters within their types.
THEOREM TypeCorrect == Spec => []TypeOK
BY InitType, TypeStep, PTL DEF Spec

-----------------------------------------------------------------------------
(* One thread that submits, then stops the gateway; others may take its place. *)

MainThread ==
  /\ QuiesceBeforeStop
  /\ ~Restarts
  /\ \A p, q \in Producers : p = q

\* The numbers of the accepted orders are 1, 2, 3, ...
Numbered == \A i \in 1..Len(accepted) : accepted[i].seq = i

\* ... and the call in progress is about to add the next one.
CallerInStep ==
  \A p \in Producers :
    /\ pc[p] \in {"idle", "load"} => transactionCounter = Len(accepted) + 1
    /\ pc[p] = "store" => /\ transactionCounter = Len(accepted) + 1
                          /\ held[p].seq = Len(accepted) + 1
    /\ pc[p] \in {"translate", "queue"} => /\ transactionCounter = Len(accepted) + 2
                                           /\ held[p].seq = Len(accepted) + 1
    /\ pc[p] # "idle" => control = "up"

\* The book has counted what it has matched.
BookInStep ==
  /\ lastProcessedSeqNum = Len(processed)
  /\ expectedTransactionNum = Len(processed) + 1

\* The gateway runs from start() until stop() holds the mutex, and starts empty.
ControlInStep ==
  /\ running <=> control \in {"up", "stopping"}
  /\ starts = 0 => control = "down" /\ batch = <<>>

MainInv ==
  /\ TypeOK
  /\ InOrder
  /\ NoFalseAlarm
  /\ Numbered
  /\ CallerInStep
  /\ BookInStep
  /\ ControlInStep

LEMMA ConcatFacts ==
  ASSUME NEW s \in Seq(Message), NEW t \in Seq(Message), NEW m \in Message
  PROVE  /\ s \o Append(t, m) = Append(s \o t, m)
         /\ s \o <<m>> = Append(s, m)
         /\ s \o <<>> = s
         /\ Len(s \o t) = Len(s) + Len(t)
         /\ \A i \in 1..Len(t) : (s \o t)[Len(s) + i] = t[i]
OBVIOUS

\* Handing the batch to the book while the gateway runs: there is no gap, and all
\* that was accepted is matched.
LEMMA HandOver ==
  ASSUME MainInv, running, ProcessBatch(batch)
  PROVE  /\ processed' = accepted
         /\ lastProcessedSeqNum' = Len(accepted)
         /\ expectedTransactionNum' = Len(accepted) + 1
         /\ asked' = {}
<1> USE DEF MainInv
<1>1. /\ accepted \in Seq(Message) /\ processed \in Seq(Message) /\ batch \in Seq(Message)
  BY DEF TypeOK
<1>2. accepted = processed \o batch
  BY DEF InOrder, Waiting
<1>3. Len(accepted) = Len(processed) + Len(batch)
  BY <1>1, <1>2
<1>4. CASE batch = <<>>
  <2>1. accepted = processed
    BY <1>1, <1>2, <1>4
  <2>2. UNCHANGED bookVars
    BY <1>4 DEF ProcessBatch
  <2>3. QED BY <2>1, <2>2 DEF bookVars, BookInStep, NoFalseAlarm
<1>5. CASE batch # <<>>
  <2>1. \A i \in 1..Len(batch) : batch[i].seq = Len(processed) + i
    <3>1. SUFFICES ASSUME NEW i \in 1..Len(batch) PROVE batch[i].seq = Len(processed) + i
      OBVIOUS
    <3>2. accepted[Len(processed) + i] = batch[i]
      BY <1>1, <1>2
    <3>3. Len(processed) + i \in 1..Len(accepted)
      BY <1>1, <1>3
    <3>4. QED BY <3>2, <3>3 DEF Numbered
  <2>2. Len(batch) \in 1..Len(batch) /\ 1 \in 1..Len(batch)
    BY <1>1, <1>5
  <2>3. ~Gap(batch)
    BY <1>1, <2>1, <2>2 DEF Gap, BookInStep
  <2>4. ~OutOfStep(batch)
    <3>1. SUFFICES ASSUME NEW i \in 1..Len(batch)
                   PROVE  batch[i].seq = expectedTransactionNum + i - 1
      BY <1>1 DEF OutOfStep
    <3>2. QED BY <1>1, <2>1, <3>1 DEF BookInStep
  <2>5. Match(batch)
    BY <1>5, <2>3 DEF ProcessBatch, GiveUp
  <2>6. asked' = {}
    BY <2>4, <2>5 DEF Match, NoFalseAlarm
  <2>7. lastProcessedSeqNum' = Len(accepted)
    BY <1>3, <2>1, <2>2, <2>5 DEF Match
  <2>8. expectedTransactionNum' = Len(accepted) + 1
    BY <1>1, <1>3, <2>5 DEF Match, BookInStep
  <2>9. QED BY <1>2, <2>5, <2>6, <2>7, <2>8 DEF Match
<1>6. QED BY <1>4, <1>5

LEMMA InitMain == Init => MainInv
<1> SUFFICES ASSUME Init PROVE MainInv
  OBVIOUS
<1>1. TypeOK
  BY InitType
<1>2. InOrder /\ NoFalseAlarm /\ Numbered /\ BookInStep
  BY DEF Init, InOrder, Waiting, NoFalseAlarm, Numbered, BookInStep
<1>3. CallerInStep
  <2>1. /\ pc = [p \in Producers |-> "idle"]
        /\ transactionCounter = 1
        /\ accepted = <<>>
    BY DEF Init
  <2>2. QED BY <2>1 DEF CallerInStep
<1>4. ControlInStep
  BY DEF Init, ControlInStep
<1>5. QED BY <1>1, <1>2, <1>3, <1>4 DEF MainInv

\* The steps of the one caller.
LEMMA ProducerStep ==
  ASSUME MainThread, MainInv, NEW p \in Producers, Producer(p), TypeOK'
  PROVE  MainInv'
<1> USE DEF MainInv
<1>1. \A q \in Producers : q = p
  BY DEF MainThread
<1>2. pc \in [Producers -> {"idle", "load", "store", "translate", "queue"}]
  BY DEF TypeOK
<1>3. held \in [Producers -> Message]
  BY DEF TypeOK
<1>4. transactionCounter \in Nat /\ transactionId \in Nat /\ Len(accepted) \in Nat
  BY DEF TypeOK
\* Before the lock is taken, only the caller's own state changes.
<1>5. ASSUME UNCHANGED <<running, batch, accepted, controlVars, bookVars>>, CallerInStep'
      PROVE  MainInv'
  <2>1. UNCHANGED <<starts, control, lastProcessedSeqNum, expectedTransactionNum,
                    processed, asked>>
    BY <1>5 DEF controlVars, bookVars
  <2>2. InOrder' /\ NoFalseAlarm' /\ Numbered' /\ BookInStep' /\ ControlInStep'
    BY <1>5, <2>1 DEF InOrder, Waiting, NoFalseAlarm, Numbered, BookInStep, ControlInStep
  <2>3. QED BY <1>5, <2>2
<1>6. CASE Enter(p)
  <2>1. control = "up"
    BY <1>6 DEF Enter, MainThread
  <2>2. pc'[p] = "load" /\ pc[p] = "idle"
    BY <1>2, <1>6 DEF Enter
  <2>3. UNCHANGED <<transactionCounter, accepted, control>>
    BY <1>6 DEF Enter, controlVars
  <2>4. CallerInStep'
    BY <1>1, <2>1, <2>2, <2>3 DEF CallerInStep
  <2>5. QED BY <1>5, <1>6, <2>4 DEF Enter
<1>7. CASE LoadCounter(p)
  <2>1. pc'[p] = "store" /\ pc[p] = "load"
    BY <1>2, <1>7 DEF LoadCounter
  <2>2. held'[p] = [held[p] EXCEPT !.seq = transactionCounter]
    BY <1>3, <1>7 DEF LoadCounter
  <2>3. held'[p].seq = transactionCounter
    BY <1>3, <1>4, <2>2, MessageFields
  <2>4. UNCHANGED <<transactionCounter, accepted, control>>
    BY <1>7 DEF LoadCounter, controlVars
  <2>5. CallerInStep'
    BY <1>1, <2>1, <2>3, <2>4 DEF CallerInStep
  <2>6. QED BY <1>5, <1>7, <2>5 DEF LoadCounter
<1>8. CASE StoreCounter(p)
  <2>1. pc'[p] = "translate" /\ pc[p] = "store"
    BY <1>2, <1>8 DEF StoreCounter
  <2>2. /\ transactionCounter' = held[p].seq + 1
        /\ UNCHANGED <<held, accepted, control>>
    BY <1>8 DEF StoreCounter, controlVars
  <2>3. held[p].seq = Len(accepted) + 1 /\ control = "up"
    BY <2>1 DEF CallerInStep
  <2>4. CallerInStep'
    BY <1>1, <1>4, <2>1, <2>2, <2>3 DEF CallerInStep
  <2>5. QED BY <1>5, <1>8, <2>4 DEF StoreCounter
<1>9. CASE Translate(p)
  <2>1. pc'[p] = "queue" /\ pc[p] = "translate"
    BY <1>2, <1>9 DEF Translate
  <2>2. held'[p] = [held[p] EXCEPT !.id = transactionId]
    BY <1>3, <1>9 DEF Translate
  <2>3. held'[p].seq = held[p].seq
    BY <1>3, <1>4, <2>2, MessageFields
  <2>4. UNCHANGED <<transactionCounter, accepted, control>>
    BY <1>9 DEF Translate, controlVars
  <2>5. CallerInStep'
    BY <1>1, <2>1, <2>3, <2>4 DEF CallerInStep
  <2>6. QED BY <1>5, <1>9, <2>5 DEF Translate
<1>10. CASE Enqueue(p)
  <2> DEFINE m == held[p]
  <2>1. /\ pc[p] = "queue"
        /\ pc'[p] = "idle"
        /\ accepted' = Append(accepted, m)
        /\ UNCHANGED <<running, held, transactionCounter, starts, control>>
    BY <1>2, <1>10 DEF Enqueue, controlVars
  <2>2. /\ control = "up" /\ running
        /\ m.seq = Len(accepted) + 1
        /\ transactionCounter = Len(accepted) + 2
    BY <2>1 DEF CallerInStep, ControlInStep
  <2>3. /\ m \in Message
        /\ accepted \in Seq(Message) /\ processed \in Seq(Message) /\ batch \in Seq(Message)
    BY <1>3 DEF TypeOK
  <2>4. accepted = processed \o batch
    BY <2>2 DEF InOrder, Waiting
  <2>5. \/ batch' = Append(batch, m) /\ UNCHANGED bookVars
        \/ batch' = <<m>> /\ ProcessBatch(batch)
    BY <1>10 DEF Enqueue
  <2> HIDE DEF m
  <2>6. Len(accepted') = Len(accepted) + 1
    BY <2>1, <2>3
  <2>7. Numbered'
    BY <2>1, <2>2, <2>3, <2>6 DEF Numbered
  <2>8. CallerInStep'
    BY <1>1, <1>4, <2>1, <2>2, <2>6 DEF CallerInStep
  <2>9. ControlInStep'
    BY <2>1, <2>2 DEF ControlInStep
  <2>10. CASE batch' = Append(batch, m) /\ UNCHANGED bookVars
    <3>1. accepted' = processed' \o batch'
      BY <2>1, <2>3, <2>4, <2>10, ConcatFacts DEF bookVars
    <3>2. InOrder'
      BY <2>1, <2>2, <3>1 DEF InOrder, Waiting
    <3>3. NoFalseAlarm' /\ BookInStep'
      BY <2>10 DEF NoFalseAlarm, BookInStep, bookVars
    <3>4. QED BY <2>7, <2>8, <2>9, <3>2, <3>3
  <2>11. CASE batch' = <<m>> /\ ProcessBatch(batch)
    <3>1. /\ processed' = accepted
          /\ lastProcessedSeqNum' = Len(accepted)
          /\ expectedTransactionNum' = Len(accepted) + 1
          /\ asked' = {}
      BY <2>2, <2>11, HandOver
    <3>2. accepted' = processed' \o batch'
      BY <2>1, <2>3, <2>11, <3>1, ConcatFacts
    <3>3. InOrder'
      BY <2>1, <2>2, <3>2 DEF InOrder, Waiting
    <3>4. NoFalseAlarm' /\ BookInStep'
      BY <3>1 DEF NoFalseAlarm, BookInStep
    <3>5. QED BY <2>7, <2>8, <2>9, <3>3, <3>4
  <2>12. QED BY <2>5, <2>10, <2>11
<1>11. QED BY <1>6, <1>7, <1>8, <1>9, <1>10 DEF Producer

\* The steps of the batch thread and of start() and stop().
LEMMA ServiceStep ==
  ASSUME MainThread, MainInv, TypeOK', Flusher \/ Timeout \/ Start \/ StartAnother
           \/ StopCalled \/ Stopping
  PROVE  MainInv'
<1> USE DEF MainInv
<1>1. /\ accepted \in Seq(Message) /\ processed \in Seq(Message) /\ batch \in Seq(Message)
  BY DEF TypeOK
\* Only where the batch thread or the controlling thread stands changes.
<1>2. ASSUME UNCHANGED <<running, batch, producerVars, starts, bookVars>>, ControlInStep',
             CallerInStep'
      PROVE  MainInv'
  <2>1. UNCHANGED <<accepted, lastProcessedSeqNum, expectedTransactionNum, processed, asked>>
    BY <1>2 DEF producerVars, bookVars
  <2>2. InOrder' /\ NoFalseAlarm' /\ Numbered' /\ BookInStep'
    BY <1>2, <2>1 DEF InOrder, Waiting, NoFalseAlarm, Numbered, BookInStep
  <2>3. QED BY <1>2, <2>2
<1>3. ASSUME UNCHANGED <<running, batch, producerVars, controlVars, bookVars>>
      PROVE  MainInv'
  <2>1. ControlInStep' /\ CallerInStep'
    BY <1>3 DEF ControlInStep, CallerInStep, producerVars, controlVars
  <2>2. QED BY <1>2, <1>3, <2>1 DEF controlVars
<1>4. CASE LoopTest \/ Sleep \/ Break \/ IdleRound \/ Timeout
  BY <1>3, <1>4 DEF LoopTest, Sleep, Break, IdleRound, Timeout
<1>5. CASE Flush
  <2>1. /\ running
        /\ ProcessBatch(batch)
        /\ batch' = <<>>
        /\ UNCHANGED <<running, accepted, control, starts, pc, held, transactionCounter>>
    BY <1>5 DEF Flush, producerVars, controlVars
  <2>2. /\ processed' = accepted
        /\ lastProcessedSeqNum' = Len(accepted)
        /\ expectedTransactionNum' = Len(accepted) + 1
        /\ asked' = {}
    BY <2>1, HandOver
  <2>3. accepted' = processed' \o batch'
    BY <1>1, <2>1, <2>2
  <2>4. InOrder' /\ NoFalseAlarm' /\ BookInStep'
    BY <2>1, <2>2, <2>3 DEF InOrder, Waiting, NoFalseAlarm, BookInStep
  <2>5. Numbered' /\ CallerInStep' /\ ControlInStep'
    BY <2>1 DEF Numbered, CallerInStep, ControlInStep
  <2>6. QED BY <2>4, <2>5
<1>6. CASE Start
  <2>1. /\ starts < MaxStarts /\ starts' = starts + 1 /\ starts \in Nat
        /\ running' /\ control = "down" /\ control' = "up" /\ ~running
        /\ UNCHANGED <<batch, accepted, pc, held, transactionCounter, bookVars>>
    BY <1>6 DEF Start, BeginRun, producerVars, TypeOK
  <2>2. starts = 0
    BY <1>6 DEF Start, MainThread
  <2>3. batch = <<>>
    BY <2>2 DEF ControlInStep
  <2>4. accepted = processed \o batch
    BY <1>1, <2>1, <2>3, ConcatFacts DEF InOrder, Waiting
  <2>5. InOrder'
    BY <2>1, <2>4 DEF InOrder, Waiting, bookVars
  <2>6. NoFalseAlarm' /\ Numbered' /\ BookInStep'
    BY <2>1 DEF NoFalseAlarm, Numbered, BookInStep, bookVars
  <2>7. CallerInStep'
    BY <2>1 DEF CallerInStep
  <2>8. starts' # 0
    BY <2>1
  <2>9. ControlInStep'
    BY <2>1, <2>8 DEF ControlInStep
  <2>10. QED BY <2>5, <2>6, <2>7, <2>9
<1>7. CASE StartAnother
  <2>1. /\ starts' = starts + 1 /\ starts \in Nat
        /\ running' /\ control = "down" /\ control' = "up" /\ ~running
        /\ batch' = <<>>
        /\ UNCHANGED <<accepted, pc, held, transactionCounter, bookVars>>
    BY <1>7 DEF StartAnother, BeginRun, producerVars, TypeOK
  <2>2. accepted = processed \o <<>>
    BY <2>1 DEF InOrder, Waiting
  <2>3. InOrder' /\ NoFalseAlarm' /\ Numbered' /\ BookInStep'
    BY <2>1, <2>2 DEF InOrder, Waiting, NoFalseAlarm, Numbered, BookInStep, bookVars
  <2>4. CallerInStep'
    BY <2>1 DEF CallerInStep
  <2>5. starts' # 0
    BY <2>1
  <2>6. ControlInStep'
    BY <2>1, <2>5 DEF ControlInStep
  <2>7. QED BY <2>3, <2>4, <2>6
<1>8. CASE StopCalled
  <2>1. /\ control = "up" /\ control' = "stopping" /\ starts # 0
        /\ \A p \in Producers : pc[p] = "idle"
        /\ UNCHANGED <<running, batch, producerVars, starts, bookVars>>
    BY <1>8 DEF StopCalled, MainThread, ControlInStep
  <2>2. ControlInStep' /\ CallerInStep'
    BY <2>1 DEF ControlInStep, CallerInStep, producerVars
  <2>3. QED BY <1>2, <2>1, <2>2
<1>9. CASE FinalBatch
  <2>1. /\ control = "stopping" /\ control' = "notifying"
        /\ ~running' /\ ProcessBatch(batch)
        /\ UNCHANGED <<batch, accepted, pc, held, transactionCounter, starts>>
    BY <1>9 DEF FinalBatch, producerVars
  <2>2. running /\ starts # 0
    BY <2>1 DEF ControlInStep
  <2>3. /\ processed' = accepted
        /\ lastProcessedSeqNum' = Len(accepted)
        /\ expectedTransactionNum' = Len(accepted) + 1
        /\ asked' = {}
    BY <2>1, <2>2, HandOver
  <2>4. processed' \o <<>> = accepted
    BY <1>1, <2>3
  <2>5. InOrder' /\ NoFalseAlarm' /\ BookInStep'
    BY <2>1, <2>3, <2>4 DEF InOrder, Waiting, NoFalseAlarm, BookInStep
  <2>6. Numbered' /\ CallerInStep' /\ ControlInStep'
    BY <2>1, <2>2 DEF Numbered, CallerInStep, ControlInStep
  <2>7. QED BY <2>5, <2>6
<1>10. CASE NotifyAll \/ Join
  <2>1. /\ control \in {"notifying", "joining"} /\ control' \in {"joining", "down"}
        /\ UNCHANGED <<running, batch, producerVars, starts, bookVars>>
    BY <1>10 DEF NotifyAll, Join
  <2>2. ControlInStep' /\ CallerInStep'
    BY <2>1 DEF ControlInStep, CallerInStep, producerVars
  <2>3. QED BY <1>2, <2>1, <2>2
<1>11. QED BY <1>4, <1>5, <1>6, <1>8, <1>9, <1>10, <1>7 DEF Flusher, Stopping

LEMMA MainStep == MainThread /\ MainInv /\ [Next]_vars => MainInv'
<1> SUFFICES ASSUME MainThread, MainInv, [Next]_vars PROVE MainInv'
  OBVIOUS
<1>1. TypeOK'
  BY TypeStep DEF MainInv
<1>2. CASE UNCHANGED vars
  BY <1>1, <1>2
     DEF MainInv, vars, producerVars, controlVars, bookVars, InOrder, Waiting, NoFalseAlarm,
         Numbered, CallerInStep, BookInStep, ControlInStep
<1>3. CASE Next
  BY <1>1, <1>3, ProducerStep, ServiceStep DEF Next
<1>4. QED BY <1>2, <1>3

\* One thread calling acceptOrder and then stop(): the orders matched, followed by
\* those still in the batch, are the orders accepted, for every capacity of a batch.
THEOREM MainInOrder == MainThread => (Spec => []InOrder)
<1> SUFFICES ASSUME MainThread PROVE Spec => []InOrder
  OBVIOUS
<1>1. MainInv /\ [Next]_vars => MainInv'
  BY MainStep
<1>2. MainInv => InOrder
  BY DEF MainInv
<1>3. QED BY InitMain, <1>1, <1>2, PTL DEF Spec

\* In that use of the gateway no gap is ever suspected: neither the snapshot nor the
\* retransmission service is asked for anything.
THEOREM MainNoFalseAlarm == MainThread => (Spec => []NoFalseAlarm)
<1> SUFFICES ASSUME MainThread PROVE Spec => []NoFalseAlarm
  OBVIOUS
<1>1. MainInv /\ [Next]_vars => MainInv'
  BY MainStep
<1>2. MainInv => NoFalseAlarm
  BY DEF MainInv
<1>3. QED BY InitMain, <1>1, <1>2, PTL DEF Spec

-----------------------------------------------------------------------------
(* Any number of callers, with stop() at any moment. *)

-----------------------------------------------------------------------------
(* Places an order can be in. *)

Holds(s, m) == \E k \in 1..Len(s) : s[k] = m

\* Every order of a is in one of the three sequences.
Kept(a, p, d, b) ==
  \A i \in 1..Len(a) : Holds(p, a[i]) \/ Holds(d, a[i]) \/ Holds(b, a[i])

LEMMA ConcatCases ==
  ASSUME NEW s \in Seq(Message), NEW t \in Seq(Message)
  PROVE  /\ s \o t \in Seq(Message)
         /\ Len(s \o t) = Len(s) + Len(t)
         /\ Len(s) \in Nat /\ Len(t) \in Nat
         /\ \A i \in 1..Len(s \o t) :
              \/ i \in 1..Len(s) /\ (s \o t)[i] = s[i]
              \/ i - Len(s) \in 1..Len(t) /\ (s \o t)[i] = t[i - Len(s)]
         /\ \A i \in 1..Len(s) : i \in 1..Len(s \o t) /\ (s \o t)[i] = s[i]
         /\ \A i \in 1..Len(t) :
              Len(s) + i \in 1..Len(s \o t) /\ (s \o t)[Len(s) + i] = t[i]
<1> DEFINE w == s \o t
<1>1. /\ w \in Seq(Message)
      /\ Len(w) = Len(s) + Len(t)
      /\ \A i \in 1..Len(s) + Len(t) : w[i] = IF i <= Len(s) THEN s[i] ELSE t[i - Len(s)]
      /\ Len(s) \in Nat /\ Len(t) \in Nat
  BY ConcatProperties
<1> HIDE DEF w
<1>2. ASSUME NEW i \in 1..Len(w)
      PROVE  \/ i \in 1..Len(s) /\ w[i] = s[i]
             \/ i - Len(s) \in 1..Len(t) /\ w[i] = t[i - Len(s)]
  BY <1>1
<1>3. ASSUME NEW i \in 1..Len(s) PROVE i \in 1..Len(w) /\ w[i] = s[i]
  BY <1>1
<1>4. ASSUME NEW i \in 1..Len(t) PROVE Len(s) + i \in 1..Len(w) /\ w[Len(s) + i] = t[i]
  BY <1>1
<1>5. QED BY <1>1, <1>2, <1>3, <1>4 DEF w

LEMMA HoldsConcat ==
  ASSUME NEW s \in Seq(Message), NEW t \in Seq(Message), NEW m, Holds(s, m) \/ Holds(t, m)
  PROVE  Holds(s \o t, m)
<1>1. CASE Holds(s, m)
  BY <1>1, ConcatCases DEF Holds
<1>2. CASE Holds(t, m)
  <2>1. PICK k \in 1..Len(t) : t[k] = m
    BY <1>2 DEF Holds
  <2>2. Len(s) + k \in 1..Len(s \o t) /\ (s \o t)[Len(s) + k] = t[k]
    BY ConcatCases
  <2>3. QED BY <2>1, <2>2 DEF Holds
<1>3. QED BY <1>1, <1>2

LEMMA HoldsAppend ==
  ASSUME NEW s \in Seq(Message), NEW m \in Message
  PROVE  /\ Holds(Append(s, m), m)
         /\ \A n : Holds(s, n) => Holds(Append(s, m), n)
<1> DEFINE t == Append(s, m)
<1>1. /\ Len(t) = Len(s) + 1 /\ Len(s) \in Nat
      /\ \A k \in 1..Len(s) : t[k] = s[k]
      /\ t[Len(s) + 1] = m
  OBVIOUS
<1> HIDE DEF t
<1>2. Len(s) + 1 \in 1..Len(t) /\ \A k \in 1..Len(s) : k \in 1..Len(t)
  BY <1>1
<1>3. QED BY <1>1, <1>2 DEF Holds, t

\* The batch goes to the book: matched or given up.
LEMMA HandledKept ==
  ASSUME NEW a, NEW p \in Seq(Message), NEW d \in Seq(Message),
         NEW b \in Seq(Message), NEW c, Kept(a, p, d, b)
  PROVE  Kept(a, p \o b, d, c) /\ Kept(a, p, d \o b, c)
<1>1. ASSUME NEW i \in 1..Len(a) PROVE Holds(p \o b, a[i]) \/ Holds(d, a[i])
  BY HoldsConcat DEF Kept
<1>2. ASSUME NEW i \in 1..Len(a) PROVE Holds(p, a[i]) \/ Holds(d \o b, a[i])
  BY HoldsConcat DEF Kept
<1>3. QED BY <1>1, <1>2 DEF Kept

\* An order is accepted into the batch.
LEMMA AddedKept ==
  ASSUME NEW a \in Seq(Message), NEW p \in Seq(Message), NEW d \in Seq(Message),
         NEW b \in Seq(Message), NEW m \in Message, Kept(a, p, d, b)
  PROVE  Kept(Append(a, m), p, d, Append(b, m))
<1> DEFINE c == Append(a, m)
<1>1. /\ Len(c) = Len(a) + 1 /\ Len(a) \in Nat
      /\ \A i \in 1..Len(a) : c[i] = a[i]
      /\ c[Len(a) + 1] = m
  OBVIOUS
<1> HIDE DEF c
<1>2. ASSUME NEW i \in 1..Len(c)
      PROVE  Holds(p, c[i]) \/ Holds(d, c[i]) \/ Holds(Append(b, m), c[i])
  <2>1. i \in 1..Len(a) \/ i = Len(a) + 1
    BY <1>1
  <2>2. CASE i \in 1..Len(a)
    BY <2>2, <1>1, HoldsAppend DEF Kept
  <2>3. CASE i = Len(a) + 1
    BY <2>3, <1>1, HoldsAppend
  <2>4. QED BY <2>1, <2>2, <2>3
<1>3. QED BY <1>2 DEF Kept, c

\* What AcceptedOnce and AcceptedKept call the places, in one sequence.
AllIn(a, z) == \A i \in DOMAIN a : \E k \in DOMAIN z : z[k] = a[i]

LEMMA KeptInPlaces ==
  ASSUME NEW a \in Seq(Message), NEW p \in Seq(Message), NEW d \in Seq(Message),
         NEW b \in Seq(Message), Kept(a, p, d, b)
  PROVE  AllIn(a, p \o d \o b)
<1> DEFINE w == p \o d
           z == w \o b
<1>1. w \in Seq(Message) /\ z \in Seq(Message)
  BY ConcatCases
<1>2. ASSUME NEW i \in 1..Len(a) PROVE Holds(z, a[i])
  <2>1. Holds(w, a[i]) \/ Holds(b, a[i])
    BY HoldsConcat DEF Kept
  <2> HIDE DEF w
  <2>2. QED BY <2>1, <1>1, HoldsConcat
<1> HIDE DEF z
<1>3. DOMAIN z = 1..Len(z) /\ DOMAIN a = 1..Len(a)
  BY <1>1
<1>4. QED BY <1>2, <1>3 DEF Holds, AllIn, z, w

-----------------------------------------------------------------------------
(* What a step does to the places. *)

\* The batch joins what was matched or what was given up.
Handled ==
  \/ processed' = processed \o batch /\ dropped' = dropped
  \/ processed' = processed /\ dropped' = dropped \o batch

LEMMA BatchHandled ==
  ASSUME TypeOK, ProcessBatch(batch)
  PROVE  Handled
<1>1. processed \in Seq(Message)
  BY DEF TypeOK
<1>2. CASE batch = <<>> /\ UNCHANGED bookVars
  <2>1. processed \o <<>> = processed
    BY <1>1
  <2>2. QED BY <1>2, <2>1 DEF bookVars, Handled
<1>3. CASE GiveUp(batch)
  BY <1>3 DEF GiveUp, Handled
<1>4. CASE Match(batch)
  BY <1>4 DEF Match, Handled
<1>5. QED BY <1>2, <1>3, <1>4 DEF ProcessBatch

placeVars == <<accepted, processed, dropped, batch>>

\* Every other step leaves all orders where they are.
Moves(p) ==
  /\ accepted' = Append(accepted, held[p])
  /\ \/ UNCHANGED <<processed, dropped>> /\ batch' = Append(batch, held[p])
     \/ Handled /\ batch' = <<held[p]>>

LEMMA EnqueueMoves ==
  ASSUME TypeOK, NEW p \in Producers, Enqueue(p)
  PROVE  Moves(p)
BY BatchHandled DEF Enqueue, Moves, bookVars

LEMMA StepMoves ==
  ASSUME TypeOK, [Next]_vars
  PROVE  \/ UNCHANGED placeVars
         \/ \E p \in Producers : Enqueue(p)
         \/ Flush \/ FinalBatch \/ StartAnother
<1>1. ASSUME NEW p \in Producers, Producer(p) PROVE UNCHANGED placeVars \/ Enqueue(p)
  BY <1>1 DEF Producer, Enter, LoadCounter, StoreCounter, Translate, placeVars, bookVars
<1>2. CASE Flusher
  BY <1>2
     DEF Flusher, LoopTest, Sleep, Break, IdleRound, placeVars, producerVars, bookVars
<1>3. CASE Timeout \/ Start \/ StopCalled
  BY <1>3 DEF Timeout, Start, StopCalled, placeVars, producerVars, bookVars
<1>4. CASE Stopping
  BY <1>4 DEF Stopping, NotifyAll, Join, placeVars, producerVars, bookVars
<1>5. CASE UNCHANGED vars
  BY <1>5 DEF vars, placeVars, producerVars, bookVars
<1>6. QED BY <1>1, <1>2, <1>3, <1>4, <1>5 DEF Next

-----------------------------------------------------------------------------
(* No accepted order vanishes. *)

KeptInv == TypeOK /\ Kept(accepted, processed, dropped, batch)

\* The two ways the places change.
LEMMA MovesKept ==
  ASSUME KeptInv, NEW p \in Producers, Moves(p)
  PROVE  Kept(accepted, processed, dropped, batch)'
<1>1. /\ accepted \in Seq(Message) /\ processed \in Seq(Message)
      /\ dropped \in Seq(Message) /\ batch \in Seq(Message)
      /\ held[p] \in Message
  BY DEF KeptInv, TypeOK
<1>2. Kept(accepted, processed, dropped, batch)
  BY DEF KeptInv
<1>3. CASE UNCHANGED <<processed, dropped>> /\ batch' = Append(batch, held[p])
  BY <1>1, <1>2, <1>3, AddedKept DEF Moves
<1>4. CASE Handled /\ batch' = <<held[p]>>
  <2>1. <<>> \in Seq(Message) /\ <<held[p]>> = Append(<<>>, held[p])
    OBVIOUS
  <2>2. /\ processed \o batch \in Seq(Message) /\ dropped \o batch \in Seq(Message)
        /\ Kept(accepted, processed \o batch, dropped, <<>>)
        /\ Kept(accepted, processed, dropped \o batch, <<>>)
    BY <1>1, <1>2, <2>1, HandledKept
  <2>3. /\ Kept(Append(accepted, held[p]), processed \o batch, dropped, <<held[p]>>)
        /\ Kept(Append(accepted, held[p]), processed, dropped \o batch, <<held[p]>>)
    BY <1>1, <2>1, <2>2, AddedKept, ZenonT(40)
  <2>4. QED BY <1>4, <2>3 DEF Handled, Moves
<1>5. QED BY <1>3, <1>4 DEF Moves

LEMMA HandledKeeps ==
  ASSUME KeptInv, Handled, UNCHANGED accepted
  PROVE  Kept(accepted, processed, dropped, batch)'
<1>1. /\ processed \in Seq(Message) /\ dropped \in Seq(Message) /\ batch \in Seq(Message)
      /\ Kept(accepted, processed, dropped, batch)
  BY DEF KeptInv, TypeOK
<1>2. /\ Kept(accepted, processed \o batch, dropped, batch')
      /\ Kept(accepted, processed, dropped \o batch, batch')
  BY <1>1, HandledKept
<1>3. QED BY <1>2 DEF Handled

LEMMA KeptStep == Restarts /\ KeptInv /\ [Next]_vars => KeptInv'
<1> SUFFICES ASSUME Restarts, KeptInv, [Next]_vars PROVE KeptInv'
  OBVIOUS
<1>1. TypeOK'
  BY TypeStep DEF KeptInv
<1>2. CASE UNCHANGED placeVars
  BY <1>1, <1>2 DEF KeptInv, placeVars
<1>3. ASSUME NEW p \in Producers, Enqueue(p) PROVE KeptInv'
  BY <1>1, <1>3, EnqueueMoves, MovesKept DEF KeptInv
<1>4. CASE Flush
  BY <1>1, <1>4, BatchHandled, HandledKeeps DEF KeptInv, Flush, producerVars
<1>5. CASE FinalBatch
  BY <1>1, <1>5, BatchHandled, HandledKeeps DEF KeptInv, FinalBatch, producerVars
<1>6. CASE StartAnother
  BY <1>6 DEF StartAnother
<1>7. QED BY <1>2, <1>3, <1>4, <1>5, <1>6, StepMoves DEF KeptInv

\* A gateway that is started again, not replaced, keeps every order it has accepted,
\* whatever the number of callers and wherever stop() finds them.
THEOREM ThreadsAcceptedKept == Restarts => (Spec => []AcceptedKept)
<1> SUFFICES ASSUME Restarts PROVE Spec => []AcceptedKept
  OBVIOUS
<1>1. Init => KeptInv
  <2> SUFFICES ASSUME Init PROVE KeptInv
    OBVIOUS
  <2>1. accepted = <<>>
    BY DEF Init
  <2>2. QED BY <2>1, InitType DEF KeptInv, Kept
<1>2. KeptInv /\ [Next]_vars => KeptInv'
  BY KeptStep
<1>3. KeptInv => AcceptedKept
  <2> SUFFICES ASSUME KeptInv PROVE AcceptedKept
    OBVIOUS
  <2>1. /\ accepted \in Seq(Message) /\ processed \in Seq(Message)
        /\ dropped \in Seq(Message) /\ batch \in Seq(Message)
        /\ Kept(accepted, processed, dropped, batch)
    BY DEF KeptInv, TypeOK
  <2>2. AllIn(accepted, processed \o dropped \o batch)
    BY <2>1, KeptInPlaces
  <2>3. QED BY <2>2 DEF AcceptedKept, AllIn
<1>4. QED BY <1>1, <1>2, <1>3, PTL DEF Spec

-----------------------------------------------------------------------------
(* The order of messages in a sequence and between sequences. *)

\* A client's orders are numbered in the order it sends them.
Earlier(m, n) == m.id # n.id /\ (m.by = n.by => m.id < n.id)

Orderly(s) == \A j, k \in 1..Len(s) : j < k => Earlier(s[j], s[k])
Precedes(s, t) == \A j \in 1..Len(s), k \in 1..Len(t) : Earlier(s[j], t[k])
Apart(s, t) == \A j \in 1..Len(s), k \in 1..Len(t) : s[j].id # t[k].id
Before(s, m) == \A j \in 1..Len(s) : Earlier(s[j], m)
Used(s, n) == \A j \in 1..Len(s) : s[j].id < n

LEMMA OrderlyConcat ==
  ASSUME NEW s \in Seq(Message), NEW t \in Seq(Message),
         Orderly(s), Orderly(t), Precedes(s, t)
  PROVE  Orderly(s \o t)
<1> DEFINE w == s \o t
<1>1. /\ Len(w) = Len(s) + Len(t)
      /\ Len(s) \in Nat /\ Len(t) \in Nat
      /\ \A i \in 1..Len(w) :
           \/ i \in 1..Len(s) /\ w[i] = s[i]
           \/ i - Len(s) \in 1..Len(t) /\ w[i] = t[i - Len(s)]
  BY ConcatCases
<1> HIDE DEF w
<1>2. ASSUME NEW j \in 1..Len(w), NEW k \in 1..Len(w), j < k PROVE Earlier(w[j], w[k])
  <2>1. CASE k \in 1..Len(s) /\ w[k] = s[k]
    <3>1. j \in 1..Len(s) /\ w[j] = s[j]
      BY <1>1, <1>2, <2>1
    <3>2. QED BY <1>2, <2>1, <3>1 DEF Orderly
  <2>2. CASE k - Len(s) \in 1..Len(t) /\ w[k] = t[k - Len(s)]
    <3>1. CASE j \in 1..Len(s) /\ w[j] = s[j]
      BY <2>2, <3>1 DEF Precedes
    <3>2. CASE j - Len(s) \in 1..Len(t) /\ w[j] = t[j - Len(s)]
      <4>1. j - Len(s) < k - Len(s)
        BY <1>1, <1>2
      <4>2. QED BY <2>2, <3>2, <4>1 DEF Orderly
    <3>3. QED BY <1>1, <3>1, <3>2
  <2>3. QED BY <1>1, <2>1, <2>2
<1>3. QED BY <1>2 DEF Orderly, w

\* What holds of the orders of two sequences holds of their concatenation.
LEMMA ConcatFits ==
  ASSUME NEW s \in Seq(Message), NEW t \in Seq(Message)
  PROVE  /\ \A m : Before(s, m) /\ Before(t, m) => Before(s \o t, m)
         /\ \A n : Used(s, n) /\ Used(t, n) => Used(s \o t, n)
         /\ \A r \in Seq(Message) :
              /\ Apart(s, r) /\ Apart(t, r) => Apart(s \o t, r)
              /\ Apart(r, s) /\ Apart(r, t) => Apart(r, s \o t)
<1> DEFINE w == s \o t
<1>1. \A i \in 1..Len(w) :
        \/ i \in 1..Len(s) /\ w[i] = s[i]
        \/ i - Len(s) \in 1..Len(t) /\ w[i] = t[i - Len(s)]
  BY ConcatCases
<1> HIDE DEF w
<1>2. ASSUME NEW m, Before(s, m), Before(t, m) PROVE Before(w, m)
  BY <1>1, <1>2 DEF Before
<1>3. ASSUME NEW n, Used(s, n), Used(t, n) PROVE Used(w, n)
  BY <1>1, <1>3 DEF Used
<1>4. ASSUME NEW r \in Seq(Message), Apart(s, r), Apart(t, r) PROVE Apart(w, r)
  BY <1>1, <1>4, ZenonT(40) DEF Apart
<1>5. ASSUME NEW r \in Seq(Message), Apart(r, s), Apart(r, t) PROVE Apart(r, w)
  BY <1>1, <1>5 DEF Apart
<1>6. QED BY <1>2, <1>3, <1>4, <1>5 DEF w

LEMMA AppendFits ==
  ASSUME NEW s \in Seq(Message), NEW m \in Message
  PROVE  /\ Orderly(s) /\ Before(s, m) => Orderly(Append(s, m))
         /\ \A r \in Seq(Message) :
              Precedes(r, s) /\ Before(r, m) => Precedes(r, Append(s, m))
         /\ \A n : Before(s, n) /\ Earlier(m, n) => Before(Append(s, m), n)
         /\ \A n : Used(s, n) /\ m.id < n => Used(Append(s, m), n)
<1> DEFINE t == Append(s, m)
<1>1. /\ Len(t) = Len(s) + 1 /\ Len(s) \in Nat
      /\ \A k \in 1..Len(s) : t[k] = s[k]
      /\ t[Len(s) + 1] = m
  OBVIOUS
<1> HIDE DEF t
<1>2. ASSUME NEW k \in 1..Len(t)
      PROVE  \/ k \in 1..Len(s) /\ t[k] = s[k]
             \/ k = Len(s) + 1 /\ t[k] = m
  BY <1>1
<1>3. ASSUME Orderly(s), Before(s, m) PROVE Orderly(t)
  <2>1. ASSUME NEW j \in 1..Len(t), NEW k \in 1..Len(t), j < k PROVE Earlier(t[j], t[k])
    <3>1. j \in 1..Len(s) /\ t[j] = s[j]
      BY <1>1, <2>1
    <3>2. CASE k \in 1..Len(s) /\ t[k] = s[k]
      BY <1>3, <2>1, <3>1, <3>2 DEF Orderly
    <3>3. CASE t[k] = m
      BY <1>3, <3>1, <3>3 DEF Before
    <3>4. QED BY <1>2, <3>2, <3>3
  <2>2. QED BY <2>1 DEF Orderly
<1>4. ASSUME NEW r \in Seq(Message), Precedes(r, s), Before(r, m) PROVE Precedes(r, t)
  BY <1>2, <1>4 DEF Precedes, Before
<1>5. ASSUME NEW n, Before(s, n), Earlier(m, n) PROVE Before(t, n)
  BY <1>2, <1>5 DEF Before
<1>6. ASSUME NEW n, Used(s, n), m.id < n PROVE Used(t, n)
  BY <1>2, <1>6 DEF Used
<1>7. QED BY <1>3, <1>4, <1>5, <1>6 DEF t

-----------------------------------------------------------------------------
(* The first run of a gateway. *)

\* Messages p matched, d given up and b in the batch, all with ids below n.
Tidy(p, d, b, n) ==
  /\ Orderly(p) /\ Orderly(d) /\ Orderly(b)
  /\ Precedes(p, b) /\ Precedes(d, b) /\ Apart(p, d)
  /\ Used(p, n) /\ Used(d, n) /\ Used(b, n)

\* The order m is in none of them and goes after all of its client's.
After(m, p, d, b) == Before(p, m) /\ Before(d, m) /\ Before(b, m)

LEMMA HandledTidy ==
  ASSUME NEW p \in Seq(Message), NEW d \in Seq(Message), NEW b \in Seq(Message),
         NEW n, Tidy(p, d, b, n)
  PROVE  Tidy(p \o b, d, <<>>, n) /\ Tidy(p, d \o b, <<>>, n)
<1> USE DEF Tidy
<1>1. Orderly(p \o b) /\ Orderly(d \o b)
  BY OrderlyConcat
<1>2. Used(p \o b, n) /\ Used(d \o b, n)
  BY ConcatFits
<1>3. /\ Apart(p, b) /\ Apart(d, b) /\ Apart(b, d)
  BY DEF Precedes, Apart, Earlier
<1>4. Apart(p \o b, d) /\ Apart(p, d \o b)
  BY <1>3, ConcatFits
<1>5. /\ Orderly(<<>>) /\ Used(<<>>, n)
      /\ \A s : Precedes(s, <<>>)
  BY DEF Orderly, Used, Precedes
<1>6. QED BY <1>1, <1>2, <1>4, <1>5

LEMMA HandledAfter ==
  ASSUME NEW p \in Seq(Message), NEW d \in Seq(Message), NEW b \in Seq(Message),
         NEW m, After(m, p, d, b)
  PROVE  After(m, p \o b, d, <<>>) /\ After(m, p, d \o b, <<>>)
<1>1. Before(p \o b, m) /\ Before(d \o b, m)
  BY ConcatFits DEF After
<1>2. Before(<<>>, m)
  BY DEF Before
<1>3. QED BY <1>1, <1>2 DEF After

LEMMA AddedTidy ==
  ASSUME NEW p \in Seq(Message), NEW d \in Seq(Message), NEW b \in Seq(Message),
         NEW n, NEW m \in Message, Tidy(p, d, b, n), After(m, p, d, b), m.id < n
  PROVE  Tidy(p, d, Append(b, m), n)
BY AppendFits DEF Tidy, After

LEMMA AddedAfter ==
  ASSUME NEW p, NEW d, NEW b \in Seq(Message), NEW m \in Message,
         NEW k, After(k, p, d, b), Earlier(m, k)
  PROVE  After(k, p, d, Append(b, m))
BY AppendFits DEF After

\* The sequence AcceptedOnce looks at.
LEMMA TidyInPlaces ==
  ASSUME NEW p \in Seq(Message), NEW d \in Seq(Message), NEW b \in Seq(Message),
         NEW n, Tidy(p, d, b, n)
  PROVE  /\ Len(p \o d \o b) = Len(p) + Len(d) + Len(b)
         /\ \A j, k \in DOMAIN (p \o d \o b) :
              (p \o d \o b)[j].id = (p \o d \o b)[k].id => j = k
<1> DEFINE w == p \o d
           z == w \o b
           Once(s) == \A j, k \in 1..Len(s) : s[j].id = s[k].id => j = k
<1>1. ASSUME NEW s \in Seq(Message), NEW t \in Seq(Message), Once(s), Once(t), Apart(s, t)
      PROVE  Once(s \o t)
  <2> DEFINE r == s \o t
  <2>1. /\ Len(r) = Len(s) + Len(t)
        /\ Len(s) \in Nat /\ Len(t) \in Nat
        /\ \A i \in 1..Len(r) :
             \/ i \in 1..Len(s) /\ r[i] = s[i]
             \/ i - Len(s) \in 1..Len(t) /\ r[i] = t[i - Len(s)]
    BY ConcatCases
  <2> HIDE DEF r
  <2>2. ASSUME NEW j \in 1..Len(r), NEW k \in 1..Len(r), r[j].id = r[k].id PROVE j = k
    <3>1. CASE j \in 1..Len(s) /\ r[j] = s[j]
      <4>1. CASE k \in 1..Len(s) /\ r[k] = s[k]
        BY <1>1, <2>2, <3>1, <4>1
      <4>2. CASE k - Len(s) \in 1..Len(t) /\ r[k] = t[k - Len(s)]
        BY <1>1, <2>2, <3>1, <4>2 DEF Apart
      <4>3. QED BY <2>1, <4>1, <4>2
    <3>2. CASE j - Len(s) \in 1..Len(t) /\ r[j] = t[j - Len(s)]
      <4>1. CASE k \in 1..Len(s) /\ r[k] = s[k]
        BY <1>1, <2>2, <3>2, <4>1 DEF Apart
      <4>2. CASE k - Len(s) \in 1..Len(t) /\ r[k] = t[k - Len(s)]
        <5>1. j - Len(s) = k - Len(s)
          BY <1>1, <2>2, <3>2, <4>2
        <5>2. QED BY <2>1, <5>1
      <4>3. QED BY <2>1, <4>1, <4>2
    <3>3. QED BY <2>1, <3>1, <3>2
  <2>3. QED BY <2>2 DEF r
<1>2. ASSUME NEW s \in Seq(Message), Orderly(s) PROVE Once(s)
  <2>1. ASSUME NEW j \in 1..Len(s), NEW k \in 1..Len(s), s[j].id = s[k].id PROVE j = k
    <3>1. ~(j < k) /\ ~(k < j)
      BY <1>2, <2>1 DEF Orderly, Earlier
    <3>2. QED BY <3>1
  <2>2. QED BY <2>1
<1>3. Once(p) /\ Once(d) /\ Once(b) /\ Apart(p, d)
  BY <1>2 DEF Tidy
<1>4. Apart(p, b) /\ Apart(d, b)
  BY DEF Tidy, Precedes, Apart, Earlier
<1> HIDE DEF Once
<1>5. w \in Seq(Message) /\ Once(w) /\ Apart(w, b) /\ Len(w) = Len(p) + Len(d)
  BY <1>1, <1>3, <1>4, ConcatCases, ConcatFits
<1> HIDE DEF w
<1>6. z \in Seq(Message) /\ Once(z) /\ Len(z) = Len(w) + Len(b)
  BY <1>1, <1>3, <1>5, ConcatCases
<1> HIDE DEF z
<1>7. DOMAIN z = 1..Len(z)
  BY <1>6
<1>8. \A j, k \in DOMAIN z : z[j].id = z[k].id => j = k
  BY <1>6, <1>7 DEF Once
<1>9. Len(z) = Len(p) + Len(d) + Len(b)
  BY <1>5, <1>6
<1>10. QED BY <1>8, <1>9 DEF z, w

-----------------------------------------------------------------------------
(* The inductive invariant of the first run. *)

\* The orders numbered and not yet in the batch come after all their client's.
HeldInTurn ==
  \A p \in Producers : pc[p] = "queue" =>
    /\ After(held[p], processed, dropped, batch)
    /\ held[p].id < transactionId
    /\ \A q \in Producers \ {p} : pc[q] = "queue" => held[p].id # held[q].id

FirstRun ==
  /\ Len(accepted) = Len(processed) + Len(dropped) + Len(batch)
  /\ Kept(accepted, processed, dropped, batch)
  /\ Tidy(processed, dropped, batch, transactionId)
  /\ HeldInTurn

Unstarted ==
  /\ ~running
  /\ pc = [p \in Producers |-> "idle"]
  /\ accepted = <<>> /\ processed = <<>> /\ dropped = <<>> /\ batch = <<>>

Owned == \A p \in Producers : held[p].by = p

ThreadsInv ==
  /\ TypeOK
  /\ Owned
  /\ starts = 0 => Unstarted
  /\ starts = 1 /\ running => FirstRun

LEMMA OwnedStep == TypeOK /\ Owned /\ [Next]_vars => Owned'
<1> SUFFICES ASSUME TypeOK, Owned, [Next]_vars PROVE Owned'
  OBVIOUS
<1>1. \A m \in Message : \A n :
        [m EXCEPT !.seq = n].by = m.by /\ [m EXCEPT !.id = n].by = m.by
  BY DEF Message
<1>2. ASSUME NEW p \in Producers, Producer(p) PROVE Owned'
  <2>1. CASE LoadCounter(p)
    <3>1. [held[p] EXCEPT !.seq = transactionCounter].by = held[p].by
      BY <1>1 DEF TypeOK
    <3>2. QED BY <2>1, <3>1 DEF LoadCounter, Owned, TypeOK
  <2>2. CASE Translate(p)
    <3>1. [held[p] EXCEPT !.id = transactionId].by = held[p].by
      BY <1>1 DEF TypeOK
    <3>2. QED BY <2>2, <3>1 DEF Translate, Owned, TypeOK
  <2>3. CASE Enter(p) \/ StoreCounter(p) \/ Enqueue(p)
    BY <2>3 DEF Enter, StoreCounter, Enqueue, Owned
  <2>4. QED BY <1>2, <2>1, <2>2, <2>3 DEF Producer
<1>3. CASE Flusher \/ Timeout \/ Start \/ StartAnother \/ StopCalled \/ Stopping
  BY <1>3
     DEF Flusher, LoopTest, Sleep, Break, Flush, IdleRound, Timeout, Start, StartAnother,
         StopCalled, Stopping, FinalBatch, NotifyAll, Join, producerVars, Owned
<1>4. CASE UNCHANGED vars
  BY <1>4 DEF vars, producerVars, Owned
<1>5. QED BY <1>2, <1>3, <1>4 DEF Next

\* The gateway runs on, stops, or is started.
LEMMA RunsOn ==
  ASSUME [Next]_vars
  PROVE  \/ Start \/ StartAnother
         \/ starts' = starts /\ (running' => running)
<1>1. ASSUME NEW p \in Producers, Producer(p) PROVE UNCHANGED <<starts, running>>
  BY <1>1 DEF Producer, Enter, LoadCounter, StoreCounter, Translate, Enqueue, controlVars
<1>2. CASE Flusher \/ Timeout
  BY <1>2 DEF Flusher, LoopTest, Sleep, Break, Flush, IdleRound, Timeout, controlVars
<1>3. CASE StopCalled \/ Stopping
  BY <1>3 DEF StopCalled, Stopping, FinalBatch, NotifyAll, Join
<1>4. CASE UNCHANGED vars
  BY <1>4 DEF vars, controlVars
<1>5. QED BY <1>1, <1>2, <1>3, <1>4 DEF Next

LEMMA UnstartedStep ==
  ASSUME TypeOK, starts = 0, Unstarted, [Next]_vars, ~(Start \/ StartAnother)
  PROVE  Unstarted'
<1>1. ~running'
  BY RunsOn DEF Unstarted
<1>2. ~\E p \in Producers : Producer(p)
  BY DEF Unstarted, Producer, Enter, LoadCounter, StoreCounter, Translate, Enqueue
<1>3. CASE Flusher \/ Timeout
  BY <1>1, <1>3
     DEF Unstarted, Flusher, LoopTest, Sleep, Break, Flush, IdleRound, Timeout,
         producerVars, bookVars
<1>4. CASE FinalBatch
  <2>1. UNCHANGED bookVars
    BY <1>4 DEF FinalBatch, ProcessBatch, Unstarted
  <2>2. QED BY <1>1, <1>4, <2>1 DEF Unstarted, FinalBatch, producerVars, bookVars
<1>5. CASE StopCalled \/ NotifyAll \/ Join
  BY <1>1, <1>5 DEF Unstarted, StopCalled, NotifyAll, Join, producerVars, bookVars
<1>6. CASE UNCHANGED vars
  BY <1>1, <1>6 DEF Unstarted, vars, producerVars, bookVars
<1>7. QED BY <1>2, <1>3, <1>4, <1>5, <1>6 DEF Next, Stopping

LEMMA StartFirst ==
  ASSUME TypeOK, Unstarted, starts = 0, Start
  PROVE  FirstRun'
<1>1. /\ accepted' = <<>> /\ processed' = <<>> /\ dropped' = <<>> /\ batch' = <<>>
      /\ pc' = [p \in Producers |-> "idle"]
  BY DEF Start, Unstarted, producerVars, bookVars
<1>2. Kept(accepted, processed, dropped, batch)'
  BY <1>1 DEF Kept
<1>3. Tidy(processed, dropped, batch, transactionId)'
  BY <1>1 DEF Tidy, Orderly, Precedes, Apart, Used
<1>4. Len(accepted') = Len(processed') + Len(dropped') + Len(batch')
  BY <1>1
<1>5. HeldInTurn'
  BY <1>1 DEF HeldInTurn
<1>6. QED BY <1>2, <1>3, <1>4, <1>5 DEF FirstRun

\* No order moves, and no further one is numbered.
LEMMA StillFirst ==
  ASSUME FirstRun, UNCHANGED placeVars, transactionId' = transactionId,
         \A p \in Producers : pc'[p] = "queue" => pc[p] = "queue" /\ held'[p] = held[p]
  PROVE  FirstRun'
<1>1. HeldInTurn'
  BY DEF FirstRun, HeldInTurn, placeVars
<1>2. QED BY <1>1 DEF FirstRun, placeVars

LEMMA TranslateFirst ==
  ASSUME TypeOK, Owned, FirstRun, NEW p \in Producers, Translate(p)
  PROVE  FirstRun'
<1> DEFINE n == transactionId
           m == [held[p] EXCEPT !.id = n]
<1>1. /\ \A q \in Producers : pc'[q] = IF q = p THEN "queue" ELSE pc[q]
      /\ \A q \in Producers : held'[q] = IF q = p THEN m ELSE held[q]
      /\ \A q \in Producers : held[q] \in Message
      /\ transactionId' = n + 1 /\ n \in Nat
      /\ UNCHANGED placeVars
  <2>1. /\ pc' = [pc EXCEPT ![p] = "queue"]
        /\ held' = [held EXCEPT ![p] = m]
        /\ transactionId' = n + 1
        /\ UNCHANGED placeVars
    BY DEF Translate, placeVars, bookVars
  <2> HIDE DEF m
  <2>2. QED BY <2>1 DEF TypeOK
<1>2. m.id = n
  BY <1>1 DEF Message
<1> HIDE DEF m
<1>3. ASSUME NEW s \in Seq(Message), Used(s, n) PROVE Before(s, m) /\ Used(s, n + 1)
  <2>1. ASSUME NEW j \in 1..Len(s) PROVE s[j].id < n /\ s[j].id \in Nat
    <3>1. s[j] \in Message
      OBVIOUS
    <3>2. s[j].id \in Nat
      BY <3>1 DEF Message
    <3>3. QED BY <1>3, <3>2 DEF Used
  <2>2. n \in Nat
    BY <1>1
  <2>3. \A j \in 1..Len(s) : s[j].id # n /\ s[j].id < n + 1
    BY <2>1, <2>2
  <2>4. QED BY <1>2, <2>1, <2>3 DEF Before, Earlier, Used
<1>4. /\ Tidy(processed, dropped, batch, n)
      /\ processed \in Seq(Message) /\ dropped \in Seq(Message) /\ batch \in Seq(Message)
  BY DEF FirstRun, TypeOK
<1>5. Tidy(processed, dropped, batch, n + 1) /\ After(m, processed, dropped, batch)
  BY <1>3, <1>4 DEF Tidy, After
<1>6. HeldInTurn'
  <2> SUFFICES ASSUME NEW q \in Producers, pc'[q] = "queue"
               PROVE  /\ After(held'[q], processed, dropped, batch)
                      /\ held'[q].id < n + 1
                      /\ \A r \in Producers \ {q} :
                           pc'[r] = "queue" => held'[q].id # held'[r].id
    BY <1>1 DEF HeldInTurn, placeVars
  <2>1. ASSUME NEW r \in Producers \ {p}, pc'[r] = "queue"
        PROVE  /\ pc[r] = "queue" /\ held'[r] = held[r]
               /\ held[r].id < n /\ held[r].id \in Nat
               /\ After(held[r], processed, dropped, batch)
    BY <1>1, <2>1 DEF FirstRun, HeldInTurn, Message
  <2>2. held'[p] = m
    BY <1>1
  <2>3. CASE q = p
    BY <1>1, <1>2, <1>5, <2>1, <2>2, <2>3
  <2>4. CASE q # p
    <3>1. held'[q].id < n + 1 /\ After(held'[q], processed, dropped, batch)
      BY <1>1, <2>1, <2>4
    <3>2. ASSUME NEW r \in Producers \ {q}, pc'[r] = "queue"
          PROVE  held'[q].id # held'[r].id
      <4>1. CASE r = p
        BY <1>1, <1>2, <2>1, <2>2, <2>4, <4>1
      <4>2. CASE r # p
        BY <2>1, <2>4, <3>2, <4>2 DEF FirstRun, HeldInTurn
      <4>3. QED BY <4>1, <4>2
    <3>3. QED BY <3>1, <3>2
  <2>5. QED BY <2>3, <2>4
<1>7. QED BY <1>1, <1>5, <1>6 DEF FirstRun, placeVars

LEMMA HandledFirst ==
  ASSUME TypeOK, FirstRun, Handled
  PROVE  /\ processed' \in Seq(Message) /\ dropped' \in Seq(Message)
         /\ Len(accepted) = Len(processed') + Len(dropped')
         /\ Kept(accepted, processed', dropped', <<>>)
         /\ Tidy(processed', dropped', <<>>, transactionId)
         /\ \A m : After(m, processed, dropped, batch)
                     => After(m, processed', dropped', <<>>)
<1> DEFINE pb == processed \o batch
           db == dropped \o batch
<1>1. /\ processed \in Seq(Message) /\ dropped \in Seq(Message) /\ batch \in Seq(Message)
      /\ Kept(accepted, processed, dropped, batch)
      /\ Tidy(processed, dropped, batch, transactionId)
      /\ Len(accepted) = Len(processed) + Len(dropped) + Len(batch)
  BY DEF FirstRun, TypeOK
<1>2. /\ Kept(accepted, pb, dropped, <<>>) /\ Kept(accepted, processed, db, <<>>)
  BY <1>1, HandledKept
<1>3. /\ Tidy(pb, dropped, <<>>, transactionId) /\ Tidy(processed, db, <<>>, transactionId)
  BY <1>1, HandledTidy
<1>4. \A m : After(m, processed, dropped, batch)
               => After(m, pb, dropped, <<>>) /\ After(m, processed, db, <<>>)
  BY <1>1, HandledAfter
<1>5. /\ pb \in Seq(Message) /\ Len(pb) = Len(processed) + Len(batch)
      /\ db \in Seq(Message) /\ Len(db) = Len(dropped) + Len(batch)
      /\ Len(processed) \in Nat /\ Len(dropped) \in Nat /\ Len(batch) \in Nat
  BY <1>1, ConcatCases
<1>6. \/ processed' = pb /\ dropped' = dropped
      \/ processed' = processed /\ dropped' = db
  BY DEF Handled
<1> HIDE DEF pb, db
<1>7. Len(accepted) = Len(processed') + Len(dropped')
  <2>1. /\ Len(accepted) = Len(processed) + Len(dropped) + Len(batch)
        /\ Len(pb) = Len(processed) + Len(batch)
        /\ Len(db) = Len(dropped) + Len(batch)
        /\ Len(processed) \in Nat /\ Len(dropped) \in Nat /\ Len(batch) \in Nat
    BY <1>1, <1>5
  <2>2. /\ Len(accepted) = Len(pb) + Len(dropped)
        /\ Len(accepted) = Len(processed) + Len(db)
    BY <2>1
  <2>3. QED BY <1>6, <2>2
<1>8. CASE processed' = pb /\ dropped' = dropped
  BY <1>1, <1>2, <1>3, <1>4, <1>5, <1>7, <1>8
<1>9. CASE processed' = processed /\ dropped' = db
  BY <1>1, <1>2, <1>3, <1>4, <1>5, <1>7, <1>9
<1>10. QED BY <1>6, <1>8, <1>9

LEMMA FlushFirst ==
  ASSUME TypeOK, FirstRun, Flush
  PROVE  FirstRun'
<1>1. Handled /\ batch' = <<>> /\ UNCHANGED producerVars
  BY BatchHandled DEF Flush
<1>2. UNCHANGED <<accepted, pc, held, transactionId>>
  BY <1>1 DEF producerVars
<1>3. HeldInTurn'
  BY <1>1, <1>2, HandledFirst DEF FirstRun, HeldInTurn
<1>4. Len(accepted') = Len(processed') + Len(dropped') + Len(batch')
  <2>1. Len(accepted) = Len(processed') + Len(dropped') /\ Len(batch') = 0
        /\ Len(processed') \in Nat /\ Len(dropped') \in Nat
    BY <1>1, HandledFirst
  <2>2. QED BY <1>2, <2>1
<1>5. Kept(accepted, processed, dropped, batch)'
      /\ Tidy(processed, dropped, batch, transactionId)'
  BY <1>1, <1>2, HandledFirst
<1>6. QED BY <1>3, <1>4, <1>5 DEF FirstRun

\* An order joins a batch b when p and d hold all accepted before that are not in it.
LEMMA JoinFirst ==
  ASSUME TypeOK, Owned, FirstRun, NEW u \in Producers, Enqueue(u),
         processed' \in Seq(Message), dropped' \in Seq(Message),
         NEW b \in Seq(Message), batch' = Append(b, held[u]),
         Len(accepted) = Len(processed') + Len(dropped') + Len(b),
         Kept(accepted, processed', dropped', b),
         Tidy(processed', dropped', b, transactionId),
         \A m : After(m, processed, dropped, batch) => After(m, processed', dropped', b)
  PROVE  FirstRun'
<1> DEFINE m == held[u]
<1>1. /\ m \in Message /\ accepted \in Seq(Message)
      /\ pc[u] = "queue"
      /\ \A q \in Producers : pc'[q] = IF q = u THEN "idle" ELSE pc[q]
      /\ accepted' = Append(accepted, m)
      /\ UNCHANGED <<held, transactionId>>
  BY DEF Enqueue, TypeOK
<1>2. m.id < transactionId /\ After(m, processed', dropped', b)
  BY <1>1 DEF FirstRun, HeldInTurn
<1>3. /\ Len(accepted') = Len(accepted) + 1 /\ Len(batch') = Len(b) + 1
      /\ Len(processed') \in Nat /\ Len(dropped') \in Nat /\ Len(b) \in Nat
  <2> HIDE DEF m
  <2>1. accepted' = Append(accepted, m) /\ accepted \in Seq(Message) /\ m \in Message
    BY <1>1
  <2>2. batch' = Append(b, m)
    BY DEF m
  <2>3. QED BY <2>1, <2>2, SMTT(30)
<1>4. Len(accepted') = Len(processed') + Len(dropped') + Len(batch')
  BY <1>3
<1>5. Kept(accepted, processed, dropped, batch)'
  BY <1>1, AddedKept
<1>6. Tidy(processed, dropped, batch, transactionId)'
  BY <1>1, <1>2, AddedTidy
<1>7. HeldInTurn'
  <2> SUFFICES ASSUME NEW q \in Producers, pc'[q] = "queue"
               PROVE  /\ After(held[q], processed', dropped', batch')
                      /\ held[q].id < transactionId
                      /\ \A r \in Producers \ {q} :
                           pc'[r] = "queue" => held[q].id # held[r].id
    BY <1>1 DEF HeldInTurn
  <2>1. q # u /\ pc[q] = "queue" /\ \A r \in Producers : pc'[r] = "queue" => pc[r] = "queue"
    BY <1>1
  <2>2. /\ After(held[q], processed', dropped', b)
        /\ held[q].id < transactionId
        /\ \A r \in Producers \ {q} : pc'[r] = "queue" => held[q].id # held[r].id
        /\ held[q].id # m.id
    BY <1>1, <2>1 DEF FirstRun, HeldInTurn
  <2>3. Earlier(m, held[q])
    BY <2>1, <2>2 DEF Owned, Earlier
  <2>4. QED BY <1>1, <2>2, <2>3, AddedAfter
<1>8. QED BY <1>4, <1>5, <1>6, <1>7 DEF FirstRun

LEMMA EnqueueFirst ==
  ASSUME TypeOK, Owned, FirstRun, NEW u \in Producers, Enqueue(u)
  PROVE  FirstRun'
<1>1. Moves(u)
  BY EnqueueMoves
<1>2. CASE UNCHANGED <<processed, dropped>> /\ batch' = Append(batch, held[u])
  <2>1. processed \in Seq(Message) /\ dropped \in Seq(Message) /\ batch \in Seq(Message)
    BY DEF TypeOK
  <2>2. QED BY <1>2, <2>1, JoinFirst DEF FirstRun
<1>3. CASE Handled /\ batch' = <<held[u]>>
  <2>1. <<>> \in Seq(Message) /\ batch' = Append(<<>>, held[u])
    BY <1>3
  <2>2. /\ processed' \in Seq(Message) /\ dropped' \in Seq(Message)
        /\ Len(accepted) = Len(processed') + Len(dropped')
        /\ Kept(accepted, processed', dropped', <<>>)
        /\ Tidy(processed', dropped', <<>>, transactionId)
        /\ \A m : After(m, processed, dropped, batch)
                    => After(m, processed', dropped', <<>>)
    BY <1>3, HandledFirst
  <2>3. Len(accepted) = Len(processed') + Len(dropped') + Len(<<>>)
    <3>1. Len(processed') \in Nat /\ Len(dropped') \in Nat
      BY <2>2
    <3>2. Len(<<>>) = 0
      OBVIOUS
    <3>3. QED BY <2>2, <3>1, <3>2
  <2>4. QED BY <2>1, <2>2, <2>3, JoinFirst
<1>4. QED BY <1>1, <1>2, <1>3 DEF Moves

LEMMA FirstStep ==
  ASSUME TypeOK, Owned, starts = 1, FirstRun, [Next]_vars, running'
  PROVE  FirstRun' \/ starts' # 1
<1>1. ASSUME NEW p \in Producers, Producer(p) PROVE FirstRun'
  <2>1. CASE Enter(p)
    <3>1. UNCHANGED placeVars /\ transactionId' = transactionId /\ held' = held
          /\ pc' = [pc EXCEPT ![p] = "load"]
      BY <2>1 DEF Enter, placeVars, bookVars
    <3>2. QED BY <3>1, StillFirst DEF TypeOK
  <2>2. CASE LoadCounter(p)
    <3>1. UNCHANGED placeVars /\ transactionId' = transactionId
          /\ held' = [held EXCEPT ![p].seq = transactionCounter]
          /\ pc' = [pc EXCEPT ![p] = "store"]
      BY <2>2 DEF LoadCounter, placeVars, bookVars
    <3>2. ASSUME NEW q \in Producers, pc'[q] = "queue"
          PROVE  pc[q] = "queue" /\ held'[q] = held[q]
      BY <3>1, <3>2 DEF TypeOK
    <3>3. QED BY <3>1, <3>2, StillFirst
  <2>3. CASE StoreCounter(p)
    <3>1. UNCHANGED placeVars /\ transactionId' = transactionId /\ held' = held
          /\ pc' = [pc EXCEPT ![p] = "translate"]
      BY <2>3 DEF StoreCounter, placeVars, bookVars
    <3>2. QED BY <3>1, StillFirst DEF TypeOK
  <2>4. QED BY <1>1, <2>1, <2>2, <2>3, TranslateFirst, EnqueueFirst DEF Producer
<1>2. ASSUME UNCHANGED <<producerVars, batch, bookVars>> PROVE FirstRun'
  BY <1>2, StillFirst DEF producerVars, bookVars, placeVars
<1>3. CASE LoopTest \/ Sleep \/ Break \/ IdleRound \/ Timeout
  BY <1>2, <1>3 DEF LoopTest, Sleep, Break, IdleRound, Timeout
<1>4. CASE StopCalled \/ NotifyAll \/ Join
  BY <1>2, <1>4 DEF StopCalled, NotifyAll, Join
<1>5. CASE FinalBatch
  BY <1>5 DEF FinalBatch
<1>6. CASE Start \/ StartAnother
  BY <1>6 DEF Start, StartAnother, BeginRun
<1>7. CASE UNCHANGED vars
  BY <1>2, <1>7 DEF vars
<1>8. QED BY <1>1, <1>3, <1>4, <1>5, <1>6, <1>7, FlushFirst DEF Next, Flusher, Stopping

LEMMA ThreadsStep == ThreadsInv /\ [Next]_vars => ThreadsInv'
<1> SUFFICES ASSUME ThreadsInv, [Next]_vars PROVE ThreadsInv'
  OBVIOUS
<1> USE DEF ThreadsInv
<1>1. TypeOK' /\ Owned'
  BY TypeStep, OwnedStep
<1>2. starts \in Nat /\ running \in BOOLEAN
  BY DEF TypeOK
<1>3. CASE Start \/ StartAnother
  <2>1. starts' = starts + 1
    BY <1>3 DEF Start, StartAnother, BeginRun
  <2>2. starts' # 0
    BY <1>2, <2>1
  <2>3. ASSUME starts' = 1 PROVE FirstRun'
    <3>1. starts = 0
      BY <1>2, <2>1, <2>3
    <3>2. Start
      BY <1>3, <3>1 DEF StartAnother
    <3>3. QED BY <3>1, <3>2, StartFirst
  <2>4. QED BY <1>1, <2>2, <2>3
<1>4. CASE ~(Start \/ StartAnother)
  <2>1. starts' = starts /\ (running' => running)
    BY <1>4, RunsOn
  <2>2. starts' = 0 => Unstarted'
    BY <1>4, <2>1, UnstartedStep
  <2>3. starts' = 1 /\ running' => FirstRun'
    BY <2>1, FirstStep
  <2>4. QED BY <1>1, <2>2, <2>3
<1>5. QED BY <1>3, <1>4

LEMMA ThreadsInvariance == Spec => []ThreadsInv
<1>1. Init => ThreadsInv
  <2> SUFFICES ASSUME Init PROVE ThreadsInv
    OBVIOUS
  <2>1. Owned
    BY DEF Init, Owned
  <2>2. Unstarted /\ starts = 0
    BY DEF Init, Unstarted
  <2>3. QED BY <2>1, <2>2, InitType DEF ThreadsInv
<1>2. QED BY <1>1, ThreadsStep, PTL DEF Spec

\* From start() to the locked part of stop() every accepted order is matched, given up
\* or in the batch, in one of these places and once, for any number of callers, any
\* capacity and whatever gaps the book sees.
THEOREM ThreadsAcceptedOnce == Spec => []AcceptedOnce
<1>1. ThreadsInv => AcceptedOnce
  <2> SUFFICES ASSUME ThreadsInv, starts = 1, running
               PROVE  LET places == processed \o dropped \o batch
                      IN  /\ Len(places) = Len(accepted)
                          /\ AllIn(accepted, places)
                          /\ \A j, k \in DOMAIN places :
                               places[j].id = places[k].id => j = k
    BY DEF AcceptedOnce, AllIn
  <2> DEFINE places == processed \o dropped \o batch
  <2>1. /\ accepted \in Seq(Message) /\ processed \in Seq(Message)
        /\ dropped \in Seq(Message) /\ batch \in Seq(Message)
        /\ Kept(accepted, processed, dropped, batch)
        /\ Tidy(processed, dropped, batch, transactionId)
        /\ Len(accepted) = Len(processed) + Len(dropped) + Len(batch)
    BY DEF ThreadsInv, TypeOK, FirstRun
  <2>2. AllIn(accepted, places)
    BY <2>1, KeptInPlaces
  <2>3. /\ Len(places) = Len(processed) + Len(dropped) + Len(batch)
        /\ \A j, k \in DOMAIN places : places[j].id = places[k].id => j = k
    BY <2>1, TidyInPlaces
  <2> HIDE DEF places
  <2>4. Len(places) = Len(accepted)
    BY <2>1, <2>3
  <2>5. QED BY <2>2, <2>3, <2>4 DEF places
<1>2. QED BY <1>1, ThreadsInvariance, PTL

-----------------------------------------------------------------------------
(* The orders of one client, run after run.  Ids tell them apart. *)

\* m comes after its client's orders in s; those of s are in the client's order.
InTurn(s, m) == \A j \in 1..Len(s) : s[j].by = m.by => s[j].id < m.id

Rising(s) ==
  \A j, k \in 1..Len(s) : j < k /\ s[j].by = s[k].by => s[j].id < s[k].id

\* What ClientOrderKept says of what was matched.
Rematched(s) ==
  \A j, k \in 1..Len(s) :
    j < k /\ s[j].by = s[k].by /\ s[k].id < s[j].id => \E i \in 1..j - 1 : s[i] = s[k]

\* The batch holds orders that come after all that were matched of their client, and,
\* after a stop(), orders that were matched.
NewOrMatched(p, b) == \A i \in 1..Len(b) : Holds(p, b[i]) \/ InTurn(p, b[i])

LEMMA MatchedAgain ==
  ASSUME NEW p \in Seq(Message), NEW b \in Seq(Message),
         Rematched(p), Rising(b), NewOrMatched(p, b)
  PROVE  Rematched(p \o b)
<1> DEFINE w == p \o b
<1>1. /\ Len(p) \in Nat /\ Len(b) \in Nat
      /\ \A i \in 1..Len(w) :
           \/ i \in 1..Len(p) /\ w[i] = p[i]
           \/ i - Len(p) \in 1..Len(b) /\ w[i] = b[i - Len(p)]
      /\ \A i \in 1..Len(p) : w[i] = p[i]
  BY ConcatCases
<1>2. /\ \A i \in 1..Len(p) : p[i].id \in Nat
      /\ \A i \in 1..Len(b) : b[i].id \in Nat
  <2>1. \A m \in Message : m.id \in Nat
    BY DEF Message
  <2>2. QED BY <2>1
<1> HIDE DEF w
<1>3. ASSUME NEW j \in 1..Len(w), NEW k \in 1..Len(w), j < k, w[j].by = w[k].by,
             w[k].id < w[j].id
      PROVE  \E i \in 1..j - 1 : w[i] = w[k]
  <2>1. CASE k \in 1..Len(p) /\ w[k] = p[k]
    <3>1. j \in 1..Len(p) /\ w[j] = p[j]
      BY <1>1, <1>3, <2>1
    <3>2. PICK i \in 1..j - 1 : p[i] = p[k]
      BY <1>3, <2>1, <3>1 DEF Rematched
    <3>3. i \in 1..Len(p)
      BY <3>1
    <3>4. QED BY <1>1, <2>1, <3>2, <3>3
  <2>2. CASE k - Len(p) \in 1..Len(b) /\ w[k] = b[k - Len(p)]
    <3> DEFINE m == b[k - Len(p)]
    <3>1. CASE j \in 1..Len(p) /\ w[j] = p[j]
      <4>1. p[j].id \in Nat /\ m.id \in Nat /\ m.id < p[j].id /\ p[j].by = m.by
        BY <1>2, <1>3, <2>2, <3>1
      <4>2. ~InTurn(p, m)
        BY <3>1, <4>1 DEF InTurn
      <4>3. PICK i \in 1..Len(p) : p[i] = m
        BY <2>2, <4>2 DEF NewOrMatched, Holds
      <4>4. CASE i < j
        BY <1>1, <2>2, <4>3, <4>4
      <4>5. CASE j < i
        <5>1. PICK h \in 1..j - 1 : p[h] = p[i]
          BY <3>1, <4>1, <4>3, <4>5 DEF Rematched
        <5>2. h \in 1..Len(p)
          BY <3>1
        <5>3. QED BY <1>1, <2>2, <4>3, <5>1, <5>2
      <4>6. i # j
        BY <4>1, <4>3
      <4>7. QED BY <4>4, <4>5, <4>6
    <3>2. CASE j - Len(p) \in 1..Len(b) /\ w[j] = b[j - Len(p)]
      <4>1. j - Len(p) < k - Len(p)
        BY <1>1, <1>3
      <4>2. b[j - Len(p)].id < m.id
        BY <1>3, <2>2, <3>2, <4>1 DEF Rising
      <4>3. QED BY <1>2, <1>3, <2>2, <3>2, <4>2
    <3>3. QED BY <1>1, <3>1, <3>2
  <2>3. QED BY <1>1, <2>1, <2>2
<1>4. QED BY <1>3 DEF Rematched, w

LEMMA ConcatInTurn ==
  ASSUME NEW s \in Seq(Message), NEW t \in Seq(Message)
  PROVE  /\ \A m : InTurn(s, m) /\ InTurn(t, m) => InTurn(s \o t, m)
         /\ NewOrMatched(s \o t, t)
<1> DEFINE w == s \o t
<1>1. \A i \in 1..Len(w) :
        \/ i \in 1..Len(s) /\ w[i] = s[i]
        \/ i - Len(s) \in 1..Len(t) /\ w[i] = t[i - Len(s)]
  BY ConcatCases
<1>2. \A i \in 1..Len(t) : Holds(w, t[i])
  <2>1. \A i \in 1..Len(t) : Holds(t, t[i])
    BY DEF Holds
  <2>2. QED BY <2>1, HoldsConcat
<1> HIDE DEF w
<1>3. ASSUME NEW m, InTurn(s, m), InTurn(t, m) PROVE InTurn(w, m)
  BY <1>1, <1>3 DEF InTurn
<1>4. QED BY <1>2, <1>3 DEF NewOrMatched, w

LEMMA AppendInTurn ==
  ASSUME NEW p, NEW s \in Seq(Message), NEW m \in Message
  PROVE  /\ Rising(s) /\ InTurn(s, m) => Rising(Append(s, m))
         /\ NewOrMatched(p, s) /\ InTurn(p, m) => NewOrMatched(p, Append(s, m))
         /\ \A n : InTurn(s, n) /\ m.by # n.by => InTurn(Append(s, m), n)
<1> DEFINE t == Append(s, m)
<1>1. /\ Len(t) = Len(s) + 1 /\ Len(s) \in Nat
      /\ \A k \in 1..Len(s) : t[k] = s[k]
      /\ t[Len(s) + 1] = m
  OBVIOUS
<1> HIDE DEF t
<1>2. ASSUME NEW k \in 1..Len(t)
      PROVE  \/ k \in 1..Len(s) /\ t[k] = s[k]
             \/ k = Len(s) + 1 /\ t[k] = m
  BY <1>1
<1>3. ASSUME Rising(s), InTurn(s, m) PROVE Rising(t)
  <2>1. ASSUME NEW j \in 1..Len(t), NEW k \in 1..Len(t), j < k, t[j].by = t[k].by
        PROVE  t[j].id < t[k].id
    <3>1. j \in 1..Len(s) /\ t[j] = s[j]
      BY <1>1, <2>1
    <3>2. CASE k \in 1..Len(s) /\ t[k] = s[k]
      BY <1>3, <2>1, <3>1, <3>2 DEF Rising
    <3>3. CASE t[k] = m
      BY <1>3, <2>1, <3>1, <3>3 DEF InTurn
    <3>4. QED BY <1>2, <3>2, <3>3
  <2>2. QED BY <2>1 DEF Rising
<1>4. ASSUME NewOrMatched(p, s), InTurn(p, m) PROVE NewOrMatched(p, t)
  BY <1>2, <1>4 DEF NewOrMatched
<1>5. ASSUME NEW n, InTurn(s, n), m.by # n.by PROVE InTurn(t, n)
  BY <1>2, <1>5 DEF InTurn
<1>6. QED BY <1>3, <1>4, <1>5 DEF t

\* Every run's batch, what was matched in all runs, and the orders numbered and not yet
\* in the batch.
ClientsInTurn(p, b, n) ==
  /\ Rematched(p) /\ Rising(b) /\ NewOrMatched(p, b)
  /\ Used(p, n) /\ Used(b, n)

HeldAfterOwn ==
  \A q \in Producers : pc[q] = "queue" =>
    InTurn(processed, held[q]) /\ InTurn(batch, held[q]) /\ held[q].id < transactionId

ClientsInv ==
  /\ TypeOK
  /\ Owned
  /\ ClientsInTurn(processed, batch, transactionId)
  /\ HeldAfterOwn

\* The book is given the batch, and the batch b that is left is empty or the same.
LEMMA HandledInTurn ==
  ASSUME ClientsInv, Handled, NEW b, b = <<>> \/ b = batch
  PROVE  /\ processed' \in Seq(Message)
         /\ ClientsInTurn(processed', b, transactionId)
         /\ \A m : InTurn(processed, m) /\ InTurn(batch, m) =>
                     InTurn(processed', m) /\ InTurn(b, m)
<1>1. /\ processed \in Seq(Message) /\ batch \in Seq(Message)
      /\ ClientsInTurn(processed, batch, transactionId)
  BY DEF ClientsInv, TypeOK
<1>2. /\ Rising(<<>>) /\ Used(<<>>, transactionId)
      /\ \A s : NewOrMatched(s, <<>>) /\ \A m : InTurn(<<>>, m)
  BY DEF Rising, Used, NewOrMatched, InTurn
<1>3. CASE processed' = processed
  BY <1>1, <1>2, <1>3 DEF ClientsInTurn
<1>4. CASE processed' = processed \o batch
  <2> DEFINE w == processed \o batch
  <2>1. w \in Seq(Message) /\ Rematched(w) /\ Used(w, transactionId)
    BY <1>1, MatchedAgain, ConcatCases, ConcatFits DEF ClientsInTurn
  <2>2. /\ NewOrMatched(w, batch)
        /\ \A m : InTurn(processed, m) /\ InTurn(batch, m) => InTurn(w, m)
    BY <1>1, ConcatInTurn
  <2> HIDE DEF w
  <2>3. processed' = w
    BY <1>4 DEF w
  <2>4. QED BY <1>1, <1>2, <2>1, <2>2, <2>3 DEF ClientsInTurn
<1>5. QED BY <1>3, <1>4 DEF Handled

\* No order moves, and no further one is numbered.
LEMMA StillInTurn ==
  ASSUME ClientsInv, TypeOK', Owned', UNCHANGED <<processed, batch, transactionId>>,
         \A q \in Producers : pc'[q] = "queue" => pc[q] = "queue" /\ held'[q] = held[q]
  PROVE  ClientsInv'
<1>1. ClientsInTurn(processed, batch, transactionId)'
  BY DEF ClientsInv
<1>2. HeldAfterOwn'
  BY DEF ClientsInv, HeldAfterOwn
<1>3. QED BY <1>1, <1>2 DEF ClientsInv

\* The batch goes to the book.
LEMMA ProcessInTurn ==
  ASSUME ClientsInv, TypeOK', Owned', ProcessBatch(batch), batch' = <<>> \/ batch' = batch,
         UNCHANGED producerVars
  PROVE  ClientsInv'
<1>1. Handled /\ UNCHANGED <<pc, held, transactionId>>
  BY BatchHandled DEF ClientsInv, producerVars
<1>2. ClientsInTurn(processed, batch, transactionId)'
  BY <1>1, HandledInTurn
<1>3. HeldAfterOwn'
  BY <1>1, HandledInTurn DEF ClientsInv, HeldAfterOwn
<1>4. QED BY <1>2, <1>3 DEF ClientsInv

\* A new gateway has an empty batch.
LEMMA AnotherInTurn ==
  ASSUME ClientsInv, TypeOK', Owned', StartAnother
  PROVE  ClientsInv'
<1>1. batch' = <<>> /\ UNCHANGED <<pc, held, transactionId, processed>>
  BY DEF StartAnother, producerVars, bookVars
<1>2. /\ Rising(<<>>) /\ Used(<<>>, transactionId)
      /\ \A s : NewOrMatched(s, <<>>) /\ \A m : InTurn(<<>>, m)
  BY DEF Rising, Used, NewOrMatched, InTurn
<1>3. ClientsInTurn(processed, batch, transactionId)'
  BY <1>1, <1>2 DEF ClientsInv, ClientsInTurn
<1>4. HeldAfterOwn'
  BY <1>1, <1>2 DEF ClientsInv, HeldAfterOwn
<1>5. QED BY <1>3, <1>4 DEF ClientsInv

LEMMA TranslateInTurn ==
  ASSUME ClientsInv, TypeOK', Owned', NEW p \in Producers, Translate(p)
  PROVE  ClientsInv'
<1> DEFINE n == transactionId
           m == [held[p] EXCEPT !.id = n]
<1>1. /\ \A q \in Producers : pc'[q] = IF q = p THEN "queue" ELSE pc[q]
      /\ \A q \in Producers : held'[q] = IF q = p THEN m ELSE held[q]
      /\ \A q \in Producers : held[q] \in Message
      /\ transactionId' = n + 1 /\ n \in Nat
      /\ UNCHANGED <<processed, batch>>
  <2>1. /\ pc' = [pc EXCEPT ![p] = "queue"]
        /\ held' = [held EXCEPT ![p] = m]
        /\ transactionId' = n + 1
        /\ UNCHANGED <<processed, batch>>
    BY DEF Translate, bookVars
  <2> HIDE DEF m
  <2>2. QED BY <2>1 DEF ClientsInv, TypeOK
<1>2. m.id = n
  BY <1>1 DEF Message
<1> HIDE DEF m
<1>3. ASSUME NEW s \in Seq(Message), Used(s, n) PROVE InTurn(s, m) /\ Used(s, n + 1)
  <2>1. ASSUME NEW j \in 1..Len(s) PROVE s[j].id < n /\ s[j].id < n + 1
    <3>1. s[j] \in Message
      OBVIOUS
    <3>2. s[j].id \in Nat
      BY <3>1 DEF Message
    <3>3. QED BY <1>1, <1>3, <3>2 DEF Used
  <2>2. QED BY <1>2, <2>1 DEF InTurn, Used
<1>4. /\ ClientsInTurn(processed, batch, n)
      /\ processed \in Seq(Message) /\ batch \in Seq(Message)
  BY DEF ClientsInv, TypeOK
<1>5. /\ Used(processed, n + 1) /\ Used(batch, n + 1)
      /\ InTurn(processed, m) /\ InTurn(batch, m)
  BY <1>3, <1>4 DEF ClientsInTurn
<1>6. ClientsInTurn(processed, batch, transactionId)'
  BY <1>1, <1>4, <1>5 DEF ClientsInTurn
<1>7. HeldAfterOwn'
  <2> SUFFICES ASSUME NEW q \in Producers, pc'[q] = "queue"
               PROVE  /\ InTurn(processed, held'[q]) /\ InTurn(batch, held'[q])
                      /\ held'[q].id < n + 1
    BY <1>1 DEF HeldAfterOwn
  <2>1. CASE q = p
    BY <1>1, <1>2, <1>5, <2>1
  <2>2. CASE q # p
    <3>1. pc[q] = "queue" /\ held'[q] = held[q]
      BY <1>1, <2>2
    <3>2. /\ InTurn(processed, held[q]) /\ InTurn(batch, held[q])
          /\ held[q].id < n /\ held[q].id \in Nat
      BY <1>1, <3>1 DEF ClientsInv, HeldAfterOwn, Message
    <3>3. QED BY <1>1, <3>1, <3>2
  <2>3. QED BY <2>1, <2>2
<1>8. QED BY <1>6, <1>7 DEF ClientsInv

LEMMA EnqueueInTurn ==
  ASSUME ClientsInv, TypeOK', Owned', NEW u \in Producers, Enqueue(u)
  PROVE  ClientsInv'
<1> DEFINE m == held[u]
<1>1. /\ m \in Message
      /\ pc[u] = "queue"
      /\ \A q \in Producers : pc'[q] = IF q = u THEN "idle" ELSE pc[q]
      /\ UNCHANGED <<held, transactionId>>
      /\ processed \in Seq(Message) /\ batch \in Seq(Message)
  BY DEF Enqueue, ClientsInv, TypeOK
<1>2. InTurn(processed, m) /\ InTurn(batch, m) /\ m.id < transactionId
  BY <1>1 DEF ClientsInv, HeldAfterOwn
<1>3. PICK b \in Seq(Message) :
        /\ batch' = Append(b, m)
        /\ ClientsInTurn(processed', b, transactionId)
        /\ \A k : InTurn(processed, k) /\ InTurn(batch, k) =>
                    InTurn(processed', k) /\ InTurn(b, k)
  <2>1. CASE UNCHANGED processed /\ batch' = Append(batch, m)
    BY <1>1, <2>1 DEF ClientsInv
  <2>2. CASE Handled /\ batch' = <<m>>
    <3>1. <<>> \in Seq(Message) /\ batch' = Append(<<>>, m)
      BY <2>2
    <3>2. /\ ClientsInTurn(processed', <<>>, transactionId)
          /\ \A k : InTurn(processed, k) /\ InTurn(batch, k) =>
                      InTurn(processed', k) /\ InTurn(<<>>, k)
      BY <2>2, HandledInTurn
    <3>3. QED BY <3>1, <3>2
  <2>3. QED BY <2>1, <2>2, EnqueueMoves DEF ClientsInv, Moves
<1>4. /\ Rising(batch') /\ NewOrMatched(processed', batch')
      /\ \A k : InTurn(b, k) /\ m.by # k.by => InTurn(batch', k)
  <2>1. InTurn(processed', m) /\ InTurn(b, m)
    BY <1>2, <1>3
  <2>2. QED BY <1>1, <1>3, <2>1, AppendInTurn DEF ClientsInTurn
<1>5. Used(batch', transactionId)
  BY <1>1, <1>2, <1>3, AppendFits DEF ClientsInTurn
<1>6. ClientsInTurn(processed, batch, transactionId)'
  BY <1>1, <1>3, <1>4, <1>5 DEF ClientsInTurn
<1>7. HeldAfterOwn'
  <2> SUFFICES ASSUME NEW q \in Producers, pc'[q] = "queue"
               PROVE  /\ InTurn(processed', held[q]) /\ InTurn(batch', held[q])
                      /\ held[q].id < transactionId
    BY <1>1 DEF HeldAfterOwn
  <2>1. q # u /\ pc[q] = "queue"
    BY <1>1
  <2>2. /\ InTurn(processed, held[q]) /\ InTurn(batch, held[q])
        /\ held[q].id < transactionId /\ m.by # held[q].by
    BY <2>1 DEF ClientsInv, HeldAfterOwn, Owned
  <2>3. QED BY <1>3, <1>4, <2>2
<1>8. QED BY <1>6, <1>7 DEF ClientsInv

LEMMA ClientsStep == ClientsInv /\ [Next]_vars => ClientsInv'
<1> SUFFICES ASSUME ClientsInv, [Next]_vars PROVE ClientsInv'
  OBVIOUS
<1>1. TypeOK' /\ Owned' /\ TypeOK
  BY TypeStep, OwnedStep DEF ClientsInv
<1>2. ASSUME NEW p \in Producers, Enter(p) \/ LoadCounter(p) \/ StoreCounter(p)
      PROVE  ClientsInv'
  <2>1. CASE Enter(p)
    <3>1. /\ UNCHANGED <<processed, batch, transactionId, held>>
          /\ pc' = [pc EXCEPT ![p] = "load"]
      BY <2>1 DEF Enter, bookVars
    <3>2. QED BY <1>1, <3>1, StillInTurn DEF TypeOK
  <2>2. CASE LoadCounter(p)
    <3>1. /\ UNCHANGED <<processed, batch, transactionId>>
          /\ held' = [held EXCEPT ![p].seq = transactionCounter]
          /\ pc' = [pc EXCEPT ![p] = "store"]
      BY <2>2 DEF LoadCounter, bookVars
    <3>2. ASSUME NEW q \in Producers, pc'[q] = "queue"
          PROVE  pc[q] = "queue" /\ held'[q] = held[q]
      BY <1>1, <3>1, <3>2 DEF TypeOK
    <3>3. QED BY <1>1, <3>1, <3>2, StillInTurn
  <2>3. CASE StoreCounter(p)
    <3>1. /\ UNCHANGED <<processed, batch, transactionId, held>>
          /\ pc' = [pc EXCEPT ![p] = "translate"]
      BY <2>3 DEF StoreCounter, bookVars
    <3>2. QED BY <1>1, <3>1, StillInTurn DEF TypeOK
  <2>4. QED BY <1>2, <2>1, <2>2, <2>3
<1>3. ASSUME UNCHANGED <<producerVars, batch, bookVars>> PROVE ClientsInv'
  BY <1>1, <1>3, StillInTurn DEF producerVars, bookVars
<1>4. CASE LoopTest \/ Sleep \/ Break \/ IdleRound \/ Timeout
  BY <1>3, <1>4 DEF LoopTest, Sleep, Break, IdleRound, Timeout
<1>5. CASE Start \/ StopCalled \/ NotifyAll \/ Join
  BY <1>3, <1>5 DEF Start, StopCalled, NotifyAll, Join
<1>6. CASE Flush \/ FinalBatch
  BY <1>1, <1>6, ProcessInTurn DEF Flush, FinalBatch
<1>7. CASE UNCHANGED vars
  BY <1>3, <1>7 DEF vars
<1>8. QED
  BY <1>1, <1>2, <1>4, <1>5, <1>6, <1>7, AnotherInTurn, TranslateInTurn, EnqueueInTurn
     DEF Next, Producer, Flusher, Stopping

\* In every run of a gateway, its final batch and its restarts included, the orders of
\* one client are matched in the order it sent them, whoever else sends and whatever
\* batches are given up in between; one that is matched after a later one of its client
\* is matched again.
THEOREM ThreadsClientOrder == Spec => []ClientOrderKept
<1>1. Init => ClientsInv
  <2> SUFFICES ASSUME Init PROVE ClientsInv
    OBVIOUS
  <2>1. Owned
    BY DEF Init, Owned
  <2>2. processed = <<>> /\ batch = <<>>
    BY DEF Init
  <2>3. ClientsInTurn(processed, batch, transactionId)
    BY <2>2 DEF ClientsInTurn, Rematched, Rising, NewOrMatched, Used
  <2>4. HeldAfterOwn
    BY DEF Init, HeldAfterOwn
  <2>5. QED BY <2>1, <2>3, <2>4, InitType DEF ClientsInv
<1>2. ClientsInv => ClientOrderKept
  <2> SUFFICES ASSUME ClientsInv PROVE ClientOrderKept
    OBVIOUS
  <2>1. DOMAIN processed = 1..Len(processed) /\ Rematched(processed)
    BY DEF ClientsInv, TypeOK, ClientsInTurn
  <2>2. QED BY <2>1 DEF ClientOrderKept, Rematched
<1>3. QED BY <1>1, <1>2, ClientsStep, PTL DEF Spec

-----------------------------------------------------------------------------
(* The safety part of ImplementsOrderFlow. *)

\* The ids are given out in the order of acceptance, and no more than the bound allows.
CountInStep ==
  \A p \in Producers :
    /\ pc[p] = "idle" => transactionId = Len(accepted)
    /\ pc[p] \in {"load", "store", "translate"} =>
         transactionId = Len(accepted) /\ Len(accepted) < MaxOrders
    /\ pc[p] = "queue" =>
         /\ held[p].id = Len(accepted) /\ transactionId = Len(accepted) + 1
         /\ Len(accepted) < MaxOrders

FlowInv == MainInv /\ CountInStep

-----------------------------------------------------------------------------

LEMMA PrefixOfConcat ==
  ASSUME NEW s \in Seq(Message), NEW t \in Seq(Message)
  PROVE  Flow!StartsWith(s \o t, s) /\ Flow!StartsWith(s, s)
<1>1. Len(s) <= Len(s \o t) /\ s = SubSeq(s \o t, 1, Len(s))
  OBVIOUS
<1>2. s = SubSeq(s, 1, Len(s))
  OBVIOUS
<1>3. QED BY <1>1, <1>2 DEF Flow!StartsWith

LEMMA CountStep ==
  ASSUME MainThread, FlowInv, [Next]_vars
  PROVE  CountInStep'
<1>1. /\ transactionId \in Nat /\ accepted \in Seq(Message) /\ MaxOrders \in Nat
      /\ \A p \in Producers : held[p] \in Message
      /\ \A p, q \in Producers : p = q
  BY GatewayAssumption DEF FlowInv, MainInv, TypeOK, MainThread
<1>2. ASSUME UNCHANGED producerVars PROVE CountInStep'
  BY <1>2 DEF FlowInv, CountInStep, producerVars
<1>3. ASSUME NEW p \in Producers, Producer(p) PROVE CountInStep'
  <2>1. CASE Enter(p)
    <3>1. /\ pc[p] = "idle" /\ transactionId + Cardinality(InFlight) < MaxOrders
          /\ pc' = [pc EXCEPT ![p] = "load"]
          /\ UNCHANGED <<held, transactionId, accepted>>
      BY <2>1 DEF Enter
    <3>2. InFlight = {}
      BY <1>1, <3>1 DEF InFlight
    <3>3. Cardinality(InFlight) = 0
      BY <3>2, FS_EmptySet
    <3>4. transactionId = Len(accepted) /\ Len(accepted) < MaxOrders
      BY <1>1, <3>1, <3>3 DEF FlowInv, CountInStep
    <3>5. \A q \in Producers : pc'[q] = "load"
      BY <1>1, <3>1 DEF FlowInv, MainInv, TypeOK
    <3>6. QED BY <3>1, <3>4, <3>5 DEF CountInStep
  <2>2. CASE LoadCounter(p) \/ StoreCounter(p)
    <3>1. /\ pc[p] \in {"load", "store"}
          /\ pc' = [pc EXCEPT ![p] = "store"] \/ pc' = [pc EXCEPT ![p] = "translate"]
          /\ UNCHANGED <<transactionId, accepted>>
      BY <2>2 DEF LoadCounter, StoreCounter
    <3>2. \A q \in Producers : pc'[q] \in {"store", "translate"}
      BY <1>1, <3>1 DEF FlowInv, MainInv, TypeOK
    <3>3. transactionId = Len(accepted) /\ Len(accepted) < MaxOrders
      BY <3>1 DEF FlowInv, CountInStep
    <3>4. QED BY <3>1, <3>2, <3>3 DEF CountInStep
  <2>3. CASE Translate(p)
    <3> DEFINE m == [held[p] EXCEPT !.id = transactionId]
    <3>1. /\ pc[p] = "translate"
          /\ pc' = [pc EXCEPT ![p] = "queue"]
          /\ held' = [held EXCEPT ![p] = m]
          /\ transactionId' = transactionId + 1
          /\ accepted' = accepted
      BY <2>3 DEF Translate
    <3>2. m.id = transactionId
      BY <1>1 DEF Message
    <3> HIDE DEF m
    <3>3. \A q \in Producers : pc'[q] = "queue" /\ held'[q] = m
      BY <1>1, <3>1 DEF FlowInv, MainInv, TypeOK
    <3>4. transactionId = Len(accepted) /\ Len(accepted) < MaxOrders
      BY <3>1 DEF FlowInv, CountInStep
    <3>5. QED BY <3>1, <3>2, <3>3, <3>4 DEF CountInStep
  <2>4. CASE Enqueue(p)
    <3>1. /\ pc[p] = "queue"
          /\ pc' = [pc EXCEPT ![p] = "idle"]
          /\ accepted' = Append(accepted, held[p])
          /\ transactionId' = transactionId
      BY <2>4 DEF Enqueue
    <3>2. \A q \in Producers : pc'[q] = "idle"
      BY <1>1, <3>1 DEF FlowInv, MainInv, TypeOK
    <3>3. Len(accepted') = Len(accepted) + 1
      <4> DEFINE m == held[p]
      <4>1. m \in Message /\ accepted' = Append(accepted, m)
        BY <1>1, <3>1
      <4> HIDE DEF m
      <4>2. QED BY <1>1, <4>1
    <3>4. transactionId' = Len(accepted')
      BY <3>1, <3>3 DEF FlowInv, CountInStep
    <3>5. QED BY <3>2, <3>4 DEF CountInStep
  <2>5. QED BY <1>3, <2>1, <2>2, <2>3, <2>4 DEF Producer
<1>4. CASE Flusher \/ Timeout \/ Start \/ StartAnother \/ StopCalled \/ Stopping
  <2>1. UNCHANGED producerVars
    BY <1>4
       DEF Flusher, LoopTest, Sleep, Break, Flush, IdleRound, Timeout, Start, StartAnother,
           StopCalled, Stopping, FinalBatch, NotifyAll, Join
  <2>2. QED BY <1>2, <2>1
<1>5. CASE UNCHANGED vars
  BY <1>2, <1>5 DEF vars
<1>6. QED BY <1>3, <1>4, <1>5 DEF Next

LEMMA FlowInvariance == MainThread => (Spec => []FlowInv)
<1> SUFFICES ASSUME MainThread PROVE Spec => []FlowInv
  OBVIOUS
<1>1. Init => FlowInv
  <2> SUFFICES ASSUME Init PROVE FlowInv
    OBVIOUS
  <2>1. /\ transactionId = 0 /\ accepted = <<>>
        /\ \A p \in Producers : pc[p] = "idle"
    BY DEF Init
  <2>2. CountInStep
    BY <2>1 DEF CountInStep
  <2>3. QED BY <2>2, InitMain DEF FlowInv
<1>2. FlowInv /\ [Next]_vars => FlowInv'
  BY MainStep, CountStep DEF FlowInv
<1>3. QED BY <1>1, <1>2, PTL DEF Spec

-----------------------------------------------------------------------------

\* What is accepted next is a message of the flow.
LEMMA AcceptsMessage ==
  ASSUME MainThread, FlowInv, [Next]_vars
  PROVE  \/ UNCHANGED accepted
         \/ \E m \in [id: 0..MaxOrders - 1, seq: 1..MaxOrders, by: Producers] :
              accepted' = Append(accepted, m)
<1>1. ASSUME NEW p \in Producers, Enqueue(p)
      PROVE  \E m \in [id: 0..MaxOrders - 1, seq: 1..MaxOrders, by: Producers] :
               accepted' = Append(accepted, m)
  <2>1. /\ pc[p] = "queue" /\ accepted' = Append(accepted, held[p])
        /\ held[p] \in Message
        /\ accepted \in Seq(Message) /\ MaxOrders \in Nat
    BY <1>1, GatewayAssumption DEF Enqueue, FlowInv, MainInv, TypeOK
  <2>2. /\ held[p].id = Len(accepted) /\ held[p].seq = Len(accepted) + 1
        /\ Len(accepted) < MaxOrders
    BY <2>1 DEF FlowInv, CountInStep, MainInv, CallerInStep
  <2>3. Len(accepted) \in 0..MaxOrders - 1 /\ Len(accepted) + 1 \in 1..MaxOrders
    BY <2>1, <2>2
  <2>4. held[p] \in [id: 0..MaxOrders - 1, seq: 1..MaxOrders, by: Producers]
    BY <2>1, <2>2, <2>3 DEF Message
  <2>5. QED BY <2>1, <2>4
<1>2. TypeOK
  BY DEF FlowInv, MainInv
<1>3. CASE UNCHANGED placeVars \/ Flush \/ FinalBatch \/ StartAnother
  BY <1>3 DEF placeVars, Flush, FinalBatch, StartAnother, producerVars
<1>4. QED BY <1>1, <1>2, <1>3, StepMoves

\* What is matched is never taken back.
LEMMA ProcessedGrows ==
  ASSUME FlowInv, [Next]_vars
  PROVE  Flow!StartsWith(processed', processed)
<1>1. TypeOK /\ processed \in Seq(Message) /\ batch \in Seq(Message)
  BY DEF FlowInv, MainInv, TypeOK
<1>2. \/ processed' = processed
      \/ processed' = processed \o batch
  <2>1. CASE UNCHANGED placeVars
    BY <2>1 DEF placeVars
  <2>2. ASSUME NEW p \in Producers, Enqueue(p)
        PROVE  processed' = processed \/ processed' = processed \o batch
    BY <1>1, <2>2, EnqueueMoves DEF Moves, Handled
  <2>3. CASE Flush \/ FinalBatch
    BY <1>1, <2>3, BatchHandled DEF Flush, FinalBatch, Handled
  <2>4. CASE StartAnother
    BY <2>4 DEF StartAnother, bookVars
  <2>5. QED BY <1>1, <2>1, <2>2, <2>3, <2>4, StepMoves
<1>3. QED BY <1>1, <1>2, PrefixOfConcat

\* Used by one thread the gateway is an OrderFlow, its liveness left aside: one order
\* after the other is accepted, and what is matched is at any time the beginning of
\* what was accepted.
THEOREM MainIsOrderFlow == MainThread => (Spec => Flow!FlowSafety)
<1> SUFFICES ASSUME MainThread PROVE Spec => Flow!FlowSafety
  OBVIOUS
<1>1. Init => Flow!FlowInit
  BY DEF Init, Flow!FlowInit
<1>2. FlowInv /\ FlowInv' /\ [Next]_vars => [Flow!FlowNext]_Flow!flow
  <2> SUFFICES ASSUME FlowInv, FlowInv', [Next]_vars PROVE Flow!FlowNext
    OBVIOUS
  <2>1. /\ processed' \in Seq(Message) /\ Waiting' \in Seq(Message)
        /\ accepted' = processed' \o Waiting'
    BY DEF FlowInv, MainInv, TypeOK, InOrder, Waiting
  <2>2. Flow!StartsWith(accepted', processed')
    BY <2>1, PrefixOfConcat
  <2>3. QED BY <2>2, AcceptsMessage, ProcessedGrows DEF Flow!FlowNext
<1>3. Spec => []FlowInv
  BY FlowInvariance
<1>4. QED BY <1>1, <1>2, <1>3, PTL DEF Spec, Flow!FlowSafety

=============================================================================
