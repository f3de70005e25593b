------------------------- MODULE NotificationProofs -------------------------
(***************************************************************************)
(* What a client hears, for any number of services that share the lock and *)
(* the condition variable, any clients and any number of restarts.         *)
(***************************************************************************)
EXTENDS NotificationRefinement, Arithmetic, SequenceTheorems, TLAPS

\* The thread that starts and stops a service knows whether its processing thread
\* exists, and only a thread on its way to dispatch holds an event.
ThreadsInStep ==
  \A s \in Services :
    /\ notifier[s] = "none" <=> control[s] \in {"down", "draining"}
    /\ notifier[s] = "dispatch" => Len(held[s]) = 1
    /\ notifier[s] # "dispatch" => held[s] = <<>>

\* Client c has heard l: its share, in order, of the first g of the events p.
Heard(l, c, p, g) ==
  /\ \A j, k \in 1..Len(l) : j < k => l[j].n < l[k].n
  /\ \A j \in 1..Len(l) : \E m \in 1..g : p[m].user = c /\ l[j] = p[m]
  /\ \A m \in 1..g : p[m].user = c => \E j \in 1..Len(l) : l[j] = p[m]

\* Of the events p pushed to a service, q are in the queue, h in the thread's hand,
\* and the others the clients have heard.
Handed(p, h, q) == Len(p) - Len(q) - Len(h)

Kept(p, h, q, in) ==
  /\ Handed(p, h, q) \in Nat
  /\ \A i \in 1..Len(p) : p[i].n = i
  /\ \A i \in 1..Len(q) : q[i] = p[Len(p) - Len(q) + i]
  /\ \A i \in 1..Len(h) : h[i] = p[Handed(p, h, q) + i]
  /\ \A c \in Clients : Heard(in[c], c, p, Handed(p, h, q))

EventsKept == \A s \in Services : Kept(pushed[s], held[s], queue[s], inbox[s])

\* With the order book stopped first, a service that is down has an empty queue.
EmptyWhenDown ==
  QuiesceBeforeStop => \A s \in Services : control[s] = "down" => queue[s] = <<>>

Inv == TypeOK /\ ThreadsInStep /\ EventsKept /\ EmptyWhenDown

-----------------------------------------------------------------------------
(* What a client has heard. *)

LEMMA HeardNext ==
  ASSUME NEW p \in Seq(Event), NEW c, NEW l \in Seq(Event),
         NEW g \in Nat, g < Len(p), \A i \in 1..Len(p) : p[i].n = i, Heard(l, c, p, g)
  PROVE  Heard(IF c = p[g + 1].user THEN Append(l, p[g + 1]) ELSE l, c, p, g + 1)
<1>1. g + 1 \in 1..Len(p) /\ p[g + 1] \in Event
  OBVIOUS
<1>2. CASE c = p[g + 1].user
  <2> DEFINE m == Append(l, p[g + 1])
  <2>1. /\ Len(m) = Len(l) + 1
        /\ \A j \in 1..Len(l) : m[j] = l[j]
        /\ m[Len(l) + 1] = p[g + 1]
    BY <1>1
  <2> HIDE DEF m
  <2>2. \A j \in 1..Len(l) : l[j].n <= g /\ l[j].n \in Nat
    BY SMTT(30) DEF Heard
  <2>3. Len(l) \in Nat
    OBVIOUS
  <2>4. \A j, k \in 1..Len(m) : j < k => m[j].n < m[k].n
    <3> SUFFICES ASSUME NEW j \in 1..Len(m), NEW k \in 1..Len(m), j < k
                 PROVE  m[j].n < m[k].n
      OBVIOUS
    <3>1. j \in 1..Len(l)
      BY <2>1, <2>3
    <3>2. CASE k \in 1..Len(l)
      BY <3>1, <3>2, <2>1 DEF Heard
    <3>3. CASE k = Len(l) + 1
      <4>1. m[k].n = g + 1
        BY <3>3, <2>1, <1>1
      <4>2. m[j].n <= g /\ m[j].n \in Nat
        BY <3>1, <2>1, <2>2
      <4>3. QED BY <4>1, <4>2
    <3>4. k \in 1..Len(l) \/ k = Len(l) + 1
      BY <2>1, <2>3
    <3>5. QED BY <3>2, <3>3, <3>4
  <2>5. \A j \in 1..Len(m) : \E i \in 1..g + 1 : p[i].user = c /\ m[j] = p[i]
    <3> SUFFICES ASSUME NEW j \in 1..Len(m)
                 PROVE  \E i \in 1..g + 1 : p[i].user = c /\ m[j] = p[i]
      OBVIOUS
    <3>1. CASE j \in 1..Len(l)
      <4>1. PICK i \in 1..g : p[i].user = c /\ l[j] = p[i]
        BY <3>1 DEF Heard
      <4>2. i \in 1..g + 1 /\ m[j] = p[i]
        BY <3>1, <4>1, <2>1
      <4>3. QED BY <4>1, <4>2
    <3>2. CASE j = Len(l) + 1
      BY <3>2, <2>1, <1>2
    <3>3. j \in 1..Len(l) \/ j = Len(l) + 1
      BY <2>1, <2>3
    <3>4. QED BY <3>1, <3>2, <3>3
  <2>6. \A i \in 1..g + 1 : p[i].user = c => \E j \in 1..Len(m) : m[j] = p[i]
    <3> SUFFICES ASSUME NEW i \in 1..g + 1, p[i].user = c
                 PROVE  \E j \in 1..Len(m) : m[j] = p[i]
      OBVIOUS
    <3>1. CASE i \in 1..g
      <4>1. PICK j \in 1..Len(l) : l[j] = p[i]
        BY <3>1 DEF Heard
      <4>2. j \in 1..Len(m) /\ m[j] = p[i]
        BY <4>1, <2>1, <2>3
      <4>3. QED BY <4>2
    <3>2. CASE i = g + 1
      BY <3>2, <2>1, <2>3
    <3>3. QED BY <3>1, <3>2
  <2>7. QED BY <1>2, <2>4, <2>5, <2>6 DEF Heard, m
<1>3. CASE c # p[g + 1].user
  BY <1>1, <1>3 DEF Heard
<1>4. QED BY <1>2, <1>3

LEMMA HeardPush ==
  ASSUME NEW p \in Seq(Event), NEW c, NEW l \in Seq(Event), NEW e \in Event,
         NEW g \in Nat, g <= Len(p), Heard(l, c, p, g)
  PROVE  Heard(l, c, Append(p, e), g)
<1>1. \A i \in 1..g : Append(p, e)[i] = p[i]
  OBVIOUS
<1>2. QED BY <1>1 DEF Heard

-----------------------------------------------------------------------------
(* One service: a push, the two ways out of the queue. *)

LEMMA PushKeeps ==
  ASSUME NEW p \in Seq(Event), NEW h \in Seq(Event), NEW q \in Seq(Event),
         NEW in \in [Clients -> Seq(Event)], NEW e \in Event, e.n = Len(p) + 1,
         Kept(p, h, q, in)
  PROVE  Kept(Append(p, e), h, Append(q, e), in)
<1> DEFINE pp == Append(p, e)
           qq == Append(q, e)
<1>1. /\ Len(pp) = Len(p) + 1 /\ Len(qq) = Len(q) + 1
      /\ \A i \in 1..Len(p) : pp[i] = p[i]
      /\ \A i \in 1..Len(q) : qq[i] = q[i]
      /\ pp[Len(p) + 1] = e /\ qq[Len(q) + 1] = e
  OBVIOUS
<1>2. /\ Len(p) \in Nat /\ Len(q) \in Nat /\ Len(h) \in Nat
      /\ Len(q) + Len(h) <= Len(p)
  BY DEF Kept, Handed
<1>3. \A c \in Clients : Heard(in[c], c, pp, Handed(p, h, q))
  BY <1>2, HeardPush DEF Kept, Handed
<1> HIDE DEF pp, qq
<1>4. Handed(pp, h, qq) = Handed(p, h, q)
  BY <1>1, <1>2 DEF Handed
<1>5. ASSUME NEW i \in 1..Len(pp) PROVE pp[i].n = i
  <2>1. CASE i \in 1..Len(p)
    BY <2>1, <1>1 DEF Kept
  <2>2. CASE i = Len(p) + 1
    BY <2>2, <1>1
  <2>3. Len(pp) = Len(p) + 1 /\ Len(p) \in Nat
    BY <1>1, <1>2
  <2>4. i \in 1..Len(p) \/ i = Len(p) + 1
    BY <2>3
  <2>5. QED BY <2>1, <2>2, <2>4
<1>6. \A i \in 1..Len(qq) : qq[i] = pp[Len(pp) - Len(qq) + i]
  <2> SUFFICES ASSUME NEW i \in 1..Len(qq) PROVE qq[i] = pp[Len(pp) - Len(qq) + i]
    OBVIOUS
  <2>1. Len(pp) - Len(qq) + i = Len(p) - Len(q) + i
    BY <1>1, <1>2
  <2>2. CASE i \in 1..Len(q)
    <3>1. Len(p) - Len(q) + i \in 1..Len(p)
      BY <1>2, <2>2
    <3>2. QED BY <2>1, <2>2, <3>1, <1>1 DEF Kept
  <2>3. CASE i = Len(q) + 1
    BY <2>1, <2>3, <1>1, <1>2
  <2>4. QED BY <2>2, <2>3, <1>1, <1>2
<1>7. \A i \in 1..Len(h) : h[i] = pp[Handed(p, h, q) + i]
  <2> SUFFICES ASSUME NEW i \in 1..Len(h) PROVE h[i] = pp[Handed(p, h, q) + i]
    OBVIOUS
  <2>1. Handed(p, h, q) + i \in 1..Len(p)
    BY <1>2 DEF Handed
  <2>2. QED BY <2>1, <1>1 DEF Kept
<1>8. QED BY <1>3, <1>4, <1>5, <1>6, <1>7 DEF Kept, pp, qq

LEMMA FrontIsNext ==
  ASSUME NEW p \in Seq(Event), NEW q \in Seq(Event), q # <<>>,
         NEW in \in [Clients -> Seq(Event)], Kept(p, <<>>, q, in)
  PROVE  /\ Len(Tail(q)) = Len(q) - 1 /\ Tail(q) \in Seq(Event)
         /\ \A i \in 1..Len(q) - 1 : Tail(q)[i] = q[i + 1]
         /\ Len(q) \in Nat \ {0} /\ Len(p) \in Nat
         /\ Handed(p, <<>>, q) = Len(p) - Len(q)
         /\ Handed(p, <<>>, q) \in Nat
         /\ Handed(p, <<>>, q) < Len(p)
         /\ Head(q) = p[Handed(p, <<>>, q) + 1]
         /\ Head(q) \in Event
         /\ \A i \in 1..Len(q) - 1 : Tail(q)[i] = p[Len(p) - (Len(q) - 1) + i]
<1>1. /\ Len(Tail(q)) = Len(q) - 1 /\ Tail(q) \in Seq(Event)
      /\ \A i \in 1..Len(q) - 1 : Tail(q)[i] = q[i + 1]
      /\ Len(q) \in Nat \ {0} /\ Len(p) \in Nat
      /\ Head(q) = q[1] /\ Head(q) \in Event
  OBVIOUS
<1>2. Handed(p, <<>>, q) = Len(p) - Len(q) /\ Handed(p, <<>>, q) \in Nat
  BY <1>1 DEF Handed, Kept
<1>3. \A i \in 1..Len(q) : q[i] = p[Len(p) - Len(q) + i]
  BY DEF Kept
<1>4. q[1] = p[Len(p) - Len(q) + 1]
  BY <1>1, <1>3
<1>5. ASSUME NEW i \in 1..Len(q) - 1 PROVE Tail(q)[i] = p[Len(p) - (Len(q) - 1) + i]
  <2>1. i + 1 \in 1..Len(q) /\ Len(p) - Len(q) + (i + 1) = Len(p) - (Len(q) - 1) + i
    BY <1>1
  <2>2. QED BY <2>1, <1>1, <1>3
<1>6. QED BY <1>1, <1>2, <1>4, <1>5

LEMMA TakeKeeps ==
  ASSUME NEW p \in Seq(Event), NEW q \in Seq(Event), q # <<>>,
         NEW in \in [Clients -> Seq(Event)], Kept(p, <<>>, q, in)
  PROVE  Kept(p, <<Head(q)>>, Tail(q), in)
<1> DEFINE t == Tail(q)
           h == <<Head(q)>>
<1>1. /\ Len(t) = Len(q) - 1
      /\ Len(q) \in Nat \ {0} /\ Len(p) \in Nat
      /\ Handed(p, <<>>, q) = Len(p) - Len(q)
      /\ Handed(p, <<>>, q) \in Nat
      /\ Head(q) = p[Handed(p, <<>>, q) + 1]
      /\ \A i \in 1..Len(q) - 1 : t[i] = p[Len(p) - (Len(q) - 1) + i]
  BY FrontIsNext
<1>2. Len(h) = 1 /\ h[1] = Head(q)
  OBVIOUS
<1> HIDE DEF t, h
<1>3. Handed(p, h, t) = Handed(p, <<>>, q)
  BY <1>1, <1>2 DEF Handed
<1>4. \A i \in 1..Len(t) : t[i] = p[Len(p) - Len(t) + i]
  BY <1>1
<1>5. \A i \in 1..Len(h) : h[i] = p[Handed(p, h, t) + i]
  BY <1>1, <1>2, <1>3
<1>6. QED BY <1>1, <1>3, <1>4, <1>5 DEF Kept, t, h

\* What dispatch() does to the clients.
After(in, e) == [c \in Clients |-> IF c = e.user THEN Append(in[c], e) ELSE in[c]]

LEMMA AfterKeeps ==
  ASSUME NEW p \in Seq(Event), NEW in \in [Clients -> Seq(Event)],
         NEW g \in Nat, g < Len(p), \A i \in 1..Len(p) : p[i].n = i,
         \A c \in Clients : Heard(in[c], c, p, g)
  PROVE  \A c \in Clients : Heard(After(in, p[g + 1])[c], c, p, g + 1)
BY HeardNext DEF After

LEMMA DrainKeeps ==
  ASSUME NEW p \in Seq(Event), NEW q \in Seq(Event), q # <<>>,
         NEW in \in [Clients -> Seq(Event)], Kept(p, <<>>, q, in)
  PROVE  Kept(p, <<>>, Tail(q), After(in, Head(q)))
<1> DEFINE t == Tail(q)
           g == Handed(p, <<>>, q)
<1>1. /\ Len(t) = Len(q) - 1
      /\ Len(q) \in Nat \ {0} /\ Len(p) \in Nat
      /\ g = Len(p) - Len(q)
      /\ g \in Nat /\ g < Len(p)
      /\ Head(q) = p[g + 1]
      /\ \A i \in 1..Len(q) - 1 : t[i] = p[Len(p) - (Len(q) - 1) + i]
  BY FrontIsNext
<1>2. \A c \in Clients : Heard(After(in, Head(q))[c], c, p, g + 1)
  BY <1>1, AfterKeeps DEF Kept
<1> HIDE DEF t, g
<1>3. Handed(p, <<>>, t) = g + 1
  BY <1>1 DEF Handed
<1>4. \A i \in 1..Len(t) : t[i] = p[Len(p) - Len(t) + i]
  BY <1>1
<1>5. QED BY <1>1, <1>2, <1>3, <1>4 DEF Kept, t

LEMMA DeliverKeeps ==
  ASSUME NEW p \in Seq(Event), NEW q \in Seq(Event), NEW h \in Seq(Event), Len(h) = 1,
         NEW in \in [Clients -> Seq(Event)], Kept(p, h, q, in)
  PROVE  Kept(p, <<>>, q, After(in, h[1]))
<1> DEFINE g == Handed(p, h, q)
<1>1. /\ Len(q) \in Nat /\ Len(p) \in Nat
      /\ g = Len(p) - Len(q) - 1
      /\ g \in Nat /\ g < Len(p)
      /\ h[1] = p[g + 1]
  BY DEF Kept, Handed
<1>2. \A c \in Clients : Heard(After(in, h[1])[c], c, p, g + 1)
  BY <1>1, AfterKeeps DEF Kept
<1> HIDE DEF g
<1>3. Handed(p, <<>>, q) = g + 1
  BY <1>1 DEF Handed
<1>4. QED BY <1>1, <1>2, <1>3 DEF Kept

-----------------------------------------------------------------------------
(* What the invariant says to a client. *)

LEMMA WaitingOrder ==
  ASSUME NEW p \in Seq(Event), NEW h \in Seq(Event), NEW q \in Seq(Event),
         NEW in, Kept(p, h, q, in)
  PROVE  /\ Len(p) - Len(h \o q) = Handed(p, h, q)
         /\ \A i \in 1..Len(h \o q) : (h \o q)[i] = p[Handed(p, h, q) + i]
<1> DEFINE w == h \o q
<1>1. /\ Len(w) = Len(h) + Len(q)
      /\ \A i \in 1..Len(w) : w[i] = IF i <= Len(h) THEN h[i] ELSE q[i - Len(h)]
      /\ Len(h) \in Nat /\ Len(q) \in Nat /\ Len(p) \in Nat
  BY ConcatProperties
<1> HIDE DEF w
<1>2. Len(p) - Len(w) = Handed(p, h, q)
  BY <1>1 DEF Handed
<1>3. ASSUME NEW i \in 1..Len(w) PROVE w[i] = p[Handed(p, h, q) + i]
  <2>1. CASE i <= Len(h)
    <3>1. i \in 1..Len(h)
      BY <2>1, <1>1
    <3>2. QED BY <2>1, <3>1, <1>1 DEF Kept
  <2>2. CASE ~(i <= Len(h))
    <3>1. i - Len(h) \in 1..Len(q)
      BY <2>2, <1>1
    <3>2. q[i - Len(h)] = p[Len(p) - Len(q) + (i - Len(h))]
      BY <3>1 DEF Kept
    <3>3. Len(p) - Len(q) + (i - Len(h)) = Handed(p, h, q) + i
      BY <1>1 DEF Handed
    <3>4. QED BY <2>2, <3>2, <3>3, <1>1
  <2>3. QED BY <2>1, <2>2
<1>4. QED BY <1>2, <1>3 DEF w

-----------------------------------------------------------------------------
(* The actions. *)

LEMMA PushStep ==
  ASSUME Inv, NEW s \in Services, Push(s)
  PROVE  Inv'
<1> USE DEF Inv
<1>1. PICK u \in Users :
        LET e == [n |-> Len(pushed[s]) + 1, user |-> u]
        IN  /\ queue' = [queue EXCEPT ![s] = Append(@, e)]
            /\ pushed' = [pushed EXCEPT ![s] = Append(@, e)]
  BY DEF Push
<1> DEFINE e == [n |-> Len(pushed[s]) + 1, user |-> u]
<1>2. /\ queue' = [queue EXCEPT ![s] = Append(@, e)]
      /\ pushed' = [pushed EXCEPT ![s] = Append(@, e)]
  BY <1>1
<1>3. e \in Event /\ e.n = Len(pushed[s]) + 1
  BY DEF TypeOK, Event
<1> HIDE DEF e
<1>4. /\ UNCHANGED <<running, held, control, starts, inbox>>
      /\ QuiesceBeforeStop => control[s] = "up"
      /\ \/ UNCHANGED notifier
         \/ \E t \in Services : /\ notifier[t] = "asleep"
                               /\ notifier' = [notifier EXCEPT ![t] = "woken"]
  BY DEF Push, NotifyOne, Asleep
<1>5. TypeOK'
  <2>1. queue' \in [Services -> Seq(Event)] /\ pushed' \in [Services -> Seq(Event)]
    BY <1>2, <1>3 DEF TypeOK
  <2>2. QED BY <2>1, <1>4 DEF TypeOK
<1>6. ThreadsInStep'
  BY <1>4 DEF ThreadsInStep, TypeOK
<1>7. EventsKept'
  <2> SUFFICES ASSUME NEW t \in Services
               PROVE  Kept(pushed'[t], held'[t], queue'[t], inbox'[t])
    BY DEF EventsKept
  <2>1. CASE t = s
    <3>1. Kept(Append(pushed[s], e), held[s], Append(queue[s], e), inbox[s])
      BY <1>3, PushKeeps DEF EventsKept, TypeOK
    <3>2. QED BY <2>1, <3>1, <1>2, <1>4 DEF TypeOK
  <2>2. CASE t # s
    BY <2>2, <1>2, <1>4 DEF EventsKept, TypeOK
  <2>3. QED BY <2>1, <2>2
<1>8. EmptyWhenDown'
  BY <1>2, <1>4 DEF EmptyWhenDown, TypeOK
<1>9. QED BY <1>5, <1>6, <1>7, <1>8

\* The steps of the threads that move no event.
LEMMA ControlStep ==
  ASSUME Inv, NEW s \in Services,
         \/ LoopTest(s) \/ Sleep(s) \/ GiveUpWait(s) \/ Timeout(s) \/ SpuriousWakeup(s)
         \/ Start(s) \/ StopCalled(s) \/ WakeAll(s) \/ Join(s) \/ Drained(s)
  PROVE  Inv'
<1> USE DEF Inv
<1>1. UNCHANGED <<queue, held, inbox, pushed>>
  BY DEF LoopTest, Sleep, GiveUpWait, Timeout, SpuriousWakeup, Start, StopCalled, WakeAll,
         Join, Drained
<1>2. EventsKept'
  BY <1>1 DEF EventsKept
<1>3. CASE LoopTest(s) \/ Sleep(s) \/ GiveUpWait(s) \/ Timeout(s) \/ SpuriousWakeup(s)
  <2>1. UNCHANGED <<running, control, starts>>
    BY <1>3 DEF LoopTest, Sleep, GiveUpWait, Timeout, SpuriousWakeup
  <2>2. PICK from \in {"top", "lock", "woken", "late", "asleep"},
             to \in {"lock", "done", "asleep", "top", "late", "woken"} :
          notifier[s] = from /\ notifier' = [notifier EXCEPT ![s] = to]
    BY <1>3 DEF LoopTest, Sleep, GiveUpWait, Timeout, SpuriousWakeup
  <2>3. TypeOK' /\ ThreadsInStep' /\ EmptyWhenDown'
    BY <1>1, <2>1, <2>2 DEF TypeOK, ThreadsInStep, EmptyWhenDown
  <2>4. QED BY <1>2, <2>3
<1>4. CASE Start(s)
  <2>1. TypeOK' /\ ThreadsInStep' /\ EmptyWhenDown'
    BY <1>1, <1>4 DEF Start, TypeOK, ThreadsInStep, EmptyWhenDown
  <2>2. QED BY <1>2, <2>1
<1>5. CASE StopCalled(s)
  <2>1. TypeOK' /\ ThreadsInStep' /\ EmptyWhenDown'
    BY <1>1, <1>5 DEF StopCalled, TypeOK, ThreadsInStep, EmptyWhenDown
  <2>2. QED BY <1>2, <2>1
<1>6. CASE WakeAll(s)
  <2>1. TypeOK' /\ ThreadsInStep' /\ EmptyWhenDown'
    BY <1>1, <1>6 DEF WakeAll, Wake, Asleep, TypeOK, ThreadsInStep, EmptyWhenDown
  <2>2. QED BY <1>2, <2>1
<1>7. CASE Join(s)
  <2>1. TypeOK' /\ ThreadsInStep' /\ EmptyWhenDown'
    BY <1>1, <1>7 DEF Join, TypeOK, ThreadsInStep, EmptyWhenDown
  <2>2. QED BY <1>2, <2>1
<1>8. CASE Drained(s)
  <2>1. TypeOK' /\ ThreadsInStep' /\ EmptyWhenDown'
    BY <1>1, <1>8 DEF Drained, TypeOK, ThreadsInStep, EmptyWhenDown
  <2>2. QED BY <1>2, <2>1
<1>9. QED BY <1>3, <1>4, <1>5, <1>6, <1>7, <1>8

LEMMA TakeStep ==
  ASSUME Inv, NEW s \in Services, Take(s)
  PROVE  Inv'
<1> USE DEF Inv
<1>1. /\ queue[s] # <<>>
      /\ notifier[s] \in {"lock", "woken", "late"}
      /\ held' = [held EXCEPT ![s] = <<Head(queue[s])>>]
      /\ queue' = [queue EXCEPT ![s] = Tail(@)]
      /\ notifier' = [notifier EXCEPT ![s] = "dispatch"]
      /\ UNCHANGED <<running, control, starts, inbox, pushed>>
  BY DEF Take, Pop
<1>2. queue[s] \in Seq(Event) /\ Head(queue[s]) \in Event /\ Tail(queue[s]) \in Seq(Event)
  BY <1>1 DEF TypeOK
<1>3. TypeOK'
  BY <1>1, <1>2 DEF TypeOK
<1>4. ThreadsInStep'
  BY <1>1, <1>2 DEF ThreadsInStep, TypeOK
<1>5. EventsKept'
  <2> SUFFICES ASSUME NEW t \in Services
               PROVE  Kept(pushed'[t], held'[t], queue'[t], inbox'[t])
    BY DEF EventsKept
  <2>1. CASE t = s
    <3>1. held[s] = <<>>
      BY <1>1 DEF ThreadsInStep
    <3>2. Kept(pushed[s], <<Head(queue[s])>>, Tail(queue[s]), inbox[s])
      BY <1>1, <3>1, TakeKeeps DEF EventsKept, TypeOK
    <3>3. QED BY <2>1, <3>2, <1>1 DEF TypeOK
  <2>2. CASE t # s
    BY <2>2, <1>1 DEF EventsKept, TypeOK
  <2>3. QED BY <2>1, <2>2
<1>6. EmptyWhenDown'
  BY <1>1 DEF EmptyWhenDown, ThreadsInStep, TypeOK
<1>7. QED BY <1>3, <1>4, <1>5, <1>6

LEMMA AfterType ==
  ASSUME NEW in \in [Clients -> Seq(Event)], NEW e \in Event
  PROVE  After(in, e) \in [Clients -> Seq(Event)]
BY DEF After

LEMMA DeliverStep ==
  ASSUME Inv, NEW s \in Services, Deliver(s)
  PROVE  Inv'
<1> USE DEF Inv
<1>1. /\ notifier[s] = "dispatch"
      /\ inbox' = [inbox EXCEPT ![s] = After(@, held[s][1])]
      /\ held' = [held EXCEPT ![s] = <<>>]
      /\ notifier' = [notifier EXCEPT ![s] = "top"]
      /\ UNCHANGED <<queue, running, control, starts, pushed>>
  BY DEF Deliver, Dispatch, After
<1>2. held[s] \in Seq(Event) /\ Len(held[s]) = 1
  BY <1>1 DEF ThreadsInStep, TypeOK
<1>3. After(inbox[s], held[s][1]) \in [Clients -> Seq(Event)]
  <2>1. held[s][1] \in Event
    BY <1>2
  <2>2. QED BY <2>1, AfterType DEF TypeOK
<1>4. TypeOK'
  BY <1>1, <1>3 DEF TypeOK
<1>5. ThreadsInStep'
  BY <1>1 DEF ThreadsInStep, TypeOK
<1>6. EventsKept'
  <2> SUFFICES ASSUME NEW t \in Services
               PROVE  Kept(pushed'[t], held'[t], queue'[t], inbox'[t])
    BY DEF EventsKept
  <2>1. CASE t = s
    <3>1. Kept(pushed[s], <<>>, queue[s], After(inbox[s], held[s][1]))
      BY <1>2, DeliverKeeps DEF EventsKept, TypeOK
    <3>2. QED BY <2>1, <3>1, <1>1 DEF TypeOK
  <2>2. CASE t # s
    BY <2>2, <1>1 DEF EventsKept, TypeOK
  <2>3. QED BY <2>1, <2>2
<1>7. EmptyWhenDown'
  BY <1>1 DEF EmptyWhenDown
<1>8. QED BY <1>4, <1>5, <1>6, <1>7

LEMMA DrainStep ==
  ASSUME Inv, NEW s \in Services, Drain(s)
  PROVE  Inv'
<1> USE DEF Inv
<1>1. /\ control[s] = "draining"
      /\ queue[s] # <<>>
      /\ inbox' = [inbox EXCEPT ![s] = After(@, Head(queue[s]))]
      /\ queue' = [queue EXCEPT ![s] = Tail(@)]
      /\ UNCHANGED <<running, notifier, held, control, starts, pushed>>
  BY DEF Drain, Dispatch, Pop, After
<1>2. queue[s] \in Seq(Event) /\ Head(queue[s]) \in Event /\ Tail(queue[s]) \in Seq(Event)
  BY <1>1 DEF TypeOK
<1>3. After(inbox[s], Head(queue[s])) \in [Clients -> Seq(Event)]
  BY <1>2, AfterType DEF TypeOK
<1>4. TypeOK'
  BY <1>1, <1>2, <1>3 DEF TypeOK
<1>5. ThreadsInStep'
  BY <1>1 DEF ThreadsInStep
<1>6. EventsKept'
  <2> SUFFICES ASSUME NEW t \in Services
               PROVE  Kept(pushed'[t], held'[t], queue'[t], inbox'[t])
    BY DEF EventsKept
  <2>1. CASE t = s
    <3>1. held[s] = <<>>
      BY <1>1 DEF ThreadsInStep
    <3>2. Kept(pushed[s], <<>>, Tail(queue[s]), After(inbox[s], Head(queue[s])))
      BY <1>1, <3>1, DrainKeeps DEF EventsKept, TypeOK
    <3>3. QED BY <2>1, <3>1, <3>2, <1>1 DEF TypeOK
  <2>2. CASE t # s
    BY <2>2, <1>1 DEF EventsKept, TypeOK
  <2>3. QED BY <2>1, <2>2
<1>7. EmptyWhenDown'
  BY <1>1 DEF EmptyWhenDown, TypeOK
<1>8. QED BY <1>4, <1>5, <1>6, <1>7

LEMMA InvStep == Inv /\ [Next]_vars => Inv'
<1> SUFFICES ASSUME Inv, [Next]_vars PROVE Inv'
  OBVIOUS
<1>1. ASSUME NEW s \in Services, Push(s) PROVE Inv'
  BY <1>1, PushStep
<1>2. ASSUME NEW s \in Services, Notifier(s) PROVE Inv'
  BY <1>2, ControlStep, TakeStep, DeliverStep DEF Notifier
<1>3. ASSUME NEW s \in Services,
             Timeout(s) \/ SpuriousWakeup(s) \/ Start(s) \/ StopCalled(s)
      PROVE  Inv'
  BY <1>3, ControlStep
<1>4. ASSUME NEW s \in Services, Stopping(s) PROVE Inv'
  BY <1>4, ControlStep, DrainStep DEF Stopping
<1>5. CASE UNCHANGED vars
  BY <1>5 DEF vars, Inv, TypeOK, ThreadsInStep, EventsKept, EmptyWhenDown
<1>6. QED BY <1>1, <1>2, <1>3, <1>4, <1>5 DEF Next

LEMMA InvInit == Init => Inv
<1> SUFFICES ASSUME Init PROVE Inv
  OBVIOUS
<1>1. TypeOK
  BY DEF Init, TypeOK
<1>2. ThreadsInStep
  BY DEF Init, ThreadsInStep
<1>3. ASSUME NEW s \in Services PROVE Kept(pushed[s], held[s], queue[s], inbox[s])
  BY DEF Init, Kept, Handed, Heard
<1>4. EmptyWhenDown
  BY DEF Init, EmptyWhenDown
<1>5. QED BY <1>1, <1>2, <1>3, <1>4 DEF Inv, EventsKept

LEMMA Invariance == Spec => []Inv
BY InvInit, InvStep, PTL DEF Spec

-----------------------------------------------------------------------------

\* Every variable holds a value of its type, whatever the number of services.
THEOREM NotificationTypes == Spec => []TypeOK
<1>1. Inv => TypeOK
  BY DEF Inv
<1>2. QED BY <1>1, Invariance, PTL

\* Whatever notifications go astray, whenever stop() comes and however often the
\* service is started again: a client has heard its events, each once and in order,
\* up to those still in the thread's hand and in the queue.
THEOREM ClientsHearAll == Spec => []ClientsHearInOrder
<1>1. Inv => ClientsHearInOrder
  <2> SUFFICES ASSUME Inv, NEW s \in Services, NEW c \in Clients
               PROVE  /\ \A i \in 1..Len(Waiting(s)) : Waiting(s)[i] = pushed[s][Gone(s) + i]
                      /\ \A j, k \in 1..Len(inbox[s][c]) :
                           j < k => inbox[s][c][j].n < inbox[s][c][k].n
                      /\ {inbox[s][c][j] : j \in 1..Len(inbox[s][c])} =
                           {pushed[s][n] : n \in {m \in 1..Gone(s) : pushed[s][m].user = c}}
    BY DEF ClientsHearInOrder
  <2>1. /\ held[s] \in Seq(Event) /\ queue[s] \in Seq(Event) /\ pushed[s] \in Seq(Event)
        /\ Kept(pushed[s], held[s], queue[s], inbox[s])
    BY DEF Inv, TypeOK, EventsKept
  <2>2. /\ Gone(s) = Handed(pushed[s], held[s], queue[s])
        /\ \A i \in 1..Len(Waiting(s)) : Waiting(s)[i] = pushed[s][Gone(s) + i]
    <3> DEFINE p == pushed[s]
               h == held[s]
               q == queue[s]
               in == inbox[s]
    <3>1. p \in Seq(Event) /\ h \in Seq(Event) /\ q \in Seq(Event) /\ Kept(p, h, q, in)
      BY <2>1
    <3>2. Waiting(s) = h \o q /\ Gone(s) = Len(p) - Len(h \o q)
      BY DEF Gone, Waiting
    <3> HIDE DEF p, h, q, in
    <3>3. /\ Len(p) - Len(h \o q) = Handed(p, h, q)
          /\ \A i \in 1..Len(h \o q) : (h \o q)[i] = p[Handed(p, h, q) + i]
      BY <3>1, WaitingOrder, Zenon
    <3>4. /\ Gone(s) = Handed(p, h, q)
          /\ \A i \in 1..Len(Waiting(s)) : Waiting(s)[i] = p[Gone(s) + i]
      BY <3>2, <3>3, Zenon
    <3>5. QED BY <3>4 DEF p, h, q
  <2>3. Gone(s) \in Nat /\ Heard(inbox[s][c], c, pushed[s], Gone(s))
    BY <2>1, <2>2 DEF Kept
  <2>4. {inbox[s][c][j] : j \in 1..Len(inbox[s][c])} =
          {pushed[s][n] : n \in {m \in 1..Gone(s) : pushed[s][m].user = c}}
    <3> DEFINE p == pushed[s]
               l == inbox[s][c]
               g == Gone(s)
    <3>1. Heard(l, c, p, g)
      BY <2>3
    <3> HIDE DEF p, l, g
    <3>2. {l[j] : j \in 1..Len(l)} = {p[n] : n \in {m \in 1..g : p[m].user = c}}
      BY <3>1 DEF Heard
    <3>3. QED BY <3>2 DEF p, l, g
  <2>5. QED BY <2>2, <2>3, <2>4 DEF Heard
<1>2. QED BY <1>1, Invariance, PTL

\* Shutdown in the order of main.cpp loses no event.
THEOREM StopLeavesNothing == QuiesceBeforeStop => (Spec => []NothingLeftAtStop)
<1> SUFFICES ASSUME QuiesceBeforeStop PROVE Spec => []NothingLeftAtStop
  OBVIOUS
<1>1. Inv => NothingLeftAtStop
  BY DEF Inv, EmptyWhenDown, ThreadsInStep, NothingLeftAtStop, TypeOK
<1>2. QED BY <1>1, Invariance, PTL
-----------------------------------------------------------------------------
(* The events for one client. *)

\* f[i] are those of the first i events of p, up to n, that are for c.
Picks(f, c, p, n) ==
  f = [i \in 0..n |->
         IF i = 0 THEN <<>>
         ELSE IF p[i].user = c THEN Append(f[i - 1], p[i]) ELSE f[i - 1]]

LEMMA PicksExist ==
  ASSUME NEW c, NEW p, NEW n \in Nat
  PROVE  \E f : Picks(f, c, p, n)
<1> DEFINE C == {m \in Nat : ~ \E f : Picks(f, c, p, m)}
<1>1. SUFFICES ASSUME C # {} PROVE FALSE
  OBVIOUS
<1>2. PICK m \in C : \A l \in C : ~(l < m)
  <2> HIDE DEF C
  <2>1. C \subseteq Nat
    BY DEF C
  <2>2. QED BY <1>1, <2>1, LeastExists
<1>3. CASE m = 0
  <2> DEFINE f == [i \in 0..0 |-> <<>>]
  <2>1. Picks(f, c, p, 0)
    BY DEF Picks
  <2>2. QED BY <1>2, <1>3, <2>1
<1>4. CASE m # 0
  <2>1. m \in Nat /\ m - 1 \in Nat /\ m - 1 < m
    BY <1>2, <1>4
  <2>2. PICK g : Picks(g, c, p, m - 1)
    BY <1>2, <2>1
  <2> DEFINE f == [i \in 0..m |->
                     IF i = m
                     THEN IF p[m].user = c THEN Append(g[m - 1], p[m]) ELSE g[m - 1]
                     ELSE g[i]]
  <2>3. ASSUME NEW i \in 0..m
        PROVE  f[i] = IF i = 0 THEN <<>>
                      ELSE IF p[i].user = c THEN Append(f[i - 1], p[i]) ELSE f[i - 1]
    <3>1. CASE i = m
      <4>1. m - 1 \in 0..m /\ m - 1 # m /\ m \in 0..m
        BY <2>1
      <4>2. f[m - 1] = g[m - 1]
        BY <4>1
      <4>3. f[i] = IF p[m].user = c THEN Append(g[m - 1], p[m]) ELSE g[m - 1]
        BY <3>1
      <4> HIDE DEF f
      <4>4. QED BY <1>4, <3>1, <4>2, <4>3
    <3>2. CASE i # m
      <4>1. i \in 0..m - 1 /\ (i # 0 => i - 1 \in 0..m /\ i - 1 # m)
        BY <2>1, <3>2
      <4>2. g[i] = IF i = 0 THEN <<>>
                   ELSE IF p[i].user = c THEN Append(g[i - 1], p[i]) ELSE g[i - 1]
        BY <2>2, <4>1 DEF Picks
      <4>3. f[i] = g[i] /\ (i # 0 => f[i - 1] = g[i - 1])
        BY <3>2, <4>1
      <4> HIDE DEF f
      <4>4. QED BY <4>2, <4>3
    <3>3. QED BY <3>1, <3>2
  <2>4. f = [i \in 0..m |-> f[i]]
    OBVIOUS
  <2> HIDE DEF f
  <2>5. Picks(f, c, p, m)
    BY <2>3, <2>4 DEF Picks
  <2>6. QED BY <1>2, <2>5
<1>5. QED BY <1>3, <1>4

\* The events for c among the first g of the events p.
Share(c, p, g) == (CHOOSE f : Picks(f, c, p, Len(p)))[g]

LEMMA ForIsShare == \A c, p : For(c, p) = Share(c, p, Len(p))
BY Zenon DEF For, Share, Picks

LEMMA ShareNext ==
  ASSUME NEW c, NEW p \in Seq(Event)
  PROVE  /\ Share(c, p, 0) = <<>>
         /\ \A g \in 0..Len(p) - 1 :
              Share(c, p, g + 1) = IF p[g + 1].user = c
                                   THEN Append(Share(c, p, g), p[g + 1])
                                   ELSE Share(c, p, g)
<1> DEFINE f == CHOOSE f : Picks(f, c, p, Len(p))
<1>1. Len(p) \in Nat
  OBVIOUS
<1>2. Picks(f, c, p, Len(p))
  BY <1>1, PicksExist
<1>3. \A g : Share(c, p, g) = f[g]
  BY DEF Share
<1> HIDE DEF f
<1>4. f[0] = <<>>
  BY <1>1, <1>2 DEF Picks
<1>5. ASSUME NEW g \in 0..Len(p) - 1
      PROVE  f[g + 1] = IF p[g + 1].user = c THEN Append(f[g], p[g + 1]) ELSE f[g]
  <2>1. g + 1 \in 0..Len(p) /\ g + 1 # 0 /\ (g + 1) - 1 = g
    BY <1>1
  <2>2. QED BY <1>2, <2>1 DEF Picks
<1>6. QED BY <1>3, <1>4, <1>5

LEMMA ShareType ==
  ASSUME NEW c, NEW p \in Seq(Event)
  PROVE  \A g \in 0..Len(p) : Share(c, p, g) \in Seq(Event)
<1> DEFINE C == {g \in 0..Len(p) : Share(c, p, g) \notin Seq(Event)}
<1>1. SUFFICES ASSUME C # {} PROVE FALSE
  OBVIOUS
<1>2. PICK g \in C : \A l \in C : ~(l < g)
  <2>1. C \subseteq Nat
    OBVIOUS
  <2> HIDE DEF C
  <2>2. QED BY <1>1, <2>1, LeastExists
<1>3. g \in 0..Len(p) /\ Share(c, p, g) \notin Seq(Event) /\ Len(p) \in Nat
  BY <1>2
<1>4. g # 0
  <2>1. <<>> \in Seq(Event) /\ Share(c, p, 0) = <<>>
    BY ShareNext
  <2>2. QED BY <1>3, <2>1
<1> DEFINE l == g - 1
<1>5. l \in 0..Len(p) - 1 /\ l \in 0..Len(p) /\ l < g /\ g = l + 1 /\ g \in 1..Len(p)
  BY <1>3, <1>4
<1>6. Share(c, p, l) \in Seq(Event)
  BY <1>2, <1>5
<1>7. p[g] \in Event
  BY <1>5
<1> HIDE DEF l, C
<1>8. Share(c, p, g) = IF p[g].user = c THEN Append(Share(c, p, l), p[g]) ELSE Share(c, p, l)
  BY <1>5, ShareNext
<1>9. QED BY <1>3, <1>6, <1>7, <1>8

\* An event pushed changes nothing about those before it.
LEMMA SharePush ==
  ASSUME NEW c, NEW p \in Seq(Event), NEW e \in Event
  PROVE  \A g \in 0..Len(p) : Share(c, Append(p, e), g) = Share(c, p, g)
<1> DEFINE t == Append(p, e)
           C == {g \in 0..Len(p) : Share(c, t, g) # Share(c, p, g)}
<1>1. /\ t \in Seq(Event) /\ Len(t) = Len(p) + 1 /\ Len(p) \in Nat
      /\ \A i \in 1..Len(p) : t[i] = p[i]
  OBVIOUS
<1> HIDE DEF t
<1>2. SUFFICES ASSUME C # {} PROVE FALSE
  BY DEF t
<1>3. PICK g \in C : \A l \in C : ~(l < g)
  <2>1. C \subseteq Nat
    OBVIOUS
  <2> HIDE DEF C
  <2>2. QED BY <1>2, <2>1, LeastExists
<1>4. g \in 0..Len(p) /\ Share(c, t, g) # Share(c, p, g)
  BY <1>3
<1>5. g # 0
  BY <1>1, <1>4, ShareNext
<1> DEFINE l == g - 1
<1>6. /\ l \in 0..Len(p) - 1 /\ l \in 0..Len(p) /\ l \in 0..Len(t) - 1
      /\ l < g /\ g = l + 1 /\ g \in 1..Len(p)
  BY <1>1, <1>4, <1>5
<1>7. Share(c, t, l) = Share(c, p, l) /\ t[g] = p[g]
  BY <1>1, <1>3, <1>6
<1> HIDE DEF l, C
<1>8. /\ Share(c, t, g) = IF t[g].user = c THEN Append(Share(c, t, l), t[g]) ELSE Share(c, t, l)
      /\ Share(c, p, g) = IF p[g].user = c THEN Append(Share(c, p, l), p[g]) ELSE Share(c, p, l)
  BY <1>1, <1>6, ShareNext
<1>9. QED BY <1>4, <1>7, <1>8

LEMMA StartsOver ==
  ASSUME NEW r \in Seq(Event), NEW t \in Seq(Event), NEW s \in Seq(Event), NEW e \in Event,
         t = s \/ t = Append(s, e), Channel!StartsWith(s, r)
  PROVE  Channel!StartsWith(t, r)
<1>1. /\ Len(r) \in Nat /\ Len(s) \in Nat /\ Len(r) <= Len(s) /\ r = SubSeq(s, 1, Len(r))
  BY DEF Channel!StartsWith
<1>2. CASE t = Append(s, e)
  <2>1. Len(t) = Len(s) + 1 /\ \A i \in 1..Len(s) : t[i] = s[i]
    BY <1>2
  <2>2. \A i \in 1..Len(r) : SubSeq(s, 1, Len(r))[i] = s[i]
    BY <1>1
  <2>3. \A i \in 1..Len(r) : r[i] = t[i]
    BY <1>1, <2>1, <2>2
  <2>4. /\ Len(SubSeq(t, 1, Len(r))) = Len(r) /\ SubSeq(t, 1, Len(r)) \in Seq(Event)
        /\ \A i \in 1..Len(r) : SubSeq(t, 1, Len(r))[i] = t[i]
    BY <1>1, <2>1
  <2> DEFINE u == SubSeq(t, 1, Len(r))
  <2> HIDE DEF u
  <2>5. u \in Seq(Event) /\ Len(u) = Len(r) /\ \A i \in 1..Len(r) : u[i] = r[i]
    BY <2>3, <2>4 DEF u
  <2>6. u = r
    BY <2>5, SeqEqual
  <2>7. QED BY <1>1, <2>1, <2>6 DEF Channel!StartsWith, u
<1>3. QED BY <1>2

\* What came for c is the beginning of what will have come.
LEMMA ShareStarts ==
  ASSUME NEW c, NEW p \in Seq(Event), NEW g \in 0..Len(p)
  PROVE  \A k \in g..Len(p) : Channel!StartsWith(Share(c, p, k), Share(c, p, g))
<1> DEFINE C == {k \in g..Len(p) : ~Channel!StartsWith(Share(c, p, k), Share(c, p, g))}
<1>1. SUFFICES ASSUME C # {} PROVE FALSE
  OBVIOUS
<1>2. PICK k \in C : \A l \in C : ~(l < k)
  <2>1. C \subseteq Nat
    OBVIOUS
  <2> HIDE DEF C
  <2>2. QED BY <1>1, <2>1, LeastExists
<1>3. /\ k \in g..Len(p) /\ ~Channel!StartsWith(Share(c, p, k), Share(c, p, g))
      /\ Len(p) \in Nat
  BY <1>2
<1>4. \A i \in 0..Len(p) : Share(c, p, i) \in Seq(Event)
  BY ShareType
<1>5. k # g
  <2> DEFINE r == Share(c, p, g)
  <2>1. r \in Seq(Event)
    BY <1>4
  <2> HIDE DEF r
  <2>2. Len(r) <= Len(r) /\ r = SubSeq(r, 1, Len(r))
    BY <2>1
  <2>3. Channel!StartsWith(r, r)
    BY <2>2 DEF Channel!StartsWith
  <2>4. QED BY <1>3, <2>3 DEF r
<1> DEFINE l == k - 1
<1>6. /\ l \in g..Len(p) /\ l \in 0..Len(p) - 1 /\ l \in 0..Len(p) /\ k \in 0..Len(p)
      /\ l < k /\ k = l + 1 /\ k \in 1..Len(p)
  BY <1>3, <1>5
<1>7. Channel!StartsWith(Share(c, p, l), Share(c, p, g))
  BY <1>2, <1>6
<1>8. p[k] \in Event
  BY <1>6
<1> HIDE DEF l, C
<1>9. \/ Share(c, p, k) = Share(c, p, l)
      \/ Share(c, p, k) = Append(Share(c, p, l), p[k])
  BY <1>6, ShareNext
<1>10. Channel!StartsWith(Share(c, p, k), Share(c, p, g))
  BY <1>4, <1>6, <1>7, <1>8, <1>9, StartsOver
<1>11. QED BY <1>3, <1>10
-----------------------------------------------------------------------------
(* A client's channel. *)

\* How many of the events of service s have been handed out.
Done(s) == Handed(pushed[s], held[s], queue[s])

\* What becomes of one service: an event is pushed, one is handed out, or neither.
Pushes(s, e) ==
  /\ e.n = Len(pushed[s]) + 1 /\ Len(pushed[s]) < MaxEvents
  /\ pushed'[s] = Append(pushed[s], e)
  /\ Done(s)' = Done(s) /\ inbox'[s] = inbox[s]

HandsOut(s) ==
  /\ Done(s) < Len(pushed[s]) /\ Done(s)' = Done(s) + 1
  /\ pushed'[s] = pushed[s]
  /\ inbox'[s] = After(inbox[s], pushed[s][Done(s) + 1])

Neither(s) == Done(s)' = Done(s) /\ pushed'[s] = pushed[s] /\ inbox'[s] = inbox[s]

LEMMA HandedIs ==
  ASSUME NEW p, NEW h, NEW q, NEW a \in Nat, NEW b \in Nat, NEW c \in Nat,
         Len(p) = a, Len(h) = b, Len(q) = c
  PROVE  Handed(p, h, q) = a - b - c
BY DEF Handed

LEMMA HandedMoves ==
  ASSUME NEW p \in Seq(Event), NEW h \in Seq(Event), NEW q \in Seq(Event)
  PROVE  /\ Handed(p, h, q) <= Len(p)
         /\ Len(h) = 1 => Handed(p, <<>>, q) = Handed(p, h, q) + 1 /\ Handed(p, h, q) < Len(p)
         /\ q # <<>> => /\ Handed(p, <<Head(q)>>, Tail(q)) = Handed(p, <<>>, q)
                        /\ Handed(p, <<>>, Tail(q)) = Handed(p, <<>>, q) + 1
<1>1. Len(p) \in Nat /\ Len(h) \in Nat /\ Len(q) \in Nat /\ Len(<<>>) = 0
  OBVIOUS
<1>2. q # <<>> => Len(Tail(q)) = Len(q) - 1 /\ Len(<<Head(q)>>) = 1
  OBVIOUS
<1>3. /\ Handed(p, h, q) = Len(p) - Len(h) - Len(q)
      /\ Handed(p, <<>>, q) = Len(p) - 0 - Len(q)
  BY <1>1, HandedIs
<1>4. Handed(p, h, q) <= Len(p)
  BY <1>1, <1>3
<1>5. Len(h) = 1 => Handed(p, <<>>, q) = Handed(p, h, q) + 1 /\ Handed(p, h, q) < Len(p)
  BY <1>1, <1>3
<1>6. CASE q # <<>>
  <2>1. /\ Len(Tail(q)) = Len(q) - 1 /\ Len(q) - 1 \in Nat
        /\ Len(<<Head(q)>>) = 1 /\ 1 \in Nat /\ 0 \in Nat
    BY <1>2, <1>6
  <2> DEFINE w == <<Head(q)>>
             r == Tail(q)
             n == Len(q) - 1
             m == Len(p)
  <2>2. m \in Nat /\ n \in Nat /\ Len(q) = n + 1 /\ Len(w) = 1 /\ Len(r) = n /\ Len(p) = m
    BY <1>1, <2>1
  <2>3. Handed(p, <<>>, q) = m - 0 - Len(q)
    BY <1>3
  <2> HIDE DEF w, r, n, m
  <2>4. Handed(p, w, r) = m - 1 - n
    <3>1. Handed(p, w, r) = Len(p) - Len(r) - Len(w)
      BY DEF Handed
    <3>2. Len(p) - Len(r) - Len(w) = m - n - 1
      BY <2>2
    <3>3. m - n - 1 = m - 1 - n
      BY <2>2
    <3>4. QED BY <3>1, <3>2, <3>3
  <2>5. Handed(p, <<>>, r) = m - 0 - n
    BY <1>1, <2>1, <2>2, HandedIs
  <2>6. Handed(p, w, r) = Handed(p, <<>>, q) /\ Handed(p, <<>>, r) = Handed(p, <<>>, q) + 1
    BY <2>2, <2>3, <2>4, <2>5
  <2>7. QED BY <1>4, <1>5, <2>6 DEF w, r
<1>7. QED BY <1>4, <1>5, <1>6

LEMMA HandedType ==
  ASSUME Inv, NEW s \in Services
  PROVE  /\ pushed[s] \in Seq(Event) /\ held[s] \in Seq(Event) /\ queue[s] \in Seq(Event)
         /\ inbox[s] \in [Clients -> Seq(Event)]
         /\ Kept(pushed[s], held[s], queue[s], inbox[s])
         /\ Len(pushed[s]) \in Nat /\ Done(s) \in 0..Len(pushed[s])
<1>1. /\ pushed[s] \in Seq(Event) /\ held[s] \in Seq(Event) /\ queue[s] \in Seq(Event)
      /\ inbox[s] \in [Clients -> Seq(Event)]
      /\ Kept(pushed[s], held[s], queue[s], inbox[s])
  BY DEF Inv, TypeOK, EventsKept
<1>2. Done(s) \in Nat
  BY <1>1 DEF Done, Kept
<1>3. Len(pushed[s]) \in Nat
  BY <1>1
<1>4. Done(s) <= Len(pushed[s])
  BY <1>1, HandedMoves DEF Done
<1>5. QED BY <1>1, <1>2, <1>3, <1>4

LEMMA PushMoves ==
  ASSUME Inv, NEW s \in Services, Push(s)
  PROVE  (\E e \in Event : Pushes(s, e)) /\ \A t \in Services \ {s} : Neither(t)
<1>1. PICK u \in Users :
        LET e == [n |-> Len(pushed[s]) + 1, user |-> u]
        IN  /\ queue' = [queue EXCEPT ![s] = Append(@, e)]
            /\ pushed' = [pushed EXCEPT ![s] = Append(@, e)]
  BY DEF Push
<1> DEFINE e == [n |-> Len(pushed[s]) + 1, user |-> u]
<1>2. /\ queue' = [queue EXCEPT ![s] = Append(@, e)]
      /\ pushed' = [pushed EXCEPT ![s] = Append(@, e)]
      /\ UNCHANGED <<held, inbox>> /\ Len(pushed[s]) < MaxEvents
  BY <1>1 DEF Push
<1>3. e \in Event /\ e.n = Len(pushed[s]) + 1
  BY HandedType DEF Event
<1> HIDE DEF e
<1>4. /\ pushed'[s] = Append(pushed[s], e) /\ queue'[s] = Append(queue[s], e)
      /\ held'[s] = held[s] /\ inbox'[s] = inbox[s]
  BY <1>2 DEF Inv, TypeOK
<1>5. /\ Len(Append(pushed[s], e)) = Len(pushed[s]) + 1
      /\ Len(Append(queue[s], e)) = Len(queue[s]) + 1
      /\ Len(pushed[s]) \in Nat /\ Len(queue[s]) \in Nat /\ Len(held[s]) \in Nat
  BY <1>3, HandedType
<1>6. Done(s)' = Done(s)
  BY <1>4, <1>5 DEF Done, Handed
<1>7. \A t \in Services \ {s} : Neither(t)
  BY <1>2 DEF Neither, Done, Inv, TypeOK
<1>8. QED BY <1>2, <1>3, <1>4, <1>6, <1>7 DEF Pushes

LEMMA TakeMoves ==
  ASSUME Inv, NEW s \in Services, Take(s)
  PROVE  \A t \in Services : Neither(t)
<1>1. /\ queue[s] # <<>>
      /\ notifier[s] \in {"lock", "woken", "late"}
      /\ held' = [held EXCEPT ![s] = <<Head(queue[s])>>]
      /\ queue' = [queue EXCEPT ![s] = Tail(@)]
      /\ UNCHANGED <<inbox, pushed>>
  BY DEF Take, Pop
<1>2. held[s] = <<>>
  BY <1>1 DEF Inv, ThreadsInStep
<1>3. /\ held'[s] = <<Head(queue[s])>> /\ queue'[s] = Tail(queue[s])
      /\ queue[s] \in Seq(Event) /\ pushed[s] \in Seq(Event)
  BY <1>1 DEF Inv, TypeOK
<1>4. Handed(pushed[s], <<Head(queue[s])>>, Tail(queue[s]))
        = Handed(pushed[s], <<>>, queue[s])
  BY <1>1, <1>2, <1>3, HandedMoves
<1>5. Done(s)' = Done(s)
  BY <1>1, <1>2, <1>3, <1>4 DEF Done
<1>6. \A t \in Services \ {s} : Neither(t)
  BY <1>1 DEF Neither, Done, Inv, TypeOK
<1>7. QED BY <1>1, <1>5, <1>6 DEF Neither

LEMMA DeliverMoves ==
  ASSUME Inv, NEW s \in Services, Deliver(s)
  PROVE  HandsOut(s) /\ \A t \in Services \ {s} : Neither(t)
<1>1. /\ notifier[s] = "dispatch"
      /\ inbox' = [inbox EXCEPT ![s] = After(@, held[s][1])]
      /\ held' = [held EXCEPT ![s] = <<>>]
      /\ UNCHANGED <<queue, pushed>>
  BY DEF Deliver, Dispatch, After
<1>2. Len(held[s]) = 1
  BY <1>1 DEF Inv, ThreadsInStep
<1>3. /\ held'[s] = <<>> /\ queue'[s] = queue[s] /\ pushed'[s] = pushed[s]
      /\ inbox'[s] = After(inbox[s], held[s][1])
  BY <1>1 DEF Inv, TypeOK
<1>4. /\ Handed(pushed[s], <<>>, queue[s]) = Handed(pushed[s], held[s], queue[s]) + 1
      /\ Handed(pushed[s], held[s], queue[s]) < Len(pushed[s])
  BY <1>2, HandedType, HandedMoves
<1>5. Done(s)' = Done(s) + 1 /\ Done(s) < Len(pushed[s])
  BY <1>3, <1>4 DEF Done
<1>6. held[s][1] = pushed[s][Done(s) + 1]
  <2> DEFINE p == pushed[s]
             h == held[s]
             q == queue[s]
             in == inbox[s]
  <2>1. Kept(p, h, q, in) /\ Len(h) = 1
    BY <1>2, HandedType
  <2>2. Done(s) = Handed(p, h, q)
    BY DEF Done
  <2> HIDE DEF p, h, q, in
  <2>3. h[1] = p[Handed(p, h, q) + 1]
    BY <2>1 DEF Kept
  <2>4. QED BY <2>2, <2>3 DEF p, h
<1>7. \A t \in Services \ {s} : Neither(t)
  BY <1>1 DEF Neither, Done, Inv, TypeOK
<1>8. QED BY <1>3, <1>5, <1>6, <1>7 DEF HandsOut

LEMMA DrainMoves ==
  ASSUME Inv, NEW s \in Services, Drain(s)
  PROVE  HandsOut(s) /\ \A t \in Services \ {s} : Neither(t)
<1>1. /\ control[s] = "draining" /\ queue[s] # <<>>
      /\ inbox' = [inbox EXCEPT ![s] = After(@, Head(queue[s]))]
      /\ queue' = [queue EXCEPT ![s] = Tail(@)]
      /\ UNCHANGED <<held, pushed>>
  BY DEF Drain, Dispatch, Pop, After
<1>2. held[s] = <<>>
  BY <1>1 DEF Inv, ThreadsInStep
<1>3. /\ held'[s] = <<>> /\ queue'[s] = Tail(queue[s]) /\ pushed'[s] = pushed[s]
      /\ inbox'[s] = After(inbox[s], Head(queue[s]))
  BY <1>1, <1>2 DEF Inv, TypeOK
<1>4. /\ Done(s) < Len(pushed[s]) /\ Head(queue[s]) = pushed[s][Done(s) + 1]
      /\ Handed(pushed[s], <<>>, Tail(queue[s])) = Handed(pushed[s], <<>>, queue[s]) + 1
  <2> DEFINE p == pushed[s]
             q == queue[s]
             in == inbox[s]
  <2>1. /\ p \in Seq(Event) /\ q \in Seq(Event) /\ <<>> \in Seq(Event)
        /\ in \in [Clients -> Seq(Event)] /\ Kept(p, <<>>, q, in)
    BY <1>2, HandedType
  <2>2. Done(s) = Handed(p, <<>>, q)
    BY <1>2 DEF Done
  <2>3. q # <<>>
    BY <1>1
  <2> HIDE DEF p, q, in
  <2>4. Handed(p, <<>>, q) < Len(p) /\ Head(q) = p[Handed(p, <<>>, q) + 1]
    BY <2>1, <2>3, FrontIsNext
  <2>5. Handed(p, <<>>, Tail(q)) = Handed(p, <<>>, q) + 1
    BY <2>1, <2>3, HandedMoves
  <2>6. QED BY <2>2, <2>4, <2>5 DEF p, q
<1>5. Done(s)' = Done(s) + 1
  BY <1>2, <1>3, <1>4 DEF Done
<1>6. \A t \in Services \ {s} : Neither(t)
  BY <1>1 DEF Neither, Done, Inv, TypeOK
<1>7. QED BY <1>3, <1>4, <1>5, <1>6 DEF HandsOut

LEMMA ServiceMoves ==
  ASSUME Inv, [Next]_vars, NEW s \in Services
  PROVE  (\E e \in Event : Pushes(s, e)) \/ HandsOut(s) \/ Neither(s)
<1>1. CASE UNCHANGED <<queue, held, inbox, pushed>>
  BY <1>1 DEF Neither, Done
<1>2. ASSUME NEW t \in Services, Push(t)
      PROVE  (\E e \in Event : Pushes(s, e)) \/ Neither(s)
  BY <1>2, PushMoves
<1>3. ASSUME NEW t \in Services, Notifier(t) PROVE HandsOut(s) \/ Neither(s)
  <2>1. CASE LoopTest(t) \/ Sleep(t) \/ GiveUpWait(t)
    <3>1. UNCHANGED <<queue, held, inbox, pushed>>
      BY <2>1 DEF LoopTest, Sleep, GiveUpWait
    <3>2. QED BY <3>1 DEF Neither, Done
  <2>2. CASE Take(t)
    BY <2>2, TakeMoves
  <2>3. CASE Deliver(t)
    BY <2>3, DeliverMoves
  <2>4. QED BY <1>3, <2>1, <2>2, <2>3 DEF Notifier
<1>4. ASSUME NEW t \in Services,
             Timeout(t) \/ SpuriousWakeup(t) \/ Start(t) \/ StopCalled(t)
      PROVE  UNCHANGED <<queue, held, inbox, pushed>>
  BY <1>4 DEF Timeout, SpuriousWakeup, Start, StopCalled
<1>5. ASSUME NEW t \in Services, Stopping(t) PROVE HandsOut(s) \/ Neither(s)
  <2>1. CASE WakeAll(t) \/ Join(t) \/ Drained(t)
    <3>1. UNCHANGED <<queue, held, inbox, pushed>>
      BY <2>1 DEF WakeAll, Join, Drained
    <3>2. QED BY <3>1 DEF Neither, Done
  <2>2. CASE Drain(t)
    BY <2>2, DrainMoves
  <2>3. QED BY <1>5, <2>1, <2>2 DEF Stopping
<1>6. CASE UNCHANGED vars
  BY <1>1, <1>6 DEF vars
<1>7. QED BY <1>1, <1>2, <1>3, <1>4, <1>5, <1>6 DEF Next

\* What a client has heard is its share of what was handed out, as a sequence.
SharesHeard ==
  \A s \in Services, c \in Clients : inbox[s][c] = Share(c, pushed[s], Done(s))

LEMMA SharesStep ==
  ASSUME Inv, SharesHeard, [Next]_vars
  PROVE  SharesHeard'
<1> SUFFICES ASSUME NEW s \in Services, NEW c \in Clients
             PROVE  inbox'[s][c] = Share(c, pushed'[s], Done(s)')
  BY DEF SharesHeard
<1>1. /\ pushed[s] \in Seq(Event) /\ inbox[s] \in [Clients -> Seq(Event)]
      /\ Len(pushed[s]) \in Nat /\ Done(s) \in 0..Len(pushed[s])
      /\ inbox[s][c] = Share(c, pushed[s], Done(s))
  BY HandedType DEF SharesHeard
<1>2. CASE Neither(s)
  BY <1>1, <1>2 DEF Neither
<1>3. ASSUME NEW e \in Event, Pushes(s, e) PROVE inbox'[s][c] = Share(c, pushed'[s], Done(s)')
  BY <1>1, <1>3, SharePush DEF Pushes
<1>4. CASE HandsOut(s)
  <2> DEFINE p == pushed[s]
             g == Done(s)
             l == inbox[s]
  <2>1. g \in 0..Len(p) - 1 /\ p \in Seq(Event)
    BY <1>1, <1>4 DEF HandsOut
  <2>2. Done(s)' = g + 1 /\ pushed'[s] = p /\ inbox'[s] = After(l, p[g + 1])
    BY <1>4 DEF HandsOut
  <2>3. l[c] = Share(c, p, g)
    BY <1>1
  <2> HIDE DEF p, g, l
  <2>4. After(l, p[g + 1])[c] = IF c = p[g + 1].user THEN Append(l[c], p[g + 1]) ELSE l[c]
    BY DEF After
  <2>5. Share(c, p, g + 1) = IF p[g + 1].user = c
                             THEN Append(Share(c, p, g), p[g + 1])
                             ELSE Share(c, p, g)
    BY <2>1, ShareNext
  <2>6. QED BY <2>2, <2>3, <2>4, <2>5
<1>5. QED BY <1>2, <1>3, <1>4, ServiceMoves

\* Each step, seen by one client of one service.
LEMMA ChannelStep ==
  ASSUME Inv, SharesHeard, [Next]_vars, NEW s \in Services, NEW c \in Clients
  PROVE  LET a == Share(c, pushed[s], Len(pushed[s]))
             b == Share(c, pushed'[s], Len(pushed'[s]))
         IN  /\ \/ b = a
                \/ \E m \in [n: 1..MaxEvents, user: {c}] : b = Append(a, m)
             /\ Channel!StartsWith(inbox'[s][c], inbox[s][c])
             /\ Channel!StartsWith(b, inbox'[s][c])
<1> DEFINE p == pushed[s]
           q == pushed'[s]
           g == Done(s)
           k == Done(s)'
<1>1. /\ p \in Seq(Event) /\ Len(p) \in Nat /\ g \in 0..Len(p)
      /\ inbox[s][c] = Share(c, p, g)
  BY HandedType DEF SharesHeard
<1>2. Inv' /\ SharesHeard'
  BY InvStep, SharesStep
<1>3. /\ q \in Seq(Event) /\ Len(q) \in Nat /\ k \in 0..Len(q)
      /\ inbox'[s][c] = Share(c, q, k)
  <2>1. pushed'[s] \in Seq(Event) /\ Len(pushed'[s]) \in Nat
    BY <1>2 DEF Inv, TypeOK
  <2>2. inbox'[s][c] = Share(c, q, k)
    BY <1>2 DEF SharesHeard
  <2>3. k \in 0..Len(q)
    <3>1. (\E e \in Event : Pushes(s, e)) \/ HandsOut(s) \/ Neither(s)
      BY ServiceMoves
    <3>2. CASE HandsOut(s)
      BY <1>1, <3>2 DEF HandsOut
    <3>3. CASE Neither(s)
      BY <1>1, <3>3 DEF Neither
    <3>4. ASSUME NEW e \in Event, Pushes(s, e) PROVE k \in 0..Len(q)
      <4>1. k = g /\ q = Append(p, e)
        BY <3>4 DEF Pushes
      <4>2. Len(Append(p, e)) = Len(p) + 1
        BY <1>1
      <4> HIDE DEF p, q, g, k
      <4>3. QED BY <1>1, <4>1, <4>2
    <3>5. QED BY <3>1, <3>2, <3>3, <3>4
  <2>4. QED BY <2>1, <2>2, <2>3
<1>4. Channel!StartsWith(Share(c, q, Len(q)), Share(c, q, k))
  <2> HIDE DEF p, q, g, k
  <2>1. Len(q) \in k..Len(q)
    BY <1>3
  <2>2. QED BY <1>3, <2>1, ShareStarts
<1>5. CASE HandsOut(s) \/ Neither(s)
  <2>1. q = p /\ (k = g \/ k = g + 1)
    BY <1>5 DEF HandsOut, Neither
  <2> HIDE DEF p, q, g, k
  <2>2. k \in g..Len(p)
    BY <1>1, <1>3, <2>1
  <2>3. Channel!StartsWith(Share(c, p, k), Share(c, p, g))
    BY <1>1, <2>2, ShareStarts
  <2>4. Share(c, q, Len(q)) = Share(c, p, Len(p))
    BY <2>1
  <2>5. QED BY <1>1, <1>3, <1>4, <2>1, <2>3, <2>4 DEF p, q
<1>6. ASSUME NEW e \in Event, Pushes(s, e)
      PROVE  /\ \/ Share(c, q, Len(q)) = Share(c, p, Len(p))
                \/ \E m \in [n: 1..MaxEvents, user: {c}] :
                     Share(c, q, Len(q)) = Append(Share(c, p, Len(p)), m)
             /\ Channel!StartsWith(inbox'[s][c], inbox[s][c])
  <2>1. k = g /\ q = Append(p, e) /\ e.n = Len(p) + 1 /\ Len(p) < MaxEvents
    BY <1>6 DEF Pushes
  <2> HIDE DEF p, q, g, k
  <2>2. /\ Len(q) = Len(p) + 1 /\ q[Len(p) + 1] = e
        /\ Len(p) \in 0..Len(q) - 1 /\ Len(p) \in 0..Len(p) /\ g \in g..Len(p)
    BY <1>1, <2>1
  <2>3. Share(c, q, Len(p)) = Share(c, p, Len(p)) /\ Share(c, q, g) = Share(c, p, g)
    BY <1>1, <2>1, <2>2, SharePush
  <2>4. Share(c, q, Len(p) + 1) = IF e.user = c THEN Append(Share(c, q, Len(p)), e)
                                  ELSE Share(c, q, Len(p))
    BY <1>3, <2>2, ShareNext
  <2>5. e.user = c => e \in [n: 1..MaxEvents, user: {c}]
    <3>1. e.n \in 1..MaxEvents
      BY <1>1, <2>1, NotificationAssumption
    <3>2. QED BY <3>1 DEF Event
  <2>6. Channel!StartsWith(Share(c, p, g), Share(c, p, g))
    BY <1>1, <2>2, ShareStarts
  <2>7. QED BY <1>1, <1>3, <2>1, <2>2, <2>3, <2>4, <2>5, <2>6
<1>7. QED BY <1>3, <1>4, <1>5, <1>6, ServiceMoves

\* A notification service is an OrderFlow to each of its clients, its liveness left
\* aside: the events addressed to the client are accepted one by one, and what
\* getNotification was called with is at any time the beginning of them.
THEOREM ClientsSeeOrderFlow == Clients # {} => (Spec => Channel!FlowSafety)
<1> SUFFICES ASSUME Clients # {} PROVE Spec => Channel!FlowSafety
  OBVIOUS
<1>1. TheService \in Services /\ TheClient \in Clients
  BY NotificationAssumption DEF TheService, TheClient
<1>2. Init => Inv /\ SharesHeard /\ Channel!FlowInit
  <2> SUFFICES ASSUME Init PROVE Inv /\ SharesHeard /\ Channel!FlowInit
    OBVIOUS
  <2>1. <<>> \in Seq(Event) /\ Len(<<>>) = 0
    OBVIOUS
  <2>2. \A c : Share(c, <<>>, 0) = <<>>
    BY <2>1, ShareNext
  <2>3. ASSUME NEW s \in Services
        PROVE  pushed[s] = <<>> /\ Done(s) = 0 /\ \A c \in Clients : inbox[s][c] = <<>>
    <3>1. pushed[s] = <<>> /\ held[s] = <<>> /\ queue[s] = <<>>
      BY DEF Init
    <3>2. Handed(<<>>, <<>>, <<>>) = 0
      BY <2>1, HandedIs
    <3>3. \A c \in Clients : inbox[s][c] = <<>>
      BY DEF Init
    <3>4. QED BY <3>1, <3>2, <3>3 DEF Done
  <2>4. SharesHeard
    BY <2>2, <2>3 DEF SharesHeard
  <2>5. For(TheClient, pushed[TheService]) = <<>>
    BY <1>1, <2>1, <2>2, <2>3, ForIsShare
  <2>6. Channel!FlowInit
    BY <1>1, <2>3, <2>5 DEF Channel!FlowInit
  <2>7. QED BY <2>4, <2>6, InvInit
<1>3. Inv /\ SharesHeard /\ [Next]_vars => Inv' /\ SharesHeard'
  BY InvStep, SharesStep
<1>4. Inv /\ SharesHeard /\ [Next]_vars => [Channel!FlowNext]_Channel!flow
  <2> SUFFICES ASSUME Inv, SharesHeard, [Next]_vars PROVE Channel!FlowNext
    OBVIOUS
  <2>1. /\ For(TheClient, pushed[TheService])
             = Share(TheClient, pushed[TheService], Len(pushed[TheService]))
        /\ For(TheClient, pushed[TheService])'
             = Share(TheClient, pushed'[TheService], Len(pushed'[TheService]))
    BY ForIsShare
  <2>2. QED BY <1>1, <2>1, ChannelStep DEF Channel!FlowNext
<1>5. QED BY <1>2, <1>3, <1>4, PTL DEF Spec, Channel!FlowSafety
=============================================================================
