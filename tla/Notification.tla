---------------------------- MODULE Notification ----------------------------
(***************************************************************************)
(* TradeNotificationService and the EventQueue it reads: the order book    *)
(* pushes events, the service's thread takes them out one by one and hands *)
(* each to the clients it is addressed to; stop() joins the thread and     *)
(* drains what is left.                                                    *)
(*                                                                         *)
(* queueMutex and queueCv are file-level statics of event_queue.cpp, so    *)
(* every EventQueue of the process shares them: there is one module        *)
(* instance for all of them, each service s with a queue of its own.       *)
(* What runs under queueMutex is one step.  Clients register before        *)
(* start(); a service without a queue only sleeps and is left out.         *)
(***************************************************************************)
EXTENDS Naturals, Sequences

CONSTANTS
  Services,          \* the notification services, each with its EventQueue
  Users,             \* the user ids events are addressed to
  Clients,           \* the users that registered with addClient
  MaxEvents,         \* bound on the events pushed to one queue
  MaxStarts,         \* bound on the calls of start() of one service
  QuiesceBeforeStop  \* TRUE: nothing is pushed from stop() on (as in main.cpp)

ASSUME NotificationAssumption ==
  /\ Services # {}
  /\ Clients \subseteq Users
  /\ MaxEvents \in Nat
  /\ MaxStarts \in Nat
  /\ QuiesceBeforeStop \in BOOLEAN

VARIABLES        \* each a function on Services
  queue,         \* the EventQueue
  running,       \* std::atomic<bool> running
  notifier,      \* where the processing thread is
  held,          \* the event it has taken and not yet dispatched, or <<>>
  control,       \* where the thread that calls start() and stop() is
  starts,        \* calls of start() so far
  inbox,         \* [Clients -> events]: what getNotification was called with
  pushed         \* history: every event pushed

vars == <<queue, running, notifier, held, control, starts, inbox, pushed>>

Event == [n: Nat, user: Users]

Init ==
  /\ queue = [s \in Services |-> <<>>]
  /\ running = [s \in Services |-> FALSE]
  /\ notifier = [s \in Services |-> "none"]
  /\ held = [s \in Services |-> <<>>]
  /\ control = [s \in Services |-> "down"]
  /\ starts = [s \in Services |-> 0]
  /\ inbox = [s \in Services |-> [c \in Clients |-> <<>>]]
  /\ pushed = [s \in Services |-> <<>>]

-----------------------------------------------------------------------------
(* EventQueue *)

Asleep == {s \in Services : notifier[s] = "asleep"}

\* Mutant: push() does not notify.
NotifyNoOne == UNCHANGED notifier

\* notify_one: some waiter of the shared condition variable, not necessarily the
\* one that reads this queue, returns to test its predicate.
NotifyOne ==
  \/ Asleep = {} /\ UNCHANGED notifier
  \/ \E t \in Asleep : notifier' = [notifier EXCEPT ![t] = "woken"]

Push(s) ==
  /\ Len(pushed[s]) < MaxEvents
  /\ QuiesceBeforeStop => control[s] = "up"
  /\ \E u \in Users :
       LET e == [n |-> Len(pushed[s]) + 1, user |-> u]
       IN  /\ queue' = [queue EXCEPT ![s] = Append(@, e)]
           /\ pushed' = [pushed EXCEPT ![s] = Append(@, e)]
  /\ NotifyOne
  /\ UNCHANGED <<running, held, control, starts, inbox>>

\* The front of the queue is taken, by poll() as well as by pollWait().
Pop(s) == queue' = [queue EXCEPT ![s] = Tail(@)]

\* wake(): notify_all.
Wake == notifier' = [s \in Services |-> IF s \in Asleep THEN "woken" ELSE notifier[s]]

\* dispatch(): every registered client with that id.
Dispatch(s, e) ==
  inbox' = [inbox EXCEPT ![s] =
              [c \in Clients |-> IF c = e.user THEN Append(@[c], e) ELSE @[c]]]

-----------------------------------------------------------------------------
(* run(): the processing thread of service s *)

LoopTest(s) ==
  /\ notifier[s] = "top"
  /\ notifier' = [notifier EXCEPT ![s] = IF running[s] THEN "lock" ELSE "done"]
  /\ UNCHANGED <<queue, running, held, control, starts, inbox, pushed>>

\* pollWait holds the mutex, for the first time or woken up, and the queue is empty:
\* running is not looked at.
Sleep(s) ==
  /\ notifier[s] \in {"lock", "woken"}
  /\ queue[s] = <<>>
  /\ notifier' = [notifier EXCEPT ![s] = "asleep"]
  /\ UNCHANGED <<queue, running, held, control, starts, inbox, pushed>>

\* Mutant: front() without pop().
TakeKeeping(s) ==
  /\ notifier[s] \in {"lock", "woken", "late"}
  /\ queue[s] # <<>>
  /\ held' = [held EXCEPT ![s] = <<Head(queue[s])>>]
  /\ notifier' = [notifier EXCEPT ![s] = "dispatch"]
  /\ UNCHANGED <<queue, running, control, starts, inbox, pushed>>

Take(s) ==
  /\ notifier[s] \in {"lock", "woken", "late"}
  /\ queue[s] # <<>>
  /\ held' = [held EXCEPT ![s] = <<Head(queue[s])>>]
  /\ Pop(s)
  /\ notifier' = [notifier EXCEPT ![s] = "dispatch"]
  /\ UNCHANGED <<running, control, starts, inbox, pushed>>

\* The deadline has passed with the queue empty: nullopt.
GiveUpWait(s) ==
  /\ notifier[s] = "late"
  /\ queue[s] = <<>>
  /\ notifier' = [notifier EXCEPT ![s] = "top"]
  /\ UNCHANGED <<queue, running, held, control, starts, inbox, pushed>>

Deliver(s) ==
  /\ notifier[s] = "dispatch"
  /\ Dispatch(s, held[s][1])
  /\ held' = [held EXCEPT ![s] = <<>>]
  /\ notifier' = [notifier EXCEPT ![s] = "top"]
  /\ UNCHANGED <<queue, running, control, starts, pushed>>

Notifier(s) == LoopTest(s) \/ Sleep(s) \/ Take(s) \/ GiveUpWait(s) \/ Deliver(s)

\* The 50 ms of pollWait are over.
Timeout(s) ==
  /\ notifier[s] = "asleep"
  /\ notifier' = [notifier EXCEPT ![s] = "late"]
  /\ UNCHANGED <<queue, running, held, control, starts, inbox, pushed>>

\* A condition variable may also return for no reason.
SpuriousWakeup(s) ==
  /\ notifier[s] = "asleep"
  /\ notifier' = [notifier EXCEPT ![s] = "woken"]
  /\ UNCHANGED <<queue, running, held, control, starts, inbox, pushed>>

-----------------------------------------------------------------------------
(* start() and stop() of service s, called by one thread *)

\* Only when no thread runs: a second start() would assign to a joinable thread.
Start(s) ==
  /\ control[s] = "down"
  /\ starts[s] < MaxStarts
  /\ running' = [running EXCEPT ![s] = TRUE]
  /\ notifier' = [notifier EXCEPT ![s] = "top"]
  /\ control' = [control EXCEPT ![s] = "up"]
  /\ starts' = [starts EXCEPT ![s] = @ + 1]
  /\ UNCHANGED <<queue, held, inbox, pushed>>

\* Mutant: running stays set.
StopCalledOnly(s) ==
  /\ control[s] = "up"
  /\ control' = [control EXCEPT ![s] = "waking"]
  /\ UNCHANGED <<queue, running, notifier, held, starts, inbox, pushed>>

StopCalled(s) ==
  /\ control[s] = "up"
  /\ running' = [running EXCEPT ![s] = FALSE]
  /\ control' = [control EXCEPT ![s] = "waking"]
  /\ UNCHANGED <<queue, notifier, held, starts, inbox, pushed>>

WakeAll(s) ==
  /\ control[s] = "waking"
  /\ Wake
  /\ control' = [control EXCEPT ![s] = "joining"]
  /\ UNCHANGED <<queue, running, held, starts, inbox, pushed>>

\* Mutant: the queue is drained while the thread may still run.
JoinNot(s) ==
  /\ control[s] = "joining"
  /\ control' = [control EXCEPT ![s] = "draining"]
  /\ UNCHANGED <<queue, running, notifier, held, starts, inbox, pushed>>

Join(s) ==
  /\ control[s] = "joining"
  /\ notifier[s] = "done"
  /\ notifier' = [notifier EXCEPT ![s] = "none"]
  /\ control' = [control EXCEPT ![s] = "draining"]
  /\ UNCHANGED <<queue, running, held, starts, inbox, pushed>>

Drain(s) ==
  /\ control[s] = "draining"
  /\ queue[s] # <<>>
  /\ Dispatch(s, Head(queue[s]))
  /\ Pop(s)
  /\ UNCHANGED <<running, notifier, held, control, starts, pushed>>

\* Mutant: stop() returns without draining.
DrainedAtOnce(s) ==
  /\ control[s] = "draining"
  /\ control' = [control EXCEPT ![s] = "down"]
  /\ UNCHANGED <<queue, running, notifier, held, starts, inbox, pushed>>

Drained(s) ==
  /\ control[s] = "draining"
  /\ queue[s] = <<>>
  /\ control' = [control EXCEPT ![s] = "down"]
  /\ UNCHANGED <<queue, running, notifier, held, starts, inbox, pushed>>

Stopping(s) == WakeAll(s) \/ Join(s) \/ Drain(s) \/ Drained(s)

-----------------------------------------------------------------------------

Next ==
  \E s \in Services :
    \/ Push(s)
    \/ Notifier(s)
    \/ Timeout(s)
    \/ SpuriousWakeup(s)
    \/ Start(s)
    \/ StopCalled(s)
    \/ Stopping(s)

Spec == Init /\ [][Next]_vars

\* The processing threads and a stop() in progress are scheduled.
FairSpec ==
  Spec /\ \A s \in Services : WF_vars(Notifier(s)) /\ WF_vars(Stopping(s))

\* Besides, time passes.  The deadline of a wait is fixed when it begins, and being
\* woken in between does not put it off: hence strong fairness.
TimedSpec == FairSpec /\ \A s \in Services : SF_vars(Timeout(s))

-----------------------------------------------------------------------------
(* Properties. *)

\* Where the threads are and what they hold.
TypeOK ==
  /\ queue \in [Services -> Seq(Event)]
  /\ running \in [Services -> BOOLEAN]
  /\ notifier \in
       [Services -> {"none", "top", "lock", "asleep", "woken", "late", "dispatch", "done"}]
  /\ held \in [Services -> Seq(Event)]
  /\ control \in [Services -> {"down", "up", "waking", "joining", "draining"}]
  /\ starts \in [Services -> Nat]
  /\ inbox \in [Services -> [Clients -> Seq(Event)]]
  /\ pushed \in [Services -> Seq(Event)]

\* The events in the thread's hand and in the queue, and how many came before them.
Waiting(s) == held[s] \o queue[s]

Gone(s) == Len(pushed[s]) - Len(Waiting(s))

\* Each client hears of its events in the order they were pushed, each once, and of no
\* other client's: those it has, the one in the thread's hand and those in the queue
\* are all there are, also while stop() drains and after a restart.
ClientsHearInOrder ==
  \A s \in Services, c \in Clients :
    LET heard == inbox[s][c]
    IN  /\ \A i \in 1..Len(Waiting(s)) : Waiting(s)[i] = pushed[s][Gone(s) + i]
        /\ \A j, k \in 1..Len(heard) : j < k => heard[j].n < heard[k].n
        /\ {heard[j] : j \in 1..Len(heard)} =
             {pushed[s][n] : n \in {m \in 1..Gone(s) : pushed[s][m].user = c}}

\* When stop() has returned, every event has been dispatched, given that the order
\* book was stopped first.
NothingLeftAtStop ==
  \A s \in Services : control[s] = "down" => queue[s] = <<>> /\ held[s] = <<>>

\* Every event pushed while the service is up is dispatched, or the service stops.
PushedIsDelivered ==
  \A s \in Services, n \in 1..MaxEvents :
    (Len(pushed[s]) >= n /\ control[s] = "up")
      ~> (\/ \E c \in Clients : \E k \in DOMAIN inbox[s][c] : inbox[s][c][k].n = n
          \/ Len(pushed[s]) >= n /\ pushed[s][n].user \notin Clients
          \/ control[s] # "up")

\* stop() returns, from wherever the processing thread is and whatever is left to
\* drain, also when the notifications for it went to the threads of other services.
StopReturns == \A s \in Services : (control[s] = "waking") ~> (control[s] = "down")
=============================================================================
