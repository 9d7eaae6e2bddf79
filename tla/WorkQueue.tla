------------------------------- MODULE WorkQueue -------------------------------
(***************************************************************************)
(* WORK_QUEUE (src/utils/work_queue.hpp, work_queue.cpp): the queue that   *)
(* hands matched CAN frames from the receive thread to the callback thread.*)
(*                                                                         *)
(* Every critical section of mutex_ touches only state the mutex protects, *)
(* so one section is one action and the mutex itself needs no variable.    *)
(* What is NOT one section is kept apart: enqueue reads the size in one    *)
(* section, pushes in a second and notifies after both; stop sets the flag *)
(* in a section and notifies afterwards.  condition_ is the set of threads *)
(* asleep on it: notify_one moves one of them to "woken", and a woken      *)
(* thread runs again only through a new section that tests the predicate.  *)
(*                                                                         *)
(* A task is a std::function; tasks are told apart, and one task is in     *)
(* flight at most once (each matched frame makes its own closure).         *)
(***************************************************************************)
EXTENDS Naturals, Sequences, FiniteSets

CONSTANTS
  Producers,  \* threads that call enqueue
  Consumers,  \* threads that call dequeue_blocking in a loop
  Task,       \* the closures
  None,       \* std::function with no target (nullptr)
  MaxTasks    \* MAX_WORK_QUEUE_TASKS

ASSUME WorkQueueAssumption ==
  /\ IsFiniteSet(Producers) /\ Producers # {}
  /\ IsFiniteSet(Consumers)
  /\ None \notin Task
  /\ MaxTasks \in Nat \ {0}

VARIABLES
  work_queue,  \* work_queue_
  stop,        \* stop_
  ppc,         \* where each producer is in enqueue
  func,        \* the argument of the enqueue in progress
  answer,      \* the last value enqueue returned to each producer
  cpc,         \* where each consumer is: "idle" is outside the queue's methods
  got,         \* the task a consumer took and is running
  stopper      \* where the thread that runs stop() is

queueVars == <<work_queue, stop, ppc, func, answer, cpc, got, stopper>>

InFlight ==
  {work_queue[i] : i \in 1 .. Len(work_queue)}
    \cup {func[p] : p \in Producers} \cup {got[c] : c \in Consumers}

(* The threads asleep on condition_. *)
Waiting == {c \in Consumers : cpc[c] = "waiting"}

(* The threads that owe condition_ a notify_one. *)
Notifying == {p \in Producers : ppc[p] = "notify"}

Init ==
  /\ work_queue = <<>>
  /\ stop = FALSE
  /\ ppc = [p \in Producers |-> "idle"]
  /\ func = [p \in Producers |-> None]
  /\ answer = [p \in Producers |-> "none"]
  /\ cpc = [c \in Consumers |-> "idle"]
  /\ got = [c \in Consumers |-> None]
  /\ stopper = "idle"

--------------------------------------------------------------------------------
(* enqueue *)

(* A wrong EnqueueCheck, as a mutant: the limit is off by one. *)
EnqueueCheckOffByOne(p, t) ==
  /\ ppc[p] = "idle"
  /\ t \notin InFlight
  /\ Len(work_queue) <= MaxTasks
  /\ ppc' = [ppc EXCEPT ![p] = "push"]
  /\ func' = [func EXCEPT ![p] = t]
  /\ UNCHANGED <<work_queue, stop, answer, cpc, got, stopper>>

(* First section: size() is below the limit and the call goes on. *)
EnqueueCheck(p, t) ==
  /\ ppc[p] = "idle"
  /\ t \notin InFlight
  /\ Len(work_queue) < MaxTasks
  /\ ppc' = [ppc EXCEPT ![p] = "push"]
  /\ func' = [func EXCEPT ![p] = t]
  /\ UNCHANGED <<work_queue, stop, answer, cpc, got, stopper>>

(* First section: size() has reached the limit and enqueue returns false. *)
EnqueueFull(p) ==
  /\ ppc[p] = "idle"
  /\ Len(work_queue) >= MaxTasks
  /\ answer' = [answer EXCEPT ![p] = "refused"]
  /\ UNCHANGED <<work_queue, stop, ppc, func, cpc, got, stopper>>

(* Wrong EnqueuePushes, as mutants: the notification is sent only when the  *)
(* queue was empty; the function object is emptied before it is pushed.     *)
EnqueuePushNotifyFirst(p) ==
  /\ ppc[p] = "push"
  /\ ~stop
  /\ func' = [func EXCEPT ![p] = None]
  /\ work_queue' = Append(work_queue, func[p])
  /\ ppc' = [ppc EXCEPT ![p] = IF work_queue = <<>> THEN "notify" ELSE "idle"]
  /\ answer' = [answer EXCEPT ![p] = "accepted"]
  /\ UNCHANGED <<stop, cpc, got, stopper>>

EnqueuePushMoved(p) ==
  /\ ppc[p] = "push"
  /\ ~stop
  /\ func' = [func EXCEPT ![p] = None]
  /\ work_queue' = Append(work_queue, None)
  /\ ppc' = [ppc EXCEPT ![p] = "notify"]
  /\ answer' = [answer EXCEPT ![p] = "accepted"]
  /\ UNCHANGED <<stop, cpc, got, stopper>>

(* Second section: stop_ is tested under the lock, then the task goes in. *)
EnqueuePush(p) ==
  /\ ppc[p] = "push"
  /\ func' = [func EXCEPT ![p] = None]
  /\ \/ /\ stop
        /\ ppc' = [ppc EXCEPT ![p] = "idle"]
        /\ answer' = [answer EXCEPT ![p] = "refused"]
        /\ UNCHANGED work_queue
     \/ /\ ~stop
        /\ work_queue' = Append(work_queue, func[p])
        /\ ppc' = [ppc EXCEPT ![p] = "notify"]
        /\ answer' = [answer EXCEPT ![p] = "accepted"]
  /\ UNCHANGED <<stop, cpc, got, stopper>>

(* A wrong EnqueueNotify, as a mutant: nobody is woken. *)
EnqueueNotifyNobody(p) ==
  /\ ppc[p] = "notify"
  /\ ppc' = [ppc EXCEPT ![p] = "idle"]
  /\ UNCHANGED <<work_queue, stop, func, answer, cpc, got, stopper>>

(* condition_.notify_one(): one sleeper, if there is one, becomes runnable. *)
EnqueueNotify(p) ==
  /\ ppc[p] = "notify"
  /\ ppc' = [ppc EXCEPT ![p] = "idle"]
  /\ IF Waiting = {}
     THEN UNCHANGED cpc
     ELSE \E c \in Waiting : cpc' = [cpc EXCEPT ![c] = "woken"]
  /\ UNCHANGED <<work_queue, stop, func, answer, got, stopper>>

--------------------------------------------------------------------------------
(* dequeue_blocking, dequeue_nonblocking and the callback loop around them *)

(* A consumer that holds mutex_ and tests the wait predicate: it either     *)
(* calls dequeue_blocking or comes back from a wait.                        *)
Testing(c) == cpc[c] \in {"idle", "woken"}

(* The queue is empty: release mutex_ and sleep, in one step. *)
DequeueWait(c) ==
  /\ Testing(c)
  /\ work_queue = <<>>
  /\ cpc' = [cpc EXCEPT ![c] = "waiting"]
  /\ UNCHANGED <<work_queue, stop, ppc, func, answer, got, stopper>>

(* The queue has a task but is stopped: dequeue_blocking returns nullptr. *)
DequeueStopped(c) ==
  /\ Testing(c)
  /\ work_queue # <<>>
  /\ stop
  /\ cpc' = [cpc EXCEPT ![c] = "idle"]
  /\ UNCHANGED <<work_queue, stop, ppc, func, answer, got, stopper>>

(* A wrong TakeFront, as a mutant: the newest task is taken. *)
TakeBack(c) ==
  /\ work_queue # <<>>
  /\ ~stop
  /\ got' = [got EXCEPT ![c] = work_queue[Len(work_queue)]]
  /\ work_queue' = SubSeq(work_queue, 1, Len(work_queue) - 1)
  /\ cpc' = [cpc EXCEPT ![c] = "running"]
  /\ UNCHANGED <<stop, ppc, func, answer, stopper>>

(* The front task is copied out and popped. *)
TakeFront(c) ==
  /\ work_queue # <<>>
  /\ ~stop
  /\ got' = [got EXCEPT ![c] = Head(work_queue)]
  /\ work_queue' = Tail(work_queue)
  /\ cpc' = [cpc EXCEPT ![c] = "running"]
  /\ UNCHANGED <<stop, ppc, func, answer, stopper>>

DequeueBlocking(c) == Testing(c) /\ TakeFront(c)

(* dequeue_nonblocking: the cases that return nullptr change nothing. *)
DequeueNonblocking(c) == cpc[c] = "idle" /\ TakeFront(c)

(* The consumer has run the task and loops. *)
TaskReturns(c) ==
  /\ cpc[c] = "running"
  /\ cpc' = [cpc EXCEPT ![c] = "idle"]
  /\ got' = [got EXCEPT ![c] = None]
  /\ UNCHANGED <<work_queue, stop, ppc, func, answer, stopper>>

(* A condition variable may return from a wait nobody ended. *)
SpuriousWakeup(c) ==
  /\ cpc[c] = "waiting"
  /\ cpc' = [cpc EXCEPT ![c] = "woken"]
  /\ UNCHANGED <<work_queue, stop, ppc, func, answer, got, stopper>>

--------------------------------------------------------------------------------
(* clear_queue and stop *)

ClearQueue ==
  /\ work_queue # <<>>
  /\ work_queue' = <<>>
  /\ UNCHANGED <<stop, ppc, func, answer, cpc, got, stopper>>

(* stop() is private: the destructor calls it, once. *)
Stop ==
  /\ stopper = "idle"
  /\ stop' = TRUE
  /\ stopper' = "notify"
  /\ UNCHANGED <<work_queue, ppc, func, answer, cpc, got>>

(* condition_.notify_all() *)
StopNotify ==
  /\ stopper = "notify"
  /\ stopper' = "done"
  /\ cpc' = [c \in Consumers |-> IF c \in Waiting THEN "woken" ELSE cpc[c]]
  /\ UNCHANGED <<work_queue, stop, ppc, func, answer, got>>

--------------------------------------------------------------------------------
Producer(p) ==
  \/ \E t \in Task : EnqueueCheck(p, t)
  \/ EnqueueFull(p)
  \/ EnqueuePush(p)
  \/ EnqueueNotify(p)

Consumer(c) ==
  \/ DequeueWait(c)
  \/ DequeueStopped(c)
  \/ DequeueBlocking(c)
  \/ DequeueNonblocking(c)
  \/ TaskReturns(c)
  \/ SpuriousWakeup(c)

Next ==
  \/ \E p \in Producers : Producer(p)
  \/ \E c \in Consumers : Consumer(c)
  \/ ClearQueue
  \/ Stop
  \/ StopNotify

Spec == Init /\ [][Next]_queueVars

(* Threads inside a call finish it and a consumer that is awake keeps       *)
(* looping; nobody is obliged to enqueue, to clear or to stop.              *)
Fairness ==
  /\ \A p \in Producers : WF_queueVars(EnqueuePush(p) \/ EnqueueNotify(p))
  /\ \A c \in Consumers :
       WF_queueVars(DequeueWait(c) \/ DequeueStopped(c) \/ DequeueBlocking(c)
                      \/ TaskReturns(c))
  /\ WF_queueVars(StopNotify)

FairSpec == Spec /\ Fairness

--------------------------------------------------------------------------------
(* The type invariant. *)
TypeOK ==
  /\ work_queue \in Seq(Task)
  /\ stop \in BOOLEAN
  /\ ppc \in [Producers -> {"idle", "push", "notify"}]
  /\ func \in [Producers -> Task \cup {None}]
  /\ answer \in [Producers -> {"none", "accepted", "refused"}]
  /\ cpc \in [Consumers -> {"idle", "waiting", "woken", "running"}]
  /\ got \in [Consumers -> Task \cup {None}]
  /\ stopper \in {"idle", "notify", "done"}

(* The size is read in one critical section and the push is done in         *)
(* another, so the limit can be overshot, but only by the producers that    *)
(* were between the two: with the single receive thread of the daemon the   *)
(* queue never exceeds MAX_WORK_QUEUE_TASKS (enqueue).                      *)
QueueBound == Len(work_queue) + 1 <= MaxTasks + Cardinality(Producers)

(* notify_one is called after the lock is released, and a notification with *)
(* no sleeper is lost; still, while some consumer sleeps, every queued task *)
(* is matched by a producer about to notify or by a consumer that is awake  *)
(* (enqueue, dequeue_blocking).                                             *)
NoLostWakeup ==
  Waiting # {} =>
    Len(work_queue) <= Cardinality(Notifying) + Cardinality(Consumers \ Waiting)

(* WORK_QUEUE implements a bounded FIFO buffer: tasks are taken in the      *)
(* order they were accepted, each once; false is returned only while the    *)
(* queue is full or stopped; nothing enters or leaves after stop().         *)
Fifo == INSTANCE BoundedFifo WITH
  Submitter <- Producers, Taker <- Consumers, Item <- Task, NoItem <- None,
  Capacity <- MaxTasks, Bound <- MaxTasks + Cardinality(Producers) - 1,
  items <- work_queue, open <- ~stop, held <- got

ImplementsFifo == Fifo!Spec

(* Every task enqueue accepted is taken by a consumer, unless the queue is  *)
(* cleared or stopped (the wait loop of dequeue_blocking loses no task).    *)
EveryTaskLeaves ==
  \A t \in Task :
    (\E i \in 1 .. Len(work_queue) : work_queue[i] = t)
      ~> (stop \/ ~ \E i \in 1 .. Len(work_queue) : work_queue[i] = t)

(* stop() wakes the sleepers so that dequeue_blocking can report "Work      *)
(* queue is stopped. Not dequeue" (src/src/utils/work_queue.cpp:55): once   *)
(* stop() has returned, no consumer stays asleep for ever.                  *)
StopReleasesConsumers ==
  \A c \in Consumers : (stopper = "done") ~> (cpc[c] # "waiting")
================================================================================
