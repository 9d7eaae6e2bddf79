---------------------------- MODULE WorkQueueProofs ----------------------------
(***************************************************************************)
(* Proofs about WorkQueue for any number of producers and consumers and    *)
(* any limit MaxTasks.                                                     *)
(***************************************************************************)
EXTENDS WorkQueue, FiniteSetTheorems, TLAPS

(* The producers between the size test and the push. *)
Checked == {p \in Producers : ppc[p] = "push"}

(* Room is reserved for each of them: this is what QueueBound rests on. *)
RoomForChecked ==
  Len(work_queue) + Cardinality(Checked) + 1 <= MaxTasks + Cardinality(Producers)

(* A producer past the size test carries a task, and a consumer that is not *)
(* running one holds none.                                                  *)
TasksInHand ==
  /\ \A p \in Producers : ppc[p] = "push" => func[p] \in Task
  /\ \A c \in Consumers : cpc[c] # "running" => got[c] = None

IInv == TypeOK /\ RoomForChecked /\ NoLostWakeup /\ TasksInHand

--------------------------------------------------------------------------------
(* The thread sets are finite, so their cardinalities are natural numbers.  *)
LEMMA ThreadSetsFinite ==
  /\ IsFiniteSet(Checked) /\ Cardinality(Checked) \in Nat
  /\ IsFiniteSet(Notifying) /\ Cardinality(Notifying) \in Nat
  /\ IsFiniteSet(Consumers \ Waiting) /\ Cardinality(Consumers \ Waiting) \in Nat
  /\ Cardinality(Producers) \in Nat
  /\ Cardinality(Checked) <= Cardinality(Producers)
<1>1. /\ Checked \in SUBSET Producers
      /\ Notifying \in SUBSET Producers
      /\ Consumers \ Waiting \in SUBSET Consumers
  BY DEF Checked, Notifying, Waiting
<1>2. /\ IsFiniteSet(Checked) /\ IsFiniteSet(Notifying)
      /\ IsFiniteSet(Consumers \ Waiting)
      /\ Cardinality(Checked) <= Cardinality(Producers)
  BY <1>1, FS_Subset, WorkQueueAssumption
<1>3. QED
  BY <1>2, FS_CardinalityType, WorkQueueAssumption

LEMMA ThreadSetsFinitePrimed ==
  /\ IsFiniteSet(Checked') /\ Cardinality(Checked') \in Nat
  /\ IsFiniteSet(Notifying') /\ Cardinality(Notifying') \in Nat
  /\ IsFiniteSet(Consumers \ Waiting') /\ Cardinality(Consumers \ Waiting') \in Nat
  /\ Cardinality(Checked') <= Cardinality(Producers)
<1>1. /\ Checked' \in SUBSET Producers
      /\ Notifying' \in SUBSET Producers
      /\ Consumers \ Waiting' \in SUBSET Consumers
  BY DEF Checked, Notifying, Waiting
<1>2. /\ IsFiniteSet(Checked') /\ IsFiniteSet(Notifying')
      /\ IsFiniteSet(Consumers \ Waiting')
      /\ Cardinality(Checked') <= Cardinality(Producers)
  BY <1>1, FS_Subset, WorkQueueAssumption
<1>3. QED
  BY <1>2, FS_CardinalityType, WorkQueueAssumption

(* Adding or removing one thread changes a cardinality by one. *)
LEMMA OneMore ==
  ASSUME NEW S, NEW x, IsFiniteSet(S), x \notin S
  PROVE  Cardinality(S \cup {x}) = Cardinality(S) + 1
BY FS_AddElement

LEMMA OneLess ==
  ASSUME NEW S, NEW x, IsFiniteSet(S), x \in S
  PROVE  Cardinality(S \ {x}) = Cardinality(S) - 1
BY FS_RemoveElement

(* A step is one operation of one thread, or leaves every variable alone. *)
LEMMA StepCases ==
  [Next]_queueVars =>
    \/ \E p \in Producers :
         \/ \E t \in Task : EnqueueCheck(p, t)
         \/ EnqueueFull(p) \/ EnqueuePush(p) \/ EnqueueNotify(p)
    \/ \E c \in Consumers :
         \/ DequeueWait(c) \/ DequeueStopped(c)
         \/ cpc[c] \notin {"waiting", "running"} /\ TakeFront(c)
         \/ TaskReturns(c) \/ SpuriousWakeup(c)
    \/ ClearQueue \/ Stop \/ StopNotify
    \/ UNCHANGED queueVars
BY DEF Next, Producer, Consumer, DequeueBlocking, DequeueNonblocking, Testing

--------------------------------------------------------------------------------
(* Types are kept by every step (queue, program counters, tasks in hand).   *)
LEMMA TypeStep == TypeOK /\ TasksInHand /\ [Next]_queueVars => TypeOK'
<1> SUFFICES ASSUME TypeOK, TasksInHand, [Next]_queueVars PROVE TypeOK'
  OBVIOUS
<1> USE DEF TypeOK
<1>1. ASSUME NEW p \in Producers, NEW t \in Task, EnqueueCheck(p, t) PROVE TypeOK'
  BY <1>1 DEF EnqueueCheck
<1>2. ASSUME NEW p \in Producers, EnqueueFull(p) PROVE TypeOK'
  BY <1>2 DEF EnqueueFull
<1>3. ASSUME NEW p \in Producers, EnqueuePush(p) PROVE TypeOK'
  <2>1. func[p] \in Task
    BY <1>3 DEF EnqueuePush, TasksInHand
  <2>2. CASE work_queue' = Append(work_queue, func[p])
              /\ ppc' = [ppc EXCEPT ![p] = "notify"]
              /\ answer' = [answer EXCEPT ![p] = "accepted"]
    BY <1>3, <2>1, <2>2 DEF EnqueuePush
  <2>3. CASE UNCHANGED work_queue
              /\ ppc' = [ppc EXCEPT ![p] = "idle"]
              /\ answer' = [answer EXCEPT ![p] = "refused"]
    BY <1>3, <2>3 DEF EnqueuePush
  <2>4. QED
    BY <1>3, <2>2, <2>3 DEF EnqueuePush
<1>4. ASSUME NEW p \in Producers, EnqueueNotify(p) PROVE TypeOK'
  <2>1. CASE Waiting = {}
    BY <1>4, <2>1 DEF EnqueueNotify
  <2>2. CASE Waiting # {}
    <3>1. PICK c \in Waiting : cpc' = [cpc EXCEPT ![c] = "woken"]
      BY <1>4, <2>2 DEF EnqueueNotify
    <3>2. QED
      BY <1>4, <3>1 DEF EnqueueNotify
  <2>3. QED
    BY <2>1, <2>2
<1>5. ASSUME NEW c \in Consumers, DequeueWait(c) PROVE TypeOK'
  BY <1>5 DEF DequeueWait
<1>6. ASSUME NEW c \in Consumers, DequeueStopped(c) PROVE TypeOK'
  BY <1>6 DEF DequeueStopped
<1>7. ASSUME NEW c \in Consumers, TakeFront(c) PROVE TypeOK'
  <2>1. Head(work_queue) \in Task /\ Tail(work_queue) \in Seq(Task)
    BY <1>7 DEF TakeFront
  <2>2. QED
    BY <1>7, <2>1 DEF TakeFront
<1>8. ASSUME NEW c \in Consumers, TaskReturns(c) PROVE TypeOK'
  BY <1>8 DEF TaskReturns
<1>9. ASSUME NEW c \in Consumers, SpuriousWakeup(c) PROVE TypeOK'
  BY <1>9 DEF SpuriousWakeup
<1>10. CASE ClearQueue
  BY <1>10 DEF ClearQueue
<1>11. CASE Stop
  BY <1>11 DEF Stop
<1>12. CASE StopNotify
  BY <1>12 DEF StopNotify
<1>13. CASE UNCHANGED queueVars
  BY <1>13 DEF queueVars
<1>14. QED
  BY StepCases, <1>1, <1>2, <1>3, <1>4, <1>5, <1>6, <1>7, <1>8, <1>9, <1>10,
     <1>11, <1>12, <1>13

(* Tasks stay where the program counters say they are. *)
LEMMA TasksInHandStep == TypeOK /\ TasksInHand /\ [Next]_queueVars => TasksInHand'
<1> SUFFICES ASSUME TypeOK, TasksInHand, [Next]_queueVars PROVE TasksInHand'
  OBVIOUS
<1> USE DEF TypeOK, TasksInHand
<1>1. ASSUME NEW p \in Producers, NEW t \in Task, EnqueueCheck(p, t)
      PROVE  TasksInHand'
  BY <1>1 DEF EnqueueCheck
<1>2. ASSUME NEW p \in Producers, EnqueueFull(p) PROVE TasksInHand'
  BY <1>2 DEF EnqueueFull
<1>3. ASSUME NEW p \in Producers, EnqueuePush(p) PROVE TasksInHand'
  BY <1>3 DEF EnqueuePush
<1>4. ASSUME NEW p \in Producers, EnqueueNotify(p) PROVE TasksInHand'
  BY <1>4 DEF EnqueueNotify, Waiting
<1>5. ASSUME NEW c \in Consumers, DequeueWait(c) PROVE TasksInHand'
  BY <1>5 DEF DequeueWait, Testing
<1>6. ASSUME NEW c \in Consumers, DequeueStopped(c) PROVE TasksInHand'
  BY <1>6 DEF DequeueStopped, Testing
<1>7. ASSUME NEW c \in Consumers, TakeFront(c) PROVE TasksInHand'
  BY <1>7 DEF TakeFront
<1>8. ASSUME NEW c \in Consumers, TaskReturns(c) PROVE TasksInHand'
  BY <1>8 DEF TaskReturns
<1>9. ASSUME NEW c \in Consumers, SpuriousWakeup(c) PROVE TasksInHand'
  BY <1>9 DEF SpuriousWakeup
<1>10. CASE ClearQueue
  BY <1>10 DEF ClearQueue
<1>11. CASE Stop
  BY <1>11 DEF Stop
<1>12. CASE StopNotify
  BY <1>12 DEF StopNotify, Waiting
<1>13. CASE UNCHANGED queueVars
  BY <1>13 DEF queueVars
<1>14. QED
  BY StepCases, <1>1, <1>2, <1>3, <1>4, <1>5, <1>6, <1>7, <1>8, <1>9, <1>10,
     <1>11, <1>12, <1>13

(* Passing the size test takes one of the places below the limit, so it is  *)
(* enough that each producer can have passed it once.                       *)
LEMMA RoomStep == TypeOK /\ RoomForChecked /\ [Next]_queueVars => RoomForChecked'
<1> SUFFICES ASSUME TypeOK, RoomForChecked, [Next]_queueVars PROVE RoomForChecked'
  OBVIOUS
<1> USE ThreadSetsFinite, ThreadSetsFinitePrimed, WorkQueueAssumption DEF TypeOK
<1>0. Len(work_queue) \in Nat
  OBVIOUS
<1>1. ASSUME NEW p \in Producers, NEW t \in Task, EnqueueCheck(p, t)
      PROVE  RoomForChecked'
  BY <1>0, <1>1 DEF EnqueueCheck, RoomForChecked
<1>2. ASSUME NEW p \in Producers, EnqueuePush(p) PROVE RoomForChecked'
  <2>1. Checked' = Checked \ {p} /\ p \in Checked
    BY <1>2 DEF EnqueuePush, Checked
  <2>2. Cardinality(Checked') = Cardinality(Checked) - 1
    BY <2>1, OneLess
  <2>3. Len(work_queue') <= Len(work_queue) + 1 /\ Len(work_queue') \in Nat
    BY <1>2, TypeStep, <1>0 DEF EnqueuePush
  <2>4. Len(work_queue') + Cardinality(Checked')
          <= Len(work_queue) + Cardinality(Checked)
    BY <1>0, <2>2, <2>3
  <2>5. QED
    BY <1>0, <2>3, <2>4 DEF RoomForChecked
<1>3. CASE Len(work_queue') \in Nat /\ Len(work_queue') <= Len(work_queue)
             /\ Checked' = Checked
  BY <1>0, <1>3 DEF RoomForChecked
<1>4. ASSUME NEW p \in Producers, EnqueueFull(p) \/ EnqueueNotify(p)
      PROVE  RoomForChecked'
  <2>1. Checked' = Checked /\ work_queue' = work_queue
    BY <1>4 DEF EnqueueFull, EnqueueNotify, Checked
  <2>2. QED
    BY <2>1, <1>0, <1>3
<1>5. ASSUME NEW c \in Consumers,
             DequeueWait(c) \/ DequeueStopped(c) \/ TaskReturns(c) \/ SpuriousWakeup(c)
      PROVE  RoomForChecked'
  <2>1. Checked' = Checked /\ work_queue' = work_queue
    BY <1>5 DEF DequeueWait, DequeueStopped, TaskReturns, SpuriousWakeup, Checked
  <2>2. QED
    BY <2>1, <1>0, <1>3
<1>6. ASSUME NEW c \in Consumers, TakeFront(c) PROVE RoomForChecked'
  <2>1. Checked' = Checked /\ Len(work_queue') = Len(work_queue) - 1
          /\ Len(work_queue') \in Nat
    BY <1>6 DEF TakeFront, Checked
  <2>2. QED
    BY <2>1, <1>0, <1>3
<1>7. CASE ClearQueue
  <2>1. Checked' = Checked /\ Len(work_queue') = 0
    BY <1>7 DEF ClearQueue, Checked
  <2>2. QED
    BY <2>1, <1>0, <1>3
<1>8. CASE Stop \/ StopNotify \/ UNCHANGED queueVars
  <2>1. Checked' = Checked /\ work_queue' = work_queue
    BY <1>8 DEF Stop, StopNotify, queueVars, Checked
  <2>2. QED
    BY <2>1, <1>0, <1>3
<1>9. QED
  BY StepCases, <1>1, <1>2, <1>4, <1>5, <1>6, <1>7, <1>8

(* A wait begins with an empty queue; from then on each push is paid for    *)
(* by the notification it owes, and each notification by the sleeper it     *)
(* makes runnable.                                                          *)
LEMMA WakeupStep == TypeOK /\ NoLostWakeup /\ [Next]_queueVars => NoLostWakeup'
<1> SUFFICES ASSUME TypeOK, NoLostWakeup, [Next]_queueVars, Waiting' # {}
             PROVE  Len(work_queue') <=
                      Cardinality(Notifying') + Cardinality(Consumers \ Waiting')
  BY DEF NoLostWakeup
<1> DEFINE Goal == Len(work_queue') <=
                     Cardinality(Notifying') + Cardinality(Consumers \ Waiting')
           Awake == Consumers \ Waiting
<1>0. /\ Len(work_queue) \in Nat
      /\ Cardinality(Notifying) \in Nat /\ Cardinality(Notifying') \in Nat
      /\ Cardinality(Awake) \in Nat /\ Cardinality(Awake') \in Nat
      /\ IsFiniteSet(Notifying) /\ IsFiniteSet(Awake)
  BY ThreadSetsFinite, ThreadSetsFinitePrimed DEF TypeOK
<1>a. Waiting # {} => Len(work_queue) <= Cardinality(Notifying) + Cardinality(Awake)
  BY DEF NoLostWakeup
<1>b. ASSUME Len(work_queue') \in Nat, Len(work_queue') <= Len(work_queue),
             Notifying' = Notifying, Waiting' = Waiting
      PROVE  Goal
  BY <1>0, <1>a, <1>b
<1>1. ASSUME NEW p \in Producers, NEW t \in Task, EnqueueCheck(p, t) PROVE Goal
  <2>1. Notifying' = Notifying /\ Waiting' = Waiting /\ work_queue' = work_queue
    BY <1>1 DEF EnqueueCheck, Notifying, Waiting, TypeOK
  <2>2. QED
    BY <2>1, <1>b, <1>0
<1>2. ASSUME NEW p \in Producers, EnqueueFull(p) PROVE Goal
  <2>1. Notifying' = Notifying /\ Waiting' = Waiting /\ work_queue' = work_queue
    BY <1>2 DEF EnqueueFull, Notifying, Waiting
  <2>2. QED
    BY <2>1, <1>b, <1>0
<1>3. ASSUME NEW p \in Producers, EnqueuePush(p) PROVE Goal
  <2>1. Waiting' = Waiting
    BY <1>3 DEF EnqueuePush, Waiting
  <2>2. CASE work_queue' = work_queue /\ ppc' = [ppc EXCEPT ![p] = "idle"]
    <3>1. Notifying' = Notifying
      BY <1>3, <2>2 DEF EnqueuePush, Notifying, TypeOK
    <3>2. QED
      BY <3>1, <2>1, <2>2, <1>b, <1>0
  <2>3. CASE work_queue' = Append(work_queue, func[p])
               /\ ppc' = [ppc EXCEPT ![p] = "notify"]
    <3>1. Notifying' = Notifying \cup {p} /\ p \notin Notifying
      BY <1>3, <2>3 DEF EnqueuePush, Notifying, TypeOK
    <3>2. Cardinality(Notifying') = Cardinality(Notifying) + 1
      BY <3>1, <1>0, OneMore
    <3>3. Len(work_queue') = Len(work_queue) + 1
      BY <2>3 DEF TypeOK
    <3>4. QED
      BY <3>2, <3>3, <2>1, <1>a, <1>0
  <2>4. QED
    BY <1>3, <2>2, <2>3 DEF EnqueuePush
<1>4. ASSUME NEW p \in Producers, EnqueueNotify(p) PROVE Goal
  <2>1. Notifying' = Notifying \ {p} /\ p \in Notifying
    BY <1>4 DEF EnqueueNotify, Notifying, TypeOK
  <2>2. Cardinality(Notifying') = Cardinality(Notifying) - 1
    BY <2>1, <1>0, OneLess
  <2>3. Waiting # {}
    BY <1>4 DEF EnqueueNotify, Waiting
  <2>4. PICK c \in Waiting : cpc' = [cpc EXCEPT ![c] = "woken"]
    BY <1>4, <2>3 DEF EnqueueNotify
  <2>5. Awake' = Awake \cup {c} /\ c \notin Awake
    BY <2>4 DEF Waiting, TypeOK
  <2>6. Cardinality(Awake') = Cardinality(Awake) + 1
    BY <2>5, <1>0, OneMore
  <2>7. work_queue' = work_queue
    BY <1>4 DEF EnqueueNotify
  <2>8. QED
    BY <2>2, <2>3, <2>6, <2>7, <1>a, <1>0
<1>5. ASSUME NEW c \in Consumers, DequeueWait(c) PROVE Goal
  <2>1. Len(work_queue') = 0
    BY <1>5 DEF DequeueWait
  <2>2. QED
    BY <2>1, <1>0
<1>6. ASSUME NEW c \in Consumers, DequeueStopped(c) PROVE Goal
  <2>1. Notifying' = Notifying /\ Waiting' = Waiting /\ work_queue' = work_queue
    BY <1>6 DEF DequeueStopped, Testing, Notifying, Waiting, TypeOK
  <2>2. QED
    BY <2>1, <1>b, <1>0
<1>7. ASSUME NEW c \in Consumers, cpc[c] \notin {"waiting", "running"}, TakeFront(c)
      PROVE  Goal
  <2>1. Notifying' = Notifying /\ Waiting' = Waiting
    BY <1>7 DEF TakeFront, Notifying, Waiting, TypeOK
  <2>2. Len(work_queue') = Len(work_queue) - 1 /\ Len(work_queue') \in Nat
    BY <1>7 DEF TakeFront, TypeOK
  <2>3. QED
    BY <2>1, <2>2, <1>b, <1>0
<1>8. ASSUME NEW c \in Consumers, TaskReturns(c) PROVE Goal
  <2>1. Notifying' = Notifying /\ Waiting' = Waiting /\ work_queue' = work_queue
    BY <1>8 DEF TaskReturns, Notifying, Waiting, TypeOK
  <2>2. QED
    BY <2>1, <1>b, <1>0
<1>9. ASSUME NEW c \in Consumers, SpuriousWakeup(c) PROVE Goal
  <2>1. Notifying' = Notifying /\ work_queue' = work_queue
    BY <1>9 DEF SpuriousWakeup, Notifying
  <2>2. Awake' = Awake \cup {c} /\ c \notin Awake /\ Waiting # {}
    BY <1>9 DEF SpuriousWakeup, Waiting, TypeOK
  <2>3. Cardinality(Awake') = Cardinality(Awake) + 1
    BY <2>2, <1>0, OneMore
  <2>4. QED
    BY <2>1, <2>2, <2>3, <1>a, <1>0
<1>10. CASE ClearQueue
  <2>1. Len(work_queue') = 0
    BY <1>10 DEF ClearQueue
  <2>2. QED
    BY <2>1, <1>0
<1>11. CASE Stop \/ UNCHANGED queueVars
  <2>1. Notifying' = Notifying /\ Waiting' = Waiting /\ work_queue' = work_queue
    BY <1>11 DEF Stop, queueVars, Notifying, Waiting
  <2>2. QED
    BY <2>1, <1>b, <1>0
<1>12. CASE StopNotify
  <2>1. Waiting' = {}
    BY <1>12 DEF StopNotify, Waiting
  <2>2. QED
    BY <2>1
<1>13. QED
  BY StepCases, <1>1, <1>2, <1>3, <1>4, <1>5, <1>6, <1>7, <1>8, <1>9, <1>10,
     <1>11, <1>12

--------------------------------------------------------------------------------
(* The inductive invariant: it holds initially and every step keeps it.     *)
LEMMA InitIInv == Init => IInv
<1> SUFFICES ASSUME Init PROVE IInv
  OBVIOUS
<1>a. TypeOK
  <2>1. work_queue \in Seq(Task)
    BY DEF Init
  <2>2. stop \in BOOLEAN
    BY DEF Init
  <2>3. /\ ppc \in [Producers -> {"idle", "push", "notify"}]
        /\ func \in [Producers -> Task \cup {None}]
        /\ answer \in [Producers -> {"none", "accepted", "refused"}]
        /\ cpc \in [Consumers -> {"idle", "waiting", "woken", "running"}]
        /\ got \in [Consumers -> Task \cup {None}]
        /\ stopper \in {"idle", "notify", "done"}
    BY DEF Init
  <2>4. QED
    BY <2>1, <2>2, <2>3 DEF TypeOK
<1>b. TasksInHand
  BY DEF Init, TasksInHand
<1>2. Checked = {} /\ Waiting = {} /\ Len(work_queue) = 0
  BY DEF Init, Checked, Waiting
<1>3. Cardinality(Producers) \in Nat /\ Cardinality(Producers) # 0
  BY WorkQueueAssumption, FS_EmptySet, FS_CardinalityType
<1>4. RoomForChecked
  BY <1>2, <1>3, FS_EmptySet, WorkQueueAssumption DEF RoomForChecked
<1>5. QED
  BY <1>a, <1>b, <1>2, <1>4 DEF IInv, NoLostWakeup

LEMMA IInvStep == IInv /\ [Next]_queueVars => IInv'
BY TypeStep, TasksInHandStep, RoomStep, WakeupStep DEF IInv

LEMMA IInvBound == IInv => QueueBound
BY ThreadSetsFinite, WorkQueueAssumption
   DEF IInv, TypeOK, RoomForChecked, QueueBound

LEMMA InductiveInvariant == Spec => []IInv
BY InitIInv, IInvStep, PTL DEF Spec

(* The queue, the program counters and the tasks in hand keep their types   *)
(* (WORK_QUEUE's members and its callers' locals).                          *)
THEOREM TypeCorrect == Spec => []TypeOK
BY InductiveInvariant, PTL DEF IInv

(* MAX_WORK_QUEUE_TASKS is exceeded by at most one task per producer beyond *)
(* the first, however many threads call enqueue.                            *)
THEOREM QueueBounded == Spec => []QueueBound
BY InductiveInvariant, IInvBound, PTL

(* In the daemon the receive task alone calls enqueue: there                *)
(* MAX_WORK_QUEUE_TASKS is never exceeded, although size and push are two   *)
(* sections and clear_queue, stop and both dequeues run beside them.  The   *)
(* other modules, which see the queue as a counter, rely on this.           *)
THEOREM SingleProducerKeepsLimit ==
  ASSUME \A p, q \in Producers : p = q
  PROVE  Spec => [](Len(work_queue) <= MaxTasks)
<1>1. Cardinality(Producers) = 1
  <2>1. PICK p \in Producers : TRUE
    BY WorkQueueAssumption
  <2>2. Producers = {p}
    BY <2>1
  <2> QED
    BY <2>2, FS_Singleton
<1>2. TypeOK /\ QueueBound => Len(work_queue) <= MaxTasks
  BY <1>1, WorkQueueAssumption DEF TypeOK, QueueBound
<1> QED
  BY <1>2, TypeCorrect, QueueBounded, PTL

(* No task waits in the queue while every consumer sleeps and no notify_one *)
(* is on its way, for any number of threads on both sides.                  *)
THEOREM WakeupsNotLost == Spec => []NoLostWakeup
BY InductiveInvariant, PTL DEF IInv

--------------------------------------------------------------------------------
(* Every step of the queue is a step of the buffer or leaves it alone.  The *)
(* room reserved for a checked producer is what lets Accept happen; a       *)
(* consumer that is not running holds nothing, which is what Take needs.    *)
LEMMA FifoStep == IInv /\ [Next]_queueVars => [Fifo!Next]_(Fifo!fifoVars)
<1> SUFFICES ASSUME IInv, [Next]_queueVars PROVE [Fifo!Next]_(Fifo!fifoVars)
  OBVIOUS
<1> USE DEF Fifo!fifoVars
<1>1. ASSUME NEW p \in Producers, EnqueuePush(p) PROVE [Fifo!Next]_(Fifo!fifoVars)
  <2>1. CASE stop
    <3>1. Fifo!Refuse(p)
      BY <1>1, <2>1 DEF EnqueuePush, Fifo!Refuse
    <3>2. QED
      BY <3>1 DEF Fifo!Next
  <2>2. CASE ~stop
    <3>1. p \in Checked /\ func[p] \in Task
      BY <1>1 DEF EnqueuePush, Checked, IInv, TasksInHand
    <3>2. Cardinality(Checked) # 0
      BY <3>1, ThreadSetsFinite, FS_EmptySet
    <3>3. Len(work_queue) < MaxTasks + Cardinality(Producers) - 1
      BY <3>2, ThreadSetsFinite, WorkQueueAssumption
         DEF IInv, TypeOK, RoomForChecked
    <3>4. Fifo!Accept(p, func[p])
      BY <1>1, <2>2, <3>3 DEF EnqueuePush, Fifo!Accept
    <3>5. QED
      BY <3>1, <3>4 DEF Fifo!Next
  <2>3. QED
    BY <2>1, <2>2
<1>2. ASSUME NEW p \in Producers, EnqueueFull(p) PROVE [Fifo!Next]_(Fifo!fifoVars)
  <2>1. Fifo!Refuse(p)
    BY <1>2 DEF EnqueueFull, Fifo!Refuse
  <2>2. QED
    BY <2>1 DEF Fifo!Next
<1>3. ASSUME NEW c \in Consumers, cpc[c] \notin {"waiting", "running"}, TakeFront(c)
      PROVE  [Fifo!Next]_(Fifo!fifoVars)
  <2>1. got[c] = None
    BY <1>3 DEF IInv, TasksInHand
  <2>2. Fifo!Take(c)
    BY <1>3, <2>1 DEF TakeFront, Fifo!Take
  <2>3. QED
    BY <2>2 DEF Fifo!Next
<1>4. ASSUME NEW c \in Consumers, TaskReturns(c) PROVE [Fifo!Next]_(Fifo!fifoVars)
  <2>1. Fifo!Finish(c)
    BY <1>4 DEF TaskReturns, Fifo!Finish
  <2>2. QED
    BY <2>1 DEF Fifo!Next
<1>5. CASE ClearQueue
  <2>1. Fifo!Drain
    BY <1>5 DEF ClearQueue, Fifo!Drain
  <2>2. QED
    BY <2>1 DEF Fifo!Next
<1>6. CASE Stop
  <2>1. Fifo!Close
    BY <1>6 DEF Stop, Fifo!Close
  <2>2. QED
    BY <2>1 DEF Fifo!Next
<1>7. ASSUME NEW p \in Producers, NEW t \in Task, EnqueueCheck(p, t)
      PROVE  UNCHANGED Fifo!fifoVars
  BY <1>7 DEF EnqueueCheck
<1>8. ASSUME NEW p \in Producers, EnqueueNotify(p) PROVE UNCHANGED Fifo!fifoVars
  BY <1>8 DEF EnqueueNotify
<1>9. ASSUME NEW c \in Consumers,
             DequeueWait(c) \/ DequeueStopped(c) \/ SpuriousWakeup(c)
      PROVE  UNCHANGED Fifo!fifoVars
  BY <1>9 DEF DequeueWait, DequeueStopped, SpuriousWakeup
<1>10. CASE StopNotify \/ UNCHANGED queueVars
  BY <1>10 DEF StopNotify, queueVars
<1>11. QED
  BY StepCases, <1>1, <1>2, <1>3, <1>4, <1>5, <1>6, <1>7, <1>8, <1>9, <1>10

(* WORK_QUEUE implements a closable first-in first-out buffer of            *)
(* MaxTasks + |Producers| - 1 places (enqueue, the dequeues, clear_queue    *)
(* and stop), for any number of threads.                                    *)
THEOREM QueueImplementsFifo == Spec => ImplementsFifo
<1>1. Init => Fifo!Init
  BY DEF Init, Fifo!Init
<1>2. QED
  BY <1>1, FifoStep, InductiveInvariant, PTL DEF Spec, ImplementsFifo, Fifo!Spec
================================================================================
