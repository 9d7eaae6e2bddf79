-------------------------- MODULE ReceiverTasksProofs --------------------------
(***************************************************************************)
(* Proofs about ReceiverTasks for any set of client threads and any queue  *)
(* limit.                                                                  *)
(***************************************************************************)
EXTENDS ReceiverTasks, TLAPS

IInv == TypeOK /\ NoStuckPause /\ NoLostResume

--------------------------------------------------------------------------------
(* Types are kept by every step. *)
LEMMA TypeStep == TypeOK /\ [Next]_taskVars => TypeOK'
<1> SUFFICES ASSUME TypeOK, [Next]_taskVars PROVE TypeOK'
  OBVIOUS
<1> USE DEF TypeOK, Tasks
<1>1. CASE Start
  <2>1. CASE ClearQueue
    BY <2>1, ReceiverTasksAssumption DEF ClearQueue
  <2>2. ASSUME NEW k \in Tasks, NEW from, NEW to \in {"createRecv", "accept"},
               CreateTask(k, from, to)
        PROVE  TypeOK'
    <3>1. paused' \in [Tasks -> BOOLEAN]
      BY <2>2 DEF CreateTask
    <3>2. QED
      BY <2>2, <3>1 DEF CreateTask
  <2>3. QED
    BY <1>1, <2>1, <2>2 DEF Start
<1>2. ASSUME NEW k \in Tasks, Gate(k) \/ SpuriousWakeup(k) PROVE TypeOK'
  BY <1>2 DEF Gate, Pass, Wait, SpuriousWakeup, Entry
<1>3. CASE ReceiveReturns \/ CallbackReturns
  BY <1>3 DEF ReceiveReturns, CallbackReturns
<1>4. CASE MatchFrame \/ Dequeue
  BY <1>4, ReceiverTasksAssumption DEF MatchFrame, Dequeue
<1>5. ASSUME NEW c \in Clients, Serve(c) PROVE TypeOK'
  <2>1. CASE PauseReceive(c) \/ PauseWork(c)
    BY <2>1 DEF PauseReceive, PauseWork, ClientStep
  <2>2. CASE ManagerChanged(c) \/ FilterChanged(c) \/ AckWritten(c)
    BY <2>2 DEF ManagerChanged, FilterChanged, AckWritten, ClientStep
  <2>3. CASE NotifyWork(c) \/ NotifyReceive(c)
    BY <2>3 DEF NotifyWork, NotifyReceive, NotifyTask, ClientStep
  <2>4. CASE ResumeWork(c) \/ ResumeReceive(c)
    <3>1. broken' \in SUBSET (Clients \X Tasks)
      BY <2>4 DEF ResumeWork, ResumeReceive, Break
    <3>2. QED
      BY <2>4, <3>1 DEF ResumeWork, ResumeReceive, ClientStep
  <2>5. QED
    BY <1>5, <2>1, <2>2, <2>3, <2>4 DEF Serve
<1>6. CASE UNCHANGED taskVars
  BY <1>6 DEF taskVars
<1>7. QED
  BY <1>1, <1>2, <1>3, <1>4, <1>5, <1>6 DEF Next

--------------------------------------------------------------------------------
(* A set flag has an owner. *)
LEMMA StuckStep == IInv /\ [Next]_taskVars => NoStuckPause'
<1> SUFFICES ASSUME IInv, [Next]_taskVars,
                    NEW k \in Tasks, tpc'[k] # "absent", paused'[k]
             PROVE  \E c \in Clients : Holds(c, k)'
  BY DEF NoStuckPause
<1>t. TypeOK /\ NoStuckPause
  BY DEF IInv
<1> USE DEF TypeOK, Tasks
<1>1. CASE Start
  <2>1. tpc[k] # "absent" /\ paused[k] /\ client' = client
    BY <1>1, <1>t DEF Start, ClearQueue, CreateTask
  <2>2. QED
    BY <2>1, <1>t DEF NoStuckPause, Holds
<1>2. CASE client' = client /\ paused' = paused /\ tpc[k] # "absent"
  BY <1>2, <1>t DEF NoStuckPause, Holds
<1>3. ASSUME NEW j \in Tasks, Gate(j) \/ SpuriousWakeup(j)
      PROVE  client' = client /\ paused' = paused /\ tpc[k] # "absent"
  BY <1>3, <1>t DEF Gate, Pass, Wait, SpuriousWakeup, AtGate
<1>4. CASE ReceiveReturns \/ MatchFrame \/ Dequeue \/ CallbackReturns
  <2>1. client' = client /\ paused' = paused /\ tpc[k] # "absent"
    BY <1>4, <1>t DEF ReceiveReturns, MatchFrame, Dequeue, CallbackReturns
  <2>2. QED
    BY <2>1, <1>2
<1>5. ASSUME NEW c \in Clients, Serve(c) PROVE \E d \in Clients : Holds(d, k)'
  <2>1. CASE PauseReceive(c) \/ PauseWork(c)
    BY <2>1, <1>t DEF PauseReceive, PauseWork, ClientStep, Holds, NoStuckPause
  <2>2. CASE ManagerChanged(c) \/ FilterChanged(c) \/ AckWritten(c)
    BY <2>2, <1>t
       DEF ManagerChanged, FilterChanged, AckWritten, ClientStep, Holds, NoStuckPause
  <2>3. CASE ResumeWork(c) \/ ResumeReceive(c)
    BY <2>3, <1>t DEF ResumeWork, ResumeReceive, ClientStep, Holds, NoStuckPause
  <2>4. CASE NotifyWork(c) \/ NotifyReceive(c)
    BY <2>4, <1>t
       DEF NotifyWork, NotifyReceive, NotifyTask, ClientStep, Holds, NoStuckPause
  <2>5. QED
    BY <1>5, <2>1, <2>2, <2>3, <2>4 DEF Serve
<1>6. CASE UNCHANGED taskVars
  BY <1>6, <1>2 DEF taskVars
<1>7. QED
  BY <1>1, <1>2, <1>3, <1>4, <1>5, <1>6 DEF Next

(* A sleeping task has a notification to come. *)
LEMMA ResumeStep == IInv /\ [Next]_taskVars => NoLostResume'
<1> SUFFICES ASSUME IInv, [Next]_taskVars, NEW k \in Tasks, tpc'[k] = "waiting"
             PROVE  \E c \in Clients : OwesNotify(c, k)'
  BY DEF NoLostResume
<1>t. TypeOK /\ NoStuckPause /\ NoLostResume
  BY DEF IInv
<1> USE DEF TypeOK, Tasks
<1>1. CASE client' = client /\ tpc[k] = "waiting"
  BY <1>1, <1>t DEF NoLostResume, OwesNotify, Holds
<1>2. ASSUME NEW j \in Tasks, Gate(j) \/ SpuriousWakeup(j)
      PROVE  \E c \in Clients : OwesNotify(c, k)'
  <2>1. client' = client /\ (tpc[k] = "waiting" \/ (paused[k] /\ tpc[k] # "absent"))
    BY <1>2, <1>t DEF Gate, Pass, Wait, SpuriousWakeup, AtGate, Entry
  <2>2. CASE paused[k] /\ tpc[k] # "absent"
    BY <2>1, <2>2, <1>t DEF NoStuckPause, OwesNotify, Holds
  <2>3. QED
    BY <2>1, <2>2, <1>1
<1>3. CASE Start \/ ReceiveReturns \/ MatchFrame \/ Dequeue \/ CallbackReturns
  <2>1. client' = client /\ tpc[k] = "waiting"
    BY <1>3, <1>t DEF Start, ClearQueue, CreateTask, ReceiveReturns, MatchFrame,
                      Dequeue, CallbackReturns
  <2>2. QED
    BY <2>1, <1>1
<1>4. ASSUME NEW c \in Clients, Serve(c) PROVE \E d \in Clients : OwesNotify(d, k)'
  <2>1. CASE PauseReceive(c) \/ PauseWork(c)
    BY <2>1, <1>t DEF PauseReceive, PauseWork, ClientStep, OwesNotify, Holds, NoLostResume
  <2>2. CASE ManagerChanged(c) \/ FilterChanged(c) \/ AckWritten(c)
    BY <2>2, <1>t DEF ManagerChanged, FilterChanged, AckWritten, ClientStep,
                      OwesNotify, Holds, NoLostResume
  <2>3. CASE ResumeWork(c) \/ ResumeReceive(c)
    BY <2>3, <1>t DEF ResumeWork, ResumeReceive, ClientStep, OwesNotify, Holds,
                      NoLostResume
  <2>4. CASE NotifyWork(c) \/ NotifyReceive(c)
    BY <2>4, <1>t DEF NotifyWork, NotifyReceive, NotifyTask, ClientStep, OwesNotify,
                      Holds, NoLostResume
  <2>5. QED
    BY <1>4, <2>1, <2>2, <2>3, <2>4 DEF Serve
<1>5. CASE UNCHANGED taskVars
  BY <1>5, <1>1 DEF taskVars
<1>6. QED
  BY <1>2, <1>3, <1>4, <1>5 DEF Next

--------------------------------------------------------------------------------
(* The inductive invariant: it holds initially and every step keeps it.     *)
LEMMA InductiveInvariant == Spec => []IInv
<1>1. Init => IInv
  BY ReceiverTasksAssumption
     DEF Init, IInv, TypeOK, NoStuckPause, NoLostResume, Tasks
<1>2. IInv /\ [Next]_taskVars => IInv'
  BY TypeStep, StuckStep, ResumeStep DEF IInv
<1>3. QED
  BY <1>1, <1>2, PTL DEF Spec

(* The flags, the program counters and the queue's length keep their types  *)
(* (CAN_IPC_RECEIVER's members and the threads' positions).                 *)
THEOREM TypeCorrect == Spec => []TypeOK
BY InductiveInvariant, PTL DEF IInv

(* However many clients pause and resume the receiver, and in whatever      *)
(* order their steps interleave, a set flag has a client that will clear it.*)
THEOREM PauseHasOwner == Spec => []NoStuckPause
BY InductiveInvariant, PTL DEF IInv

(* However many clients there are, no task sleeps at its gate without a     *)
(* notification to come.                                                    *)
THEOREM ResumesNotLost == Spec => []NoLostResume
BY InductiveInvariant, PTL DEF IInv

--------------------------------------------------------------------------------
(* A client that holds a task finds its flag set, unless another client has *)
(* broken its pause; nobody holds anything before the daemon accepts        *)
(* connections.                                                             *)
HeldIsPaused ==
  /\ main # "accept" => \A c \in Clients : client[c] = "idle"
  /\ \A c \in Clients, k \in Tasks : Holds(c, k) => paused[k] \/ <<c, k>> \in broken

(* A resume breaks the pause of whoever else holds the task. *)
LEMMA ResumeBreaks ==
  ASSUME TypeOK, HeldIsPaused, NEW c \in Clients, NEW k \in Tasks,
         Break(c, k), paused' = [paused EXCEPT ![k] = FALSE],
         NEW d \in Clients, NEW j \in Tasks, Holds(d, j), <<d, j>> # <<c, k>>
  PROVE  paused'[j] \/ <<d, j>> \in broken'
<1>1. CASE j = k
  <2>1. <<d, j>> \in {<<e, k>> : e \in {e \in Clients : Holds(e, k)}}
    BY <1>1
  <2>2. QED
    BY <2>1 DEF Break
<1>2. CASE j # k
  <2>1. paused'[j] = paused[j]
    BY <1>2 DEF TypeOK
  <2>2. paused[j] \/ <<d, j>> \in broken
    BY DEF HeldIsPaused
  <2>3. QED
    BY <2>1, <2>2 DEF Break
<1>3. QED
  BY <1>1, <1>2

LEMMA HeldStep == TypeOK /\ HeldIsPaused /\ [Next]_taskVars => HeldIsPaused'
<1> SUFFICES ASSUME TypeOK, HeldIsPaused, [Next]_taskVars PROVE HeldIsPaused'
  OBVIOUS
<1> USE DEF Tasks
<1>1. CASE client' = client /\ paused' = paused /\ main' = main /\ broken' = broken
  BY <1>1 DEF HeldIsPaused, Holds
<1>2. CASE Start
  <2>1. client' = client /\ \A c \in Clients : client[c] = "idle"
    BY <1>2 DEF Start, ClearQueue, CreateTask, HeldIsPaused
  <2>2. QED
    BY <2>1 DEF HeldIsPaused, Holds
<1>3. ASSUME NEW k \in Tasks, Gate(k) \/ SpuriousWakeup(k) PROVE HeldIsPaused'
  BY <1>3, <1>1 DEF Gate, Pass, Wait, SpuriousWakeup
<1>4. CASE ReceiveReturns \/ MatchFrame \/ Dequeue \/ CallbackReturns
  BY <1>4, <1>1 DEF ReceiveReturns, MatchFrame, Dequeue, CallbackReturns
<1>5. ASSUME NEW c \in Clients, Serve(c) PROVE HeldIsPaused'
  <2>1. main = "accept" /\ main' = main
    BY <1>5 DEF HeldIsPaused, Serve, PauseReceive, PauseWork, ManagerChanged,
                FilterChanged, AckWritten, ResumeWork, ResumeReceive, NotifyWork,
                NotifyReceive, ClientStep
  <2>2. CASE PauseReceive(c) \/ PauseWork(c)
    BY <2>1, <2>2 DEF TypeOK, PauseReceive, PauseWork, ClientStep, HeldIsPaused, Holds
  <2>3. CASE ManagerChanged(c) \/ FilterChanged(c) \/ AckWritten(c)
    BY <2>1, <2>3 DEF TypeOK, ManagerChanged, FilterChanged, AckWritten, ClientStep,
                      HeldIsPaused, Holds
  <2>4. ASSUME NEW k \in Tasks,
               IF k = "work" THEN ResumeWork(c) ELSE ResumeReceive(c)
        PROVE  HeldIsPaused'
    <3>1. Break(c, k) /\ paused' = [paused EXCEPT ![k] = FALSE]
      BY <2>4 DEF ResumeWork, ResumeReceive
    <3>2. \A d \in Clients, j \in Tasks : Holds(d, j)' => Holds(d, j) /\ <<d, j>> # <<c, k>>
      BY <2>4 DEF TypeOK, ResumeWork, ResumeReceive, ClientStep, Holds
    <3>3. QED
      BY <2>1, <3>1, <3>2, ResumeBreaks DEF HeldIsPaused
  <2>5. CASE NotifyWork(c) \/ NotifyReceive(c)
    BY <2>1, <2>5 DEF TypeOK, NotifyWork, NotifyReceive, ClientStep, HeldIsPaused, Holds
  <2>6. QED
    BY <1>5, <2>2, <2>3, <2>4, <2>5 DEF Serve
<1>6. CASE UNCHANGED taskVars
  BY <1>6, <1>1 DEF taskVars
<1>7. QED
  BY <1>2, <1>3, <1>4, <1>5, <1>6 DEF Next

(* Only Pass moves a task from its gate into a pass. *)
LEMMA OnlyPassEnters ==
  ASSUME TypeOK, Next, NEW k \in Tasks, AtGate(k), tpc'[k] = Entry[k]
  PROVE  ~paused[k]
<1> USE DEF TypeOK, Tasks, Entry, AtGate
<1>1. CASE Start
  BY <1>1 DEF Start, ClearQueue, CreateTask
<1>2. ASSUME NEW j \in Tasks, Gate(j) \/ SpuriousWakeup(j) PROVE ~paused[k]
  BY <1>2 DEF Gate, Pass, Wait, SpuriousWakeup
<1>3. CASE ReceiveReturns \/ MatchFrame \/ Dequeue \/ CallbackReturns
  BY <1>3 DEF ReceiveReturns, MatchFrame, Dequeue, CallbackReturns
<1>4. ASSUME NEW c \in Clients, Serve(c) PROVE ~paused[k]
  <2>1. CASE NotifyWork(c) \/ NotifyReceive(c)
    BY <2>1 DEF NotifyWork, NotifyReceive, NotifyTask
  <2>2. CASE UNCHANGED tpc
    BY <2>2
  <2>3. QED
    BY <1>4, <2>1, <2>2
       DEF Serve, PauseReceive, PauseWork, ManagerChanged, FilterChanged,
           AckWritten, ResumeWork, ResumeReceive
<1>5. QED
  BY <1>1, <1>2, <1>3, <1>4 DEF Next

(* While a client holds a task paused and no other client has resumed it,   *)
(* that task starts no new pass (pause_can_ipc_receiver and the gates of    *)
(* the two loops).                                                          *)
THEOREM PausesHold == Spec => PauseHolds
<1>1. Init => HeldIsPaused
  BY DEF Init, HeldIsPaused, Holds
<1>2. TypeOK /\ HeldIsPaused /\ [Next]_taskVars => HeldIsPaused'
  BY HeldStep
<1>3. TypeOK /\ HeldIsPaused /\ [Next]_taskVars =>
        [\A k \in Tasks, c \in Clients :
           AtGate(k) /\ tpc'[k] = Entry[k] /\ Holds(c, k) => <<c, k>> \in broken]_taskVars
  BY OnlyPassEnters DEF HeldIsPaused
<1>4. QED
  BY <1>1, <1>2, <1>3, TypeCorrect, PTL DEF Spec, PauseHolds

Unbroken == broken = {}

(* In a daemon with a single client no pause is ever broken: there the      *)
(* client's tables are safe from every pass that starts after its pause     *)
(* (pause_can_ipc_receiver, resume_can_ipc_receiver).                       *)
THEOREM SingleClientUnbroken ==
  ASSUME \A c, d \in Clients : c = d
  PROVE  Spec => []Unbroken
<1>1. Init => Unbroken
  BY DEF Init, Unbroken
<1>2. Unbroken /\ [Next]_taskVars => Unbroken'
  <2> SUFFICES ASSUME broken = {}, [Next]_taskVars PROVE broken' = {}
    BY DEF Unbroken
  <2>1. ASSUME NEW c \in Clients, NEW k, Break(c, k) PROVE broken' = {}
    BY <2>1 DEF Break
  <2>2. CASE UNCHANGED broken
    BY <2>2
  <2>3. ASSUME NEW c \in Clients, Serve(c) PROVE broken' = {}
    <3>1. CASE ResumeWork(c) \/ ResumeReceive(c)
      BY <3>1, <2>1 DEF ResumeWork, ResumeReceive
    <3>2. QED
      BY <2>3, <3>1, <2>2
         DEF Serve, PauseReceive, PauseWork, ManagerChanged, FilterChanged,
             AckWritten, NotifyWork, NotifyReceive
  <2>4. CASE Start
    BY <2>4, <2>2 DEF Start, ClearQueue, CreateTask
  <2>5. ASSUME NEW k \in Tasks, Gate(k) \/ SpuriousWakeup(k) PROVE broken' = {}
    BY <2>5, <2>2 DEF Gate, Pass, Wait, SpuriousWakeup
  <2>6. CASE ReceiveReturns \/ MatchFrame \/ Dequeue \/ CallbackReturns
    BY <2>6, <2>2 DEF ReceiveReturns, MatchFrame, Dequeue, CallbackReturns
  <2>7. CASE Next
    BY <2>7, <2>3, <2>4, <2>5, <2>6 DEF Next
  <2>8. CASE UNCHANGED taskVars
    BY <2>8, <2>2 DEF taskVars
  <2>9. QED
    BY <2>7, <2>8
<1>3. QED
  BY <1>1, <1>2, PTL DEF Spec
================================================================================
