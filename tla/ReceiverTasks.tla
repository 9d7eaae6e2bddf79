----------------------------- MODULE ReceiverTasks -----------------------------
(***************************************************************************)
(* The pause and resume protocol of CAN_IPC_RECEIVER (can_ipc_receiver.cpp)*)
(* as the client threads of the daemon use it (ipc_socket_controller.cpp). *)
(*                                                                         *)
(* Two tasks loop: "recv" reads batches of frames from the CAN HAL and     *)
(* looks every frame up in the filter table; "work" takes the matched      *)
(* frames from WORK_QUEUE and runs the callback, which looks the           *)
(* subscribers up in the client manager.  At the top of its loop each task *)
(* passes a gate: under the task's pause mutex it sleeps while its paused  *)
(* flag is set.  A client thread that serves an ADD_FILTER or              *)
(* REMOVE_FILTER order sets both flags, changes the client manager, then   *)
(* the filter table, writes the ack, and clears and notifies each flag in  *)
(* turn.  Setting a flag takes no lock; clearing it takes the mutex.       *)
(*                                                                         *)
(* One critical section, one atomic access or one access to a shared table *)
(* is one action.  WORK_QUEUE is the number of tasks it holds: its order   *)
(* and its wake-ups are the subject of module WorkQueue.                   *)
(***************************************************************************)
EXTENDS Naturals, FiniteSets

CONSTANTS
  Clients,   \* client threads (handle_client)
  MaxTasks   \* MAX_WORK_QUEUE_TASKS

ASSUME ReceiverTasksAssumption == MaxTasks \in Nat \ {0}

VARIABLES
  main,     \* where start_can_ipc_receiver is; "accept" once clients may connect
  paused,   \* receive_ipc_can_task_paused_ and work_task_queue_paused_
  tpc,      \* where each task is in its loop
  tasks,    \* number of tasks in work_queue_
  client,   \* where each client thread is in serving an order
  broken    \* history: <<c, k>> when another client has resumed k under c's pause

taskVars == <<main, paused, tpc, tasks, client, broken>>

Tasks == {"recv", "work"}

Init ==
  /\ main = "clear"
  /\ paused = [k \in Tasks |-> TRUE]
  /\ tpc = [k \in Tasks |-> "absent"]
  /\ tasks = 0
  /\ client = [c \in Clients |-> "idle"]
  /\ broken = {}

(* Client c has paused task k and has not resumed it yet. *)
Holds(c, k) ==
  \/ client[c] \in {"manager", "filter", "ack", "resumeWork"}
  \/ k = "recv" /\ client[c] \in {"pauseWork", "notifyWork", "resumeRecv"}

--------------------------------------------------------------------------------
(* start_can_ipc_receiver, before accept_connections *)

ClearQueue ==
  /\ main = "clear"
  /\ main' = "createWork"
  /\ tasks' = 0
  /\ UNCHANGED <<paused, tpc, client, broken>>

CreateTask(k, from, to) ==
  /\ main = from
  /\ main' = to
  /\ paused' = [paused EXCEPT ![k] = FALSE]
  /\ tpc' = [tpc EXCEPT ![k] = "gate"]
  /\ UNCHANGED <<tasks, client, broken>>

Start ==
  \/ ClearQueue
  \/ CreateTask("work", "createWork", "createRecv")
  \/ CreateTask("recv", "createRecv", "accept")

--------------------------------------------------------------------------------
(* The gate, and what each task does behind it *)

(* Testing the flag: a task at the top of its loop or awake again.          *)
AtGate(k) == tpc[k] \in {"gate", "woken"}

(* The first thing a task does once past its gate. *)
Entry == [recv |-> "receive", work |-> "dequeue"]

Pass(k) ==
  /\ AtGate(k)
  /\ ~paused[k]
  /\ tpc' = [tpc EXCEPT ![k] = Entry[k]]
  /\ UNCHANGED <<main, paused, tasks, client, broken>>

(* Release the mutex and sleep, in one step. *)
Wait(k) ==
  /\ AtGate(k)
  /\ paused[k]
  /\ tpc' = [tpc EXCEPT ![k] = "waiting"]
  /\ UNCHANGED <<main, paused, tasks, client, broken>>

SpuriousWakeup(k) ==
  /\ tpc[k] = "waiting"
  /\ tpc' = [tpc EXCEPT ![k] = "woken"]
  /\ UNCHANGED <<main, paused, tasks, client, broken>>

(* canRecvMsgFrame returns: with frames, they are matched one by one; with  *)
(* none (a timeout) the next enabled port is read or the pass ends.         *)
ReceiveReturns ==
  /\ tpc["recv"] = "receive"
  /\ \E next \in {"match", "receive", "gate"} : tpc' = [tpc EXCEPT !["recv"] = next]
  /\ UNCHANGED <<main, paused, tasks, client, broken>>

(* A wrong MatchFrame, as a mutant: the queue's limit is not looked at. *)
MatchFrameUnbounded ==
  /\ tpc["recv"] = "match"
  /\ tasks' \in {tasks, tasks + 1}
  /\ \E next \in {"match", "receive", "gate"} : tpc' = [tpc EXCEPT !["recv"] = next]
  /\ UNCHANGED <<main, paused, client, broken>>

(* match_can_filter: the frame matches and is queued, or there is no filter *)
(* for it, or the queue refuses it.  Then the next frame, the next enabled  *)
(* port, or the end of the pass.                                            *)
MatchFrame ==
  /\ tpc["recv"] = "match"
  /\ \/ tasks < MaxTasks /\ tasks' = tasks + 1
     \/ UNCHANGED tasks
  /\ \E next \in {"match", "receive", "gate"} : tpc' = [tpc EXCEPT !["recv"] = next]
  /\ UNCHANGED <<main, paused, client, broken>>

(* dequeue_blocking returns a task and the callback starts. *)
Dequeue ==
  /\ tpc["work"] = "dequeue"
  /\ tasks > 0
  /\ tasks' = tasks - 1
  /\ tpc' = [tpc EXCEPT !["work"] = "callback"]
  /\ UNCHANGED <<main, paused, client, broken>>

CallbackReturns ==
  /\ tpc["work"] = "callback"
  /\ tpc' = [tpc EXCEPT !["work"] = "gate"]
  /\ UNCHANGED <<main, paused, tasks, client, broken>>

--------------------------------------------------------------------------------
(* handle_client, one ADD_FILTER or REMOVE_FILTER order *)

ClientStep(c, from, to) ==
  /\ client[c] = from
  /\ client' = [client EXCEPT ![c] = to]
  /\ UNCHANGED <<main, tasks>>

PauseReceive(c) ==
  /\ main = "accept"
  /\ ClientStep(c, "idle", "pauseWork")
  /\ paused' = [paused EXCEPT !["recv"] = TRUE]
  /\ UNCHANGED <<tpc, broken>>

(* A wrong PauseWork, as a mutant: the flag is cleared, not set. *)
PauseWorkInverted(c) ==
  /\ ClientStep(c, "pauseWork", "manager")
  /\ paused' = [paused EXCEPT !["work"] = FALSE]
  /\ UNCHANGED <<tpc, broken>>

PauseWork(c) ==
  /\ ClientStep(c, "pauseWork", "manager")
  /\ paused' = [paused EXCEPT !["work"] = TRUE]
  /\ UNCHANGED <<tpc, broken>>

(* client_manager_register or client_manager_deregister is under way while  *)
(* the client is at "manager", the filter table's change while at "filter", *)
(* the write of the ack while at "ack".                                     *)
ManagerChanged(c) == ClientStep(c, "manager", "filter") /\ UNCHANGED <<paused, tpc, broken>>
FilterChanged(c)  == ClientStep(c, "filter", "ack") /\ UNCHANGED <<paused, tpc, broken>>
AckWritten(c)     == ClientStep(c, "ack", "resumeWork") /\ UNCHANGED <<paused, tpc, broken>>

(* The pauses of k that end, as history, when client c resumes k. *)
Break(c, k) ==
  broken' = (broken \cup {<<d, k>> : d \in {d \in Clients : Holds(d, k)}}) \ {<<c, k>>}

ResumeWork(c) ==
  /\ ClientStep(c, "resumeWork", "notifyWork")
  /\ paused' = [paused EXCEPT !["work"] = FALSE]
  /\ Break(c, "work")
  /\ UNCHANGED tpc

(* A wrong ResumeReceive, as a mutant: the work task's flag is cleared      *)
(* again instead.                                                           *)
ResumeReceiveTwice(c) ==
  /\ ClientStep(c, "resumeRecv", "notifyRecv")
  /\ paused' = [paused EXCEPT !["work"] = FALSE]
  /\ Break(c, "recv")
  /\ UNCHANGED tpc

ResumeReceive(c) ==
  /\ ClientStep(c, "resumeRecv", "notifyRecv")
  /\ paused' = [paused EXCEPT !["recv"] = FALSE]
  /\ Break(c, "recv")
  /\ UNCHANGED tpc

(* A wrong NotifyTask, as a mutant: nobody is woken. *)
NotifyNobody(k) == UNCHANGED tpc

(* notify_one: only the task itself ever sleeps on its condition variable.  *)
NotifyTask(k) ==
  tpc' = IF tpc[k] = "waiting" THEN [tpc EXCEPT ![k] = "woken"] ELSE tpc

NotifyWork(c) ==
  ClientStep(c, "notifyWork", "resumeRecv") /\ NotifyTask("work") /\ UNCHANGED <<paused, broken>>

NotifyReceive(c) ==
  ClientStep(c, "notifyRecv", "idle") /\ NotifyTask("recv") /\ UNCHANGED <<paused, broken>>

--------------------------------------------------------------------------------
Gate(k) == Pass(k) \/ Wait(k)

Serve(c) ==
  \/ PauseReceive(c) \/ PauseWork(c)
  \/ ManagerChanged(c) \/ FilterChanged(c) \/ AckWritten(c)
  \/ ResumeWork(c) \/ NotifyWork(c) \/ ResumeReceive(c) \/ NotifyReceive(c)

Next ==
  \/ Start
  \/ \E k \in Tasks : Gate(k) \/ SpuriousWakeup(k)
  \/ ReceiveReturns \/ MatchFrame
  \/ Dequeue \/ CallbackReturns
  \/ \E c \in Clients : Serve(c)

Spec == Init /\ [][Next]_taskVars

--------------------------------------------------------------------------------
(* The type invariant. *)
TypeOK ==
  /\ main \in {"clear", "createWork", "createRecv", "accept"}
  /\ paused \in [Tasks -> BOOLEAN]
  /\ tpc \in [Tasks -> {"absent", "gate", "waiting", "woken",
                         "receive", "match", "dequeue", "callback"}]
  /\ tasks \in 0 .. MaxTasks
  /\ client \in [Clients -> {"idle", "pauseWork", "manager", "filter", "ack",
                             "resumeWork", "notifyWork", "resumeRecv", "notifyRecv"}]
  /\ broken \in SUBSET (Clients \X Tasks)

(* Client c will still notify task k in the order it is serving. *)
OwesNotify(c, k) ==
  \/ Holds(c, k)
  \/ k = "recv" /\ client[c] = "notifyRecv"
  \/ k = "work" /\ client[c] \in {"pauseWork", "notifyWork"}

(* A running task's paused flag is set only while some client that set it   *)
(* has still to clear it: with any interleaving of pauses and resumes the   *)
(* receiver is not left paused by nobody (pause/resume_can_ipc_receiver).   *)
NoStuckPause ==
  \A k \in Tasks : tpc[k] # "absent" /\ paused[k] => \E c \in Clients : Holds(c, k)

(* A task asleep at its gate will be notified: the flag is read and the     *)
(* sleep entered under the mutex the resume takes to clear it, so no        *)
(* resume slips in between (resume_work_queue_task, the wait of the loops). *)
NoLostResume ==
  \A k \in Tasks : tpc[k] = "waiting" => \E c \in Clients : OwesNotify(c, k)

(* While a client holds a task paused, the task starts no new pass, unless  *)
(* another client has resumed it meanwhile: a pause ends by a resume only,  *)
(* but by anybody's (resume_can_ipc_receiver clears the flag outright).     *)
PauseHolds ==
  [][\A k \in Tasks, c \in Clients :
       AtGate(k) /\ tpc'[k] = Entry[k] /\ Holds(c, k) => <<c, k>> \in broken]_taskVars

(* handle_client pauses the receiver with the comment "stop receiver first" *)
(* (src/src/core/ipc_socket_controller.cpp:304): while a client changes the *)
(* client manager no callback reads it, and while it changes the filter     *)
(* table no frame is being looked up in it.                                 *)
StoppedWhileChanging ==
  \A c \in Clients :
    /\ client[c] = "manager" => tpc["work"] # "callback"
    /\ client[c] = "filter" => tpc["recv"] # "match"
================================================================================
