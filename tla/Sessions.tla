-------------------------------- MODULE Sessions --------------------------------
(***************************************************************************)
(* Sessions of client programs with the daemon, end to end.  A program is  *)
(* the one of debug/main.cpp: its main thread connects, adds a filter,     *)
(* waits for the ack, sends frames, removes the filter, waits again and    *)
(* ends; its receive thread reads packages and hands the acks over by      *)
(* cv_ready, under a mutex, with a condition variable.  The daemon has a   *)
(* client thread for each program (handle_client), and the receive task    *)
(* and the callback task (can_ipc_receiver.cpp), which all write to the    *)
(* programs' sockets.  A socket holds a bounded number of packages each    *)
(* way and a write to a full one blocks.  The daemon may end at any time,  *)
(* and a program may be killed at any time.                                *)
(*                                                                         *)
(* All programs ask for the same id, as debug/main.cpp does, so the        *)
(* indexes are sets of descriptors, named by their programs.  A program    *)
(* adds once and removes what it has added, so ADD and REMOVE succeed:     *)
(* module Subscriptions has the other programs, and the reuse of           *)
(* descriptors.                                                            *)
(*                                                                         *)
(* A change of the tables takes a while, and the callback task and other   *)
(* client threads run meanwhile.  What is in the reverse index then, and   *)
(* what changes that overlap leave there, is what IndexRebuild shows of    *)
(* their steps.  Whether the filter is installed (FilterTable) and what    *)
(* waits in the queue (ReceivePass) is left open: a frame may come out of  *)
(* the queue at any time, or never again.                                  *)
(***************************************************************************)
EXTENDS Naturals, Sequences, FiniteSets

CONSTANTS
  Programs,  \* client programs
  Fragile,   \* those that may be killed
  None,      \* nothing
  Sends,     \* SEND orders of a program
  Buffer     \* packages that a socket holds in one direction

ASSUME SessionsAssumption ==
  /\ Fragile \subseteq Programs
  /\ None \notin Programs \cup {"ADD", "REMOVE", "SEND"}
  /\ Sends \in Nat /\ Buffer \in Nat \ {0}

VARIABLES
  main,      \* where each program's main thread is
  order,     \* the order it has written last
  sent,      \* loop_cnt: its SEND orders so far
  ready,     \* cv_ready
  acked,     \* socket_ack_order
  recv,      \* where each program's receive thread is
  toDaemon,  \* orders on their way to the daemon
  toProgram, \* packages on their way to the program: an ack or a frame
  reset,     \* the daemon closed its end with orders unread
  alive,     \* the daemon runs
  thread,    \* where each client thread is
  serving,   \* the order it serves
  known,     \* the descriptors in socket_client_index
  subscribers, \* the descriptors in socket_client_reverse_index; during a change, at most
  mixed,     \* another thread has changed the index during the change under way
  paused,    \* work_task_queue_paused_
  work,      \* the callback task: its place, and the programs it has still to write to
  onBus      \* history: frames handed to the HAL for each program

programVars == <<main, order, sent, ready, acked, recv>>
socketVars == <<toDaemon, toProgram, reset>>
tableVars == <<known, subscribers, mixed>>
threadVars == <<thread, serving, tableVars, onBus>>
sessionVars == <<programVars, socketVars, alive, threadVars, paused, work>>

(* What the daemon writes to a program: the ack for an order, or a frame. *)
Acks == {"ADD", "REMOVE"}
Frame == "RECEIVE"

Init ==
  /\ main = [p \in Programs |-> "connect"]
  /\ order = [p \in Programs |-> None]
  /\ sent = [p \in Programs |-> 0]
  /\ ready = [p \in Programs |-> FALSE]
  /\ acked = [p \in Programs |-> None]
  /\ recv = [p \in Programs |-> "absent"]
  /\ toDaemon = [p \in Programs |-> <<>>]
  /\ toProgram = [p \in Programs |-> <<>>]
  /\ reset = [p \in Programs |-> FALSE]
  /\ alive = TRUE
  /\ thread = [p \in Programs |-> "absent"]
  /\ serving = [p \in Programs |-> None]
  /\ known = {}
  /\ subscribers = {}
  /\ mixed = FALSE
  /\ paused = FALSE
  /\ work = [at |-> "gate", to |-> {}]
  /\ onBus = [p \in Programs |-> 0]

--------------------------------------------------------------------------------
(* The main thread of a program *)

(* connect_to_server, and the two threads that serve the connection. *)
Connect(p) ==
  /\ main[p] = "connect" /\ alive
  /\ main' = [main EXCEPT ![p] = "order"]
  /\ recv' = [recv EXCEPT ![p] = "read"]
  /\ thread' = [thread EXCEPT ![p] = "read"]
  /\ UNCHANGED <<order, sent, ready, acked, socketVars, alive, serving, tableVars,
                 onBus, paused, work>>

(* Nobody listens: connect_to_server throws and the program ends. *)
ConnectFails(p) ==
  /\ main[p] = "connect" /\ ~alive
  /\ main' = [main EXCEPT ![p] = "ended"]
  /\ UNCHANGED <<order, sent, ready, acked, recv, socketVars, alive, threadVars, paused,
                 work>>

(* Write order o: it blocks while the socket is full; with the daemon gone  *)
(* it fails, and the program goes on all the same.  The failing write takes *)
(* the socket's pending error, unless it was waiting when the daemon ended. *)
Write(p, o) ==
  /\ \/ /\ alive /\ Len(toDaemon[p]) < Buffer
        /\ toDaemon' = [toDaemon EXCEPT ![p] = Append(@, o)]
        /\ UNCHANGED reset
     \/ /\ ~alive
        /\ reset' \in {reset, [reset EXCEPT ![p] = FALSE]}
        /\ UNCHANGED toDaemon
  /\ order' = [order EXCEPT ![p] = o]
  /\ UNCHANGED <<ready, acked, recv, toProgram, alive, threadVars, paused, work>>

(* socket_add_can_filter, then Sends times socket_send_can_data, then       *)
(* socket_remove_can_filter.                                                *)
AddOrder(p) ==
  /\ main[p] = "order" /\ order[p] = None
  /\ Write(p, "ADD")
  /\ main' = [main EXCEPT ![p] = "wait"]
  /\ UNCHANGED sent

SendOrder(p) ==
  /\ main[p] = "order" /\ order[p] # None /\ sent[p] < Sends
  /\ Write(p, "SEND")
  /\ sent' = [sent EXCEPT ![p] = @ + 1]
  /\ UNCHANGED main

RemoveOrder(p) ==
  /\ main[p] = "order" /\ order[p] # None /\ sent[p] = Sends
  /\ Write(p, "REMOVE")
  /\ main' = [main EXCEPT ![p] = "wait"]
  /\ UNCHANGED sent

(* cv.wait: test the flag under the mutex, and sleep in the same step. *)
TestReady(p) ==
  /\ main[p] = "wait"
  /\ main' = [main EXCEPT ![p] = IF ready[p] THEN "ack" ELSE "asleep"]
  /\ UNCHANGED <<order, sent, ready, acked, recv, socketVars, alive, threadVars, paused,
                 work>>

SpuriousWakeup(p) ==
  /\ main[p] = "asleep"
  /\ main' = [main EXCEPT ![p] = "wait"]
  /\ UNCHANGED <<order, sent, ready, acked, recv, socketVars, alive, threadVars, paused,
                 work>>

(* The program ends, and with it its receive thread and its socket.  If it  *)
(* left packages unread the daemon's next use of the socket fails: if that  *)
(* is a read, the orders behind it are lost.                                *)
End(p) ==
  /\ main' = [main EXCEPT ![p] = "ended"]
  /\ recv' = [recv EXCEPT ![p] = "absent"]
  /\ toProgram' = [toProgram EXCEPT ![p] = <<>>]
  /\ \/ UNCHANGED toDaemon
     \/ toProgram[p] # <<>> /\ toDaemon' = [toDaemon EXCEPT ![p] = <<>>]
  /\ UNCHANGED <<order, sent, acked, reset, alive, threadVars, paused, work>>

GoOn(p) ==
  /\ main' = [main EXCEPT ![p] = "order"]
  /\ UNCHANGED <<order, sent, acked, recv, socketVars, alive, threadVars, paused, work>>

(* A wrong TakeAck, as a mutant: cv_ready is not reset. *)
TakeAckNoReset(p) ==
  /\ main[p] = "ack"
  /\ UNCHANGED ready
  /\ IF order[p] = "ADD" THEN GoOn(p) ELSE End(p)

(* The second critical section: reset the flag, look at the ack.  After the *)
(* one for its REMOVE the program is over.                                  *)
TakeAck(p) ==
  /\ main[p] = "ack"
  /\ ready' = [ready EXCEPT ![p] = FALSE]
  /\ IF order[p] = "ADD" THEN GoOn(p) ELSE End(p)

--------------------------------------------------------------------------------
(* The receive thread of a program.  When the daemon has closed the socket  *)
(* read() returns 0 once the packages are read: the thread takes the zeroed *)
(* package for one it need not act on, and reads again, for ever.           *)

ReadFrame(p) ==
  /\ recv[p] = "read" /\ ~reset[p] /\ toProgram[p] # <<>> /\ Head(toProgram[p]) = Frame
  /\ toProgram' = [toProgram EXCEPT ![p] = Tail(@)]
  /\ UNCHANGED <<programVars, toDaemon, reset, alive, threadVars, paused, work>>

(* A wrong ReadAck, as a mutant: the main thread is not notified. *)
ReadAckSilent(p) ==
  /\ recv[p] = "read" /\ ~reset[p] /\ toProgram[p] # <<>> /\ Head(toProgram[p]) \in Acks
  /\ toProgram' = [toProgram EXCEPT ![p] = Tail(@)]
  /\ ready' = [ready EXCEPT ![p] = TRUE]
  /\ acked' = [acked EXCEPT ![p] = Head(toProgram[p])]
  /\ UNCHANGED <<main, order, sent, recv, toDaemon, reset, alive, threadVars, paused, work>>

ReadAck(p) ==
  /\ recv[p] = "read" /\ ~reset[p] /\ toProgram[p] # <<>> /\ Head(toProgram[p]) \in Acks
  /\ toProgram' = [toProgram EXCEPT ![p] = Tail(@)]
  /\ ready' = [ready EXCEPT ![p] = TRUE]
  /\ acked' = [acked EXCEPT ![p] = Head(toProgram[p])]
  /\ recv' = [recv EXCEPT ![p] = "notify"]
  /\ UNCHANGED <<main, order, sent, toDaemon, reset, alive, threadVars, paused, work>>

NotifyMain(p) ==
  /\ recv[p] = "notify"
  /\ recv' = [recv EXCEPT ![p] = "read"]
  /\ main' = IF main[p] = "asleep" THEN [main EXCEPT ![p] = "wait"] ELSE main
  /\ UNCHANGED <<order, sent, ready, acked, socketVars, alive, threadVars, paused, work>>

(* read() answers -1: the thread throws and takes the program with it. *)
ReadError(p) == recv[p] = "read" /\ reset[p] /\ End(p) /\ UNCHANGED ready

(* A program is killed in the middle of its session. *)
Vanish(p) ==
  /\ p \in Fragile /\ alive
  /\ main[p] \notin {"connect", "ended"}
  /\ End(p) /\ UNCHANGED ready

--------------------------------------------------------------------------------
(* The client thread of a program: handle_client *)

ThreadStep(p, from, to) ==
  /\ alive /\ thread[p] = from
  /\ thread' = [thread EXCEPT ![p] = to]

(* A wrong ServeSend, as a mutant: the frame is not sent. *)
ServeSendNothing(p) ==
  /\ ThreadStep(p, "read", "read")
  /\ toDaemon[p] # <<>> /\ Head(toDaemon[p]) = "SEND"
  /\ toDaemon' = [toDaemon EXCEPT ![p] = Tail(@)]
  /\ UNCHANGED <<programVars, toProgram, reset, alive, serving, tableVars, onBus,
                 paused, work>>

(* A SEND order goes to the HAL at once and is not answered. *)
ServeSend(p) ==
  /\ ThreadStep(p, "read", "read")
  /\ toDaemon[p] # <<>> /\ Head(toDaemon[p]) = "SEND"
  /\ toDaemon' = [toDaemon EXCEPT ![p] = Tail(@)]
  /\ onBus' = [onBus EXCEPT ![p] = @ + 1]
  /\ UNCHANGED <<programVars, toProgram, reset, alive, serving, tableVars, paused,
                 work>>

(* The threads that are changing the tables. *)
Changing == {q \in Programs : thread[q] = "change"}

(* Read order o, pause both tasks and change the index.  From here on the   *)
(* reverse index is cleared and filled again, and the filter changed.       *)
ReadOrder(p, o) ==
  /\ ThreadStep(p, "read", "change")
  /\ toDaemon[p] # <<>> /\ Head(toDaemon[p]) = o
  /\ toDaemon' = [toDaemon EXCEPT ![p] = Tail(@)]
  /\ serving' = [serving EXCEPT ![p] = o]
  /\ paused' = TRUE
  /\ known' = IF o = "ADD" THEN known \cup {p} ELSE known \ {p}
  /\ subscribers' = subscribers \cup known'
  /\ mixed' = (mixed \/ Changing # {})
  /\ UNCHANGED <<programVars, toProgram, reset, alive, onBus, work>>

(* register_can_filter or deregister_can_filter has ended.  The reverse     *)
(* index is what the index says; if another thread has changed the index    *)
(* meanwhile, entries that were there may be there still.  The last thread  *)
(* to leave settles which.                                                  *)
EndChange(p) ==
  /\ ThreadStep(p, "change", "ack")
  /\ IF Changing # {p} THEN UNCHANGED <<subscribers, mixed>>
     ELSE /\ \E old \in SUBSET subscribers :
               /\ mixed \/ old = {}
               /\ subscribers' = known \cup old
          /\ mixed' = FALSE
  /\ UNCHANGED <<programVars, socketVars, alive, serving, known, onBus, paused, work>>

(* A wrong WriteAck, as a mutant: a full socket is not waited for. *)
WriteAckUnbounded(p) ==
  /\ ThreadStep(p, "ack", "resume")
  /\ toProgram' = [toProgram EXCEPT ![p] = Append(@, serving[p])]
  /\ UNCHANGED <<programVars, toDaemon, reset, alive, serving, tableVars, onBus,
                 paused, work>>

(* A wrong WriteAck, as a mutant: the ack waits for the tasks, and they for *)
(* it.                                                                      *)
WriteAckWhenResumed(p) ==
  /\ ThreadStep(p, "ack", "resume")
  /\ ~paused /\ Len(toProgram[p]) < Buffer
  /\ toProgram' = [toProgram EXCEPT ![p] = Append(@, serving[p])]
  /\ UNCHANGED <<programVars, toDaemon, reset, alive, serving, tableVars, onBus,
                 paused, work>>

(* Both tasks stay paused while the ack waits for room in the socket.  The  *)
(* write fails when the program is gone.                                    *)
WriteAck(p) ==
  /\ ThreadStep(p, "ack", "resume")
  /\ IF main[p] = "ended" THEN UNCHANGED toProgram
     ELSE /\ Len(toProgram[p]) < Buffer
          /\ toProgram' = [toProgram EXCEPT ![p] = Append(@, serving[p])]
  /\ UNCHANGED <<programVars, toDaemon, reset, alive, serving, tableVars, onBus,
                 paused, work>>

Resume(p) ==
  /\ ThreadStep(p, "resume", "read")
  /\ serving' = [serving EXCEPT ![p] = None]
  /\ paused' = FALSE
  /\ UNCHANGED <<programVars, socketVars, alive, tableVars, onBus, work>>

(* A wrong Disconnect, as a mutant: the reverse index is cleared and not    *)
(* filled again.                                                            *)
DisconnectClears(p) ==
  /\ ThreadStep(p, "read", "closed")
  /\ main[p] = "ended" /\ toDaemon[p] = <<>>
  /\ known' = known \ {p}
  /\ subscribers' = {}
  /\ mixed' = (mixed \/ Changing # {})
  /\ UNCHANGED <<programVars, socketVars, alive, serving, onBus, paused, work>>

(* The program is gone: read_full returns 0 once the orders are read, or -1 *)
(* if packages were left unread.  The index is cleaned, the reverse index   *)
(* is not, and the descriptor is closed.                                    *)
Disconnect(p) ==
  /\ ThreadStep(p, "read", "closed")
  /\ main[p] = "ended" /\ toDaemon[p] = <<>>
  /\ known' = known \ {p}
  /\ mixed' = (mixed \/ Changing # {})
  /\ UNCHANGED <<programVars, socketVars, alive, serving, subscribers, onBus, paused, work>>

--------------------------------------------------------------------------------
(* The callback task *)

WorkStep ==
  /\ alive
  /\ UNCHANGED <<programVars, toDaemon, reset, alive, threadVars, paused>>

PassWork ==
  /\ WorkStep
  /\ work.at = "gate" /\ ~paused
  /\ work' = [work EXCEPT !.at = "dequeue"]
  /\ UNCHANGED toProgram

(* dequeue_blocking has a frame, and socket_receive_callback finds the      *)
(* subscribers, or during a change those that are in the reverse index.     *)
Callback ==
  /\ WorkStep
  /\ work.at = "dequeue"
  /\ \E found \in SUBSET subscribers :
       /\ Changing # {} \/ found = subscribers
       /\ work' = [at |-> "callback", to |-> found]
  /\ UNCHANGED toProgram

(* One write of the callback's loop: it blocks while the socket is full,    *)
(* and fails when the program or the descriptor is gone.                    *)
Forward(p) ==
  /\ WorkStep
  /\ work.at = "callback" /\ p \in work.to
  /\ work' = [work EXCEPT !.to = @ \ {p}]
  /\ IF main[p] = "ended" THEN UNCHANGED toProgram
     ELSE /\ Len(toProgram[p]) < Buffer
          /\ toProgram' = [toProgram EXCEPT ![p] = Append(@, Frame)]

(* The set the callback's loop is in is cleared by a change. *)
CutShort ==
  /\ WorkStep
  /\ work.at = "callback" /\ work.to # {} /\ Changing # {}
  /\ work' = [work EXCEPT !.to = {}]
  /\ UNCHANGED toProgram

CallbackReturns ==
  /\ WorkStep
  /\ work.at = "callback" /\ work.to = {}
  /\ work' = [work EXCEPT !.at = "gate"]
  /\ UNCHANGED toProgram

(* The daemon ends, by a signal or a crash, and its state with it.  Its     *)
(* ends of the sockets close; orders it has not read are lost, and make the *)
(* program's next read fail.                                                *)
DaemonEnds ==
  /\ alive
  /\ alive' = FALSE
  /\ reset' = [p \in Programs |-> main[p] # "ended" /\ toDaemon[p] # <<>>]
  /\ toDaemon' = [p \in Programs |-> <<>>]
  /\ thread' = [p \in Programs |-> "absent"]
  /\ serving' = [p \in Programs |-> None]
  /\ known' = {}
  /\ subscribers' = {}
  /\ mixed' = FALSE
  /\ paused' = FALSE
  /\ work' = [at |-> "gate", to |-> {}]
  /\ UNCHANGED <<programVars, toProgram, onBus>>

--------------------------------------------------------------------------------
MainThread(p) ==
  \/ Connect(p) \/ ConnectFails(p)
  \/ AddOrder(p) \/ SendOrder(p) \/ RemoveOrder(p)
  \/ TestReady(p) \/ TakeAck(p)
ReceiveThread(p) == ReadFrame(p) \/ ReadAck(p) \/ NotifyMain(p) \/ ReadError(p)
ClientThread(p) ==
  \/ ServeSend(p) \/ (\E o \in {"ADD", "REMOVE"} : ReadOrder(p, o))
  \/ EndChange(p)
  \/ WriteAck(p) \/ Resume(p) \/ Disconnect(p)
WorkTask == PassWork \/ (\E p \in Programs : Forward(p)) \/ CallbackReturns

Next ==
  \/ \E p \in Programs :
       MainThread(p) \/ SpuriousWakeup(p) \/ Vanish(p) \/ ReceiveThread(p) \/ ClientThread(p)
  \/ WorkTask \/ Callback \/ CutShort
  \/ DaemonEnds

Spec == Init /\ [][Next]_sessionVars

(* Every thread that can run does, sooner or later: all are threads of the  *)
(* operating system, and what they block on are sockets and one mutex.  An  *)
(* ack that is waiting for room in a socket gets it sooner or later, though *)
(* frames take it again and again: the kernel wakes both writers.  Frames   *)
(* need not come.                                                           *)
FairSpec ==
  /\ Spec
  /\ \A p \in Programs : /\ WF_sessionVars(MainThread(p))
                         /\ WF_sessionVars(ReceiveThread(p))
                         /\ WF_sessionVars(ClientThread(p))
                         /\ SF_sessionVars(WriteAck(p))
  /\ WF_sessionVars(WorkTask)

--------------------------------------------------------------------------------
(* The type invariant. *)
TypeOK ==
  /\ main \in [Programs -> {"connect", "order", "wait", "asleep", "ack", "ended"}]
  /\ order \in [Programs -> {None, "ADD", "SEND", "REMOVE"}]
  /\ sent \in [Programs -> 0 .. Sends]
  /\ ready \in [Programs -> BOOLEAN]
  /\ acked \in [Programs -> {None, "ADD", "REMOVE"}]
  /\ recv \in [Programs -> {"absent", "read", "notify"}]
  /\ toDaemon \in [Programs -> Seq({"ADD", "SEND", "REMOVE"})]
  /\ toProgram \in [Programs -> Seq(Acks \cup {Frame})]
  /\ \A p \in Programs : Len(toDaemon[p]) <= Buffer /\ Len(toProgram[p]) <= Buffer
  /\ reset \in [Programs -> BOOLEAN]
  /\ alive \in BOOLEAN
  /\ thread \in [Programs -> {"absent", "read", "change", "ack", "resume", "closed"}]
  /\ serving \in [Programs -> {None, "ADD", "REMOVE"}]
  /\ known \in SUBSET Programs /\ subscribers \in SUBSET Programs
  /\ mixed \in BOOLEAN
  /\ paused \in BOOLEAN
  /\ work \in [at : {"gate", "dequeue", "callback"}, to : SUBSET Programs]
  /\ onBus \in [Programs -> 0 .. Sends]

(* The ack a program takes is the one for its last order: no ack is taken   *)
(* twice, and none for another order (cv_ready and socket_ack_order in      *)
(* debug/main.cpp against the acks handle_client writes).                   *)
AckIsForOrder == \A p \in Programs : main[p] = "ack" => acked[p] = order[p]

(* From the moment a program has the ack of its ADD to the moment it writes *)
(* its REMOVE, the callback finds it whenever no thread is changing the     *)
(* reverse index, however orders of other programs have overlapped with its *)
(* own and whoever was killed (handle_client acks after the change, but     *)
(* another thread's may still be under way).                                *)
AckedIsFound ==
  \A p \in Programs :
    alive /\ main[p] \in {"ack", "order"} /\ order[p] \in {"ADD", "SEND"} =>
      (Changing = {} => p \in subscribers)

(* The main thread does not sleep over an ack that is there: the receive    *)
(* thread has yet to notify it (cv.wait tests cv_ready under cmtx).         *)
NoAckSleptOver ==
  \A p \in Programs : main[p] = "asleep" /\ ready[p] => recv[p] = "notify"

(* A program that has the ack of its REMOVE has had all its frames sent:    *)
(* orders of one program are served in order (handle_client's loop).        *)
SendsBeforeRemove ==
  \A p \in Programs : main[p] = "ack" /\ order[p] = "REMOVE" => onBus[p] = Sends

(* In the end every program has ended, for good: none of the blocking       *)
(* writes waits for another one in a circle, though programs are killed,    *)
(* and a program whose orders were unread when the daemon ended sees its    *)
(* read() fail.  Only a daemon that ends leaves programs that wait for      *)
(* ever: those with nothing unread and those whose own write took the error *)
(* (receive_thread looks for -1 and not for 0).                             *)
SessionsEnd ==
  <>[](\A p \in Programs : main[p] = "ended" \/ (~alive /\ ~reset[p]))
================================================================================
