------------------------------ MODULE ReceivePass ------------------------------
(***************************************************************************)
(* The passes of receive_ipc_can_task (can_ipc_receiver.cpp): for every    *)
(* enabled port in turn, one batch of frames is read from the CAN HAL      *)
(* (get_raw_can_data), the frames are visited one by one, and those with   *)
(* an installed filter go to WORK_QUEUE (match_can_filter).                *)
(*                                                                         *)
(* The visit keeps a counter i and a pointer into the batch, and they do   *)
(* not move together: a frame without data is skipped by moving the        *)
(* counter alone.                                                          *)
(*                                                                         *)
(* A frame is the moment it was received, its id, and whether it has data: *)
(* payload and length conversion are left out.  Filters change at any      *)
(* time, also under a pass (ReceiverTasks shows that a pause does not stop *)
(* one that is under way), and only those of port 5, the one port          *)
(* lib_get_can_dev_port names.                                             *)
(***************************************************************************)
EXTENDS Naturals, Sequences, FiniteSets

CONSTANTS
  Id,        \* CAN ids
  Ports,     \* CAN_DEV_PORT_5 .. CAN_DEV_PORT_9
  Enabled,   \* the ports whose is_received_can_<n>_port is set
  MaxBatch,  \* canframes in SINGLE_RX_BUF_SIZE
  MaxTasks,  \* MAX_WORK_QUEUE_TASKS
  MaxFrames  \* bound on the frames received in all, to keep the model finite

ASSUME ReceivePassAssumption ==
  /\ Ports = 5 .. 9
  /\ Enabled \subseteq Ports
  /\ MaxBatch \in Nat /\ MaxTasks \in Nat \ {0} /\ MaxFrames \in Nat

VARIABLES
  port,       \* the port the pass has reached; Gate between two passes
  heard,      \* number of frames received so far
  rx,         \* rx_frame: the batch of the current port; NoBatch before it is read
  i,          \* the loop counter: visits begun
  cur,        \* single_canframe, as an index into rx
  installed,  \* the ids in the can_ipc_filter_map of each port
  queue       \* the frames of the tasks in work_queue_

passVars == <<port, heard, rx, i, cur, installed, queue>>

Gate == 4
NoBatch == <<>>

(* The port after p, Gate after the last. *)
After(p) == IF p = 9 THEN Gate ELSE p + 1

Init ==
  /\ port = Gate
  /\ heard = 0
  /\ rx = NoBatch
  /\ i = 0
  /\ cur = 1
  /\ installed = [p \in Ports |-> {}]
  /\ queue = <<>>

--------------------------------------------------------------------------------
(* The receive task is not paused: a pass begins. *)
BeginPass ==
  /\ port = Gate
  /\ port' = 5
  /\ UNCHANGED <<heard, rx, i, cur, installed, queue>>

SkipPort ==
  /\ port \in Ports \ Enabled
  /\ port' = After(port)
  /\ UNCHANGED <<heard, rx, i, cur, installed, queue>>

(* Batches of n frames that canRecvMsgFrame can fill in, in the order they  *)
(* came over the bus; a CAN frame may carry no data.                        *)
Batches(n) ==
  {b \in [1 .. n -> [at : heard + 1 .. heard + n, id : Id, empty : BOOLEAN]] :
     \A k \in 1 .. n : b[k].at = heard + k}

(* canRecvMsgFrame returns n frames and the visit starts at the first. *)
Receive(n) ==
  /\ port \in Enabled /\ rx = NoBatch
  /\ heard + n <= MaxFrames
  /\ \E b \in Batches(n) : rx' = b
  /\ heard' = heard + n
  /\ UNCHANGED <<port, i, cur, installed, queue>>

(* canRecvMsgFrame times out, data_num is 0. *)
ReceiveNothing ==
  /\ port \in Enabled /\ rx = NoBatch
  /\ port' = After(port)
  /\ UNCHANGED <<heard, rx, i, cur, installed, queue>>

Visiting == port \in Enabled /\ i < Len(rx)

(* A wrong SkipEmpty, as a mutant: not even the counter moves. *)
SkipEmptyForEver ==
  /\ Visiting
  /\ rx[cur].empty
  /\ i' = i
  /\ UNCHANGED <<port, heard, rx, cur, installed, queue>>

(* A wrong SkipEmpty, as a mutant: the pointer moves past two frames. *)
SkipEmptyTwo ==
  /\ Visiting
  /\ rx[cur].empty
  /\ i' = i + 1
  /\ cur' = cur + 2
  /\ UNCHANGED <<port, heard, rx, installed, queue>>

(* if (single_canframe->len == 0) continue; *)
SkipEmpty ==
  /\ Visiting
  /\ rx[cur].empty
  /\ i' = i + 1
  /\ UNCHANGED <<port, heard, rx, cur, installed, queue>>

(* A wrong MatchFrame, as a mutant: the pointer does not move. *)
MatchFrameStay ==
  /\ Visiting
  /\ ~rx[cur].empty
  /\ i' = i + 1
  /\ queue' = IF rx[cur].id \in installed[port] /\ Len(queue) < MaxTasks
              THEN Append(queue, rx[cur]) ELSE queue
  /\ UNCHANGED <<port, heard, rx, cur, installed>>

(* match_can_filter: a frame without a filter is dropped, and so is one     *)
(* that enqueue refuses because the queue is full: its answer is not read.  *)
MatchFrame ==
  /\ Visiting
  /\ ~rx[cur].empty
  /\ i' = i + 1
  /\ cur' = cur + 1
  /\ queue' = IF rx[cur].id \in installed[port] /\ Len(queue) < MaxTasks
              THEN Append(queue, rx[cur]) ELSE queue
  /\ UNCHANGED <<port, heard, rx, installed>>

(* All data_num visits are done: the buffer is freed, the next port's turn. *)
EndBatch ==
  /\ port \in Enabled /\ rx # NoBatch
  /\ i = Len(rx)
  /\ port' = After(port)
  /\ rx' = NoBatch
  /\ i' = 0
  /\ cur' = 1
  /\ UNCHANGED <<heard, installed, queue>>

--------------------------------------------------------------------------------
(* The callback task takes the oldest task. *)
Dequeue ==
  /\ queue # <<>>
  /\ queue' = Tail(queue)
  /\ UNCHANGED <<port, heard, rx, i, cur, installed>>

(* Clients add and remove filters. *)
ChangeFilters ==
  /\ \E S \in SUBSET Id : installed' = [installed EXCEPT ![5] = S]
  /\ UNCHANGED <<port, heard, rx, i, cur, queue>>

PassStep ==
  \/ SkipPort
  \/ \E n \in 1 .. MaxBatch : Receive(n)
  \/ ReceiveNothing
  \/ SkipEmpty
  \/ MatchFrame
  \/ EndBatch

Next == BeginPass \/ PassStep \/ Dequeue \/ ChangeFilters

Spec == Init /\ [][Next]_passVars

(* The receive task runs, and canRecvMsgFrame returns: its channels have a  *)
(* receive timeout.                                                         *)
FairSpec == Spec /\ WF_passVars(PassStep)

--------------------------------------------------------------------------------
(* The type invariant. *)
TypeOK ==
  /\ port \in {Gate} \cup Ports
  /\ heard \in 0 .. MaxFrames
  /\ rx \in Seq([at : Nat, id : Id, empty : BOOLEAN]) /\ Len(rx) <= MaxBatch
  /\ i \in 0 .. Len(rx)
  /\ cur \in 1 .. Len(rx) + 1
  /\ installed \in [Ports -> SUBSET Id]
  /\ queue \in Seq([at : Nat, id : Id, empty : BOOLEAN]) /\ Len(queue) <= MaxTasks

(* The callbacks run in the order the frames came over the bus and at most  *)
(* once for each (get_raw_can_data, match_can_filter, the FIFO queue).      *)
BusOrder ==
  \A j, k \in 1 .. Len(queue) : j < k => queue[j].at < queue[k].at

(* What the visit has passed to match_can_filter is a prefix of the batch   *)
(* without an empty frame, and the visit lags behind its counter only by    *)
(* standing on an empty frame (get_raw_can_data).                           *)
VisitedPrefix ==
  /\ cur <= i + 1
  /\ \A k \in 1 .. cur - 1 : ~rx[k].empty
  /\ cur <= i => rx[cur].empty

(* A frame that is waiting in the queue has data: memcpy and the callback   *)
(* never see a frame of length 0 (get_raw_can_data), and it came in before  *)
(* the frames of the batch that are still to be visited.                    *)
QueuedBeforeUnvisited ==
  \A j \in 1 .. Len(queue) :
    /\ ~queue[j].empty
    /\ \A k \in cur .. Len(rx) : queue[j].at < rx[k].at

(* A pass always comes back to the gate where the task can be paused.       *)
EveryPassEnds == port # Gate ~> port = Gate

(* get_raw_can_data is to "decode multiple can frames"                      *)
(* (src/src/core/can_ipc_receiver.cpp:248): when the visits are over, every *)
(* frame of the batch that has data has been matched.                       *)
EveryFrameVisited ==
  rx # NoBatch /\ i = Len(rx) => \A k \in cur .. Len(rx) : rx[k].empty
================================================================================
