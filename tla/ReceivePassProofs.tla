--------------------------- MODULE ReceivePassProofs ---------------------------
(***************************************************************************)
(* Proofs about ReceivePass for any CAN ids, any set of enabled ports, any *)
(* batch size and any queue limit.                                         *)
(***************************************************************************)
EXTENDS ReceivePass, TLAPS

Frames == [at : Nat, id : Id, empty : BOOLEAN]

(* Frames are stamped in the order they were received, never later than the *)
(* last one heard, and a visit starts from the beginning of its batch.      *)
Stamped ==
  /\ \A j, k \in 1 .. Len(rx) : j < k => rx[j].at < rx[k].at
  /\ \A k \in 1 .. Len(rx) : rx[k].at <= heard
  /\ \A k \in 1 .. Len(queue) : queue[k].at <= heard
  /\ rx = NoBatch => i = 0 /\ cur = 1

IInv == TypeOK /\ Stamped /\ BusOrder /\ VisitedPrefix /\ QueuedBeforeUnvisited

--------------------------------------------------------------------------------
(* Where the visit stands: the pointer is inside the batch.  On a frame     *)
(* with data it is exactly at the counter.                                  *)
LEMMA PointerInBatch ==
  ASSUME IInv, Visiting
  PROVE  /\ cur \in 1 .. Len(rx) /\ rx[cur] \in Frames
         /\ ~rx[cur].empty => cur = i + 1
<1>1. /\ rx \in Seq(Frames) /\ Len(rx) \in Nat /\ i \in 0 .. Len(rx)
      /\ cur \in 1 .. Len(rx) + 1
  BY DEF IInv, TypeOK, Frames
<1>2. cur <= i + 1 /\ (cur <= i => rx[cur].empty)
  BY DEF IInv, VisitedPrefix
<1>3. i < Len(rx)
  BY DEF Visiting
<1>4. cur \in 1 .. Len(rx)
  BY <1>1, <1>2, <1>3
<1>5. QED
  BY <1>1, <1>2, <1>4

(* A batch as canRecvMsgFrame delivers it. *)
LEMMA BatchFacts ==
  ASSUME TypeOK, NEW n \in 1 .. MaxBatch, NEW b \in Batches(n)
  PROVE  /\ b \in Seq(Frames) /\ Len(b) = n /\ b # NoBatch
         /\ \A k \in 1 .. n : b[k].at = heard + k
<1>1. n \in Nat /\ n > 0 /\ heard \in Nat
  BY ReceivePassAssumption DEF TypeOK
<1>2. b \in [1 .. n -> [at : heard + 1 .. heard + n, id : Id, empty : BOOLEAN]]
      /\ \A k \in 1 .. n : b[k].at = heard + k
  BY DEF Batches
<1>3. \A k \in 1 .. n : b[k] \in Frames
  BY <1>1, <1>2 DEF Frames
<1>4. b \in [1 .. n -> Frames]
  BY <1>2, <1>3
<1>5. b \in Seq(Frames) /\ Len(b) = n
  BY <1>1, <1>4
<1>6. b # NoBatch
  BY <1>1, <1>5 DEF NoBatch
<1>7. QED
  BY <1>2, <1>5, <1>6

--------------------------------------------------------------------------------
(* The steps that do not visit a frame. *)
LEMMA ReceiveKeeps ==
  ASSUME IInv, NEW n \in 1 .. MaxBatch, Receive(n)
  PROVE  IInv'
<1>t. /\ TypeOK /\ i = 0 /\ cur = 1
  BY DEF IInv, Stamped, Receive
<1>q. /\ queue \in Seq(Frames) /\ Len(queue) \in Nat /\ heard \in Nat
      /\ \A k \in 1 .. Len(queue) : queue[k].at \in Nat
      /\ \A k \in 1 .. Len(queue) : queue[k].at <= heard
  <2>1. queue \in Seq(Frames) /\ Len(queue) \in Nat /\ heard \in Nat
    BY DEF IInv, TypeOK, Frames
  <2>2. \A k \in 1 .. Len(queue) : queue[k] \in Frames
    BY <2>1
  <2>3. \A k \in 1 .. Len(queue) : queue[k].at \in Nat
    BY <2>2 DEF Frames
  <2>4. QED
    BY <2>1, <2>3 DEF IInv, Stamped
<1>e. \A k \in 1 .. Len(queue) : ~queue[k].empty
  BY DEF IInv, QueuedBeforeUnvisited
<1>1. /\ rx' \in Seq(Frames) /\ Len(rx') = n /\ rx' # NoBatch
      /\ \A k \in 1 .. n : rx'[k].at = heard + k
  <2>1. PICK b \in Batches(n) : rx' = b
    BY DEF Receive
  <2>2. QED
    BY <1>t, <2>1, BatchFacts
<1>2. /\ heard' = heard + n /\ heard + n <= MaxFrames
      /\ UNCHANGED <<port, i, cur, installed, queue>>
  BY DEF Receive
<1>3. n \in Nat /\ MaxFrames \in Nat /\ n <= MaxBatch
  BY ReceivePassAssumption
<1>4. TypeOK'
  BY <1>t, <1>1, <1>2, <1>3 DEF TypeOK, Frames
<1>5. Stamped'
  <2>1. \A j, k \in 1 .. Len(rx') : j < k => rx'[j].at < rx'[k].at
    BY <1>1, <1>3, <1>q
  <2>2. \A k \in 1 .. Len(rx') : rx'[k].at <= heard'
    BY <1>1, <1>2, <1>3, <1>q
  <2>3. \A k \in 1 .. Len(queue') : queue'[k].at <= heard'
    BY <1>2, <1>3, <1>q
  <2>4. QED
    BY <1>1, <2>1, <2>2, <2>3 DEF Stamped
<1>6. VisitedPrefix'
  BY <1>t, <1>1, <1>2, <1>3 DEF VisitedPrefix
<1>7. QueuedBeforeUnvisited'
  <2>1. \A j \in 1 .. Len(queue), k \in 1 .. n : queue[j].at < rx'[k].at
    BY <1>q, <1>1, <1>3
  <2>2. QED
    BY <1>t, <1>e, <1>1, <1>2, <2>1 DEF QueuedBeforeUnvisited
<1>8. BusOrder'
  BY <1>2 DEF IInv, BusOrder
<1>9. QED
  BY <1>4, <1>5, <1>6, <1>7, <1>8 DEF IInv

(* A turn of the port loop, or a change of the filters, leaves the batch    *)
(* and the queue alone or ends the batch.                                   *)
LEMMA PortKeeps ==
  ASSUME IInv,
         BeginPass \/ SkipPort \/ ReceiveNothing \/ EndBatch \/ ChangeFilters
           \/ UNCHANGED passVars
  PROVE  IInv'
<1>t. TypeOK
  BY DEF IInv
<1>1. heard' = heard /\ queue' = queue
  BY DEF BeginPass, SkipPort, ReceiveNothing, EndBatch, ChangeFilters, passVars
<1>2. \/ UNCHANGED <<rx, i, cur>>
      \/ rx' = NoBatch /\ i' = 0 /\ cur' = 1
  BY DEF BeginPass, SkipPort, ReceiveNothing, EndBatch, ChangeFilters, passVars
<1>3. port' \in {Gate} \cup Ports
  BY <1>t, ReceivePassAssumption
     DEF TypeOK, BeginPass, SkipPort, ReceiveNothing, EndBatch, ChangeFilters,
         passVars, After, Gate
<1>4. installed' \in [Ports -> SUBSET Id]
  BY <1>t
     DEF TypeOK, BeginPass, SkipPort, ReceiveNothing, EndBatch, ChangeFilters, passVars
<1>5. NoBatch \in Seq(Frames) /\ Len(NoBatch) = 0 /\ MaxBatch \in Nat
  BY ReceivePassAssumption DEF NoBatch
<1>6. CASE UNCHANGED <<rx, i, cur>>
  BY <1>1, <1>3, <1>4, <1>6
     DEF IInv, TypeOK, Stamped, BusOrder, VisitedPrefix, QueuedBeforeUnvisited
<1>7. CASE rx' = NoBatch /\ i' = 0 /\ cur' = 1
  <2>1. TypeOK'
    BY <1>t, <1>1, <1>3, <1>4, <1>5, <1>7 DEF TypeOK, Frames
  <2>2. Stamped' /\ VisitedPrefix'
    BY <1>1, <1>5, <1>7 DEF IInv, Stamped, VisitedPrefix
  <2>3. BusOrder' /\ QueuedBeforeUnvisited'
    BY <1>1, <1>5, <1>7 DEF IInv, BusOrder, QueuedBeforeUnvisited
  <2>4. QED
    BY <2>1, <2>2, <2>3 DEF IInv
<1>8. QED
  BY <1>2, <1>6, <1>7

--------------------------------------------------------------------------------
(* The visit of one frame, and the callback task's turn. *)
LEMMA SkipEmptyKeeps == ASSUME IInv, SkipEmpty PROVE IInv'
<1>1. /\ i < Len(rx) /\ rx[cur].empty /\ i' = i + 1
      /\ UNCHANGED <<port, heard, rx, cur, installed, queue>>
  BY DEF SkipEmpty, Visiting
<1>2. /\ Len(rx) \in Nat /\ i \in 0 .. Len(rx) /\ cur \in 1 .. Len(rx) + 1
  BY DEF IInv, TypeOK
<1>3. rx # NoBatch
  BY <1>1, <1>2 DEF NoBatch
<1>4. TypeOK'
  BY <1>1, <1>2 DEF IInv, TypeOK
<1>5. Stamped' /\ BusOrder' /\ QueuedBeforeUnvisited'
  BY <1>1, <1>3 DEF IInv, Stamped, BusOrder, QueuedBeforeUnvisited
<1>6. VisitedPrefix'
  BY <1>1, <1>2 DEF IInv, VisitedPrefix
<1>7. QED
  BY <1>4, <1>5, <1>6 DEF IInv

LEMMA MatchFrameKeeps == ASSUME IInv, MatchFrame PROVE IInv'
<1>t. /\ rx \in Seq(Frames) /\ Len(rx) \in Nat /\ i \in 0 .. Len(rx)
      /\ queue \in Seq(Frames) /\ Len(queue) \in Nat /\ Len(queue) <= MaxTasks
      /\ MaxTasks \in Nat
  BY ReceivePassAssumption DEF IInv, TypeOK, Frames
<1>1. /\ Visiting /\ i < Len(rx) /\ ~rx[cur].empty /\ i' = i + 1 /\ cur' = cur + 1
      /\ UNCHANGED <<port, heard, rx, installed>>
  BY DEF MatchFrame, Visiting
<1>2. cur \in 1 .. Len(rx) /\ rx[cur] \in Frames /\ cur = i + 1
  BY <1>1, PointerInBatch
<1>3. rx # NoBatch
  BY <1>1, <1>t DEF NoBatch
<1>4. queue' = queue \/ (queue' = Append(queue, rx[cur]) /\ Len(queue) < MaxTasks)
  BY DEF MatchFrame
<1>5. VisitedPrefix'
  BY <1>1, <1>2, <1>t DEF IInv, VisitedPrefix
<1>6. \A k \in cur + 1 .. Len(rx) : rx[cur].at < rx[k].at
  BY <1>2, <1>t DEF IInv, Stamped
<1>7. CASE queue' = queue
  <2>1. TypeOK'
    BY <1>1, <1>2, <1>t, <1>7 DEF IInv, TypeOK
  <2>2. Stamped' /\ BusOrder'
    BY <1>1, <1>3, <1>7 DEF IInv, Stamped, BusOrder
  <2>3. QueuedBeforeUnvisited'
    BY <1>1, <1>2, <1>t, <1>7 DEF IInv, QueuedBeforeUnvisited
  <2>4. QED
    BY <1>5, <2>1, <2>2, <2>3 DEF IInv
<1>8. CASE queue' = Append(queue, rx[cur]) /\ Len(queue) < MaxTasks
  <2>1. /\ queue' \in Seq(Frames) /\ Len(queue') = Len(queue) + 1
        /\ queue'[Len(queue) + 1] = rx[cur]
        /\ \A j \in 1 .. Len(queue) : queue'[j] = queue[j]
    BY <1>8, <1>t, <1>2
  <2>2. TypeOK'
    <3>1. Len(queue') <= MaxTasks
      BY <1>8, <1>t, <2>1
    <3>2. i' \in 0 .. Len(rx') /\ cur' \in 1 .. Len(rx') + 1
      BY <1>1, <1>2, <1>t
    <3>3. QED
      BY <1>1, <2>1, <3>1, <3>2 DEF IInv, TypeOK, Frames
  <2>3. Stamped'
    BY <1>1, <1>2, <1>3, <1>t, <2>1 DEF IInv, Stamped
  <2>4. \A j \in 1 .. Len(queue) : queue[j].at < rx[cur].at /\ ~queue[j].empty
    BY <1>2, <1>t DEF IInv, QueuedBeforeUnvisited
  <2>5. BusOrder'
    <3>1. ASSUME NEW j \in 1 .. Len(queue'), NEW k \in 1 .. Len(queue'), j < k
          PROVE  queue'[j].at < queue'[k].at
      <4>1. j \in 1 .. Len(queue)
        BY <3>1, <2>1, <1>t
      <4>2. CASE k = Len(queue) + 1
        BY <4>1, <4>2, <2>1, <2>4
      <4>3. CASE k \in 1 .. Len(queue)
        BY <3>1, <4>1, <4>3, <2>1 DEF IInv, BusOrder
      <4>4. QED
        BY <3>1, <4>2, <4>3, <2>1, <1>t
    <3>2. QED
      BY <3>1 DEF BusOrder
  <2>6. QueuedBeforeUnvisited'
    <3>1. ASSUME NEW j \in 1 .. Len(queue')
          PROVE  ~queue'[j].empty /\ \A k \in cur + 1 .. Len(rx) : queue'[j].at < rx[k].at
      <4>1. CASE j = Len(queue) + 1
        BY <4>1, <2>1, <1>1, <1>6
      <4>2. CASE j \in 1 .. Len(queue)
        BY <4>2, <2>1, <1>2, <1>t DEF IInv, QueuedBeforeUnvisited
      <4>3. QED
        BY <3>1, <4>1, <4>2, <2>1, <1>t
    <3>2. QED
      BY <3>1, <1>1 DEF QueuedBeforeUnvisited
  <2>7. QED
    BY <1>5, <2>2, <2>3, <2>5, <2>6 DEF IInv
<1>9. QED
  BY <1>4, <1>7, <1>8

LEMMA DequeueKeeps == ASSUME IInv, Dequeue PROVE IInv'
<1>t. queue \in Seq(Frames) /\ queue # <<>> /\ Len(queue) \in Nat \ {0}
      /\ Len(queue) <= MaxTasks /\ MaxTasks \in Nat
  BY ReceivePassAssumption DEF IInv, TypeOK, Frames, Dequeue
<1>1. queue' = Tail(queue) /\ UNCHANGED <<port, heard, rx, i, cur, installed>>
  BY DEF Dequeue
<1>2. /\ queue' \in Seq(Frames) /\ Len(queue') = Len(queue) - 1
      /\ \A j \in 1 .. Len(queue') : queue'[j] = queue[j + 1]
  BY <1>t, <1>1
<1>3. \A j \in 1 .. Len(queue') : j + 1 \in 1 .. Len(queue)
  BY <1>2, <1>t
<1>4. TypeOK'
  BY <1>1, <1>2, <1>t DEF IInv, TypeOK, Frames
<1>5. Stamped' /\ VisitedPrefix' /\ QueuedBeforeUnvisited'
  BY <1>1, <1>2, <1>3 DEF IInv, Stamped, VisitedPrefix, QueuedBeforeUnvisited
<1>6. BusOrder'
  BY <1>2, <1>3, <1>t DEF IInv, BusOrder
<1>7. QED
  BY <1>4, <1>5, <1>6 DEF IInv

--------------------------------------------------------------------------------
(* The inductive invariant: it holds initially and every step keeps it.     *)
LEMMA InductiveInvariant == Spec => []IInv
<1>1. Init => IInv
  <2> SUFFICES ASSUME Init PROVE IInv
    OBVIOUS
  <2>1. /\ port = Gate /\ heard = 0 /\ rx = <<>> /\ i = 0 /\ cur = 1 /\ queue = <<>>
        /\ installed \in [Ports -> SUBSET Id]
    BY DEF Init, NoBatch
  <2>2. TypeOK
    BY <2>1, ReceivePassAssumption DEF TypeOK
  <2>3. Stamped /\ BusOrder /\ VisitedPrefix /\ QueuedBeforeUnvisited
    BY <2>1 DEF Stamped, BusOrder, VisitedPrefix, QueuedBeforeUnvisited
  <2>4. QED
    BY <2>2, <2>3 DEF IInv
<1>2. IInv /\ [Next]_passVars => IInv'
  BY ReceiveKeeps, PortKeeps, SkipEmptyKeeps, MatchFrameKeeps, DequeueKeeps
     DEF Next, PassStep
<1>3. QED
  BY <1>1, <1>2, PTL DEF Spec

(* The loop variables, the batch and the queue keep their types             *)
(* (receive_ipc_can_task, get_raw_can_data): the pointer stays within one   *)
(* place of the batch.                                                      *)
THEOREM TypeCorrect == Spec => []TypeOK
BY InductiveInvariant, PTL DEF IInv

(* Frames reach the callback task in bus order and at most once each, for   *)
(* any batches and any queue limit (get_raw_can_data, match_can_filter).    *)
THEOREM FramesKeepBusOrder == Spec => []BusOrder
BY InductiveInvariant, PTL DEF IInv

(* The visit never passes an empty frame: what it matched is the part of    *)
(* the batch in front of the first one (get_raw_can_data).                  *)
THEOREM VisitStopsAtEmpty == Spec => []VisitedPrefix
BY InductiveInvariant, PTL DEF IInv

(* No frame without data is ever queued, and what is queued came in before  *)
(* what is still to be visited.                                             *)
THEOREM QueuedFramesHaveData == Spec => []QueuedBeforeUnvisited
BY InductiveInvariant, PTL DEF IInv

--------------------------------------------------------------------------------
(* How many more steps the task can take before it is back at the gate: for *)
(* each port to come a batch is read, visited frame by frame and freed.     *)
StepsOfPort == MaxBatch + 2

StepsLeft ==
  IF port = Gate THEN 0
  ELSE (10 - port) * StepsOfPort - (IF rx = NoBatch THEN 0 ELSE i + 1)

LEMMA StepsLeftNat ==
  ASSUME IInv PROVE StepsLeft \in Nat /\ StepsLeft <= 5 * StepsOfPort
<1>1. StepsOfPort \in Nat /\ StepsOfPort = MaxBatch + 2 /\ MaxBatch \in Nat
  BY ReceivePassAssumption DEF StepsOfPort
<1>2. port \in {4, 5, 6, 7, 8, 9} /\ i \in Nat /\ i <= MaxBatch
  BY <1>1, ReceivePassAssumption DEF IInv, TypeOK, Gate
<1> DEFINE m == StepsOfPort
           d == IF rx = NoBatch THEN 0 ELSE i + 1
<1>3. d \in Nat /\ d < m
  BY <1>1, <1>2
<1>4. StepsLeft = IF port = 4 THEN 0 ELSE (10 - port) * m - d
  BY DEF StepsLeft, Gate
<1>5. m \in Nat
  BY <1>1
<1> HIDE DEF m, d
<1>6. StepsLeft \in Nat /\ StepsLeft <= 5 * m
  BY <1>2, <1>3, <1>4, <1>5
<1> QED
  BY <1>6 DEF m

(* Every pass comes back to its gate within five times MaxBatch + 2 of its  *)
(* own steps: each step of the pass lowers StepsLeft, and no other thread   *)
(* raises it once the pass has begun (receive_ipc_can_task and              *)
(* get_raw_can_data: a step may skip, but the counter or the port moves).   *)
THEOREM PassesAreBounded ==
  Spec => [][/\ StepsLeft \in Nat /\ StepsLeft <= 5 * StepsOfPort
             /\ PassStep => StepsLeft' < StepsLeft
             /\ port # Gate /\ ~PassStep => StepsLeft' = StepsLeft]_passVars
<1> DEFINE Bounded == /\ StepsLeft \in Nat /\ StepsLeft <= 5 * StepsOfPort
                      /\ PassStep => StepsLeft' < StepsLeft
                      /\ port # Gate /\ ~PassStep => StepsLeft' = StepsLeft
<1>1. IInv /\ [Next]_passVars => [Bounded]_passVars
  <2> SUFFICES ASSUME IInv, Next PROVE Bounded
    OBVIOUS
  <2> DEFINE m == StepsOfPort
  <2>1. m \in Nat /\ m = MaxBatch + 2 /\ MaxBatch \in Nat
    BY ReceivePassAssumption DEF StepsOfPort
  <2>2. /\ port \in {4, 5, 6, 7, 8, 9} /\ i \in Nat /\ Len(rx) \in Nat
        /\ i <= Len(rx) /\ Len(rx) <= MaxBatch
        /\ rx = NoBatch => i = 0
    BY <2>1, ReceivePassAssumption DEF IInv, TypeOK, Gate, Stamped
  <2>3. /\ StepsLeft = IF port = 4 THEN 0
                       ELSE (10 - port) * m - (IF rx = NoBatch THEN 0 ELSE i + 1)
        /\ StepsLeft' = IF port' = 4 THEN 0
                        ELSE (10 - port') * m - (IF rx' = NoBatch THEN 0 ELSE i' + 1)
    BY DEF StepsLeft, Gate
  <2> HIDE DEF m
  <2>4. ASSUME port \in Ports, port' = After(port), rx' = NoBatch \/ UNCHANGED <<rx, i>>
        PROVE  StepsLeft' < StepsLeft
    <3> DEFINE d == IF rx = NoBatch THEN 0 ELSE i + 1
               e == IF rx' = NoBatch THEN 0 ELSE i' + 1
    <3>1. d \in Nat /\ e \in Nat /\ d < m /\ (e = 0 \/ e = d)
      BY <2>1, <2>2, <2>4
    <3>2. port \in 5 .. 9 /\ port' = IF port = 9 THEN 4 ELSE port + 1
      BY <2>4, ReceivePassAssumption DEF After, Gate
    <3>3. /\ StepsLeft = IF port = 4 THEN 0 ELSE (10 - port) * m - d
          /\ StepsLeft' = IF port' = 4 THEN 0 ELSE (10 - port') * m - e
      BY <2>3
    <3> HIDE DEF d, e
    <3>4. port \in {5, 6, 7, 8, 9} /\ m \in Nat
      BY <2>1, <3>2
    <3> QED
      BY <3>1, <3>2, <3>3, <3>4
  <2>5. ASSUME port \in Ports, UNCHANGED port, rx # NoBatch, UNCHANGED rx, i' = i + 1
        PROVE  StepsLeft' < StepsLeft
    <3>1. port \in {5, 6, 7, 8, 9} /\ port' = port /\ m \in Nat /\ i \in Nat
      BY <2>1, <2>2, <2>5, ReceivePassAssumption
    <3>2. StepsLeft = (10 - port) * m - (i + 1) /\ StepsLeft' = (10 - port) * m - (i + 1 + 1)
      BY <2>3, <2>5, <3>1
    <3> QED
      BY <3>1, <3>2
  <2>6. ASSUME NEW n \in 1 .. MaxBatch, Receive(n)
        PROVE  StepsLeft' < StepsLeft
    <3>1. /\ port \in {5, 6, 7, 8, 9} /\ port' = port /\ m \in Nat
          /\ rx = NoBatch /\ i = 0 /\ i' = 0
      BY <2>1, <2>2, <2>6, ReceivePassAssumption DEF Receive
    <3>2. rx' # NoBatch
      BY <2>6, BatchFacts DEF Receive, IInv
    <3>3. StepsLeft = (10 - port) * m /\ StepsLeft' = (10 - port) * m - 1
      BY <2>3, <3>1, <3>2
    <3> QED
      BY <3>1, <3>3
  <2>7. SkipPort \/ ReceiveNothing \/ EndBatch => StepsLeft' < StepsLeft
    BY <2>4, ReceivePassAssumption DEF SkipPort, ReceiveNothing, EndBatch
  <2>8. SkipEmpty \/ MatchFrame => StepsLeft' < StepsLeft
    <3> SUFFICES ASSUME SkipEmpty \/ MatchFrame PROVE StepsLeft' < StepsLeft
      OBVIOUS
    <3>1. Visiting /\ UNCHANGED <<port, rx>> /\ i' = i + 1
      BY DEF SkipEmpty, MatchFrame
    <3>2. rx # NoBatch /\ port \in Ports
      BY <2>2, <3>1, ReceivePassAssumption DEF Visiting, NoBatch
    <3> QED
      BY <2>5, <3>1, <3>2
  <2>9. PassStep => StepsLeft' < StepsLeft
    BY <2>6, <2>7, <2>8 DEF PassStep
  <2>10. port # Gate /\ ~PassStep => StepsLeft' = StepsLeft
    BY DEF Next, BeginPass, Dequeue, ChangeFilters, StepsLeft
  <2> QED
    BY <2>9, <2>10, StepsLeftNat
<1> QED
  BY <1>1, InductiveInvariant, PTL DEF Spec
================================================================================
