---------------------------- MODULE LifecycleProofs ----------------------------
(***************************************************************************)
(* Proofs about module Lifecycle, for any number of daemon processes,      *)
(* faults and crashes.                                                     *)
(***************************************************************************)
EXTENDS Lifecycle, TLAPS

(* A process that never shared time with another one is the only one.       *)
Solo ==
  \A d \in alone : Running(d) /\ \A e \in Daemons : Running(e) => e = d

(* From its bind to the end of its accept loop, the path is its own.        *)
PathIsOwn ==
  \A d \in alone :
    pc[d] \in {"listen", "chmod", "signals", "receiver", "accept"} => file = d

(* From its listen to the end of its accept loop, a process listens.        *)
Listens ==
  \A d \in Daemons :
    pc[d] \in {"chmod", "signals", "receiver", "accept"} => sock[d] = "listening"

(* Only a process on its way out has closed the device.                     *)
DeviceOpen ==
  \A d \in Daemons : pc[d] \notin {"sleep", "exit", "hung"} => dev[d] # "closed"

(* The tasks run from the accept loop on, and under main's way out only     *)
(* when the loop was left.                                                  *)
TasksStarted ==
  \A d \in Daemons :
    tasks[d] => \/ pc[d] \in {"accept", "exit", "hung"}
                \/ d \in left /\ pc[d] \in {"deinit", "sleep"}

(* Who has signal handlers is a process.                                    *)
HandlersRun == \A d \in Daemons : handlers[d] => Running(d)

(* The inductive invariant. *)
IInv ==
  /\ TypeOK /\ Solo /\ PathIsOwn /\ Listens /\ DeviceOpen /\ TasksStarted /\ HandlersRun
  /\ OnlyAcceptErrorDegrades

--------------------------------------------------------------------------------
LEMMA FaultType ==
  ASSUME TypeOK, NEW d \in Daemons, NoFault \/ Fault(d)
  PROVE  faults' \in 0 .. MaxFaults /\ excused' \in BOOLEAN
<1>1. faults' \in 0 .. MaxFaults
  BY LifecycleAssumption DEF TypeOK, NoFault, Fault
<1>2. excused' \in BOOLEAN
  <2>1. CASE excused' = excused
    BY <2>1 DEF TypeOK
  <2>2. CASE excused' = (excused \/ d = Service)
    BY <2>2
  <2>3. QED
    BY <2>1, <2>2 DEF NoFault, Fault
<1>3. QED
  BY <1>1, <1>2

(* The steps of the start that do not touch the path. *)
LEMMA StartKeeps ==
  ASSUME IInv, NEW d \in Daemons,
         \/ Construct(d) \/ ConstructNoDevice(d) \/ Access(d) \/ CreateSocket(d)
         \/ InstallHandlers(d) \/ StartReceiver(d) \/ Listen(d) \/ Chmod(d)
  PROVE  IInv'
<1>1. NoFault \/ Fault(d)
  BY DEF Construct, ConstructNoDevice, Access, CreateSocket, InstallHandlers, StartReceiver,
         Listen, Chmod
<1>2. TypeOK'
  BY <1>1, FaultType DEF IInv, TypeOK, Goto, Construct, ConstructNoDevice, Access,
     CreateSocket, InstallHandlers, StartReceiver, Listen, Chmod
<1>3. (/\ Solo /\ PathIsOwn /\ Listens /\ DeviceOpen /\ TasksStarted /\ HandlersRun
       /\ OnlyAcceptErrorDegrades)'
  BY DEF IInv, TypeOK, Goto, Running, Solo, PathIsOwn, Listens, DeviceOpen,
     TasksStarted, HandlersRun, OnlyAcceptErrorDegrades, Construct, ConstructNoDevice, Access, CreateSocket,
     InstallHandlers, StartReceiver, Listen, Chmod
<1>4. QED
  BY <1>2, <1>3 DEF IInv
(* The steps that change the path, or read it and fail. *)
LEMMA PathKeeps ==
  ASSUME IInv, NEW d \in Daemons, Unlink(d) \/ Bind(d)
  PROVE  IInv'
<1>1. NoFault
  BY DEF Unlink, Bind
<1>2. TypeOK'
  BY <1>1, FaultType DEF IInv, TypeOK, Goto, Unlink, Bind
<1>3. (/\ Solo /\ PathIsOwn /\ Listens /\ DeviceOpen /\ TasksStarted /\ HandlersRun
       /\ OnlyAcceptErrorDegrades)'
  BY DEF IInv, TypeOK, Goto, Running, Solo, PathIsOwn, Listens, DeviceOpen,
     TasksStarted, HandlersRun, OnlyAcceptErrorDegrades, Unlink, Bind
<1>4. QED
  BY <1>2, <1>3 DEF IInv

LEMMA GiveUpKeeps ==
  ASSUME IInv, NEW d \in Daemons,
         UnlinkFails(d) \/ CreateSocketFails(d) \/ BindFails(d) \/ ListenFails(d) \/ ChmodFails(d)
  PROVE  IInv'
<1>1. PICK from \in {"unlink", "socket", "bind", "listen", "chmod"} : GiveUp(d, from)
  BY DEF UnlinkFails, CreateSocketFails, BindFails, ListenFails, ChmodFails
<1>2. NoFault \/ Fault(d)
  BY DEF UnlinkFails, CreateSocketFails, BindFails, ListenFails, ChmodFails
<1>3. TypeOK'
  BY <1>1, <1>2, FaultType DEF IInv, TypeOK, GiveUp, Goto
<1>4. (/\ Solo /\ PathIsOwn /\ Listens /\ DeviceOpen /\ TasksStarted /\ HandlersRun
       /\ OnlyAcceptErrorDegrades)'
  BY <1>1 DEF IInv, TypeOK, GiveUp, Goto, Running, Solo, PathIsOwn, Listens, DeviceOpen,
     TasksStarted, HandlersRun, OnlyAcceptErrorDegrades
<1>5. QED
  BY <1>3, <1>4 DEF IInv

(* The way out: the accept loop fails, main closes the device, sleeps and   *)
(* returns, exit() hangs.                                                   *)
LEMMA WayOutKeeps ==
  ASSUME IInv, NEW d \in Daemons, AcceptFails(d) \/ Deinit(d) \/ MainReturns(d) \/ ExitHangs(d)
  PROVE  IInv'
<1>1. NoFault \/ Fault(d)
  BY DEF AcceptFails, Deinit, MainReturns, ExitHangs
<1>2. TypeOK'
  BY <1>1, FaultType DEF IInv, TypeOK, Goto, AcceptFails, Deinit, MainReturns,
     ExitHangs
<1>3. (/\ Solo /\ PathIsOwn /\ Listens /\ DeviceOpen /\ TasksStarted /\ HandlersRun
       /\ OnlyAcceptErrorDegrades)'
  BY DEF IInv, TypeOK, Goto, Running, Solo, PathIsOwn, Listens, DeviceOpen,
     TasksStarted, HandlersRun, OnlyAcceptErrorDegrades, AcceptFails, Deinit, MainReturns, ExitHangs
<1>4. QED
  BY <1>2, <1>3 DEF IInv

LEMMA BeginKeeps ==
  ASSUME IInv, NEW d \in Daemons, Begin(d),
         unit' \in {"inactive", "active", "stopping", "waiting"}, excused' = excused
  PROVE  IInv'
<1>1. TypeOK'
  BY DEF IInv, TypeOK, Begin, Goto
<1>2. (/\ Solo /\ PathIsOwn /\ Listens /\ DeviceOpen /\ TasksStarted /\ HandlersRun
       /\ OnlyAcceptErrorDegrades)'
  BY DEF IInv, TypeOK, Begin, Goto, Running, Solo, PathIsOwn, Listens, DeviceOpen,
     TasksStarted, HandlersRun, OnlyAcceptErrorDegrades
<1>3. QED
  BY <1>1, <1>2 DEF IInv

(* A process is gone, for whatever reason. *)
LEMMA GoneKeeps ==
  ASSUME IInv, NEW d \in Daemons, Gone(d), file' = file,
         unit' \in {"inactive", "active", "stopping", "waiting"},
         faults' \in 0 .. MaxFaults, crashes' \in 0 .. MaxCrashes, excused' \in BOOLEAN
  PROVE  IInv'
<1>1. TypeOK'
  BY DEF IInv, TypeOK, Gone
<1>2. (/\ Solo /\ PathIsOwn /\ Listens /\ DeviceOpen /\ TasksStarted /\ HandlersRun
       /\ OnlyAcceptErrorDegrades)'
  BY DEF IInv, TypeOK, Gone, Running, Solo, PathIsOwn, Listens, DeviceOpen,
     TasksStarted, HandlersRun, OnlyAcceptErrorDegrades
<1>3. QED
  BY <1>1, <1>2 DEF IInv

LEMMA EndsKeeps ==
  ASSUME IInv, NEW d \in Daemons, NEW failure \in BOOLEAN, Ends(d, failure), file' = file,
         faults' \in 0 .. MaxFaults, crashes' \in 0 .. MaxCrashes
  PROVE  IInv'
<1>1. unit' \in {"inactive", "active", "stopping", "waiting"}
  BY DEF IInv, TypeOK, Ends, UnitAfter
<1>2. excused' \in BOOLEAN
  BY Zenon DEF Ends
<1>3. QED
  BY <1>1, <1>2, GoneKeeps DEF Ends

LEMMA ExitKeeps ==
  ASSUME IInv, NEW d \in Daemons, Exit(d) \/ ConstructThrows(d) \/ Crash(d)
  PROVE  IInv'
<1>1. PICK failure \in BOOLEAN : Ends(d, failure)
  <2>1. tasks[d] \in BOOLEAN
    BY DEF IInv, TypeOK
  <2>2. QED
    BY <2>1 DEF Exit, ConstructThrows, Crash
<1>2. /\ file' = file
      /\ faults' = faults \/ (faults < MaxFaults /\ faults' = faults + 1)
      /\ crashes' = crashes \/ (crashes < MaxCrashes /\ crashes' = crashes + 1)
  BY DEF Exit, ConstructThrows, Crash
<1>3. faults' \in 0 .. MaxFaults /\ crashes' \in 0 .. MaxCrashes
  BY <1>2, LifecycleAssumption DEF IInv, TypeOK
<1>4. QED
  BY <1>1, <1>2, <1>3, EndsKeeps

LEMMA HandleKeeps ==
  ASSUME IInv, NEW d \in Daemons, Running(d), Handle(d),
         unit' \in {"inactive", "active", "stopping", "waiting"}
  PROVE  IInv'
<1>1. PICK started \in BOOLEAN : tasks' = [tasks EXCEPT ![d] = started]
  BY DEF Handle, IInv, TypeOK
<1>2. excused' \in BOOLEAN
  BY Zenon DEF Handle
<1>3. TypeOK'
  BY <1>1, <1>2 DEF IInv, TypeOK, Handle
<1>4. (/\ Solo /\ PathIsOwn /\ Listens /\ DeviceOpen /\ TasksStarted /\ HandlersRun
       /\ OnlyAcceptErrorDegrades)'
  BY <1>1 DEF IInv, TypeOK, Handle, Running, Solo, PathIsOwn, Listens, DeviceOpen,
     TasksStarted, HandlersRun, OnlyAcceptErrorDegrades
<1>5. QED
  BY <1>3, <1>4 DEF IInv

LEMMA SignalledKeeps ==
  ASSUME IInv, NEW d \in Daemons,
         NEW u \in {"inactive", "active", "stopping", "waiting"}, Signalled(d, u)
  PROVE  IInv'
<1>1. CASE handlers[d]
  BY <1>1, HandleKeeps DEF Signalled, IInv, HandlersRun
<1>2. CASE ~handlers[d]
  <2>1. Gone(d) /\ unit' = UnitAfter(d, FALSE) /\ excused' = (excused \/ d = Service)
        /\ file' = file /\ faults' = faults /\ crashes' = crashes
    BY <1>2 DEF Signalled
  <2>2. unit' \in {"inactive", "active", "stopping", "waiting"}
    BY <2>1 DEF UnitAfter, IInv, TypeOK
  <2>3. excused' \in BOOLEAN
    BY <2>1, Zenon
  <2>4. QED
    BY <2>1, <2>2, <2>3, GoneKeeps DEF IInv, TypeOK
<1>3. QED
  BY <1>1, <1>2
(* The service manager, but for its signal.                                 *)
LEMMA UnitKeeps ==
  ASSUME IInv, StartUnit \/ RestartUnit \/ StopWaitingUnit \/ StopTimeout
  PROVE  IInv'
<1>1. Service \in Daemons
  BY LifecycleAssumption
<1>2. CASE StartUnit \/ RestartUnit
  BY <1>1, <1>2, BeginKeeps DEF StartUnit, RestartUnit
<1>3. CASE StopTimeout
  BY <1>1, <1>3, EndsKeeps DEF StopTimeout, IInv, TypeOK
<1>4. CASE StopWaitingUnit
  BY <1>4 DEF StopWaitingUnit, processVars, IInv, TypeOK, Running, Solo, PathIsOwn, Listens,
     DeviceOpen, TasksStarted, HandlersRun, OnlyAcceptErrorDegrades
<1>5. QED
  BY <1>2, <1>3, <1>4

--------------------------------------------------------------------------------
LEMMA InitInv == ASSUME Init PROVE IInv
<1>1. TypeOK
  <2>1. faults \in 0 .. MaxFaults /\ crashes \in 0 .. MaxCrashes
    BY LifecycleAssumption DEF Init
  <2>2. QED
    BY <2>1 DEF Init, TypeOK
<1>2. (/\ Solo /\ PathIsOwn /\ Listens /\ DeviceOpen /\ TasksStarted /\ HandlersRun
       /\ OnlyAcceptErrorDegrades)
  BY DEF Init, Solo, PathIsOwn, Listens, DeviceOpen, TasksStarted, HandlersRun,
     OnlyAcceptErrorDegrades
<1>3. QED
  BY <1>1, <1>2 DEF IInv

LEMMA NextInv == ASSUME IInv, [Next]_lifeVars PROVE IInv'
<1>1. CASE UNCHANGED lifeVars
  BY <1>1 DEF lifeVars, processVars, IInv, TypeOK, Running, Solo, PathIsOwn, Listens,
     DeviceOpen, TasksStarted, HandlersRun, OnlyAcceptErrorDegrades
<1>2. ASSUME NEW d \in Daemons, StartByHand(d) PROVE IInv'
  BY <1>2, BeginKeeps DEF StartByHand, IInv, TypeOK
<1>3. ASSUME NEW d \in Daemons, Step(d) PROVE IInv'
  BY <1>3, StartKeeps, PathKeeps, GiveUpKeeps, WayOutKeeps, ExitKeeps DEF Step
<1>4. ASSUME NEW d \in Daemons, OtherFaults(d) \/ Crash(d) PROVE IInv'
  BY <1>4, StartKeeps, GiveUpKeeps, WayOutKeeps, ExitKeeps DEF OtherFaults
<1>5. ASSUME NEW d \in Daemons, Terminate(d) PROVE IInv'
  BY <1>5, SignalledKeeps DEF Terminate, IInv, TypeOK
<1>6. CASE StopUnit
  BY <1>6, SignalledKeeps, LifecycleAssumption DEF StopUnit
<1>7. CASE StartUnit \/ RestartUnit \/ StopWaitingUnit \/ StopTimeout
  BY <1>7, UnitKeeps
<1>8. QED
  BY <1>1, <1>2, <1>3, <1>4, <1>5, <1>6, <1>7 DEF Next

(* The invariant holds in every state. *)
THEOREM Invariant == Spec => []IInv
BY InitInv, NextInv, PTL DEF Spec

(* Processes, the path and the service manager keep their types, within any *)
(* bounds on faults and crashes (main, start_controller, signal_handler).   *)
THEOREM TypeCorrect == Spec => []TypeOK
<1>1. IInv => TypeOK
  BY DEF IInv
<1>2. QED
  BY <1>1, Invariant, PTL

(* A daemon that accepts connections and never ran beside another one can   *)
(* be reached by the path: what earlier processes left there, and how they  *)
(* ended, does not matter (start_controller's access and unlink).           *)
THEOREM LoneDaemonIsReachable == Spec => []ServingIsReachable
<1>1. IInv => ServingIsReachable
  BY DEF IInv, TypeOK, PathIsOwn, Listens, ServingIsReachable
<1>2. QED
  BY <1>1, Invariant, PTL

(* Only a failing accept() leaves a listening socket behind that nobody     *)
(* serves, or makes main close the device under running tasks               *)
(* (start_controller's error paths, signal_handler, main).                  *)
THEOREM WaysOutAreClean == Spec => []OnlyAcceptErrorDegrades
<1>1. IInv => OnlyAcceptErrorDegrades
  BY DEF IInv
<1>2. QED
  BY <1>1, Invariant, PTL
================================================================================
