------------------------------- MODULE Lifecycle -------------------------------
(***************************************************************************)
(* The life of daemon processes: main (can_ipc_layer.cpp), start_controller *)
(* with each of its failures, the accept loop, the signal handler, the     *)
(* destructors that exit() runs, and the service manager that the package  *)
(* installs the daemon with (build_service_deb.sh).  Processes share one   *)
(* thing, the path of the socket.  One of them is the service; the others  *)
(* are started by hand, at any time.                                       *)
(*                                                                         *)
(* A process may crash or be killed at any step.  The system calls of the  *)
(* start may fail: by what other processes did to the path, or for reasons *)
(* outside the model, which are counted as faults.                         *)
(***************************************************************************)
EXTENDS Naturals, FiniteSets

CONSTANTS
  Daemons,    \* daemon processes
  Service,    \* the one the service manager runs
  None,       \* no file
  MaxFaults,  \* bound on the faults of the environment
  MaxCrashes  \* bound on crashes and kills

ASSUME LifecycleAssumption ==
  /\ Service \in Daemons
  /\ None \notin Daemons
  /\ MaxFaults \in Nat /\ MaxCrashes \in Nat

VARIABLES
  pc,       \* where each process is
  sock,     \* its _service_socket
  handlers, \* it has installed signal_handler
  tasks,    \* its receive task and callback task run
  dev,      \* its CAN device: none before canInit, then open until canDeInit
  file,     \* the process whose socket the path names; it may be gone
  unit,     \* the service manager's view of the service
  faults,   \* faults so far
  crashes,  \* crashes so far
  alone,    \* history: the processes that never shared time with another one
  left,     \* history: the processes whose accept_connections has returned
  excused   \* history: since the service last failed it met a fault or was told to stop

processVars == <<pc, sock, handlers, tasks, dev>>
lifeVars == <<processVars, file, unit, faults, crashes, alone, left, excused>>

Init ==
  /\ pc = [d \in Daemons |-> "off"]
  /\ sock = [d \in Daemons |-> "none"]
  /\ handlers = [d \in Daemons |-> FALSE]
  /\ tasks = [d \in Daemons |-> FALSE]
  /\ dev = [d \in Daemons |-> "none"]
  /\ file = None
  /\ unit = "inactive"
  /\ faults = 0
  /\ crashes = 0
  /\ alone = {}
  /\ left = {}
  /\ excused = FALSE

Running(d) == pc[d] # "off"

--------------------------------------------------------------------------------
(* main and start_controller *)

Goto(d, from, to) == pc[d] = from /\ pc' = [pc EXCEPT ![d] = to]

(* A system call of d fails for reasons outside the model. *)
Fault(d) ==
  /\ faults < MaxFaults
  /\ faults' = faults + 1
  /\ excused' = (excused \/ d = Service)

NoFault == UNCHANGED <<faults, excused>>

(* start_controller returns false, main closes the device and returns 0. *)
GiveUp(d, from) ==
  /\ Goto(d, from, "deinit")
  /\ sock' = [sock EXCEPT ![d] = "none"]
  /\ UNCHANGED <<handlers, tasks, dev, file, unit, crashes, alone, left>>

(* A new process: from here on it shares time with those that run. *)
Begin(d) ==
  /\ Goto(d, "off", "construct")
  /\ alone' = IF \E e \in Daemons : Running(e) THEN {} ELSE {d}
  /\ left' = left \ {d}
  /\ UNCHANGED <<sock, handlers, tasks, dev, file, faults, crashes>>

(* A process is started by hand. *)
StartByHand(d) == d # Service /\ Begin(d) /\ UNCHANGED <<unit, excused>>

(* getInstance: the constructors open the device.                           *)
Construct(d) ==
  /\ Goto(d, "construct", "access")
  /\ dev' = [dev EXCEPT ![d] = "open"]
  /\ NoFault
  /\ UNCHANGED <<sock, handlers, tasks, file, unit, crashes, alone, left>>

(* The configuration is not ready or canInit fails: that is logged only. *)
ConstructNoDevice(d) ==
  /\ Goto(d, "construct", "access")
  /\ Fault(d)
  /\ UNCHANGED <<sock, handlers, tasks, dev, file, unit, crashes, alone, left>>

(* A wrong Access, as a mutant: a file that is there is left there. *)
AccessOnly(d) ==
  /\ Goto(d, "access", "socket")
  /\ NoFault
  /\ UNCHANGED <<sock, handlers, tasks, dev, file, unit, crashes, alone, left>>

Access(d) ==
  /\ Goto(d, "access", IF file = None THEN "socket" ELSE "unlink")
  /\ NoFault
  /\ UNCHANGED <<sock, handlers, tasks, dev, file, unit, crashes, alone, left>>

(* Whose file it is does not matter. *)
Unlink(d) ==
  /\ file # None
  /\ Goto(d, "unlink", "socket")
  /\ file' = None
  /\ NoFault
  /\ UNCHANGED <<sock, handlers, tasks, dev, unit, crashes, alone, left>>

UnlinkFails(d) ==
  /\ GiveUp(d, "unlink")
  /\ IF file = None THEN NoFault ELSE Fault(d)

CreateSocket(d) ==
  /\ Goto(d, "socket", "bind")
  /\ sock' = [sock EXCEPT ![d] = "open"]
  /\ NoFault
  /\ UNCHANGED <<handlers, tasks, dev, file, unit, crashes, alone, left>>

CreateSocketFails(d) == GiveUp(d, "socket") /\ Fault(d)

Bind(d) ==
  /\ file = None
  /\ Goto(d, "bind", "listen")
  /\ file' = d
  /\ NoFault
  /\ UNCHANGED <<sock, handlers, tasks, dev, unit, crashes, alone, left>>

(* A path in use is not taken over. *)
BindFails(d) ==
  /\ GiveUp(d, "bind")
  /\ IF file # None THEN NoFault ELSE Fault(d)

(* A wrong Listen, as a mutant: the tasks are started here, before chmod. *)
ListenStartsTasks(d) ==
  /\ Goto(d, "listen", "chmod")
  /\ sock' = [sock EXCEPT ![d] = "listening"]
  /\ tasks' = [tasks EXCEPT ![d] = TRUE]
  /\ NoFault
  /\ UNCHANGED <<handlers, dev, file, unit, crashes, alone, left>>

Listen(d) ==
  /\ Goto(d, "listen", "chmod")
  /\ sock' = [sock EXCEPT ![d] = "listening"]
  /\ NoFault
  /\ UNCHANGED <<handlers, tasks, dev, file, unit, crashes, alone, left>>

(* A wrong ListenFails, as a mutant: the error is logged only. *)
ListenFailsIgnored(d) ==
  /\ Goto(d, "listen", "chmod")
  /\ Fault(d)
  /\ UNCHANGED <<sock, handlers, tasks, dev, file, unit, crashes, alone, left>>

ListenFails(d) == GiveUp(d, "listen") /\ Fault(d)

(* chmod works on the path, whosever it is. *)
Chmod(d) ==
  /\ file # None
  /\ Goto(d, "chmod", "signals")
  /\ NoFault
  /\ UNCHANGED <<sock, handlers, tasks, dev, file, unit, crashes, alone, left>>

ChmodFails(d) ==
  /\ GiveUp(d, "chmod")
  /\ IF file = None THEN NoFault ELSE Fault(d)

InstallHandlers(d) ==
  /\ Goto(d, "signals", "receiver")
  /\ handlers' = [handlers EXCEPT ![d] = TRUE]
  /\ NoFault
  /\ UNCHANGED <<sock, tasks, dev, file, unit, crashes, alone, left>>

StartReceiver(d) ==
  /\ Goto(d, "receiver", "accept")
  /\ tasks' = [tasks EXCEPT ![d] = TRUE]
  /\ NoFault
  /\ UNCHANGED <<sock, handlers, dev, file, unit, crashes, alone, left>>

(* accept() fails: the loop ends, and the socket stays open. *)
AcceptFails(d) ==
  /\ Goto(d, "accept", "deinit")
  /\ Fault(d)
  /\ left' = left \cup {d}
  /\ UNCHANGED <<sock, handlers, tasks, dev, file, unit, crashes, alone>>

(* main: the server thread has ended, the device is closed. *)
Deinit(d) ==
  /\ Goto(d, "deinit", "sleep")
  /\ dev' = [dev EXCEPT ![d] = "closed"]
  /\ NoFault
  /\ UNCHANGED <<sock, handlers, tasks, file, unit, crashes, alone, left>>

(* main has slept for a second and returns. *)
MainReturns(d) ==
  /\ Goto(d, "sleep", "exit")
  /\ NoFault
  /\ UNCHANGED <<sock, handlers, tasks, dev, file, unit, crashes, alone, left>>

--------------------------------------------------------------------------------
(* The end of a process *)

(* A wrong UnitAfter, as a mutant: a failure is final. *)
UnitAfterFailed(d, failure) ==
  IF d # Service THEN unit ELSE IF failure THEN "failed" ELSE "inactive"

(* Restart=on-failure: the service is started again after a failure that    *)
(* nobody asked for.                                                        *)
UnitAfter(d, failure) ==
  IF d # Service THEN unit
  ELSE IF unit = "active" /\ failure THEN "waiting" ELSE "inactive"

(* The kernel takes back what the process had; the path stays as it is. *)
Gone(d) ==
  /\ pc' = [pc EXCEPT ![d] = "off"]
  /\ sock' = [sock EXCEPT ![d] = "none"]
  /\ handlers' = [handlers EXCEPT ![d] = FALSE]
  /\ tasks' = [tasks EXCEPT ![d] = FALSE]
  /\ dev' = [dev EXCEPT ![d] = "none"]
  /\ alone' = alone \ {d}
  /\ left' = left \ {d}

Ends(d, failure) ==
  /\ Gone(d)
  /\ unit' = UnitAfter(d, failure)
  /\ excused' = (excused /\ (d # Service \/ unit' # "waiting"))

(* exit(0), by main's return or by signal_handler.  The destructors close   *)
(* the device and take away the condition variables that the detached tasks *)
(* wait for and the objects they use: with tasks around the process ends,   *)
(* crashes, or waits for them for ever.                                     *)
Exit(d) ==
  /\ pc[d] = "exit"
  /\ \E failure \in {FALSE, tasks[d]} : Ends(d, failure)
  /\ UNCHANGED <<file, faults, crashes>>

ExitHangs(d) ==
  /\ Goto(d, "exit", "hung")
  /\ tasks[d]
  /\ dev' = [dev EXCEPT ![d] = "closed"]
  /\ NoFault
  /\ UNCHANGED <<sock, handlers, tasks, file, unit, crashes, alone, left>>

(* copy_ipc_config_data throws: nobody catches it. *)
ConstructThrows(d) ==
  /\ pc[d] = "construct"
  /\ faults < MaxFaults
  /\ faults' = faults + 1
  /\ Ends(d, TRUE)
  /\ UNCHANGED <<file, crashes>>

(* A crash, or SIGKILL from outside. *)
Crash(d) ==
  /\ Running(d)
  /\ crashes < MaxCrashes
  /\ crashes' = crashes + 1
  /\ Ends(d, TRUE)
  /\ UNCHANGED <<file, faults>>

(* signal_handler: the socket is closed and the path removed, whosever it   *)
(* is, and exit() begins.  It may run in main's thread: then the server     *)
(* thread can still start the tasks before the process ends.                *)
Handle(d) ==
  /\ pc' = [pc EXCEPT ![d] = "exit"]
  /\ sock' = [sock EXCEPT ![d] = "none"]
  /\ \E started \in {tasks[d], tasks[d] \/ pc[d] = "receiver"} :
       tasks' = [tasks EXCEPT ![d] = started]
  /\ file' = None
  /\ excused' = (excused \/ d = Service)
  /\ UNCHANGED <<handlers, dev, faults, crashes, alone, left>>

(* SIGTERM or SIGINT.  Before the handlers are installed it ends the        *)
(* process at once, which counts as success.                                *)
Signalled(d, handledUnit) ==
  IF handlers[d]
  THEN Handle(d) /\ unit' = handledUnit
  ELSE /\ Gone(d)
       /\ unit' = UnitAfter(d, FALSE)
       /\ excused' = (excused \/ d = Service)
       /\ UNCHANGED <<file, faults, crashes>>

(* A person sends the signal. *)
Terminate(d) == Running(d) /\ Signalled(d, unit)

--------------------------------------------------------------------------------
(* The service manager *)

(* systemctl start, and the start of the system. *)
StartUnit ==
  /\ unit = "inactive" /\ Begin(Service)
  /\ unit' = "active"
  /\ UNCHANGED excused

(* RestartSec is over. *)
RestartUnit ==
  /\ unit = "waiting" /\ Begin(Service)
  /\ unit' = "active"
  /\ UNCHANGED excused

(* systemctl stop: SIGTERM to the process. *)
StopUnit ==
  /\ unit = "active"
  /\ Signalled(Service, "stopping")

(* It waits for RestartSec: there is nothing to end. *)
StopWaitingUnit ==
  /\ unit = "waiting"
  /\ unit' = "inactive" /\ excused' = TRUE
  /\ UNCHANGED <<processVars, file, faults, crashes, alone, left>>

(* TimeoutStopSec is over: SIGKILL. *)
StopTimeout ==
  /\ unit = "stopping"
  /\ Ends(Service, TRUE)
  /\ UNCHANGED <<file, faults, crashes>>

--------------------------------------------------------------------------------
(* What a process does by itself. *)
Step(d) ==
  \/ Construct(d) \/ Access(d) \/ Unlink(d) \/ CreateSocket(d) \/ Bind(d) \/ Listen(d)
  \/ Chmod(d) \/ InstallHandlers(d) \/ StartReceiver(d) \/ Deinit(d) \/ MainReturns(d)
  \/ Exit(d) \/ ExitHangs(d)
  \/ UnlinkFails(d) \/ BindFails(d) \/ ChmodFails(d)

OtherFaults(d) ==
  \/ ConstructNoDevice(d) \/ ConstructThrows(d) \/ CreateSocketFails(d) \/ ListenFails(d)
  \/ AcceptFails(d)

Next ==
  \/ \E d \in Daemons :
       StartByHand(d) \/ Step(d) \/ OtherFaults(d) \/ Crash(d) \/ Terminate(d)
  \/ StartUnit \/ RestartUnit \/ StopUnit \/ StopWaitingUnit \/ StopTimeout

Spec == Init /\ [][Next]_lifeVars

(* A process that can go on does, and RestartSec runs out. *)
FairSpec ==
  /\ Spec
  /\ \A d \in Daemons : WF_lifeVars(Step(d))
  /\ WF_lifeVars(RestartUnit)

--------------------------------------------------------------------------------
(* The type invariant. *)
TypeOK ==
  /\ pc \in [Daemons -> {"off", "construct", "access", "unlink", "socket", "bind", "listen",
                         "chmod", "signals", "receiver", "accept", "deinit", "sleep", "exit",
                         "hung"}]
  /\ sock \in [Daemons -> {"none", "open", "listening"}]
  /\ handlers \in [Daemons -> BOOLEAN]
  /\ tasks \in [Daemons -> BOOLEAN]
  /\ dev \in [Daemons -> {"none", "open", "closed"}]
  /\ file \in Daemons \cup {None}
  /\ unit \in {"inactive", "active", "stopping", "waiting"}
  /\ faults \in 0 .. MaxFaults /\ crashes \in 0 .. MaxCrashes
  /\ alone \subseteq Daemons /\ left \subseteq Daemons
  /\ excused \in BOOLEAN

(* A daemon that accepts connections can be reached by the path, unless     *)
(* another process was there at the same time: only that one can have taken *)
(* the path away (start_controller's unlink, signal_handler's unlink).      *)
ServingIsReachable ==
  \A d \in alone : pc[d] = "accept" => file = d /\ sock[d] = "listening"

(* Only an error of accept() leaves a daemon that is half alive: on every   *)
(* other way out no socket is open for connections nobody will serve, and   *)
(* main neither closes the device nor sleeps with it closed while the tasks *)
(* run (start_controller's error paths, signal_handler, main's join,        *)
(* deinit_can_dev and sleep).                                               *)
OnlyAcceptErrorDegrades ==
  \A d \in Daemons \ left :
    /\ pc[d] \in {"deinit", "sleep", "exit", "hung"} => sock[d] # "listening"
    /\ tasks[d] /\ dev[d] = "closed" => pc[d] \in {"exit", "hung"}

(* A crash of the service is repaired: it is started again and can be       *)
(* reached, whatever files it and others have left behind, unless a call    *)
(* fails, it is stopped, or another process is there (Restart=on-failure,   *)
(* and start_controller's removal of an existing file).                     *)
CrashIsRepaired ==
  unit = "waiting" ~> \/ pc[Service] = "accept" /\ file = Service
                      \/ excused
                      \/ Running(Service) /\ Service \notin alone
================================================================================
