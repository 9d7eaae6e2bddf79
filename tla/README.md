# A TLA+ model of the CAN IPC layer

The repository builds a daemon that lets several programs share one CAN port
of an RDK-S100 board (`README.md:7`). Programs connect to a Unix socket, send
frames, and add or remove *filters*: the CAN ids whose frames they want. This
directory holds TLA+ modules of the daemon, TLC configurations that check
them on small instances, and TLAPS proofs for every instance.

All paths below are relative to the repository root.

## 1. The system

### Components

| Component | State | Operations |
| --- | --- | --- |
| `WORK_QUEUE` (`src/utils/work_queue.*`) | `work_queue_`, `stop_`, `mutex_`, `condition_` | `enqueue`, `dequeue_blocking`, `dequeue_nonblocking`, `clear_queue`, `stop`, `size`, `is_queue_empty` |
| `CAN_IPC_RECEIVER`, tasks (`src/core/can_ipc_receiver.*`) | two running flags, two paused flags with a mutex and a condition variable each, the enabled ports | `start_can_ipc_receiver`, `receive_ipc_can_task`, `work_queue_task`, pause and resume |
| `CAN_IPC_RECEIVER`, receive pass | the batch, the loop counter, the pointer into the batch | `get_raw_can_data`, `match_can_filter` |
| `CAN_IPC_RECEIVER`, filter table | per port: `can_ipc_filter_id_map` (id to count), `can_ipc_filter_map` (id to callback) | `register_can_filter`, `deregister_can_filter` |
| `IPC_SOCKET_CONTROLLER`, client manager (`src/core/ipc_socket_controller.*`) | `socket_client_index` (descriptor to ids), `socket_client_reverse_index` (id to descriptors) | `client_manager_register`, `client_manager_deregister`, `update_socket_client_reserve_index`, `clean_socket_client_index`, `socket_receive_callback` |
| `IPC_SOCKET_CONTROLLER`, client handler | one thread and one descriptor per client | `handle_client`, `read_full` |
| `IPC_SOCKET_CONTROLLER`, life | `_is_running`, `_service_socket`, the socket file | `start_controller`, `accept_connections`, `stop`, `signal_handler` |
| Service unit (`build_service_deb.sh`) | what the service manager thinks of the service | start, stop with a timeout, restart on failure |
| `CAN_IPC_LAYER_IMPL` (`src/core/can_ipc_layer_impl.*`) | the handles of sender and receiver | port mapping, delegation, `init_can_dev`, `deinit_can_dev` |
| `CAN_IPC_SENDER` (`src/core/can_ipc_sender.*`) | none | `send_can_data` |
| Definitions (`include/can_ipc_layer/can_struct_define.h`) | none | `can_dlc_to_bytes`, `can_bytes_to_dlc`, the package |
| Test client (`debug/main.cpp`) | `cv_ready`, `socket_ack_order`, the connection | `socket_add_can_filter`, `socket_send_can_data`, `socket_remove_can_filter`, `receive_thread` |
| CAN HAL (`hobot_can_hal`, not in the repository) | channels | `canInit`, `canRecvMsgFrame`, `canSendMsgFrame`, `canDeInit` |

### Threads and how they interact

* The **main** thread starts a server thread, which sets the socket up, starts
  the receiver and accepts connections.
* The **receive task** passes a gate (it sleeps while paused), then for every
  enabled port reads one batch from the HAL, and puts one closure per matched
  frame into `WORK_QUEUE`.
* The **work task** passes its own gate, takes one closure and runs it: it calls
  `socket_receive_callback`, which looks the id up in the reverse index and
  writes the frame to every descriptor found there.
* One **client thread** per connection reads packages. For `ADD_FILTER` and
  `REMOVE_FILTER` it pauses both tasks, changes the client manager, changes the
  filter table, writes the acknowledgement, and resumes both tasks.

Daemon processes share one thing, the path of the socket: each one removes what
it finds there when it starts, and again when it is told to end. The packaged
daemon is run by the service manager, which restarts it after a failure.

`WORK_QUEUE` is the only structure with a lock. The filter table and the client
manager have none: the pause is what is meant to protect them.

### What is hard

* The pause sets flags and waits for nobody, and it does not count: with
  several clients the first to resume resumes for all.
* `enqueue` reads the size in one critical section and pushes in another;
  `notify_one` comes after both.
* The tables are keyed by descriptor, and descriptors are reused.
* One order changes three tables; some error paths change only part of them.
* A frame of length 0 stops the pointer into the batch but not the counter.
* Blocking calls (`canRecvMsgFrame`, `write` to a client that does not read)
  happen past the gate, inside a callback, or while the tasks are paused.
* The reverse index is rebuilt in place and the filter table changed entry by
  entry, without a lock, by the threads of all clients.
* `start_controller` has five calls that can fail, on a path that other processes
  use; the tasks are detached and nobody stops them before the objects they use
  are destroyed.

`PROJECT.json` lists these as hazards at their lines, with the properties that
watch them.

### What makes each part correct

* Queue: FIFO, nothing lost or doubled, bounded, no sleeper beside a task.
* Tasks: no pause without an owner, no lost resume, a pause that holds.
* Pass: bus order, at most once, it ends, and it visits all of the batch.
* Tables: the two maps of each pair agree; what a client asked for stays
  installed; what it did not ask for does not reach it; orders that overlap do
  each other no harm beyond the ids they share.
* Life: a daemon that accepts can be reached, its ways out leave nothing half
  alive, and a crash is repaired.
* Conversions: lengths survive the way from package to bus and back.

## 2. The modules

| Module | What it is |
| --- | --- |
| `BoundedFifo` | abstract: a bounded FIFO buffer that can be closed |
| `WorkQueue` | `WORK_QUEUE`, one action per critical section; implements `BoundedFifo` |
| `ReceiverTasks` | the two tasks, their gates, and clients that pause and resume them |
| `PubSub` | abstract: what a program receives changes with its own orders, by the ids they name, and with nobody else's |
| `Subscriptions` | client manager, filter table and connections, an order at a time; implements `PubSub` for clients that keep the rules, at ids where no two orders have met |
| `ReceivePass` | the pass over ports, batches and frames |
| `FramePath` | one frame's way from an order to the bus and from the bus to a program: conversions and ports |
| `Sessions` | whole sessions of client programs (`debug/main.cpp`) with the daemon's threads, over bounded sockets |
| `IndexRebuild` | the client manager access by access, under orders that overlap |
| `FilterTable` | the filter table access by access, under orders that overlap |
| `Lifecycle` | daemon processes from start to end, signals, crashes, and the service manager |
| `MC*` | instances for TLC: symmetry sets and definitions of constants |
| `*Proofs` | theorems and their TLAPS proofs |

The modules cut the daemon along its threads. `ReceiverTasks` keeps the
*control* of an order (where the client is between pause and resume) and counts
the tasks of the queue; `WorkQueue` is that queue in detail. `Subscriptions`
has the *data* of an order and takes an order as one step. What happens when
orders overlap with frames is what `ReceiverTasks` shows; what orders that overlap
do to each other is what `IndexRebuild` (client manager) and `FilterTable` (filter
table) show, at the grain of the single accesses. `Subscriptions` relies on
`FilterTable`: its orders are steps as far as ids are concerned that no two orders
change at once, and it stops following the filter table for any other id.
`ReceivePass` has the data of the receive task and `FramePath` the data of a frame.
`Sessions` is the composition: client programs, client threads and the callback
task, with each of the other modules reduced to what a program can notice of it
(the queue to a frame that may come out, the reverse index to one id's subscribers,
a change of the tables to the time it takes, a pause to its flag).
`Lifecycle` has what is around all of these: in it a process that serves clients
is one place, `"accept"`.

### WorkQueue

A section of `mutex_` touches only state under that mutex, so one section is
one action and the mutex has no variable. `EnqueueCheck`/`EnqueueFull` are the
call of `size()`, `EnqueuePush` the second section, `EnqueueNotify` the
`notify_one` after it. `condition_` is the set of consumers at `"waiting"`;
`notify_one` moves one of them to `"woken"`, and a woken consumer tests the
predicate again. Spurious wake-ups are included. `Stop` is the body of `stop()`,
which only the destructor calls. Closures are told apart and never enqueued
twice at the same time. `DequeueNonblocking` models only the case that returns
a task: the others change nothing.

### ReceiverTasks

`tpc` is where each task is in its loop, `paused` the two flags, `client` where
each client thread is in an order. Setting a flag takes no lock (`PauseReceive`,
`PauseWork`), clearing it and notifying are two steps (`ResumeWork`,
`NotifyWork`). Testing the flag and going to sleep is one step, because
`condition_variable::wait` releases the mutex and sleeps atomically and the
resume clears the flag under that mutex. That argument is only right because of
the lock in resume: pause stores without it. `broken` is not in the daemon: it
records whose pause another client's resume has ended, so that `PauseHolds` can
say exactly how far a pause can be relied on. While a client is at `"manager"`
(`"filter"`) it is changing the client manager (the filter table); a task at
`"callback"` (`"match"`) is reading it.

### Subscriptions

`fwd` and `rev` are the two indexes, `id_map` and `filter_map` the two maps of
port 5, which is the only table ever used because `lib_get_can_dev_port` answers
port 5 for every port. `peer` and `handler` are the two ends of a connection;
`accept()` returns the lowest free descriptor. `asked` is not in the daemon: it
is what each client could know, its adds minus its removes since it connected.
`CleanIndex` and `CloseFd` are two steps, as in the code. `manners`, chosen at the
start, says how the clients of a behaviour act:

* `"any"`: they remove ids they never added and send packages with another magic
  code;
* `"disciplined"`: they remove only what they have added, and may vanish without
  removing it;
* `"polite"`: they also remove everything before they hang up.

`RegisterFilter` and `DeregisterFilter` summarise a loop over the list by the
number of occurrences of each id, a list being a sequence in which an id may
repeat. An empty list is refused by the filter table but has by then changed
the client manager; the model keeps that.

In the code no lock protects these loops, and the thread of another connection may
be in one of them. `FilterTable` shows what comes of it: nothing, for an id that
the two orders do not share, and a lost filter or count for one that they do.
`Overlap` is such a meeting, at any time that two connections are served. From then
on the id is `raced`, the model does not say anything of its filter and count (a
frame with a raced id may be queued), and the properties about the filter table
are about the other ids. The client manager is followed all the same: what orders
that overlap do to it is `IndexRebuild`'s subject.

### ReceivePass

`i` is the loop counter, `cur` the pointer `single_canframe` as an index. A
frame carries the moment it was received (so that order can be stated), its id,
and whether its length is 0. Several ports can be enabled in the model as in
the code; the daemon itself enables port 5. Filters change at any time, also under
a visit, as a pause does not wait for a pass that is under way.

### FramePath

`frame` is the frame in the form it has at `at`: a `can_frame_t` with a data
length code in an order and in a package, a HAL frame with a number of bytes on
the bus. `SendCanData` and `GetRawCanData` are the two conversions, `CanIpcHandle`
and `CanDevPort` the two port mappings (sending honours the order's port,
receiving and filters always use port 5), `BSWAP_32` the reversal of an id, which
the HAL is taken to undo on the way to the bus because filters are compared with
ids as they come in. A payload is the number of its leading bytes that are the
sender's. `Echo` is a node that answers a frame with the same frame, so that both
conversions apply to one frame.

### Sessions

`main` and `recv` are the two threads of a program, `ready` and `acked` its
`cv_ready` and `socket_ack_order`; `thread` is its client thread, and `toDaemon`
and `toProgram` the two directions of its socket. A write to a full socket
blocks; the write of an ack and the write of a frame by the callback compete for
the same room.

An ADD or REMOVE order pauses both tasks and changes the index (`ReadOrder`), is
at `"change"` while the reverse index is cleared and filled and the filter table
changed, and ends with `EndChange`; then the ack is one step and the resume another.
The callback task and the other client threads go on meanwhile. During a change a
callback finds any of the subscribers or none, and the loop it is in may be cut
short (`CutShort`). When the last of the threads that overlapped has ended, every
known program is in the reverse index, and if another thread has changed the index
during a change (`mixed`), any of the entries that were there may be there still:
this is `NothingIsLost` and the stale entries of `IndexRebuild`. Whether the filter
is installed, and what waits in the queue, is left open: a frame may come out of
the queue at any time (`Callback`), or never.

`DaemonEnds` is a signal or a crash at any
moment: orders not yet read are lost, and leave an error pending on the program's
socket (`reset`). If a read meets it the program ends; a write of the main thread
that fails may take it first. Without it the program sees end of file, which
`receive_thread` does not notice. `Vanish` kills a program of `Fragile` anywhere
in its session: its orders are still read, or lost with the same kind of error
if it left packages unread; `Disconnect` then cleans the index (`known`) and leaves
the reverse index (`subscribers`) as it is.
`onBus` is not in the daemon: it counts the frames handed to the HAL.

### IndexRebuild

A thread is named by the descriptor it serves, which is also the key of its
entry. `Register` and `Deregister` change that entry and enter the manager;
`Clear`, `Visit`, `Insert` and `Finish` are `update_socket_client_reserve_index`:
the clear, one turn of the outer loop, one turn of the inner loop, the end.
`Disconnect` erases the entry and rebuilds nothing. `todo` is what the walk over
the index has in front of it. A walk may or may not come to an entry that was
inserted behind its back, since an `unordered_map` has no order; an erased entry is
not visited. These are the outcomes of the race that the containers survive. The
C++ standard promises none of them: a run of the daemon may also crash there.
`met`, `whole` and `gone` are not in the daemon: they record which orders
overlapped, whether the last one to end did, and who has disconnected since the
index was last cleared.

### FilterTable

The threads are those of `IndexRebuild`, now in `register_can_filter` or
`deregister_can_filter`. `Install` and `CountNew` are the two `emplace`s, each in a
loop of its own; `CountAgain` and `Raise` are the two halves of `+= 1`, `LowerLoad`
and `LowerStore` those of `-= 1`; `TestZero`, `FindFilter`, `EraseFilter` and
`DropCount` are the test of the count, the search for the filter, and the two
erases. `hand` is the id whose entry a thread points to. An entry that is erased
while others point to it makes them `stale`: they read anything and store nothing,
unless a new entry is at that place. A count is an `int`; the model takes it modulo
`Width`, so that `-1`, which two decrements of a 1 can leave, is `Width - 1`. The ids
of an order are taken in any order and each once: a list that repeats an id is
`Subscriptions`' subject. `named` and `op` are the order a thread works on. `lost`,
`clash` and `due` are not in the daemon: the ids at which two orders have met, those
at which an order has met a REMOVE, and what the count would be had the orders come
one after the other.

### Lifecycle

`pc` is where a process is: in the constructors, at a call of `start_controller`,
in the accept loop, in `main` after it (`"deinit"`, then `"sleep"` for the second it
sleeps with the device closed), in `exit()`, or hanging there.
Each call of `start_controller` is an action and its failure another. A failure has
a reason in the model (`unlink` and `chmod` fail without a file, `bind` fails with
one), or is a fault, and faults are counted. `file` is the process whose socket the
path names, which may be gone. `Handle` is `signal_handler`; before it is installed
SIGTERM ends the process at once. `Exit` and `ExitHangs` are what `exit()` does:
`~CAN_IPC_RECEIVER` and `~WORK_QUEUE` destroy condition variables that the detached
tasks wait for, and destroying one that somebody waits for is undefined: the
process ends, crashes, or waits for ever, and the model has all three.

`unit` is the service manager's view: `"waiting"` is between a failure and the
restart (`RestartSec`), `"stopping"` between SIGTERM and SIGKILL
(`TimeoutStopSec`). A start that fails is no failure to it, because `main` returns
0. `alone`, `left` and `excused` are not in the daemon: the processes that never
ran beside another one, those whose accept loop has failed, and whether the
service, since its last failure, met a fault or was told to stop.

`_is_running` has no variable: `stop()`, which would clear it and interrupt the
loop, is called only by `stop_test_thread`, and that call is commented out in
`main`; `signal_handler` clears it and ends the process.

## 3. The runs

| Run | Instance | What it shows |
| --- | --- | --- |
| `workqueue` | 2 producers, 2 consumers, 4 tasks, limit 2 | the limit is overshot by at most one; no lost wake-up; the queue implements `BoundedFifo`; every accepted task is taken, unless cleared or stopped |
| `workqueue_stop` | 1 producer, 1 consumer | *violation*: `stop()` leaves a consumer asleep |
| `tasks` | 3 clients, limit 2 | no pause without an owner; no sleeper without a notification to come; a paused task starts no pass unless another client resumed it |
| `tasks_stopped` | 1 client | *violation*: a task past its gate runs on while the tables change |
| `subs` | 2 clients, 2 descriptors, 2 ids, lists up to 2, all manners | the indexes agree whatever clients do; at ids where no two orders have met, a registered client's filters stay installed while clients are disciplined, and counts are exact and the tables publish/subscribe while they are polite |
| `subs_reused_fd` | 2 clients, 1 id, disciplined | *violation*: a reused descriptor receives a stranger's frames |
| `pass` | 2 ports, batches up to 3, limit 2, 5 frames | bus order, at most once, the visit stays on its prefix, every pass ends |
| `pass_every_frame` | one batch of 2 | *violation*: an empty frame hides the rest of its batch |
| `framepath` | 2 ids, 2 orders' ports, all CAN FD lengths and their neighbours, 3 other dlc values | an echoed frame comes back as it was sent; no byte is lost; only asked ids are delivered |
| `sessions` | 2 programs, one of which may be killed, 1 SEND each, sockets of 1 package | every ack taken is for the last order; an acked program is in the reverse index whenever nobody is changing it, however orders overlap; no ack is slept over; no circle of blocked writes keeps a session from ending; a program whose orders the daemon left unread notices |
| `lifecycle` | the service and a daemon started by hand, 1 fault, 2 crashes | a daemon that never ran beside another one can be reached while it accepts; only an error of `accept()` leaves a process half alive, or `main` asleep with the device closed under running tasks; a crash of the service is repaired whatever files are left |
| `orders` | 2 connections, 2 ids, counts below 4 | client manager: after orders that overlapped no subscription is missing from the reverse index, and one order that overlaps with none makes it exact; filter table: ids that no two orders change at once are exact, and an ADD that no REMOVE meets leaves its ids counted and installed |

### Bounds

* `MaxTasks` is 10000 in the code. The queue's behaviour changes only at empty,
  at the limit and one beyond it per extra producer; a limit of 1 or 2 reaches
  all of these. The proofs hold for every limit.
* Threads: two producers are needed for the overshoot, two consumers for a
  notification that goes to the wrong one, two clients for a resume under
  another's pause; `tasks` has a third so that a pause and a resume race beside
  a third owner.
* `MaxIds` is any number in the code: `can_filter_id` has 32 places, but nothing
  compares `can_filter_cnt` with that, and a longer order takes the ids past the
  array from whatever is there. Two places allow a repeated id, the only thing a
  list can do that a set cannot. The proofs hold for any `MaxIds`.
* `MaxCount` bounds counts and ledgers; 3 is one client naming an id twice beside
  another that wants it once. The properties compare counts with 0 and with the
  clients' ledgers, which run out together.
* `MaxBatch` is 200 in the code. Three frames give an empty frame in front,
  between and behind others. `MaxFrames` bounds what is received in all.
* `FramePath`: the two ids are each other's reversal, so that an id that comes
  back in the wrong byte order would still find a filter and be seen. Port values
  are one other than port 5 and one that is no port. Besides the values of
  `can_bytes_to_dlc`, programs use a dlc below their payload, the first one past
  CAN FD and the last `uint8_t`.
* `Sessions`: one package per direction makes every write block at some time,
  and two programs are what it takes for one to end the other's pause or to
  remove a filter beside it. All programs want the same id, as `debug/main.cpp`
  does. One program may be killed (`Fragile`); the other is the one whose session
  must not suffer. The proofs hold for any number of programs, sends and places,
  all of which may be killed.
* `Lifecycle`: two processes are what it takes to lose a path to another one. One
  fault reaches every error path (each ends the start); two crashes are one for
  the service and one for the other daemon or for the restarted service. The
  proofs hold for any number of each.
* `orders`: two threads overlap in every way, and with two ids an entry is
  inserted in two steps and can be removed in part, and one order can meet another
  at one of its ids only. The client manager and the filter table share no state,
  so a behaviour of `MCOrders` is about one of the two, chosen at its start. `Width`
  is 2^32 in the code; 4 is enough for a count to be lowered below zero and to come
  round, where the history gives the id up. The proofs hold for any number of
  connections and ids and for any `Width` above 1.
* Deadlock is checked in every run but two. In `subs` orphaned descriptors (see
  `BadMagic`) can use up all there are: then nobody can connect, and the system
  does stop, as the code does. In `sessions` it stops when all
  programs have ended, or wait in vain for a daemon that has.

Symmetry (clients and ids) is used in `subs` and `subs_reused_fd`, which check no
liveness: programs and ids are compared for equality and never ordered.
Descriptors are ordered there (the lowest is handed out) and are not symmetric; in
`orders` they are keys only, and are.

### Fairness

* `WorkQueue`: a producer that is inside `enqueue` finishes, a consumer that is
  awake takes its turn, `stop()` goes on to its notification. These are threads
  that hold no lock across a step; nobody is obliged to call `enqueue`, and no
  fairness is assumed of spurious wake-ups or of `clear_queue`.
* `ReceiverTasks` has no liveness: a client that does not read may block the
  callback for ever. Its properties say that a task asleep at its gate has a client
  that will notify it.
* `ReceivePass`: the receive task runs on, and `canRecvMsgFrame` returns; the
  channel's configuration gives it a receive timeout
  (`config/ipcf_can_channel.json`).
* `Sessions`: weak fairness of each thread of each program and of the daemon.
  The ack gets strong fairness: it waits for room in a socket which the callback
  may fill again each time (another client's resume can end the pause that keeps
  the callback away), so its write is enabled again and again and not for good.
  The kernel wakes every writer that waits for room. Nothing is assumed of
  `DaemonEnds`, of `Vanish`, of frames coming in or of spurious wake-ups. Programs
  are assumed to read on; nothing in the daemon makes them. `FramePath`,
  `Subscriptions`, `IndexRebuild` and `FilterTable` have no liveness.
* `Lifecycle`: weak fairness of what each process does by itself, as a whole, and
  of the service manager's restart. A call that may succeed or fail does one
  of the two. Nothing is assumed of people, of faults or of crashes. A process
  whose `exit()` hangs is not assumed to get on.

## 4. What is proved

The theorems hold for every value of the constants allowed by the named
assumptions (finite sets of threads, a limit of at least 1, and so on), which
TLC also evaluates in the runs.

| Module | Theorems | Inductive invariant |
| --- | --- | --- |
| `WorkQueueProofs` | `TypeCorrect`, `QueueBounded`, `SingleProducerKeepsLimit`, `WakeupsNotLost`, `QueueImplementsFifo` | Type correctness; a producer about to push carries a task; a consumer that runs, and only one that runs, holds a task; the queue is at most as long as the limit plus the producers between check and push allow; and while a consumer sleeps, tasks are covered by notifications to come and by consumers awake. The bound needs the number of producers between the two sections: without it an enqueue that was checked long ago could still push. |
| `ReceiverTasksProofs` | `TypeCorrect`, `PauseHasOwner`, `ResumesNotLost`, `PausesHold`, `SingleClientUnbroken` | A flag that is set has a client that will clear it, or a task that has not been created; a sleeping task has its flag set or a client about to notify it. For `PausesHold`: a client that holds a task finds its flag set or its pause in `broken`, and no client runs before both tasks are created. |
| `SubscriptionsProofs`, any clients | `TypeCorrect`, `IndexesStayInAgreement` | `IInv`: both together with the agreement of the two filter maps, at ids that are not raced, are inductive. Erasing needs the id to be in both maps, which that agreement gives; rebuilding establishes the agreement of the indexes; cleaning only shrinks the index. |
| `SubscriptionsProofs`, disciplined clients | `FiltersStayInstalled`, `CountsNeverTooLow` | `RInv` adds `Ruled` and `Covered`, see below. |
| `SubscriptionsProofs`, polite clients | `CountsStayExact`, `NothingLeftBehind`, `OnlyAskersServed`, `SubscriptionsImplementPubSub` | `PInv` adds `Settled`, see below. |
| `ReceivePassProofs` | `TypeCorrect`, `FramesKeepBusOrder`, `VisitStopsAtEmpty`, `QueuedFramesHaveData`, `PassesAreBounded` | `Stamped` (frames of a batch are stamped in order and not later than the last one heard) added to the invariants of the runs: it makes what is queued older than any batch to come. `PassesAreBounded` has a measure, `StepsLeft`, which every step of the pass lowers. |
| `FramePathProofs` | `BswapInvolution`, `BytesToDlcTight`, `DlcRoundTrip`, `TypeCorrect`, `EchoesAreFaithful`, `NoByteIsLost`, `DeliveredIdsAreAsked` | How the frame in each form relates to the frame as it set out, from the three facts about the conversions, which hold for all their arguments. |
| `SessionsProofs` | `TypeCorrect`, `AcksMatchOrders`, `SubscriptionsLast`, `NoLostWakeup`, `SendsAreDone` | The ADD or REMOVE order a program waits for is a token: unread in the socket, in service, on its way back as an ack, or here in `cv_ready`. It is in one place at a time, it is the program's last order everywhere, and it is nowhere while the program does not wait (`Token`, `OneToken`, `Progress`). `Served` ties the token to the index and `Indexed` the index to the reverse index, where a killed program's entry may stay; SEND orders in the socket and frames on the bus add up to the orders sent. |
| `OrdersProofs`, client manager | `TypeCorrect`, `SubscriptionsSurviveOverlap`, `RebuildRepairs` | `Covered`: unless some order has still to clear, every subscription is in the reverse index or in front of some walk. It needs no history: an order that changes the index has yet to clear, and the walk after a clear has all of the index in front of it. For the repair, `Alone` (a thread that has met nobody is alone in the manager) and `Walk` (what its walk has inserted, holds and will visit is what the index says). |
| `OrdersProofs`, filter table | `FilterTypeCorrect`, `UnracedStaysExact`, `AddedIsInstalled` | `FInv`: who points to an erased entry is at an id where orders have met (`Shape`, `Fresh`, `Apart`); an ADD that has passed an id unmet by a REMOVE has left its filter, then its count (`Added`); at an id where no orders have met, the count is `due`, or what the one thread at work on it has made of it so far (`Follow`). |
| `LifecycleProofs` | `TypeCorrect`, `LoneDaemonIsReachable`, `WaysOutAreClean` | `Solo` (who never ran beside another process is the only one), `PathIsOwn` (from its bind on, such a process owns the path), `Listens`, `DeviceOpen` (only a process on its way out has closed the device), `TasksStarted` (tasks run from the accept loop on, and under `main`'s way out only when the loop was left) and `HandlersRun` (a signal is handled by a process). |

**Reference counts.** All that follows is about ids at which no two orders have
met. That a wanted filter stays installed is not inductive: a
count says how many, not whose. `SubscriptionsProofs` makes the owners
visible. `Owners(i)` is a set of places `<<descriptor, number>>`: as many for a
descriptor as the ledger of the program at its other end says, and one for a
descriptor whose program is gone while the index still has the id. `Covered`
says that the count of `i` is at least the number of these places. An order adds
or takes off a block of consecutive places of one descriptor, exactly as many as
the occurrences of `i` in its list, and the count moves by the same number; a
connection that comes or goes only gives places up. Removing is safe because a
disciplined client removes no more than its block. `Ruled` is what makes the
places the right ones: a program has one descriptor (`OnePeer`), descriptors and
entries of the index belong to serving threads, so a reused descriptor starts
without an entry (`Placed`), the index has only ids that were asked for (`Wanted`),
and ledgers keep to the bound (`AtMost`). An entry of the index then holds a place,
so its count is not 0, and the agreement of the two filter maps gives the filter.

For polite clients the same argument with the programs' ledgers in place of the
owners gives equality (`Exact`), because nobody takes a non-empty ledger away
(`Cleared`); and the reverse index has no entry the index does not have (`NoStale`),
though a disconnection does not rebuild it: by then there is nothing to take out.
So what a program receives is what the index has for its descriptor
(`ReceivedIsEntries`), and each action is a `Subscribe`, an `Unsubscribe` or a
stuttering step of `PubSub`.

**A bound in place of liveness.** `EveryPassEnds` needs fairness and stays with
TLC. Its safety half is `PassesAreBounded`: a pass is back at its gate within
`5 * (MaxBatch + 2)` of its own steps, for every batch size, whatever is in the
batches. `SingleProducerKeepsLimit` is what lets `ReceiverTasks`, `ReceivePass` and
`Sessions` take the queue as a counter that never exceeds the limit.

The invariant of `SessionsProofs` speaks of one program at a time; `SameSession`
shows that it depends on that program's part of the state only, so each step is
proved for the program that takes it. Proofs are laid out with a lemma per action or
group of actions, and the temporal step last.

Only model-checked: liveness (`EveryTaskLeaves`, `EveryPassEnds`, `SessionsEnd`,
`CrashIsRepaired`), which is outside the reach of the
prover. Every invariant, action property and refinement of the passing runs is
also a theorem.

## 5. Findings

* **`stop()` does not release a waiting consumer.** The wait predicate is the
  queue not being empty (`src/utils/work_queue.cpp:49`); the branch for a
  stopped queue is behind it.
* **"stop receiver first" does not stop it** (`src/core/ipc_socket_controller.cpp:304`).
  A callback can walk the reverse index while a client rebuilds it, and a frame
  can be looked up while the filter table changes: both are unsynchronised
  accesses to `std::unordered_map`.
* **A stale reverse index serves strangers.** On disconnection only the index
  is cleaned; the reverse index keeps the descriptor, which the next connection
  gets. It lasts until some client's order rebuilds the reverse index.
* **A frame with length 0 loses the rest of its batch**
  (`src/core/can_ipc_receiver.cpp:254`): `continue` skips the increment of the
  pointer.

Worth knowing, and not checked as disagreements with a text of the repository:

* `lib_get_can_dev_port` answers port 5 for every `can_port`: a filter order for
  another port is acknowledged and delivers the frames of port 5
  (`OnlyAskedIds` is stated accordingly).
* At end of file `read()` returns 0, which the test client takes for a package
  without an order (`debug/main.cpp:185`): after a daemon that ended with nothing
  unread, it waits for ever. So it does if a failing write of its main thread has
  taken the error that its read would have reported. `SessionsEnd` names exactly
  this exception.
* `SubscribedIsInstalled` fails for clients that remove ids they never added (the
  filter table does not know owners), and counts of clients that vanish stay for
  ever, so their ids keep being queued for nobody.
* Two orders that change the same id at the same time can lose its filter, though
  both clients remove only what they have added and both are acknowledged
  (`src/core/can_ipc_receiver.cpp`). *Counted but not installed*: an ADD finds the
  filter there (119), a REMOVE of the last count erases filter and count (174-177),
  the ADD then enters a count of 1 (124). *Count lost*: a REMOVE sees the count at
  0 (169-170), an ADD raises it to 1 (129), the REMOVE erases both. Two updates of a
  count (129, 166) can also lose one of them, and two decrements of a 1 leave -1.
  `FilterTable` has all of these; `UnracedIsExact` and `AddInstalls` say where they
  cannot happen, and `SubscribedIsInstalled`, `CountsAreExact` and `ImplementsPubSub`
  are stated for ids to which they have not.
* Orders that overlap can leave ids in the reverse index that were removed; they
  stay until the next order (`OneOrderRepairs` says when).
* A second daemon takes the path from a running one, and its end removes the path
  from under whoever owns it then: who has lost it goes on accepting on a socket
  nobody can reach. `ServingIsReachable` is stated for processes that never ran beside
  another one.
* An error of `accept()`, for instance when descriptors have run out, closes the
  device and makes `main` return 0: the service manager does not
  restart it. The same goes for any start that fails; `CrashIsRepaired` excuses
  services that met a fault for this reason.
* With an idle queue the callback task waits on a condition variable that `exit()`
  destroys: a stop may take the full `TimeoutStopSec`, and a daemon started by
  hand may never end.
* An order whose `can_filter_cnt` is above 32 makes the daemon read ids past
  `can_filter_id` (`src/core/ipc_socket_controller.cpp:310`).

## 6. What is not modelled

* The outcomes of a race on a container that the container does not survive, as
  more than a crash. What a callback sees that reads the reverse index during a
  rebuild is any part of it (`Sessions`), as the containers would survive it.
* Some steps are coarser than single accesses. In `IndexRebuild` an order inserts
  or erases all its ids in its entry at once, and a walk reads an entry at once
  before it inserts its ids one by one: an order of one thread changes only its own
  entry, so what is left out is a walk that sees part of such a change, and the
  order's own rebuild comes after that. In `FilterTable` an entry is found and its
  count read for the first time in one step, so an entry that is erased just between
  the two gives its last count and not any number.
* In `Subscriptions` the filter and count of an id at which two orders have met, and
  in `Sessions` the filter table and the queue.
* What is in a payload: only how many of its bytes are the sender's.
* A SIGPIPE: a write to a connection without a peer returns an error for this
  kind of socket, and the daemon goes on.
* `stop()` and `stop_test_thread`: nobody calls them. `can_dev_ref_count`: there
  is one instance, so it is 0 or 1 and follows the device.
* What `copy_ipc_config_data` does to the file system (in `Lifecycle` it succeeds,
  answers false or throws), logging, build scripts, and the
  empty thread pool and shell client files: no protocol in them.

## 7. Plan

In this order:

1. `WorkQueue`, `ReceiverTasks`, `Subscriptions`, `ReceivePass`, `FramePath`,
   `Sessions`, `IndexRebuild`, `FilterTable` and `Lifecycle` with their proofs (done).
2. The reference counts and the refinement of `PubSub` (done).
3. What the reverse index can have in excess after orders that overlapped
   (`IndexRebuild`), as an invariant with its proof; a measure for the walk of a
   rebuild, like the one of a pass.
4. Sessions of programs that want different ids, so that `Subscriptions` and
   `Sessions` meet in one run.
