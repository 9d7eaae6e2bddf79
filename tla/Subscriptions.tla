----------------------------- MODULE Subscriptions -----------------------------
(***************************************************************************)
(* The tables behind ADD_FILTER and REMOVE_FILTER: the client manager of   *)
(* IPC_SOCKET_CONTROLLER (which connection wants which CAN id, and the     *)
(* reverse index the callback reads) and the filter table of               *)
(* CAN_IPC_RECEIVER (reference counts and installed filters of port 5, the *)
(* one port lib_get_can_dev_port ever names), together with the life of    *)
(* the connections they are keyed by.                                      *)
(*                                                                         *)
(* The tables are keyed by file descriptor, and accept() hands out the     *)
(* lowest free descriptor, so a descriptor comes back with another client. *)
(*                                                                         *)
(* One order of one client is one action.  What overlapping orders do to   *)
(* the client manager is the subject of module IndexRebuild, and what they *)
(* do to the filter table that of FilterTable: it shows that the changes   *)
(* of an id by several threads come one after the other unless two threads *)
(* change it at the same time, and that then counts and filters are lost.  *)
(* Such an id is raced here, from that time on, and the table is not       *)
(* followed for it any more.  Orders and frames that overlap are the       *)
(* subject of ReceiverTasks.                                               *)
(***************************************************************************)
EXTENDS Naturals, Sequences, FiniteSets

CONSTANTS
  Clients,     \* programs
  None,        \* no program at the other end
  Fds,         \* descriptors accept() can return, numbers
  Id,          \* CAN ids
  MaxIds,      \* bound on can_filter_cnt of an order
  MaxCount,    \* bound on the counts, to keep the model finite
  Manners      \* how the clients behave, see manners

ASSUME SubscriptionsAssumption ==
  /\ None \notin Clients
  /\ Fds \subseteq Nat
  /\ MaxIds \in Nat /\ MaxCount \in Nat
  /\ Manners \subseteq {"any", "disciplined", "polite"}

VARIABLES
  handler,     \* what the handle_client thread of each descriptor does
  peer,        \* the program at the other end of each open descriptor
  fwd,         \* socket_client_index: descriptor -> ids
  rev,         \* socket_client_reverse_index: id -> descriptors
  id_map,      \* can_ipc_filter_id_map: id -> count
  filter_map,  \* the keys of can_ipc_filter_map (every value is the same callback)
  raced,       \* ids two threads have changed at the same time: not in the two maps above
  asked,       \* the clients' own ledgers: adds minus removes since they connected
  manners      \* how the clients behave, chosen at the start

subVars == <<handler, peer, fwd, rev, id_map, filter_map, raced, asked, manners>>

(* Clients send packages the daemon understands and remove only what they   *)
(* have added; polite ones remove it all before they hang up.               *)
Disciplined == manners # "any"
Polite == manners = "polite"

(* The id lists an order can carry.  The daemon never compares              *)
(* can_filter_cnt with the 32 places of can_filter_id: of an order that     *)
(* counts more, the ids past the array are whatever is there, so a longer   *)
(* list, and nothing here depends on MaxIds.                                *)
Lists == UNION {[1 .. n -> Id] : n \in 0 .. MaxIds}

IdsOf(list) == {list[n] : n \in DOMAIN list}

Occurrences(list, i) == Cardinality({n \in DOMAIN list : list[n] = i})

Connected(c) == \E fd \in Fds : peer[fd] = c

Init ==
  /\ handler = [fd \in Fds |-> "closed"]
  /\ peer = [fd \in Fds |-> None]
  /\ fwd = [fd \in {} |-> {}]
  /\ rev = [i \in {} |-> {}]
  /\ id_map = [i \in {} |-> 0]
  /\ filter_map = {}
  /\ raced = {}
  /\ asked = [c \in Clients |-> [i \in Id |-> 0]]
  /\ manners \in Manners

--------------------------------------------------------------------------------
(* The client manager, as functions from the old index to the new *)

(* update_socket_client_reserve_index: clear and rebuild. *)
ReverseOf(index) ==
  [i \in UNION {index[fd] : fd \in DOMAIN index} |->
     {fd \in DOMAIN index : i \in index[fd]}]

(* clean_socket_client_index *)
Clean(index, fd) == [g \in DOMAIN index \ {fd} |-> index[g]]

(* client_manager_register: operator[] creates the entry, even when the     *)
(* list is empty.                                                           *)
ManagerAdd(index, fd, list) ==
  [g \in DOMAIN index \cup {fd} |->
     IF g # fd THEN index[g]
     ELSE IdsOf(list) \cup (IF fd \in DOMAIN index THEN index[fd] ELSE {})]

(* client_manager_deregister, for a descriptor that has an entry. *)
ManagerRemove(index, fd, list) ==
  LET left == index[fd] \ IdsOf(list)
  IN  IF left = {} THEN Clean(index, fd) ELSE [index EXCEPT ![fd] = left]

--------------------------------------------------------------------------------
(* The filter table *)

CountOf(i) == IF i \in DOMAIN id_map THEN id_map[i] ELSE 0

(* The ids of an order that the table is followed for. *)
Followed(list) == IdsOf(list) \ raced

(* A wrong RegisterFilter, as a mutant: an id already counted is counted    *)
(* once more however often the list names it.                               *)
RegisterFilterOnce(list) ==
  /\ filter_map' = filter_map \cup Followed(list)
  /\ id_map' = [i \in DOMAIN id_map \cup Followed(list) |->
                  CountOf(i) + (IF i \in IdsOf(list) THEN 1 ELSE 0)]

(* A wrong RegisterFilter, as a mutant: an id that is counted already is    *)
(* not counted again.                                                       *)
RegisterFilterFirstOnly(list) ==
  /\ filter_map' = filter_map \cup Followed(list)
  /\ id_map' = [i \in DOMAIN id_map \cup Followed(list) |->
                  IF i \in DOMAIN id_map THEN id_map[i] ELSE 1]

(* register_can_filter: one count per occurrence; an empty list is refused. *)
RegisterFilter(list) ==
  /\ filter_map' = filter_map \cup Followed(list)
  /\ id_map' = [i \in DOMAIN id_map \cup Followed(list) |->
                  CountOf(i) + Occurrences(list, i)]

(* A wrong DeregisterFilter, as a mutant: a count is lowered without        *)
(* looking whether it is zero already.                                      *)
DeregisterFilterNoGuard(list) ==
  LET lowered == [i \in DOMAIN id_map |-> id_map[i] - Occurrences(list, i)]
      erased == {i \in filter_map \cap DOMAIN id_map \cap IdsOf(list) : lowered[i] = 0}
  IN  /\ id_map' = [i \in DOMAIN id_map \ erased |-> lowered[i]]
      /\ filter_map' = filter_map \ erased

(* deregister_can_filter: each occurrence lowers a count that is not zero;  *)
(* an id whose count is then zero is erased from both maps, if the filter   *)
(* map has it.                                                              *)
DeregisterFilter(list) ==
  LET lowered == [i \in DOMAIN id_map |->
                    IF Occurrences(list, i) >= id_map[i] THEN 0
                    ELSE id_map[i] - Occurrences(list, i)]
      erased == {i \in filter_map \cap DOMAIN id_map \cap IdsOf(list) : lowered[i] = 0}
  IN  /\ id_map' = [i \in DOMAIN id_map \ erased |-> lowered[i]]
      /\ filter_map' = filter_map \ erased

(* The orders of two connections change id i at the same time. *)
Overlap(i) ==
  /\ i \notin raced
  /\ \E f, g \in Fds : f # g /\ handler[f] = "serving" /\ handler[g] = "serving"
  /\ raced' = raced \cup {i}
  /\ id_map' = [j \in DOMAIN id_map \ {i} |-> id_map[j]]
  /\ filter_map' = filter_map \ {i}
  /\ UNCHANGED <<handler, peer, fwd, rev, asked, manners>>

--------------------------------------------------------------------------------
(* Connections and orders *)

Free == {fd \in Fds : handler[fd] = "closed"}

(* accept() returns the lowest free descriptor and handle_client starts.    *)
Connect(c, fd) ==
  /\ ~Connected(c)
  /\ fd \in Free /\ \A g \in Free : fd <= g
  /\ handler' = [handler EXCEPT ![fd] = "serving"]
  /\ peer' = [peer EXCEPT ![fd] = c]
  /\ asked' = [asked EXCEPT ![c] = [i \in Id |-> 0]]
  /\ UNCHANGED <<fwd, rev, id_map, filter_map, raced, manners>>

(* handle_client has read an order of client c from fd. *)
Orders(c, fd) == handler[fd] = "serving" /\ peer[fd] = c

(* The bound on the counts and on the clients' ledgers. *)
Bounded(c, list) ==
  \A i \in Id : /\ CountOf(i) + Occurrences(list, i) <= MaxCount
               /\ asked[c][i] + Occurrences(list, i) <= MaxCount

(* A wrong AddFilter, as a mutant: the reverse index is not rebuilt. *)
AddFilterNoRebuild(c, fd, list) ==
  /\ Orders(c, fd)
  /\ Bounded(c, list)
  /\ fwd' = ManagerAdd(fwd, fd, list)
  /\ RegisterFilter(list)
  /\ asked' = [asked EXCEPT ![c] = [i \in Id |-> @[i] + Occurrences(list, i)]]
  /\ UNCHANGED <<handler, peer, rev, raced, manners>>

AddFilter(c, fd, list) ==
  /\ Orders(c, fd)
  /\ Bounded(c, list)
  /\ fwd' = ManagerAdd(fwd, fd, list)
  /\ rev' = ReverseOf(fwd')
  /\ RegisterFilter(list)
  /\ asked' = [asked EXCEPT ![c] = [i \in Id |-> @[i] + Occurrences(list, i)]]
  /\ UNCHANGED <<handler, peer, raced, manners>>

(* A wrong RemoveFilter, as a mutant: the reverse index is rebuilt only     *)
(* while the client has ids left.                                           *)
RemoveFilterLateRebuild(c, fd, list) ==
  /\ Orders(c, fd)
  /\ Disciplined => \A i \in Id : Occurrences(list, i) <= asked[c][i]
  /\ IF fd \in DOMAIN fwd
     THEN /\ fwd' = ManagerRemove(fwd, fd, list)
          /\ rev' = IF fd \in DOMAIN fwd' THEN ReverseOf(fwd') ELSE rev
     ELSE UNCHANGED <<fwd, rev>>
  /\ DeregisterFilter(list)
  /\ asked' = [asked EXCEPT ![c] =
                 [i \in Id |-> IF Occurrences(list, i) >= @[i] THEN 0
                               ELSE @[i] - Occurrences(list, i)]]
  /\ UNCHANGED <<handler, peer, raced, manners>>

(* The filter table is changed whether or not the manager knew the ids.     *)
RemoveFilter(c, fd, list) ==
  /\ Orders(c, fd)
  /\ Disciplined => \A i \in Id : Occurrences(list, i) <= asked[c][i]
  /\ IF fd \in DOMAIN fwd
     THEN fwd' = ManagerRemove(fwd, fd, list) /\ rev' = ReverseOf(fwd')
     ELSE UNCHANGED <<fwd, rev>>
  /\ DeregisterFilter(list)
  /\ asked' = [asked EXCEPT ![c] =
                 [i \in Id |-> IF Occurrences(list, i) >= @[i] THEN 0
                               ELSE @[i] - Occurrences(list, i)]]
  /\ UNCHANGED <<handler, peer, raced, manners>>

(* A package with another magic code: the thread returns, and neither       *)
(* cleans the index nor closes the descriptor.                              *)
BadMagic(c, fd) ==
  /\ ~Disciplined
  /\ Orders(c, fd)
  /\ handler' = [handler EXCEPT ![fd] = "orphan"]
  /\ UNCHANGED <<peer, fwd, rev, id_map, filter_map, raced, asked, manners>>

(* The client closes its end. *)
HangUp(c, fd) ==
  /\ peer[fd] = c
  /\ Polite => \A i \in Id : asked[c][i] = 0
  /\ peer' = [peer EXCEPT ![fd] = None]
  /\ UNCHANGED <<handler, fwd, rev, id_map, filter_map, raced, asked, manners>>

(* read_full returns 0: the loop ends and the index is cleaned, ...         *)
CleanIndex(fd) ==
  /\ handler[fd] = "serving" /\ peer[fd] = None
  /\ handler' = [handler EXCEPT ![fd] = "cleaned"]
  /\ fwd' = Clean(fwd, fd)
  /\ UNCHANGED <<peer, rev, id_map, filter_map, raced, asked, manners>>

(* ... then the descriptor is closed. *)
CloseFd(fd) ==
  /\ handler[fd] = "cleaned"
  /\ handler' = [handler EXCEPT ![fd] = "closed"]
  /\ UNCHANGED <<peer, fwd, rev, id_map, filter_map, raced, asked, manners>>

--------------------------------------------------------------------------------
Next ==
  \/ \E c \in Clients, fd \in Fds :
       \/ Connect(c, fd)
       \/ \E list \in Lists : AddFilter(c, fd, list) \/ RemoveFilter(c, fd, list)
       \/ BadMagic(c, fd)
       \/ HangUp(c, fd)
  \/ \E fd \in Fds : CleanIndex(fd) \/ CloseFd(fd)
  \/ \E i \in Id : Overlap(i)

Spec == Init /\ [][Next]_subVars

--------------------------------------------------------------------------------
(* What a frame meets *)

(* match_can_filter queues the callback for a frame with an installed id,   *)
(* and socket_receive_callback writes to every descriptor of the reverse    *)
(* index; a write to a descriptor without a peer fails.  The filter of a    *)
(* raced id may be installed.                                               *)
Receivers(i) ==
  IF i \in filter_map \cup raced /\ i \in DOMAIN rev
  THEN {peer[fd] : fd \in rev[i]} \ {None}
  ELSE {}

(* The type invariant. *)
TypeOK ==
  /\ handler \in [Fds -> {"closed", "serving", "orphan", "cleaned"}]
  /\ peer \in [Fds -> Clients \cup {None}]
  /\ DOMAIN fwd \subseteq Fds /\ fwd \in [DOMAIN fwd -> SUBSET Id]
  /\ DOMAIN rev \subseteq Id /\ rev \in [DOMAIN rev -> SUBSET Fds]
  /\ raced \subseteq Id
  /\ DOMAIN id_map \subseteq Id \ raced /\ id_map \in [DOMAIN id_map -> Nat]
  /\ filter_map \subseteq Id \ raced
  /\ asked \in [Clients -> [Id -> Nat]]
  /\ manners \in Manners

(* For every descriptor the client manager knows, the index and the reverse *)
(* index agree: stale entries of the reverse index belong to descriptors    *)
(* whose client has hung up (update_socket_client_reserve_index and its     *)
(* callers).                                                                *)
IndexesAgree ==
  \A fd \in DOMAIN fwd, i \in Id :
    i \in fwd[fd] <=> i \in DOMAIN rev /\ fd \in rev[i]

(* The filter of an id some registered client wants is installed, unless    *)
(* orders of two threads have met at it: what disciplined others remove, or *)
(* leave behind when they hang up, takes no client its frames (the          *)
(* reference counts of can_ipc_filter_id_map).                              *)
SubscribedIsInstalled ==
  Disciplined => \A fd \in DOMAIN fwd : fwd[fd] \ raced \subseteq filter_map

(* Where no two threads have met, a reference count is the number of adds   *)
(* its clients have not removed.  With clients that remove before they hang *)
(* up, none is ever left behind.                                            *)
CountsAreExact ==
  Polite => \A i \in Id \ raced :
    CountOf(i) = Cardinality({a \in Clients \X (1 .. MaxCount) : a[2] <= asked[a[1]][i]})

(* The callback writes a frame only to programs that asked for its id: it   *)
(* "check[s] client index is register in the client manager"                *)
(* (src/src/core/ipc_socket_controller.cpp:140).                            *)
OnlySubscribersServed ==
  \A i \in Id : \A c \in Receivers(i) : asked[c][i] > 0

(* Clients that remove their filters before they hang up leave no stale     *)
(* entry behind: then only those that asked are served, however descriptors *)
(* are reused (client_manager_deregister rebuilds the reverse index).       *)
PoliteServed == Polite => OnlySubscribersServed

(* For clients that keep the rules, and ids at which no two threads have    *)
(* met, the tables implement publish/subscribe: a program's orders change   *)
(* what it receives, by the ids they name, and nobody else's order or       *)
(* hang-up does (ADD_FILTER and REMOVE_FILTER in handle_client).            *)
received == [c \in Clients |-> {i \in Id \ raced : c \in Receivers(i)}]
orders == [c \in Clients |-> [i \in Id |-> IF i \in raced THEN 0 ELSE asked[c][i]]]

Abstract == INSTANCE PubSub WITH
  Program <- Clients, CanId <- Id, ledger <- orders, receives <- received

ImplementsPubSub ==
  Abstract!Init /\ [][Polite /\ raced' = raced => Abstract!Next]_<<orders, received>>
================================================================================
