------------------------------ MODULE IndexRebuild ------------------------------
(***************************************************************************)
(* The client manager at the grain of its accesses to the two maps.  Every *)
(* connection has a thread of its own, no lock protects the maps, and the  *)
(* reverse index is rebuilt in place: cleared, then filled while the loop  *)
(* walks over the index.  In Subscriptions an order is one step; here the  *)
(* orders of several threads overlap in every way.                         *)
(*                                                                         *)
(* Overlapping accesses to a std::unordered_map are undefined.  Of their   *)
(* outcomes this module has those the containers survive: a walk sees each *)
(* entry that is inserted or erased meanwhile, or misses it, and an insert *)
(* comes before or after a clear.  An outcome they do not survive is a     *)
(* crash of the process, which is in module Lifecycle.                     *)
(***************************************************************************)
EXTENDS Naturals

CONSTANTS
  Fds,  \* descriptors, each the key of its thread's entry
  Id    \* CAN ids

VARIABLES
  fwd,    \* socket_client_index: descriptor -> ids
  rev,    \* socket_client_reverse_index, as pairs of an id and a descriptor
  at,     \* where each thread is in the manager
  todo,   \* the entries each thread's walk has still to visit
  hold,   \* the pairs each thread has read and not yet inserted
  met,    \* history: another thread was in the manager during the current order
  whole,  \* history: the last order to end met nobody
  gone    \* history: descriptors erased by a disconnect since the last clear

indexVars == <<fwd, rev, at, todo, hold, met, whole, gone>>

Init ==
  /\ fwd = [fd \in {} |-> {}]
  /\ rev = {}
  /\ at = [fd \in Fds |-> "idle"]
  /\ todo = [fd \in Fds |-> {}]
  /\ hold = [fd \in Fds |-> {}]
  /\ met = [fd \in Fds |-> FALSE]
  /\ whole = TRUE
  /\ gone = {}

Others(t) == {u \in Fds \ {t} : at[u] # "idle"}

(* Thread t enters the manager: it and those inside meet. *)
Enter(t) ==
  /\ at[t] = "idle"
  /\ at' = [at EXCEPT ![t] = "clear"]
  /\ met' = [u \in Fds |-> IF u = t THEN Others(t) # {} ELSE met[u] \/ u \in Others(t)]

(* The index without and with an entry.                                     *)
Without(fd) == [g \in DOMAIN fwd \ {fd} |-> fwd[g]]
With(fd, ids) == [g \in DOMAIN fwd \cup {fd} |-> IF g = fd THEN ids ELSE fwd[g]]

(* client_manager_register: a new entry is seen by the walks under way, or  *)
(* not.                                                                     *)
Register(t, ids) ==
  /\ Enter(t)
  /\ fwd' = With(t, ids \cup (IF t \in DOMAIN fwd THEN fwd[t] ELSE {}))
  /\ \E seen \in SUBSET {u \in Others(t) : t \notin DOMAIN fwd /\ at[u] = "visit"} :
       todo' = [u \in Fds |-> IF u \in seen THEN todo[u] \cup {t} ELSE todo[u]]
  /\ UNCHANGED <<rev, hold, whole, gone>>

(* A wrong Erase, as a mutant: a walk keeps its place in an erased entry. *)
EraseUnderWalk(t) ==
  /\ fwd' = Without(t)
  /\ UNCHANGED todo

(* An entry that is erased is not visited any more. *)
Erase(t) ==
  /\ fwd' = Without(t)
  /\ todo' = [u \in Fds |-> todo[u] \ {t}]

(* client_manager_deregister; for a descriptor without an entry it returns  *)
(* at once and nothing changes.                                             *)
Deregister(t, ids) ==
  /\ t \in DOMAIN fwd
  /\ Enter(t)
  /\ IF fwd[t] \subseteq ids THEN Erase(t) ELSE fwd' = With(t, fwd[t] \ ids) /\ UNCHANGED todo
  /\ UNCHANGED <<rev, hold, whole, gone>>

(* handle_client ends: clean_socket_client_index, and no rebuild. *)
Disconnect(t) ==
  /\ at[t] = "idle" /\ t \in DOMAIN fwd
  /\ Erase(t)
  /\ gone' = gone \cup {t}
  /\ met' = [u \in Fds |-> met[u] \/ u \in Others(t)]
  /\ UNCHANGED <<rev, at, hold, whole>>

--------------------------------------------------------------------------------
(* update_socket_client_reserve_index *)

(* A wrong Clear, as a mutant: what is there already stays. *)
ClearNothing(t) ==
  /\ at[t] = "clear"
  /\ at' = [at EXCEPT ![t] = "visit"]
  /\ todo' = [todo EXCEPT ![t] = DOMAIN fwd]
  /\ gone' = {}
  /\ UNCHANGED <<fwd, rev, hold, met, whole>>

(* A wrong Clear, as a mutant: a rebuild that is under way is relied on. *)
ClearUnlessRebuilding(t) ==
  LET rebuilding == \E u \in Fds : at[u] = "visit"
  IN  /\ at[t] = "clear"
      /\ at' = [at EXCEPT ![t] = "visit"]
      /\ rev' = IF rebuilding THEN rev ELSE {}
      /\ todo' = [todo EXCEPT ![t] = IF rebuilding THEN {} ELSE DOMAIN fwd]
      /\ gone' = {}
      /\ UNCHANGED <<fwd, hold, met, whole>>

Clear(t) ==
  /\ at[t] = "clear"
  /\ at' = [at EXCEPT ![t] = "visit"]
  /\ rev' = {}
  /\ todo' = [todo EXCEPT ![t] = DOMAIN fwd]
  /\ gone' = {}
  /\ UNCHANGED <<fwd, hold, met, whole>>

(* The walk comes to the entry of fd, in the order of the hash table. *)
Visit(t, fd) ==
  /\ at[t] = "visit" /\ hold[t] = {} /\ fd \in todo[t]
  /\ todo' = [todo EXCEPT ![t] = @ \ {fd}]
  /\ hold' = [hold EXCEPT ![t] = fwd[fd] \X {fd}]
  /\ UNCHANGED <<fwd, rev, at, met, whole, gone>>

(* One id of that entry goes into the reverse index. *)
Insert(t, pair) ==
  /\ pair \in hold[t]
  /\ rev' = rev \cup {pair}
  /\ hold' = [hold EXCEPT ![t] = @ \ {pair}]
  /\ UNCHANGED <<fwd, at, todo, met, whole, gone>>

(* The walk is at its end and the order leaves the manager. *)
Finish(t) ==
  /\ at[t] = "visit" /\ hold[t] = {} /\ todo[t] = {}
  /\ at' = [at EXCEPT ![t] = "idle"]
  /\ whole' = (~met[t])
  /\ met' = [met EXCEPT ![t] = FALSE]
  /\ UNCHANGED <<fwd, rev, todo, hold, gone>>

--------------------------------------------------------------------------------
Next ==
  \E t \in Fds :
    \/ \E ids \in SUBSET Id : Register(t, ids) \/ Deregister(t, ids)
    \/ Disconnect(t)
    \/ Clear(t)
    \/ \E fd \in Fds : Visit(t, fd)
    \/ \E pair \in Id \X Fds : Insert(t, pair)
    \/ Finish(t)

Spec == Init /\ [][Next]_indexVars

--------------------------------------------------------------------------------
(* The type invariant. *)
TypeOK ==
  /\ DOMAIN fwd \subseteq Fds /\ fwd \in [DOMAIN fwd -> SUBSET Id]
  /\ rev \subseteq Id \X Fds
  /\ at \in [Fds -> {"idle", "clear", "visit"}]
  /\ todo \in [Fds -> SUBSET DOMAIN fwd]
  /\ hold \in [Fds -> SUBSET (Id \X Fds)]
  /\ met \in [Fds -> BOOLEAN]
  /\ whole \in BOOLEAN
  /\ gone \subseteq Fds

(* What the reverse index has to be for the index as it is, but for the     *)
(* descriptors that have disconnected since it was rebuilt.                 *)
Exact ==
  \A fd \in Fds \ gone :
    {i \in Id : <<i, fd>> \in rev} = IF fd \in DOMAIN fwd THEN fwd[fd] ELSE {}

(* However orders overlap, once they have ended no subscription is missing   *)
(* from the reverse index: the walk of the order that cleared it last finds *)
(* every entry (each change of the index comes before its own rebuild).     *)
NothingIsLost ==
  (\A t \in Fds : at[t] = "idle") =>
    \A fd \in DOMAIN fwd : fwd[fd] \X {fd} \subseteq rev

(* Orders that overlap may leave stale entries behind, but one order        *)
(* that has the manager for itself makes it exact again, whatever earlier   *)
(* ones have left there (update_socket_client_reserve_index starts from     *)
(* nothing).                                                                *)
OneOrderRepairs ==
  whole /\ (\A t \in Fds : at[t] = "idle") => Exact
================================================================================
