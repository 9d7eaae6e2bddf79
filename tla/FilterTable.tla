------------------------------ MODULE FilterTable ------------------------------
(***************************************************************************)
(* The filter table of CAN_IPC_RECEIVER at the grain of its accesses.      *)
(* Every connection has a thread of its own, which runs                    *)
(* register_can_filter or deregister_can_filter once its order has left    *)
(* the client manager, and no lock protects the table.  Filters and counts *)
(* are two maps, the ids of an order are taken one by one, a count is read *)
(* and then stored, and it is tested before the erase.                     *)
(*                                                                         *)
(* Subscriptions takes an order as one step; here the orders of several    *)
(* threads overlap in every way.                                           *)
(*                                                                         *)
(* Overlapping accesses to a std::unordered_map are undefined.  Of their   *)
(* outcomes this module has those the containers survive: the accesses     *)
(* come in some order, and one through an iterator to an entry that was    *)
(* erased meanwhile reads anything and stores nothing, unless a new entry  *)
(* is where it points.  An outcome they do not survive is a crash of the   *)
(* process, which is in module Lifecycle.                                  *)
(***************************************************************************)
EXTENDS Integers, IndexRebuild

CONSTANT Width  \* 2^32: a count is an int, and -1 is Width - 1

ASSUME WidthAssumption == Width \in Nat /\ Width > 1

VARIABLES
  id_map,      \* can_ipc_filter_id_map: id -> count
  filter_map,  \* the keys of can_ipc_filter_map
  place,  \* where each thread is in its order
  op,     \* the order each thread works on, ...
  named,  \* ... and the ids it names
  left,   \* the ids each thread's loop has still to do
  hand,   \* the id, at most one, each thread is at
  val,    \* the count each thread has read
  stale,  \* the threads whose iterator points to an entry that was erased
  clash,  \* history: the ids of the current order that a REMOVE_FILTER met
  lost,   \* history: the ids at which orders of two threads have ever met
  due     \* history: the count of each id, had each order changed it in one step

orderVars == <<op, named, clash, lost, due>>
filterVars == <<id_map, filter_map, place, left, hand, val, stale, orderVars>>

Places == {"idle", "install", "count", "raise",
           "lower", "load", "store", "test", "find", "erase", "drop"}

FilterInit ==
  /\ id_map = [i \in {} |-> 0]
  /\ filter_map = {}
  /\ place = [t \in Fds |-> "idle"]
  /\ op = [t \in Fds |-> "add"]
  /\ named = [t \in Fds |-> {}]
  /\ left = [t \in Fds |-> {}]
  /\ hand = [t \in Fds |-> {}]
  /\ val = [t \in Fds |-> 0]
  /\ stale = {}
  /\ clash = [t \in Fds |-> {}]
  /\ lost = {}
  /\ due = [i \in Id |-> 0]

CountOf(i) == IF i \in DOMAIN id_map THEN id_map[i] ELSE 0

(* The threads whose order names i. *)
Changing(i) == {t \in Fds : i \in named[t]}

(* Thread t comes to the filter table with an order for these ids.  Where   *)
(* it meets another thread the count is not followed any more.  An empty    *)
(* order is refused.                                                        *)
Begin(t, order, ids) ==
  /\ place[t] = "idle" /\ ids # {}
  /\ place' = [place EXCEPT ![t] = IF order = "add" THEN "install" ELSE "lower"]
  /\ op' = [op EXCEPT ![t] = order]
  /\ named' = [named EXCEPT ![t] = ids]
  /\ left' = [left EXCEPT ![t] = ids]
  /\ LET shared == {i \in ids : Changing(i) # {}}
     IN  /\ lost' = lost \cup shared
         /\ due' = [i \in Id |-> IF i \in shared THEN 0 ELSE due[i]]
  /\ clash' = [u \in Fds |->
                 IF u = t THEN {i \in ids : \E v \in Changing(i) : op[v] = "remove"}
                 ELSE IF order = "remove" THEN clash[u] \cup (ids \cap named[u])
                 ELSE clash[u]]
  /\ UNCHANGED <<id_map, filter_map, hand, val, stale>>

(* A wrong Counted, as a mutant: a count that is lowered below zero, or     *)
(* raised past its int, keeps its value.                                    *)
CountedWide(i, n) == [j \in DOMAIN id_map \cup {i} |-> IF j = i THEN n ELSE id_map[j]]

(* The counts with n for i, and without i. *)
Counted(i, n) == [j \in DOMAIN id_map \cup {i} |-> IF j = i THEN n % Width ELSE id_map[j]]
Uncounted(i) == [j \in DOMAIN id_map \ {i} |-> id_map[j]]

(* A store through the iterator of thread t: if the entry has been erased,  *)
(* to no effect, unless a new one is where it points.                       *)
Store(t, i, n) ==
  \/ t \notin stale /\ id_map' = Counted(i, n)
  \/ t \in stale /\ id_map' = id_map
  \/ t \in stale /\ i \in DOMAIN id_map /\ id_map' = Counted(i, n)

(* Thread t is done with the id in its hand and goes on with its loop. *)
Release(t, loop) ==
  /\ place' = [place EXCEPT ![t] = loop]
  /\ hand' = [hand EXCEPT ![t] = {}]
  /\ val' = [val EXCEPT ![t] = 0]

(* Thread t takes i in its hand. *)
Take(t, i, next, v) ==
  /\ place' = [place EXCEPT ![t] = next]
  /\ left' = [left EXCEPT ![t] = @ \ {i}]
  /\ hand' = [hand EXCEPT ![t] = {i}]
  /\ val' = [val EXCEPT ![t] = v]

(* register_can_filter, first loop: emplace in can_ipc_filter_map; the      *)
(* second loop comes after the last id.                                     *)

(* A wrong Install, as a mutant: an id with a count is taken to have its    *)
(* filter.                                                                  *)
InstallUnlessCounted(t, i) ==
  /\ place[t] = "install" /\ i \in left[t]
  /\ filter_map' = IF i \in DOMAIN id_map THEN filter_map ELSE filter_map \cup {i}
  /\ place' = [place EXCEPT ![t] = IF left[t] = {i} THEN "count" ELSE @]
  /\ left' = [left EXCEPT ![t] = IF @ = {i} THEN named[t] ELSE @ \ {i}]
  /\ UNCHANGED <<id_map, hand, val, stale, orderVars>>

Install(t, i) ==
  /\ place[t] = "install" /\ i \in left[t]
  /\ filter_map' = filter_map \cup {i}
  /\ place' = [place EXCEPT ![t] = IF left[t] = {i} THEN "count" ELSE @]
  /\ left' = [left EXCEPT ![t] = IF @ = {i} THEN named[t] ELSE @ \ {i}]
  /\ UNCHANGED <<id_map, hand, val, stale, orderVars>>

(* Second loop: emplace in can_ipc_filter_id_map makes a new entry, ...     *)
CountNew(t, i) ==
  /\ place[t] = "count" /\ i \in left[t]
  /\ i \notin DOMAIN id_map
  /\ id_map' = Counted(i, 1)
  /\ left' = [left EXCEPT ![t] = @ \ {i}]
  /\ UNCHANGED <<filter_map, place, hand, val, stale, orderVars>>

(* ... or finds one, whose count is read ...                                *)
CountAgain(t, i) ==
  /\ place[t] = "count" /\ i \in left[t]
  /\ i \in DOMAIN id_map
  /\ Take(t, i, "raise", id_map[i])
  /\ UNCHANGED <<id_map, filter_map, stale, orderVars>>

(* ... and stored, raised by one. *)
Raise(t, i) ==
  /\ place[t] = "raise" /\ i \in hand[t]
  /\ Store(t, i, val[t] + 1)
  /\ Release(t, "count")
  /\ stale' = stale \ {t}
  /\ UNCHANGED <<filter_map, left, orderVars>>

(* deregister_can_filter: an id without a count is passed over; a count     *)
(* that is zero is not lowered.                                             *)
Pass(t, i) ==
  /\ place[t] = "lower" /\ i \in left[t]
  /\ i \notin DOMAIN id_map
  /\ left' = [left EXCEPT ![t] = @ \ {i}]
  /\ UNCHANGED <<id_map, filter_map, place, hand, val, stale, orderVars>>

Lower(t, i) ==
  /\ place[t] = "lower" /\ i \in left[t]
  /\ i \in DOMAIN id_map
  /\ Take(t, i, IF id_map[i] # 0 THEN "load" ELSE "test", 0)
  /\ UNCHANGED <<id_map, filter_map, stale, orderVars>>

(* The count is lowered: read, or anything read of an erased entry, ...     *)
LowerLoad(t, i) ==
  /\ place[t] = "load" /\ i \in hand[t]
  /\ place' = [place EXCEPT ![t] = "store"]
  /\ \E n \in 0 .. Width - 1 :
       /\ t \in stale \/ n = CountOf(i)
       /\ val' = [val EXCEPT ![t] = n]
  /\ UNCHANGED <<id_map, filter_map, left, hand, stale, orderVars>>

(* ... and stored. *)
LowerStore(t, i) ==
  /\ place[t] = "store" /\ i \in hand[t]
  /\ Store(t, i, val[t] - 1)
  /\ place' = [place EXCEPT ![t] = "test"]
  /\ val' = [val EXCEPT ![t] = 0]
  /\ UNCHANGED <<filter_map, left, hand, stale, orderVars>>

(* A wrong TestZero, as a mutant: the last count is taken for none. *)
TestLast(t, i) ==
  /\ place[t] = "test" /\ i \in hand[t]
  /\ t \in stale \/ CountOf(i) <= 1
  /\ place' = [place EXCEPT ![t] = "find"]
  /\ UNCHANGED <<id_map, filter_map, left, hand, val, stale, orderVars>>

(* The count is tested for zero; of an erased entry, anything may be read.  *)
TestZero(t, i) ==
  /\ place[t] = "test" /\ i \in hand[t]
  /\ t \in stale \/ CountOf(i) = 0
  /\ place' = [place EXCEPT ![t] = "find"]
  /\ UNCHANGED <<id_map, filter_map, left, hand, val, stale, orderVars>>

TestMore(t, i) ==
  /\ place[t] = "test" /\ i \in hand[t]
  /\ t \in stale \/ CountOf(i) # 0
  /\ Release(t, "lower")
  /\ stale' = stale \ {t}
  /\ UNCHANGED <<id_map, filter_map, left, orderVars>>

(* The filter of an id without a count is looked up: not there, nothing is  *)
(* erased; ...                                                              *)
FindNone(t, i) ==
  /\ place[t] = "find" /\ i \in hand[t]
  /\ i \notin filter_map
  /\ Release(t, "lower")
  /\ stale' = stale \ {t}
  /\ UNCHANGED <<id_map, filter_map, left, orderVars>>

FindFilter(t, i) ==
  /\ place[t] = "find" /\ i \in hand[t]
  /\ i \in filter_map
  /\ place' = [place EXCEPT ![t] = "erase"]
  /\ UNCHANGED <<id_map, filter_map, left, hand, val, stale, orderVars>>

(* ... there, the filter is erased, ...                                     *)
EraseFilter(t, i) ==
  /\ place[t] = "erase" /\ i \in hand[t]
  /\ filter_map' = filter_map \ {i}
  /\ place' = [place EXCEPT ![t] = "drop"]
  /\ UNCHANGED <<id_map, left, hand, val, stale, orderVars>>

(* ... and then the count.  Other threads may have it in their hands. *)
DropCount(t, i) ==
  /\ place[t] = "drop" /\ i \in hand[t]
  /\ id_map' = Uncounted(i)
  /\ Release(t, "lower")
  /\ stale' = (stale \cup {u \in Fds : i \in hand[u]}) \ {t}
  /\ UNCHANGED <<filter_map, left, orderVars>>

(* The order is done with the filter table.  A count that does not fit its  *)
(* int any more is not followed either.                                     *)
Leave(t) ==
  /\ place[t] \in {"count", "lower"} /\ left[t] = {}
  /\ LET full == {i \in named[t] : op[t] = "add" /\ due[i] + 1 = Width}
     IN  /\ lost' = lost \cup full
         /\ due' = [i \in Id |->
                      IF i \notin named[t] THEN due[i]
                      ELSE IF i \in lost \cup full THEN 0
                      ELSE IF op[t] = "add" THEN due[i] + 1
                      ELSE IF due[i] = 0 THEN 0 ELSE due[i] - 1]
  /\ place' = [place EXCEPT ![t] = "idle"]
  /\ op' = [op EXCEPT ![t] = "add"]
  /\ named' = [named EXCEPT ![t] = {}]
  /\ clash' = [clash EXCEPT ![t] = {}]
  /\ UNCHANGED <<id_map, filter_map, left, hand, val, stale>>

--------------------------------------------------------------------------------
FilterNext ==
  \E t \in Fds :
    \/ \E order \in {"add", "remove"}, ids \in SUBSET Id : Begin(t, order, ids)
    \/ \E i \in Id :
         \/ Install(t, i) \/ CountNew(t, i) \/ CountAgain(t, i) \/ Raise(t, i)
         \/ Pass(t, i) \/ Lower(t, i) \/ LowerLoad(t, i) \/ LowerStore(t, i)
         \/ TestZero(t, i) \/ TestMore(t, i) \/ FindNone(t, i) \/ FindFilter(t, i)
         \/ EraseFilter(t, i) \/ DropCount(t, i)
    \/ Leave(t)

FilterSpec == FilterInit /\ [][FilterNext]_filterVars

--------------------------------------------------------------------------------
(* The type invariant. *)
FilterTypeOK ==
  /\ DOMAIN id_map \subseteq Id /\ id_map \in [DOMAIN id_map -> 0 .. Width - 1]
  /\ filter_map \subseteq Id
  /\ place \in [Fds -> Places]
  /\ op \in [Fds -> {"add", "remove"}]
  /\ named \in [Fds -> SUBSET Id]
  /\ left \in [Fds -> SUBSET Id]
  /\ hand \in [Fds -> SUBSET Id]
  /\ val \in [Fds -> 0 .. Width - 1]
  /\ stale \subseteq Fds
  /\ clash \in [Fds -> SUBSET Id]
  /\ lost \subseteq Id
  /\ due \in [Id -> 0 .. Width - 1]

(* The filter table needs no lock between orders that name different ids:   *)
(* for an id at which no two orders have ever met, the count is what the    *)
(* orders make of it one after the other, and the filter is installed just  *)
(* while it is not zero, whatever orders for other ids do in between        *)
(* (register_can_filter, deregister_can_filter).                            *)
UnracedIsExact ==
  \A i \in Id \ lost : Changing(i) = {} =>
    /\ CountOf(i) = due[i]
    /\ i \in DOMAIN id_map <=> due[i] > 0
    /\ i \in filter_map <=> due[i] > 0

(* An ADD_FILTER that no REMOVE_FILTER meets at an id leaves that id counted *)
(* and installed, however many others add it meanwhile and whatever earlier  *)
(* orders had left there: the first loop of register_can_filter emplaces the *)
(* filter of a counted id too.                                               *)
AddInstalls ==
  [][\A t \in Fds : place[t] = "count" /\ place'[t] = "idle" =>
       named[t] \ clash[t] \subseteq filter_map' \cap DOMAIN id_map']_filterVars
================================================================================
