-------------------------------- MODULE PubSub --------------------------------
(***************************************************************************)
(* What the daemon promises the programs that share a CAN port, without    *)
(* sockets, reference counts or indexes.  Every program has a ledger of    *)
(* its own orders: how often it has asked for an id and not taken it back. *)
(* It receives an id from the order that asks for it to the first that     *)
(* takes it back, whatever the others order.                               *)
(***************************************************************************)
EXTENDS Naturals

CONSTANTS
  Program,  \* programs that may connect
  CanId     \* CAN ids

VARIABLES
  ledger,   \* ledger[p][i]: the orders of p that ask for id i and stand
  receives  \* receives[p]: the ids whose frames reach program p

vars == <<ledger, receives>>

Init ==
  /\ ledger = [p \in Program |-> [i \in CanId |-> 0]]
  /\ receives = [p \in Program |-> {}]

(* The ids an order of p asks for, and those it takes back. *)
Raised(p) == {i \in CanId : ledger'[p][i] > ledger[p][i]}
Lowered(p) == {i \in CanId : ledger'[p][i] < ledger[p][i]}

Subscribe(p) ==
  /\ Lowered(p) = {}
  /\ receives' = [receives EXCEPT ![p] = @ \cup Raised(p)]

Unsubscribe(p) ==
  /\ Raised(p) = {}
  /\ receives' = [receives EXCEPT ![p] = @ \ Lowered(p)]

(* An order of p changes its own ledger, and what p receives by the ids it  *)
(* names.                                                                   *)
Next ==
  \E p \in Program :
    /\ \A q \in Program \ {p} : ledger'[q] = ledger[q]
    /\ Subscribe(p) \/ Unsubscribe(p)

Spec == Init /\ [][Next]_vars
================================================================================
