-------------------------------- MODULE MCOrders --------------------------------
(***************************************************************************)
(* A small instance of IndexRebuild and FilterTable for TLC: what          *)
(* overlapping orders do to the client manager and to the filter table.    *)
(* The two share no state, so each behaviour is about one of them, chosen  *)
(* at the start, with the other at rest.                                   *)
(***************************************************************************)
EXTENDS FilterTable, TLC

VARIABLE table

OrdersInit == Init /\ FilterInit /\ table \in {"manager", "filters"}

OrdersNext ==
  \/ table = "manager" /\ Next /\ UNCHANGED <<filterVars, table>>
  \/ table = "filters" /\ FilterNext /\ UNCHANGED <<indexVars, table>>

OrdersSpec == OrdersInit /\ [][OrdersNext]_<<indexVars, filterVars, table>>

(* Descriptors are keys and ids are compared for equality only. *)
Symmetry == Permutations(Fds) \cup Permutations(Id)
================================================================================
