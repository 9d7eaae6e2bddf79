--------------------------- MODULE MCSubscriptions ---------------------------
(***************************************************************************)
(* Small instances of Subscriptions for TLC.                               *)
(***************************************************************************)
EXTENDS Subscriptions, TLC

(* CAN ids are compared for equality only, and programs run their own code  *)
(* but are never told apart.  Descriptors are ordered, so not symmetric.    *)
Symmetry == Permutations(Clients) \cup Permutations(Id)
================================================================================
