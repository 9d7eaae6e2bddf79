----------------------------- MODULE MCFramePath -----------------------------
(***************************************************************************)
(* A small instance of FramePath for TLC.                                  *)
(***************************************************************************)
EXTENDS FramePath

(* Two ids, each the other in reversed byte order, so that an id that comes *)
(* back reversed still finds a filter.                                      *)
Ids == {[b \in 1 .. 4 |-> b], [b \in 1 .. 4 |-> 5 - b]}

(* CAN_PORT_7 and a value that is no port, taken for CAN_PORT_5. *)
Ports == {2, 9}

(* One dlc below the payload as a rule, the first one past CAN FD's, and    *)
(* the last uint8_t.                                                        *)
Dlcs == {5, 16, 255}

(* Every length of CAN FD with its neighbours. *)
Lengths == 0 .. 64 \ {2, 3, 4, 5, 6, 14, 18, 22, 27, 28, 29, 30, 35, 36, 37, 38, 39, 40, 41,
                      42, 43, 44, 45, 51, 52, 53, 54, 55, 56, 57, 58, 59, 60, 61, 62}
================================================================================
