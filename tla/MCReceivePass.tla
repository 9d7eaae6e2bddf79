---------------------------- MODULE MCReceivePass ----------------------------
(***************************************************************************)
(* Small instances of ReceivePass for TLC.                                 *)
(***************************************************************************)
EXTENDS ReceivePass

(* The five device ports of CAN_DEV_PORT_E. *)
DevPorts == 5 .. 9
================================================================================
