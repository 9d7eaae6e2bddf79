------------------------------- MODULE FramePath -------------------------------
(***************************************************************************)
(* The way of one CAN frame through the daemon: from a program's SEND      *)
(* order to the bus (can_ipc_sender.cpp), and from the bus to a program    *)
(* that has asked for its id (can_ipc_receiver.cpp, and the callback in    *)
(* ipc_socket_controller.cpp).  On this way the frame changes form twice.  *)
(* The daemon and its programs hold a can_frame_t, which has a data length *)
(* code (dlc); the HAL's struct canframe has a number of bytes (len), and  *)
(* its id is byte-reversed on the way out.                                 *)
(*                                                                         *)
(* A payload is the number of leading bytes that are the sender's; the     *)
(* bytes behind them are zero, for both structs start zeroed.  An id is    *)
(* its four bytes.  One frame is on its way at a time: module ReceivePass  *)
(* treats their order.  Filters are only added here: module Subscriptions  *)
(* treats their removal.                                                   *)
(***************************************************************************)
EXTENDS Naturals, FiniteSets

CONSTANTS
  Id,      \* CAN ids, each a function from 1 .. 4 to its bytes
  Order,   \* the can_port values programs put into their orders
  Dlc,     \* the dlc values of programs that do not use can_bytes_to_dlc: any uint8_t
  Length   \* payload lengths of programs and of the nodes on a bus

ASSUME FramePathAssumption ==
  /\ Id \subseteq [1 .. 4 -> 0 .. 255]
  /\ Order \subseteq Nat
  /\ Dlc \subseteq 0 .. 255
  /\ Length \subseteq 0 .. 64

VARIABLES
  enabled,  \* the ports whose is_received_can_<n>_port is set
  asked,    \* history: the <<can_port, id>> of the filter orders served
  table,    \* the ids in the can_ipc_filter_map of each port
  at,       \* how far the frame has come
  frame,    \* the frame, in the form it has there
  origin    \* history: the frame as it set out

frameVars == <<enabled, asked, table, at, frame, origin>>

DevPort == 5 .. 9

(* can_frame_t in an order or a package, and the HAL's struct canframe. *)
CanFrame == [port : Nat, id : [1 .. 4 -> 0 .. 255], dlc : 0 .. 255,
             flags : {0, 1}, data : 0 .. 64]
HalFrame == [channel : DevPort, canid : [1 .. 4 -> 0 .. 255], len : 0 .. 64,
             can_type : {0, 1}, data : 0 .. 64]
NoFrame == [none |-> TRUE]

--------------------------------------------------------------------------------
(* The conversions *)

AtMost(a, b) == IF a < b THEN a ELSE b

(* The lengths of CAN FD, from dlc 0 on. *)
dlc_table == <<0, 1, 2, 3, 4, 5, 6, 7, 8, 12, 16, 20, 24, 32, 48, 64>>

DlcToBytes(dlc) == dlc_table[AtMost(dlc, 15) + 1]

(* A wrong BytesToDlc, as a mutant: off by one at 12 bytes. *)
BytesToDlcOffByOne(n) ==
  IF n <= 8 THEN n
  ELSE CASE n \in 9 .. 11 -> 9 [] n \in 12 .. 16 -> 10 [] n \in 17 .. 20 -> 11
         [] n \in 21 .. 24 -> 12 [] n \in 25 .. 32 -> 13 [] n \in 33 .. 48 -> 14
         [] OTHER -> 15

(* The smallest dlc whose length holds n bytes. *)
BytesToDlc(n) ==
  IF n <= 8 THEN n
  ELSE CASE n \in 9 .. 12 -> 9 [] n \in 13 .. 16 -> 10 [] n \in 17 .. 20 -> 11
         [] n \in 21 .. 24 -> 12 [] n \in 25 .. 32 -> 13 [] n \in 33 .. 48 -> 14
         [] OTHER -> 15

BSWAP_32(x) == [b \in 1 .. 4 |-> x[5 - b]]

(* lib_set_can_ipc_handle: CAN_PORT_5 .. CAN_PORT_9 are 0 .. 4, anything    *)
(* else is taken for CAN_PORT_5.                                            *)
CanIpcHandle(can_port) == IF can_port \in 0 .. 4 THEN can_port + 5 ELSE 5

(* lib_get_can_dev_port answers port 5 for every port. *)
CanDevPort(can_port) == 5

--------------------------------------------------------------------------------
Init ==
  /\ enabled = {}
  /\ asked = {}
  /\ table = [p \in DevPort |-> {}]
  /\ at = "nowhere"
  /\ frame = NoFrame
  /\ origin = NoFrame

(* start_controller enables CAN_PORT_5, then starts the receiver. *)
EnablePort ==
  /\ enabled = {}
  /\ enabled' = {CanIpcHandle(0)}
  /\ UNCHANGED <<asked, table, at, frame, origin>>

(* An ADD_FILTER order with one id. *)
AddFilter(can_port, id) ==
  /\ enabled # {} /\ at = "nowhere"
  /\ asked' = asked \cup {<<can_port, id>>}
  /\ table' = [table EXCEPT ![CanDevPort(can_port)] = @ \cup {id}]
  /\ UNCHANGED <<enabled, at, frame, origin>>

(* A program fills in n bytes and writes a SEND order. *)
SendOrder(can_port, id, dlc, n) ==
  /\ enabled # {} /\ at = "nowhere"
  /\ at' = "order"
  /\ \E flags \in {0, 1} :
       frame' = [port |-> can_port, id |-> id, dlc |-> dlc, flags |-> flags, data |-> n]
  /\ origin' = frame'
  /\ UNCHANGED <<enabled, asked, table>>

(* A wrong send_can_data, as a mutant: the id is not reversed. *)
SendCanDataPlain ==
  /\ at = "order"
  /\ at' = "hal"
  /\ frame' = [channel |-> CanIpcHandle(frame.port), canid |-> frame.id,
               len |-> DlcToBytes(frame.dlc), can_type |-> frame.flags,
               data |-> AtMost(frame.data, DlcToBytes(frame.dlc))]
  /\ UNCHANGED <<enabled, asked, table, origin>>

(* A wrong send_can_data, as a mutant: the dlc is taken for the length. *)
SendCanDataDlc ==
  /\ at = "order"
  /\ at' = "hal"
  /\ frame' = [channel |-> CanIpcHandle(frame.port), canid |-> BSWAP_32(frame.id),
               len |-> frame.dlc, can_type |-> frame.flags,
               data |-> AtMost(frame.data, frame.dlc)]
  /\ UNCHANGED <<enabled, asked, table, origin>>

(* lib_can_send and send_can_data: memcpy takes the first len bytes. *)
SendCanData ==
  /\ at = "order"
  /\ at' = "hal"
  /\ frame' = [channel |-> CanIpcHandle(frame.port), canid |-> BSWAP_32(frame.id),
               len |-> DlcToBytes(frame.dlc), can_type |-> frame.flags,
               data |-> AtMost(frame.data, DlcToBytes(frame.dlc))]
  /\ UNCHANGED <<enabled, asked, table, origin>>

(* The HAL takes ids in reversed order; a node answers with the same frame. *)
Echo ==
  /\ at = "hal"
  /\ at' = "bus"
  /\ frame' = [frame EXCEPT !.canid = BSWAP_32(@)]
  /\ UNCHANGED <<enabled, asked, table, origin>>

(* A node on the bus of some port sends a frame of its own. *)
NodeSends(port, id, n) ==
  /\ enabled # {} /\ at = "nowhere"
  /\ at' = "bus"
  /\ \E flags \in {0, 1} :
       frame' = [channel |-> port, canid |-> id, len |-> n, can_type |-> flags, data |-> n]
  /\ origin' = frame'
  /\ UNCHANGED <<enabled, asked, table>>

(* The frame goes no further. *)
Gone ==
  /\ at' = "nowhere"
  /\ frame' = NoFrame
  /\ origin' = NoFrame
  /\ UNCHANGED <<enabled, asked, table>>

(* Nobody reads the bus of a port that is not enabled. *)
Unread == at = "bus" /\ frame.channel \notin enabled /\ Gone

SkipEmpty == at = "bus" /\ frame.channel \in enabled /\ frame.len = 0 /\ Gone

NoFilter ==
  /\ at = "bus" /\ frame.channel \in enabled /\ frame.len > 0
  /\ frame.canid \notin table[frame.channel]
  /\ Gone

(* A wrong GetRawCanData, as a mutant: the frame is passed on unmatched. *)
GetRawCanDataAny ==
  /\ at = "bus" /\ frame.channel \in enabled /\ frame.len > 0
  /\ at' = "queued"
  /\ frame' = [port |-> frame.channel, id |-> frame.canid, dlc |-> BytesToDlc(frame.len),
               flags |-> frame.can_type, data |-> AtMost(frame.data, frame.len)]
  /\ UNCHANGED <<enabled, asked, table, origin>>

(* get_raw_can_data and match_can_filter: there is a filter for the frame.  *)
(* The port is the table's that matched; can_frame_t does not record it.    *)
GetRawCanData ==
  /\ at = "bus" /\ frame.channel \in enabled /\ frame.len > 0
  /\ frame.canid \in table[frame.channel]
  /\ at' = "queued"
  /\ frame' = [port |-> frame.channel, id |-> frame.canid, dlc |-> BytesToDlc(frame.len),
               flags |-> frame.can_type, data |-> AtMost(frame.data, frame.len)]
  /\ UNCHANGED <<enabled, asked, table, origin>>

(* socket_receive_callback copies the frame into a RECEIVE package. *)
Deliver ==
  /\ at = "queued"
  /\ at' = "program"
  /\ UNCHANGED <<enabled, asked, table, frame, origin>>

(* The program has read DlcToBytes(dlc) bytes. *)
Consume == at = "program" /\ Gone

Next ==
  \/ EnablePort
  \/ \E can_port \in Order, id \in Id : AddFilter(can_port, id)
  \/ \E can_port \in Order, id \in Id, n \in Length :
       \E dlc \in Dlc \cup {BytesToDlc(n)} : SendOrder(can_port, id, dlc, n)
  \/ \E port \in DevPort, id \in Id, n \in Length : NodeSends(port, id, n)
  \/ SendCanData \/ Echo
  \/ Unread \/ SkipEmpty \/ NoFilter \/ GetRawCanData
  \/ Deliver \/ Consume

Spec == Init /\ [][Next]_frameVars

--------------------------------------------------------------------------------
Received == at \in {"queued", "program"}
SentByProgram == "dlc" \in DOMAIN origin

(* The type invariant: each form of the frame has its place. *)
TypeOK ==
  /\ enabled \in SUBSET DevPort
  /\ asked \in SUBSET (Order \X Id)
  /\ table \in [DevPort -> SUBSET Id]
  /\ at \in {"nowhere", "order", "hal", "bus", "queued", "program"}
  /\ at \in {"order", "queued", "program"} => frame \in CanFrame
  /\ at \in {"hal", "bus"} => frame \in HalFrame
  /\ at # "nowhere" => origin \in CanFrame \cup HalFrame

(* A program's frame that a node answers unchanged comes back with its id,  *)
(* its flags, its dlc (the highest one if it had none of CAN FD's), and as  *)
(* much of its payload as that dlc stands for (send_can_data and            *)
(* get_raw_can_data undo each other).                                       *)
EchoIsFaithful ==
  Received /\ SentByProgram =>
    /\ frame.id = origin.id
    /\ frame.flags = origin.flags
    /\ frame.dlc = AtMost(origin.dlc, 15)
    /\ frame.data = AtMost(origin.data, DlcToBytes(origin.dlc))

(* A program that announces n bytes by can_bytes_to_dlc(n) gets all of them *)
(* back; and a program that reads can_dlc_to_bytes(dlc) bytes of a frame    *)
(* from a bus misses none, stays inside the frame, and reads more than were *)
(* sent only where no dlc stands for that length (can_bytes_to_dlc).        *)
NoByteLost ==
  Received =>
    IF SentByProgram
    THEN origin.dlc = BytesToDlc(origin.data) => frame.data = origin.data
    ELSE /\ frame.data = origin.len
         /\ DlcToBytes(frame.dlc) \in origin.len .. 64
         /\ \A d \in 0 .. 15 : DlcToBytes(d) = origin.len => frame.dlc = d

(* What reaches a program came over the port start_controller enables, and  *)
(* some program has asked for its id (match_can_filter).                    *)
OnlyAskedIds ==
  Received => /\ frame.port = 5
              /\ \E can_port \in Order : <<can_port, frame.id>> \in asked
================================================================================
