---------------------------- MODULE FramePathProofs ----------------------------
(***************************************************************************)
(* Proofs about FramePath: the length conversions and the byte reversal    *)
(* for all their arguments, and that a frame survives the way to the bus   *)
(* and back whatever ids, ports, dlc values and lengths the programs use.  *)
(***************************************************************************)
EXTENDS FramePath, TLAPS

(* BSWAP_32 undoes itself: an id that the HAL reverses again is the         *)
(* program's id.                                                            *)
THEOREM BswapInvolution ==
  ASSUME NEW x \in [1 .. 4 -> 0 .. 255]
  PROVE  BSWAP_32(x) \in [1 .. 4 -> 0 .. 255] /\ BSWAP_32(BSWAP_32(x)) = x
<1>1. BSWAP_32(x) \in [1 .. 4 -> 0 .. 255]
  BY DEF BSWAP_32
<1>2. BSWAP_32(BSWAP_32(x)) = [b \in 1 .. 4 |-> x[b]]
  BY DEF BSWAP_32
<1> QED
  BY <1>1, <1>2

(* can_dlc_to_bytes answers at most 64 for any uint8_t: the copies stay     *)
(* inside data[64].                                                         *)
LEMMA DlcToBytesType ==
  ASSUME NEW d \in Nat
  PROVE  DlcToBytes(d) \in 0 .. 64
<1>1. AtMost(d, 15) \in 0 .. 15
  BY DEF AtMost
<1>2. \A k \in 0 .. 15 : dlc_table[k + 1] \in 0 .. 64
  BY DEF dlc_table
<1> QED
  BY <1>1, <1>2 DEF DlcToBytes

LEMMA BytesToDlcType ==
  ASSUME NEW n \in 0 .. 64
  PROVE  BytesToDlc(n) \in 0 .. 15
BY DEF BytesToDlc

(* The dlc of a number of bytes stands for at least as many bytes, and for  *)
(* no more than any other dlc that does (can_bytes_to_dlc).                 *)
THEOREM BytesToDlcTight ==
  ASSUME NEW n \in 0 .. 64
  PROVE  /\ DlcToBytes(BytesToDlc(n)) \in n .. 64
         /\ \A d \in 0 .. 15 : DlcToBytes(d) >= n => d >= BytesToDlc(n)
<1>1. \A d \in 0 .. 15 : DlcToBytes(d) = dlc_table[d + 1]
  BY DEF DlcToBytes, AtMost
<1>2. \A d \in 0 .. 15 : d <= 8 => dlc_table[d + 1] = d
  BY DEF dlc_table
<1>3. /\ dlc_table[10] = 12 /\ dlc_table[11] = 16 /\ dlc_table[12] = 20
      /\ dlc_table[13] = 24 /\ dlc_table[14] = 32 /\ dlc_table[15] = 48
      /\ dlc_table[16] = 64
  BY DEF dlc_table
<1>4. \A d \in 0 .. 15 : d \in 0 .. 8 \/ d = 9 \/ d = 10 \/ d = 11 \/ d = 12
                         \/ d = 13 \/ d = 14 \/ d = 15
  OBVIOUS
<1>5. \A d \in 0 .. 15 :
        /\ d <= 8 => DlcToBytes(d) = d
        /\ d = 9 => DlcToBytes(d) = 12
        /\ d = 10 => DlcToBytes(d) = 16
        /\ d = 11 => DlcToBytes(d) = 20
        /\ d = 12 => DlcToBytes(d) = 24
        /\ d = 13 => DlcToBytes(d) = 32
        /\ d = 14 => DlcToBytes(d) = 48
        /\ d = 15 => DlcToBytes(d) = 64
  BY <1>1, <1>2, <1>3
<1>6. /\ n <= 8 => BytesToDlc(n) = n
      /\ n \in 9 .. 12 => BytesToDlc(n) = 9
      /\ n \in 13 .. 16 => BytesToDlc(n) = 10
      /\ n \in 17 .. 20 => BytesToDlc(n) = 11
      /\ n \in 21 .. 24 => BytesToDlc(n) = 12
      /\ n \in 25 .. 32 => BytesToDlc(n) = 13
      /\ n \in 33 .. 48 => BytesToDlc(n) = 14
      /\ n \in 49 .. 64 => BytesToDlc(n) = 15
  BY DEF BytesToDlc
<1>7. \/ n <= 8 \/ n \in 9 .. 12 \/ n \in 13 .. 16 \/ n \in 17 .. 20 \/ n \in 21 .. 24
      \/ n \in 25 .. 32 \/ n \in 33 .. 48 \/ n \in 49 .. 64
  OBVIOUS
<1>8. DlcToBytes(BytesToDlc(n)) \in n .. 64
  BY <1>5, <1>6, <1>7
<1>9. ASSUME NEW d \in 0 .. 15, DlcToBytes(d) >= n
      PROVE  d >= BytesToDlc(n)
  BY <1>4, <1>5, <1>6, <1>7, <1>9
<1> QED
  BY <1>8, <1>9

(* Length and back is the identity on the dlc values of CAN FD, and a dlc   *)
(* past them comes back as the last one (can_dlc_to_bytes).                 *)
THEOREM DlcRoundTrip ==
  ASSUME NEW d \in Nat
  PROVE  BytesToDlc(DlcToBytes(d)) = AtMost(d, 15)
<1> DEFINE e == AtMost(d, 15)
<1>1. e \in 0 .. 15
  BY DEF AtMost
<1>2. \A k \in 0 .. 15 : BytesToDlc(dlc_table[k + 1]) = k
  BY DEF BytesToDlc, dlc_table
<1>3. DlcToBytes(d) = dlc_table[e + 1]
  BY DEF DlcToBytes
<1> HIDE DEF e
<1>4. BytesToDlc(DlcToBytes(d)) = e
  BY <1>1, <1>2, <1>3
<1> QED
  BY <1>4 DEF e

--------------------------------------------------------------------------------
(* What the frame is, stage by stage, in terms of how it set out.           *)
Journey ==
  /\ at # "nowhere" => \/ SentByProgram /\ origin \in CanFrame
                       \/ ~SentByProgram /\ origin \in HalFrame /\ origin.data = origin.len
  /\ at \in {"order", "hal"} => SentByProgram
  /\ at = "order" => frame = origin
  /\ at = "hal" => frame.canid = BSWAP_32(origin.id)
  /\ at \in {"hal", "bus"} /\ SentByProgram =>
       /\ frame.can_type = origin.flags
       /\ frame.len = DlcToBytes(origin.dlc)
       /\ frame.data = AtMost(origin.data, DlcToBytes(origin.dlc))
  /\ at = "bus" /\ SentByProgram => frame.canid = origin.id
  /\ at = "bus" /\ ~SentByProgram => frame = origin
  /\ Received /\ ~SentByProgram =>
       frame.data = origin.len /\ frame.dlc = BytesToDlc(origin.len)

(* The filters in force are those of port 5 that have been asked for.       *)
Filters ==
  /\ enabled \subseteq {5}
  /\ \A id \in table[5] : \E can_port \in Order : <<can_port, id>> \in asked
  /\ Received => frame.port = 5 /\ frame.id \in table[5]

IInv == TypeOK /\ Journey /\ EchoIsFaithful /\ Filters

(* The two forms are told apart by their fields. *)
LEMMA FormsDiffer ==
  /\ \A c \in CanFrame : "dlc" \in DOMAIN c
  /\ \A h \in HalFrame : "dlc" \notin DOMAIN h
BY DEF CanFrame, HalFrame

LEMMA InitInv == Init => IInv
BY DEF Init, IInv, TypeOK, Journey, EchoIsFaithful, Filters, Received, DevPort

(* The frame is gone, whatever ended its way. *)
LEMMA GoneInv == IInv /\ Gone => IInv'
BY DEF IInv, Gone, TypeOK, Journey, EchoIsFaithful, Filters, Received

(* Nothing in flight, and only the filters change. *)
LEMMA AddFilterInv ==
  ASSUME IInv, NEW can_port \in Order, NEW id \in Id, AddFilter(can_port, id)
  PROVE  IInv'
<1>1. TypeOK'
  BY DEF IInv, AddFilter, TypeOK, DevPort, CanDevPort
<1>2. Filters'
  BY DEF IInv, AddFilter, TypeOK, Filters, DevPort, CanDevPort, Received
<1>3. Journey' /\ EchoIsFaithful'
  BY DEF AddFilter, Journey, EchoIsFaithful, Received
<1> QED
  BY <1>1, <1>2, <1>3 DEF IInv

LEMMA SendOrderInv ==
  ASSUME IInv, NEW can_port \in Order, NEW id \in Id, NEW n \in Length,
         NEW dlc \in Dlc \cup {BytesToDlc(n)}, SendOrder(can_port, id, dlc, n)
  PROVE  IInv'
<1>1. n \in 0 .. 64 /\ dlc \in 0 .. 255 /\ can_port \in Nat /\ id \in [1 .. 4 -> 0 .. 255]
  BY FramePathAssumption, BytesToDlcType
<1>2. frame' \in CanFrame /\ origin' = frame' /\ at' = "order"
  BY <1>1 DEF SendOrder, CanFrame
<1>3. TypeOK'
  BY <1>2 DEF IInv, SendOrder, TypeOK
<1>4. Journey'
  BY <1>2, FormsDiffer DEF Journey, SentByProgram, Received
<1>5. Filters' /\ EchoIsFaithful'
  BY <1>2 DEF IInv, SendOrder, Filters, EchoIsFaithful, Received
<1> QED
  BY <1>3, <1>4, <1>5 DEF IInv

LEMMA NodeSendsInv ==
  ASSUME IInv, NEW port \in DevPort, NEW id \in Id, NEW n \in Length, NodeSends(port, id, n)
  PROVE  IInv'
<1>1. n \in 0 .. 64 /\ id \in [1 .. 4 -> 0 .. 255]
  BY FramePathAssumption
<1>2. /\ frame' \in HalFrame /\ origin' = frame' /\ at' = "bus"
      /\ frame'.data = frame'.len
  BY <1>1 DEF NodeSends, HalFrame
<1>3. TypeOK'
  BY <1>2 DEF IInv, NodeSends, TypeOK
<1>4. Journey'
  BY <1>2, FormsDiffer DEF Journey, SentByProgram, Received
<1>5. Filters' /\ EchoIsFaithful'
  BY <1>2 DEF IInv, NodeSends, Filters, EchoIsFaithful, Received
<1> QED
  BY <1>3, <1>4, <1>5 DEF IInv

(* A frame on its way to the HAL: its length and payload follow its dlc. *)
LEMMA SendCanDataInv == IInv /\ SendCanData => IInv'
<1> SUFFICES ASSUME IInv, SendCanData
             PROVE  IInv'
  OBVIOUS
<1>1. frame \in CanFrame /\ frame = origin /\ SentByProgram
  BY DEF IInv, TypeOK, Journey, SendCanData
<1>2. DlcToBytes(frame.dlc) \in 0 .. 64
  BY <1>1, DlcToBytesType DEF CanFrame
<1>3. AtMost(frame.data, DlcToBytes(frame.dlc)) \in 0 .. 64
  BY <1>1, <1>2 DEF CanFrame, AtMost
<1>4. BSWAP_32(frame.id) \in [1 .. 4 -> 0 .. 255]
  BY <1>1, BswapInvolution DEF CanFrame
<1>5. CanIpcHandle(frame.port) \in DevPort
  BY <1>1 DEF CanFrame, CanIpcHandle, DevPort
<1>6. frame.flags \in {0, 1}
  BY <1>1 DEF CanFrame
<1>7. frame' \in HalFrame
  BY <1>2, <1>3, <1>4, <1>5, <1>6 DEF SendCanData, HalFrame
<1>8. /\ at' = "hal" /\ frame'.canid = BSWAP_32(origin.id)
      /\ frame'.can_type = origin.flags
      /\ frame'.len = DlcToBytes(origin.dlc)
      /\ frame'.data = AtMost(origin.data, DlcToBytes(origin.dlc))
  BY <1>1 DEF SendCanData
<1>9. TypeOK'
  BY <1>7, <1>8 DEF IInv, TypeOK, SendCanData
<1>10. Journey'
  BY <1>1, <1>8 DEF IInv, Journey, SendCanData, SentByProgram, Received
<1>11. Filters' /\ EchoIsFaithful'
  BY <1>8 DEF IInv, SendCanData, Filters, EchoIsFaithful, Received
<1> QED
  BY <1>9, <1>10, <1>11 DEF IInv

LEMMA EchoInv == IInv /\ Echo => IInv'
<1> SUFFICES ASSUME IInv, Echo
             PROVE  IInv'
  OBVIOUS
<1>1. frame \in HalFrame /\ origin \in CanFrame /\ SentByProgram
  BY DEF IInv, TypeOK, Journey, Echo
<1>2. frame.canid = BSWAP_32(origin.id) /\ origin.id \in [1 .. 4 -> 0 .. 255]
  BY <1>1 DEF IInv, Journey, Echo, CanFrame
<1>3. BSWAP_32(frame.canid) = origin.id
  BY <1>2, BswapInvolution
<1>4. frame' = [frame EXCEPT !.canid = origin.id] /\ at' = "bus"
  BY <1>3 DEF Echo
<1>5. frame' \in HalFrame
  BY <1>1, <1>2, <1>4 DEF HalFrame
<1>6. /\ frame'.canid = origin.id /\ frame'.can_type = frame.can_type
      /\ frame'.len = frame.len /\ frame'.data = frame.data
  BY <1>1, <1>4 DEF HalFrame
<1>7. TypeOK'
  BY <1>4, <1>5 DEF IInv, TypeOK, Echo
<1>8. Journey'
  BY <1>1, <1>4, <1>6 DEF IInv, Journey, Echo, SentByProgram, Received
<1>9. Filters' /\ EchoIsFaithful'
  BY <1>4 DEF IInv, Echo, Filters, EchoIsFaithful, Received
<1> QED
  BY <1>7, <1>8, <1>9 DEF IInv

(* A frame that is read and matched: the dlc follows its length. *)
LEMMA GetRawCanDataInv == IInv /\ GetRawCanData => IInv'
<1> SUFFICES ASSUME IInv, GetRawCanData
             PROVE  IInv'
  OBVIOUS
<1>1. frame \in HalFrame /\ frame.channel = 5 /\ frame.canid \in table[5]
  BY DEF IInv, TypeOK, Filters, GetRawCanData
<1>2. frame.len \in 0 .. 64 /\ frame.data \in 0 .. 64
  BY <1>1 DEF HalFrame
<1>3. BytesToDlc(frame.len) \in 0 .. 15 /\ AtMost(frame.data, frame.len) \in 0 .. 64
  BY <1>2, BytesToDlcType DEF AtMost
<1>4. /\ frame' = [port |-> frame.channel, id |-> frame.canid,
                   dlc |-> BytesToDlc(frame.len), flags |-> frame.can_type,
                   data |-> AtMost(frame.data, frame.len)]
      /\ at' = "queued" /\ origin' = origin
  BY DEF GetRawCanData
<1>5. frame' \in CanFrame
  BY <1>1, <1>3, <1>4 DEF CanFrame, HalFrame
<1>6. ASSUME SentByProgram
      PROVE  /\ frame'.id = origin.id /\ frame'.flags = origin.flags
             /\ frame'.dlc = AtMost(origin.dlc, 15)
             /\ frame'.data = AtMost(origin.data, DlcToBytes(origin.dlc))
  <2>1. origin \in CanFrame /\ origin.dlc \in Nat /\ origin.data \in Nat
    BY <1>6 DEF IInv, Journey, GetRawCanData, CanFrame
  <2>2. /\ frame.canid = origin.id /\ frame.can_type = origin.flags
        /\ frame.len = DlcToBytes(origin.dlc)
        /\ frame.data = AtMost(origin.data, DlcToBytes(origin.dlc))
    BY <1>6 DEF IInv, Journey, GetRawCanData
  <2>3. BytesToDlc(frame.len) = AtMost(origin.dlc, 15)
    BY <2>1, <2>2, DlcRoundTrip
  <2>4. frame.data <= frame.len
    <3>1. DlcToBytes(origin.dlc) \in Nat
      BY <2>1, DlcToBytesType
    <3> QED
      BY <2>1, <2>2, <3>1 DEF AtMost
  <2>5. AtMost(frame.data, frame.len) = frame.data
    BY <1>2, <2>4 DEF AtMost
  <2> QED
    BY <1>4, <2>2, <2>3, <2>5
<1>7. ASSUME ~SentByProgram
      PROVE  frame'.data = origin.len /\ frame'.dlc = BytesToDlc(origin.len)
  <2>1. frame = origin /\ origin.data = origin.len
    BY <1>7 DEF IInv, Journey, GetRawCanData
  <2> QED
    BY <1>2, <1>4, <2>1 DEF AtMost
<1>8. TypeOK'
  BY <1>4, <1>5 DEF IInv, TypeOK, GetRawCanData
<1>9. Journey'
  BY <1>4, <1>7 DEF IInv, Journey, GetRawCanData, SentByProgram, Received
<1>10. EchoIsFaithful'
  BY <1>4, <1>6 DEF EchoIsFaithful, SentByProgram
<1>11. Filters'
  BY <1>1, <1>4 DEF IInv, GetRawCanData, Filters, Received
<1> QED
  BY <1>8, <1>9, <1>10, <1>11 DEF IInv

LEMMA NextInv == IInv /\ [Next]_frameVars => IInv'
<1> SUFFICES ASSUME IInv, [Next]_frameVars
             PROVE  IInv'
  OBVIOUS
<1>1. CASE EnablePort
  BY <1>1 DEF EnablePort, CanIpcHandle, DevPort, IInv, TypeOK, Journey, EchoIsFaithful,
              Filters, Received, SentByProgram
<1>2. CASE \E can_port \in Order, id \in Id : AddFilter(can_port, id)
  BY <1>2, AddFilterInv
<1>3. CASE \E can_port \in Order, id \in Id, n \in Length :
             \E dlc \in Dlc \cup {BytesToDlc(n)} : SendOrder(can_port, id, dlc, n)
  BY <1>3, SendOrderInv
<1>4. CASE \E port \in DevPort, id \in Id, n \in Length : NodeSends(port, id, n)
  BY <1>4, NodeSendsInv
<1>5. CASE SendCanData
  BY <1>5, SendCanDataInv
<1>6. CASE Echo
  BY <1>6, EchoInv
<1>7. CASE Unread \/ SkipEmpty \/ NoFilter \/ Consume
  BY <1>7, GoneInv DEF Unread, SkipEmpty, NoFilter, Consume
<1>8. CASE GetRawCanData
  BY <1>8, GetRawCanDataInv
<1>9. CASE Deliver
  BY <1>9 DEF Deliver, IInv, TypeOK, Journey, EchoIsFaithful, Filters, Received,
              SentByProgram
<1>10. CASE UNCHANGED frameVars
  BY <1>10 DEF frameVars, IInv, TypeOK, Journey, EchoIsFaithful, Filters, Received,
               SentByProgram
<1> QED
  BY <1>1, <1>2, <1>3, <1>4, <1>5, <1>6, <1>7, <1>8, <1>9, <1>10 DEF Next

LEMMA Invariance == Spec => []IInv
BY InitInv, NextInv, PTL DEF Spec

(* Every form of the frame keeps its type: no length exceeds data[64].      *)
THEOREM TypeCorrect == Spec => []TypeOK
<1>1. IInv => TypeOK
  BY DEF IInv
<1> QED
  BY <1>1, Invariance, PTL

(* A frame that is answered unchanged comes back as it was, but for a dlc   *)
(* past CAN FD's (send_can_data, get_raw_can_data).                         *)
THEOREM EchoesAreFaithful == Spec => []EchoIsFaithful
<1>1. IInv => EchoIsFaithful
  BY DEF IInv
<1> QED
  BY <1>1, Invariance, PTL

(* No byte of a payload is lost on the way, and the dlc is the one that     *)
(* stands for its length where there is one (can_bytes_to_dlc).             *)
THEOREM NoByteIsLost == Spec => []NoByteLost
<1>1. IInv => NoByteLost
  <2> SUFFICES ASSUME IInv, Received
               PROVE  NoByteLost
    BY DEF NoByteLost
  <2>1. CASE SentByProgram
    <3>1. origin \in CanFrame /\ frame.data = AtMost(origin.data, DlcToBytes(origin.dlc))
      BY <2>1 DEF IInv, Journey, EchoIsFaithful, Received
    <3>2. ASSUME origin.dlc = BytesToDlc(origin.data)
          PROVE  frame.data = origin.data
      <4>1. origin.data \in 0 .. 64
        BY <3>1 DEF CanFrame
      <4>2. DlcToBytes(origin.dlc) \in origin.data .. 64
        BY <3>2, <4>1, BytesToDlcTight
      <4> QED
        BY <3>1, <4>1, <4>2 DEF AtMost
    <3> QED
      BY <2>1, <3>2 DEF NoByteLost
  <2>2. CASE ~SentByProgram
    <3>1. origin \in HalFrame /\ frame.data = origin.len /\ frame.dlc = BytesToDlc(origin.len)
      BY <2>2 DEF IInv, Journey, Received
    <3>2. origin.len \in 0 .. 64
      BY <3>1 DEF HalFrame
    <3>3. DlcToBytes(frame.dlc) \in origin.len .. 64
      BY <3>1, <3>2, BytesToDlcTight
    <3>4. ASSUME NEW d \in 0 .. 15, DlcToBytes(d) = origin.len
          PROVE  frame.dlc = d
      BY <3>1, <3>4, DlcRoundTrip DEF AtMost
    <3> QED
      BY <2>2, <3>1, <3>3, <3>4 DEF NoByteLost
  <2> QED
    BY <2>1, <2>2
<1> QED
  BY <1>1, Invariance, PTL

(* What reaches a program came over port 5 and was asked for                *)
(* (match_can_filter).                                                      *)
THEOREM DeliveredIdsAreAsked == Spec => []OnlyAskedIds
<1>1. IInv => OnlyAskedIds
  BY DEF IInv, Filters, OnlyAskedIds
<1> QED
  BY <1>1, Invariance, PTL
================================================================================
