----------------------------- MODULE WireFormat -----------------------------
(***************************************************************************)
(* The UDP payloads of data packets and ACKs, as packed and unpacked by    *)
(* the Python senders (sender/packet_format.py), the C sender              *)
(* (csender/packet_format.h), the switches (p4src/common) and the          *)
(* reflector.                                                              *)
(*                                                                         *)
(* A payload is a sequence of parts with their sizes in bytes.  A reader   *)
(* asks for the part at a byte offset, as the code slices its buffers, and *)
(* gets garbage if no part of that kind begins just there.  Fields no      *)
(* property is about are left out: times, byte counts, reserved.           *)
(*                                                                         *)
(* Names that end in _Something: see WindowedSender.                       *)
(***************************************************************************)
EXTENDS Integers, Sequences

MAX_HOPS == 4

SHIM_SIZE == 4
INT_HOP_SIZE == 26
DATA_PAYLOAD_SIZE == 16
ACK_PAYLOAD_SIZE == 16

(* max_hops is set by every sender and looked at by nobody.                *)
Shim(ecn_echo, hop_count) ==
  [kind |-> "shim", bytes |-> SHIM_SIZE, ecn_echo |-> ecn_echo,
   hop_count |-> hop_count, max_hops |-> MAX_HOPS]
IntHop(switch_id, ingress_port, egress_port, qdepth, link_bps) ==
  [kind |-> "hop", bytes |-> INT_HOP_SIZE, switch_id |-> switch_id,
   ingress_port |-> ingress_port, egress_port |-> egress_port,
   qdepth |-> qdepth, link_bps |-> link_bps]
DataPayload(seq) == [kind |-> "data", bytes |-> DATA_PAYLOAD_SIZE, seq |-> seq]
AckPayload(seq) == [kind |-> "ack", bytes |-> ACK_PAYLOAD_SIZE, seq |-> seq]
Padding(n) == IF n = 0 THEN << >> ELSE <<[kind |-> "padding", bytes |-> n]>>
Garbage == [kind |-> "garbage", bytes |-> 0, seq |-> -1, hop_count |-> 0, ecn_echo |-> FALSE]

Bytes(buf) ==
  LET sum[i \in 0..Len(buf)] == IF i = 0 THEN 0 ELSE sum[i - 1] + buf[i].bytes
  IN  sum[Len(buf)]
StartsAt(buf, i, offset) == Bytes(SubSeq(buf, 1, i - 1)) = offset

(* buf[offset : offset + size of the kind]                                 *)
At(buf, offset, kind) ==
  LET here == {i \in DOMAIN buf : buf[i].kind = kind /\ StartsAt(buf, i, offset)}
  IN  IF here = {} THEN Garbage ELSE buf[CHOOSE i \in here : TRUE]

(* buf[offset :]                                                           *)
From(buf, offset) ==
  LET here == {i \in DOMAIN buf : StartsAt(buf, i, offset)}
  IN  IF here = {} THEN << >> ELSE SubSeq(buf, CHOOSE i \in here : TRUE, Len(buf))

ShimOf(buf) == At(buf, 0, "shim")
PayloadOffset(n) == SHIM_SIZE + n * INT_HOP_SIZE
HopsOf(buf, n) == [i \in 1..n |-> At(buf, PayloadOffset(i - 1), "hop")]

(* total_size                                                              *)
TotalSize(n_hops, kind) ==
  PayloadOffset(n_hops) + (IF kind = "data" THEN DATA_PAYLOAD_SIZE ELSE ACK_PAYLOAD_SIZE)

(* DataPacket(...).pack() and the padding after it; data_packet_pack.      *)
DataPacketPack(seq, padding) == <<Shim(FALSE, 0), DataPayload(seq)>> \o Padding(padding)

(* CommonParser, from the shim on, for a packet to either of our ports;    *)
(* and CommonDeparser: the headers, and what was not parsed after them.    *)
CommonParser(buf, kind) ==
  LET n == ShimOf(buf).hop_count
  IN  [shim |-> ShimOf(buf), hops |-> HopsOf(buf, n),
       app |-> At(buf, PayloadOffset(n), kind), rest |-> From(buf, TotalSize(n, kind))]
CommonDeparser(hdr) == <<hdr.shim>> \o hdr.hops \o <<hdr.app>> \o hdr.rest

(* hops.push_front and the fields of the new entry.                        *)
PushHop_AtEnd(hdr, hop) ==
  [hdr EXCEPT !.hops = @ \o <<hop>>, !.shim.hop_count = @ + 1]
PushHop(hdr, hop) ==
  [hdr EXCEPT !.hops = <<hop>> \o @, !.shim.hop_count = @ + 1]

(* _build_ack of the reflector: no ACK for a packet it cannot make out.    *)
NoAck == << >>
BuildAck(buf, ce) ==
  LET n == ShimOf(buf).hop_count
  IN  IF n > MAX_HOPS \/ Bytes(buf) < TotalSize(n, "data") THEN NoAck
      ELSE <<Shim(ce, n)>> \o HopsOf(buf, n)
             \o <<AckPayload(At(buf, PayloadOffset(n), "data").seq)>>

(* What a sender makes of an ACK.  The senders differ in how many hops     *)
(* they take: no check in DCTCP, 8 in the Python HPCC senders, MAX_HOPS in *)
(* the C sender, which has room for so many.                               *)
Rejected == [seq |-> -1, ecn_echo |-> FALSE, hops |-> << >>]
UnpackAck(buf, limit) ==
  LET n == ShimOf(buf).hop_count
  IN  IF n > limit \/ Bytes(buf) < TotalSize(n, "ack") THEN Rejected
      ELSE [seq |-> At(buf, PayloadOffset(n), "ack").seq,
            ecn_echo |-> ShimOf(buf).ecn_echo, hops |-> HopsOf(buf, n)]
DctcpUnpackAck(buf) == [UnpackAck(buf, 255) EXCEPT !.hops = << >>]
HpccParseAck(buf) == UnpackAck(buf, 8)
CParseAck(buf) == UnpackAck(buf, MAX_HOPS)

=============================================================================
