------------------------------ MODULE Dumbbell ------------------------------
(***************************************************************************)
(* The way of a packet and of its answer through the dumbbell: hosts h_i   *)
(* on port i of switch s1, s1 on port 1 of switch s2, the reflector's host *)
(* r1 on port 2 of s2 (topo/dumbbell.py), the forwarding and egress of the *)
(* two switch programs (p4src), and the tables, which the loader fills one *)
(* command after the other, s1 before s2 (controller/load_tables.py),      *)
(* while packets may already be about.                                     *)
(*                                                                         *)
(* One exchange is in the network at a time: a data packet of some host    *)
(* and its ACK, or a ping.  What packets share, queues and counters, is    *)
(* the subject of DctcpSwitch and IntTelemetry; here a packet finds any    *)
(* depth, and may be dropped by a full queue.  A checksum is the very      *)
(* thing it was computed over.                                             *)
(*                                                                         *)
(* Names that end in _Something: see WindowedSender.                       *)
(***************************************************************************)
EXTENDS WireFormat, FiniteSets

CONSTANTS
  MaxSenders,    (* MAX_SENDERS                                            *)
  MaxPadding,    (* --padding; the probes of the base RTT have none        *)
  Seqs,          (* sequence numbers                                       *)
  Ttl,           (* what hosts send with                                   *)
  Mtu,           (* of every link                                          *)
  EcnK, QDepths, (* --ecn-k, values of enq_qdepth                          *)
  MaxDrops       (* bound of the model: packets dropped by full queues     *)

ASSUME DumbbellAssumption ==
  /\ MaxSenders \in 1..9 /\ {MaxPadding, Ttl, Mtu, EcnK, MaxDrops} \subseteq Nat
  /\ Ttl # 0 /\ Seqs \subseteq Nat /\ QDepths \subseteq Nat

(***************************************************************************)
(* The topology.  Nodes, IP and MAC addresses are numbers: 10.0.0.i is i.  *)
(***************************************************************************)

R1 == 10
S1 == 101
S2 == 102
Switches == {S1, S2}
Senders == 1..MaxSenders
Hosts == Senders \cup {R1}
BottleneckPort == MaxSenders + 1
Ports == 0..BottleneckPort

Ip(host) == host
Mac(host) == host

(* Both ends of a link: <<node, port>>.                                    *)
Links ==
  {{<<i, 0>>, <<S1, i>>} : i \in Senders}
    \cup {{<<S1, BottleneckPort>>, <<S2, 1>>}, {<<S2, 2>>, <<R1, 0>>}}
Nowhere == <<0, 0>>
Peer(end) ==
  LET link == {l \in Links : end \in l}
  IN  IF link = {} THEN Nowhere ELSE CHOOSE e \in UNION link : e # end

(***************************************************************************)
(* The loader.                                                             *)
(***************************************************************************)

S1GwMac == 201
S2GwMac == 202

Route(s, host, dst_mac, port) ==
  [switch |-> s, table |-> "ipv4_lpm", key |-> Ip(host),
   value |-> [dst_mac |-> dst_mac, port |-> port]]
Write(s, register, index, value) ==
  [switch |-> s, table |-> register, key |-> index, value |-> value]

S1Routes_SharedMac ==
  [i \in Senders |-> Route(S1, i, Mac(1), i)]
    \o <<Route(S1, R1, S2GwMac, BottleneckPort)>>
S1Routes ==
  [i \in Senders |-> Route(S1, i, Mac(i), i)]
    \o <<Route(S1, R1, S2GwMac, BottleneckPort)>>
S2Routes == [i \in Senders |-> Route(S2, i, S1GwMac, 1)] \o <<Route(S2, R1, Mac(R1), 2)>>

DctcpCommands ==
  S1Routes \o <<Write(S1, "ecn_threshold", 0, EcnK)>>
    \o S2Routes \o <<Write(S2, "ecn_threshold", 0, EcnK)>>
HpccS1 ==
  S1Routes \o <<Write(S1, "switch_id", 0, 1)>>
    \o [i \in Senders |-> Write(S1, "link_bps", i, 100)]
    \o <<Write(S1, "link_bps", BottleneckPort, 10)>>
HpccS2_BpsFirst ==
  S2Routes \o <<Write(S2, "link_bps", 1, 100), Write(S2, "link_bps", 2, 100),
                Write(S2, "switch_id", 0, 2)>>
HpccS2 ==
  S2Routes \o <<Write(S2, "switch_id", 0, 2),
                Write(S2, "link_bps", 1, 100), Write(S2, "link_bps", 2, 100)>>
Commands(p) == IF p = "dctcp" THEN DctcpCommands ELSE HpccS1 \o HpccS2

VARIABLES
  program,       (* the P4 program of both switches                        *)
  loader_pc,     (* the next command; past the last: done, 0: failed       *)
  ipv4_lpm,      (* of each switch: entry or NoRoute, for each address     *)
  registers,     (* of each switch                                         *)
  frame,         (* the frame of the exchange, where it is, or None        *)
  drops          (* by full queues, so far                                 *)

vars == <<program, loader_pc, ipv4_lpm, registers, frame, drops>>

NoRoute == [dst_mac |-> 0, port |-> 0]
None == [at |-> Nowhere]

Init ==
  /\ program \in {"dctcp", "hpcc"} /\ loader_pc = 1
  /\ ipv4_lpm = [s \in Switches |-> [host \in Hosts |-> NoRoute]]
  /\ registers = [s \in Switches |->
       [ecn_threshold |-> [i \in {0} |-> 0], switch_id |-> [i \in {0} |-> 0],
        link_bps |-> [port \in Ports |-> 0]]]
  /\ frame = None /\ drops = 0

LoadNext ==
  /\ loader_pc \in DOMAIN Commands(program)
  /\ LET c == Commands(program)[loader_pc]
     IN  IF c.table = "ipv4_lpm"
           THEN /\ ipv4_lpm' = [ipv4_lpm EXCEPT ![c.switch][c.key] = c.value]
                /\ UNCHANGED registers
           ELSE /\ registers' = [registers EXCEPT ![c.switch][c.table][c.key] = c.value]
                /\ UNCHANGED ipv4_lpm
  /\ loader_pc' = loader_pc + 1
  /\ UNCHANGED <<program, frame, drops>>

Loaded == loader_pc = Len(Commands(program)) + 1

(* push exits on an error or a timeout of the CLI.                         *)
LoadFails ==
  /\ loader_pc \in DOMAIN Commands(program)
  /\ loader_pc' = 0
  /\ UNCHANGED <<program, ipv4_lpm, registers, frame, drops>>

(***************************************************************************)
(* Frames, and the hosts' kernels.                                         *)
(***************************************************************************)

(* An IP packet of a host: protocol and port, and the payload.  The last   *)
(* fields are history: sender and number, the hops made, marked or not.    *)
IpFrame(src, dst, ecn, proto, port, payload) ==
  LET ip == [src |-> Ip(src), dst |-> Ip(dst), ttl |-> Ttl, ecn |-> ecn,
             total_len |-> 20 + 8 + Bytes(payload)]
  IN  [at |-> Peer(<<src, 0>>), src_mac |-> Mac(src), dst_mac |-> Mac(dst),
       ip |-> ip, hdr_checksum |-> ip, proto |-> proto, dst_port |-> port,
       udp_length |-> 8 + Bytes(payload), udp_checksum |-> payload, payload |-> payload,
       sender |-> src, seq |-> 0, trail |-> << >>, marked |-> FALSE]

Zero == << >>

(* What a kernel lets through: its own addresses, and checksums that agree *)
(* or, for UDP, are 0.                                                     *)
Accepted(f) ==
  /\ f.dst_mac = Mac(f.at[1]) /\ f.ip.dst = Ip(f.at[1])
  /\ f.hdr_checksum = f.ip /\ f.udp_checksum \in {Zero, f.payload}

Here(nodes) == frame.at[1] \in nodes
Becomes(f) ==
  /\ frame' = f
  /\ UNCHANGED <<program, loader_pc, ipv4_lpm, registers>>

SendData(h) ==
  /\ frame = None
  /\ \E seq \in Seqs, padding \in {0, MaxPadding} :
       Becomes([IpFrame(h, R1, "ECT_0", "udp", "DATA", DataPacketPack(seq, padding))
                     EXCEPT !.seq = seq])
  /\ UNCHANGED drops

SendPing(h) ==
  /\ frame = None
  /\ Becomes(IpFrame(h, R1, "NOT_ECT", "icmp", "none", Padding(56)))
  /\ UNCHANGED drops

(* run_reflector, or the kernel's answer to a ping.                        *)
Answer(f) ==
  LET ack == BuildAck(f.payload, f.ip.ecn = "CE")
      reply(proto, port, payload) ==
        [IpFrame(R1, f.ip.src, "NOT_ECT", proto, port, payload)
           EXCEPT !.sender = f.sender, !.seq = f.seq, !.trail = f.trail,
                  !.marked = f.marked]
  IN  IF ~Accepted(f) THEN None
      ELSE IF f.proto = "icmp" THEN reply("icmp", "none", f.payload)
      ELSE IF ack = NoAck THEN None ELSE reply("udp", "ACK", ack)

Reflect == Here({R1}) /\ Becomes(Answer(frame)) /\ UNCHANGED drops

(* The sender takes the answer from its socket.                            *)
Receive == Here(Senders) /\ Becomes(None) /\ UNCHANGED drops

(***************************************************************************)
(* The switches                                                            *)
(***************************************************************************)

(* HpccIngress, DctcpIngress: forwarded by the table, whose default is to  *)
(* drop, unless the TTL is used up.                                        *)
Dropped(f) == f.ip.ttl <= 1 \/ ipv4_lpm[f.at[1]][f.ip.dst] = NoRoute
Ingress(f) ==
  LET entry == ipv4_lpm[f.at[1]][f.ip.dst]
  IN  [f EXCEPT !.src_mac = f.dst_mac, !.dst_mac = entry.dst_mac, !.ip.ttl = @ - 1]

IsData(f) == f.proto = "udp" /\ f.dst_port = "DATA"

(* Parsed on the way in and put together again on the way out.             *)
Headers(f) == CommonParser(f.payload, IF f.dst_port = "DATA" THEN "data" ELSE "ack")
Emitted(f, hdr) ==
  IF f.proto = "udp" THEN [f EXCEPT !.payload = CommonDeparser(hdr)] ELSE f

(* HpccEgress: the entry, and the lengths and the checksum that go with it.*)
Fixed_UdpOnly(f) ==
  [f EXCEPT !.udp_length = @ + INT_HOP_SIZE, !.udp_checksum = Zero]
Fixed(f) ==
  [f EXCEPT !.udp_length = @ + INT_HOP_SIZE, !.ip.total_len = @ + INT_HOP_SIZE,
            !.udp_checksum = Zero]

HpccEgress(f, port, q) ==
  LET s == f.at[1]
      hdr == Headers(f)
      hop == IntHop(registers[s].switch_id[0], f.at[2], port, q,
                    registers[s].link_bps[port])
  IN  IF ~IsData(f) \/ hdr.shim.hop_count >= MAX_HOPS THEN Emitted(f, hdr)
      ELSE Fixed(Emitted([f EXCEPT !.trail = <<<<s, f.at[2], port>>>> \o @],
                         PushHop(hdr, hop)))

(* DctcpEgress                                                             *)
DctcpEgress(f, q) ==
  LET out == Emitted(f, Headers(f))
  IN  IF IsData(f) /\ f.ip.ecn # "NOT_ECT" /\ q > registers[f.at[1]].ecn_threshold[0]
        THEN [out EXCEPT !.ip.ecn = "CE", !.marked = TRUE] ELSE out

Egress(f, port, q) ==
  IF program = "hpcc" THEN HpccEgress(f, port, q) ELSE DctcpEgress(f, q)

(* CommonComputeChecksum, and the frame goes out on the link.              *)
Departed_StaleChecksum(f, port) == [f EXCEPT !.at = Peer(<<f.at[1], port>>)]
Departed(f, port) ==
  [f EXCEPT !.hdr_checksum = f.ip, !.at = Peer(<<f.at[1], port>>)]

Forward ==
  /\ Here(Switches)
  /\ LET f == frame
         port == ipv4_lpm[f.at[1]][f.ip.dst].port
     IN  IF Dropped(f) THEN Becomes(None)
         ELSE \E q \in QDepths : \E g \in {Egress(Ingress(f), port, q)} :
                Becomes(Departed(g, port))
  /\ UNCHANGED drops

(* The queue of the output port is full.                                   *)
QueueDrops ==
  /\ Here(Switches) /\ drops < MaxDrops
  /\ Becomes(None)
  /\ drops' = drops + 1

Next ==
  \/ LoadNext \/ LoadFails
  \/ \E h \in Senders : SendData(h) \/ SendPing(h)
  \/ Forward \/ QueueDrops \/ Reflect \/ Receive

Spec == Init /\ [][Next]_vars

(* Switches, reflector and senders go on, and every host sends packets of  *)
(* each kind again and again, whatever the others do (strong fairness,     *)
(* since here an exchange makes the others wait); queues need not drop.    *)
FairSpec ==
  /\ Spec /\ WF_vars(Forward) /\ WF_vars(Reflect) /\ WF_vars(Receive)
  /\ \A h \in Senders : SF_vars(SendData(h)) /\ SF_vars(SendPing(h))

-----------------------------------------------------------------------------

Underway == frame # None
AtSender(f) == f.at[1] = f.sender
IsAck(f) == f.proto = "udp" /\ f.dst_port = "ACK"

TypeOK ==
  /\ program \in {"dctcp", "hpcc"} /\ loader_pc \in 0..(Len(Commands(program)) + 1)
  /\ \A s \in Switches, host \in Hosts :
       ipv4_lpm[s][host].port \in Ports /\ DOMAIN ipv4_lpm[s] = Hosts
  /\ \A s \in Switches : DOMAIN registers[s].link_bps = Ports
  /\ Underway => frame.at[1] \in Hosts \cup Switches /\ frame.ip.ttl \in 1..Ttl
  /\ drops \in 0..MaxDrops

(* On every link, lengths say what is there and checksums are good: what   *)
(* the switches insert and mark is made up for in all headers around it.   *)
(* And no frame outgrows the link, although nothing looks when a hop is    *)
(* added: with the default padding two hops just fit.                      *)
WellFormed ==
  Underway => LET f == frame IN
    /\ f.ip.total_len = 20 + f.udp_length /\ f.udp_length = 8 + Bytes(f.payload)
    /\ f.ip.total_len <= Mtu
    /\ f.hdr_checksum = f.ip /\ f.udp_checksum \in {Zero, f.payload}

(* A frame that reaches a host is for that host, by both addresses, and    *)
(* one that leaves a switch has a link: the tables of the loader agree     *)
(* with the topology at every moment of loading.                           *)
DeliveredRight ==
  Underway => LET f == frame IN
    /\ f.at # Nowhere
    /\ f.at[1] \in Hosts => f.dst_mac = Mac(f.at[1]) /\ f.ip.dst = Ip(f.at[1])

(* What a sender reads from its ACK is what happened to its packet: its    *)
(* number, an echo just if a switch has marked it, and the ports it passed *)
(* with the latest in front; and the three parsers agree on it.            *)
RoundTrip ==
  Underway => LET f == frame  ack == HpccParseAck(f.payload) IN
    AtSender(f) /\ IsAck(f) =>
      /\ ack.seq = f.seq /\ ack.ecn_echo = f.marked
      /\ [i \in DOMAIN ack.hops |-> <<ack.hops[i].ingress_port, ack.hops[i].egress_port>>]
           = [i \in DOMAIN f.trail |-> <<f.trail[i][2], f.trail[i][3]>>]
      /\ CParseAck(f.payload) = ack
      /\ DctcpUnpackAck(f.payload) = [ack EXCEPT !.hops = << >>]

(* A hop the senders use (its link_bps is not 0) names its switch and the  *)
(* capacity of its port, also when it was added while the tables were      *)
(* still being loaded.                                                     *)
TrueBps(s, port) == IF s = S1 /\ port = BottleneckPort THEN 10 ELSE 100
NamedRight ==
  Underway => LET f == frame  hops == HpccParseAck(f.payload).hops IN
    AtSender(f) /\ IsAck(f) =>
      \A i \in DOMAIN hops : hops[i].link_bps # 0 =>
        /\ hops[i].switch_id = f.trail[i][1] - 100
        /\ hops[i].link_bps = TrueBps(f.trail[i][1], f.trail[i][3])

(* Once the tables are loaded, every host gets its packets acknowledged    *)
(* and its pings answered.                                                 *)
Answered(h, proto) ==
  frame.at[1] = h /\ frame.proto = proto /\ frame.sender = h /\ Accepted(frame)
AllAnswered ==
  \A h \in Senders : (Loaded ~> Answered(h, "udp")) /\ (Loaded ~> Answered(h, "icmp"))

=============================================================================
