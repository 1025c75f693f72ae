---------------------------- MODULE IntTelemetry ----------------------------
(***************************************************************************)
(* The telemetry loop of HPCC: every switch on the path pushes an INT      *)
(* record on each data packet that leaves it (p4src/hpcc.p4, egress), the  *)
(* reflector returns the stack in the ACK (receiver/reflector.py) and the  *)
(* sender compares each record with the last one it has of the same hop    *)
(* (_compute_u of the HPCC senders).                                       *)
(*                                                                         *)
(* Packets and ACKs may overtake each other and get lost.  One clock       *)
(* stands for the egress timestamps of all switches: only differences of   *)
(* one switch's timestamps are ever taken.                                 *)
(*                                                                         *)
(* The controller sets a counter back to 0 when it loads the tables, and   *)
(* between the trials of bdp_sweep/run.py, where a new sender also takes   *)
(* the place of the old one while packets of the old one may be about.     *)
(*                                                                         *)
(* Names that end in _Something: see WindowedSender.                       *)
(***************************************************************************)
EXTENDS Integers, Sequences, FiniteSets, FiniteSetsExt, Functions

CONSTANTS
  NumSwitches,   (* the path is switch 1, 2, ..., NumSwitches.             *)
  MaxHops,       (* MAX_HOPS, the depth of the hop stack.                  *)
  LinkBps,       (* switches whose link_bps register the controller set.   *)
  Packets,       (* data packets of the sender under study.                *)
  PacketLen, HopLen,     (* a packet's length before any hop, and a hop's. *)
  CounterMod,    (* 2^48: tx_byte_count wraps there.                       *)
  TxInit,        (* what the counter shows at the start.                   *)
  QDepths,       (* values of enq_qdepth.                                  *)
  QUnit, RateUnit,   (* scales of the two terms of u_i.                    *)
  MaxTime, MaxCross, MaxResets,  (* bounds of the model: clock, other      *)
                 (* senders' packets, resets of a counter,               *)
  ResetAt        (* ... and the switches whose counter is reset.         *)

Switches == 1..NumSwitches

(* Between two records the counter goes round less than once.              *)
ASSUME TelemetryAssumption ==
  /\ {NumSwitches, MaxHops, PacketLen, HopLen, QUnit} \subseteq Nat \ {0}
  /\ {MaxTime, MaxCross, MaxResets} \subseteq Nat /\ IsFiniteSet(Packets)
  /\ LinkBps \subseteq Switches /\ ResetAt \subseteq Switches
  /\ QDepths \subseteq Nat
  /\ CounterMod \in Nat /\ TxInit \in 0..(CounterMod - 1)
  /\ (Cardinality(Packets) + MaxCross) * (PacketLen + MaxHops * HopLen) < CounterMod
  /\ RateUnit \in Nat /\ RateUnit >= MaxTime

VARIABLES
  now,            (* egress_global_timestamp                               *)
  tx_byte_count,  (* per switch, the register of the egress port           *)
  sent_bytes,     (* history: the same without wrapping, from 0            *)
  cross,          (* other senders' packets so far                         *)
  resets,         (* per switch: how often its counter was set to 0        *)
  hop_count,      (* per packet: switches passed, or Gone                  *)
  hops,           (* per packet: its stack of records                      *)
  hop_last,       (* the sender: last record seen, per hop                 *)
  u,              (* the sender: what the last _compute_u returned         *)
  samples,        (* ... and the hops it measured: [db, dt, from, to]      *)
  counted,        (* history: bytes the samples of a hop have counted      *)
  first,          (* history: the first record of a hop the sender saw     *)
  reordered       (* history: hops of which an older record came later     *)

switch == <<now, tx_byte_count, sent_bytes, cross, resets>>
sender == <<hop_last, u, samples, counted, first, reordered>>
vars == <<switch, hop_count, hops, sender>>

None == << >>
Gone == NumSwitches + 1

NoRecord == [s \in Switches |-> None]
NoBytes == [s \in Switches |-> 0]

Init ==
  /\ now = 0 /\ cross = 0 /\ resets = NoBytes
  /\ tx_byte_count = [s \in Switches |-> TxInit]
  /\ sent_bytes = NoBytes
  /\ hop_count = [p \in Packets |-> 0]
  /\ hops = [p \in Packets |-> << >>]
  /\ hop_last = NoRecord /\ first = NoRecord /\ counted = NoBytes
  /\ u = 0 /\ samples = {} /\ reordered = {}

(***************************************************************************)
(* HpccEgress.                                                             *)
(***************************************************************************)

(* Time may stand still between two departures.                            *)
Tick == now' \in {now, now + 1} /\ now' <= MaxTime

Transmit(s, len) ==
  /\ tx_byte_count' = [tx_byte_count EXCEPT ![s] = (@ + len) % CounterMod]
  /\ sent_bytes' = [sent_bytes EXCEPT ![s] = @ + len]

(* The record, made after the counter has been moved.                      *)
Hop(s, qdepth) ==
  [switch |-> s, qdepth |-> qdepth, tstamp |-> now',
   bytes |-> tx_byte_count'[s], sent |-> sent_bytes'[s], resets |-> resets[s]]

Full_OneMore(stack) == Len(stack) > MaxHops
Full(stack) == Len(stack) >= MaxHops

(* Packet p leaves the next switch on its path.  A packet whose stack is   *)
(* full leaves unmodified, and uncounted.                                  *)
Egress(p) ==
  LET s == hop_count[p] + 1
  IN  /\ s \in Switches
      /\ Tick
      /\ hop_count' = [hop_count EXCEPT ![p] = s]
      /\ IF Full(hops[p])
           THEN UNCHANGED <<tx_byte_count, sent_bytes, hops>>
           ELSE /\ Transmit(s, PacketLen + (Len(hops[p]) + 1) * HopLen)
                /\ \E q \in QDepths :
                     hops' = [hops EXCEPT ![p] = <<Hop(s, q)>> \o @]
      /\ UNCHANGED <<cross, resets, sender>>

(* A data packet of another sender leaves switch s.                        *)
CrossTraffic(s) ==
  /\ cross < MaxCross
  /\ cross' = cross + 1
  /\ Tick
  /\ Transmit(s, PacketLen + HopLen)
  /\ UNCHANGED <<resets, hop_count, hops, sender>>

(***************************************************************************)
(* The controller and the driver.                                          *)
(***************************************************************************)

(* register_write tx_byte_count_reg s 0                                    *)
Reset(s) ==
  /\ resets[s] < MaxResets
  /\ tx_byte_count' = [tx_byte_count EXCEPT ![s] = 0]
  /\ resets' = [resets EXCEPT ![s] = @ + 1]
  /\ UNCHANGED <<now, sent_bytes, cross, hop_count, hops, sender>>

(* The next trial: the sender's process is a new one.                      *)
NextTrial ==
  /\ hop_last' = NoRecord /\ first' = NoRecord /\ counted' = NoBytes
  /\ u' = 0 /\ samples' = {} /\ reordered' = {}
  /\ UNCHANGED <<switch, hop_count, hops>>

(* A packet or its ACK is lost, or the sender ignores the ACK.             *)
Lose(p) ==
  /\ hop_count[p] # Gone
  /\ hop_count' = [hop_count EXCEPT ![p] = Gone]
  /\ hops' = [hops EXCEPT ![p] = << >>]
  /\ UNCHANGED <<switch, sender>>

(***************************************************************************)
(* _compute_u, on the stack of one ACK.                                    *)
(***************************************************************************)

(* The record of switch s on the stack, if the sender can use it at all.   *)
Usable(stack) == {h \in Range(stack) : h.switch \in LinkBps}

Sample_Unwrapped(h) ==
  LET last == hop_last[h.switch]
  IN  [db |-> (h.bytes - last.bytes) % CounterMod, dt |-> h.tstamp - last.tstamp,
       from |-> last, to |-> h]
Sample(h) ==
  LET last == hop_last[h.switch]
  IN  [db |-> h.bytes - last.bytes, dt |-> h.tstamp - last.tstamp,
       from |-> last, to |-> h]

(* Not the first of its hop, dt > 0 and db >= 0.                           *)
Measured_AnyBytes(sample) == sample.dt > 0
Measured(sample) == sample.dt > 0 /\ sample.db >= 0

SamplesOf(seen) ==
  {m \in {Sample(h) : h \in {k \in seen : hop_last[k.switch] # None}} : Measured(m)}

(* q_bytes / b_bytes + tx_rate / link_bps.                                 *)
UOf_QueueOnly(m) == m.to.qdepth * QUnit
UOf(m) == m.to.qdepth * QUnit + (m.db * RateUnit) \div m.dt

(* hop_last is replaced before a sample is judged: also by the record of   *)
(* an ACK that was overtaken, and by one that gives no sample.             *)
Remembered_FirstOnly(seen) ==
  [s \in Switches |->
     IF hop_last[s] = None /\ \E h \in seen : h.switch = s
       THEN CHOOSE h \in seen : h.switch = s ELSE hop_last[s]]
Remembered(seen) ==
  [s \in Switches |->
     IF \E h \in seen : h.switch = s
       THEN CHOOSE h \in seen : h.switch = s ELSE hop_last[s]]

ComputeU(stack) ==
  LET seen == Usable(stack)
      used == SamplesOf(seen)
  IN  /\ samples' = used
      /\ u' = Max({0} \cup {UOf(m) : m \in used})
      /\ hop_last' = Remembered(seen)
      /\ counted' = [s \in Switches |->
           counted[s] + SumSet({m.db : m \in {n \in used : n.to.switch = s}})]
      /\ first' = [s \in Switches |->
           IF first[s] = None THEN hop_last'[s] ELSE first[s]]
      /\ reordered' = reordered \cup
           {h.switch : h \in {k \in seen : hop_last[k.switch] # None
                                /\ k.sent < hop_last[k.switch].sent}}

(* The reflector has answered and the ACK reaches the sender.              *)
RecvAck(p) ==
  /\ hop_count[p] = NumSwitches
  /\ ComputeU(hops[p])
  /\ hop_count' = [hop_count EXCEPT ![p] = Gone]
  /\ hops' = [hops EXCEPT ![p] = << >>]
  /\ UNCHANGED switch

Next ==
  \/ \E p \in Packets : Egress(p) \/ Lose(p) \/ RecvAck(p)
  \/ \E s \in Switches : CrossTraffic(s)
  \/ \E s \in ResetAt : Reset(s)
  \/ NextTrial

Spec == Init /\ [][Next]_vars

-----------------------------------------------------------------------------

Record ==
  [switch : Switches, qdepth : QDepths, tstamp : 0..MaxTime,
   bytes : 0..(CounterMod - 1), sent : Nat, resets : 0..MaxResets]

TypeOK ==
  /\ now \in 0..MaxTime /\ cross \in 0..MaxCross
  /\ resets \in [Switches -> 0..MaxResets]
  /\ tx_byte_count \in [Switches -> 0..(CounterMod - 1)]
  /\ sent_bytes \in [Switches -> Nat]
  /\ hop_count \in [Packets -> 0..Gone]
  /\ \A p \in Packets : Len(hops[p]) <= MaxHops /\ Range(hops[p]) \subseteq Record
  /\ \A s \in Switches : hop_last[s] \in {None} \cup Record
  /\ \A s \in Switches : first[s] \in {None} \cup Record
  /\ u \in Nat /\ counted \in [Switches -> Nat] /\ reordered \subseteq LinkBps

(* What the sender divides by the elapsed time is what really left the     *)
(* port between the two records, whatever was lost or overtaken and        *)
(* whenever the counter wrapped: a record older than the last one, or from *)
(* the other side of a wrap, gives no sample.  Only a reset in between     *)
(* that the counter has already made up for goes unnoticed.                *)
TrueRate ==
  \A m \in samples : m.from.resets = m.to.resets => m.db = m.to.sent - m.from.sent

(* An unnoticed reset makes a port look idler than it is, never busier:    *)
(* no sample is too large, also when an ACK of an earlier trial, with its  *)
(* record from before the reset, is the first the new sender sees.         *)
NeverTooBusy == \A m \in samples : m.db <= m.to.sent - m.from.sent

(* As long as the records of a hop come in order, the samples count no     *)
(* byte of the port twice: they never add up to more than what left it     *)
(* between the first record and the last.                                  *)
NoByteCountedTwice ==
  \A s \in Switches \ reordered :
    counted[s] > 0 => counted[s] <= hop_last[s].sent - first[s].sent

(* The callers take u = 0 for "no hop could be measured".  It is nothing   *)
(* else: a measured hop has u_i > 0, idle as its queue may be.  (After a   *)
(* reset a counter may stand exactly where it stood.)                      *)
EverySampleCounts ==
  (u > 0 => samples # {})
    /\ \A m \in samples : m.from.resets = m.to.resets => u > 0

(* A packet carries the records of the first switches it passed, up to     *)
(* MAX_HOPS of them, the latest in front.                                  *)
StackIsPath ==
  \A p \in Packets : hop_count[p] # Gone =>
    /\ Len(hops[p]) = Min({hop_count[p], MaxHops})
    /\ \A i \in 1..Len(hops[p]) : hops[p][i].switch = Len(hops[p]) - i + 1

=============================================================================
