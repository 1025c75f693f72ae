---------------------------- MODULE DctcpSwitch ----------------------------
(***************************************************************************)
(* p4src/dctcp.p4: the switches a data packet crosses on its way, each     *)
(* with the queue of its output port.  A switch marks a packet that found  *)
(* more than K packets before it in the queue, and counts what it sends    *)
(* and what it marks.                                                      *)
(*                                                                         *)
(* A counter is read and then written, and the switch may work on several  *)
(* packets at once: the value read may be any the counter has held, and    *)
(* what others wrote since is lost.  A counter only ever grows beyond what *)
(* it has held by one, so that is every value up to the highest.           *)
(*                                                                         *)
(* The queue itself is BMv2's: its depth is the number of packets in it    *)
(* when a packet joins, and a packet that finds it full is dropped.        *)
(* Forwarding, TTL and checksums leave no trace in what is modelled: a     *)
(* packet takes the one path there is.  ACKs are not data packets; no      *)
(* switch touches them.                                                    *)
(*                                                                         *)
(* Names that end in _Something: see WindowedSender.                       *)
(***************************************************************************)
EXTENDS Integers, Sequences

CONSTANTS
  NSwitches,     (* switches on the path: s1, then s2.                     *)
  EcnK,          (* load_tables --ecn-k, the register ecn_threshold.       *)
  QueueDepth     (* load_tables --bottleneck-depth, for every port.        *)

ASSUME SwitchAssumption ==
  NSwitches \in Nat \ {0} /\ EcnK \in Nat /\ QueueDepth \in Nat \ {0}

VARIABLES
  queue,             (* of each switch: packets with their enq_qdepth      *)
  data_pkt_count, marked_pkt_count,
  data_held, marked_held,   (* history: the highest values of the two      *)
  arrived            (* the reflector's socket                             *)

counters == <<data_pkt_count, marked_pkt_count, data_held, marked_held>>
switch_vars == <<queue, counters, arrived>>

Switches == 1..NSwitches

SwitchInit ==
  /\ queue = [i \in Switches |-> <<>>]
  /\ data_pkt_count = [i \in Switches |-> 0]
  /\ marked_pkt_count = [i \in Switches |-> 0]
  /\ data_held = [i \in Switches |-> 0]
  /\ marked_held = [i \in Switches |-> 0]
  /\ arrived = <<>>

(* The queues q after packet p has come to switch i, or, behind the last   *)
(* switch, to the receiver, who sees a packet without its queue depth.     *)
Joined(q, i, p) ==
  IF Len(q[i]) < QueueDepth
    THEN [q EXCEPT ![i] = Append(@, [pkt |-> p, enq_qdepth |-> Len(q[i])])]
    ELSE q

(* The marking decision of the egress, and what it does to the packet.     *)
Marks(entry) == entry.pkt.ecn # "NotEct" /\ entry.enq_qdepth > EcnK

AfterEgress(entry) ==
  IF Marks(entry) THEN [entry.pkt EXCEPT !.ecn = "Ce"] ELSE entry.pkt

Larger(m, n) == IF m >= n THEN m ELSE n

CountData(i) ==
  \E total \in 0..data_held[i] :
    /\ data_pkt_count' = [data_pkt_count EXCEPT ![i] = total + 1]
    /\ data_held' = [data_held EXCEPT ![i] = Larger(@, total + 1)]

CountMark(i) ==
  \E marks \in 0..marked_held[i] :
    /\ marked_pkt_count' = [marked_pkt_count EXCEPT ![i] = marks + 1]
    /\ marked_held' = [marked_held EXCEPT ![i] = Larger(@, marks + 1)]

CountIfMarked_Always(i, entry) == CountMark(i)
CountIfMarked(i, entry) ==
  IF Marks(entry) THEN CountMark(i) ELSE UNCHANGED <<marked_pkt_count, marked_held>>

(* The packet at the head of queue i leaves the switch.                    *)
Egress(i) ==
  /\ queue[i] # <<>>
  /\ CountData(i)
  /\ LET entry == Head(queue[i])
         rest == [queue EXCEPT ![i] = Tail(@)]
     IN  /\ CountIfMarked(i, entry)
         /\ IF i < NSwitches
              THEN /\ queue' = Joined(rest, i + 1, AfterEgress(entry))
                   /\ UNCHANGED arrived
              ELSE /\ queue' = rest
                   /\ arrived' = Append(arrived, AfterEgress(entry))

=============================================================================
