------------------------------ MODULE CSender ------------------------------
(***************************************************************************)
(* extensions/csender/hpcc_sender.c: the C port of the HPCC sender.  Its   *)
(* control law is HpccLaw; its transport is not WindowedSender's:          *)
(*   - in-flight packets live in an array, packet s in slot                *)
(*     s % INFLIGHT_MAX, next to a separate count of them;                 *)
(*   - there are two threads: the main thread sends, and looks for expired *)
(*     packets in the same critical section; nobody does so in the drain;  *)
(*   - a timeout leaves the entries in place, so a resend that fails is    *)
(*     tried again;                                                        *)
(*   - an ACK moves the cursor only if its packet has an entry.            *)
(* The (w_ref, incarnation) pair stored with an entry and the incarnation  *)
(* itself only ever go to the log and are left out.                        *)
(*                                                                         *)
(* Names that end in _Something: see WindowedSender.                       *)
(***************************************************************************)
EXTENDS HpccLaw, FiniteSets

CONSTANTS
  MaxPackets,    (* --max-packets.                                         *)
  InflightMax,   (* INFLIGHT_MAX, the number of slots.                     *)
  WInit,         (* --w-init.                                              *)
  SendMayFail,   (* whether sendto may return -1.                          *)
  StrayAcks,     (* ACKs of an earlier process on this port.               *)
  USamples       (* what compute_u can return; 0: no usable hop.           *)

ASSUME CSenderAssumption ==
  /\ MaxPackets \in Nat
  /\ InflightMax \in Nat \ {0}
  /\ WInit \in Nat /\ WMin <= WInit
  /\ SendMayFail \in BOOLEAN
  /\ StrayAcks \subseteq Nat
  /\ USamples \subseteq Nat

VARIABLES
  next_seq, cum_acked_seq,
  inflight,          (* the slots: a sequence number, or Empty             *)
  in_flight_count,   (* what the sender takes for the number in flight     *)
  w,                 (* s->w and s->w_ref, which are equal, times Scale    *)
  u_smoothed,        (* times UOne                                         *)
  last_update_seq,   (* the cursor at the last window update               *)
  main_pc,           (* where the main thread is                           *)
  data, acks         (* packets, and ACKs, in the network                  *)

control == <<w, u_smoothed, last_update_seq>>
table == <<inflight, in_flight_count>>
vars == <<next_seq, cum_acked_seq, table, control, main_pc, data, acks>>

Indices == 0..(InflightMax - 1)
Empty == -1     (* 0xFFFFFFFF *)

Init ==
  /\ next_seq = 0 /\ cum_acked_seq = -1
  /\ inflight = [i \in Indices |-> Empty] /\ in_flight_count = 0
  /\ w = WInit * Scale /\ u_smoothed = UOne /\ last_update_seq = -1
  /\ main_pc = "loop"
  /\ data = {} /\ acks = StrayAcks

(* inflight_idx, and inflight_get(...) # NULL.                             *)
Idx(seq) == seq % InflightMax
Has(seq) == inflight[Idx(seq)] = seq

InFlight == {inflight[i] : i \in Indices} \ {Empty}

MayFail(seqs) == IF SendMayFail THEN SUBSET seqs ELSE {{}}

(***************************************************************************)
(* The main thread: one turn of its loop holds the lock throughout.        *)
(***************************************************************************)

Lock ==
  /\ main_pc = "loop"
  /\ main_pc' = "burst"
  /\ UNCHANGED <<next_seq, cum_acked_seq, table, control, data, acks>>

WindowOpen == in_flight_count < w \div Scale

(* send_one of a new packet.  Its slot is taken whoever holds it.          *)
SendNext ==
  /\ main_pc = "burst"
  /\ WindowOpen /\ next_seq < MaxPackets
  /\ next_seq' = next_seq + 1
  /\ \E failed \in MayFail({next_seq}) :
       IF failed = {}
         THEN /\ inflight' = [inflight EXCEPT ![Idx(next_seq)] = next_seq]
              /\ in_flight_count' = in_flight_count + 1
              /\ data' = data \cup {next_seq}
         ELSE UNCHANGED <<table, data>>
  /\ UNCHANGED <<cum_acked_seq, control, main_pc, acks>>

Done == next_seq >= MaxPackets /\ in_flight_count = 0

(* rto_check: nothing is due or nothing is old enough, or ...              *)
NoRto == UNCHANGED <<w, data>>

(* ... some entry is: halve the window, send every entry again.            *)
Rto ==
  /\ InFlight # {}
  /\ w' = Halved(w)
  /\ \E failed \in MayFail(InFlight) : data' = data \cup (InFlight \ failed)

Unlock(rto_check) ==
  /\ main_pc = "burst"
  /\ ~(WindowOpen /\ next_seq < MaxPackets)
  /\ rto_check
  /\ main_pc' = IF Done THEN "drain" ELSE "loop"
  /\ UNCHANGED <<next_seq, cum_acked_seq, table, u_smoothed, last_update_seq, acks>>

(* The duration is over.                                                   *)
TimeUp ==
  /\ main_pc = "loop"
  /\ main_pc' = "drain"
  /\ UNCHANGED <<next_seq, cum_acked_seq, table, control, data, acks>>

Close ==
  /\ main_pc = "drain"
  /\ main_pc' = "closed"
  /\ UNCHANGED <<next_seq, cum_acked_seq, table, control, data, acks>>

(***************************************************************************)
(* The ACK thread.                                                         *)
(***************************************************************************)

LockFree == main_pc \notin {"burst", "closed"}

(* inflight_clear_up_to: the slots of the packets after the cursor, those  *)
(* of them that still hold these packets.                                  *)
Cleared_One(a) == {Idx(a)}
Cleared_Exclusive(a) == {i \in Indices : inflight[i] \in (cum_acked_seq + 1)..(a - 1)}
Cleared(a) == {i \in Indices : inflight[i] \in (cum_acked_seq + 1)..a}

TakeAck(a) ==
  IF Has(a)
    THEN /\ inflight' = [i \in Indices |->
                       IF i \in Cleared(a) THEN Empty ELSE inflight[i]]
         /\ in_flight_count' = in_flight_count - Cardinality(Cleared(a))
         /\ cum_acked_seq' = a
    ELSE UNCHANGED <<table, cum_acked_seq>>

(* elapsed: whether a base RTT has passed since the last update.           *)
TooSoon == cum_acked_seq' < last_update_seq + WholeWindow(w)
MaybeUpdateWindow ==
  \E elapsed \in BOOLEAN :
    IF TooSoon \/ ~elapsed
      THEN UNCHANGED <<w, last_update_seq>>
      ELSE /\ w' = NewWindow(w, u_smoothed')
           /\ last_update_seq' = cum_acked_seq'

Duplicate(a) == ~Has(a) /\ a <= cum_acked_seq

RecvAck(a) ==
  /\ LockFree
  /\ a \in acks
  /\ \E keep \in BOOLEAN : acks' = IF keep THEN acks ELSE acks \ {a}
  /\ IF Duplicate(a)
       THEN UNCHANGED <<table, cum_acked_seq, control>>
       ELSE /\ TakeAck(a)
            /\ \E u \in USamples : u_smoothed' = Smoothed(u_smoothed, u)
            /\ MaybeUpdateWindow
  /\ UNCHANGED <<next_seq, main_pc, data>>

(***************************************************************************)
(* The network and the reflector, as in WindowedSender.                    *)
(***************************************************************************)

Reflect(s) ==
  /\ s \in data
  /\ \E keep \in BOOLEAN : data' = IF keep THEN data ELSE data \ {s}
  /\ acks' = acks \cup {s}
  /\ UNCHANGED <<next_seq, cum_acked_seq, table, control, main_pc>>

(* The packet or its answer is lost.                                       *)
Lose(s) ==
  /\ s \in data
  /\ data' = data \ {s}
  /\ UNCHANGED <<next_seq, cum_acked_seq, table, control, main_pc, acks>>

Terminated == main_pc = "closed" /\ UNCHANGED vars

Next ==
  \/ Lock \/ SendNext \/ Unlock(NoRto) \/ Unlock(Rto) \/ TimeUp \/ Close
  \/ \E a \in acks : RecvAck(a)
  \/ \E s \in data : Reflect(s) \/ Lose(s)
  \/ Terminated

Spec == Init /\ [][Next]_vars

(* As in WindowedSender; here the timer is looked at by the main thread    *)
(* itself, and not every resend fails.                                     *)
ResendAll == Unlock(Rto) /\ InFlight \subseteq data'
FairSpec ==
  /\ Spec
  /\ WF_vars(Lock \/ SendNext \/ Unlock(NoRto) \/ Unlock(Rto) \/ Close)
  /\ SF_vars(ResendAll)
  /\ \A s \in 0..(MaxPackets - 1) : SF_vars(Reflect(s)) /\ SF_vars(RecvAck(s))

-----------------------------------------------------------------------------

TypeOK ==
  /\ next_seq \in 0..MaxPackets
  /\ cum_acked_seq \in -1..(next_seq - 1)
  /\ inflight \in [Indices -> -1..(next_seq - 1)]
  /\ in_flight_count \in 0..next_seq
  /\ w \in (WMin * Scale)..(AtLeast(WInit, WMax) * Scale)
  /\ u_smoothed \in Nat
  /\ last_update_seq \in -1..cum_acked_seq
  /\ main_pc \in {"loop", "burst", "drain", "closed"}
  /\ data \subseteq 0..(next_seq - 1)
  /\ acks \subseteq (0..(next_seq - 1)) \cup StrayAcks

(* The count the window test and the early exit rely on is the number of   *)
(* occupied slots: no packet takes the slot of one still in flight.  (It   *)
(* holds while no send fails.)                                             *)
CountMatchesSlots == in_flight_count = Cardinality(InFlight)

(* Every slot holds its own packet and none that is acknowledged, so a     *)
(* lookup finds a packet whenever it is in flight.                         *)
SlotsAfterCursor ==
  \A i \in Indices : inflight[i] # Empty =>
    Idx(inflight[i]) = i /\ cum_acked_seq < inflight[i]

(* The process ends, whatever is lost; an ACK left over from an earlier    *)
(* process, which can strand the Python senders, does not keep it from it. *)
Completes == <>(main_pc = "closed")

=============================================================================
