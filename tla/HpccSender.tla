----------------------------- MODULE HpccSender -----------------------------
(***************************************************************************)
(* sender/hpcc_sender.py and its drop-in replacement hpcc_sender_v2.py     *)
(* (extensions/hpcc_v2): the transport of WindowedSender under HPCC's      *)
(* control law.  An ACK carries the telemetry of the hops its packet went  *)
(* through; _compute_u turns it into a utilisation sample, an EWMA smooths *)
(* the samples, and an update scales the window by eta / U and adds W_AI.  *)
(*                                                                         *)
(* Both versions store (w_ref, incarnation) with every packet they send.   *)
(* The first never reads the pair; the second (V2) ignores the telemetry   *)
(* of a packet sent in an earlier incarnation and updates from the w_ref   *)
(* of the earliest packet that is not acknowledged.                        *)
(*                                                                         *)
(* Names that end in _Something: see WindowedSender.                       *)
(***************************************************************************)
EXTENDS HpccLaw, FiniteSets

CONSTANTS
  MaxPackets, WInit, SendMayFail, StrayAcks,   (* WindowedSender's.        *)
  V2,              (* which of the two senders.                            *)
  USamples,        (* what _compute_u can return; 0: no usable hop.        *)
  MaxIncarnation   (* bound of the model: no cut after this many.          *)

ASSUME HpccAssumption ==
  /\ MaxPackets \in Nat
  /\ WInit \in Nat /\ WMin <= WInit
  /\ SendMayFail \in BOOLEAN
  /\ StrayAcks \subseteq Nat
  /\ V2 \in BOOLEAN
  /\ USamples \subseteq Nat
  /\ MaxIncarnation \in Nat

VARIABLES
  next_seq, cum_acked_seq, run_pc, data, acks, received, untracked,
                     (* as in WindowedSender                               *)
  in_flight,         (* seq -> [w_ref, incarnation] when it was sent       *)
  w,                 (* self.w, times Scale                                *)
  w_ref,             (* self.w_ref, times Scale                            *)
  incarnation,       (* counts the cuts of the window                      *)
  u_smoothed,        (* the smoothed utilisation, times UOne               *)
  last_update_seq    (* the cursor at the last window update               *)

control == <<w, w_ref, incarnation, u_smoothed, last_update_seq>>
vars == <<next_seq, cum_acked_seq, run_pc, data, acks, received, untracked,
          in_flight, control>>

Windowed == INSTANCE WindowedSender
              WITH w <- w \div Scale, in_flight <- DOMAIN in_flight

Init ==
  /\ next_seq = 0 /\ cum_acked_seq = -1 /\ in_flight = << >>
  /\ run_pc = "loop"
  /\ data = {} /\ acks = StrayAcks /\ received = {} /\ untracked = {}
  /\ w = WInit * Scale /\ w_ref = WInit * Scale
  /\ incarnation = 0
  /\ u_smoothed = UOne
  /\ last_update_seq = -1

(* What is neither a send nor an ACK nor a timeout leaves this alone.      *)
Transport(action) == UNCHANGED <<in_flight, control>> /\ action

(***************************************************************************)
(* Sending.                                                                *)
(***************************************************************************)

Snapshot(reference, epoch) == [w_ref |-> reference, incarnation |-> epoch]

SendNext ==
  /\ run_pc = "burst"
  /\ Windowed!WindowOpen
  /\ next_seq < MaxPackets
  /\ next_seq' = next_seq + 1
  /\ \E failed \in Windowed!MayFail({next_seq}) :
       /\ in_flight' = [s \in DOMAIN in_flight \cup ({next_seq} \ failed) |->
                          IF s = next_seq THEN Snapshot(w_ref, incarnation)
                                          ELSE in_flight[s]]
       /\ data' = data \cup ({next_seq} \ failed)
       /\ untracked' = untracked \cup failed
  /\ UNCHANGED <<cum_acked_seq, run_pc, acks, received, control>>

(* _rto_checker, the same in both versions: something is in flight and has *)
(* been for too long.                                                      *)
RtoDue == Windowed!LockFree /\ DOMAIN in_flight # {}

(* The resends are entered anew, with the pair as the timeout leaves it.   *)
Resend ==
  \E failed \in Windowed!MayFail(DOMAIN in_flight) :
    /\ in_flight' = [s \in DOMAIN in_flight \ failed |-> Snapshot(w_ref', incarnation')]
    /\ data' = data \cup (DOMAIN in_flight \ failed)
    /\ untracked' = untracked \cup failed

Rto ==
  /\ RtoDue
  /\ incarnation < MaxIncarnation
  /\ incarnation' = incarnation + 1
  /\ w_ref' = Halved(w_ref)
  /\ w' = w_ref'
  /\ Resend
  /\ UNCHANGED <<next_seq, cum_acked_seq, run_pc, acks, received, u_smoothed,
                 last_update_seq>>

(***************************************************************************)
(* An ACK.                                                                 *)
(***************************************************************************)

OnAck_PopsOne(a) ==
  /\ cum_acked_seq' = IF a > cum_acked_seq THEN a ELSE cum_acked_seq
  /\ in_flight' = [s \in DOMAIN in_flight \ {a} |-> in_flight[s]]
OnAck(a) ==
  LET acked == IF a > cum_acked_seq THEN (cum_acked_seq + 1)..a ELSE {}
  IN  /\ cum_acked_seq' = IF a > cum_acked_seq THEN a ELSE cum_acked_seq
      /\ in_flight' = [s \in DOMAIN in_flight \ acked |-> in_flight[s]]

(* Feedback from before the last cut, whose telemetry V2 ignores.  An ACK  *)
(* without an entry passes for current.                                    *)
SentBeforeCut(a) ==
  a \in DOMAIN in_flight /\ in_flight[a].incarnation # incarnation
Stale(a) == V2 /\ SentBeforeCut(a)

(* The window an update starts from (of the state the ACK leaves).         *)
Earliest(seqs) == CHOOSE s \in seqs : \A t \in seqs : s <= t
GateWindow(flight) ==
  IF V2 /\ DOMAIN flight # {} THEN flight[Earliest(DOMAIN flight)].w_ref
                              ELSE w_ref

TooSoon(cum, gate) ==
  cum < last_update_seq + WholeWindow(gate)

Shrinks_OfGate(new, gate) == new < gate
Shrinks(new, gate) == new < w_ref

(* elapsed: whether a base RTT has passed on the clock since the last      *)
(* update.                                                                 *)
MaybeUpdateWindow(gate) ==
  \E elapsed \in BOOLEAN :
    IF TooSoon(cum_acked_seq', gate) \/ ~elapsed
      THEN UNCHANGED <<w, w_ref, incarnation, last_update_seq>>
      ELSE /\ w_ref' = NewWindow(gate, u_smoothed')
           /\ w' = w_ref'
           /\ incarnation' = IF Shrinks(w_ref', gate) THEN incarnation + 1
                                                      ELSE incarnation
           /\ incarnation' <= MaxIncarnation
           /\ last_update_seq' = cum_acked_seq'

RecvAck(a) ==
  /\ Windowed!LockFree
  /\ a \in acks
  /\ \E keep \in BOOLEAN : acks' = IF keep THEN acks ELSE acks \ {a}
  /\ IF Windowed!StaleDuplicate(a)
       THEN UNCHANGED <<in_flight, cum_acked_seq, control>>
       ELSE /\ OnAck(a)
            /\ IF Stale(a) THEN u_smoothed' = u_smoothed
                           ELSE \E u \in USamples : u_smoothed' = Smoothed(u_smoothed, u)
            /\ MaybeUpdateWindow(GateWindow(in_flight'))
  /\ UNCHANGED <<next_seq, run_pc, untracked, data, received>>

Next ==
  \/ SendNext
  \/ Transport(\/ Windowed!EnterBurst \/ Windowed!LeaveBurst
               \/ Windowed!CheckDone \/ Windowed!Close \/ Windowed!TimeUp)
  \/ \E a \in acks : RecvAck(a)
  \/ Rto
  \/ \E s \in data : Transport(\/ Windowed!Reflect(s)
                               \/ Windowed!ReflectLost(s)
                               \/ Windowed!LoseData(s))
  \/ Transport(Windowed!Terminated)

Spec == Init /\ [][Next]_vars

-----------------------------------------------------------------------------

TypeOK ==
  /\ next_seq \in Nat /\ cum_acked_seq \in Nat \cup {-1}
  /\ data \subseteq 0..(next_seq - 1) /\ acks \subseteq Nat
  /\ DOMAIN in_flight \subseteq 0..(next_seq - 1)
  /\ \A s \in DOMAIN in_flight :
       in_flight[s] \in [w_ref : (WMin * Scale)..(Windowed!WCap * Scale),
                         incarnation : 0..MaxIncarnation]
  /\ w \in (WMin * Scale)..(Windowed!WCap * Scale)
  /\ w_ref = w
  /\ incarnation \in 0..MaxIncarnation
  /\ u_smoothed \in Nat
  /\ last_update_seq \in -1..cum_acked_seq

(* The pairs stored with the packets are in order: along the flight, and   *)
(* up to the sender's own pair, the incarnation never falls, and within an *)
(* incarnation the window never falls.  So every cut, by an update or by a *)
(* timeout, is told apart from what was sent before it.                    *)
InOrder(p, q) ==
  \/ p.incarnation < q.incarnation
  \/ p.incarnation = q.incarnation /\ p.w_ref <= q.w_ref
SnapshotsInOrder ==
  \A s \in DOMAIN in_flight :
    /\ InOrder(in_flight[s], Snapshot(w_ref, incarnation))
    /\ \A t \in DOMAIN in_flight : s < t => InOrder(in_flight[s], in_flight[t])

(* The sender with HPCC's control law is a windowed sender.                *)
ImplementsWindowed == Windowed!Spec

(* The ACK of a packet sent before the last cut does not make the window   *)
(* fall again: one congestion epoch, one cut.                              *)
StaleAckNeverCuts ==
  [][\A a \in acks : SentBeforeCut(a) /\ RecvAck(a) => w' >= w]_vars

=============================================================================
