----------------------------- MODULE DctcpSender -----------------------------
(***************************************************************************)
(* sender/dctcp_sender.py: the transport of WindowedSender under DCTCP's   *)
(* control law.  The switch marks packets (CE), the reflector echoes the   *)
(* mark (ECE), and once per window of acknowledged packets the sender      *)
(* folds the marked fraction into alpha and moves its window.              *)
(*                                                                         *)
(* The floats of the code are fixed-point numbers, rounded down: w is in   *)
(* units of 1/Scale packets and alpha in units of 1/AlphaOne.              *)
(***************************************************************************)
EXTENDS Integers, FiniteSets

CONSTANTS
  MaxPackets, WInit, WMin, WMax, SendMayFail, StrayAcks,   (* WindowedSender's *)
  Scale,     (* one packet of window.                                      *)
  AlphaOne,  (* alpha = 1.                                                 *)
  GInv       (* 1/g, the EWMA's gain being g.                              *)

ASSUME DctcpAssumption ==
  /\ MaxPackets \in Nat
  /\ WMin \in Nat \ {0}
  /\ WInit \in Nat /\ WMin <= WInit
  /\ WMax \in Nat /\ WMin <= WMax
  /\ SendMayFail \in BOOLEAN
  /\ StrayAcks \subseteq Nat
  /\ Scale \in Nat \ {0}
  /\ AlphaOne \in Nat \ {0}
  /\ GInv \in Nat \ {0}

VARIABLES
  next_seq, cum_acked_seq, in_flight, run_pc, data, received, untracked,
                      (* as in WindowedSender                              *)
  acks,               (* ACKs on their way: [seq, ece]                     *)
  w,                  (* self.w, times Scale                               *)
  alpha,              (* self.alpha, times AlphaOne                        *)
  last_update_seq,    (* the cursor at the last window update              *)
  rtt_window_total,   (* ACKs counted since then ...                       *)
  rtt_window_marked   (* ... and those of them that echoed a mark          *)

estimate == <<alpha, last_update_seq, rtt_window_total, rtt_window_marked>>
vars == <<next_seq, cum_acked_seq, in_flight, run_pc, data, received,
          untracked, acks, w, estimate>>

(* The transport only reads int(self.w) and an ACK's number.               *)
Windowed == INSTANCE WindowedSender
              WITH w <- w \div Scale, acks <- {ack.seq : ack \in acks}

Ack(seq, ece) == [seq |-> seq, ece |-> ece]

Init ==
  /\ next_seq = 0 /\ cum_acked_seq = -1 /\ in_flight = {}
  /\ run_pc = "loop"
  /\ data = {} /\ received = {} /\ untracked = {}
  /\ acks = {Ack(s, FALSE) : s \in StrayAcks}
  /\ w = WInit * Scale
  /\ alpha = 0
  /\ last_update_seq = -1
  /\ rtt_window_total = 0 /\ rtt_window_marked = 0

(* What the run thread and the network do leaves the control law alone.    *)
Transport(action) == UNCHANGED <<acks, w, estimate>> /\ action

(***************************************************************************)
(* _maybe_update_window_locked                                             *)
(***************************************************************************)

Floor == WMin * Scale

NewAlpha_NoDecay(total, marked) ==
  alpha + ((marked * AlphaOne) \div total) \div GInv
NewAlpha(total, marked) ==
  ((GInv - 1) * alpha + (marked * AlphaOne) \div total) \div GInv

(* W * (1 - alpha/2), and W + 1.                                           *)
Cut(a) == Windowed!Larger(Floor, (w * (2 * AlphaOne - a)) \div (2 * AlphaOne))

Grown == IF w + Scale <= WMax * Scale THEN w + Scale ELSE WMax * Scale

(* Less than a window has been acknowledged since the last update.         *)
TooSoon_OffByOne(cum) == cum + 1 < last_update_seq + w \div Scale
TooSoon(cum) == cum < last_update_seq + w \div Scale

(* total and marked already count the ACK that is being processed, so the  *)
(* code's test for an empty sample never fires.                            *)
MaybeUpdateWindow(total, marked) ==
  IF TooSoon(cum_acked_seq')
    THEN /\ rtt_window_total' = total
         /\ rtt_window_marked' = marked
         /\ UNCHANGED <<w, alpha, last_update_seq>>
    ELSE /\ alpha' = NewAlpha(total, marked)
         /\ w' = IF marked > 0 THEN Cut(alpha') ELSE Grown
         /\ last_update_seq' = cum_acked_seq'
         /\ rtt_window_total' = 0
         /\ rtt_window_marked' = 0

(***************************************************************************)
(* The two other threads, and the reflector.                               *)
(***************************************************************************)

Counted(ack) == IF ack.ece THEN 1 ELSE 0

IgnoredAck_OnlyOld(a) == a < cum_acked_seq
IgnoredAck(a) == Windowed!StaleDuplicate(a)

RecvAck(ack) ==
  /\ Windowed!LockFree
  /\ ack \in acks
  /\ \E keep \in BOOLEAN : acks' = IF keep THEN acks ELSE acks \ {ack}
  /\ IF IgnoredAck(ack.seq)
       THEN UNCHANGED <<in_flight, cum_acked_seq, w, estimate>>
       ELSE /\ Windowed!OnAck(ack.seq)
            /\ MaybeUpdateWindow(rtt_window_total + 1,
                                 rtt_window_marked + Counted(ack))
  /\ UNCHANGED <<next_seq, run_pc, untracked, data, received>>

Halved_NoFloor == w \div 2
Halved == Windowed!Larger(Floor, w \div 2)

(* The marks counted so far, alpha and last_update_seq survive a timeout.  *)
Rto ==
  /\ Windowed!LockFree
  /\ in_flight # {}
  /\ w' = Halved
  /\ \E failed \in Windowed!MayFail(in_flight) :
       /\ in_flight' = in_flight \ failed
       /\ data' = data \cup (in_flight \ failed)
       /\ untracked' = untracked \cup failed
  /\ UNCHANGED <<next_seq, cum_acked_seq, run_pc, acks, received, estimate>>

(* ece: whether the switch marked the packet on its way.                   *)
Reflect(s) ==
  /\ s \in data
  /\ \E keep \in BOOLEAN : data' = IF keep THEN data ELSE data \ {s}
  /\ \E ece \in BOOLEAN : acks' = acks \cup {Ack(s, ece)}
  /\ received' = received \cup {s}
  /\ UNCHANGED <<next_seq, cum_acked_seq, in_flight, run_pc, untracked, w, estimate>>

Next ==
  \/ Transport(Windowed!Run \/ Windowed!TimeUp)
  \/ \E ack \in acks : RecvAck(ack)
  \/ Rto
  \/ \E s \in data : Reflect(s)
  \/ \E s \in data : Transport(Windowed!ReflectLost(s) \/ Windowed!LoseData(s))
  \/ Transport(Windowed!Terminated)

Spec == Init /\ [][Next]_vars

-----------------------------------------------------------------------------

TypeOK ==
  /\ next_seq \in Nat /\ cum_acked_seq \in Nat \cup {-1}
  /\ in_flight \subseteq Nat /\ data \subseteq Nat
  /\ acks \subseteq [seq : Nat, ece : BOOLEAN]
  /\ w \in Floor..(Windowed!WCap * Scale)
  /\ alpha \in 0..AlphaOne
  /\ last_update_seq \in -1..cum_acked_seq
  /\ rtt_window_total \in Nat
  /\ rtt_window_marked \in 0..rtt_window_total

(* However ACKs are duplicated and reordered, the sample counts an ACK     *)
(* once: no more ACKs than packets acknowledged since the last update, so  *)
(* the marked fraction is a fraction of that window of packets.            *)
AckCountedOnce == rtt_window_total <= cum_acked_seq - last_update_seq

(* Additive increase is paid for: to grow by a packet the window must have *)
(* been acknowledged once, so a window of v packets costs the sum of all   *)
(* the windows between WInit and v.  (Cuts only make it dearer.)           *)
Triangle(v) == (v * (v - 1)) \div 2
GrowthPaidFor ==
  Triangle(w \div Scale) - Triangle(WInit) <= last_update_seq + 1

(* The sender with DCTCP's control law is a windowed sender.               *)
ImplementsWindowed == Windowed!Spec

=============================================================================
