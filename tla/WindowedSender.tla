--------------------------- MODULE WindowedSender ---------------------------
(***************************************************************************)
(* The transport every Python sender of the repository is built on         *)
(* (sender/dctcp_sender.py, sender/hpcc_sender.py and hpcc_sender_v2.py    *)
(* repeat it line for line): a window of unacknowledged packets, a         *)
(* cumulative-ACK cursor, a retransmission timer, three threads and one    *)
(* lock, talking over UDP to the stateless reflector.                      *)
(*                                                                         *)
(* How an ACK moves the window is what the senders differ in.  Here it is  *)
(* any move inside the window's limits; DctcpSender and the HPCC modules   *)
(* give the real control law and are shown to implement this module.       *)
(*                                                                         *)
(* A definition whose name ends in _Something is a faulty variant of the   *)
(* one that follows it: no action uses it, it is there to be put in its    *)
(* place, to see that the properties notice.                               *)
(*                                                                         *)
(* The lock is not a variable of its own: the ACK listener and the RTO     *)
(* checker do their whole critical section in one step, and the run loop   *)
(* holds the lock exactly while run_pc = "burst", several sends long.      *)
(***************************************************************************)
EXTENDS Integers, FiniteSets

CONSTANTS
  MaxPackets,   (* max_packets: run() sends the sequence numbers below it. *)
  WInit,        (* --w-init, taken as given, not clamped to WMax.          *)
  WMin,         (* DEFAULT_W_MIN.                                          *)
  WMax,         (* --w-max.                                                *)
  SendMayFail,  (* whether sendto may raise OSError.                       *)
  StrayAcks     (* ACKs of an earlier socket on this port (base-RTT probes *)
                (* 1_000_000 + i, a previous round) still on their way.    *)

Larger(a, b) == IF a >= b THEN a ELSE b

(* No update takes the window above this: growth stops at WMax, and a      *)
(* larger WInit can only be cut.                                           *)
WCap == Larger(WInit, WMax)

ASSUME WindowAssumption ==
  /\ MaxPackets \in Nat
  /\ WMin \in Nat \ {0}
  /\ WInit \in Nat /\ WMin <= WInit
  /\ WMax \in Nat /\ WMin <= WMax
  /\ SendMayFail \in BOOLEAN
  /\ StrayAcks \subseteq Nat

VARIABLES
  next_seq,       (* the next sequence number run() will send              *)
  cum_acked_seq,  (* the highest sequence number ever acknowledged, or -1  *)
  in_flight,      (* sequence numbers that have an entry in in_flight      *)
  w,              (* int(self.w), all that the transport reads of the window *)
  run_pc,         (* where the run() thread is                             *)
  data,           (* data packets in the network                           *)
  acks,           (* ACKs in the network that will reach the socket        *)
  received,       (* history: sequence numbers the reflector has seen      *)
  untracked       (* history: sequence numbers whose sendto failed while   *)
                  (* no in_flight entry remembered them                    *)

sender  == <<next_seq, cum_acked_seq, in_flight, w, run_pc, untracked>>
network == <<data, acks, received>>
vars    == <<next_seq, cum_acked_seq, in_flight, w, run_pc, data, acks,
             received, untracked>>

Init ==
  /\ next_seq = 0
  /\ cum_acked_seq = -1
  /\ in_flight = {}
  /\ w = WInit
  /\ run_pc = "loop"
  /\ data = {}
  /\ acks = StrayAcks
  /\ received = {}
  /\ untracked = {}

(* Sequence numbers a failed sendto can concern.                           *)
MayFail(seqs) == IF SendMayFail THEN SUBSET seqs ELSE {{}}

(***************************************************************************)
(* run(): the main thread.                                                 *)
(***************************************************************************)

(* "while time.time() < end: with self.lock": the lock is free whenever    *)
(* the other threads are between two of their steps.                       *)
EnterBurst ==
  /\ run_pc = "loop"
  /\ run_pc' = "burst"
  /\ UNCHANGED <<next_seq, cum_acked_seq, in_flight, w, untracked, network>>

WindowOpen_OffByOne == Cardinality(in_flight) <= w
WindowOpen == Cardinality(in_flight) < w

(* One turn of the inner loop.  A failed sendto returns before the packet  *)
(* is entered in in_flight, yet next_seq moves on all the same.            *)
SendNext ==
  /\ run_pc = "burst"
  /\ WindowOpen
  /\ next_seq < MaxPackets
  /\ next_seq' = next_seq + 1
  /\ \E failed \in MayFail({next_seq}) :
       /\ in_flight' = in_flight \cup ({next_seq} \ failed)
       /\ data' = data \cup ({next_seq} \ failed)
       /\ untracked' = untracked \cup failed
  /\ UNCHANGED <<cum_acked_seq, w, run_pc, acks, received>>

(* The inner loop's condition is false: the lock is released.              *)
LeaveBurst ==
  /\ run_pc = "burst"
  /\ ~(WindowOpen /\ next_seq < MaxPackets)
  /\ run_pc' = "check"
  /\ UNCHANGED <<next_seq, cum_acked_seq, in_flight, w, untracked, network>>

AllDone_Undrained == next_seq >= MaxPackets
AllDone == next_seq >= MaxPackets /\ in_flight = {}

(* The early exit, or the short sleep before the next turn.                *)
CheckDone ==
  /\ run_pc = "check"
  /\ run_pc' = IF AllDone THEN "drain" ELSE "loop"
  /\ UNCHANGED <<next_seq, cum_acked_seq, in_flight, w, untracked, network>>

(* The duration is over, seen only at the top of the loop.                 *)
TimeUp ==
  /\ run_pc = "loop"
  /\ run_pc' = "drain"
  /\ UNCHANGED <<next_seq, cum_acked_seq, in_flight, w, untracked, network>>

(* The drain sleep is over, stop is set, both threads are joined (each may *)
(* have finished one last turn first) and the socket is closed.            *)
Close ==
  /\ run_pc = "drain"
  /\ run_pc' = "closed"
  /\ UNCHANGED <<next_seq, cum_acked_seq, in_flight, w, untracked, network>>

(***************************************************************************)
(* The ACK listener and the RTO checker.                                   *)
(***************************************************************************)

LockFree == run_pc \notin {"burst", "closed"}

(* The listener's test on an ACK it will not process.                      *)
StaleDuplicate_InOrderOnly(a) == a # cum_acked_seq + 1
StaleDuplicate(a) == a \notin in_flight /\ a <= cum_acked_seq

(* Everything up to an ACK above the cursor leaves in_flight.              *)
OnAck_PopsOne(a) ==
  IF a > cum_acked_seq
    THEN in_flight' = in_flight \ {a} /\ cum_acked_seq' = a
    ELSE UNCHANGED <<in_flight, cum_acked_seq>>

OnAck(a) ==
  IF a > cum_acked_seq
    THEN /\ in_flight' = in_flight \ ((cum_acked_seq + 1)..a)
         /\ cum_acked_seq' = a
    ELSE UNCHANGED <<in_flight, cum_acked_seq>>

(* Where a window update can leave w, whatever the control law.            *)
WindowMoves == {w} \cup WMin..WCap

(* The listener takes one ACK off the socket.  keep: a second copy of the  *)
(* same ACK, the answer to a retransmission, is still on its way.          *)
RecvAck(a) ==
  /\ LockFree
  /\ a \in acks
  /\ \E keep \in BOOLEAN : acks' = IF keep THEN acks ELSE acks \ {a}
  /\ IF StaleDuplicate(a)
       THEN UNCHANGED <<in_flight, cum_acked_seq, w>>
       ELSE OnAck(a) /\ w' \in WindowMoves
  /\ UNCHANGED <<next_seq, run_pc, untracked, data, received>>

HalvedWindow_NoFloor == w \div 2
HalvedWindow == Larger(WMin, w \div 2)

(* What the RTO sends again: everything, however small the halved window.  *)
GoBackSet_WindowOnly ==
  {s \in in_flight : s - cum_acked_seq <= HalvedWindow}
GoBackSet == in_flight

(* Some entry is older than the RTO: halve the window, forget every entry  *)
(* and send them all again.  Time is not modelled, so any entry may be     *)
(* that old; an entry whose second sendto fails is not put back.           *)
Rto ==
  /\ LockFree
  /\ in_flight # {}
  /\ w' = HalvedWindow
  /\ \E failed \in MayFail(GoBackSet) :
       /\ in_flight' = GoBackSet \ failed
       /\ data' = data \cup (GoBackSet \ failed)
       /\ untracked' = untracked \cup failed
  /\ UNCHANGED <<next_seq, cum_acked_seq, run_pc, acks, received>>

(***************************************************************************)
(* The network and the reflector.  Sets of messages: any order; keep: a    *)
(* retransmission's copy is still on its way when the first one arrives.   *)
(***************************************************************************)

(* The reflector answers each packet with that packet's own number.        *)
Answer(s, answer) ==
  /\ s \in data
  /\ \E keep \in BOOLEAN : data' = IF keep THEN data ELSE data \ {s}
  /\ acks' = acks \cup answer
  /\ received' = received \cup {s}
  /\ UNCHANGED sender

Reflect_NextExpected(s) == Answer(s, {s + 1})
Reflect(s) == Answer(s, {s})

(* The answer is lost on its way back.  acks holds those that arrive: they *)
(* wait in the socket until the listener gets to them.                     *)
ReflectLost(s) == Answer(s, {})

LoseData(s) ==
  /\ s \in data
  /\ data' = data \ {s}
  /\ UNCHANGED <<sender, acks, received>>

(* run() has returned.                                                     *)
Terminated == run_pc = "closed" /\ UNCHANGED vars

Run == EnterBurst \/ SendNext \/ LeaveBurst \/ CheckDone \/ Close

Next ==
  \/ Run
  \/ TimeUp
  \/ \E a \in acks : RecvAck(a)
  \/ Rto
  \/ \E s \in data : Reflect(s) \/ ReflectLost(s) \/ LoseData(s)
  \/ Terminated

Spec == Init /\ [][Next]_vars

(***************************************************************************)
(* The run thread is always scheduled and it sleeps without the lock on    *)
(* every turn, so the two threads that wait for the lock get it: strong    *)
(* fairness for them.  The network delivers, sooner or later, what is sent *)
(* again and again.  TimeUp gets no fairness: it may never happen.         *)
(***************************************************************************)
FairSpec ==
  /\ Spec
  /\ WF_vars(Run)
  /\ SF_vars(Rto)
  /\ \A s \in 0..(MaxPackets - 1) : SF_vars(Reflect(s)) /\ SF_vars(RecvAck(s))

-----------------------------------------------------------------------------

TypeOK ==
  /\ next_seq \in 0..MaxPackets
  /\ cum_acked_seq \in Nat \cup {-1}
  /\ in_flight \subseteq 0..(next_seq - 1)
  /\ w \in WMin..WCap
  /\ run_pc \in {"loop", "burst", "check", "drain", "closed"}
  /\ data \subseteq 0..(next_seq - 1)
  /\ acks \subseteq Nat
  /\ received \subseteq 0..(next_seq - 1)
  /\ untracked \subseteq 0..(next_seq - 1)

(* The number of packets in flight never passes the largest window the     *)
(* sender can have: the go-back-N resend after an RTO, which ignores the   *)
(* window it has just halved, does not add to it.                          *)
InFlightBounded == Cardinality(in_flight) <= WCap

(* An acknowledged packet is never in flight, whatever the order of ACKs,  *)
(* timeouts and resends: no entry at or below the cursor can keep the      *)
(* timer firing or the early exit from being taken.                        *)
InFlightUnacked == \A s \in in_flight : cum_acked_seq < s

(* The sender forgets no packet: every number handed out is acknowledged,  *)
(* in flight (so the timer will resend it), or was given up by a sendto    *)
(* that failed.                                                            *)
Accounted ==
  \A s \in 0..(next_seq - 1) :
    s <= cum_acked_seq \/ s \in in_flight \/ s \in untracked

(* The cursor only ever stands at a packet the reflector has seen.         *)
CumAckReceived == cum_acked_seq >= 0 => cum_acked_seq \in received

(* When run() takes the early exit, the last packet of the flow has been   *)
(* seen by the reflector or was given up by a failed sendto.               *)
EarlyExitComplete ==
  [][run_pc = "check" /\ run_pc' = "drain" /\ MaxPackets > 0
       => MaxPackets - 1 \in received \cup untracked]_vars

(* run() returns: either its time is up, or, however many packets and ACKs *)
(* are lost, the timer gets everything acknowledged and the early exit is  *)
(* taken.                                                                  *)
Completes == <>(run_pc = "closed")

(* What the comment in _on_ack_locked says of an ACK: every number up to   *)
(* it is acknowledged.  Then no number up to the cursor is a packet that   *)
(* was sent and lost: it has arrived or is still on its way.               *)
NoLossAcknowledged ==
  \A s \in 0..(next_seq - 1) :
    s <= cum_acked_seq => s \in received \cup data \cup untracked

=============================================================================
