------------------------------ MODULE OpenLoop ------------------------------
(***************************************************************************)
(* sender/open_loop.py, the harness that sends at a fixed rate and logs    *)
(* one row per answered packet, over the DCTCP switches and the reflector  *)
(* (receiver/reflector.py).                                                *)
(*                                                                         *)
(* Two threads: run_open_loop sends and, at the end, stops the listener    *)
(* and closes socket and log; the listener may be anywhere when that       *)
(* happens, since the join gives up after a second.  Times are left out:   *)
(* the pace of the loop is free, and a row is a number and its echo.       *)
(*                                                                         *)
(* Datagrams are well formed here (only the harness sends to these ports), *)
(* so the length checks of listener and reflector have nothing to drop.    *)
(***************************************************************************)
EXTENDS DctcpSwitch, FiniteSets

CONSTANTS
  MaxPackets,    (* a bound: what fits into --duration.                    *)
  SendMayFail    (* whether a sendto, here or in the reflector, may raise. *)

ASSUME OpenLoopAssumption == MaxPackets \in Nat /\ SendMayFail \in BOOLEAN

VARIABLES
  seq, pending, rows,
  main_pc,       (* run_open_loop                                          *)
  listener_pc, in_hand,   (* _ack_listener; the row it is about to write   *)
  stop,
  joined,        (* whether the join saw the listener's end                *)
  failed,        (* whether an exception is on its way out of the loop     *)
  summary,       (* what run_open_loop returns                             *)
  reflector_up,
  acks,          (* ACKs that will reach the harness's socket              *)
  marked         (* history: the packets some switch marked                *)

main_vars == <<seq, main_pc, stop, joined, failed, summary>>
listener_vars == <<rows, listener_pc, in_hand>>
vars == <<main_vars, listener_vars, pending, reflector_up, acks, marked, switch_vars>>

Nothing == [seq |-> -1, echo |-> FALSE]
NoSummary == [sent |-> -1, unacked |-> -1]

Init ==
  /\ SwitchInit
  /\ seq = 0 /\ pending = {} /\ rows = <<>>
  /\ main_pc = "loop" /\ listener_pc = "check" /\ in_hand = Nothing
  /\ stop = FALSE /\ joined = FALSE /\ failed = FALSE /\ summary = NoSummary
  /\ reflector_up = TRUE /\ acks = {} /\ marked = {}

(***************************************************************************)
(* run_open_loop                                                           *)
(***************************************************************************)

Register ==
  /\ main_pc = "loop" /\ seq < MaxPackets
  /\ pending' = pending \cup {seq}
  /\ main_pc' = "registered"
  /\ UNCHANGED <<seq, stop, joined, failed, summary, listener_vars, reflector_up,
                 acks, marked, switch_vars>>

Send ==
  /\ main_pc = "registered"
  /\ queue' = Joined(queue, 1, [seq |-> seq, ecn |-> "Ect0"])
  /\ seq' = seq + 1
  /\ main_pc' = "loop"
  /\ UNCHANGED <<pending, stop, joined, failed, summary, listener_vars, reflector_up,
                 acks, marked, counters, arrived>>

(* sendto raises: on to the finally clause.                                *)
SendFails ==
  /\ main_pc = "registered" /\ SendMayFail
  /\ main_pc' = "drain" /\ failed' = TRUE
  /\ UNCHANGED <<seq, pending, stop, joined, summary, listener_vars, reflector_up,
                 acks, marked, switch_vars>>

TimeUp ==
  /\ main_pc = "loop"
  /\ main_pc' = "drain"
  /\ UNCHANGED <<seq, pending, stop, joined, failed, summary, listener_vars,
                 reflector_up, acks, marked, switch_vars>>

SetStop ==
  /\ main_pc = "drain"
  /\ stop' = TRUE
  /\ main_pc' = "join"
  /\ UNCHANGED <<seq, pending, joined, failed, summary, listener_vars, reflector_up,
                 acks, marked, switch_vars>>

(* rx.join(timeout=1.0): the listener has ended, or the second is over.    *)
JoinReturns_Unbounded == listener_pc = "ended"
JoinReturns == TRUE
Join ==
  /\ main_pc = "join" /\ JoinReturns
  /\ joined' = (listener_pc = "ended")
  /\ main_pc' = "close_socket"
  /\ UNCHANGED <<seq, pending, stop, failed, summary, listener_vars, reflector_up,
                 acks, marked, switch_vars>>

CloseSocket ==
  /\ main_pc = "close_socket"
  /\ main_pc' = "close_log"
  /\ UNCHANGED <<seq, pending, stop, joined, failed, summary, listener_vars,
                 reflector_up, acks, marked, switch_vars>>

CloseLog ==
  /\ main_pc = "close_log"
  /\ main_pc' = "done"
  /\ summary' = IF failed THEN NoSummary
                ELSE [sent |-> seq, unacked |-> Cardinality(pending)]
  /\ UNCHANGED <<seq, pending, stop, joined, failed, listener_vars, reflector_up,
                 acks, marked, switch_vars>>

(***************************************************************************)
(* _ack_listener                                                           *)
(***************************************************************************)

CheckStop ==
  /\ listener_pc = "check"
  /\ listener_pc' = IF stop THEN "ended" ELSE "receive"
  /\ UNCHANGED <<main_vars, rows, in_hand, pending, reflector_up, acks, marked, switch_vars>>

SocketClosed == main_pc \in {"close_log", "done"}

(* recvfrom: nothing for a quarter of a second, or the socket is gone and  *)
(* the thread dies of it.                                                  *)
RecvNothing ==
  /\ listener_pc = "receive"
  /\ listener_pc' = IF SocketClosed THEN "ended" ELSE "check"
  /\ UNCHANGED <<main_vars, rows, in_hand, pending, reflector_up, acks, marked, switch_vars>>

StillPending_Peek(a) == pending
StillPending(a) == pending \ {a.seq}

Recv(a) ==
  /\ listener_pc = "receive" /\ ~SocketClosed
  /\ a \in acks
  /\ \E keep \in BOOLEAN : acks' = IF keep THEN acks ELSE acks \ {a}
  /\ pending' = StillPending(a)
  /\ IF a.seq \in pending
       THEN listener_pc' = "write" /\ in_hand' = a
       ELSE listener_pc' = "check" /\ UNCHANGED in_hand
  /\ UNCHANGED <<main_vars, rows, reflector_up, marked, switch_vars>>

(* The row goes to the log; if that is closed the thread dies of it.       *)
WriteRow_StopsFirst ==
  /\ listener_pc = "write"
  /\ in_hand' = Nothing
  /\ IF stop THEN listener_pc' = "ended" /\ UNCHANGED rows
             ELSE listener_pc' = "check" /\ rows' = Append(rows, in_hand)
  /\ UNCHANGED <<main_vars, pending, reflector_up, acks, marked, switch_vars>>
WriteRow ==
  /\ listener_pc = "write"
  /\ in_hand' = Nothing
  /\ IF main_pc = "done"
       THEN listener_pc' = "ended" /\ UNCHANGED rows
       ELSE listener_pc' = "check" /\ rows' = Append(rows, in_hand)
  /\ UNCHANGED <<main_vars, pending, reflector_up, acks, marked, switch_vars>>

(***************************************************************************)
(* The switches, the reflector, and the way back.                          *)
(***************************************************************************)

Forward(i) ==
  /\ Egress(i)
  /\ marked' = IF Marks(Head(queue[i])) THEN marked \cup {Head(queue[i]).pkt.seq}
                                        ELSE marked
  /\ UNCHANGED <<main_vars, listener_vars, pending, reflector_up, acks>>

(* _build_ack: the echo says that the packet came with the mark.           *)
Ack_AnyEct(p) == [seq |-> p.seq, echo |-> p.ecn # "NotEct"]
Ack(p) == [seq |-> p.seq, echo |-> p.ecn = "Ce"]

(* An answer may get lost on its way back.                                 *)
Reflect ==
  /\ reflector_up /\ arrived # <<>>
  /\ \E lost \in BOOLEAN :
       acks' = IF lost THEN acks ELSE acks \cup {Ack(Head(arrived))}
  /\ arrived' = Tail(arrived)
  /\ UNCHANGED <<main_vars, listener_vars, pending, reflector_up, marked,
                 queue, counters>>

(* sendto raises: nothing catches it, and nobody starts another reflector. *)
ReflectorFails ==
  /\ reflector_up /\ arrived # <<>> /\ SendMayFail
  /\ reflector_up' = FALSE
  /\ arrived' = Tail(arrived)
  /\ UNCHANGED <<main_vars, listener_vars, pending, acks, marked,
                 queue, counters>>

MainStep ==
  \/ Register \/ Send \/ SendFails \/ TimeUp
  \/ SetStop \/ Join \/ CloseSocket \/ CloseLog

Terminated == main_pc = "done" /\ listener_pc = "ended" /\ UNCHANGED vars

Next ==
  \/ Register \/ Send \/ SendFails \/ TimeUp
  \/ SetStop \/ Join \/ CloseSocket \/ CloseLog
  \/ CheckStop \/ RecvNothing \/ WriteRow
  \/ \E a \in acks : Recv(a)
  \/ \E i \in Switches : Forward(i)
  \/ Reflect \/ ReflectorFails
  \/ Terminated

Spec == Init /\ [][Next]_vars

(* The main thread only waits for time to pass; nothing is assumed of the  *)
(* listener, the network or the reflector.                                 *)
FairSpec == Spec /\ WF_vars(MainStep)

-----------------------------------------------------------------------------

Packets == 0..(MaxPackets - 1)
Rows == [seq : Packets, echo : BOOLEAN]

TypeOK ==
  /\ seq \in 0..MaxPackets
  /\ pending \subseteq Packets /\ marked \subseteq Packets
  /\ rows \in Seq(Rows) /\ acks \subseteq Rows
  /\ in_hand \in Rows \cup {Nothing}
  /\ (listener_pc = "write") = (in_hand # Nothing)
  /\ main_pc \in {"loop", "registered", "drain", "join", "close_socket", "close_log", "done"}
  /\ listener_pc \in {"check", "receive", "write", "ended"}
  /\ {stop, joined, failed, reflector_up} \subseteq BOOLEAN
  /\ \A i \in Switches :
       /\ Len(queue[i]) <= QueueDepth
       /\ data_pkt_count[i] <= data_held[i] /\ data_held[i] <= seq
       /\ marked_pkt_count[i] <= marked_held[i] /\ marked_held[i] <= seq

(* A packet has at most one row, however often its ACK comes.              *)
LoggedOnce ==
  \A i, j \in 1..Len(rows) : rows[i].seq = rows[j].seq => i = j

(* A row's echo says whether a switch marked that very packet: the mark    *)
(* survives later switches, the reflector copies it and nothing else, and  *)
(* the listener puts it in the right row.                                  *)
EchoIsMark ==
  \A i \in 1..Len(rows) : rows[i].echo = (rows[i].seq \in marked)

(* What run_open_loop returns fits the log it leaves: each packet sent has *)
(* a row or is among the unacked.  If the join gave up, a packet may be    *)
(* neither: out of pending and in the hands of a listener whose log is     *)
(* closed.                                                                 *)
SummaryFitsLog ==
  summary # NoSummary /\ joined => summary.sent = Len(rows) + summary.unacked

(* The packets that have left the queue of switch i.                       *)
Past(i) ==
  0..(seq - 1) \ {queue[p[1]][p[2]].pkt.seq :
                    p \in {q \in (1..i) \X (1..QueueDepth) : q[2] <= Len(queue[q[1]])}}

(* The counters a driver prints may miss packets, since they are read and  *)
(* written apart from each other, but never tell of too many: a switch     *)
(* counts a packet when it leaves, once, and a mark only for a packet that *)
(* bears one.                                                              *)
NeverOvercounted ==
  \A i \in Switches :
    /\ data_pkt_count[i] <= Cardinality(Past(i))
    /\ marked_pkt_count[i] <= Cardinality(Past(i) \cap marked)

(* The harness ends, whatever listener, network and reflector do.          *)
Ends == <>(main_pc = "done")

=============================================================================
