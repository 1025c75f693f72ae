------------------------ MODULE WindowedSenderProofs ------------------------
(***************************************************************************)
(* The safety properties of WindowedSender for every number of packets,    *)
(* every window and every pattern of loss, reordering and failed sends.    *)
(***************************************************************************)
EXTENDS WindowedSender, FiniteSetTheorems, TLAPS

(* The window's limits are ordered: the cap is at least every window the   *)
(* sender starts from or falls back to.                                    *)
LEMMA WCapBounds ==
  WCap \in Nat \ {0} /\ WInit <= WCap /\ WMin <= WCap /\ WMax <= WCap
BY WindowAssumption DEF WindowAssumption, WCap, Larger

(* Both ways the window moves, an update and the cut on a timeout, stay    *)
(* between the floor and the cap.                                          *)
LEMMA WindowStays ==
  ASSUME TypeOK
  PROVE  WindowMoves \subseteq WMin..WCap /\ HalvedWindow \in WMin..WCap
<1>1. w \in WMin..WCap /\ WCap \in Nat /\ WMin \in 1..WCap
  BY WCapBounds, WindowAssumption DEF TypeOK, WindowAssumption
<1>2. WindowMoves \subseteq WMin..WCap
  BY <1>1 DEF WindowMoves
<1>3. w \div 2 \in 0..WCap
  BY <1>1
<1>4. HalvedWindow \in WMin..WCap
  BY <1>1, <1>3 DEF HalvedWindow, Larger
<1> QED BY <1>2, <1>4

(* A failed sendto concerns one of the packets that were being sent.       *)
LEMMA FailedAreSent ==
  ASSUME NEW seqs, NEW failed \in MayFail(seqs)
  PROVE  failed \subseteq seqs
BY DEF MayFail

-----------------------------------------------------------------------------

(* Every variable keeps its type; in particular no packet is in flight, in *)
(* the network or received that run() has not handed out.                  *)
THEOREM TypeCorrect == Spec => []TypeOK
<1>1. Init => TypeOK
  BY WCapBounds, WindowAssumption DEF Init, TypeOK, WindowAssumption
<1>2. TypeOK /\ [Next]_vars => TypeOK'
  <2> SUFFICES ASSUME TypeOK, [Next]_vars PROVE TypeOK'
    OBVIOUS
  <2> USE DEF TypeOK, network, sender
  <2>1. CASE EnterBurst BY <2>1 DEF EnterBurst
  <2>2. CASE SendNext
    <3>1. PICK failed \in MayFail({next_seq}) :
            /\ in_flight' = in_flight \cup ({next_seq} \ failed)
            /\ data' = data \cup ({next_seq} \ failed)
            /\ untracked' = untracked \cup failed
      BY <2>2 DEF SendNext
    <3>2. failed \subseteq {next_seq} BY FailedAreSent
    <3>3. /\ next_seq < MaxPackets /\ next_seq' = next_seq + 1
          /\ UNCHANGED <<cum_acked_seq, w, run_pc, acks, received>>
      BY <2>2 DEF SendNext
    <3>4. next_seq' \in 0..MaxPackets
      BY <3>3, WindowAssumption DEF WindowAssumption
    <3>5. 0..(next_seq - 1) \subseteq 0..(next_seq' - 1)
      BY <3>3
    <3>6. next_seq \in 0..(next_seq' - 1)
      BY <3>3
    <3> QED BY <3>1, <3>2, <3>3, <3>4, <3>5, <3>6
  <2>3. CASE LeaveBurst BY <2>3 DEF LeaveBurst
  <2>4. CASE CheckDone BY <2>4 DEF CheckDone
  <2>5. CASE Close BY <2>5 DEF Close
  <2>6. CASE TimeUp BY <2>6 DEF TimeUp
  <2>7. ASSUME NEW a \in acks, RecvAck(a) PROVE TypeOK'
    <3>1. w' \in WMin..WCap
      BY <2>7, WindowStays DEF RecvAck
    <3>2. in_flight' \subseteq in_flight /\ cum_acked_seq' \in Nat \cup {-1}
      BY <2>7 DEF RecvAck, OnAck
    <3>3. acks' \subseteq acks
      BY <2>7 DEF RecvAck
    <3> QED BY <2>7, <3>1, <3>2, <3>3 DEF RecvAck
  <2>8. CASE Rto
    <3>1. PICK failed \in MayFail(GoBackSet) :
            /\ in_flight' = GoBackSet \ failed
            /\ data' = data \cup (GoBackSet \ failed)
            /\ untracked' = untracked \cup failed
      BY <2>8 DEF Rto
    <3>2. failed \subseteq in_flight BY FailedAreSent DEF GoBackSet
    <3> QED BY <2>8, <3>1, <3>2, WindowStays DEF Rto, GoBackSet
  <2>9. ASSUME NEW s \in data, NEW answer \in {{}, {s}}, Answer(s, answer)
        PROVE  TypeOK'
    <3>1. data' \subseteq data BY <2>9 DEF Answer
    <3>2. answer \subseteq Nat /\ s \in 0..(next_seq - 1) OBVIOUS
    <3> QED BY <2>9, <3>1, <3>2 DEF Answer
  <2>10. ASSUME NEW s \in data, LoseData(s) PROVE TypeOK'
    BY <2>10 DEF LoseData
  <2>11. CASE UNCHANGED vars BY <2>11 DEF vars
  <2> QED
    BY <2>1, <2>2, <2>3, <2>4, <2>5, <2>6, <2>7, <2>8, <2>9, <2>10, <2>11
    DEF Next, Run, Reflect, ReflectLost, Terminated
<1> QED BY <1>1, <1>2, PTL DEF Spec

-----------------------------------------------------------------------------

(* in_flight is a finite set: its cardinality is a number, and taking      *)
(* packets out does not raise it.                                          *)
LEMMA FlightFinite ==
  ASSUME TypeOK
  PROVE  /\ IsFiniteSet(in_flight)
         /\ Cardinality(in_flight) \in Nat
         /\ \A S \in SUBSET in_flight :
              Cardinality(S) \in Nat /\ Cardinality(S) <= Cardinality(in_flight)
<1>1. IsFiniteSet(0..(next_seq - 1))
  BY FS_Interval DEF TypeOK
<1>2. IsFiniteSet(in_flight)
  BY <1>1, FS_Subset DEF TypeOK
<1>3. \A S \in SUBSET in_flight :
        IsFiniteSet(S) /\ Cardinality(S) <= Cardinality(in_flight)
  BY <1>2, FS_Subset
<1> QED BY <1>2, <1>3, FS_CardinalityType

(* The flight never outgrows the largest window.  Only SendNext adds to    *)
(* it, and only below the current window; an RTO resends at most what was  *)
(* in flight.                                                              *)
THEOREM FlightBound == Spec => []InFlightBounded
<1>1. Init => InFlightBounded
  BY WCapBounds, FS_EmptySet DEF Init, InFlightBounded
<1>2. TypeOK /\ TypeOK' /\ InFlightBounded /\ [Next]_vars => InFlightBounded'
  <2> SUFFICES ASSUME TypeOK, TypeOK', InFlightBounded, [Next]_vars
               PROVE  InFlightBounded'
    OBVIOUS
  <2>1. ASSUME in_flight' \subseteq in_flight PROVE InFlightBounded'
    BY <2>1, FlightFinite, WCapBounds DEF InFlightBounded
  <2>2. CASE SendNext
    <3>1. Cardinality(in_flight) < w /\ w \in WMin..WCap
      BY <2>2 DEF SendNext, WindowOpen, TypeOK
    <3>2. in_flight' \subseteq in_flight \cup {next_seq}
      BY <2>2 DEF SendNext
    <3>3. /\ IsFiniteSet(in_flight \cup {next_seq})
          /\ Cardinality(in_flight \cup {next_seq}) <= Cardinality(in_flight) + 1
          /\ Cardinality(in_flight \cup {next_seq}) \in Nat
      <4>1. IsFiniteSet(in_flight) /\ Cardinality(in_flight) \in Nat
        BY FlightFinite
      <4> QED BY <4>1, FS_AddElement
    <3>4. /\ Cardinality(in_flight') <= Cardinality(in_flight \cup {next_seq})
          /\ Cardinality(in_flight') \in Nat
      BY <3>2, <3>3, FS_Subset, FS_CardinalityType
    <3> QED BY <3>1, <3>3, <3>4, FlightFinite, WCapBounds, WindowAssumption
         DEF InFlightBounded, WindowAssumption
  <2>3. CASE Run /\ ~SendNext
    BY <2>1, <2>3 DEF Run, EnterBurst, LeaveBurst, CheckDone, Close
  <2>4. CASE TimeUp BY <2>1, <2>4 DEF TimeUp
  <2>5. ASSUME NEW a \in acks, RecvAck(a) PROVE InFlightBounded'
    BY <2>1, <2>5 DEF RecvAck, OnAck
  <2>6. CASE Rto BY <2>1, <2>6 DEF Rto, GoBackSet
  <2>7. ASSUME NEW s \in data, NEW answer, Answer(s, answer)
        PROVE  InFlightBounded'
    BY <2>1, <2>7 DEF Answer, sender
  <2>8. ASSUME NEW s \in data, LoseData(s) PROVE InFlightBounded'
    BY <2>1, <2>8 DEF LoseData, sender
  <2>9. CASE UNCHANGED vars BY <2>1, <2>9 DEF vars
  <2> QED
    BY <2>2, <2>3, <2>4, <2>5, <2>6, <2>7, <2>8, <2>9
    DEF Next, Reflect, ReflectLost, Terminated
<1> QED BY <1>1, <1>2, TypeCorrect, PTL DEF Spec

(* No packet is forgotten: what leaves in_flight is acknowledged or was    *)
(* given up by a failed sendto.                                            *)
THEOREM NothingForgotten == Spec => []Accounted
<1>1. Init => Accounted
  BY DEF Init, Accounted
<1>2. TypeOK /\ Accounted /\ [Next]_vars => Accounted'
  <2> SUFFICES ASSUME TypeOK, Accounted, [Next]_vars PROVE Accounted'
    OBVIOUS
  <2> USE DEF TypeOK, Accounted
  <2>1. ASSUME UNCHANGED <<next_seq, cum_acked_seq, in_flight, untracked>>
        PROVE  Accounted'
    BY <2>1
  <2>2. CASE SendNext
    <3>1. PICK failed \in MayFail({next_seq}) :
            /\ in_flight' = in_flight \cup ({next_seq} \ failed)
            /\ untracked' = untracked \cup failed
      BY <2>2 DEF SendNext
    <3>2. next_seq' = next_seq + 1 /\ cum_acked_seq' = cum_acked_seq
      BY <2>2 DEF SendNext
    <3>3. 0..(next_seq' - 1) = 0..(next_seq - 1) \cup {next_seq}
      BY <3>2
    <3> QED BY <3>1, <3>2, <3>3
  <2>3. CASE Run /\ ~SendNext
    BY <2>1, <2>3 DEF Run, EnterBurst, LeaveBurst, CheckDone, Close
  <2>4. CASE TimeUp BY <2>1, <2>4 DEF TimeUp
  <2>5. ASSUME NEW a \in acks, RecvAck(a) PROVE Accounted'
    <3>1. UNCHANGED <<next_seq, untracked>> BY <2>5 DEF RecvAck
    <3>2. a \in Nat OBVIOUS
    <3>3. CASE UNCHANGED <<in_flight, cum_acked_seq>> BY <3>1, <3>3
    <3>4. CASE /\ a > cum_acked_seq
               /\ in_flight' = in_flight \ ((cum_acked_seq + 1)..a)
               /\ cum_acked_seq' = a
      BY <3>1, <3>2, <3>4
    <3> QED BY <2>5, <3>3, <3>4 DEF RecvAck, OnAck
  <2>6. CASE Rto BY <2>6 DEF Rto, GoBackSet
  <2>7. ASSUME NEW s \in data, NEW answer, Answer(s, answer) PROVE Accounted'
    BY <2>1, <2>7 DEF Answer, sender
  <2>8. ASSUME NEW s \in data, LoseData(s) PROVE Accounted'
    BY <2>1, <2>8 DEF LoseData, sender
  <2>9. CASE UNCHANGED vars BY <2>1, <2>9 DEF vars
  <2> QED
    BY <2>2, <2>3, <2>4, <2>5, <2>6, <2>7, <2>8, <2>9
    DEF Next, Reflect, ReflectLost, Terminated
<1> QED BY <1>1, <1>2, TypeCorrect, PTL DEF Spec

-----------------------------------------------------------------------------

(* What makes the cursor trustworthy on a port of its own: an ACK on its   *)
(* way answers a packet the reflector saw.                                 *)
AcksAnswer == acks \subseteq received /\ CumAckReceived

(* With no ACK of an earlier socket around, the cursor only ever stands at *)
(* a packet that was received.                                             *)
THEOREM CursorReceived ==
  ASSUME StrayAcks = {} PROVE Spec => []CumAckReceived
<1> USE DEF AcksAnswer, CumAckReceived
<1>1. Init => AcksAnswer
  BY DEF Init
<1>2. TypeOK /\ AcksAnswer /\ [Next]_vars => AcksAnswer'
  <2> SUFFICES ASSUME TypeOK, AcksAnswer, [Next]_vars PROVE AcksAnswer'
    OBVIOUS
  <2>1. CASE Run
    BY <2>1 DEF Run, EnterBurst, SendNext, LeaveBurst, CheckDone, Close, network
  <2>2. CASE TimeUp BY <2>2 DEF TimeUp, network
  <2>3. ASSUME NEW a \in acks, RecvAck(a) PROVE AcksAnswer'
    BY <2>3 DEF RecvAck, OnAck
  <2>4. CASE Rto BY <2>4 DEF Rto
  <2>5. ASSUME NEW s \in data, NEW answer \in {{}, {s}}, Answer(s, answer)
        PROVE  AcksAnswer'
    BY <2>5 DEF Answer, sender
  <2>6. ASSUME NEW s \in data, LoseData(s) PROVE AcksAnswer'
    BY <2>6 DEF LoseData, sender
  <2>7. CASE UNCHANGED vars BY <2>7 DEF vars
  <2> QED
    BY <2>1, <2>2, <2>3, <2>4, <2>5, <2>6, <2>7
    DEF Next, Reflect, ReflectLost, Terminated
<1> QED BY <1>1, <1>2, TypeCorrect, PTL DEF Spec

(* Nor does an acknowledged packet stay in flight.  Besides the cursor's   *)
(* own steps this is threatened by SendNext alone, and a new packet is     *)
(* above the cursor because the cursor stands at a received one.           *)
THEOREM FlightAboveCursor ==
  ASSUME StrayAcks = {} PROVE Spec => []InFlightUnacked
<1>1. Init => InFlightUnacked
  BY DEF Init, InFlightUnacked
<1>2. TypeOK /\ CumAckReceived /\ InFlightUnacked /\ [Next]_vars
        => InFlightUnacked'
  <2> SUFFICES ASSUME TypeOK, CumAckReceived, InFlightUnacked, [Next]_vars
               PROVE  InFlightUnacked'
    OBVIOUS
  <2> USE DEF TypeOK, InFlightUnacked
  <2>1. ASSUME in_flight' \subseteq in_flight, cum_acked_seq' = cum_acked_seq
        PROVE  InFlightUnacked'
    BY <2>1
  <2>2. CASE SendNext
    BY <2>2 DEF SendNext, CumAckReceived
  <2>3. CASE Run /\ ~SendNext
    BY <2>1, <2>3 DEF Run, EnterBurst, LeaveBurst, CheckDone, Close
  <2>4. CASE TimeUp BY <2>1, <2>4 DEF TimeUp
  <2>5. ASSUME NEW a \in acks, RecvAck(a) PROVE InFlightUnacked'
    <3>1. a \in Nat OBVIOUS
    <3>2. CASE UNCHANGED <<in_flight, cum_acked_seq>> BY <2>1, <3>2
    <3>3. CASE /\ in_flight' = in_flight \ ((cum_acked_seq + 1)..a)
               /\ cum_acked_seq' = a
      BY <3>1, <3>3
    <3> QED BY <2>5, <3>2, <3>3 DEF RecvAck, OnAck
  <2>6. CASE Rto BY <2>1, <2>6 DEF Rto, GoBackSet
  <2>7. ASSUME NEW s \in data, NEW answer, Answer(s, answer)
        PROVE  InFlightUnacked'
    BY <2>1, <2>7 DEF Answer, sender
  <2>8. ASSUME NEW s \in data, LoseData(s) PROVE InFlightUnacked'
    BY <2>1, <2>8 DEF LoseData, sender
  <2>9. CASE UNCHANGED vars BY <2>1, <2>9 DEF vars
  <2> QED
    BY <2>2, <2>3, <2>4, <2>5, <2>6, <2>7, <2>8, <2>9
    DEF Next, Reflect, ReflectLost, Terminated
<1> QED BY <1>1, <1>2, TypeCorrect, CursorReceived, PTL DEF Spec

(* The early exit is only taken when the flow's last packet was received   *)
(* or given up by a failed sendto.                                         *)
THEOREM EarlyExitSound ==
  ASSUME StrayAcks = {} PROVE Spec => EarlyExitComplete
<1>1. TypeOK /\ Accounted /\ CumAckReceived /\ [Next]_vars
        => [run_pc = "check" /\ run_pc' = "drain" /\ MaxPackets > 0
              => MaxPackets - 1 \in received \cup untracked]_vars
  <2> SUFFICES ASSUME TypeOK, Accounted, CumAckReceived, Next,
                      run_pc = "check", run_pc' = "drain", MaxPackets > 0
               PROVE  MaxPackets - 1 \in received \cup untracked
    BY DEF vars
  <2>1. CheckDone
    BY DEF Next, Run, EnterBurst, SendNext, LeaveBurst, CheckDone, Close,
           TimeUp, RecvAck, Rto, Reflect, ReflectLost, Answer, LoseData,
           Terminated, sender, vars
  <2>2. next_seq = MaxPackets /\ in_flight = {}
    BY <2>1, WindowAssumption
    DEF CheckDone, AllDone, TypeOK, WindowAssumption
  <2>3. MaxPackets - 1 <= cum_acked_seq \/ MaxPackets - 1 \in untracked
    BY <2>2, WindowAssumption DEF Accounted, WindowAssumption
  <2>4. CASE MaxPackets - 1 <= cum_acked_seq
    <3>1. cum_acked_seq \in received /\ cum_acked_seq <= MaxPackets - 1
      BY <2>2, <2>4, WindowAssumption
      DEF TypeOK, CumAckReceived, WindowAssumption
    <3> QED BY <2>4, <3>1, WindowAssumption DEF TypeOK, WindowAssumption
  <2> QED BY <2>3, <2>4
<1> QED
  BY <1>1, TypeCorrect, NothingForgotten, CursorReceived, PTL
  DEF Spec, EarlyExitComplete

-----------------------------------------------------------------------------

(* The senders that implement this one keep their window in a finer unit:  *)
(* x stands for x/d packets, and x \div d is what int() makes of it.       *)

(* The whole part is monotone, exact at multiples of the unit, and within  *)
(* one unit of the number.                                                 *)
LEMMA WholePart ==
  ASSUME NEW d \in Nat \ {0}, NEW x \in Nat
  PROVE  /\ x \div d \in Nat
         /\ \A k \in Nat : k * d <= x => k <= x \div d
         /\ \A k \in Nat : x <= k * d => x \div d <= k
         /\ \A k \in Nat : k * d <= x /\ x < (k + 1) * d => x \div d = k
         /\ (x \div d) * d <= x
         /\ x < (x \div d + 1) * d
<1> DEFINE q == x \div d
<1>1. q \in Nat /\ q * d <= x /\ x < (q + 1) * d
  BY Z3
<1>2. ASSUME NEW k \in Nat, k * d <= x PROVE k <= q
  BY <1>1, <1>2, Z3
<1>3. ASSUME NEW k \in Nat, x <= k * d PROVE q <= k
  BY <1>1, <1>3, Z3
<1>4. ASSUME NEW k \in Nat, k * d <= x, x < (k + 1) * d PROVE q = k
  BY <1>1, <1>4, Z3
<1> QED BY <1>1, <1>2, <1>3, <1>4

(* A multiple of the unit has the whole part one expects.                  *)
LEMMA WholeOfMultiple ==
  ASSUME NEW d \in Nat \ {0}, NEW k \in Nat
  PROVE  k * d \in Nat /\ (k * d) \div d = k
<1>1. k * d \in Nat /\ k * d < (k + 1) * d BY Z3
<1> QED BY <1>1, WholePart

(* Rounding down before or after halving is the same.                      *)
LEMMA WholeOfHalf ==
  ASSUME NEW d \in Nat \ {0}, NEW x \in Nat
  PROVE  (x \div 2) \div d = (x \div d) \div 2
<1> DEFINE q == x \div d
           h == q \div 2
           half == x \div 2
<1>1. q \in Nat /\ q * d <= x /\ x < (q + 1) * d
  BY WholePart
<1>2. h \in Nat /\ 2 * h <= q /\ q <= 2 * h + 1
  BY <1>1
<1>3. (2 * h) * d <= x /\ x < (2 * h + 2) * d
  <2> HIDE DEF q, h
  <2> QED BY <1>1, <1>2, Z3
<1>4. h * d <= half /\ half < (h + 1) * d
  <2> HIDE DEF h
  <2>1. /\ (2 * h) * d = 2 * (h * d)
        /\ (2 * h + 2) * d = 2 * ((h + 1) * d)
        /\ h * d \in Nat /\ (h + 1) * d \in Nat
    BY <1>2, Z3
  <2> QED BY <1>3, <2>1
<1>5. half \in Nat OBVIOUS
<1> HIDE DEF h, half
<1>6. half \div d = h BY <1>2, <1>4, <1>5, WholePart
<1> QED BY <1>6 DEF half, h

(* A cut in half with a floor of whole units: the same in the fine units   *)
(* and in whole ones.                                                      *)
LEMMA WholeOfFlooredHalf ==
  ASSUME NEW d \in Nat \ {0}, NEW low \in Nat, NEW x \in Nat
  PROVE  /\ low * d >= x \div 2 => low >= (x \div d) \div 2
         /\ low * d <= x \div 2 => low <= (x \div d) \div 2
<1> DEFINE half == x \div 2
<1>1. half \in Nat OBVIOUS
<1>2. half \div d = (x \div d) \div 2 BY WholeOfHalf
<1> HIDE DEF half
<1>3. half <= low * d => half \div d <= low BY <1>1, WholePart
<1>4. low * d <= half => low <= half \div d BY <1>1, WholePart
<1>5. low * d \in Nat BY Z3
<1>6. low * d >= half => half \div d <= low BY <1>1, <1>3, <1>5
<1>7. half \div d \in Nat BY <1>1, WholePart
<1> QED BY <1>2, <1>4, <1>6, <1>7 DEF half

=============================================================================
