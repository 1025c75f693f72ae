-------------------------- MODULE DctcpSenderProofs --------------------------
(***************************************************************************)
(* DctcpSender implements WindowedSender, and so has its safety            *)
(* properties; its own bookkeeping is sound for every gain and window.     *)
(***************************************************************************)
EXTENDS DctcpSender, TLAPS

(* What is proved of the windowed sender, and of its whole packets.        *)
Proved == INSTANCE WindowedSenderProofs
            WITH w <- w \div Scale, acks <- {ack.seq : ack \in acks}

Cap == Windowed!WCap * Scale

(* Whole packets of a window: monotone, and exact at multiples of Scale.   *)
LEMMA WholePackets ==
  ASSUME NEW x \in Nat
  PROVE  /\ x \div Scale \in Nat
         /\ \A k \in Nat : k * Scale <= x => k <= x \div Scale
         /\ \A k \in Nat : x <= k * Scale => x \div Scale <= k
         /\ \A k \in Nat : k * Scale <= x /\ x < (k + 1) * Scale
                             => x \div Scale = k
         /\ (x \div Scale) * Scale <= x
         /\ x < (x \div Scale + 1) * Scale
BY Proved!WholePart, DctcpAssumption DEF DctcpAssumption

(* The window's limits, in both units.                                     *)
LEMMA Limits ==
  /\ Windowed!WCap \in Nat /\ WMin \in Nat \ {0} /\ WMin <= Windowed!WCap
  /\ WInit <= Windowed!WCap /\ WMax <= Windowed!WCap /\ Scale \in Nat \ {0}
  /\ Floor \in Nat /\ Cap \in Nat /\ Floor <= Cap
  /\ WInit * Scale \in Floor..Cap /\ WMax * Scale \in Floor..Cap
<1>1. /\ Windowed!WCap \in Nat /\ WMin \in Nat \ {0} /\ Scale \in Nat \ {0}
      /\ WMin <= Windowed!WCap
      /\ WInit \in Nat /\ WMin <= WInit /\ WInit <= Windowed!WCap
      /\ WMax \in Nat /\ WMin <= WMax /\ WMax <= Windowed!WCap
  BY DctcpAssumption DEF DctcpAssumption, Windowed!WCap, Windowed!Larger
<1>2. \A i, j \in Nat : i <= j => i * Scale \in Nat /\ i * Scale <= j * Scale
  BY <1>1, Z3
<1> QED BY <1>1, <1>2 DEF Floor, Cap

(* A window between the limits is between them in whole packets too.       *)
LEMMA WholeInLimits ==
  ASSUME NEW x \in Floor..Cap
  PROVE  x \div Scale \in WMin..Windowed!WCap
<1>1. x \in Nat BY Limits
<1> QED BY <1>1, Limits, WholePackets DEF Floor, Cap

(* Every move of the control law stays between the limits ...              *)
LEMMA CutStays ==
  ASSUME w \in Floor..Cap, NEW a \in 0..AlphaOne
  PROVE  Cut(a) \in Floor..w
<1> DEFINE n == 2 * AlphaOne
           c == (w * (n - a)) \div n
<1>1. n \in Nat /\ n > 0 /\ a \in 0..n /\ w \in Nat
  BY DctcpAssumption, Limits DEF DctcpAssumption
<1>2. w * (n - a) \in Nat /\ w * (n - a) <= w * n
  BY <1>1, Z3
<1>3. c \in Int /\ c <= w
  BY <1>1, <1>2, Z3
<1> QED BY <1>3, <1>1, Limits DEF Cut, Windowed!Larger

(* Growth leaves the window between its limits.                            *)
LEMMA GrownStays ==
  ASSUME w \in Floor..Cap
  PROVE  Grown \in Floor..Cap
BY Limits DEF Grown

(* So does a timeout.                                                      *)
LEMMA HalvedStays ==
  ASSUME w \in Floor..Cap
  PROVE  Halved \in Floor..Cap
BY Limits DEF Halved, Windowed!Larger

(* ... and the cut on a timeout halves the whole packets: rounding down    *)
(* before or after halving is the same.                                    *)
LEMMA HalvedWhole ==
  ASSUME w \in Floor..Cap
  PROVE  Halved \div Scale = Windowed!HalvedWindow
<1> DEFINE h == (w \div Scale) \div 2
<1>1. w \in Nat /\ Scale \in Nat \ {0} /\ WMin \in Nat BY Limits
<1>2. Floor \div Scale = WMin /\ (w \div 2) \div Scale = h
  BY <1>1, Proved!WholeOfMultiple, Proved!WholeOfHalf DEF Floor
<1>3. Floor >= w \div 2 => WMin >= h
  BY <1>1, Proved!WholeOfFlooredHalf DEF Floor
<1>4. Floor <= w \div 2 => WMin <= h
  BY <1>1, Proved!WholeOfFlooredHalf DEF Floor
<1>5. Floor \in Nat /\ w \div 2 \in Nat /\ h \in Nat
  BY <1>1, Limits, WholePackets
<1> QED
  BY <1>1, <1>2, <1>3, <1>4, <1>5
  DEF Halved, Windowed!HalvedWindow, Windowed!Larger

(* alpha stays between 0 and 1: it is a weighted mean of itself and a      *)
(* fraction.                                                               *)
LEMMA AlphaStays ==
  ASSUME alpha \in 0..AlphaOne, NEW total \in Nat \ {0}, NEW marked \in 0..total
  PROVE  NewAlpha(total, marked) \in 0..AlphaOne
<1> DEFINE f == (marked * AlphaOne) \div total
           s == (GInv - 1) * alpha + f
<1>1. AlphaOne \in Nat /\ GInv \in Nat /\ GInv > 0
  BY DctcpAssumption DEF DctcpAssumption
<1>2. marked * AlphaOne \in Nat /\ marked * AlphaOne <= total * AlphaOne
  BY <1>1, Z3
<1>3. f \in 0..AlphaOne
  BY <1>1, <1>2, Z3
<1>4. (GInv - 1) * alpha \in Nat /\ (GInv - 1) * alpha <= (GInv - 1) * AlphaOne
  BY <1>1, Z3
<1>5. s \in Nat /\ s <= GInv * AlphaOne
  <2> HIDE DEF f
  <2> QED BY <1>1, <1>3, <1>4, Z3
<1>6. s \div GInv \in 0..AlphaOne
  <2> HIDE DEF s
  <2> QED BY <1>1, <1>5, Z3
<1> QED BY <1>6 DEF NewAlpha

-----------------------------------------------------------------------------

(* One run of _maybe_update_window_locked: either the ACK is only counted, *)
(* or the window moves once and the sample starts anew.                    *)
LEMMA UpdateTypes ==
  ASSUME TypeOK, cum_acked_seq' \in Nat, cum_acked_seq' >= cum_acked_seq,
         NEW total \in Nat \ {0}, NEW marked \in 0..total,
         MaybeUpdateWindow(total, marked)
  PROVE  /\ w' \in Floor..Cap
         /\ alpha' \in 0..AlphaOne
         /\ last_update_seq' \in -1..cum_acked_seq'
         /\ rtt_window_total' \in Nat
         /\ rtt_window_marked' \in 0..rtt_window_total'
<1>1. w \in Floor..Cap /\ Floor \in Nat /\ Cap \in Nat
  BY Limits DEF TypeOK, Cap
<1>2. CASE TooSoon(cum_acked_seq')
  BY <1>1, <1>2 DEF MaybeUpdateWindow, TypeOK
<1>3. CASE ~TooSoon(cum_acked_seq')
  <2>1. alpha' \in 0..AlphaOne
    BY <1>3, AlphaStays DEF MaybeUpdateWindow, TypeOK
  <2>2. w' \in Floor..Cap
    BY <1>1, <1>3, <2>1, CutStays, GrownStays DEF MaybeUpdateWindow
  <2> QED BY <1>3, <2>1, <2>2 DEF MaybeUpdateWindow
<1> QED BY <1>2, <1>3

(* Every variable of the DCTCP sender keeps its type: alpha is a fraction, *)
(* no more marks than ACKs are counted, the window stays between its floor *)
(* and its cap.                                                            *)
THEOREM DctcpTypeCorrect == Spec => []TypeOK
<1>1. Init => TypeOK
  <2> SUFFICES ASSUME Init PROVE TypeOK
    OBVIOUS
  <2>1. w \in Floor..Cap
    <3>1. w = WInit * Scale BY DEF Init
    <3> QED BY <3>1, Limits, Zenon
  <2>2. acks \subseteq [seq : Nat, ece : BOOLEAN]
    <3>1. \A s \in StrayAcks : Ack(s, FALSE) \in [seq : Nat, ece : BOOLEAN]
      BY DctcpAssumption DEF Ack, DctcpAssumption
    <3>2. acks = {Ack(s, FALSE) : s \in StrayAcks} BY DEF Init
    <3> QED BY <3>1, <3>2
  <2>3. /\ next_seq = 0 /\ cum_acked_seq = -1 /\ in_flight = {} /\ data = {}
        /\ alpha = 0 /\ last_update_seq = -1
        /\ rtt_window_total = 0 /\ rtt_window_marked = 0
    BY DEF Init
  <2> QED BY <2>1, <2>2, <2>3, DctcpAssumption DEF TypeOK, Cap, DctcpAssumption
<1>2. TypeOK /\ [Next]_vars => TypeOK'
  <2> SUFFICES ASSUME TypeOK, [Next]_vars PROVE TypeOK'
    OBVIOUS
  <2>1. ASSUME UNCHANGED <<cum_acked_seq, acks, w, estimate>>,
               next_seq' \in Nat, in_flight' \subseteq Nat, data' \subseteq Nat
        PROVE  TypeOK'
    BY <2>1 DEF TypeOK, estimate
  <2>2. CASE Transport(Windowed!Run \/ Windowed!TimeUp)
    <3>1. /\ next_seq' \in {next_seq, next_seq + 1}
          /\ cum_acked_seq' = cum_acked_seq
          /\ in_flight' \subseteq in_flight \cup {next_seq}
          /\ data' \subseteq data \cup {next_seq}
      BY <2>2
      DEF Transport, Windowed!Run, Windowed!TimeUp, Windowed!EnterBurst,
          Windowed!SendNext, Windowed!LeaveBurst, Windowed!CheckDone,
          Windowed!Close, Windowed!network
    <3> QED BY <2>1, <2>2, <3>1 DEF Transport, TypeOK
  <2>3. ASSUME NEW ack \in acks, RecvAck(ack) PROVE TypeOK'
    <3>1. ack.seq \in Nat /\ ack.ece \in BOOLEAN
      BY DEF TypeOK
    <3>2. acks' \subseteq acks /\ UNCHANGED <<next_seq, data>>
      BY <2>3 DEF RecvAck
    <3>3. CASE IgnoredAck(ack.seq)
      BY <2>3, <3>2, <3>3 DEF RecvAck, TypeOK, estimate
    <3>4. CASE ~IgnoredAck(ack.seq)
      <4> DEFINE total == rtt_window_total + 1
                 marked == rtt_window_marked + Counted(ack)
      <4>1. Windowed!OnAck(ack.seq) /\ MaybeUpdateWindow(total, marked)
        BY <2>3, <3>4 DEF RecvAck
      <4>2. total \in Nat \ {0} /\ marked \in 0..total
        BY <3>1 DEF TypeOK, Counted
      <4>3. /\ cum_acked_seq' >= cum_acked_seq /\ cum_acked_seq' \in Nat
            /\ in_flight' \subseteq in_flight
        BY <3>1, <3>4, <4>1
        DEF TypeOK, Windowed!OnAck, IgnoredAck, Windowed!StaleDuplicate
      <4> HIDE DEF total, marked
      <4> QED BY <3>2, <4>1, <4>2, <4>3, UpdateTypes DEF TypeOK, Cap
    <3> QED BY <3>3, <3>4
  <2>4. CASE Rto
    BY <2>4, HalvedStays DEF Rto, TypeOK, Cap, estimate
  <2>5. ASSUME NEW s \in data, Reflect(s) PROVE TypeOK'
    BY <2>5 DEF Reflect, TypeOK, Ack, estimate
  <2>6. ASSUME NEW s \in data,
               Transport(Windowed!ReflectLost(s) \/ Windowed!LoseData(s))
        PROVE  TypeOK'
    BY <2>1, <2>6
    DEF Transport, Windowed!ReflectLost, Windowed!Answer, Windowed!LoseData,
        Windowed!sender, TypeOK
  <2>7. CASE Transport(Windowed!Terminated)
    BY <2>1, <2>7 DEF Transport, Windowed!Terminated, Windowed!vars, TypeOK
  <2>8. CASE UNCHANGED vars
    BY <2>1, <2>8 DEF vars, TypeOK
  <2> QED BY <2>2, <2>3, <2>4, <2>5, <2>6, <2>7, <2>8 DEF Next
<1> QED BY <1>1, <1>2, PTL DEF Spec

-----------------------------------------------------------------------------

(* An ACK carries the number of the packet it answers.                     *)
LEMMA AckNumber == \A s, ece : Ack(s, ece).seq = s
BY DEF Ack

(* Taking one record off the socket takes its number off the abstract      *)
(* socket, or leaves it there when another record carries the same number. *)
LEMMA OneAckTaken ==
  ASSUME NEW S, NEW ack \in S, NEW T, T = S \/ T = S \ {ack}
  PROVE  \E keep \in BOOLEAN :
           {x.seq : x \in T} = IF keep THEN {x.seq : x \in S}
                                       ELSE {x.seq : x \in S} \ {ack.seq}
<1>1. CASE T = S \/ \E y \in S \ {ack} : y.seq = ack.seq
  <2>1. {x.seq : x \in T} = {x.seq : x \in S} BY <1>1
  <2> QED BY <2>1
<1>2. CASE T = S \ {ack} /\ ~\E y \in S \ {ack} : y.seq = ack.seq
  <2>1. {x.seq : x \in T} = {x.seq : x \in S} \ {ack.seq} BY <1>2
  <2> QED BY <2>1
<1> QED BY <1>1, <1>2

(* An ACK that is processed moves the abstract window by a legal move.     *)
LEMMA UpdateIsWindowMove ==
  ASSUME TypeOK, cum_acked_seq' \in Nat, cum_acked_seq' >= cum_acked_seq,
         NEW total \in Nat \ {0}, NEW marked \in 0..total,
         MaybeUpdateWindow(total, marked)
  PROVE  w' \div Scale \in Windowed!WindowMoves
<1>1. w' \in Floor..Cap BY UpdateTypes
<1> QED BY <1>1, WholeInLimits DEF Windowed!WindowMoves

(* Every behaviour of the DCTCP sender is one of the windowed sender: the  *)
(* control law only ever does to the window what the transport is built to *)
(* withstand.                                                              *)
THEOREM DctcpImplementsWindowed == Spec => ImplementsWindowed
<1>1. Init => Windowed!Init
  <2> SUFFICES ASSUME Init PROVE Windowed!Init
    OBVIOUS
  <2>1. w \div Scale = WInit
    <3>1. WInit \in Nat /\ Scale \in Nat \ {0} /\ w = WInit * Scale
      BY DctcpAssumption DEF Init, DctcpAssumption
    <3>2. w \in Nat /\ w < (WInit + 1) * Scale
      BY <3>1, Z3
    <3> QED BY <3>1, <3>2, WholePackets
  <2>2. {ack.seq : ack \in acks} = StrayAcks
    <3>1. acks = {Ack(s, FALSE) : s \in StrayAcks} BY DEF Init
    <3>2. \A s \in StrayAcks : Ack(s, FALSE) \in acks BY <3>1
    <3>3. \A ack \in acks : \E s \in StrayAcks : ack = Ack(s, FALSE) BY <3>1
    <3>4. \A s \in StrayAcks : \E ack \in acks : ack.seq = s
      BY <3>2, AckNumber
    <3>5. \A ack \in acks : ack.seq \in StrayAcks
      BY <3>3, AckNumber
    <3> QED BY <3>4, <3>5
  <2> QED BY <2>1, <2>2 DEF Init, Windowed!Init
<1>2. TypeOK /\ [Next]_vars => [Windowed!Next]_(Windowed!vars)
  <2> SUFFICES ASSUME TypeOK, [Next]_vars
               PROVE  Windowed!Next \/ UNCHANGED Windowed!vars
    OBVIOUS
  <2>1. CASE Transport(Windowed!Run \/ Windowed!TimeUp)
    BY <2>1 DEF Transport, Windowed!Next
  <2>2. ASSUME NEW ack \in acks, RecvAck(ack)
        PROVE  Windowed!RecvAck(ack.seq)
    <3>1. \E keep \in BOOLEAN :
            {x.seq : x \in acks'} =
              IF keep THEN {x.seq : x \in acks}
                      ELSE {x.seq : x \in acks} \ {ack.seq}
      <4>1. acks' = acks \/ acks' = acks \ {ack} BY <2>2 DEF RecvAck
      <4> QED BY <4>1, OneAckTaken
    <3>2. ack.seq \in Nat /\ ack.ece \in BOOLEAN BY DEF TypeOK
    <3>3. CASE IgnoredAck(ack.seq)
      BY <2>2, <3>1, <3>3 DEF RecvAck, IgnoredAck, Windowed!RecvAck
    <3>4. CASE ~IgnoredAck(ack.seq)
      <4> DEFINE total == rtt_window_total + 1
                 marked == rtt_window_marked + Counted(ack)
      <4>1. Windowed!OnAck(ack.seq) /\ MaybeUpdateWindow(total, marked)
        BY <2>2, <3>4 DEF RecvAck
      <4>2. total \in Nat \ {0} /\ marked \in 0..total
        BY <3>2 DEF TypeOK, Counted
      <4>3. cum_acked_seq' >= cum_acked_seq /\ cum_acked_seq' \in Nat
        BY <3>2, <3>4, <4>1
        DEF TypeOK, Windowed!OnAck, IgnoredAck, Windowed!StaleDuplicate
      <4> HIDE DEF total, marked
      <4>4. w' \div Scale \in Windowed!WindowMoves
        BY <4>1, <4>2, <4>3, UpdateIsWindowMove
      <4> QED
        BY <2>2, <3>1, <3>4, <4>1, <4>4
        DEF RecvAck, IgnoredAck, Windowed!RecvAck
    <3> QED BY <3>3, <3>4
  <2>3. ASSUME Rto PROVE Windowed!Rto
    <3>1. w' \div Scale = Windowed!HalvedWindow
      BY <2>3, HalvedWhole DEF Rto, TypeOK, Cap
    <3> QED BY <2>3, <3>1 DEF Rto, Windowed!Rto, Windowed!GoBackSet
  <2>4. ASSUME NEW s \in data, Reflect(s) PROVE Windowed!Reflect(s)
    <3>1. {ack.seq : ack \in acks'} = {ack.seq : ack \in acks} \cup {s}
      <4>1. PICK ece \in BOOLEAN : acks' = acks \cup {Ack(s, ece)}
        BY <2>4 DEF Reflect
      <4> DEFINE new == Ack(s, ece)
      <4>2. new.seq = s BY AckNumber
      <4> HIDE DEF new
      <4>3. new \in acks' /\ acks \subseteq acks' BY <4>1 DEF new
      <4>4. \A ack \in acks' : ack \in acks \/ ack = new BY <4>1 DEF new
      <4> QED BY <4>2, <4>3, <4>4
    <3> QED
      BY <2>4, <3>1
      DEF Reflect, Windowed!Reflect, Windowed!Answer, Windowed!sender
  <2>5. ASSUME NEW s \in data,
               Transport(Windowed!ReflectLost(s) \/ Windowed!LoseData(s))
        PROVE  Windowed!Next
    BY <2>5 DEF Transport, Windowed!Next
  <2>6. CASE Transport(Windowed!Terminated)
    BY <2>6 DEF Transport, Windowed!Next
  <2>7. CASE UNCHANGED vars
    BY <2>7 DEF vars, Windowed!vars
  <2> QED
    BY <2>1, <2>2, <2>3, <2>4, <2>5, <2>6, <2>7 DEF Next, Windowed!Next
<1> QED BY <1>1, <1>2, DctcpTypeCorrect, PTL DEF Spec, ImplementsWindowed, Windowed!Spec

-----------------------------------------------------------------------------

(* The transport the refinement is stated with and the one the proofs are  *)
(* about are the same: both under the same mapping.                        *)
LEMMA SameSender ==
  /\ ImplementsWindowed => Proved!Spec
  /\ Proved!WindowAssumption
<1>1. Windowed!Init => Proved!Init
  BY DEF Windowed!Init, Proved!Init
<1>2. [Windowed!Next]_(Windowed!vars) => [Proved!Next]_(Proved!vars)
  BY DEF
      Windowed!EnterBurst, Windowed!SendNext, Windowed!LeaveBurst,
      Windowed!CheckDone, Windowed!Close, Windowed!TimeUp,
      Windowed!RecvAck, Windowed!Rto, Windowed!Reflect,
      Windowed!ReflectLost, Windowed!Answer, Windowed!LoseData,
      Windowed!Terminated, Windowed!Run, Windowed!Next,
      Windowed!MayFail, Windowed!WindowOpen, Windowed!AllDone,
      Windowed!LockFree, Windowed!StaleDuplicate, Windowed!OnAck,
      Windowed!WindowMoves, Windowed!WCap, Windowed!Larger,
      Windowed!HalvedWindow, Windowed!GoBackSet, Windowed!network,
      Windowed!sender, Windowed!vars, Proved!EnterBurst,
      Proved!SendNext, Proved!LeaveBurst, Proved!CheckDone,
      Proved!Close, Proved!TimeUp, Proved!RecvAck, Proved!Rto,
      Proved!Reflect, Proved!ReflectLost, Proved!Answer,
      Proved!LoseData, Proved!Terminated, Proved!Run, Proved!Next,
      Proved!MayFail, Proved!WindowOpen, Proved!AllDone,
      Proved!LockFree, Proved!StaleDuplicate, Proved!OnAck,
      Proved!WindowMoves, Proved!WCap, Proved!Larger,
      Proved!HalvedWindow, Proved!GoBackSet, Proved!network,
      Proved!sender, Proved!vars,
      Windowed!Cardinality, Proved!Cardinality
<1>3. ImplementsWindowed => Proved!Spec
  BY <1>1, <1>2, PTL DEF ImplementsWindowed, Windowed!Spec, Proved!Spec
<1>4. Proved!WindowAssumption
  BY DctcpAssumption DEF DctcpAssumption, Proved!WindowAssumption
<1> QED BY <1>3, <1>4

(* The DCTCP sender keeps no acknowledged packet in flight, never has more *)
(* in flight than its largest window, and forgets no packet.               *)
THEOREM DctcpTransportSafe ==
  /\ Spec => []Windowed!InFlightBounded
  /\ Spec => []Windowed!Accounted
  /\ StrayAcks = {} => (Spec => []Windowed!InFlightUnacked)
<1>1. Proved!Spec => []Proved!InFlightBounded
  BY SameSender, Proved!FlightBound
<1>2. Proved!InFlightBounded => Windowed!InFlightBounded
  BY DEF Proved!InFlightBounded, Windowed!InFlightBounded, Proved!WCap,
         Windowed!WCap, Proved!Larger, Windowed!Larger,
         Proved!Cardinality, Windowed!Cardinality
<1>3. Proved!Spec => []Proved!Accounted
  BY SameSender, Proved!NothingForgotten
<1>4. Proved!Accounted => Windowed!Accounted
  BY DEF Proved!Accounted, Windowed!Accounted
<1>5. ASSUME StrayAcks = {} PROVE Proved!Spec => []Proved!InFlightUnacked
  BY <1>5, SameSender, Proved!FlightAboveCursor
<1>6. Proved!InFlightUnacked => Windowed!InFlightUnacked
  BY DEF Proved!InFlightUnacked, Windowed!InFlightUnacked
<1>7. Spec => []Windowed!InFlightBounded
  BY <1>1, <1>2, DctcpImplementsWindowed, SameSender, PTL
<1>8. Spec => []Windowed!Accounted
  BY <1>3, <1>4, DctcpImplementsWindowed, SameSender, PTL
<1>9. ASSUME StrayAcks = {} PROVE Spec => []Windowed!InFlightUnacked
  BY <1>5, <1>6, <1>9, DctcpImplementsWindowed, SameSender, PTL
<1> QED BY <1>7, <1>8, <1>9

-----------------------------------------------------------------------------

(* Only the listener and the timer touch the window, the cursor and the    *)
(* sample.                                                                 *)
LEMMA QuietSteps ==
  ASSUME [Next]_vars, ~Rto, ~\E ack \in acks : RecvAck(ack)
  PROVE  UNCHANGED <<cum_acked_seq, w, estimate>>
<1>1. CASE Transport(Windowed!Run \/ Windowed!TimeUp)
  BY <1>1
  DEF Transport, Windowed!Run, Windowed!TimeUp, Windowed!EnterBurst,
      Windowed!SendNext, Windowed!LeaveBurst, Windowed!CheckDone,
      Windowed!Close
<1>2. ASSUME NEW s \in data,
             Transport(Windowed!ReflectLost(s) \/ Windowed!LoseData(s))
      PROVE  UNCHANGED <<cum_acked_seq, w, estimate>>
  BY <1>2
  DEF Transport, Windowed!ReflectLost, Windowed!Answer, Windowed!LoseData,
      Windowed!sender
<1>3. CASE Transport(Windowed!Terminated)
  BY <1>3 DEF Transport, Windowed!Terminated, Windowed!vars
<1>4. CASE \E s \in data : Reflect(s)
  BY <1>4 DEF Reflect
<1>5. CASE UNCHANGED vars
  BY <1>5 DEF vars
<1> QED BY <1>1, <1>2, <1>3, <1>4, <1>5 DEF Next

(* With no stray ACKs, an ACK that is counted always advances the cursor:  *)
(* it acknowledges a packet in flight, and those are above the cursor.     *)
(* Hence no more ACKs are counted than packets acknowledged.               *)
THEOREM CountedOnce ==
  ASSUME StrayAcks = {} PROVE Spec => []AckCountedOnce
<1>1. Init => AckCountedOnce
  BY DEF Init, AckCountedOnce
<1>2. TypeOK /\ Windowed!InFlightUnacked /\ AckCountedOnce /\ [Next]_vars
        => AckCountedOnce'
  <2> SUFFICES ASSUME TypeOK, Windowed!InFlightUnacked, AckCountedOnce,
                      [Next]_vars
               PROVE  AckCountedOnce'
    OBVIOUS
  <2>1. ASSUME UNCHANGED <<cum_acked_seq, estimate>> PROVE AckCountedOnce'
    BY <2>1 DEF AckCountedOnce, estimate
  <2>2. ASSUME NEW ack \in acks, RecvAck(ack) PROVE AckCountedOnce'
    <3>1. ack.seq \in Nat BY DEF TypeOK
    <3>2. CASE IgnoredAck(ack.seq)
      BY <2>1, <2>2, <3>2 DEF RecvAck
    <3>3. CASE ~IgnoredAck(ack.seq)
      <4>1. cum_acked_seq' \in Nat /\ cum_acked_seq' >= cum_acked_seq + 1
        BY <2>2, <3>1, <3>3
        DEF RecvAck, IgnoredAck, Windowed!StaleDuplicate, Windowed!OnAck,
            Windowed!InFlightUnacked, TypeOK
      <4>2. MaybeUpdateWindow(rtt_window_total + 1,
                              rtt_window_marked + Counted(ack))
        BY <2>2, <3>3 DEF RecvAck
      <4> QED
        BY <4>1, <4>2 DEF MaybeUpdateWindow, AckCountedOnce, TypeOK
    <3> QED BY <3>2, <3>3
  <2>3. CASE Rto BY <2>1, <2>3 DEF Rto
  <2> QED BY <2>1, <2>2, <2>3, QuietSteps
<1>3. Spec => []Windowed!InFlightUnacked
  BY DctcpTransportSafe
<1> QED BY <1>1, <1>2, <1>3, DctcpTypeCorrect, PTL DEF Spec

-----------------------------------------------------------------------------

(* Triangle numbers: what the windows from 1 up to v - 1 add up to.        *)
LEMMA TriangleFacts ==
  /\ \A v \in Nat \ {0} : Triangle(v) \in Nat
  /\ \A v \in Nat \ {0} : Triangle(v + 1) = Triangle(v) + v
  /\ \A u, v \in Nat \ {0} : u <= v => Triangle(u) <= Triangle(v)
<1>1. ASSUME NEW v \in Nat \ {0}
      PROVE  /\ Triangle(v) \in Nat
             /\ Triangle(v + 1) = Triangle(v) + v
  <2> DEFINE p == v * (v - 1)
  <2>1. p \in Nat BY Z3
  <2>2. (v + 1) * ((v + 1) - 1) = p + 2 * v BY Z3
  <2> HIDE DEF p
  <2>3. (p + 2 * v) \div 2 = p \div 2 + v /\ p \div 2 \in Nat BY <2>1
  <2> QED BY <2>1, <2>2, <2>3 DEF Triangle, p
<1>2. ASSUME NEW u \in Nat \ {0}, NEW v \in Nat \ {0}, u <= v
      PROVE  Triangle(u) <= Triangle(v)
  <2> DEFINE p == u * (u - 1)
             q == v * (v - 1)
  <2>1. p \in Nat /\ q \in Nat /\ p <= q BY <1>2, Z3
  <2> HIDE DEF p, q
  <2>2. p \div 2 <= q \div 2 BY <2>1
  <2> QED BY <2>2 DEF Triangle, p, q
<1> QED BY <1>1, <1>2

(* A cut does not raise the number of whole packets, growth raises it by   *)
(* at most one.                                                            *)
LEMMA WholeMoves ==
  ASSUME w \in Floor..Cap
  PROVE  /\ w \div Scale \in Nat \ {0}
         /\ \A v \in Floor..w : v \div Scale \in Nat \ {0}
                                /\ v \div Scale <= w \div Scale
         /\ Grown \div Scale \in Nat \ {0}
         /\ Grown \div Scale <= w \div Scale + 1
<1> DEFINE q == w \div Scale
<1>1. w \in Nat /\ Scale \in Nat \ {0} /\ WMin \in Nat \ {0} /\ Floor \in Nat
  BY Limits
<1>2. q \in Nat /\ w < (q + 1) * Scale
  BY <1>1, WholePackets
<1>3. \A v \in Floor..Cap : v \div Scale \in Nat \ {0}
  BY WholeInLimits, Limits
<1>4. ASSUME NEW v \in Floor..w PROVE v \div Scale <= q
  <2>1. v \in Nat BY <1>1
  <2>2. (v \div Scale) * Scale <= v /\ v \div Scale \in Nat
    BY <2>1, WholePackets
  <2>3. (v \div Scale) * Scale <= w BY <1>1, <2>1, <2>2, Z3
  <2> QED BY <1>1, <2>2, <2>3, WholePackets
<1>5. Grown \div Scale <= q + 1
  <2>1. Grown \in Nat /\ Grown <= w + Scale
    BY <1>1, GrownStays, Limits DEF Grown
  <2>2. (Grown \div Scale) * Scale <= Grown /\ Grown \div Scale \in Nat
    BY <2>1, WholePackets
  <2> HIDE DEF q
  <2>3. (Grown \div Scale) * Scale < (q + 2) * Scale
    BY <1>1, <1>2, <2>1, <2>2, Z3
  <2> QED BY <1>1, <1>2, <2>2, <2>3, Z3
<1> QED BY <1>3, <1>4, <1>5, GrownStays, Limits

(* Additive increase is paid for by acknowledged packets, whatever marks,  *)
(* losses and timeouts happen on the way: at most one packet of window per *)
(* window acknowledged.                                                    *)
THEOREM GrowthIsPaidFor == Spec => []GrowthPaidFor
<1>1. Init => GrowthPaidFor
  <2> SUFFICES ASSUME Init PROVE GrowthPaidFor
    OBVIOUS
  <2>1. w \div Scale = WInit
    <3>1. WInit \in Nat /\ Scale \in Nat \ {0} /\ w = WInit * Scale
      BY DctcpAssumption DEF Init, DctcpAssumption
    <3>2. w \in Nat /\ w < (WInit + 1) * Scale
      BY <3>1, Z3
    <3> QED BY <3>1, <3>2, WholePackets
  <2>2. Triangle(WInit) \in Nat
    BY TriangleFacts, DctcpAssumption DEF DctcpAssumption
  <2> QED BY <2>1, <2>2 DEF Init, GrowthPaidFor
<1>2. TypeOK /\ GrowthPaidFor /\ [Next]_vars => GrowthPaidFor'
  <2> SUFFICES ASSUME TypeOK, GrowthPaidFor, [Next]_vars
               PROVE  GrowthPaidFor'
    OBVIOUS
  <2> DEFINE q == w \div Scale
  <2>1. w \in Floor..Cap /\ Triangle(WInit) \in Nat
    BY TriangleFacts, DctcpAssumption DEF TypeOK, Cap, DctcpAssumption
  <2>2. ASSUME UNCHANGED <<w, last_update_seq>> PROVE GrowthPaidFor'
    BY <2>2 DEF GrowthPaidFor
  <2>3. ASSUME w' \in Floor..w, last_update_seq' \in Int,
               last_update_seq' >= last_update_seq
        PROVE  GrowthPaidFor'
    <3>1. Triangle(w' \div Scale) <= Triangle(q)
          /\ Triangle(w' \div Scale) \in Nat /\ Triangle(q) \in Nat
      BY <2>1, <2>3, WholeMoves, TriangleFacts
    <3> QED BY <2>1, <2>3, <3>1 DEF GrowthPaidFor, TypeOK
  <2>4. ASSUME w' = Grown, last_update_seq' \in Int,
               last_update_seq' >= last_update_seq + q
        PROVE  GrowthPaidFor'
    <3>1. q \in Nat \ {0} /\ w' \div Scale \in Nat \ {0}
          /\ w' \div Scale <= q + 1
      BY <2>1, <2>4, WholeMoves
    <3>2. Triangle(w' \div Scale) <= Triangle(q) + q
          /\ Triangle(w' \div Scale) \in Nat /\ Triangle(q) \in Nat
      <4> HIDE DEF q
      <4> QED BY <3>1, TriangleFacts
    <3> QED BY <2>1, <2>4, <3>1, <3>2 DEF GrowthPaidFor, TypeOK
  <2>5. ASSUME NEW ack \in acks, RecvAck(ack) PROVE GrowthPaidFor'
    <3>1. ack.seq \in Nat /\ ack.ece \in BOOLEAN BY DEF TypeOK
    <3>2. CASE IgnoredAck(ack.seq)
      BY <2>2, <2>5, <3>2 DEF RecvAck, estimate
    <3>3. CASE ~IgnoredAck(ack.seq)
      <4> DEFINE total == rtt_window_total + 1
                 marked == rtt_window_marked + Counted(ack)
      <4>1. MaybeUpdateWindow(total, marked)
        BY <2>5, <3>3 DEF RecvAck
      <4>2. cum_acked_seq' \in Nat
        BY <2>5, <3>1, <3>3
        DEF RecvAck, IgnoredAck, Windowed!StaleDuplicate, Windowed!OnAck, TypeOK
      <4>3. total \in Nat \ {0} /\ marked \in 0..total
        BY <3>1 DEF TypeOK, Counted
      <4> HIDE DEF total, marked
      <4>4. CASE TooSoon(cum_acked_seq')
        BY <2>2, <4>1, <4>4 DEF MaybeUpdateWindow
      <4>5. CASE ~TooSoon(cum_acked_seq')
        <5>1. last_update_seq' = cum_acked_seq' /\ q \in Nat
              /\ last_update_seq' >= last_update_seq + q
          BY <2>1, <4>1, <4>2, <4>5, WholeMoves
          DEF MaybeUpdateWindow, TooSoon, TypeOK
        <5>2. CASE marked > 0
          <6>1. alpha' \in 0..AlphaOne /\ w' = Cut(alpha')
            BY <4>1, <4>3, <4>5, <5>2, AlphaStays
            DEF MaybeUpdateWindow, TypeOK
          <6>2. w' \in Floor..w BY <2>1, <6>1, CutStays
          <6> QED BY <2>3, <4>2, <5>1, <6>2 DEF TypeOK
        <5>3. CASE ~(marked > 0)
          <6>1. w' = Grown BY <4>1, <4>5, <5>3 DEF MaybeUpdateWindow
          <6> QED BY <2>4, <4>2, <5>1, <6>1
        <5> QED BY <5>2, <5>3
      <4> QED BY <4>4, <4>5
    <3> QED BY <3>2, <3>3
  <2>6. CASE Rto
    <3>1. w' \in Floor..w
      BY <2>1, <2>6, Limits DEF Rto, Halved, Windowed!Larger
    <3> QED BY <2>3, <2>6, <3>1 DEF Rto, estimate, TypeOK
  <2> QED BY <2>2, <2>5, <2>6, QuietSteps DEF estimate
<1> QED BY <1>1, <1>2, DctcpTypeCorrect, PTL DEF Spec

=============================================================================
