--------------------------- MODULE HpccSenderProofs ---------------------------
(***************************************************************************)
(* Both HPCC senders implement WindowedSender, and their snapshots are in  *)
(* order, for every setting of the control law.                            *)
(***************************************************************************)
EXTENDS HpccSender, WellFoundedInduction, TLAPS

(* What is proved of the windowed sender, and of its whole packets.        *)
Proved == INSTANCE WindowedSenderProofs
            WITH w <- w \div Scale, in_flight <- DOMAIN in_flight

Floor == WMin * Scale
Cap == Windowed!WCap * Scale

(* The window's limits, in both units.                                     *)
LEMMA Limits ==
  /\ Windowed!WCap \in Nat /\ WMin \in Nat \ {0} /\ WMin <= Windowed!WCap
  /\ WInit \in Nat /\ WInit <= Windowed!WCap /\ Scale \in Nat \ {0}
  /\ Floor \in Nat /\ Cap \in Nat /\ Floor <= Cap
  /\ WInit * Scale \in Floor..Cap /\ WMax * Scale \in Floor..Cap
<1>1. /\ Windowed!WCap \in Nat /\ WMin \in Nat \ {0} /\ Scale \in Nat \ {0}
      /\ WMin <= Windowed!WCap
      /\ WInit \in Nat /\ WMin <= WInit /\ WInit <= Windowed!WCap
      /\ WMax \in Nat /\ WMin <= WMax /\ WMax <= Windowed!WCap
  BY LawAssumption, HpccAssumption
  DEF LawAssumption, HpccAssumption, Windowed!WCap, Windowed!Larger
<1>2. \A i, j \in Nat : i <= j => i * Scale \in Nat /\ i * Scale <= j * Scale
  BY <1>1, Z3
<1> QED BY <1>1, <1>2 DEF Floor, Cap

(* An update leaves the window between its limits, whatever utilisation    *)
(* was measured and whatever window it starts from.                        *)
LEMMA NewWindowInLimits ==
  ASSUME NEW ref \in Nat, NEW u \in Nat
  PROVE  NewWindow(ref, u) \in (WMin * Scale)..(WMax * Scale)
<1> DEFINE x == (ref * Eta) \div AtLeast(1, u) + WAi
<1>1. x \in Int
  <2>1. ref * Eta \in Nat BY LawAssumption, Z3 DEF LawAssumption
  <2>2. AtLeast(1, u) \in Nat \ {0} BY DEF AtLeast
  <2>3. (ref * Eta) \div AtLeast(1, u) \in Int BY <2>1, <2>2, Z3
  <2> QED BY <2>3, LawAssumption DEF LawAssumption
<1>2. NewWindow(ref, u) = Clamped(x) BY DEF NewWindow
<1> DEFINE low == WMin * Scale
           high == WMax * Scale
<1>3. low \in Nat /\ high \in Nat /\ low <= high
  BY LawAssumption, Z3 DEF LawAssumption
<1>4. Clamped(x) = IF x > high THEN high ELSE AtLeast(low, x)
  BY DEF Clamped
<1> HIDE DEF x, low, high
<1>5. Clamped(x) \in low..high BY <1>1, <1>3, <1>4 DEF AtLeast
<1> QED BY <1>2, <1>5 DEF low, high

(* A timeout does not raise a window, nor take it below the floor.         *)
LEMMA HalvedFalls ==
  ASSUME NEW ref \in Nat, WMin * Scale <= ref
  PROVE  Halved(ref) \in (WMin * Scale)..ref
<1>1. WMin * Scale \in Nat BY LawAssumption, Z3 DEF LawAssumption
<1> QED BY <1>1 DEF Halved, AtLeast

(* The smoothed utilisation stays a number.                                *)
LEMMA SmoothedIsNumber ==
  ASSUME NEW v \in Nat, NEW u \in Nat
  PROVE  Smoothed(v, u) \in Nat
<1>1. TauInv \in Nat \ {0} BY LawAssumption DEF LawAssumption
<1>2. (TauInv - 1) * v \in Nat BY <1>1, Z3
<1> DEFINE x == (TauInv - 1) * v + u
<1>3. x \in Nat BY <1>2
<1> HIDE DEF x
<1>4. x \div TauInv \in Nat BY <1>1, <1>3, Proved!WholePart
<1> QED BY <1>4 DEF Smoothed, x

(* A set of numbers that is not empty has a least one.                     *)
LEMMA LeastElement ==
  ASSUME NEW S, S \subseteq Nat, S # {}
  PROVE  \E m \in S : \A k \in S : m <= k
<1>1. PICK m \in S : \A k \in S : ~(<<k, m>> \in OpToRel(<, Nat))
  BY NatLessThanWellFounded, WFMin
<1>2. ASSUME NEW i \in Nat, NEW j \in Nat, i < j
      PROVE  <<i, j>> \in OpToRel(<, Nat)
  <2>1. <<i, j>> \in Nat \X Nat OBVIOUS
  <2>2. <<i, j>>[1] < <<i, j>>[2] BY <1>2
  <2> QED BY <2>1, <2>2, Zenon DEF OpToRel
<1>3. \A k \in S : ~(k < m) BY <1>1, <1>2, Zenon
<1> QED BY <1>3

(* A window between the limits is between them in whole packets too.       *)
LEMMA WholeInLimits ==
  ASSUME NEW x \in Floor..Cap
  PROVE  x \div Scale \in WMin..Windowed!WCap
<1>1. /\ x \in Nat /\ Scale \in Nat \ {0} /\ WMin \in Nat /\ Windowed!WCap \in Nat
      /\ WMin * Scale <= x /\ x <= Windowed!WCap * Scale
  BY Limits DEF Floor, Cap
<1>2. x \div Scale \in Nat /\ WMin <= x \div Scale BY <1>1, Proved!WholePart
<1>3. x \div Scale <= Windowed!WCap BY <1>1, Proved!WholePart
<1> QED BY <1>1, <1>2, <1>3

(* An update, from whatever reference, and a timeout leave the window      *)
(* between its limits.                                                     *)
LEMMA WindowStays ==
  /\ \A ref, u \in Nat : NewWindow(ref, u) \in Floor..Cap
  /\ \A ref \in Floor..Cap : Halved(ref) \in Floor..Cap
<1>1. ASSUME NEW ref \in Nat, NEW u \in Nat PROVE NewWindow(ref, u) \in Floor..Cap
  BY NewWindowInLimits, Limits DEF Floor
<1>2. ASSUME NEW ref \in Floor..Cap PROVE Halved(ref) \in Floor..Cap
  <2>1. ref \in Nat /\ WMin * Scale <= ref BY Limits DEF Floor
  <2> QED BY <2>1, HalvedFalls, Limits DEF Floor
<1> QED BY <1>1, <1>2

(* The window an update starts from is one the sender has had.             *)
LEMMA GateStays ==
  ASSUME w_ref \in Floor..Cap, NEW flight, DOMAIN flight \subseteq Nat,
         \A s \in DOMAIN flight : flight[s].w_ref \in Floor..Cap
  PROVE  GateWindow(flight) \in Floor..Cap
<1>1. ASSUME DOMAIN flight # {}
      PROVE  flight[Earliest(DOMAIN flight)].w_ref \in Floor..Cap
  <2>1. \E s \in DOMAIN flight : \A t \in DOMAIN flight : s <= t
    BY <1>1, LeastElement
  <2>2. Earliest(DOMAIN flight) \in DOMAIN flight BY <2>1 DEF Earliest
  <2> QED BY <2>2
<1> QED BY <1>1 DEF GateWindow

-----------------------------------------------------------------------------

(* An ACK that is processed leaves a part of the flight, a cursor that has *)
(* not moved back, and a window within its limits.                         *)
LEMMA AckEffect ==
  ASSUME TypeOK, NEW a \in Nat, RecvAck(a), ~Windowed!StaleDuplicate(a)
  PROVE  /\ DOMAIN in_flight' \subseteq DOMAIN in_flight
         /\ \A s \in DOMAIN in_flight' : in_flight'[s] = in_flight[s]
         /\ cum_acked_seq' \in Nat /\ cum_acked_seq' >= cum_acked_seq
         /\ w_ref' \in Floor..Cap /\ w' = w_ref'
         /\ incarnation' \in 0..MaxIncarnation
         /\ u_smoothed' \in Nat
         /\ last_update_seq' \in -1..cum_acked_seq'
         /\ \/ w_ref' = w_ref /\ incarnation' = incarnation
            \/ w_ref' >= w_ref /\ incarnation' = incarnation
            \/ w_ref' < w_ref /\ incarnation' = incarnation + 1
<1>1. OnAck(a) /\ MaybeUpdateWindow(GateWindow(in_flight'))
  BY DEF RecvAck
<1>2. /\ DOMAIN in_flight' \subseteq DOMAIN in_flight
      /\ \A s \in DOMAIN in_flight' : in_flight'[s] = in_flight[s]
  BY <1>1 DEF OnAck
<1>3. cum_acked_seq' \in Nat /\ cum_acked_seq' >= cum_acked_seq
  BY <1>1 DEF OnAck, TypeOK, Windowed!StaleDuplicate
<1>4. u_smoothed' \in Nat
  <2>1. u_smoothed \in Nat /\ USamples \subseteq Nat
    BY HpccAssumption DEF TypeOK, HpccAssumption
  <2>2. u_smoothed' = u_smoothed
        \/ \E u \in USamples : u_smoothed' = Smoothed(u_smoothed, u)
    BY DEF RecvAck
  <2> QED BY <2>1, <2>2, SmoothedIsNumber
<1>5. GateWindow(in_flight') \in Floor..Cap
  <2>1. \A s \in DOMAIN in_flight : in_flight[s].w_ref \in Floor..Cap
    BY DEF TypeOK, Floor, Cap
  <2>2. w_ref \in Floor..Cap BY DEF TypeOK, Floor, Cap
  <2>3. DOMAIN in_flight \subseteq Nat BY DEF TypeOK
  <2> QED BY <1>2, <2>1, <2>2, <2>3, GateStays DEF GateWindow
<1>6. NewWindow(GateWindow(in_flight'), u_smoothed') \in Floor..Cap
  BY <1>4, <1>5, WindowStays, Limits
<1>7. MaxIncarnation \in Nat BY HpccAssumption DEF HpccAssumption
<1>8. CASE UNCHANGED <<w, w_ref, incarnation, last_update_seq>>
  BY <1>2, <1>3, <1>4, <1>7, <1>8 DEF TypeOK, Floor, Cap
<1>9. CASE /\ w_ref' = NewWindow(GateWindow(in_flight'), u_smoothed')
           /\ w' = w_ref'
           /\ incarnation' = IF Shrinks(w_ref', GateWindow(in_flight'))
                               THEN incarnation + 1 ELSE incarnation
           /\ incarnation' <= MaxIncarnation
           /\ last_update_seq' = cum_acked_seq'
  <2>1. w_ref' \in Floor..Cap /\ w_ref \in Floor..Cap
    BY <1>6, <1>9 DEF TypeOK, Floor, Cap
  <2>2. Floor \in Nat /\ Cap \in Nat BY Limits
  <2> QED BY <1>2, <1>3, <1>4, <1>7, <1>9, <2>1, <2>2 DEF TypeOK, Shrinks
<1> QED BY <1>1, <1>8, <1>9 DEF MaybeUpdateWindow

(* The steps in which neither a packet is sent nor an ACK or a timeout     *)
(* handled: run's control, and the network.                                *)
Quiet ==
  /\ UNCHANGED <<in_flight, control, next_seq, cum_acked_seq>>
  /\ acks' \subseteq acks \cup data /\ data' \subseteq data

(* All other steps are quiet.                                              *)
LEMMA QuietSteps ==
  ASSUME [Next]_vars, ~SendNext, ~Rto, ~\E a \in acks : RecvAck(a)
  PROVE  Quiet
<1>1. CASE Transport(\/ Windowed!EnterBurst \/ Windowed!LeaveBurst
                     \/ Windowed!CheckDone \/ Windowed!Close \/ Windowed!TimeUp)
  BY <1>1
  DEF Transport, Windowed!EnterBurst, Windowed!LeaveBurst, Windowed!CheckDone,
      Windowed!Close, Windowed!TimeUp, Windowed!network, Quiet
<1>2. ASSUME NEW s \in data,
             Transport(\/ Windowed!Reflect(s) \/ Windowed!ReflectLost(s)
                       \/ Windowed!LoseData(s))
      PROVE  Quiet
  BY <1>2
  DEF Transport, Windowed!Reflect, Windowed!ReflectLost, Windowed!Answer,
      Windowed!LoseData, Windowed!sender, Quiet
<1>3. CASE Transport(Windowed!Terminated)
  BY <1>3 DEF Transport, Windowed!Terminated, Windowed!vars, Quiet
<1>4. CASE UNCHANGED vars
  BY <1>4 DEF vars, Quiet
<1> QED BY <1>1, <1>2, <1>3, <1>4 DEF Next

-----------------------------------------------------------------------------

(* Every variable of the HPCC senders keeps its type; w and w_ref never    *)
(* part, and stay between the floor and the cap whatever the utilisation.  *)
THEOREM HpccTypeCorrect == Spec => []TypeOK
<1>1. Init => TypeOK
  <2> SUFFICES ASSUME Init PROVE TypeOK
    OBVIOUS
  <2>1. w \in Floor..Cap /\ w_ref = w
    <3>1. w = WInit * Scale /\ w_ref = WInit * Scale BY DEF Init
    <3> QED BY <3>1, Limits, Zenon
  <2>2. DOMAIN in_flight = {}
    BY DEF Init
  <2>3. UOne \in Nat /\ MaxIncarnation \in Nat /\ StrayAcks \subseteq Nat
    BY LawAssumption, HpccAssumption DEF LawAssumption, HpccAssumption
  <2> QED BY <2>1, <2>2, <2>3 DEF Init, TypeOK, Floor, Cap
<1>2. TypeOK /\ [Next]_vars => TypeOK'
  <2> SUFFICES ASSUME TypeOK, [Next]_vars PROVE TypeOK'
    OBVIOUS
  <2>0. /\ w_ref \in Floor..Cap /\ w = w_ref /\ incarnation \in 0..MaxIncarnation
        /\ MaxIncarnation \in Nat
        /\ \A s \in DOMAIN in_flight :
             in_flight[s] \in [w_ref : Floor..Cap, incarnation : 0..MaxIncarnation]
    BY HpccAssumption DEF TypeOK, Floor, Cap, HpccAssumption
  <2>1. CASE SendNext
    <3>1. PICK failed \in Windowed!MayFail({next_seq}) :
            /\ in_flight' = [s \in DOMAIN in_flight \cup ({next_seq} \ failed) |->
                               IF s = next_seq THEN Snapshot(w_ref, incarnation)
                                               ELSE in_flight[s]]
            /\ data' = data \cup ({next_seq} \ failed)
      BY <2>1 DEF SendNext
    <3>2. next_seq' = next_seq + 1
          /\ UNCHANGED <<cum_acked_seq, acks, control>>
      BY <2>1 DEF SendNext
    <3>3. Snapshot(w_ref, incarnation)
            \in [w_ref : Floor..Cap, incarnation : 0..MaxIncarnation]
      BY <2>0 DEF Snapshot
    <3>4. \A s \in DOMAIN in_flight' :
            in_flight'[s] \in [w_ref : Floor..Cap, incarnation : 0..MaxIncarnation]
      BY <2>0, <3>1, <3>3
    <3>5. DOMAIN in_flight' \subseteq 0..(next_seq' - 1)
          /\ data' \subseteq 0..(next_seq' - 1)
      <4>1. /\ DOMAIN in_flight' \subseteq DOMAIN in_flight \cup {next_seq}
            /\ data' \subseteq data \cup {next_seq}
        BY <3>1
      <4>2. /\ next_seq \in Nat /\ DOMAIN in_flight \subseteq 0..(next_seq - 1)
            /\ data \subseteq 0..(next_seq - 1)
        BY DEF TypeOK
      <4>3. 0..(next_seq - 1) \cup {next_seq} = 0..(next_seq' - 1)
        BY <3>2, <4>2
      <4> QED BY <4>1, <4>2, <4>3, Zenon
    <3> QED BY <3>2, <3>4, <3>5 DEF TypeOK, control, Floor, Cap
  <2>2. CASE Rto
    <3>1. w_ref' = Halved(w_ref) /\ w' = w_ref' /\ w_ref' \in Floor..Cap
      BY <2>0, <2>2, WindowStays DEF Rto, RtoDue, Resend
    <3>2. incarnation' \in 0..MaxIncarnation
      BY <2>0, <2>2 DEF Rto, RtoDue, Resend
    <3>3. PICK failed \in Windowed!MayFail(DOMAIN in_flight) :
            /\ in_flight' = [s \in DOMAIN in_flight \ failed |->
                               Snapshot(w_ref', incarnation')]
            /\ data' = data \cup (DOMAIN in_flight \ failed)
      BY <2>2 DEF Rto, RtoDue, Resend
    <3>4. Snapshot(w_ref', incarnation')
            \in [w_ref : Floor..Cap, incarnation : 0..MaxIncarnation]
      BY <3>1, <3>2 DEF Snapshot
    <3>5. UNCHANGED <<next_seq, cum_acked_seq, acks, u_smoothed, last_update_seq>>
      BY <2>2 DEF Rto, RtoDue, Resend
    <3> QED BY <3>1, <3>2, <3>3, <3>4, <3>5 DEF TypeOK, Floor, Cap
  <2>3. ASSUME NEW a \in acks, RecvAck(a) PROVE TypeOK'
    <3>1. a \in Nat BY DEF TypeOK
    <3>2. acks' \subseteq acks /\ UNCHANGED <<next_seq, data>>
      BY <2>3 DEF RecvAck
    <3>3. CASE Windowed!StaleDuplicate(a)
      <4>1. UNCHANGED <<in_flight, cum_acked_seq, control>>
        BY <2>3, <3>3 DEF RecvAck
      <4> QED BY <3>2, <4>1 DEF TypeOK, control
    <3>4. CASE ~Windowed!StaleDuplicate(a)
      BY <2>0, <2>3, <3>1, <3>2, <3>4, AckEffect DEF TypeOK, Floor, Cap
    <3> QED BY <3>3, <3>4
  <2>4. ASSUME Quiet PROVE TypeOK'
    BY <2>4 DEF Quiet, TypeOK, control
  <2>5. CASE ~SendNext /\ ~Rto /\ ~\E a \in acks : RecvAck(a)
    BY <2>4, <2>5, QuietSteps
  <2> QED BY <2>1, <2>2, <2>3, <2>5
<1> QED BY <1>1, <1>2, PTL DEF Spec

-----------------------------------------------------------------------------

(* A timeout halves the whole packets: rounding down before or after       *)
(* halving is the same.                                                    *)
LEMMA HalvedWhole ==
  ASSUME w \in Floor..Cap
  PROVE  Halved(w) \div Scale = Windowed!HalvedWindow
<1> DEFINE h == (w \div Scale) \div 2
<1>1. w \in Nat /\ Scale \in Nat \ {0} /\ WMin \in Nat BY Limits
<1>2. Floor \div Scale = WMin /\ (w \div 2) \div Scale = h
  BY <1>1, Proved!WholeOfMultiple, Proved!WholeOfHalf DEF Floor
<1>3. Floor >= w \div 2 => WMin >= h
  BY <1>1, Proved!WholeOfFlooredHalf DEF Floor
<1>4. Floor <= w \div 2 => WMin <= h
  BY <1>1, Proved!WholeOfFlooredHalf DEF Floor
<1>5. Floor \in Nat /\ w \div 2 \in Nat /\ h \in Nat
  BY <1>1, Limits, Proved!WholePart
<1> QED
  BY <1>1, <1>2, <1>3, <1>4, <1>5
  DEF Halved, AtLeast, Floor, Windowed!HalvedWindow, Windowed!Larger

(* Every behaviour of either HPCC sender is one of the windowed sender.    *)
THEOREM HpccImplementsWindowed == Spec => ImplementsWindowed
<1>1. Init => Windowed!Init
  <2> SUFFICES ASSUME Init PROVE Windowed!Init
    OBVIOUS
  <2>1. w \div Scale = WInit
    BY Proved!WholeOfMultiple, Limits DEF Init
  <2>2. DOMAIN in_flight = {} BY DEF Init
  <2> QED BY <2>1, <2>2 DEF Init, Windowed!Init
<1>2. TypeOK /\ [Next]_vars => [Windowed!Next]_(Windowed!vars)
  <2> SUFFICES ASSUME TypeOK, [Next]_vars
               PROVE  Windowed!Next \/ UNCHANGED Windowed!vars
    OBVIOUS
  <2>1. CASE SendNext
    <3>1. PICK failed \in Windowed!MayFail({next_seq}) :
            /\ in_flight' = [s \in DOMAIN in_flight \cup ({next_seq} \ failed) |->
                               IF s = next_seq THEN Snapshot(w_ref, incarnation)
                                               ELSE in_flight[s]]
            /\ data' = data \cup ({next_seq} \ failed)
            /\ untracked' = untracked \cup failed
      BY <2>1 DEF SendNext
    <3>2. DOMAIN in_flight' = DOMAIN in_flight \cup ({next_seq} \ failed)
      BY <3>1
    <3>3. Windowed!SendNext
      BY <2>1, <3>1, <3>2 DEF SendNext, Windowed!SendNext, control
    <3> QED BY <3>3 DEF Windowed!Next, Windowed!Run
  <2>2. CASE Rto
    <3>1. w' \div Scale = Windowed!HalvedWindow
      BY <2>2, HalvedWhole DEF Rto, RtoDue, Resend, TypeOK, Floor, Cap
    <3>2. PICK failed \in Windowed!MayFail(DOMAIN in_flight) :
            /\ in_flight' = [s \in DOMAIN in_flight \ failed |->
                               Snapshot(w_ref', incarnation')]
            /\ data' = data \cup (DOMAIN in_flight \ failed)
            /\ untracked' = untracked \cup failed
      BY <2>2 DEF Rto, RtoDue, Resend
    <3>3. DOMAIN in_flight' = DOMAIN in_flight \ failed
      BY <3>2
    <3>4. Windowed!Rto
      BY <2>2, <3>1, <3>2, <3>3 DEF Rto, RtoDue, Resend, Windowed!Rto, Windowed!GoBackSet
    <3> QED BY <3>4 DEF Windowed!Next
  <2>3. ASSUME NEW a \in acks, RecvAck(a) PROVE Windowed!RecvAck(a)
    <3>1. a \in Nat BY DEF TypeOK
    <3>2. CASE Windowed!StaleDuplicate(a)
      BY <2>3, <3>2 DEF RecvAck, Windowed!RecvAck, control
    <3>3. CASE ~Windowed!StaleDuplicate(a)
      <4>1. w' \div Scale \in Windowed!WindowMoves
        BY <2>3, <3>1, <3>3, AckEffect, WholeInLimits DEF Windowed!WindowMoves
      <4>2. OnAck(a) BY <2>3, <3>3 DEF RecvAck
      <4>3. Windowed!OnAck(a)
        BY <4>2 DEF OnAck, Windowed!OnAck
      <4> QED BY <2>3, <3>3, <4>1, <4>3 DEF RecvAck, Windowed!RecvAck
    <3> QED BY <3>2, <3>3
  <2>4. CASE Transport(\/ Windowed!EnterBurst \/ Windowed!LeaveBurst
                       \/ Windowed!CheckDone \/ Windowed!Close \/ Windowed!TimeUp)
    BY <2>4 DEF Transport, Windowed!Next, Windowed!Run
  <2>5. ASSUME NEW s \in data,
               Transport(\/ Windowed!Reflect(s) \/ Windowed!ReflectLost(s)
                         \/ Windowed!LoseData(s))
        PROVE  Windowed!Next
    BY <2>5 DEF Transport, Windowed!Next
  <2>6. CASE Transport(Windowed!Terminated)
    BY <2>6 DEF Transport, Windowed!Next
  <2>7. CASE UNCHANGED vars
    BY <2>7 DEF vars, control, Windowed!vars
  <2> QED
    BY <2>1, <2>2, <2>3, <2>4, <2>5, <2>6, <2>7 DEF Next, Windowed!Next
<1> QED BY <1>1, <1>2, HpccTypeCorrect, PTL DEF Spec, ImplementsWindowed, Windowed!Spec

-----------------------------------------------------------------------------

(* The order of pairs is transitive, and the sender's own pair only moves  *)
(* up in it: a cut of the window is always a new incarnation.              *)
LEMMA InOrderTransitive ==
  ASSUME NEW p \in [w_ref : Nat, incarnation : Nat],
         NEW q \in [w_ref : Nat, incarnation : Nat],
         NEW r \in [w_ref : Nat, incarnation : Nat],
         InOrder(p, q), InOrder(q, r)
  PROVE  InOrder(p, r)
BY DEF InOrder

(* Along the flight, and up to the sender's own pair, incarnations never   *)
(* fall, nor windows within an incarnation: what was sent before a cut is  *)
(* told apart from what was sent after it.                                 *)
THEOREM SnapshotsStayInOrder == Spec => []SnapshotsInOrder
<1>1. Init => SnapshotsInOrder
  <2> SUFFICES ASSUME Init PROVE SnapshotsInOrder
    OBVIOUS
  <2>1. DOMAIN in_flight = {} BY DEF Init
  <2> QED BY <2>1 DEF SnapshotsInOrder
<1>2. TypeOK /\ TypeOK' /\ SnapshotsInOrder /\ [Next]_vars => SnapshotsInOrder'
  <2> SUFFICES ASSUME TypeOK, TypeOK', SnapshotsInOrder, [Next]_vars
               PROVE  SnapshotsInOrder'
    OBVIOUS
  <2> DEFINE Pairs == [w_ref : Nat, incarnation : Nat]
             now == Snapshot(w_ref, incarnation)
  <2>1. /\ now \in Pairs /\ now' \in Pairs
        /\ \A s \in DOMAIN in_flight : in_flight[s] \in Pairs
        /\ w_ref \in Nat /\ incarnation \in Nat
        /\ w_ref' \in Nat /\ incarnation' \in Nat
    BY Limits DEF TypeOK, Snapshot, Floor, Cap
  <2>2. /\ \A s \in DOMAIN in_flight : InOrder(in_flight[s], now)
        /\ \A s, t \in DOMAIN in_flight :
             s < t => InOrder(in_flight[s], in_flight[t])
    BY DEF SnapshotsInOrder
  <2>3. ASSUME DOMAIN in_flight' \subseteq DOMAIN in_flight,
               \A s \in DOMAIN in_flight' : in_flight'[s] = in_flight[s],
               InOrder(now, now')
        PROVE  SnapshotsInOrder'
    <3>1. \A s \in DOMAIN in_flight' : InOrder(in_flight'[s], now')
      BY <2>1, <2>2, <2>3, InOrderTransitive
    <3> QED BY <2>2, <2>3, <3>1 DEF SnapshotsInOrder
  <2>4. CASE SendNext
    <3>1. PICK failed \in Windowed!MayFail({next_seq}) :
            in_flight' = [s \in DOMAIN in_flight \cup ({next_seq} \ failed) |->
                            IF s = next_seq THEN now ELSE in_flight[s]]
      BY <2>4 DEF SendNext
    <3>2. now' = now
      BY <2>4 DEF SendNext, control
    <3>3. \A s \in DOMAIN in_flight : s < next_seq /\ s \in Nat
      BY DEF TypeOK
    <3>4. /\ DOMAIN in_flight' \subseteq DOMAIN in_flight \cup {next_seq}
          /\ \A s \in DOMAIN in_flight' :
               in_flight'[s] = IF s = next_seq THEN now ELSE in_flight[s]
      BY <3>1
    <3>5. InOrder(now, now)
      BY <2>1 DEF InOrder
    <3>6. next_seq \in Nat BY DEF TypeOK
    <3> HIDE DEF now
    <3>7. \A s \in DOMAIN in_flight' : InOrder(in_flight'[s], now)
      BY <2>2, <3>4, <3>5
    <3>8. ASSUME NEW s \in DOMAIN in_flight', NEW t \in DOMAIN in_flight', s < t
          PROVE  InOrder(in_flight'[s], in_flight'[t])
      <4>1. s \in DOMAIN in_flight /\ s # next_seq
        BY <3>3, <3>4, <3>6, <3>8
      <4>2. CASE t = next_seq BY <2>2, <3>4, <4>1, <4>2
      <4>3. CASE t # next_seq BY <2>2, <3>4, <3>8, <4>1, <4>3
      <4> QED BY <4>2, <4>3
    <3> QED BY <3>2, <3>7, <3>8 DEF SnapshotsInOrder, now
  <2>5. CASE Rto
    <3>1. \A s \in DOMAIN in_flight' : in_flight'[s] = now'
      BY <2>5 DEF Rto, RtoDue, Resend, Snapshot
    <3>2. InOrder(now', now')
      BY <2>1 DEF InOrder
    <3> QED BY <3>1, <3>2 DEF SnapshotsInOrder
  <2>6. ASSUME NEW a \in acks, RecvAck(a) PROVE SnapshotsInOrder'
    <3>1. a \in Nat BY DEF TypeOK
    <3>2. CASE Windowed!StaleDuplicate(a)
      BY <2>1, <2>3, <2>6, <3>2 DEF RecvAck, control, InOrder, Snapshot
    <3>3. CASE ~Windowed!StaleDuplicate(a)
      <4>1. InOrder(now, now')
        BY <2>1, <2>6, <3>1, <3>3, AckEffect DEF InOrder, Snapshot
      <4> HIDE DEF now
      <4> QED BY <2>3, <2>6, <3>1, <3>3, <4>1, AckEffect
    <3> QED BY <3>2, <3>3
  <2>7. CASE ~SendNext /\ ~Rto /\ ~\E a \in acks : RecvAck(a)
    BY <2>1, <2>3, <2>7, QuietSteps DEF Quiet, control, InOrder, Snapshot
  <2> QED BY <2>4, <2>5, <2>6, <2>7
<1> QED BY <1>1, <1>2, HpccTypeCorrect, PTL DEF Spec

=============================================================================
