--------------------------- MODULE ExtensionsProofs ---------------------------
(***************************************************************************)
(* The two extensions that stand alone, for every setting of them.         *)
(*                                                                         *)
(* First the C sender (extensions/csender): its types and what its slots   *)
(* hold, and when its count of packets in flight is right.                 *)
(*                                                                         *)
(* Then the queue snapshots (extensions/qsnap), for a ring of any size,    *)
(* any depths and any number of polls: the file's rows replay what the     *)
(* reads found, a row after the first read stands for a write since the    *)
(* read before, and, as long as reads come more often than the ring goes   *)
(* round, no change is missed.                                             *)
(*                                                                         *)
(* The two share nothing but the library's facts about numbers and sets.   *)
(***************************************************************************)
EXTENDS CSender, QueueSnapshots, FiniteSetTheorems, WellFoundedInduction, TLAPS

Floor == WMin * Scale
WCap == AtLeast(WInit, WMax)
Cap == WCap * Scale

(* The window's limits, in both units, and the slots.                      *)
LEMMA Limits ==
  /\ WCap \in Nat /\ WMin \in Nat \ {0} /\ Scale \in Nat \ {0}
  /\ Floor \in Nat /\ Cap \in Nat /\ Floor <= Cap
  /\ WInit * Scale \in Floor..Cap /\ WMax * Scale \in Floor..Cap
<1>1. /\ WCap \in Nat /\ WMin \in Nat \ {0} /\ Scale \in Nat \ {0}
      /\ WMin <= WCap
      /\ WInit \in Nat /\ WMin <= WInit /\ WInit <= WCap
      /\ WMax \in Nat /\ WMin <= WMax /\ WMax <= WCap
  BY LawAssumption, CSenderAssumption
  DEF LawAssumption, CSenderAssumption, WCap, AtLeast
<1>2. \A i, j \in Nat : i <= j => i * Scale \in Nat /\ i * Scale <= j * Scale
  BY <1>1, Z3
<1> QED BY <1>1, <1>2 DEF Floor, Cap

(* An update leaves the window between its limits, whatever utilisation    *)
(* was measured and whatever window it starts from.                        *)
LEMMA NewWindowInLimits ==
  ASSUME NEW ref \in Nat, NEW u \in Nat
  PROVE  NewWindow(ref, u) \in (WMin * Scale)..(WMax * Scale)
<1> DEFINE x == (ref * Eta) \div AtLeast(1, u) + WAi
<1>1. x \in Int
  <2>1. ref * Eta \in Nat BY LawAssumption, Z3 DEF LawAssumption
  <2>2. AtLeast(1, u) \in Nat \ {0} BY DEF AtLeast
  <2>3. (ref * Eta) \div AtLeast(1, u) \in Int BY <2>1, <2>2, Z3
  <2> QED BY <2>3, LawAssumption DEF LawAssumption
<1>2. NewWindow(ref, u) = Clamped(x) BY DEF NewWindow
<1> DEFINE low == WMin * Scale
           high == WMax * Scale
<1>3. low \in Nat /\ high \in Nat /\ low <= high
  BY LawAssumption, Z3 DEF LawAssumption
<1>4. Clamped(x) = IF x > high THEN high ELSE AtLeast(low, x)
  BY DEF Clamped
<1> HIDE DEF x, low, high
<1>5. Clamped(x) \in low..high BY <1>1, <1>3, <1>4 DEF AtLeast
<1> QED BY <1>2, <1>5 DEF low, high

(* A timeout does not raise a window, nor take it below the floor.         *)
LEMMA HalvedFalls ==
  ASSUME NEW ref \in Nat, WMin * Scale <= ref
  PROVE  Halved(ref) \in (WMin * Scale)..ref
<1>1. WMin * Scale \in Nat BY LawAssumption, Z3 DEF LawAssumption
<1> QED BY <1>1 DEF Halved, AtLeast

(* The smoothed utilisation stays a number.                                *)
LEMMA SmoothedIsNumber ==
  ASSUME NEW v \in Nat, NEW u \in Nat
  PROVE  Smoothed(v, u) \in Nat
<1>1. TauInv \in Nat \ {0} BY LawAssumption DEF LawAssumption
<1>2. (TauInv - 1) * v \in Nat BY <1>1, Z3
<1> DEFINE x == (TauInv - 1) * v + u
<1>3. x \in Nat BY <1>2
<1> HIDE DEF x
<1>4. x \div TauInv \in Nat BY <1>1, <1>3, Z3
<1> QED BY <1>4 DEF Smoothed, x

(* Every number has a slot.                                                *)
LEMMA IdxIsSlot == \A s \in Nat : Idx(s) \in Indices
BY CSenderAssumption DEF CSenderAssumption, Idx, Indices

(* An update, from whatever reference, and a timeout leave the window      *)
(* between its limits.                                                     *)
LEMMA WindowStays ==
  /\ \A ref, u \in Nat : NewWindow(ref, u) \in Floor..Cap
  /\ \A ref \in Floor..Cap : Halved(ref) \in Floor..Cap
<1>1. ASSUME NEW ref \in Nat, NEW u \in Nat PROVE NewWindow(ref, u) \in Floor..Cap
  BY NewWindowInLimits, Limits DEF Floor
<1>2. ASSUME NEW ref \in Floor..Cap PROVE Halved(ref) \in Floor..Cap
  <2>1. ref \in Nat /\ WMin * Scale <= ref BY Limits DEF Floor
  <2> QED BY <2>1, HalvedFalls, Limits DEF Floor
<1> QED BY <1>1, <1>2

-----------------------------------------------------------------------------

Occupied == {i \in Indices : inflight[i] # Empty}

(* The count is never below the number of occupied slots: what the types   *)
(* need to be inductive, since an ACK takes as many off it as it clears.   *)
CountCovers == Cardinality(Occupied) <= in_flight_count

IInv == TypeOK /\ SlotsAfterCursor /\ CountCovers

(* The table is finite, so sets of slots have a size.                      *)
LEMMA SlotsFinite ==
  /\ IsFiniteSet(Indices)
  /\ \A S \in SUBSET Indices : IsFiniteSet(S) /\ Cardinality(S) \in Nat
<1>1. IsFiniteSet(Indices)
  BY FS_Interval, CSenderAssumption DEF Indices, CSenderAssumption
<1> QED BY <1>1, FS_Subset, FS_CardinalityType

(* A packet that is sent takes its slot.                                   *)
LEMMA SendEffect ==
  ASSUME IInv, SendNext
  PROVE  IInv'
<1>1. /\ next_seq' = next_seq + 1 /\ next_seq \in Nat /\ next_seq < MaxPackets
      /\ MaxPackets \in Nat
      /\ UNCHANGED <<cum_acked_seq, control, main_pc, acks>>
  BY CSenderAssumption DEF SendNext, IInv, TypeOK, CSenderAssumption
<1>2. CASE UNCHANGED <<table, data>>
  <2>1. inflight' = inflight /\ in_flight_count' = in_flight_count /\ data' = data
    BY <1>2 DEF table
  <2>2. TypeOK' BY <1>1, <2>1 DEF IInv, TypeOK, control
  <2> QED
    BY <1>1, <2>1, <2>2
    DEF IInv, SlotsAfterCursor, CountCovers, Occupied
<1>3. CASE /\ inflight' = [inflight EXCEPT ![Idx(next_seq)] = next_seq]
           /\ in_flight_count' = in_flight_count + 1
           /\ data' = data \cup {next_seq}
  <2> DEFINE i0 == Idx(next_seq)
  <2>1. i0 \in Indices BY <1>1, IdxIsSlot
  <2> HIDE DEF i0
  <2>2. /\ inflight \in [Indices -> -1..(next_seq - 1)]
        /\ inflight' = [inflight EXCEPT ![i0] = next_seq]
    BY <1>3 DEF IInv, TypeOK, i0
  <2>3. inflight' \in [Indices -> -1..(next_seq' - 1)]
    BY <1>1, <2>1, <2>2
  <2>4. TypeOK'
    BY <1>1, <1>3, <2>3 DEF IInv, TypeOK, control
  <2>5. SlotsAfterCursor'
    <3> SUFFICES ASSUME NEW i \in Indices, inflight'[i] # Empty
                 PROVE  Idx(inflight'[i]) = i /\ cum_acked_seq < inflight'[i]
      BY <1>1 DEF SlotsAfterCursor, Idx
    <3>1. CASE i = i0
      <4>1. inflight'[i] = next_seq BY <2>1, <2>2, <3>1
      <4> QED BY <1>1, <3>1, <4>1 DEF IInv, TypeOK, i0
    <3>2. CASE i # i0
      <4>1. inflight'[i] = inflight[i] BY <2>2, <3>2
      <4> QED BY <4>1 DEF IInv, SlotsAfterCursor
    <3> QED BY <3>1, <3>2
  <2>6. CountCovers'
    <3>1. \A i \in Indices : inflight'[i] = IF i = i0 THEN next_seq ELSE inflight[i]
      BY <2>1, <2>2
    <3>2. Occupied' = Occupied \cup {i0}
      BY <1>1, <2>1, <3>1 DEF Occupied, Empty
    <3>3. IsFiniteSet(Occupied) /\ Cardinality(Occupied) \in Nat
      BY SlotsFinite DEF Occupied
    <3>4. Cardinality(Occupied') <= Cardinality(Occupied) + 1
      BY <3>2, <3>3, FS_AddElement
    <3>5. Cardinality(Occupied') \in Nat
      BY <2>1, <3>2, SlotsFinite DEF Occupied
    <3> QED BY <1>3, <3>3, <3>4, <3>5 DEF IInv, CountCovers, TypeOK
  <2> QED BY <2>4, <2>5, <2>6 DEF IInv
<1> QED BY <1>2, <1>3 DEF SendNext

(* An ACK clears the slots of what it acknowledges, and takes as many off  *)
(* the count.                                                              *)
LEMMA TakeAckEffect ==
  ASSUME IInv, NEW a \in Nat, TakeAck(a), UNCHANGED next_seq
  PROVE  /\ inflight' \in [Indices -> -1..(next_seq - 1)]
         /\ in_flight_count' \in 0..next_seq
         /\ cum_acked_seq' \in -1..(next_seq - 1)
         /\ cum_acked_seq' >= cum_acked_seq
         /\ SlotsAfterCursor' /\ CountCovers'
<1>0. /\ inflight \in [Indices -> -1..(next_seq - 1)]
      /\ next_seq \in Nat /\ cum_acked_seq \in -1..(next_seq - 1)
      /\ in_flight_count \in 0..next_seq
      /\ SlotsAfterCursor /\ CountCovers
  BY CSenderAssumption DEF IInv, TypeOK, CSenderAssumption
<1>1. CASE ~Has(a)
  <2>1. UNCHANGED <<table, cum_acked_seq>> BY <1>1 DEF TakeAck
  <2> QED BY <1>0, <2>1 DEF table, SlotsAfterCursor, CountCovers, Occupied
<1>2. CASE Has(a)
  <2>1. /\ inflight' = [i \in Indices |-> IF i \in Cleared(a) THEN Empty ELSE inflight[i]]
        /\ in_flight_count' = in_flight_count - Cardinality(Cleared(a))
        /\ cum_acked_seq' = a
    BY <1>2 DEF TakeAck
  <2>2. inflight' \in [Indices -> -1..(next_seq - 1)]
    BY <1>0, <2>1 DEF Empty
  <2>3. a \in 0..(next_seq - 1) /\ cum_acked_seq < a
    <3>1. Idx(a) \in Indices /\ inflight[Idx(a)] = a
      BY <1>2, IdxIsSlot DEF Has
    <3> QED BY <1>0, <3>1 DEF SlotsAfterCursor, Empty
  <2>4. Cleared(a) \subseteq Occupied /\ Occupied' = Occupied \ Cleared(a)
    BY <1>0, <2>1 DEF Cleared, Occupied, Empty
  <2>5. /\ Cardinality(Occupied') = Cardinality(Occupied) - Cardinality(Cleared(a))
        /\ Cardinality(Occupied') \in Nat /\ Cardinality(Occupied) \in Nat
        /\ Cardinality(Cleared(a)) \in Nat
    <3>1. /\ IsFiniteSet(Occupied) /\ Cardinality(Occupied) \in Nat
          /\ Cardinality(Cleared(a)) \in Nat
      BY SlotsFinite DEF Occupied, Cleared
    <3>2. Occupied \cap Cleared(a) = Cleared(a) BY <2>4
    <3>3. /\ IsFiniteSet(Occupied \ Cleared(a))
          /\ Cardinality(Occupied \ Cleared(a)) =
               Cardinality(Occupied) - Cardinality(Cleared(a))
      BY <3>1, <3>2, FS_Difference
    <3>4. Cardinality(Occupied \ Cleared(a)) \in Nat BY <3>3, FS_CardinalityType
    <3> QED BY <2>4, <3>1, <3>3, <3>4
  <2>6. in_flight_count' \in 0..next_seq /\ CountCovers'
    BY <1>0, <2>1, <2>5 DEF CountCovers
  <2>7. SlotsAfterCursor'
    <3> SUFFICES ASSUME NEW i \in Indices, inflight'[i] # Empty
                 PROVE  Idx(inflight'[i]) = i /\ cum_acked_seq' < inflight'[i]
      BY DEF SlotsAfterCursor, Idx
    <3>1. i \notin Cleared(a) /\ inflight'[i] = inflight[i]
      BY <2>1
    <3>2. Idx(inflight[i]) = i /\ cum_acked_seq < inflight[i]
      BY <1>0, <3>1 DEF SlotsAfterCursor
    <3>3. inflight[i] \in Int BY <1>0
    <3>4. ~(inflight[i] <= a)
      BY <1>0, <2>3, <3>1, <3>2, <3>3 DEF Cleared
    <3> QED BY <2>1, <2>3, <3>1, <3>2, <3>3, <3>4
  <2> QED BY <1>0, <2>1, <2>2, <2>3, <2>6, <2>7
<1> QED BY <1>1, <1>2

(* The steps that leave slots, count and cursor alone.                     *)
Quiet == UNCHANGED <<next_seq, cum_acked_seq, table>>

(* All steps but a send and an ACK are quiet.                              *)
LEMMA QuietSteps ==
  ASSUME [Next]_vars, ~SendNext, ~\E a \in acks : RecvAck(a)
  PROVE  Quiet
BY DEF Next, Lock, Unlock, TimeUp, Close, Reflect, Lose, Terminated, vars, Quiet

(* Every variable of the C sender keeps its type, every slot holds a       *)
(* packet that belongs there and is not acknowledged, and the count covers *)
(* the occupied slots; also when sends fail.                               *)
THEOREM CSenderInvariant == Spec => []IInv
<1>1. Init => IInv
  <2> SUFFICES ASSUME Init PROVE IInv
    OBVIOUS
  <2>1. w \in Floor..Cap /\ UOne \in Nat /\ MaxPackets \in Nat /\ StrayAcks \subseteq Nat
    <3>1. w = WInit * Scale BY DEF Init
    <3>2. w \in Floor..Cap BY <3>1, Limits, Zenon
    <3> QED
      BY <3>2, LawAssumption, CSenderAssumption DEF LawAssumption, CSenderAssumption
  <2>2. \A i \in Indices : inflight[i] = Empty
    BY DEF Init
  <2>3. inflight \in [Indices -> -1..(next_seq - 1)]
    BY DEF Init, Empty
  <2>4. TypeOK
    BY <2>1, <2>3 DEF Init, TypeOK, Floor, Cap, WCap
  <2>5. Occupied = {} BY <2>2 DEF Occupied
  <2>6. CountCovers BY <2>5, FS_EmptySet DEF CountCovers, Init
  <2>7. SlotsAfterCursor BY <2>2 DEF SlotsAfterCursor
  <2> QED BY <2>4, <2>6, <2>7 DEF IInv
<1>2. IInv /\ [Next]_vars => IInv'
  <2> SUFFICES ASSUME IInv, [Next]_vars PROVE IInv'
    OBVIOUS
  <2>0. /\ TypeOK /\ w \in Floor..Cap
        /\ next_seq \in Nat /\ acks \subseteq Nat /\ StrayAcks \subseteq Nat
    BY CSenderAssumption DEF IInv, TypeOK, Floor, Cap, WCap, CSenderAssumption
  <2>1. ASSUME Quiet, w' \in Floor..Cap, UNCHANGED <<u_smoothed, last_update_seq>>,
               main_pc' \in {"loop", "burst", "drain", "closed"},
               data' \subseteq 0..(next_seq - 1), acks' \subseteq acks \cup data
        PROVE  IInv'
    <3>1. TypeOK'
      BY <2>0, <2>1 DEF Quiet, table, TypeOK, Floor, Cap, WCap
    <3> QED
      BY <2>1, <3>1
      DEF IInv, Quiet, table, SlotsAfterCursor, CountCovers, Occupied
  <2>2. CASE Lock
    BY <2>0, <2>1, <2>2 DEF Lock, Quiet, control, TypeOK
  <2>3. CASE SendNext
    BY <2>3, SendEffect
  <2>4. CASE Unlock(NoRto)
    BY <2>0, <2>1, <2>4 DEF Unlock, NoRto, Quiet, TypeOK
  <2>5. CASE Unlock(Rto)
    <3>1. w' \in Floor..Cap
      BY <2>0, <2>5, WindowStays DEF Unlock, Rto
    <3>2. InFlight \subseteq 0..(next_seq - 1)
      BY <2>0 DEF InFlight, TypeOK, Empty
    <3>3. data' \subseteq 0..(next_seq - 1)
      BY <2>0, <2>5, <3>2 DEF Unlock, Rto, TypeOK
    <3> QED BY <2>1, <2>5, <3>1, <3>3 DEF Unlock, Quiet
  <2>6. CASE TimeUp
    BY <2>0, <2>1, <2>6 DEF TimeUp, Quiet, control, TypeOK
  <2>7. CASE Close
    BY <2>0, <2>1, <2>7 DEF Close, Quiet, control, TypeOK
  <2>8. ASSUME NEW a \in acks, RecvAck(a) PROVE IInv'
    <3>1. a \in Nat /\ acks' \subseteq acks /\ UNCHANGED <<next_seq, main_pc, data>>
      BY <2>0, <2>8 DEF RecvAck
    <3>2. CASE Duplicate(a)
      <4>1. UNCHANGED <<table, cum_acked_seq, control>>
        BY <2>8, <3>2 DEF RecvAck
      <4> QED BY <2>0, <2>1, <3>1, <4>1 DEF Quiet, control, TypeOK
    <3>3. CASE ~Duplicate(a)
      <4>1. TakeAck(a) /\ MaybeUpdateWindow
        BY <2>8, <3>3 DEF RecvAck
      <4>2. u_smoothed' \in Nat
        <5>1. USamples \subseteq Nat /\ u_smoothed \in Nat
          BY CSenderAssumption DEF CSenderAssumption, IInv, TypeOK
        <5>2. \E u \in USamples : u_smoothed' = Smoothed(u_smoothed, u)
          BY <2>8, <3>3 DEF RecvAck
        <5> QED BY <5>1, <5>2, SmoothedIsNumber
      <4>3. /\ inflight' \in [Indices -> -1..(next_seq - 1)]
            /\ in_flight_count' \in 0..next_seq
            /\ cum_acked_seq' \in -1..(next_seq - 1)
            /\ cum_acked_seq' >= cum_acked_seq
            /\ SlotsAfterCursor' /\ CountCovers'
        BY <3>1, <4>1, TakeAckEffect
      <4>4. w' \in Floor..Cap /\ last_update_seq' \in -1..cum_acked_seq'
        <5>1. w \in Nat BY <2>0, Limits
        <5>2. NewWindow(w, u_smoothed') \in Floor..Cap
          BY <4>2, <5>1, WindowStays
        <5>3. last_update_seq \in -1..cum_acked_seq /\ cum_acked_seq \in -1..(next_seq - 1)
          BY <2>0 DEF TypeOK
        <5>4. CASE UNCHANGED <<w, last_update_seq>>
          BY <2>0, <4>3, <5>3, <5>4
        <5>5. CASE w' = NewWindow(w, u_smoothed') /\ last_update_seq' = cum_acked_seq'
          BY <2>0, <4>3, <5>2, <5>5
        <5> QED BY <4>1, <5>4, <5>5 DEF MaybeUpdateWindow
      <4>5. TypeOK'
        BY <2>0, <3>1, <4>2, <4>3, <4>4 DEF TypeOK, Floor, Cap, WCap
      <4> QED BY <4>3, <4>5 DEF IInv
    <3> QED BY <3>2, <3>3
  <2>9. ASSUME NEW s \in data, Reflect(s) \/ Lose(s) PROVE IInv'
    BY <2>0, <2>1, <2>9 DEF Reflect, Lose, Quiet, control, TypeOK
  <2>10. CASE Terminated \/ UNCHANGED vars
    BY <2>0, <2>1, <2>10 DEF Terminated, vars, Quiet, control, TypeOK
  <2> QED
    BY <2>2, <2>3, <2>4, <2>5, <2>6, <2>7, <2>8, <2>9, <2>10 DEF Next
<1> QED BY <1>1, <1>2, PTL DEF Spec

(* The types alone.                                                        *)
THEOREM CSenderTypeCorrect == Spec => []TypeOK
<1>1. IInv => TypeOK BY DEF IInv
<1> QED BY <1>1, CSenderInvariant, PTL

(* The slots alone: a lookup finds a packet whenever it is in flight.      *)
THEOREM CSenderSlotsAfterCursor == Spec => []SlotsAfterCursor
<1>1. IInv => SlotsAfterCursor BY DEF IInv
<1> QED BY <1>1, CSenderInvariant, PTL

-----------------------------------------------------------------------------

(* While no send fails, the packets from the cursor on all have their slot *)
(* and the count is their number.                                          *)
Contiguous ==
  \A s \in (cum_acked_seq + 1)..(next_seq - 1) : inflight[Idx(s)] = s
Tally == in_flight_count = next_seq - 1 - cum_acked_seq

(* Two numbers less than a table's length apart have different slots.      *)
LEMMA NearbySlotsDiffer ==
  ASSUME NEW s \in Nat, NEW t \in Nat, s < t, t - s < InflightMax
  PROVE  Idx(s) # Idx(t)
<1> DEFINE M == InflightMax
           p == s \div M
           q == t \div M
<1>1. M \in Nat \ {0} BY CSenderAssumption DEF CSenderAssumption
<1> HIDE DEF M
<1>2. /\ p \in Nat /\ q \in Nat
      /\ s = M * p + (s % M) /\ t = M * q + (t % M)
      /\ s % M \in 0..(M - 1) /\ t % M \in 0..(M - 1)
  BY <1>1, Z3
<1> HIDE DEF p, q
<1>3. ASSUME s % M = t % M PROVE FALSE
  <2>1. t - s = M * q - M * p BY <1>1, <1>2, <1>3, Z3
  <2>2. M * q - M * p = M * (q - p) BY <1>1, <1>2, Z3
  <2>3. 0 < M * (q - p) /\ M * (q - p) < M BY <2>1, <2>2 DEF M
  <2>4. q - p >= 1 \/ q - p <= 0 BY <1>2
  <2>5. q - p <= 0 => M * (q - p) <= 0 BY <1>1, <1>2, Z3
  <2>6. q - p >= 1 => M * (q - p) >= M BY <1>1, <1>2, Z3
  <2>7. M * (q - p) \in Int BY <1>1, <1>2, Z3
  <2> QED BY <1>1, <2>3, <2>4, <2>5, <2>6, <2>7
<1> QED BY <1>3 DEF Idx, M

(* What an ACK clears is as much as it moves the cursor.                   *)
LEMMA ClearedMatchesCursor ==
  ASSUME IInv, Contiguous, NEW a \in Nat, Has(a)
  PROVE  /\ a \in 0..(next_seq - 1) /\ cum_acked_seq < a
         /\ Cardinality(Cleared(a)) = a - cum_acked_seq
<1> DEFINE Range_ == (cum_acked_seq + 1)..a
           slot == [s \in Range_ |-> Idx(s)]
<1>1. /\ inflight \in [Indices -> -1..(next_seq - 1)]
      /\ next_seq \in Nat /\ cum_acked_seq \in -1..(next_seq - 1)
      /\ SlotsAfterCursor
  BY CSenderAssumption DEF IInv, TypeOK, CSenderAssumption
<1>2. a \in 0..(next_seq - 1) /\ cum_acked_seq < a
  <2>1. Idx(a) \in Indices /\ inflight[Idx(a)] = a BY IdxIsSlot DEF Has
  <2> QED BY <1>1, <2>1 DEF SlotsAfterCursor, Empty
<1>3. \A s \in Range_ : s \in Nat /\ Idx(s) \in Indices /\ inflight[Idx(s)] = s
  BY <1>1, <1>2, IdxIsSlot DEF Contiguous
<1>4. slot \in Bijection(Range_, Cleared(a))
  <2>1. slot \in [Range_ -> Cleared(a)] BY <1>3 DEF Cleared
  <2>2. \A s, t \in Range_ : slot[s] = slot[t] => s = t BY <1>3
  <2>3. \A i \in Cleared(a) : \E s \in Range_ : slot[s] = i
    <3> SUFFICES ASSUME NEW i \in Cleared(a)
                 PROVE  inflight[i] \in Range_ /\ Idx(inflight[i]) = i
      OBVIOUS
    <3> QED BY <1>1 DEF Cleared, SlotsAfterCursor, Empty
  <2> QED BY <2>1, <2>2, <2>3 DEF Bijection, Injection, Surjection, IsInjective
<1>5. IsFiniteSet(Range_) /\ Cardinality(Range_) = a - cum_acked_seq
  BY <1>1, <1>2, FS_Interval
<1>6. Cardinality(Cleared(a)) = Cardinality(Range_)
  BY <1>4, <1>5, FS_Bijection DEF ExistsBijection
<1> QED BY <1>2, <1>5, <1>6

(* The window the sender tests, in packets.                                *)
LEMMA WholeWindowBounded ==
  ASSUME IInv
  PROVE  w \div Scale \in Nat /\ w \div Scale <= WCap
<1>1. w \in Floor..Cap BY DEF IInv, TypeOK, Floor, Cap, WCap
<1>2. w \in Nat /\ w <= WCap * Scale BY <1>1, Limits DEF Cap
<1>3. Scale \in Nat \ {0} /\ WCap \in Nat BY Limits
<1> QED BY <1>2, <1>3, Z3

(* While no send fails and no window is larger than the table, the number  *)
(* the window test and the early exit read is the number of packets in     *)
(* flight.                                                                 *)
THEOREM CountIsRight ==
  ASSUME SendMayFail = FALSE, WCap <= InflightMax
  PROVE  Spec => []CountMatchesSlots
<1>1. Init => Contiguous /\ Tally
  BY DEF Init, Contiguous, Tally
<1>2. IInv /\ Contiguous /\ Tally /\ [Next]_vars => (Contiguous /\ Tally)'
  <2> SUFFICES ASSUME IInv, Contiguous, Tally, [Next]_vars
               PROVE  Contiguous' /\ Tally'
    OBVIOUS
  <2>0. /\ inflight \in [Indices -> -1..(next_seq - 1)]
        /\ next_seq \in Nat /\ cum_acked_seq \in -1..(next_seq - 1)
        /\ acks \subseteq Nat /\ SlotsAfterCursor
    BY CSenderAssumption DEF IInv, TypeOK, CSenderAssumption
  <2>1. CASE Quiet
    BY <2>1 DEF Quiet, table, Contiguous, Tally, Idx
  <2>2. CASE SendNext
    <3>1. /\ next_seq' = next_seq + 1 /\ cum_acked_seq' = cum_acked_seq
          /\ inflight' = [inflight EXCEPT ![Idx(next_seq)] = next_seq]
          /\ in_flight_count' = in_flight_count + 1
      BY <2>2 DEF SendNext, MayFail
    <3>2. next_seq - 1 - cum_acked_seq < InflightMax
      <4>1. in_flight_count < w \div Scale BY <2>2 DEF SendNext, WindowOpen
      <4>2. w \div Scale \in Nat /\ w \div Scale <= WCap BY WholeWindowBounded
      <4>3. WCap \in Nat /\ InflightMax \in Nat
        BY Limits, CSenderAssumption DEF CSenderAssumption
      <4>4. in_flight_count = next_seq - 1 - cum_acked_seq BY DEF Tally
      <4> QED BY <2>0, <4>1, <4>2, <4>3, <4>4
    <3>3. Contiguous'
      <4> SUFFICES ASSUME NEW s \in (cum_acked_seq + 1)..next_seq
                   PROVE  inflight'[Idx(s)] = s
        BY <2>0, <3>1 DEF Contiguous, Idx
      <4>1. s \in Nat /\ Idx(s) \in Indices BY <2>0, IdxIsSlot
      <4>2. CASE s = next_seq
        BY <2>0, <3>1, <4>1, <4>2
      <4>3. CASE s # next_seq
        <5>1. Idx(s) # Idx(next_seq)
          <6>1. s < next_seq /\ next_seq - s < InflightMax
            BY <2>0, <3>2, <4>3, CSenderAssumption DEF CSenderAssumption
          <6> QED BY <2>0, <4>1, <6>1, NearbySlotsDiffer
        <5>2. inflight[Idx(s)] = s
          BY <2>0, <4>3 DEF Contiguous
        <5> QED BY <2>0, <3>1, <4>1, <5>1, <5>2
      <4> QED BY <4>2, <4>3
    <3> QED BY <2>0, <3>1, <3>3 DEF Tally
  <2>3. ASSUME NEW a \in acks, RecvAck(a) PROVE Contiguous' /\ Tally'
    <3>1. next_seq' = next_seq /\ a \in Nat BY <2>0, <2>3 DEF RecvAck
    <3>2. CASE UNCHANGED <<table, cum_acked_seq>>
      BY <2>1, <3>1, <3>2 DEF Quiet, table
    <3>3. CASE TakeAck(a) /\ Has(a)
      <4>1. /\ inflight' = [i \in Indices |-> IF i \in Cleared(a) THEN Empty ELSE inflight[i]]
            /\ in_flight_count' = in_flight_count - Cardinality(Cleared(a))
            /\ cum_acked_seq' = a
        BY <3>3 DEF TakeAck
      <4>2. /\ a \in 0..(next_seq - 1) /\ cum_acked_seq < a
            /\ Cardinality(Cleared(a)) = a - cum_acked_seq
        BY <3>1, <3>3, ClearedMatchesCursor
      <4>3. Tally' BY <2>0, <3>1, <4>1, <4>2 DEF Tally
      <4>4. Contiguous'
        <5> SUFFICES ASSUME NEW s \in (a + 1)..(next_seq - 1)
                     PROVE  inflight'[Idx(s)] = s
          BY <3>1, <4>1 DEF Contiguous, Idx
        <5>1. s \in Nat /\ Idx(s) \in Indices /\ inflight[Idx(s)] = s
          BY <2>0, <4>2, IdxIsSlot DEF Contiguous
        <5>2. Idx(s) \notin Cleared(a) BY <4>2, <5>1 DEF Cleared
        <5> QED BY <4>1, <5>1, <5>2
      <4> QED BY <4>3, <4>4
    <3>4. UNCHANGED <<table, cum_acked_seq>> \/ TakeAck(a)
      BY <2>3 DEF RecvAck
    <3> QED BY <3>2, <3>3, <3>4 DEF TakeAck
  <2> QED BY <2>1, <2>2, <2>3, QuietSteps
<1>3. IInv /\ Contiguous /\ Tally => CountMatchesSlots
  <2> SUFFICES ASSUME IInv, Contiguous, Tally PROVE CountMatchesSlots
    OBVIOUS
  <2>1. /\ inflight \in [Indices -> -1..(next_seq - 1)]
        /\ next_seq \in Nat /\ cum_acked_seq \in -1..(next_seq - 1)
        /\ SlotsAfterCursor
    BY CSenderAssumption DEF IInv, TypeOK, CSenderAssumption
  <2>2. InFlight = (cum_acked_seq + 1)..(next_seq - 1)
    <3>1. ASSUME NEW i \in Indices, inflight[i] # Empty
          PROVE  inflight[i] \in (cum_acked_seq + 1)..(next_seq - 1)
      BY <2>1, <3>1 DEF SlotsAfterCursor
    <3>2. ASSUME NEW s \in (cum_acked_seq + 1)..(next_seq - 1)
          PROVE  Idx(s) \in Indices /\ inflight[Idx(s)] = s /\ s # Empty
      BY <2>1, IdxIsSlot DEF Contiguous, Empty
    <3> QED BY <3>1, <3>2 DEF InFlight
  <2>3. Cardinality(InFlight) = next_seq - 1 - cum_acked_seq
    BY <2>1, <2>2, FS_Interval
  <2> QED BY <2>3 DEF CountMatchesSlots, Tally
<1> QED BY <1>1, <1>2, <1>3, CSenderInvariant, PTL DEF Spec

-----------------------------------------------------------------------------

(* The queue snapshots.                                                    *)

(* The clock is never behind what it dated.                                *)
ClockLeads ==
  /\ last_read <= time
  /\ \A b \in Buckets : wrote[b] <= time

(* What the poller remembers is the ring of its last read.  A slot that    *)
(* has another value now was written since.                                *)
MemoryIsRing ==
  IF last_read = Never
    THEN seen_max = [b \in Buckets |-> Unseen]
    ELSE seen_max = ring_read
MovedOn ==
  last_read # Never =>
    \A b \in Buckets : qdepth_history[b] # ring_read[b] => wrote[b] >= last_read

(* Rows are of polls made, and those of the present poll come last.        *)
PollsCount ==
  /\ poller_pc = "reading" => polls >= 1
  /\ \A r \in rows : r.poll <= polls
  /\ poller_pc = "reading" => \A r \in rows : r.poll < polls

RingInv ==
  /\ SnapshotsTypeOK /\ ClockLeads /\ MemoryIsRing /\ MovedOn /\ PollsCount
  /\ RowsReplayRing /\ RowsDateWrites

LEMMA Constants ==
  /\ Slots \in Nat \ {0} /\ MaxTime \in Nat /\ MaxPolls \in Nat
  /\ Depths \subseteq Nat /\ Depths \cup {0} \subseteq Nat
  /\ Never = -1 /\ Unseen = -1 /\ Idle = -1
BY SnapshotAssumption DEF SnapshotAssumption, Never, Unseen, Idle

(* Every moment has its bucket.                                            *)
LEMMA BucketIsSlot == \A t \in Nat : Bucket(t) \in Buckets
BY Constants DEF Bucket, Buckets

LEMMA RingInitially == SnapshotsInit => RingInv
<1> SUFFICES ASSUME SnapshotsInit PROVE RingInv OBVIOUS
<1>1. SnapshotsTypeOK
  <2>1. /\ time \in Times /\ polls \in 0..MaxPolls
        /\ last_read \in Times \cup {Never}
    BY Constants DEF SnapshotsInit, Times
  <2>2. /\ qdepth_history \in [Buckets -> Depths \cup {0}]
        /\ ring_read \in [Buckets -> Depths \cup {0}]
    BY DEF SnapshotsInit
  <2>3. /\ seen_max \in [Buckets -> Depths \cup {0, Unseen}]
        /\ wrote \in [Buckets -> Times \cup {Never}]
        /\ trace \in [Times -> Depths \cup {Idle}]
    BY DEF SnapshotsInit
  <2> QED BY <2>1, <2>2, <2>3 DEF SnapshotsInit, SnapshotsTypeOK
<1>2. ClockLeads
  BY Constants DEF SnapshotsInit, ClockLeads
<1> QED
  BY <1>1, <1>2 DEF SnapshotsInit, RingInv, MemoryIsRing, MovedOn, PollsCount,
      RowsReplayRing, RowsDateWrites

-----------------------------------------------------------------------------

(* The switch: time passes, a packet is written.                           *)
LEMMA TickInv == RingInv /\ Tick => RingInv'
<1> SUFFICES ASSUME RingInv, Tick PROVE RingInv' OBVIOUS
<1> USE DEF RingInv, Tick, poller
<1>1. SnapshotsTypeOK'
  BY Constants DEF SnapshotsTypeOK, Times, Row
<1>2. ClockLeads'
  BY Constants DEF ClockLeads, SnapshotsTypeOK, Times
<1>3. MemoryIsRing' /\ MovedOn' /\ PollsCount' /\ RowsReplayRing' /\ RowsDateWrites'
  BY DEF MemoryIsRing, MovedOn, PollsCount, RowsReplayRing, LatestRow, RowsDateWrites
<1> QED BY <1>1, <1>2, <1>3

LEMMA EgressInv == ASSUME NEW q \in Depths, RingInv, Egress(q) PROVE RingInv'
<1> USE DEF RingInv, poller
<1>0. /\ time \in Nat /\ time \in Times /\ Bucket(time) \in Buckets
      /\ UNCHANGED <<time, poller>>
  BY BucketIsSlot, Constants DEF SnapshotsTypeOK, Times, Egress
<1>1. qdepth_history' = [qdepth_history EXCEPT ![Bucket(time)] = q]
  BY DEF Egress, Written
<1>2. SnapshotsTypeOK'
  <2>1. qdepth_history' \in [Buckets -> Depths \cup {0}] BY <1>0, <1>1 DEF SnapshotsTypeOK
  <2>2. /\ wrote' \in [Buckets -> Times \cup {Never}]
        /\ trace' \in [Times -> Depths \cup {Idle}]
    BY <1>0 DEF SnapshotsTypeOK, Egress
  <2> QED BY <1>0, <2>1, <2>2 DEF SnapshotsTypeOK
<1>3. ClockLeads'
  <2>1. \A b \in Buckets : wrote'[b] = wrote[b] \/ wrote'[b] = time
    BY <1>0 DEF SnapshotsTypeOK, Egress
  <2> QED BY <1>0, <2>1 DEF ClockLeads
<1>4. MovedOn'
  <2> SUFFICES ASSUME last_read # Never, NEW b \in Buckets,
                      qdepth_history'[b] # ring_read[b]
               PROVE  wrote'[b] >= last_read
    BY <1>0 DEF MovedOn
  <2>1. CASE b = Bucket(time)
    <3>1. wrote'[b] = time BY <1>0, <2>1 DEF Egress, SnapshotsTypeOK
    <3>2. last_read \in Int /\ last_read <= time
      BY Constants DEF ClockLeads, SnapshotsTypeOK, Times
    <3> QED BY <3>1, <3>2, <1>0
  <2>2. CASE b # Bucket(time)
    BY <1>0, <1>1, <2>2 DEF Egress, SnapshotsTypeOK, MovedOn
  <2> QED BY <2>1, <2>2
<1>5. MemoryIsRing' /\ PollsCount' /\ RowsReplayRing' /\ RowsDateWrites'
  BY <1>0 DEF MemoryIsRing, PollsCount, RowsReplayRing, LatestRow, RowsDateWrites
<1> QED BY <1>2, <1>3, <1>4, <1>5

-----------------------------------------------------------------------------

(* The poller: what is remembered after a read is the ring, and every row  *)
(* added belongs to a slot that has changed since the read before.         *)
LEMMA RememberedIsRing ==
  ASSUME SnapshotsTypeOK PROVE Remembered = qdepth_history
BY DEF Remembered, Changed, SnapshotsTypeOK

LEMMA ReadInv == RingInv /\ Read => RingInv'
<1> SUFFICES ASSUME RingInv, Read PROVE RingInv' OBVIOUS
<1> USE DEF RingInv, switch
<1>0. /\ UNCHANGED <<time, qdepth_history, wrote, trace, polls, csv>>
      /\ poller_pc = "reading" /\ poller_pc' = "loop"
      /\ seen_max' = qdepth_history /\ ring_read' = qdepth_history
      /\ rows' = rows \cup NewRows /\ last_read' = time
      /\ lapped' \in BOOLEAN
  BY RememberedIsRing DEF Read
<1>1. time \in Nat /\ time # Never
  BY Constants DEF SnapshotsTypeOK, Times
<1>2. \A r \in NewRows : /\ r.bucket \in Changed /\ r.poll = polls
                         /\ r.qdepth = qdepth_history[r.bucket]
                         /\ r.since = last_read /\ r.wrote = wrote[r.bucket]
  BY DEF NewRows
<1>3. Changed \subseteq Buckets BY DEF Changed
<1>4. NewRows \subseteq Row
  <2>1. polls \in 1..MaxPolls BY <1>0, Constants DEF SnapshotsTypeOK, PollsCount
  <2> QED BY <1>3, <2>1 DEF NewRows, Row, SnapshotsTypeOK
<1>5. SnapshotsTypeOK'
  BY <1>0, <1>4, Constants DEF SnapshotsTypeOK
<1>6. ClockLeads' /\ MemoryIsRing' /\ MovedOn'
  BY <1>0, <1>1 DEF ClockLeads, MemoryIsRing, MovedOn
<1>7. PollsCount'
  BY <1>0, <1>2, Constants DEF PollsCount, SnapshotsTypeOK
<1>8. RowsReplayRing'
  <2> SUFFICES ASSUME NEW b \in Buckets
               PROVE  \E r \in rows' : /\ r.bucket = b /\ r.qdepth = qdepth_history[b]
                                       /\ \A s \in rows' : s.bucket = b => s.poll <= r.poll
    BY <1>0, <1>1 DEF RowsReplayRing, LatestRow
  <2>1. CASE b \in Changed
    <3> DEFINE row == [poll |-> polls, bucket |-> b, qdepth |-> qdepth_history[b],
                       since |-> last_read, wrote |-> wrote[b]]
    <3>1. row \in rows' BY <1>0, <2>1 DEF NewRows
    <3>2. \A s \in rows' : s.poll <= row.poll
      BY <1>0, <1>2, Constants DEF PollsCount, SnapshotsTypeOK
    <3> QED BY <3>1, <3>2
  <2>2. CASE b \notin Changed
    <3>1. seen_max[b] = qdepth_history[b] BY <2>2 DEF Changed
    <3>2. last_read # Never
      BY <3>1, Constants DEF MemoryIsRing, SnapshotsTypeOK
    <3>3. PICK r \in rows : LatestRow(b, r) /\ r.qdepth = ring_read[b]
      BY <3>2 DEF RowsReplayRing
    <3>4. r.qdepth = qdepth_history[b] BY <3>1, <3>2, <3>3 DEF MemoryIsRing
    <3>5. \A s \in rows' : s.bucket = b => s \in rows BY <1>0, <1>2, <2>2
    <3> QED BY <1>0, <3>3, <3>4, <3>5 DEF LatestRow
  <2> QED BY <2>1, <2>2
<1>9. RowsDateWrites'
  <2> SUFFICES ASSUME NEW r \in NewRows, r.since # Never PROVE r.wrote >= r.since
    BY <1>0 DEF RowsDateWrites
  <2>1. r.bucket \in Buckets /\ qdepth_history[r.bucket] # seen_max[r.bucket]
    BY <1>2 DEF Changed
  <2> QED BY <1>2, <2>1 DEF MovedOn, MemoryIsRing
<1> QED BY <1>5, <1>6, <1>7, <1>8, <1>9

(* The poller's other steps record nothing.                                *)
LEMMA PollerInv ==
  RingInv /\ (StartRead \/ ReadFails \/ ReadTimesOut \/ WriteCsv) => RingInv'
<1> SUFFICES ASSUME RingInv, StartRead \/ ReadFails \/ ReadTimesOut \/ WriteCsv
             PROVE  RingInv'
  OBVIOUS
<1> USE DEF RingInv, switch, StartRead, ReadFails, ReadTimesOut, WriteCsv
<1>1. SnapshotsTypeOK'
  BY Constants DEF SnapshotsTypeOK, Row
<1>2. PollsCount'
  BY Constants DEF PollsCount, SnapshotsTypeOK, Row
<1>3. /\ UNCHANGED <<time, qdepth_history, wrote, trace>>
      /\ UNCHANGED <<seen_max, rows, last_read, ring_read, lapped>>
  OBVIOUS
<1>4. ClockLeads' /\ MemoryIsRing' /\ MovedOn' /\ RowsReplayRing' /\ RowsDateWrites'
  BY <1>3
  DEF ClockLeads, MemoryIsRing, MovedOn, RowsReplayRing, LatestRow, RowsDateWrites
<1> QED BY <1>1, <1>2, <1>4

LEMMA RingKept == RingInv /\ [SnapshotsNext]_snapshot_vars => RingInv'
<1> SUFFICES ASSUME RingInv, [SnapshotsNext]_snapshot_vars PROVE RingInv' OBVIOUS
<1>1. CASE UNCHANGED snapshot_vars
  BY <1>1 DEF snapshot_vars, RingInv, SnapshotsTypeOK, ClockLeads, MemoryIsRing,
              MovedOn, PollsCount,
     RowsReplayRing, LatestRow, RowsDateWrites
<1> QED BY <1>1, TickInv, EgressInv, ReadInv, PollerInv DEF SnapshotsNext

LEMMA RingInvHolds == SnapshotsSpec => []RingInv
BY RingInitially, RingKept, PTL DEF SnapshotsSpec

(* Ring, rows and clocks stay within their limits.                         *)
THEOREM SnapshotsTypeCorrect == SnapshotsSpec => []SnapshotsTypeOK
<1>1. RingInv => SnapshotsTypeOK BY DEF RingInv
<1> QED BY <1>1, RingInvHolds, PTL

(* The latest rows are the ring as it was last read (snapshot_reader.py).  *)
THEOREM RingReplayed == SnapshotsSpec => []RowsReplayRing
<1>1. RingInv => RowsReplayRing BY DEF RingInv
<1> QED BY <1>1, RingInvHolds, PTL

(* A row stands for a write since the read before.                         *)
THEOREM RowsDate == SnapshotsSpec => []RowsDateWrites
<1>1. RingInv => RowsDateWrites BY DEF RingInv
<1> QED BY <1>1, RingInvHolds, PTL

-----------------------------------------------------------------------------

(* A set of moments has a latest.                                          *)
LEMMA LatestTime ==
  ASSUME NEW S \in SUBSET Times, S # {}
  PROVE  Max(S) \in S /\ \A y \in S : y <= Max(S)
<1> DEFINE T == {MaxTime - s : s \in S}
<1>1. T \subseteq Nat /\ T # {}
  <2>1. \A s \in S : s \in Int /\ s <= MaxTime BY Constants DEF Times
  <2>2. ASSUME NEW n \in T PROVE n \in Nat
    <3>1. PICK s \in S : n = MaxTime - s BY <2>2
    <3> QED BY <2>1, <3>1, Constants
  <2>3. PICK s \in S : TRUE OBVIOUS
  <2>4. MaxTime - s \in T BY <2>3
  <2> QED BY <2>2, <2>4
<1>2. PICK x \in T : \A y \in T : ~(<<y, x>> \in OpToRel(<, Nat))
  BY <1>1, NatLessThanWellFounded, WFMin
<1>3. \A y \in T : ~(y < x) BY <1>1, <1>2 DEF OpToRel
<1>4. PICK s \in S : x = MaxTime - s OBVIOUS
<1>5. ASSUME NEW y \in S PROVE s >= y
  <2>1. MaxTime - y \in T OBVIOUS
  <2>2. ~(MaxTime - y < MaxTime - s) BY <1>3, <1>4, <2>1
  <2>3. s \in Int /\ y \in Int BY Constants DEF Times
  <2> QED BY <2>2, <2>3, Constants
<1> HIDE DEF T
<1>6. Max(S) \in S /\ \A y \in S : Max(S) >= y BY <1>5 DEF Max
<1> QED BY <1>6, Constants DEF Times

(* Moments that share a bucket are a lap or more apart.                    *)
LEMMA OwnLap ==
  ASSUME NEW t \in Nat, NEW u \in Nat, Bucket(t) = Bucket(u), t < u
  PROVE  u - t >= Slots
<1>1. /\ t = Slots * (t \div Slots) + Bucket(t)
      /\ u = Slots * (u \div Slots) + Bucket(u)
      /\ t \div Slots \in Nat /\ u \div Slots \in Nat
  BY Constants DEF Bucket
<1> DEFINE i == t \div Slots  j == u \div Slots  r == Bucket(t)
<1>2. Slots \in Nat /\ r \in Int /\ i \in Nat /\ j \in Nat
  BY <1>1, Constants DEF Bucket
<1>3. t = Slots * i + r /\ u = Slots * j + r BY <1>1
<1> HIDE DEF i, j, r
<1>4. i < j BY <1>2, <1>3, Z3
<1>5. Slots * j >= Slots * (i + 1) BY <1>2, <1>4, Z3
<1>6. Slots * (i + 1) = Slots * i + Slots BY <1>2, Z3
<1> QED BY <1>2, <1>3, <1>5, <1>6

LEMMA NextLap == \A t \in Nat : Bucket(t + Slots) = Bucket(t)
<1> SUFFICES ASSUME NEW t \in Nat PROVE Bucket(t + Slots) = Bucket(t) OBVIOUS
<1> DEFINE i == (t + Slots) \div Slots  a == (t + Slots) % Slots
           j == t \div Slots            b == t % Slots
<1>1. /\ t + Slots = Slots * i + a /\ i \in Nat /\ a \in Nat /\ a < Slots
      /\ t = Slots * j + b /\ j \in Nat /\ b \in Nat /\ b < Slots /\ Slots \in Nat
  BY Constants
<1> HIDE DEF i, j, a, b
<1>2. ~(i >= j + 2)
  <2> SUFFICES ASSUME i >= j + 2 PROVE FALSE OBVIOUS
  <2>1. Slots * i >= Slots * (j + 2) BY <1>1, Z3
  <2>2. Slots * (j + 2) = Slots * j + Slots + Slots BY <1>1, Z3
  <2> QED BY <1>1, <2>1, <2>2
<1>3. ~(i <= j)
  <2> SUFFICES ASSUME i <= j PROVE FALSE OBVIOUS
  <2>1. Slots * i <= Slots * j BY <1>1, Z3
  <2> QED BY <1>1, <2>1
<1>4. i = j + 1 BY <1>1, <1>2, <1>3
<1>5. Slots * i = Slots * j + Slots BY <1>1, <1>4, Z3
<1>6. a = b BY <1>1, <1>5
<1> QED BY <1>6 DEF Bucket, a, b

(* What the bucket of moment u holds when u is over.                       *)
Held(u) == IF trace[u] # Idle THEN trace[u] ELSE HeldBefore(u)

Laps(t) == {u \in Times : u < t /\ Bucket(u) = Bucket(t) /\ trace[u] # Idle}

LEMMA HeldBeforeLaps ==
  ASSUME NEW t \in Nat
  PROVE  HeldBefore(t) = IF Laps(t) = {} THEN 0 ELSE trace[Max(Laps(t))]
BY DEF HeldBefore, Laps

(* A bucket held before a moment what it held one lap earlier.             *)
LEMMA HeldStep ==
  ASSUME SnapshotsTypeOK, NEW u \in Times
  PROVE  HeldBefore(u + Slots) = Held(u)
<1>1. u \in Nat /\ u + Slots \in Nat /\ Times \subseteq Nat /\ Slots \in Nat \ {0}
  BY Constants DEF Times
<1>2. Bucket(u + Slots) = Bucket(u) BY <1>1, NextLap
<1>3. ASSUME NEW v \in Laps(u + Slots) PROVE v <= u
  BY <1>1, <1>2, OwnLap DEF Laps
<1>4. CASE trace[u] # Idle
  <2>1. u \in Laps(u + Slots) BY <1>1, <1>2, <1>4 DEF Laps
  <2>2. Laps(u + Slots) \in SUBSET Times BY DEF Laps
  <2>3. Max(Laps(u + Slots)) \in Laps(u + Slots) /\ u <= Max(Laps(u + Slots))
    BY <2>1, <2>2, LatestTime
  <2>4. Max(Laps(u + Slots)) <= u BY <1>3, <2>3
  <2>5. Max(Laps(u + Slots)) \in Nat BY <1>1, <2>2, <2>3
  <2>6. Max(Laps(u + Slots)) = u BY <1>1, <2>3, <2>4, <2>5
  <2> QED BY <1>1, <1>4, <2>1, <2>6, HeldBeforeLaps DEF Held
<1>5. CASE trace[u] = Idle
  <2>1. Laps(u + Slots) \subseteq Laps(u)
    <3> SUFFICES ASSUME NEW v \in Laps(u + Slots) PROVE v \in Laps(u) OBVIOUS
    <3>1. v <= u /\ v # u /\ v \in Nat BY <1>1, <1>3, <1>5 DEF Laps
    <3> QED BY <1>1, <1>2, <3>1 DEF Laps
  <2>2. Laps(u) \subseteq Laps(u + Slots)
    <3> SUFFICES ASSUME NEW v \in Laps(u) PROVE v \in Laps(u + Slots) OBVIOUS
    <3>1. v \in Times /\ v < u /\ Bucket(v) = Bucket(u) /\ trace[v] # Idle BY DEF Laps
    <3>2. v \in Nat BY <1>1, <3>1
    <3>3. v < u + Slots BY <1>1, <3>1, <3>2
    <3> QED BY <1>2, <3>1, <3>3 DEF Laps
  <2>3. Laps(u + Slots) = Laps(u) BY <2>1, <2>2
  <2> QED BY <1>1, <1>5, <2>3, HeldBeforeLaps DEF Held
<1> QED BY <1>4, <1>5

(* It depends on the moments before that share the bucket only.            *)
LEMMA HeldSame ==
  ASSUME NEW u \in Times,
         \A v \in Times : v < u /\ Bucket(v) = Bucket(u) => trace'[v] = trace[v]
  PROVE  HeldBefore(u)' = HeldBefore(u)
<1>1. u \in Nat BY Constants DEF Times
<1>2. Laps(u)' = Laps(u) BY DEF Laps
<1>3. Laps(u) \in SUBSET Times BY DEF Laps
<1>4. HeldBefore(u)' = IF Laps(u)' = {} THEN 0 ELSE trace'[Max(Laps(u)')]
  BY DEF HeldBefore, Laps
<1>5. Laps(u) # {} => trace'[Max(Laps(u))] = trace[Max(Laps(u))]
  <2> HAVE Laps(u) # {}
  <2>1. Max(Laps(u)) \in Laps(u) BY <1>3, LatestTime
  <2> QED BY <2>1 DEF Laps
<1> QED BY <1>1, <1>2, <1>4, <1>5, HeldBeforeLaps

-----------------------------------------------------------------------------

(* Around the present, less than a lap to either side, the ring holds what *)
(* the moments of their buckets left there.                                *)
RingIsTrace ==
  /\ \A u \in Times : u > time => trace[u] = Idle
  /\ \A u \in Times : time - Slots < u /\ u < time + Slots =>
       /\ qdepth_history[Bucket(u)] = Held(u)
       /\ trace[u] # Idle => wrote[Bucket(u)] = u

(* The last read found a moment under way, which may go on, as it is in    *)
(* the rows, and of the lap to come what was there before.                 *)
RowOf(t, q) == \E r \in rows : r.wrote = t /\ r.qdepth = q
ReadSoFar ==
  last_read # Never /\ ~lapped =>
    /\ \/ ring_read[Bucket(last_read)] = HeldBefore(last_read)
       \/ RowOf(last_read, ring_read[Bucket(last_read)])
    /\ \A u \in Times : last_read < u /\ u < last_read + Slots =>
         ring_read[Bucket(u)] = HeldBefore(u)

ChangeInv == RingIsTrace /\ ReadSoFar /\ ChangesRecorded

(* What the first proof gives to this one.                                 *)
LEMMA Types ==
  ASSUME RingInv
  PROVE  /\ time \in Times /\ Times \subseteq Nat /\ Slots \in Nat \ {0}
         /\ last_read \in Int /\ last_read <= time
         /\ last_read # Never => last_read \in Times
         /\ \A t \in Nat : Bucket(t) \in Buckets
         /\ \A b \in Buckets : qdepth_history[b] \in Nat
         /\ DOMAIN trace = Times
<1>1. /\ time \in Times /\ last_read \in Times \cup {Never} /\ last_read <= time
      /\ \A b \in Buckets : qdepth_history[b] \in Depths \cup {0}
      /\ DOMAIN trace = Times
  BY DEF RingInv, SnapshotsTypeOK, ClockLeads
<1>2. Times \subseteq Nat BY Constants DEF Times
<1>3. last_read \in Int BY <1>1, <1>2, Constants
<1> QED BY <1>1, <1>2, <1>3, Constants, BucketIsSlot

LEMMA InitChanges == SnapshotsInit => ChangeInv
<1> SUFFICES ASSUME SnapshotsInit PROVE ChangeInv OBVIOUS
<1>1. \A u \in Times : trace[u] = Idle BY DEF SnapshotsInit
<1>2. ASSUME NEW u \in Times PROVE HeldBefore(u) = 0 /\ Bucket(u) \in Buckets
  <2>1. u \in Nat BY Constants DEF Times
  <2>2. Laps(u) = {} BY <1>1 DEF Laps
  <2> QED BY <2>1, <2>2, HeldBeforeLaps, BucketIsSlot
<1>3. RingIsTrace BY <1>1, <1>2 DEF SnapshotsInit, RingIsTrace, Held
<1>4. ReadSoFar BY DEF SnapshotsInit, ReadSoFar
<1>5. ChangesRecorded
  <2>1. \A t \in Times : ~(t < last_read) BY Constants DEF SnapshotsInit, Times
  <2> QED BY <2>1 DEF ChangesRecorded
<1> QED BY <1>3, <1>4, <1>5 DEF ChangeInv

(* Steps that leave the switch's trace alone leave what was held alone.    *)
LEMMA HeldStays ==
  ASSUME trace' = trace
  PROVE  \A u \in Times : HeldBefore(u)' = HeldBefore(u) /\ Held(u)' = Held(u)
BY HeldSame DEF Held

LEMMA TickChanges == RingInv /\ ChangeInv /\ Tick => ChangeInv'
<1> SUFFICES ASSUME RingInv, ChangeInv, Tick PROVE ChangeInv' OBVIOUS
<1> USE DEF ChangeInv
<1>0. /\ time' = time + 1
      /\ UNCHANGED <<qdepth_history, wrote, trace, rows, last_read, ring_read, lapped>>
  BY DEF Tick, poller
<1>1. RingIsTrace'
  <2>1. ASSUME NEW u \in Times, u > time' PROVE trace'[u] = Idle
    BY <1>0, <2>1, Types DEF RingIsTrace
  <2>2. ASSUME NEW u \in Times, time' - Slots < u, u < time' + Slots
        PROVE  /\ qdepth_history'[Bucket(u)] = Held(u)'
               /\ trace'[u] # Idle => wrote'[Bucket(u)] = u
    <3>1. CASE u < time + Slots
      <4>1. time - Slots < u BY <1>0, <2>2, Types
      <4> QED BY <1>0, <3>1, <4>1, HeldStays DEF RingIsTrace
    <3>2. CASE u = time + Slots
      <4>0. u > time
        <5>1. time \in Nat /\ Slots \in Nat \ {0} BY Types
        <5> QED BY <3>2, <5>1
      <4>1. trace[u] = Idle BY <4>0 DEF RingIsTrace
      <4>2. HeldBefore(u) = Held(time) BY <3>2, HeldStep, Types DEF RingInv
      <4>3. Bucket(u) = Bucket(time) BY <3>2, NextLap, Types
      <4>4. qdepth_history[Bucket(time)] = Held(time) BY Types DEF RingIsTrace
      <4> QED BY <1>0, <4>1, <4>2, <4>3, <4>4, HeldStays DEF Held
    <3> QED BY <1>0, <2>2, <3>1, <3>2, Types
  <2> QED BY <2>1, <2>2 DEF RingIsTrace
<1>2. ReadSoFar'
  BY <1>0, HeldStays, Types DEF ReadSoFar, RowOf
<1>3. ChangesRecorded'
  BY <1>0, HeldStays DEF ChangesRecorded, Recorded
<1> QED BY <1>1, <1>2, <1>3

(* A packet: moments of other buckets, and of earlier laps, are as before. *)
LEMMA EgressChanges ==
  ASSUME NEW q \in Depths, RingInv, ChangeInv, Egress(q)
  PROVE  ChangeInv'
<1> USE DEF ChangeInv
<1>0. /\ UNCHANGED <<time, rows, last_read, ring_read, lapped>>
      /\ qdepth_history' = [qdepth_history EXCEPT ![Bucket(time)] = q]
      /\ wrote' = [wrote EXCEPT ![Bucket(time)] = time]
      /\ trace' = [trace EXCEPT ![time] = q]
  BY DEF Egress, Written, poller
<1>1. /\ DOMAIN qdepth_history = Buckets /\ DOMAIN wrote = Buckets
      /\ q # Idle
  BY Constants DEF RingInv, SnapshotsTypeOK
<1>2. ASSUME NEW u \in Times, u < time + Slots
      PROVE  HeldBefore(u)' = HeldBefore(u)
  <2>1. ASSUME NEW v \in Times, v < u, Bucket(v) = Bucket(u) PROVE v # time
    BY <1>2, <2>1, OwnLap, Types
  <2> QED BY <1>0, <2>1, HeldSame, Types
<1>3. RingIsTrace'
  <2>1. ASSUME NEW u \in Times, u > time' PROVE trace'[u] = Idle
    BY <1>0, <2>1, Types DEF RingIsTrace
  <2>2. ASSUME NEW u \in Times, time - Slots < u, u < time + Slots
        PROVE  /\ qdepth_history'[Bucket(u)] = Held(u)'
               /\ trace'[u] # Idle => wrote'[Bucket(u)] = u
    <3>1. CASE u = time
      BY <1>0, <1>1, <3>1, Types DEF Held
    <3>2. CASE u # time
      <4>1. Bucket(u) # Bucket(time) /\ Bucket(u) \in Buckets
        BY <2>2, <3>2, OwnLap, Types
      <4>2. /\ qdepth_history'[Bucket(u)] = qdepth_history[Bucket(u)]
            /\ wrote'[Bucket(u)] = wrote[Bucket(u)] /\ trace'[u] = trace[u]
        BY <1>0, <1>1, <3>2, <4>1, Types
      <4>3. Held(u)' = Held(u) BY <1>2, <2>2, <4>2 DEF Held
      <4> QED BY <2>2, <4>2, <4>3 DEF RingIsTrace
    <3> QED BY <3>1, <3>2
  <2> QED BY <1>0, <2>1, <2>2 DEF RingIsTrace
<1>4. ReadSoFar'
  <2> SUFFICES ASSUME last_read # Never, ~lapped PROVE ReadSoFar' BY <1>0 DEF ReadSoFar
  <2>1. last_read \in Times /\ last_read <= time BY Types
  <2>2. PICK l \in Times : l = last_read BY <2>1
  <2>3. \A u \in Times : u < l + Slots => HeldBefore(u)' = HeldBefore(u)
    BY <1>2, <2>1, <2>2, Types
  <2>4. HeldBefore(l)' = HeldBefore(l) BY <2>2, <2>3, Types
  <2>5. \/ ring_read[Bucket(l)] = HeldBefore(l)
        \/ RowOf(l, ring_read[Bucket(l)])
    BY <2>2 DEF ReadSoFar
  <2>6. \A u \in Times : l < u /\ u < l + Slots => ring_read[Bucket(u)] = HeldBefore(u)
    BY <2>2 DEF ReadSoFar
  <2>7. /\ \/ ring_read'[Bucket(l)] = HeldBefore(l)'
           \/ \E r \in rows' : r.wrote = l /\ r.qdepth = ring_read'[Bucket(l)]
        /\ \A u \in Times : l < u /\ u < l + Slots =>
             ring_read'[Bucket(u)] = HeldBefore(u)'
    BY <1>0, <2>3, <2>4, <2>5, <2>6 DEF RowOf
  <2>8. last_read' = l BY <1>0, <2>2
  <2> QED BY <2>7, <2>8 DEF ReadSoFar, RowOf
<1>5. ChangesRecorded'
  <2> SUFFICES ASSUME ~lapped, NEW t \in Times, t < last_read,
                      trace'[t] \notin {Idle, HeldBefore(t)'}
               PROVE  Recorded(t)'
    BY <1>0 DEF ChangesRecorded
  <2>1. t < time /\ t < time + Slots BY Types
  <2>2. trace'[t] = trace[t] BY <1>0, <2>1, Types
  <2>3. HeldBefore(t)' = HeldBefore(t) BY <1>2, <2>1
  <2> QED BY <1>0, <2>2, <2>3 DEF ChangesRecorded, Recorded
<1> QED BY <1>3, <1>4, <1>5

(* A read: what the ring holds and the poller did not know becomes a row.  *)
LEMMA ReadChanges == RingInv /\ ChangeInv /\ Read => ChangeInv'
<1> SUFFICES ASSUME RingInv, ChangeInv, Read PROVE ChangeInv' OBVIOUS
<1> USE DEF ChangeInv
<1>0. /\ UNCHANGED <<time, qdepth_history, wrote, trace>>
      /\ ring_read' = qdepth_history
      /\ rows' = rows \cup NewRows /\ last_read' = time
      /\ ~lapped' => ~lapped /\ time - last_read < Slots
  <2>1. /\ UNCHANGED <<time, qdepth_history, wrote, trace>>
        /\ ring_read' = qdepth_history
        /\ rows' = rows \cup NewRows /\ last_read' = time
        /\ lapped' = (lapped \/ time - last_read >= Slots)
    BY DEF Read, switch
  <2>2. ~lapped' => ~lapped /\ ~(time - last_read >= Slots) BY <2>1, Zenon
  <2>3. ~(time - last_read >= Slots) => time - last_read < Slots BY Types
  <2> QED BY <2>1, <2>2, <2>3
<1>1. ASSUME NEW b \in Buckets, qdepth_history[b] # seen_max[b]
      PROVE  \E r \in rows' : r.wrote = wrote[b] /\ r.qdepth = qdepth_history[b]
  <2> DEFINE new == [poll |-> polls, bucket |-> b, qdepth |-> qdepth_history[b],
                     since |-> last_read, wrote |-> wrote[b]]
  <2>1. new \in NewRows BY <1>1 DEF NewRows, Changed
  <2>2. new.wrote = wrote[b] /\ new.qdepth = qdepth_history[b] OBVIOUS
  <2> QED BY <1>0, <2>1, <2>2
<1>2. ASSUME NEW b \in Buckets, qdepth_history[b] = seen_max[b]
      PROVE  last_read # Never /\ ring_read[b] = qdepth_history[b]
  BY <1>2, Types, Constants DEF RingInv, MemoryIsRing
<1>3. RingIsTrace' BY <1>0, HeldStays DEF RingIsTrace
<1>4. ASSUME ~lapped',
             NEW t \in Times, last_read <= t, t <= time, trace[t] \notin {Idle, HeldBefore(t)}
      PROVE  \E r \in rows' : r.wrote = t /\ r.qdepth = trace[t]
  <2>1. Bucket(t) \in Buckets /\ time - Slots < t /\ t < time + Slots
    BY <1>0, <1>4, Types
  <2>2. qdepth_history[Bucket(t)] = trace[t] /\ wrote[Bucket(t)] = t
    BY <1>4, <2>1 DEF RingIsTrace, Held
  <2>3. CASE qdepth_history[Bucket(t)] # seen_max[Bucket(t)]
    BY <1>1, <2>1, <2>2, <2>3
  <2>4. CASE qdepth_history[Bucket(t)] = seen_max[Bucket(t)]
    <3>1. last_read # Never /\ ring_read[Bucket(t)] = trace[t]
      BY <1>2, <2>1, <2>2, <2>4
    <3>2. CASE t = last_read
      BY <1>0, <1>4, <3>1, <3>2 DEF ReadSoFar, RowOf
    <3>3. CASE t > last_read
      <4>1. t < last_read + Slots BY <1>0, <1>4, Types
      <4> QED BY <1>0, <1>4, <3>1, <3>3, <4>1 DEF ReadSoFar
    <3> QED BY <1>4, <3>2, <3>3, Types
  <2> QED BY <2>3, <2>4
<1>5. ReadSoFar'
  <2> SUFFICES ASSUME ~lapped'
               PROVE  /\ \/ qdepth_history[Bucket(time)] = HeldBefore(time)
                         \/ \E r \in rows' : /\ r.wrote = time
                                             /\ r.qdepth = qdepth_history[Bucket(time)]
                      /\ \A u \in Times : time < u /\ u < time + Slots =>
                           qdepth_history[Bucket(u)] = HeldBefore(u)
    BY <1>0, HeldStays, Types DEF ReadSoFar, RowOf
  <2>1. qdepth_history[Bucket(time)] = Held(time) BY Types DEF RingIsTrace
  <2>2. trace[time] \in {Idle, HeldBefore(time)} =>
          qdepth_history[Bucket(time)] = HeldBefore(time)
    BY <2>1 DEF Held
  <2>3. trace[time] \notin {Idle, HeldBefore(time)} =>
          \E r \in rows' : r.wrote = time /\ r.qdepth = qdepth_history[Bucket(time)]
    BY <1>4, <2>1, Types DEF Held
  <2>4. ASSUME NEW u \in Times, time < u, u < time + Slots
        PROVE  qdepth_history[Bucket(u)] = HeldBefore(u)
    BY <2>4, Types DEF RingIsTrace, Held
  <2> QED BY <2>2, <2>3, <2>4
<1>6. ChangesRecorded'
  <2> SUFFICES ASSUME ~lapped', NEW t \in Times, t < time,
                      trace[t] \notin {Idle, HeldBefore(t)}
               PROVE  \E r \in rows' : r.wrote = t /\ r.qdepth = trace[t]
    BY <1>0, HeldStays DEF ChangesRecorded, Recorded
  <2>1. CASE t < last_read BY <1>0, <2>1 DEF ChangesRecorded, Recorded
  <2>2. CASE last_read <= t BY <1>4, <2>2, Types
  <2> QED BY <2>1, <2>2, Types
<1> QED BY <1>3, <1>5, <1>6

LEMMA NextChanges == RingInv /\ ChangeInv /\ [SnapshotsNext]_snapshot_vars => ChangeInv'
<1> SUFFICES ASSUME RingInv, ChangeInv, [SnapshotsNext]_snapshot_vars PROVE ChangeInv'
  OBVIOUS
<1>1. ASSUME UNCHANGED <<time, qdepth_history, wrote, trace, rows, last_read,
                         ring_read, lapped>>
      PROVE  ChangeInv'
  BY <1>1, HeldStays, Types
  DEF ChangeInv, RingIsTrace, ReadSoFar, RowOf, ChangesRecorded, Recorded
<1>2. CASE StartRead \/ ReadFails \/ ReadTimesOut \/ WriteCsv \/ UNCHANGED snapshot_vars
  BY <1>1, <1>2 DEF StartRead, ReadFails, ReadTimesOut, WriteCsv, snapshot_vars, switch
<1> QED BY <1>2, TickChanges, EgressChanges, ReadChanges DEF SnapshotsNext

(* No change is missed while reads keep ahead of the ring.                 *)
THEOREM NoChangeMissed == SnapshotsSpec => []ChangesRecorded
<1>1. ChangeInv => ChangesRecorded BY DEF ChangeInv
<1> QED BY <1>1, InitChanges, NextChanges, RingInvHolds, PTL DEF SnapshotsSpec

=============================================================================
