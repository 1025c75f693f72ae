------------------------- MODULE IntTelemetryProofs -------------------------
(***************************************************************************)
(* The telemetry loop, for a path of any length, any number of packets and *)
(* any resets: a packet's stack is its path, and the bytes a sample counts *)
(* are bytes that left the port, although packets, ACKs and records come   *)
(* in any order and the counter wraps; the samples add up to no more than  *)
(* was sent, and u is 0 for want of a sample only.                         *)
(***************************************************************************)
EXTENDS IntTelemetry, FiniteSetTheorems, TLAPS

Longest == PacketLen + MaxHops * HopLen

Typed ==
  /\ now \in 0..MaxTime /\ cross \in 0..MaxCross
  /\ resets \in [Switches -> 0..MaxResets]
  /\ tx_byte_count \in [Switches -> 0..(CounterMod - 1)]
  /\ sent_bytes \in [Switches -> Nat]
  /\ hop_count \in [Packets -> 0..Gone]
  /\ hops \in [Packets -> Seq(Record)]
  /\ DOMAIN hop_last = Switches
  /\ \A s \in Switches :
       hop_last[s] # None => hop_last[s] \in Record /\ hop_last[s].switch = s

(* No port has sent more than what passed it: the packets that are past it *)
(* and those of other senders.                                             *)
Past(s) == {p \in Packets : hop_count[p] >= s}
SentIsPassed ==
  \A s \in Switches : sent_bytes[s] <= (Cardinality(Past(s)) + cross) * Longest

(* What a record r says of its port is of an earlier moment than when the  *)
(* port, after n resets, had sent so much and showed so much.              *)
Congruent(x, y) == \E k \in Int : x - y = k * CounterMod
Earlier(r, sent, bytes, n) ==
  /\ r.sent <= sent /\ r.resets <= n
  /\ r.resets = n => Congruent(bytes - r.bytes, sent - r.sent)
  /\ r.resets < n => r.sent + bytes <= sent

(* The records about: on their way, or remembered by the sender.  They are *)
(* of the past, and those of a port tell its past in order.                *)
Known(r) ==
  \/ \E p \in Packets : \E i \in 1..Len(hops[p]) : hops[p][i] = r
  \/ \E s \in Switches : hop_last[s] # None /\ hop_last[s] = r
OfThePast(r) ==
  /\ r.tstamp <= now
  /\ Earlier(r, sent_bytes[r.switch], tx_byte_count[r.switch], resets[r.switch])
RecordsOfThePast == \A r \in Record : Known(r) => OfThePast(r)
RecordsInOrder ==
  \A r, q \in Record :
    Known(r) /\ Known(q) /\ r.switch = q.switch /\ r.tstamp < q.tstamp =>
      Earlier(r, q.sent, q.bytes, q.resets) /\ r.sent < q.sent

IInv ==
  /\ Typed /\ SentIsPassed /\ RecordsOfThePast /\ RecordsInOrder
  /\ TrueRate /\ NeverTooBusy

LEMMA Constants ==
  /\ NumSwitches \in Nat /\ MaxHops \in Nat /\ PacketLen \in Nat /\ HopLen \in Nat
  /\ MaxTime \in Nat /\ MaxCross \in Nat /\ MaxResets \in Nat
  /\ CounterMod \in Nat \ {0} /\ TxInit \in 0..(CounterMod - 1)
  /\ Longest \in Nat /\ IsFiniteSet(Packets) /\ Cardinality(Packets) \in Nat
  /\ (Cardinality(Packets) + MaxCross) * Longest < CounterMod
  /\ Switches \subseteq Nat /\ \A s \in Switches : s <= Gone /\ s # Gone
  /\ Gone \in Nat /\ 0 \in 0..Gone
<1>1. /\ NumSwitches \in Nat /\ MaxHops \in Nat /\ PacketLen \in Nat /\ HopLen \in Nat
      /\ MaxTime \in Nat /\ MaxCross \in Nat /\ MaxResets \in Nat
      /\ CounterMod \in Nat /\ TxInit \in 0..(CounterMod - 1) /\ IsFiniteSet(Packets)
      /\ (Cardinality(Packets) + MaxCross) * Longest < CounterMod
  BY TelemetryAssumption DEF TelemetryAssumption, Longest
<1>2. Cardinality(Packets) \in Nat BY <1>1, FS_CardinalityType
<1>3. Longest \in Nat BY <1>1 DEF Longest
<1>4. CounterMod \in Nat \ {0} BY <1>1
<1>5. /\ Switches \subseteq Nat /\ \A s \in Switches : s <= Gone /\ s # Gone
      /\ Gone \in Nat /\ 0 \in 0..Gone
  BY <1>1 DEF Switches, Gone
<1> QED BY <1>1, <1>2, <1>3, <1>4, <1>5

(* Two remainders that are congruent are the same.                         *)
LEMMA SameRemainder ==
  ASSUME NEW x \in 0..(CounterMod - 1), NEW y \in 0..(CounterMod - 1), Congruent(x, y)
  PROVE  x = y
<1>1. PICK k \in Int : x - y = k * CounterMod BY DEF Congruent
<1>2. CounterMod \in Nat \ {0} /\ x \in Int /\ y \in Int
      /\ x - y < CounterMod /\ y - x < CounterMod
  BY Constants
<1>3. ~(k >= 1)
  <2> SUFFICES ASSUME k >= 1 PROVE FALSE OBVIOUS
  <2>1. k * CounterMod >= CounterMod BY <1>2, Z3
  <2> QED BY <1>1, <1>2, <2>1
<1>4. ~(k <= -1)
  <2> SUFFICES ASSUME k <= -1 PROVE FALSE OBVIOUS
  <2>1. k * CounterMod <= -CounterMod BY <1>2, Z3
  <2> QED BY <1>1, <1>2, <2>1
<1>5. k = 0 BY <1>3, <1>4
<1> QED BY <1>1, <1>2, <1>5

(* The counter after it moved, wrapped or not.                             *)
LEMMA Wrapped ==
  ASSUME NEW x \in Nat
  PROVE  /\ x % CounterMod \in 0..(CounterMod - 1) /\ x % CounterMod <= x
         /\ \E k \in Int : x % CounterMod = x + k * CounterMod
<1> DEFINE k == x \div CounterMod  r == x % CounterMod
<1>1. /\ k \in Nat /\ r \in 0..(CounterMod - 1) /\ x = CounterMod * k + r
      /\ CounterMod \in Nat
  BY Constants
<1> HIDE DEF k, r
<1>2. CounterMod * k \in Nat /\ (-k) * CounterMod = -(CounterMod * k) BY <1>1, Z3
<1>3. r <= x BY <1>1, <1>2
<1>4. r = x + (-k) * CounterMod /\ -k \in Int BY <1>1, <1>2
<1> QED BY <1>1, <1>3, <1>4 DEF r

(* A set of numbers that is not empty has a least one,                     *)
LEMMA LeastElement ==
  ASSUME NEW S, S \subseteq Nat, S # {}
  PROVE  \E m \in S : \A k \in S : m <= k
<1>1. PICK m \in S : \A k \in S : ~(<<k, m>> \in OpToRel(<, Nat))
  BY NatLessThanWellFounded, WFMin
<1>2. ASSUME NEW i \in Nat, NEW j \in Nat, i < j
      PROVE  <<i, j>> \in OpToRel(<, Nat)
  <2>1. <<i, j>> \in Nat \X Nat OBVIOUS
  <2>2. <<i, j>>[1] < <<i, j>>[2] BY <1>2
  <2> QED BY <2>1, <2>2, Zenon DEF OpToRel
<1>3. \A k \in S : ~(k < m) BY <1>1, <1>2, Zenon
<1> QED BY <1>3

(* and a finite one a greatest: the number above which the fewest are.     *)
LEMMA Greatest ==
  ASSUME NEW S, IsFiniteSet(S), S \subseteq Nat, S # {}
  PROVE  Max(S) \in S /\ \A y \in S : y <= Max(S)
<1> DEFINE above(x) == {y \in S : y > x}
           sizes == {Cardinality(above(x)) : x \in S}
<1>1. \A x \in S : IsFiniteSet(above(x)) /\ Cardinality(above(x)) \in Nat
  <2> TAKE x \in S
  <2>1. above(x) \in SUBSET S OBVIOUS
  <2> HIDE DEF above
  <2> QED BY <2>1, FS_Subset, FS_CardinalityType
<1>2. PICK n \in sizes : \A k \in sizes : n <= k
  <2>1. sizes \subseteq Nat /\ sizes # {} BY <1>1
  <2> HIDE DEF sizes
  <2> QED BY <2>1, LeastElement
<1>3. PICK x \in S : n = Cardinality(above(x)) BY <1>2
<1>4. \A y \in S : x >= y
  <2> SUFFICES ASSUME NEW y \in S, ~(x >= y) PROVE FALSE OBVIOUS
  <2>1. x \in Nat /\ y \in Nat OBVIOUS
  <2>2. y > x /\ ~(y > y) /\ \A z \in S : z > y => z > x
    <3>1. \A z \in S : z \in Nat OBVIOUS
    <3> QED BY <2>1, <3>1
  <2>3. above(y) \in SUBSET above(x) /\ y \in above(x) /\ y \notin above(y)
    BY <2>2
  <2>4. Cardinality(above(y)) <= Cardinality(above(x))
    <3> HIDE DEF above
    <3> QED BY <1>1, <2>3, FS_Subset
  <2>5. Cardinality(above(x)) # Cardinality(above(y))
    <3>1. above(x) # above(y) BY <2>3
    <3> HIDE DEF above
    <3> QED BY <1>1, <2>3, <3>1, FS_Subset
  <2>6. n <= Cardinality(above(y)) BY <1>2
  <2> HIDE DEF above, sizes
  <2> QED BY <1>1, <1>3, <2>4, <2>5, <2>6
<1>5. Max(S) \in S /\ \A y \in S : Max(S) >= y BY <1>4 DEF Max
<1>6. Max(S) \in Nat BY <1>5
<1> QED BY <1>5, <1>6

(* The sum over a set of one number or none, by the two steps of its fold. *)
LEMMA SumOfOne == SumSet({}) = 0 /\ \A x \in Int : SumSet({x}) = x
<1> DEFINE c(s) == CHOOSE y \in s : TRUE
           step(X, g) == [s \in SUBSET X |->
                            IF s = {} THEN 0 ELSE c(s) + g[s \ {c(s)}]]
           iter(X) == CHOOSE g : g = step(X, g)
<1>1. \A X : SumSet(X) = iter(X)[X]
  BY DEF SumSet, FoldSet, MapThenFoldSet
<1>2. SumSet({}) = 0
  <2> DEFINE zero == [s \in SUBSET {} |-> 0]
  <2>1. zero = step({}, zero) OBVIOUS
  <2>2. iter({}) = step({}, iter({})) BY <2>1
  <2> HIDE DEF iter
  <2>3. iter({})[{}] = 0 BY <2>2
  <2> QED BY <1>1, <2>3
<1>3. ASSUME NEW x \in Int PROVE SumSet({x}) = x
  <2> DEFINE one == [s \in SUBSET {x} |-> IF s = {} THEN 0 ELSE x]
  <2>1. \A s \in SUBSET {x} : s = {} \/ s = {x} OBVIOUS
  <2>2. c({x}) = x OBVIOUS
  <2>3. one = step({x}, one)
    <3>1. ASSUME NEW s \in SUBSET {x}
          PROVE  one[s] = IF s = {} THEN 0 ELSE c(s) + one[s \ {c(s)}]
      <4>1. CASE s = {} BY <4>1
      <4>2. CASE s = {x}
        <5>1. s \ {c(s)} = {} /\ c(s) = x BY <2>2, <4>2
        <5>2. one[{}] = 0 OBVIOUS
        <5> QED BY <4>2, <5>1, <5>2
      <4> QED BY <2>1, <4>1, <4>2
    <3> QED BY <3>1
  <2>4. iter({x}) = step({x}, iter({x})) BY <2>3
  <2> HIDE DEF iter
  <2>5. iter({x})[{}] = 0 BY <2>4
  <2>6. iter({x})[{x}] = c({x}) + iter({x})[{x} \ {c({x})}] BY <2>4
  <2>7. iter({x})[{x}] = x + 0
    <3>1. {x} \ {c({x})} = {} BY <2>2
    <3> QED BY <2>2, <2>5, <2>6, <3>1
  <2> QED BY <1>1, <2>7
<1> QED BY <1>2, <1>3

(* Bytes over a time that is not above the scale: no rounding to 0.        *)
LEMMA RateIsPositive ==
  ASSUME NEW b \in Nat, NEW r \in Nat, NEW t \in Nat \ {0}, t <= r
  PROVE  (b * r) \div t \in Nat /\ (b > 0 => (b * r) \div t > 0)
<1> DEFINE d == (b * r) \div t
<1>1. b * r \in Nat /\ (b > 0 => b * r >= t) BY Z3
<1>2. d \in Int /\ t * d <= b * r /\ b * r < t * d + t
  <2>1. \A x \in Nat : x \div t \in Int /\ t * (x \div t) <= x /\ x < t * (x \div t) + t
    BY Z3
  <2> QED BY <1>1, <2>1
<1> HIDE DEF d
<1>3. d >= 0
  <2> SUFFICES ASSUME d <= -1 PROVE FALSE BY <1>2
  <2>1. t * d <= -t BY <1>2, Z3
  <2> QED BY <1>1, <1>2, <2>1
<1>4. b > 0 => d > 0
  <2> SUFFICES ASSUME b > 0, d = 0 PROVE FALSE BY <1>2, <1>3
  <2>1. t * d = 0 BY Z3
  <2> QED BY <1>1, <1>2, <2>1
<1> QED BY <1>2, <1>3, <1>4 DEF d

-----------------------------------------------------------------------------

LEMMA InitInv == Init => IInv
<1> SUFFICES ASSUME Init PROVE IInv OBVIOUS
<1>1. Typed
  <2>1. now \in 0..MaxTime /\ cross \in 0..MaxCross BY Constants DEF Init
  <2>2. resets \in [Switches -> 0..MaxResets] BY Constants DEF Init, NoBytes
  <2>3. tx_byte_count \in [Switches -> 0..(CounterMod - 1)] BY Constants DEF Init
  <2>4. sent_bytes \in [Switches -> Nat] BY DEF Init, NoBytes
  <2>5. hop_count \in [Packets -> 0..Gone] BY Constants DEF Init
  <2>6. hops \in [Packets -> Seq(Record)] BY DEF Init
  <2>7. DOMAIN hop_last = Switches /\ \A s \in Switches : hop_last[s] = None
    BY DEF Init, NoRecord
  <2> QED BY <2>1, <2>2, <2>3, <2>4, <2>5, <2>6, <2>7 DEF Typed
<1>2. SentIsPassed
  <2> SUFFICES ASSUME NEW s \in Switches
               PROVE  sent_bytes[s] <= (Cardinality(Past(s)) + cross) * Longest
    BY DEF SentIsPassed
  <2>1. Past(s) \in SUBSET Packets BY DEF Past
  <2>2. Cardinality(Past(s)) \in Nat
    BY <2>1, Constants, FS_Subset, FS_CardinalityType
  <2>3. sent_bytes[s] = 0 /\ cross = 0 BY DEF Init, NoBytes
  <2>4. (Cardinality(Past(s)) + 0) * Longest >= 0 BY <2>2, Constants, Z3
  <2> QED BY <2>3, <2>4
<1>3. \A r \in Record : ~Known(r)
  BY DEF Init, Known, NoRecord
<1>4. TrueRate /\ NeverTooBusy BY DEF Init, TrueRate, NeverTooBusy
<1> QED BY <1>1, <1>2, <1>3, <1>4 DEF IInv, RecordsOfThePast, RecordsInOrder

-----------------------------------------------------------------------------

(* The past stays the past when the port sends, and when it is reset.      *)
LEMMA EarlierThanSending ==
  ASSUME NEW r \in Record, NEW sent \in Nat, NEW bytes \in Nat, NEW n \in Nat,
         NEW len \in Nat, Earlier(r, sent, bytes, n)
  PROVE  Earlier(r, sent + len, (bytes + len) % CounterMod, n)
<1>1. r.sent \in Nat /\ r.resets \in Nat /\ r.bytes \in Int
  BY Constants DEF Record
<1> DEFINE b == (bytes + len) % CounterMod
<1>2. b \in 0..(CounterMod - 1) /\ b <= bytes + len
      /\ \E k \in Int : b = bytes + len + k * CounterMod
  BY Wrapped
<1> HIDE DEF b
<1>3. b \in Int BY <1>2, Constants
<1>4. r.sent <= sent + len /\ r.resets <= n BY <1>1 DEF Earlier
<1>5. r.resets = n => Congruent(b - r.bytes, sent + len - r.sent)
  <2> HAVE r.resets = n
  <2>1. PICK k \in Int : (bytes - r.bytes) - (sent - r.sent) = k * CounterMod
    BY DEF Earlier, Congruent
  <2>2. PICK j \in Int : b = bytes + len + j * CounterMod BY <1>2
  <2>3. (k + j) * CounterMod = k * CounterMod + j * CounterMod
        /\ k * CounterMod \in Int /\ j * CounterMod \in Int
    BY Constants, Z3
  <2>4. (b - r.bytes) - (sent + len - r.sent) = (k + j) * CounterMod
    BY <1>1, <1>3, <2>1, <2>2, <2>3
  <2> QED BY <2>4 DEF Congruent
<1>6. r.resets < n => r.sent + b <= sent + len
  BY <1>1, <1>2, <1>3 DEF Earlier
<1>7. Earlier(r, sent + len, b, n) BY <1>1, <1>3, <1>4, <1>5, <1>6 DEF Earlier, Congruent
<1> QED BY <1>7 DEF b

LEMMA EarlierThanReset ==
  ASSUME NEW r \in Record, NEW sent \in Nat, NEW bytes \in Nat, NEW n \in Nat,
         Earlier(r, sent, bytes, n)
  PROVE  Earlier(r, sent, 0, n + 1)
<1>1. r.sent \in Nat /\ r.resets \in Nat BY Constants DEF Record
<1> QED BY <1>1 DEF Earlier

LEMMA Ports ==
  ASSUME IInv
  PROVE  /\ now \in Int
         /\ \A s \in Switches : /\ tx_byte_count[s] \in Nat /\ sent_bytes[s] \in Nat
                               /\ resets[s] \in Nat
<1>1. now \in 0..MaxTime BY DEF IInv, Typed
<1>2. ASSUME NEW s \in Switches
      PROVE  /\ tx_byte_count[s] \in Nat /\ sent_bytes[s] \in Nat /\ resets[s] \in Nat
  <2>1. tx_byte_count[s] \in 0..(CounterMod - 1) BY DEF IInv, Typed
  <2>2. resets[s] \in 0..MaxResets BY DEF IInv, Typed
  <2>3. sent_bytes[s] \in Nat BY DEF IInv, Typed
  <2> QED BY <2>1, <2>2, <2>3, Constants
<1> QED BY <1>1, <1>2

(* A port that sends, with the clock (the last lines of HpccEgress).       *)
LEMMA SendingKeepsPast ==
  ASSUME IInv, NEW s \in Switches, NEW len \in Nat, Tick, Transmit(s, len),
         UNCHANGED resets, NEW r \in Record, Known(r)
  PROVE  OfThePast(r)'
<1>1. OfThePast(r) BY DEF IInv, RecordsOfThePast
<1> DEFINE t == r.switch
<1>2. t \in Switches BY DEF Record
<1>3. /\ sent_bytes[t] \in Nat /\ tx_byte_count[t] \in Nat /\ resets[t] \in Nat
      /\ now \in Int
  BY <1>2, Ports
<1>4. r.tstamp <= now'
  BY <1>1, <1>3, Constants DEF OfThePast, Tick, Record
<1>5. Earlier(r, sent_bytes[t], tx_byte_count[t], resets[t]) BY <1>1 DEF OfThePast
<1>6. CASE t = s
  <2>1. /\ sent_bytes'[t] = sent_bytes[t] + len
        /\ tx_byte_count'[t] = (tx_byte_count[t] + len) % CounterMod
    BY <1>2, <1>6 DEF Transmit, IInv, Typed
  <2>2. Earlier(r, sent_bytes'[t], tx_byte_count'[t], resets[t])
    BY <1>3, <1>5, <2>1, EarlierThanSending
  <2> QED BY <1>4, <2>2 DEF OfThePast, Earlier, Congruent
<1>7. CASE t # s
  <2>1. sent_bytes'[t] = sent_bytes[t] /\ tx_byte_count'[t] = tx_byte_count[t]
    BY <1>2, <1>7 DEF Transmit, IInv, Typed
  <2> QED BY <1>4, <1>5, <2>1 DEF OfThePast, Earlier, Congruent
<1> QED BY <1>6, <1>7

(* What is typed stays typed when a port sends.                            *)
LEMMA SendingKeepsTypes ==
  ASSUME IInv, NEW s \in Switches, NEW len \in Nat, Tick, Transmit(s, len)
  PROVE  /\ now' \in 0..MaxTime
         /\ tx_byte_count' \in [Switches -> 0..(CounterMod - 1)]
         /\ sent_bytes' \in [Switches -> Nat]
<1>1. now' \in 0..MaxTime BY Constants DEF IInv, Typed, Tick
<1>2. tx_byte_count[s] + len \in Nat /\ sent_bytes[s] + len \in Nat BY Ports
<1>3. (tx_byte_count[s] + len) % CounterMod \in 0..(CounterMod - 1)
  BY <1>2, Wrapped
<1> QED BY <1>1, <1>2, <1>3 DEF IInv, Typed, Transmit

(* Fewer records about, a switch that stands still: nothing changes.       *)
LEMMA FewerRecords ==
  ASSUME IInv, UNCHANGED <<now, tx_byte_count, sent_bytes, resets>>,
         \A r \in Record : Known(r)' => Known(r)
  PROVE  RecordsOfThePast' /\ RecordsInOrder'
<1>1. \A r \in Record : Known(r) => OfThePast(r)' 
  BY DEF IInv, RecordsOfThePast, OfThePast, Earlier, Congruent
<1>2. RecordsOfThePast' BY <1>1 DEF RecordsOfThePast
<1>3. RecordsInOrder' BY DEF IInv, RecordsInOrder, Earlier, Congruent
<1> QED BY <1>2, <1>3

(* A packet that is gone has passed every port.                            *)
LEMMA GoneIsPast ==
  ASSUME IInv, NEW p \in Packets, hop_count' = [hop_count EXCEPT ![p] = Gone],
         UNCHANGED <<sent_bytes, cross>>
  PROVE  SentIsPassed' /\ hop_count' \in [Packets -> 0..Gone]
<1>0. hop_count \in [Packets -> 0..Gone] /\ Gone \in 0..Gone
  <2>1. Gone \in Nat BY Constants
  <2> QED BY <2>1 DEF IInv, Typed
<1>1. hop_count' \in [Packets -> 0..Gone] BY <1>0
<1>2. ASSUME NEW s \in Switches
      PROVE  sent_bytes'[s] <= (Cardinality(Past(s)') + cross') * Longest
  <2>1. Past(s) \in SUBSET Past(s)' /\ Past(s)' \in SUBSET Packets
    <3>1. s <= Gone BY Constants
    <3>2. \A x \in Packets : hop_count'[x] = IF x = p THEN Gone ELSE hop_count[x]
      BY <1>0
    <3> QED BY <3>1, <3>2 DEF Past
  <2>2. IsFiniteSet(Past(s)') BY <2>1, Constants, FS_Subset
  <2>3. Cardinality(Past(s)) <= Cardinality(Past(s)') BY <2>1, <2>2, FS_Subset
  <2>4. Cardinality(Past(s)) \in Nat /\ Cardinality(Past(s)') \in Nat
    BY <2>1, <2>2, FS_Subset, FS_CardinalityType
  <2> DEFINE c == Cardinality(Past(s))  d == Cardinality(Past(s)')
  <2>5. c \in Nat /\ d \in Nat /\ c <= d /\ cross \in Nat /\ Longest \in Nat
    BY <2>3, <2>4, Constants DEF IInv, Typed
  <2> HIDE DEF c, d
  <2>6. (c + cross) * Longest <= (d + cross) * Longest
        /\ (c + cross) * Longest \in Int /\ (d + cross) * Longest \in Int
    BY <2>5, Z3
  <2>7. sent_bytes[s] \in Nat /\ sent_bytes[s] <= (c + cross) * Longest
    BY DEF IInv, Typed, SentIsPassed, c
  <2>8. sent_bytes[s] <= (d + cross) * Longest BY <2>6, <2>7
  <2> QED BY <2>8 DEF d
<1> QED BY <1>1, <1>2 DEF SentIsPassed

-----------------------------------------------------------------------------

(* One more packet has passed a port, or one of another sender.            *)
LEMMA OneMorePassed ==
  ASSUME NEW n \in Nat, NEW m \in Nat, NEW c \in Nat, NEW d \in Nat,
         NEW sent \in Nat, NEW len \in Nat,
         sent <= (n + c) * Longest, len <= Longest, m + d = n + c + 1
  PROVE  sent + len <= (m + d) * Longest
<1>1. (n + c + 1) * Longest = (n + c) * Longest + Longest
      /\ (n + c) * Longest \in Int
  BY Constants, Z3
<1>2. sent + len <= (n + c + 1) * Longest BY <1>1, Constants
<1> QED BY <1>2

LEMMA PastIsFinite ==
  \A s \in Switches : IsFiniteSet(Past(s)) /\ Cardinality(Past(s)) \in Nat
                        /\ Cardinality(Past(s)) <= Cardinality(Packets)
<1> SUFFICES ASSUME NEW s \in Switches
             PROVE  IsFiniteSet(Past(s)) /\ Cardinality(Past(s)) \in Nat
                      /\ Cardinality(Past(s)) <= Cardinality(Packets)
  OBVIOUS
<1>1. Past(s) \in SUBSET Packets BY DEF Past
<1> QED BY <1>1, Constants, FS_Subset, FS_CardinalityType

(* The lengths the ports count.                                            *)
LEMMA Lengths ==
  ASSUME NEW n \in Nat, n < MaxHops
  PROVE  /\ PacketLen + (n + 1) * HopLen \in Nat \ {0}
         /\ PacketLen + (n + 1) * HopLen <= Longest
<1>1. n + 1 <= MaxHops /\ n + 1 \in Nat BY Constants
<1>2. (n + 1) * HopLen \in Nat /\ MaxHops * HopLen \in Nat
      /\ (n + 1) * HopLen <= MaxHops * HopLen
  BY <1>1, Constants, Z3
<1>3. PacketLen \in Nat \ {0} BY TelemetryAssumption DEF TelemetryAssumption
<1> QED BY <1>2, <1>3, Constants DEF Longest

LEMMA CrossTrafficInv == ASSUME IInv, NEW s \in Switches, CrossTraffic(s) PROVE IInv'
<1> DEFINE len == PacketLen + HopLen
<1>1. /\ cross < MaxCross /\ cross' = cross + 1 /\ Tick /\ Transmit(s, len)
      /\ UNCHANGED <<resets, hop_count, hops, hop_last, samples>>
  BY DEF CrossTraffic, sender
<1>2. len \in Nat /\ len <= Longest
  <2>1. MaxHops \in Nat \ {0} BY TelemetryAssumption DEF TelemetryAssumption
  <2>2. PacketLen + (0 + 1) * HopLen <= Longest BY <2>1, Lengths
  <2> QED BY <2>2, Constants
<1> HIDE DEF len
<1>3. Typed'
  <2>1. cross \in 0..MaxCross /\ MaxCross \in Nat BY Constants DEF IInv, Typed
  <2>2. cross' \in 0..MaxCross BY <1>1, <2>1
  <2> QED BY <1>1, <1>2, <2>2, SendingKeepsTypes DEF IInv, Typed
<1>4. SentIsPassed'
  <2> SUFFICES ASSUME NEW t \in Switches
               PROVE  sent_bytes'[t] <= (Cardinality(Past(t)') + cross') * Longest
    BY DEF SentIsPassed
  <2>1. Past(t)' = Past(t) BY <1>1 DEF Past
  <2> DEFINE c == Cardinality(Past(t))
  <2>2. c \in Nat /\ cross \in Nat /\ sent_bytes[t] \in Nat
    BY PastIsFinite, Ports, Constants DEF IInv, Typed
  <2>3. sent_bytes[t] <= (c + cross) * Longest BY DEF IInv, SentIsPassed
  <2>4. sent_bytes'[t] = sent_bytes[t] + (IF t = s THEN len ELSE 0)
    BY <1>1, <2>2 DEF Transmit, IInv, Typed
  <2> HIDE DEF c
  <2>5. sent_bytes[t] + (IF t = s THEN len ELSE 0) <= (c + (cross + 1)) * Longest
    <3> DEFINE l == IF t = s THEN len ELSE 0
    <3>1. l \in Nat /\ l <= Longest BY <1>2, Constants
    <3> HIDE DEF l
    <3>2. c + (cross + 1) = c + cross + 1 /\ cross + 1 \in Nat BY <2>2
    <3>3. sent_bytes[t] + l <= (c + (cross + 1)) * Longest
      BY <2>2, <2>3, <3>1, <3>2, OneMorePassed
    <3> QED BY <3>3 DEF l
  <2> QED BY <1>1, <2>1, <2>4, <2>5 DEF c
<1>5. \A r : Known(r)' <=> Known(r) BY <1>1 DEF Known
<1>6. RecordsOfThePast' BY <1>1, <1>2, <1>5, SendingKeepsPast DEF RecordsOfThePast
<1>7. RecordsInOrder' BY <1>5 DEF IInv, RecordsInOrder, Earlier, Congruent
<1>8. TrueRate' /\ NeverTooBusy' BY <1>1 DEF IInv, TrueRate, NeverTooBusy
<1> QED BY <1>3, <1>4, <1>6, <1>7, <1>8 DEF IInv

LEMMA ResetInv == ASSUME IInv, NEW s \in Switches, Reset(s) PROVE IInv'
<1>1. /\ resets[s] < MaxResets /\ resets' = [resets EXCEPT ![s] = @ + 1]
      /\ tx_byte_count' = [tx_byte_count EXCEPT ![s] = 0]
      /\ UNCHANGED <<now, sent_bytes, cross, hop_count, hops, hop_last, samples>>
  BY DEF Reset, sender
<1>2. Typed'
  <2>1. resets[s] + 1 \in 0..MaxResets /\ 0 \in 0..(CounterMod - 1)
    <3>1. resets[s] \in Nat /\ MaxResets \in Nat BY Ports, Constants
    <3>2. CounterMod \in Nat \ {0} BY Constants
    <3> QED BY <1>1, <3>1, <3>2
  <2>2. /\ resets' \in [Switches -> 0..MaxResets]
        /\ tx_byte_count' \in [Switches -> 0..(CounterMod - 1)]
    BY <1>1, <2>1 DEF IInv, Typed
  <2> QED BY <1>1, <2>2 DEF IInv, Typed
<1>3. SentIsPassed' BY <1>1 DEF IInv, SentIsPassed, Past
<1>4. \A r : Known(r)' <=> Known(r) BY <1>1 DEF Known
<1>5. RecordsOfThePast'
  <2> SUFFICES ASSUME NEW r \in Record, Known(r) PROVE OfThePast(r)'
    BY <1>4 DEF RecordsOfThePast
  <2> DEFINE t == r.switch
  <2>1. OfThePast(r) BY DEF IInv, RecordsOfThePast
  <2>2. t \in Switches BY DEF Record
  <2>3. CASE t = s
    <3>1. Earlier(r, sent_bytes[s], 0, resets[s] + 1)
      BY <2>1, <2>3, Ports, EarlierThanReset DEF OfThePast
    <3>2. tx_byte_count'[s] = 0 /\ resets'[s] = resets[s] + 1
      BY <1>1 DEF IInv, Typed
    <3> QED BY <1>1, <2>1, <2>3, <3>1, <3>2 DEF OfThePast, Earlier, Congruent
  <2>4. CASE t # s
    <3>1. tx_byte_count'[t] = tx_byte_count[t] /\ resets'[t] = resets[t]
      BY <1>1, <2>2, <2>4 DEF IInv, Typed
    <3> QED BY <1>1, <2>1, <3>1 DEF OfThePast, Earlier, Congruent
  <2> QED BY <2>3, <2>4
<1>6. RecordsInOrder' BY <1>4 DEF IInv, RecordsInOrder, Earlier, Congruent
<1>7. TrueRate' /\ NeverTooBusy' BY <1>1 DEF IInv, TrueRate, NeverTooBusy
<1> QED BY <1>2, <1>3, <1>5, <1>6, <1>7 DEF IInv

LEMMA NextTrialInv == IInv /\ NextTrial => IInv'
<1> SUFFICES ASSUME IInv, NextTrial PROVE IInv' OBVIOUS
<1>1. /\ hop_last' = NoRecord /\ samples' = {}
      /\ UNCHANGED <<now, tx_byte_count, sent_bytes, cross, resets, hop_count, hops>>
  BY DEF NextTrial, switch
<1>2. \A s \in Switches : hop_last'[s] = None BY <1>1 DEF NoRecord
<1>3. Typed' BY <1>1, <1>2 DEF IInv, Typed, NoRecord
<1>4. SentIsPassed' BY <1>1 DEF IInv, SentIsPassed, Past
<1>5. \A r \in Record : Known(r)' => Known(r) BY <1>1, <1>2 DEF Known
<1>6. RecordsOfThePast' /\ RecordsInOrder' BY <1>1, <1>5, FewerRecords
<1>7. TrueRate' /\ NeverTooBusy' BY <1>1 DEF TrueRate, NeverTooBusy
<1> QED BY <1>3, <1>4, <1>6, <1>7 DEF IInv

LEMMA LoseInv == ASSUME IInv, NEW p \in Packets, Lose(p) PROVE IInv'
<1>1. /\ hop_count' = [hop_count EXCEPT ![p] = Gone]
      /\ hops' = [hops EXCEPT ![p] = << >>]
      /\ UNCHANGED <<now, tx_byte_count, sent_bytes, cross, resets, hop_last, samples>>
  BY DEF Lose, switch, sender
<1>2. SentIsPassed' /\ hop_count' \in [Packets -> 0..Gone] BY <1>1, GoneIsPast
<1>3. hops' \in [Packets -> Seq(Record)] BY <1>1 DEF IInv, Typed
<1>4. Typed' BY <1>1, <1>2, <1>3 DEF IInv, Typed
<1>5. \A r \in Record : Known(r)' => Known(r)
  <2>1. \A x \in Packets : hops'[x] = IF x = p THEN << >> ELSE hops[x]
    BY <1>1 DEF IInv, Typed
  <2> QED BY <1>1, <2>1 DEF Known
<1>6. RecordsOfThePast' /\ RecordsInOrder' BY <1>1, <1>5, FewerRecords
<1>7. TrueRate' /\ NeverTooBusy' BY <1>1 DEF IInv, TrueRate, NeverTooBusy
<1> QED BY <1>2, <1>4, <1>6, <1>7 DEF IInv

(* A stack with one more record in front.                                  *)
LEMMA Pushed ==
  ASSUME NEW S, NEW seq \in Seq(S), NEW h \in S
  PROVE  /\ <<h>> \o seq \in Seq(S) /\ Len(<<h>> \o seq) = Len(seq) + 1
         /\ (<<h>> \o seq)[1] = h
         /\ \A i \in 2..(Len(seq) + 1) : (<<h>> \o seq)[i] = seq[i - 1]
OBVIOUS

LEMMA EgressInv == ASSUME IInv, NEW p \in Packets, Egress(p) PROVE IInv'
<1> DEFINE s == hop_count[p] + 1
<1>1. /\ s \in Switches /\ Tick /\ hop_count' = [hop_count EXCEPT ![p] = s]
      /\ UNCHANGED <<cross, resets, hop_last, samples>>
  BY DEF Egress, sender
<1>a. hop_count[p] \in Nat /\ s \in 0..Gone
  BY <1>1, Constants, SMTT(30) DEF IInv, Typed
<1>b. ASSUME NEW t \in Switches
      PROVE  Past(t)' = IF t = s THEN Past(t) \cup {p} ELSE Past(t)
  <2>1. \A x \in Packets : hop_count'[x] = IF x = p THEN s ELSE hop_count[x]
    BY <1>1 DEF IInv, Typed
  <2>2. t \in Nat BY Constants
  <2>3. t # s => (s >= t <=> hop_count[p] >= t) BY <1>a, <2>2
  <2> QED BY <1>a, <2>1, <2>2, <2>3 DEF Past
<1> HIDE DEF s
<1>2. CASE Full(hops[p])
  <2>1. UNCHANGED <<tx_byte_count, sent_bytes, hops>> BY <1>2 DEF Egress
  <2>2. now' \in 0..MaxTime /\ now <= now'
    <3>1. now \in 0..MaxTime BY DEF IInv, Typed
    <3> QED BY <1>1, <3>1, Constants DEF Tick
  <2>3. hop_count' \in [Packets -> 0..Gone]
    BY <1>1, <1>a DEF IInv, Typed
  <2>4. Typed' BY <1>1, <2>1, <2>2, <2>3 DEF IInv, Typed
  <2>5. SentIsPassed'
    <3> SUFFICES ASSUME NEW t \in Switches
                 PROVE  sent_bytes[t] <= (Cardinality(Past(t)') + cross) * Longest
      BY <1>1, <2>1 DEF SentIsPassed
    <3>1. Past(t) \in SUBSET Past(t)' /\ Past(t)' \in SUBSET Packets
      BY <1>b DEF Past
    <3>2. IsFiniteSet(Past(t)') BY <3>1, Constants, FS_Subset
    <3> DEFINE c == Cardinality(Past(t))  d == Cardinality(Past(t)')
    <3>3. c \in Nat /\ d \in Nat /\ c <= d
      BY <3>1, <3>2, FS_Subset, FS_CardinalityType, PastIsFinite
    <3>4. cross \in Nat /\ sent_bytes[t] \in Nat /\ sent_bytes[t] <= (c + cross) * Longest
      BY Ports, Constants DEF IInv, Typed, SentIsPassed
    <3> HIDE DEF c, d
    <3>5. (c + cross) * Longest <= (d + cross) * Longest
          /\ (c + cross) * Longest \in Int /\ (d + cross) * Longest \in Int
      BY <3>3, <3>4, Constants, Z3
    <3>6. sent_bytes[t] <= (d + cross) * Longest BY <3>4, <3>5
    <3> QED BY <3>6 DEF d
  <2>6. \A r : Known(r)' <=> Known(r) BY <1>1, <2>1 DEF Known
  <2>7. RecordsOfThePast'
    <3> SUFFICES ASSUME NEW r \in Record, Known(r) PROVE OfThePast(r)'
      BY <2>6 DEF RecordsOfThePast
    <3>1. OfThePast(r) BY DEF IInv, RecordsOfThePast
    <3>2. r.tstamp <= now'
      BY <2>2, <3>1, Ports, Constants DEF OfThePast, Record
    <3> QED BY <1>1, <2>1, <3>1, <3>2 DEF OfThePast, Earlier, Congruent
  <2>8. RecordsInOrder' BY <2>6 DEF IInv, RecordsInOrder, Earlier, Congruent
  <2>9. TrueRate' /\ NeverTooBusy' BY <1>1 DEF IInv, TrueRate, NeverTooBusy
  <2> QED BY <2>4, <2>5, <2>7, <2>8, <2>9 DEF IInv
<1>3. CASE ~Full(hops[p])
  <2> DEFINE len == PacketLen + (Len(hops[p]) + 1) * HopLen
  <2>1. PICK q \in QDepths :
          Transmit(s, len) /\ hops' = [hops EXCEPT ![p] = <<Hop(s, q)>> \o @]
    BY <1>3 DEF Egress, s
  <2>2. hops[p] \in Seq(Record) /\ Len(hops[p]) \in Nat /\ Len(hops[p]) < MaxHops
    BY <1>3, Constants DEF IInv, Typed, Full
  <2>3. len \in Nat \ {0} /\ len <= Longest BY <2>2, Lengths
  <2> HIDE DEF len
  <2>4. /\ now' \in 0..MaxTime
        /\ tx_byte_count' \in [Switches -> 0..(CounterMod - 1)]
        /\ sent_bytes' \in [Switches -> Nat]
    BY <1>1, <2>1, <2>3, SendingKeepsTypes
  <2>a. Hop(s, q) \in Record BY <1>1, <2>4 DEF Hop, Record, IInv, Typed
  <2>b. PICK h \in Record : h = Hop(s, q) BY <2>a
  <2>5. /\ h \in Record /\ h.switch = s /\ h.tstamp = now' /\ h.sent = sent_bytes'[s]
        /\ h.bytes = tx_byte_count'[s] /\ h.resets = resets[s]
    BY <2>b DEF Hop
  <2>6. hops' = [hops EXCEPT ![p] = <<h>> \o hops[p]] BY <2>1, <2>b
  <2>c. /\ tx_byte_count'[s] \in Int /\ sent_bytes'[s] \in Int /\ now' \in Int
        /\ resets'[s] \in Int /\ resets'[s] = resets[s] /\ CounterMod \in Int
    <3>1. tx_byte_count'[s] \in 0..(CounterMod - 1) /\ sent_bytes'[s] \in Nat
      BY <1>1, <2>4
    <3> QED BY <1>1, <2>4, <3>1, Ports, Constants
  <2>7. hop_count' \in [Packets -> 0..Gone]
    BY <1>1, <1>a DEF IInv, Typed
  <2>8. hops' \in [Packets -> Seq(Record)]
    BY <2>2, <2>5, <2>6, Pushed DEF IInv, Typed
  <2>9. Typed' BY <1>1, <2>4, <2>7, <2>8 DEF IInv, Typed
  <2>10. SentIsPassed'
    <3> SUFFICES ASSUME NEW t \in Switches
                 PROVE  sent_bytes'[t] <= (Cardinality(Past(t)') + cross) * Longest
      BY <1>1 DEF SentIsPassed
    <3> DEFINE c == Cardinality(Past(t))
    <3>1. c \in Nat /\ cross \in Nat /\ sent_bytes[t] \in Nat
          /\ sent_bytes[t] <= (c + cross) * Longest
      BY PastIsFinite, Ports, Constants DEF IInv, Typed, SentIsPassed
    <3>2. CASE t = s
      <4>1. Past(t)' = Past(t) \cup {p} /\ p \notin Past(t)
        BY <1>a, <1>b, <3>2 DEF Past, s
      <4>2. Cardinality(Past(t)') = c + 1
        BY <4>1, PastIsFinite, FS_AddElement
      <4>3. sent_bytes'[t] = sent_bytes[t] + len
        BY <2>1, <3>2 DEF Transmit, IInv, Typed
      <4> HIDE DEF c
      <4>4. c + 1 \in Nat /\ (c + 1) + cross = c + cross + 1 BY <3>1
      <4>5. sent_bytes[t] + len <= ((c + 1) + cross) * Longest
        BY <2>3, <3>1, <4>4, OneMorePassed
      <4> QED BY <4>2, <4>3, <4>5
    <3>3. CASE t # s
      <4>1. Past(t)' = Past(t)
        BY <1>b, <3>3
      <4>2. sent_bytes'[t] = sent_bytes[t]
        BY <2>1, <3>3 DEF Transmit, IInv, Typed
      <4> QED BY <3>1, <4>1, <4>2
    <3> QED BY <3>2, <3>3
  <2>11. \A r : Known(r)' => Known(r) \/ r = h
    <3> SUFFICES ASSUME NEW r, Known(r)' PROVE Known(r) \/ r = h OBVIOUS
    <3>1. ASSUME NEW x \in Packets, NEW i \in 1..Len(hops'[x]), hops'[x][i] = r
          PROVE  Known(r) \/ r = h
      <4>1. CASE x # p
        <5>1. hops'[x] = hops[x] BY <2>6, <4>1 DEF IInv, Typed
        <5> QED BY <3>1, <5>1 DEF Known
      <4>2. CASE x = p
        <5>1. hops'[x] = <<h>> \o hops[p] BY <2>6, <4>2 DEF IInv, Typed
        <5>2. /\ Len(hops'[x]) = Len(hops[p]) + 1 /\ hops'[x][1] = h
              /\ \A j \in 2..(Len(hops[p]) + 1) : hops'[x][j] = hops[p][j - 1]
          BY <2>2, <2>5, <5>1, Pushed
        <5>3. i = 1 \/ (i \in 2..(Len(hops[p]) + 1) /\ i - 1 \in 1..Len(hops[p]))
          BY <2>2, <3>1, <5>2
        <5> QED BY <3>1, <5>2, <5>3 DEF Known
      <4> QED BY <4>1, <4>2
    <3>2. CASE \E t \in Switches : hop_last'[t] # None /\ hop_last'[t] = r
      BY <1>1, <3>2 DEF Known
    <3> QED BY <3>1, <3>2 DEF Known
  <2>12. \A r \in Record : Known(r) => OfThePast(r)'
    BY <1>1, <2>1, <2>3, SendingKeepsPast
  <2>13. OfThePast(h)'
    <3>1. h.tstamp <= now' /\ h.sent <= sent_bytes'[s] /\ h.resets <= resets'[s]
          /\ ~(h.resets < resets'[s])
      BY <2>5, <2>c
    <3>2. Congruent(tx_byte_count'[s] - h.bytes, sent_bytes'[s] - h.sent)
      <4>1. (tx_byte_count'[s] - h.bytes) - (sent_bytes'[s] - h.sent) = 0 * CounterMod
        BY <2>5, <2>c
      <4> QED BY <4>1 DEF Congruent
    <3> QED BY <2>5, <3>1, <3>2 DEF OfThePast, Earlier, Congruent
  <2>14. RecordsOfThePast' BY <2>11, <2>12, <2>13 DEF RecordsOfThePast
  <2>15. RecordsInOrder'
    <3> SUFFICES ASSUME NEW r \in Record, NEW k \in Record, Known(r)', Known(k)',
                        r.switch = k.switch, r.tstamp < k.tstamp
                 PROVE  Earlier(r, k.sent, k.bytes, k.resets) /\ r.sent < k.sent
      BY DEF RecordsInOrder, Earlier, Congruent
    <3>1. OfThePast(r)' /\ OfThePast(k)' BY <2>14 DEF RecordsOfThePast
    <3>2. CASE k = h
      <4>1. Earlier(r, k.sent, k.bytes, k.resets)
        BY <1>1, <2>5, <3>1, <3>2 DEF OfThePast, Earlier, Congruent
      <4>2. r # h /\ r.switch = s
        <5>1. r.tstamp \in Nat /\ h.tstamp \in Nat BY <2>5, Constants DEF Record
        <5> QED BY <2>5, <3>2, <5>1
      <4>3. OfThePast(r) BY <2>11, <4>2 DEF IInv, RecordsOfThePast
      <4>4. r.sent <= sent_bytes[s] BY <4>2, <4>3 DEF OfThePast, Earlier
      <4>5. k.sent = sent_bytes[s] + len
        BY <1>1, <2>1, <2>5, <3>2 DEF Transmit, IInv, Typed
      <4>6. r.sent \in Nat /\ sent_bytes[s] \in Nat BY <1>1, Ports DEF Record
      <4> QED BY <2>3, <4>1, <4>4, <4>5, <4>6
    <3>3. CASE k # h /\ r = h
      <4>1. k.tstamp <= now' /\ r.tstamp = now' BY <2>5, <3>1, <3>3 DEF OfThePast
      <4>2. k.tstamp \in Nat /\ now' \in Nat BY <2>4, Constants DEF Record
      <4> QED BY <4>1, <4>2
    <3>4. CASE k # h /\ r # h
      BY <2>11, <3>4 DEF IInv, RecordsInOrder
    <3> QED BY <3>2, <3>3, <3>4
  <2>16. TrueRate' /\ NeverTooBusy' BY <1>1 DEF IInv, TrueRate, NeverTooBusy
  <2> QED BY <2>9, <2>10, <2>14, <2>15, <2>16 DEF IInv
<1> QED BY <1>2, <1>3

(* The port's past fits the counter, so a difference of two readings that  *)
(* is not negative is what was sent in between.                            *)
LEMMA SentFits == ASSUME IInv PROVE \A s \in Switches : sent_bytes[s] < CounterMod
<1> SUFFICES ASSUME NEW s \in Switches PROVE sent_bytes[s] < CounterMod OBVIOUS
<1> DEFINE c == Cardinality(Past(s))  n == Cardinality(Packets)
<1>1. /\ c \in Nat /\ n \in Nat /\ c <= n /\ cross \in Nat /\ cross <= MaxCross
      /\ sent_bytes[s] \in Nat /\ sent_bytes[s] <= (c + cross) * Longest
      /\ MaxCross \in Nat /\ Longest \in Nat /\ (n + MaxCross) * Longest < CounterMod
      /\ CounterMod \in Nat
  BY PastIsFinite, Ports, Constants DEF IInv, Typed, SentIsPassed
<1> HIDE DEF c, n
<1>2. (c + cross) * Longest <= (n + MaxCross) * Longest
      /\ (c + cross) * Longest \in Int /\ (n + MaxCross) * Longest \in Int
  BY <1>1, Z3
<1> QED BY <1>1, <1>2

LEMMA SampleCounts ==
  ASSUME IInv, NEW last \in Record, NEW h \in Record, Known(last), Known(h),
         last.switch = h.switch, h.tstamp - last.tstamp > 0, h.bytes - last.bytes >= 0
  PROVE  /\ last.resets = h.resets => h.bytes - last.bytes = h.sent - last.sent
         /\ h.bytes - last.bytes <= h.sent - last.sent
         /\ h.sent - last.sent > 0
<1>1. /\ last.tstamp \in Nat /\ h.tstamp \in Nat /\ last.sent \in Nat /\ h.sent \in Nat
      /\ last.resets \in Nat /\ h.resets \in Nat /\ h.switch \in Switches
      /\ last.bytes \in 0..(CounterMod - 1) /\ h.bytes \in 0..(CounterMod - 1)
  BY Constants DEF Record
<1>2. last.tstamp < h.tstamp BY <1>1
<1>3. Earlier(last, h.sent, h.bytes, h.resets) /\ last.sent < h.sent
  BY <1>2 DEF IInv, RecordsInOrder
<1>4. h.sent < CounterMod
  <2>1. h.sent <= sent_bytes[h.switch]
    BY DEF IInv, RecordsOfThePast, OfThePast, Earlier
  <2>2. sent_bytes[h.switch] < CounterMod /\ sent_bytes[h.switch] \in Nat
    BY <1>1, SentFits, Ports
  <2> QED BY <1>1, <2>1, <2>2, Constants
<1> DEFINE x == h.bytes - last.bytes  y == h.sent - last.sent
<1>5. x \in 0..(CounterMod - 1) /\ y \in 0..(CounterMod - 1)
  BY <1>1, <1>3, <1>4, Constants DEF Earlier
<1>6. last.resets = h.resets => x = y
  <2> HAVE last.resets = h.resets
  <2>1. Congruent(x, y) BY <1>3 DEF Earlier
  <2> HIDE DEF x, y
  <2> QED BY <1>5, <2>1, SameRemainder
<1>7. last.resets < h.resets => x <= y BY <1>1, <1>3 DEF Earlier
<1>8. last.resets <= h.resets BY <1>3 DEF Earlier
<1>9. x <= y
  <2>1. x \in Int /\ y \in Int BY <1>1, Constants
  <2> HIDE DEF x, y
  <2> QED BY <1>1, <1>6, <1>7, <1>8, <2>1
<1> QED BY <1>1, <1>3, <1>6, <1>9

(* The records of a stack that the sender looks at,                        *)
LEMMA UsableKnown ==
  ASSUME IInv, NEW p \in Packets, NEW h \in Usable(hops[p])
  PROVE  h \in Record /\ Known(h) /\ h.switch \in Switches /\ h.switch \in LinkBps
<1>1. hops[p] \in Seq(Record) BY DEF IInv, Typed
<1>2. PICK i \in DOMAIN hops[p] : h = hops[p][i] BY DEF Usable, Range
<1>3. i \in 1..Len(hops[p]) BY <1>1
<1>4. h \in Record /\ Known(h) BY <1>1, <1>2, <1>3 DEF Known
<1> QED BY <1>4 DEF Usable, Record

(* and the samples it makes of them.                                       *)
LEMMA UsedSamples ==
  ASSUME IInv, NEW p \in Packets, NEW m \in SamplesOf(Usable(hops[p]))
  PROVE  /\ m.to \in Usable(hops[p]) /\ m = Sample(m.to)
         /\ m.from = hop_last[m.to.switch] /\ m.from # None /\ m.from \in Record
         /\ m.db \in Nat /\ m.dt \in Nat \ {0} /\ m.dt <= MaxTime
         /\ m.db <= m.to.sent - m.from.sent
         /\ m.from.resets = m.to.resets => m.db = m.to.sent - m.from.sent /\ m.db > 0
<1>1. PICK h \in Usable(hops[p]) :
        hop_last[h.switch] # None /\ m = Sample(h) /\ Measured(m)
  BY DEF SamplesOf
<1> DEFINE last == hop_last[h.switch]
<1>2. /\ m.db = h.bytes - last.bytes /\ m.dt = h.tstamp - last.tstamp
      /\ m.from = last /\ m.to = h
  BY <1>1 DEF Sample
<1>3. h \in Record /\ Known(h) /\ h.switch \in Switches BY UsableKnown
<1>4. last \in Record /\ last.switch = h.switch /\ Known(last)
  BY <1>1, <1>3 DEF IInv, Typed, Known
<1>5. h.tstamp - last.tstamp > 0 /\ h.bytes - last.bytes >= 0
  BY <1>1, <1>2 DEF Measured
<1> HIDE DEF last
<1>6. /\ last.resets = h.resets => h.bytes - last.bytes = h.sent - last.sent
      /\ h.bytes - last.bytes <= h.sent - last.sent
      /\ h.sent - last.sent > 0
  BY <1>3, <1>4, <1>5, SampleCounts
<1>7. /\ h.tstamp \in 0..MaxTime /\ last.tstamp \in 0..MaxTime
      /\ h.bytes \in Int /\ last.bytes \in Int
  BY <1>3, <1>4, Constants DEF Record
<1>8. m.db \in Nat /\ m.dt \in Nat \ {0} /\ m.dt <= MaxTime
  BY <1>2, <1>5, <1>7, Constants
<1> QED BY <1>1, <1>2, <1>4, <1>6, <1>8 DEF last

LEMMA RecvAckInv == ASSUME IInv, NEW p \in Packets, RecvAck(p) PROVE IInv'
<1> DEFINE seen == Usable(hops[p])
<1>1. /\ hop_count' = [hop_count EXCEPT ![p] = Gone]
      /\ hops' = [hops EXCEPT ![p] = << >>]
      /\ UNCHANGED <<now, tx_byte_count, sent_bytes, cross, resets>>
      /\ samples' = SamplesOf(seen) /\ hop_last' = Remembered(seen)
  BY DEF RecvAck, ComputeU, switch
<1>2. SentIsPassed' /\ hop_count' \in [Packets -> 0..Gone] BY <1>1, GoneIsPast
<1>3. hops' \in [Packets -> Seq(Record)] BY <1>1 DEF IInv, Typed
<1>4. ASSUME NEW h \in seen PROVE h \in Record /\ Known(h)
  BY UsableKnown
<1> HIDE DEF seen
<1>5. ASSUME NEW s \in Switches, hop_last'[s] # None
      PROVE  /\ hop_last'[s] \in Record /\ hop_last'[s].switch = s
             /\ Known(hop_last'[s])
  <2>1. hop_last'[s] = IF \E h \in seen : h.switch = s
                         THEN CHOOSE h \in seen : h.switch = s ELSE hop_last[s]
    BY <1>1 DEF Remembered
  <2>2. CASE \E h \in seen : h.switch = s
    <3>1. hop_last'[s] \in seen /\ hop_last'[s].switch = s BY <2>1, <2>2
    <3> QED BY <1>4, <3>1
  <2>3. CASE ~ \E h \in seen : h.switch = s
    <3>1. hop_last'[s] = hop_last[s] BY <2>1, <2>3
    <3> QED BY <1>5, <3>1 DEF IInv, Typed, Known
  <2> QED BY <2>2, <2>3
<1>6. Typed'
  <2>1. DOMAIN hop_last' = Switches BY <1>1 DEF Remembered
  <2> QED BY <1>1, <1>2, <1>3, <1>5, <2>1 DEF IInv, Typed
<1>7. \A r \in Record : Known(r)' => Known(r)
  <2>1. \A x \in Packets : hops'[x] = IF x = p THEN << >> ELSE hops[x]
    BY <1>1 DEF IInv, Typed
  <2> SUFFICES ASSUME NEW r \in Record, Known(r)' PROVE Known(r) OBVIOUS
  <2>2. CASE \E x \in Packets : \E i \in 1..Len(hops'[x]) : hops'[x][i] = r
    BY <2>1, <2>2 DEF Known
  <2>3. CASE \E s \in Switches : hop_last'[s] # None /\ hop_last'[s] = r
    BY <1>5, <2>3
  <2> QED BY <2>2, <2>3 DEF Known
<1>8. RecordsOfThePast' /\ RecordsInOrder' BY <1>1, <1>7, FewerRecords
<1>9. ASSUME NEW m \in samples'
      PROVE  /\ m.from.resets = m.to.resets => m.db = m.to.sent - m.from.sent
             /\ m.db <= m.to.sent - m.from.sent
  BY <1>1, <1>9, UsedSamples DEF seen
<1>10. TrueRate' /\ NeverTooBusy' BY <1>9 DEF TrueRate, NeverTooBusy
<1> QED BY <1>2, <1>6, <1>8, <1>10 DEF IInv

LEMMA NextInv == IInv /\ [Next]_vars => IInv'
<1> SUFFICES ASSUME IInv, [Next]_vars PROVE IInv' OBVIOUS
<1>1. CASE UNCHANGED vars
  <2>1. UNCHANGED <<now, tx_byte_count, sent_bytes, cross, resets, hop_count, hops,
                    hop_last, samples>>
    BY <1>1 DEF vars, switch, sender
  <2>2. Typed' BY <2>1 DEF IInv, Typed
  <2>3. SentIsPassed' BY <2>1 DEF IInv, SentIsPassed, Past
  <2>4. \A r \in Record : Known(r)' => Known(r) BY <2>1 DEF Known
  <2>5. RecordsOfThePast' /\ RecordsInOrder' BY <2>1, <2>4, FewerRecords
  <2>6. TrueRate' /\ NeverTooBusy' BY <2>1 DEF IInv, TrueRate, NeverTooBusy
  <2> QED BY <2>2, <2>3, <2>5, <2>6 DEF IInv
<1>2. CASE \E s \in ResetAt : Reset(s)
  BY <1>2, ResetInv, TelemetryAssumption DEF TelemetryAssumption
<1> QED
  BY <1>1, <1>2, EgressInv, LoseInv, RecvAckInv, CrossTrafficInv, NextTrialInv DEF Next

LEMMA Inductive == Spec => []IInv
BY InitInv, NextInv, PTL DEF Spec

(* The bytes a sample counts are what left the port between its records    *)
(* (_compute_u), whatever was lost, overtaken or wrapped.                  *)
THEOREM SamplesAreTrue == Spec => []TrueRate
<1>1. IInv => TrueRate BY DEF IInv
<1> QED BY <1>1, Inductive, PTL

(* No reset of the counter makes a port look busier than it is.            *)
THEOREM SamplesNeverTooLarge == Spec => []NeverTooBusy
<1>1. IInv => NeverTooBusy BY DEF IInv
<1> QED BY <1>1, Inductive, PTL

-----------------------------------------------------------------------------

LEMMA Least ==
  ASSUME NEW n \in Nat, NEW m \in Nat
  PROVE  Min({n, m}) = IF n <= m THEN n ELSE m
<1>1. \E x \in {n, m} : \A y \in {n, m} : x <= y OBVIOUS
<1>2. Min({n, m}) \in {n, m} /\ \A y \in {n, m} : Min({n, m}) <= y BY <1>1 DEF Min
<1> QED BY <1>2

(* The stack of one packet.                                                *)
IsPath(stack, passed) ==
  /\ Len(stack) = Min({passed, MaxHops})
  /\ \A i \in 1..Len(stack) : stack[i].switch = Len(stack) - i + 1

LEMMA EgressKeepsPath ==
  ASSUME IInv, StackIsPath, NEW p \in Packets, Egress(p)
  PROVE  IsPath(hops'[p], hop_count'[p])
<1> DEFINE n == hop_count[p]  s == n + 1  l == Len(hops[p])
<1>1. /\ s \in Switches /\ n \in Nat /\ hop_count'[p] = n + 1 /\ n # Gone
      /\ MaxHops \in Nat
  BY Constants DEF Egress, IInv, Typed, Switches, Gone
<1>2. hops[p] \in Seq(Record) /\ l \in Nat BY DEF IInv, Typed
<1>3. /\ l = IF n <= MaxHops THEN n ELSE MaxHops
      /\ \A i \in 1..l : hops[p][i].switch = l - i + 1
  BY <1>1, Least DEF StackIsPath
<1>4. CASE Full(hops[p])
  <2>1. hops'[p] = hops[p] BY <1>4 DEF Egress
  <2>2. l = MaxHops /\ MaxHops <= n BY <1>1, <1>3, <1>4 DEF Full
  <2>3. Min({n + 1, MaxHops}) = l BY <1>1, <2>2, Least
  <2> QED BY <1>1, <1>3, <2>1, <2>3 DEF IsPath
<1>5. CASE ~Full(hops[p])
  <2>1. l < MaxHops /\ l = n BY <1>1, <1>2, <1>3, <1>5 DEF Full
  <2>2. PICK q \in QDepths : hops' = [hops EXCEPT ![p] = <<Hop(s, q)>> \o @]
    BY <1>5 DEF Egress
  <2>3. PICK h : h = Hop(s, q) OBVIOUS
  <2>4. h.switch = s BY <2>3 DEF Hop
  <2>5. hops'[p] = <<h>> \o hops[p] BY <2>2, <2>3 DEF IInv, Typed
  <2>6. hops[p] \in Seq(Record \cup {h}) BY <1>2
  <2>7. /\ Len(hops'[p]) = l + 1 /\ hops'[p][1] = h
        /\ \A i \in 2..(l + 1) : hops'[p][i] = hops[p][i - 1]
    BY <2>5, <2>6, Pushed
  <2>8. Min({n + 1, MaxHops}) = l + 1 BY <1>1, <2>1, Least
  <2> HIDE DEF n, l
  <2>9. ASSUME NEW i \in 1..(l + 1)
        PROVE  hops'[p][i].switch = (l + 1) - i + 1
    <3>1. CASE i = 1 BY <1>1, <2>1, <2>4, <2>7, <3>1
    <3>2. CASE i # 1
      <4>1. i \in 2..(l + 1) /\ i - 1 \in 1..l /\ l - (i - 1) + 1 = (l + 1) - i + 1
        BY <1>1, <2>1, <3>2
      <4>2. hops[p][i - 1].switch = l - (i - 1) + 1 BY <1>3, <4>1
      <4> QED BY <2>7, <4>1, <4>2
    <3> QED BY <3>1, <3>2
  <2> QED BY <1>1, <2>7, <2>8, <2>9 DEF IsPath
<1> QED BY <1>4, <1>5

LEMMA StackInv == IInv /\ StackIsPath /\ [Next]_vars => StackIsPath'
<1> SUFFICES ASSUME IInv, StackIsPath, [Next]_vars, NEW p \in Packets,
                    hop_count'[p] # Gone
             PROVE  IsPath(hops'[p], hop_count'[p])
  BY DEF StackIsPath, IsPath
<1>1. CASE hop_count'[p] = hop_count[p] /\ hops'[p] = hops[p]
  BY <1>1 DEF StackIsPath, IsPath
<1>2. CASE Egress(p) BY <1>2, EgressKeepsPath
<1>3. ASSUME NEW x \in Packets, Egress(x) \/ Lose(x) \/ RecvAck(x), x # p
      PROVE  hop_count'[p] = hop_count[p] /\ hops'[p] = hops[p]
  BY <1>3 DEF Egress, Lose, RecvAck, IInv, Typed
<1>4. ~Lose(p) /\ ~RecvAck(p)
  BY DEF Lose, RecvAck, IInv, Typed
<1>5. CASE UNCHANGED <<hop_count, hops>> BY <1>1, <1>5
<1> QED BY <1>1, <1>2, <1>3, <1>4, <1>5 DEF Next, vars, CrossTraffic, Reset, NextTrial

(* A packet carries the records of the switches it passed, in order.       *)
THEOREM StacksArePaths == Spec => []StackIsPath
<1>1. Init => StackIsPath
  <2> SUFFICES ASSUME Init, NEW p \in Packets
               PROVE  IsPath(hops[p], hop_count[p])
    BY DEF StackIsPath, IsPath
  <2>1. hops[p] = << >> /\ hop_count[p] = 0 /\ Min({0, MaxHops}) = 0
    BY Least, Constants DEF Init
  <2> QED BY <2>1 DEF IsPath
<1> QED BY <1>1, StackInv, Inductive, PTL DEF Spec

-----------------------------------------------------------------------------

(* What the sender has counted of a hop: nothing before a first record,    *)
(* and then, as long as no older record came, no more than left the port   *)
(* between the first record and the last.                                  *)
CountsInOrder ==
  /\ DOMAIN first = Switches /\ counted \in [Switches -> Nat]
  /\ u \in Nat /\ reordered \subseteq LinkBps
  /\ \A s \in Switches :
       /\ (first[s] = None) = (hop_last[s] = None)
       /\ first[s] # None => first[s] \in Record
       /\ hop_last[s] = None => counted[s] = 0
       /\ s \notin reordered /\ hop_last[s] # None =>
            counted[s] <= hop_last[s].sent - first[s].sent

LEMMA RecordIsNotNone == \A r \in Record : r # None
<1>1. \A r \in Record : DOMAIN r # {} BY DEF Record
<1>2. DOMAIN None = {} BY DEF None
<1> QED BY <1>1, <1>2

(* A stack that has come back names no switch twice.                       *)
LEMMA OneRecordPerHop ==
  ASSUME IInv, StackIsPath, NEW p \in Packets, hop_count[p] # Gone,
         NEW h \in Usable(hops[p]), NEW k \in Usable(hops[p]), h.switch = k.switch
  PROVE  h = k
<1>1. hops[p] \in Seq(Record) /\ Len(hops[p]) \in Nat BY DEF IInv, Typed
<1>2. PICK i \in 1..Len(hops[p]), j \in 1..Len(hops[p]) : h = hops[p][i] /\ k = hops[p][j]
  BY <1>1 DEF Usable, Range
<1>3. \A a \in 1..Len(hops[p]) : hops[p][a].switch = Len(hops[p]) - a + 1
  BY DEF StackIsPath
<1>4. h.switch = Len(hops[p]) - i + 1 /\ k.switch = Len(hops[p]) - j + 1
  BY <1>2, <1>3
<1> DEFINE l == Len(hops[p])
<1>5. l \in Nat /\ l - i + 1 = l - j + 1 BY <1>1, <1>4
<1> HIDE DEF l
<1>6. i = j BY <1>5
<1> QED BY <1>2, <1>6

(* An ACK's samples add at most one number to what is counted of a hop.    *)
LEMMA CountedGrows ==
  ASSUME IInv, StackIsPath, NEW p \in Packets, RecvAck(p), counted \in [Switches -> Nat],
         NEW s \in Switches
  PROVE  \/ counted'[s] = counted[s]
         \/ \E m \in samples' : m.to.switch = s /\ counted'[s] = counted[s] + m.db
<1> DEFINE used == SamplesOf(Usable(hops[p]))
           here == {n \in used : n.to.switch = s}
           db == {m.db : m \in here}
<1>1. /\ samples' = used /\ counted'[s] = counted[s] + SumSet(db)
      /\ hop_count[p] # Gone
  BY Constants DEF RecvAck, ComputeU, Gone
<1>2. CASE here = {}
  <2>1. db = {} BY <1>2
  <2>2. SumSet({}) = 0 BY SumOfOne
  <2>3. SumSet(db) = 0
    <3> HIDE DEF db
    <3> QED BY <2>1, <2>2
  <2> QED BY <1>1, <2>3
<1>3. CASE here # {}
  <2>1. PICK m \in here : TRUE BY <1>3
  <2>2. m.db \in Nat BY UsedSamples
  <2>3. ASSUME NEW n \in here PROVE n = m
    <3>1. n.to = m.to BY <1>1, <2>3, UsedSamples, OneRecordPerHop
    <3>2. n = Sample(n.to) /\ m = Sample(m.to) BY UsedSamples
    <3> QED BY <3>1, <3>2
  <2>4. here = {m} BY <2>1, <2>3
  <2>5. db = {m.db}
    <3> HIDE DEF here
    <3> QED BY <2>4
  <2>6. SumSet({m.db}) = m.db BY <2>2, SumOfOne
  <2>7. SumSet(db) = m.db
    <3> HIDE DEF db
    <3> QED BY <2>5, <2>6
  <2> QED BY <1>1, <2>1, <2>7
<1> QED BY <1>2, <1>3

LEMMA RecvAckCounts ==
  ASSUME IInv, StackIsPath, CountsInOrder, NEW p \in Packets, RecvAck(p)
  PROVE  /\ DOMAIN first' = Switches /\ counted' \in [Switches -> Nat]
         /\ reordered' \subseteq LinkBps
         /\ \A s \in Switches :
              /\ (first'[s] = None) = (hop_last'[s] = None)
              /\ first'[s] # None => first'[s] \in Record
              /\ hop_last'[s] = None => counted'[s] = 0
              /\ s \notin reordered' /\ hop_last'[s] # None =>
                   counted'[s] <= hop_last'[s].sent - first'[s].sent
<1> DEFINE seen == Usable(hops[p])
<1>1. /\ samples' = SamplesOf(seen) /\ hop_last' = Remembered(seen)
      /\ first' = [s \in Switches |-> IF first[s] = None THEN hop_last'[s] ELSE first[s]]
      /\ reordered' = reordered \cup
           {h.switch : h \in {k \in seen : hop_last[k.switch] # None
                                /\ k.sent < hop_last[k.switch].sent}}
      /\ hop_count[p] # Gone
  BY Constants DEF RecvAck, ComputeU, Gone
<1>2. IInv' BY RecvAckInv
<1>3. reordered' \subseteq LinkBps BY <1>1, UsableKnown DEF CountsInOrder
<1>4. ASSUME NEW s \in Switches
      PROVE  /\ counted'[s] \in Nat
             /\ (first'[s] = None) = (hop_last'[s] = None)
             /\ first'[s] # None => first'[s] \in Record
             /\ hop_last'[s] = None => counted'[s] = 0
             /\ s \notin reordered' /\ hop_last'[s] # None =>
                  counted'[s] <= hop_last'[s].sent - first'[s].sent
  <2>1. /\ counted[s] \in Nat
        /\ hop_last[s] # None => hop_last[s] \in Record /\ hop_last[s].switch = s
        /\ hop_last'[s] # None => hop_last'[s] \in Record
        /\ (first[s] = None) = (hop_last[s] = None)
        /\ first[s] # None => first[s] \in Record
        /\ hop_last[s] = None => counted[s] = 0
        /\ first'[s] = IF first[s] = None THEN hop_last'[s] ELSE first[s]
        /\ hop_last'[s] = IF \E h \in seen : h.switch = s
                            THEN CHOOSE h \in seen : h.switch = s ELSE hop_last[s]
    BY <1>1, <1>2 DEF CountsInOrder, IInv, Typed, Remembered
  <2>2. ASSUME NEW m \in samples', m.to.switch = s
        PROVE  /\ m.db \in Nat /\ hop_last[s] # None /\ hop_last'[s] = m.to
               /\ m.db <= hop_last'[s].sent - hop_last[s].sent
    <3>1. /\ m.to \in seen /\ m.db \in Nat /\ m.from = hop_last[s] /\ m.from # None
          /\ m.db <= m.to.sent - m.from.sent
      BY <1>1, <2>2, UsedSamples
    <3>2. hop_last'[s] \in seen /\ hop_last'[s].switch = s BY <2>1, <2>2, <3>1
    <3>3. hop_last'[s] = m.to BY <1>1, <2>2, <3>1, <3>2, OneRecordPerHop
    <3> QED BY <3>1, <3>3
  <2>3. counted'[s] \in Nat BY <2>1, <2>2, CountedGrows DEF CountsInOrder
  <2>4. CASE hop_last[s] = None
    <3>1. counted'[s] = 0 /\ first'[s] = hop_last'[s]
      BY <2>1, <2>2, <2>4, CountedGrows DEF CountsInOrder
    <3>2. hop_last'[s] # None => hop_last'[s].sent - hop_last'[s].sent = 0
      BY <2>1 DEF Record
    <3>3. /\ (first'[s] = None) = (hop_last'[s] = None)
          /\ first'[s] # None => first'[s] \in Record
      BY <2>1, <3>1
    <3>4. hop_last'[s] # None => counted'[s] <= hop_last'[s].sent - first'[s].sent
      BY <3>1, <3>2
    <3> QED BY <2>3, <3>1, <3>3, <3>4
  <2>5. CASE hop_last[s] # None
    <3>1. first'[s] = first[s] /\ first[s] \in Record BY <2>1, <2>5
    <3>2. \/ hop_last'[s] = hop_last[s]
          \/ hop_last'[s] \in seen /\ hop_last'[s].switch = s
      BY <2>1
    <3>3. hop_last'[s] # None /\ hop_last'[s] \in Record
      BY <2>1, <2>5, <3>2, UsableKnown, RecordIsNotNone
    <3>4. ASSUME s \notin reordered'
          PROVE  counted'[s] <= hop_last'[s].sent - first'[s].sent
      <4>1. counted[s] <= hop_last[s].sent - first[s].sent
        BY <1>1, <2>5, <3>4 DEF CountsInOrder
      <4>2. hop_last[s].sent <= hop_last'[s].sent
        <5>1. hop_last[s].sent \in Nat /\ hop_last'[s].sent \in Nat
          BY <2>1, <2>5, <3>3 DEF Record
        <5> QED BY <1>1, <2>5, <3>2, <3>4, <5>1
      <4>3. /\ hop_last[s].sent \in Nat /\ hop_last'[s].sent \in Nat
            /\ first[s].sent \in Nat
        BY <2>1, <2>5, <3>1, <3>3 DEF Record
      <4>4. CASE counted'[s] = counted[s] BY <2>1, <3>1, <4>1, <4>2, <4>3, <4>4
      <4>5. CASE \E m \in samples' : m.to.switch = s /\ counted'[s] = counted[s] + m.db
        BY <2>1, <2>2, <3>1, <4>1, <4>3, <4>5
      <4> QED BY <4>4, <4>5, CountedGrows DEF CountsInOrder
    <3> QED BY <2>3, <2>5, <3>1, <3>3, <3>4, RecordIsNotNone
  <2> QED BY <2>4, <2>5
<1>5. counted' \in [Switches -> Nat]
  <2>1. counted' = [s \in Switches |-> counted'[s]] BY DEF RecvAck, ComputeU
  <2> QED BY <1>4, <2>1
<1> QED BY <1>1, <1>3, <1>4, <1>5

(* u is the greatest of the hops' terms, each of them above 0 when bytes   *)
(* were sent.                                                              *)
LEMMA RecvAckMeasures ==
  ASSUME IInv, NEW p \in Packets, RecvAck(p)
  PROVE  u' \in Nat /\ EverySampleCounts'
<1> DEFINE seen == Usable(hops[p])
           term == [m \in samples' |-> UOf(m)]
           all == {0} \cup {UOf(m) : m \in samples'}
<1>1. samples' = SamplesOf(seen) /\ u' = Max(all)
  BY DEF RecvAck, ComputeU
<1>2. ASSUME NEW m \in samples'
      PROVE  UOf(m) \in Nat /\ (m.from.resets = m.to.resets => UOf(m) > 0)
  <2>1. /\ m.to \in Record /\ m.db \in Nat /\ m.dt \in Nat \ {0} /\ m.dt <= MaxTime
        /\ m.from.resets = m.to.resets => m.db > 0
    BY <1>1, UsedSamples, UsableKnown
  <2>2. m.to.qdepth \in Nat /\ QUnit \in Nat /\ RateUnit \in Nat /\ m.dt <= RateUnit
    <3>1. /\ QDepths \subseteq Nat /\ QUnit \in Nat /\ RateUnit \in Nat
          /\ MaxTime \in Nat /\ MaxTime <= RateUnit
      BY TelemetryAssumption DEF TelemetryAssumption
    <3>2. m.to.qdepth \in QDepths BY <2>1 DEF Record
    <3>3. \A t \in Nat : t <= MaxTime => t <= RateUnit BY <3>1
    <3>4. m.dt <= RateUnit
      <4>1. m.dt \in Nat /\ m.dt <= MaxTime BY <2>1
      <4> QED BY <3>3, <4>1
    <3> QED BY <3>1, <3>2, <3>4
  <2>3. m.to.qdepth * QUnit \in Nat BY <2>2, Z3
  <2>4. /\ (m.db * RateUnit) \div m.dt \in Nat
        /\ m.db > 0 => (m.db * RateUnit) \div m.dt > 0
    BY <2>1, <2>2, RateIsPositive
  <2> QED BY <2>1, <2>3, <2>4 DEF UOf
<1>3. IsFiniteSet(all)
  <2>1. IsFiniteSet(seen)
    <3>1. Len(hops[p]) \in Nat /\ DOMAIN hops[p] = 1..Len(hops[p]) BY DEF IInv, Typed
    <3>2. IsFiniteSet(DOMAIN hops[p]) BY <3>1, FS_Interval
    <3>3. hops[p] \in Surjection(DOMAIN hops[p], Range(hops[p]))
      BY DEF Surjection, Range, IInv, Typed
    <3>4. IsFiniteSet(Range(hops[p])) BY <3>2, <3>3, FS_Surjection
    <3>5. seen \in SUBSET Range(hops[p]) BY DEF Usable
    <3> QED BY <3>4, <3>5, FS_Subset
  <2>2. IsFiniteSet(samples')
    <3> DEFINE of == [h \in seen |-> Sample(h)]
               every == {of[h] : h \in seen}
    <3>1. of \in Surjection(seen, every) BY DEF Surjection
    <3>2. IsFiniteSet(every)
      <4> HIDE DEF of, every, seen
      <4> QED BY <2>1, <3>1, FS_Surjection
    <3>3. samples' \in SUBSET every BY <1>1 DEF SamplesOf
    <3> HIDE DEF every
    <3> QED BY <3>2, <3>3, FS_Subset
  <2>3. term \in Surjection(samples', {UOf(m) : m \in samples'}) BY DEF Surjection
  <2>4. IsFiniteSet({UOf(m) : m \in samples'}) BY <2>2, <2>3, FS_Surjection
  <2> QED BY <2>4, FS_Singleton, FS_Union
<1>4. all \subseteq Nat /\ all # {} BY <1>2
<1>5. Max(all) \in all /\ \A y \in all : y <= Max(all)
  <2> HIDE DEF all
  <2> QED BY <1>3, <1>4, Greatest
<1>6. u' > 0 => samples' # {} BY <1>1, <1>5
<1>7. ASSUME NEW m \in samples', m.from.resets = m.to.resets PROVE u' > 0
  <2>1. UOf(m) \in Nat /\ UOf(m) > 0 BY <1>2, <1>7
  <2>2. UOf(m) <= u' BY <1>1, <1>5
  <2>3. u' \in Nat BY <1>1, <1>4, <1>5
  <2> QED BY <2>1, <2>2, <2>3
<1>8. u' \in Nat BY <1>1, <1>4, <1>5
<1> QED BY <1>6, <1>7, <1>8 DEF EverySampleCounts

(* All else leaves the sender alone, but for the trial that starts afresh. *)
Measures == CountsInOrder /\ EverySampleCounts

LEMMA MeasuresStay == IInv /\ StackIsPath /\ Measures /\ [Next]_vars => Measures'
<1> SUFFICES ASSUME IInv, StackIsPath, Measures, [Next]_vars PROVE Measures'
  OBVIOUS
<1>1. CASE UNCHANGED sender
  BY <1>1 DEF sender, Measures, CountsInOrder, EverySampleCounts
<1>2. CASE NextTrial
  <2>1. /\ hop_last' = NoRecord /\ first' = NoRecord /\ counted' = NoBytes
        /\ u' = 0 /\ samples' = {} /\ reordered' = {}
    BY <1>2 DEF NextTrial
  <2> QED BY <2>1 DEF Measures, CountsInOrder, EverySampleCounts, NoRecord, NoBytes
<1>3. ASSUME NEW p \in Packets, RecvAck(p) PROVE Measures'
  BY <1>3, RecvAckCounts, RecvAckMeasures DEF Measures, CountsInOrder
<1> QED BY <1>1, <1>2, <1>3 DEF Next, Egress, Lose, CrossTraffic, Reset, vars

LEMMA MeasuresHold == Spec => [](IInv /\ StackIsPath /\ Measures)
<1>1. Init => Measures
  BY DEF Init, Measures, CountsInOrder, EverySampleCounts, NoRecord, NoBytes
<1> QED BY <1>1, MeasuresStay, Inductive, StacksArePaths, PTL DEF Spec

(* The samples of a hop whose records came in order add up to no more than *)
(* what left the port between the first of them and the last.              *)
THEOREM NoByteIsCountedTwice == Spec => []NoByteCountedTwice
<1>1. IInv /\ Measures => NoByteCountedTwice
  <2> SUFFICES ASSUME Measures, NEW s \in Switches, s \notin reordered, counted[s] > 0
               PROVE  counted[s] <= hop_last[s].sent - first[s].sent
    BY DEF NoByteCountedTwice
  <2>1. hop_last[s] # None BY DEF Measures, CountsInOrder
  <2> QED BY <2>1 DEF Measures, CountsInOrder
<1> QED BY <1>1, MeasuresHold, PTL

(* u is 0 only for want of a hop that could be measured: what the callers  *)
(* of _compute_u take it for.                                              *)
THEOREM MeasuredHopsCount == Spec => []EverySampleCounts
<1>1. Measures => EverySampleCounts BY DEF Measures
<1> QED BY <1>1, MeasuresHold, PTL

(* A packet that is gone carries nothing.                                  *)
LEMMA GoneIsEmpty == Spec => [](\A p \in Packets : hop_count[p] = Gone => hops[p] = << >>)
<1> DEFINE Inv == \A p \in Packets : hop_count[p] = Gone => hops[p] = << >>
<1>1. Init => Inv BY DEF Init
<1>2. IInv /\ Inv /\ [Next]_vars => Inv'
  <2> SUFFICES ASSUME IInv, Inv, [Next]_vars, NEW p \in Packets, hop_count'[p] = Gone
               PROVE  hops'[p] = << >>
    OBVIOUS
  <2>1. CASE hop_count'[p] = hop_count[p] /\ hops'[p] = hops[p] BY <2>1
  <2>2. ASSUME NEW x \in Packets, Egress(x) PROVE hops'[p] = << >>
    <3>1. x # p
      <4>1. hop_count'[x] \in Switches BY <2>2 DEF Egress, IInv, Typed
      <4> QED BY <4>1, Constants
    <3>2. hop_count'[p] = hop_count[p] /\ hops'[p] = hops[p]
      BY <2>2, <3>1 DEF Egress, IInv, Typed
    <3> QED BY <2>1, <3>2
  <2>3. ASSUME NEW x \in Packets, Lose(x) \/ RecvAck(x) PROVE hops'[p] = << >>
    <3>1. hops'[p] = (IF p = x THEN << >> ELSE hops[p])
          /\ hop_count'[p] = (IF p = x THEN Gone ELSE hop_count[p])
      BY <2>3 DEF Lose, RecvAck, IInv, Typed
    <3> QED BY <2>1, <3>1
  <2>4. CASE UNCHANGED <<hop_count, hops>> BY <2>1, <2>4
  <2> QED BY <2>2, <2>3, <2>4 DEF Next, CrossTraffic, Reset, NextTrial, vars
<1> QED BY <1>1, <1>2, Inductive, PTL DEF Spec

(* Every variable has its type, the sender's and the history included.     *)
THEOREM TypesHold == Spec => []TypeOK
<1> DEFINE Empty == \A p \in Packets : hop_count[p] = Gone => hops[p] = << >>
<1>1. IInv /\ StackIsPath /\ Measures /\ Empty => TypeOK
  <2> SUFFICES ASSUME IInv, Measures, StackIsPath, Empty PROVE TypeOK
    OBVIOUS
  <2>1. ASSUME NEW p \in Packets
        PROVE  Len(hops[p]) <= MaxHops /\ Range(hops[p]) \subseteq Record
    <3>1. hops[p] \in Seq(Record) /\ MaxHops \in Nat BY Constants DEF IInv, Typed
    <3>2. Range(hops[p]) \subseteq Record BY <3>1 DEF Range
    <3>3. CASE hop_count[p] = Gone BY <3>1, <3>2, <3>3
    <3>4. CASE hop_count[p] # Gone
      <4>1. hop_count[p] \in Nat BY Constants DEF IInv, Typed
      <4>2. Len(hops[p]) = Min({hop_count[p], MaxHops}) BY <3>4 DEF StackIsPath
      <4> QED BY <3>1, <3>2, <4>1, <4>2, Least
    <3> QED BY <3>3, <3>4
  <2> QED BY <2>1 DEF TypeOK, IInv, Typed, Measures, CountsInOrder
<1>2. Spec => []Empty BY GoneIsEmpty
<1> QED BY <1>1, <1>2, MeasuresHold, PTL

=============================================================================
