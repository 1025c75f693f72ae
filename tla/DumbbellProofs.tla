--------------------------- MODULE DumbbellProofs ---------------------------
(***************************************************************************)
(* The dumbbell, for any number of senders: what is in a frame, where it   *)
(* can be and what an ACK says when it is back, whatever the loader has    *)
(* got done, whatever is dropped and however deep the queues are.          *)
(*                                                                         *)
(* First the payloads: where their parts begin, and that the parser undoes *)
(* the deparser.  Then the tables, and which of them the loader may have   *)
(* written.  Then what the hosts put into a payload and read from it.  At  *)
(* last the invariant of the frame on its way, and the theorems.           *)
(***************************************************************************)
EXTENDS Dumbbell, SequenceTheorems, WellFoundedInduction, TLAPS

(* A set of numbers that is not empty has a least element.                 *)
LEMMA LeastElement ==
  ASSUME NEW S, S \subseteq Nat, S # {}
  PROVE  \E m \in S : \A k \in S : m <= k
<1>1. PICK m \in S : \A k \in S : ~(<<k, m>> \in OpToRel(<, Nat))
  BY NatLessThanWellFounded, WFMin
<1>2. ASSUME NEW i \in Nat, NEW j \in Nat, i < j
      PROVE  <<i, j>> \in OpToRel(<, Nat)
  <2>1. <<i, j>> \in Nat \X Nat OBVIOUS
  <2>2. <<i, j>>[1] < <<i, j>>[2] BY <1>2
  <2> QED BY <2>1, <2>2, Zenon DEF OpToRel
<1>3. \A k \in S : ~(k < m) BY <1>1, <1>2, Zenon
<1> QED BY <1>3

(* The steps of a sum from 0 to n, one after the other.                    *)
SumUpTo(buf, n, f) ==
  /\ f \in [0..n -> Nat] /\ f[0] = 0
  /\ \A i \in 1..n : f[i] = f[i - 1] + buf[i].bytes

(* Every part takes up room: no two of them begin at the same offset.      *)
Sized(S) == \A part \in S : part.bytes \in Nat \ {0}

(* There is such a sum of the sizes of any payload.                        *)
LEMMA SumExists ==
  ASSUME NEW S, Sized(S), NEW buf \in Seq(S)
  PROVE  \E f : SumUpTo(buf, Len(buf), f)
<1> DEFINE Bad == {n \in 0..Len(buf) : ~\E f : SumUpTo(buf, n, f)}
<1>1. SUFFICES ASSUME Bad # {} PROVE FALSE BY LenProperties
<1>2. Len(buf) \in Nat /\ \A i \in 1..Len(buf) : buf[i].bytes \in Nat
  BY ElementOfSeq, LenProperties DEF Sized
<1>3. Bad \subseteq Nat BY <1>2
<1>4. \E m \in Bad : \A k \in Bad : m <= k
  <2> HIDE DEF Bad
  <2> QED BY <1>1, <1>3, LeastElement
<1>5. PICK n \in Bad : \A k \in Bad : n <= k
  BY <1>4
<1>6. n # 0
  <2>1. SumUpTo(buf, 0, [i \in 0..0 |-> 0]) BY DEF SumUpTo
  <2> QED BY <2>1
<1>7. PICK f : SumUpTo(buf, n - 1, f)
  <2>1. n - 1 \in 0..Len(buf) /\ n - 1 \notin Bad
      <3>1. n \in 0..Len(buf) OBVIOUS
      <3>2. n - 1 \in 0..Len(buf) BY <1>2, <1>6, <3>1
      <3>3. n - 1 \notin Bad
        <4> HIDE DEF Bad
        <4> QED BY <1>2, <1>5, <3>1
      <3> QED BY <3>2, <3>3
  <2> QED BY <2>1
<1> DEFINE g == [i \in 0..n |-> IF i = n THEN f[n - 1] + buf[n].bytes ELSE f[i]]
<1>8. SumUpTo(buf, n, g)
  <2>1. n \in 1..Len(buf) BY <1>2, <1>5, <1>6
  <2>2. g \in [0..n -> Nat] BY <1>2, <1>7, <2>1 DEF SumUpTo
  <2>3. g[0] = 0 BY <1>7, <2>1 DEF SumUpTo
  <2>4. ASSUME NEW i \in 1..n PROVE g[i] = g[i - 1] + buf[i].bytes
    BY <1>2, <1>7, <2>1 DEF SumUpTo
  <2> QED BY <2>2, <2>3, <2>4 DEF SumUpTo
<1> QED BY <1>8

(* Bytes computes that sum.                                                *)
LEMMA BytesIsSum ==
  ASSUME NEW S, Sized(S), NEW buf \in Seq(S), NEW f, SumUpTo(buf, Len(buf), f)
  PROVE  Bytes(buf) = f[Len(buf)]
<1> DEFINE Body(h) == [i \in 0..Len(buf) |-> IF i = 0 THEN 0 ELSE h[i - 1] + buf[i].bytes]
           sum == CHOOSE h : h = Body(h)
<1>1. Len(buf) \in Nat BY LenProperties
<1>2. f = Body(f)
  BY <1>1 DEF SumUpTo
<1>3. sum = Body(sum)
  <2> HIDE DEF Body
  <2> QED BY <1>2
<1>4. Bytes(buf) = sum[Len(buf)]
  BY DEF Bytes
<1> DEFINE Bad == {i \in 0..Len(buf) : f[i] # sum[i]}
<1>5. Bad = {}
  <2> SUFFICES ASSUME Bad # {} PROVE FALSE OBVIOUS
  <2> HIDE DEF sum
  <2>1. Bad \subseteq Nat BY <1>1
  <2>2. PICK i \in Bad : \A k \in Bad : i <= k
    <3> HIDE DEF Bad
    <3> QED BY <2>1, LeastElement
  <2>3. sum[0] = 0 BY <1>1, <1>3
  <2>4. \A k \in 1..Len(buf) : sum[k] = sum[k - 1] + buf[k].bytes
    <3> TAKE k \in 1..Len(buf)
    <3>1. k \in 0..Len(buf) /\ k # 0 BY <1>1
    <3>2. sum[k] = Body(sum)[k] BY <1>3
    <3> QED BY <3>1, <3>2
  <2>5. i \in 1..Len(buf) BY <1>1, <2>2, <2>3 DEF SumUpTo
  <2>6. f[i - 1] = sum[i - 1] BY <1>1, <2>2, <2>5
  <2> QED BY <2>2, <2>4, <2>5, <2>6 DEF SumUpTo
<1> QED BY <1>1, <1>4, <1>5

(* Where the parts of a payload begin.                                     *)
Offset(buf, i) == Bytes(SubSeq(buf, 1, i))

(* A part begins where the one before it ends, and the last ends with the  *)
(* payload;                                                                *)
LEMMA OffsetSteps ==
  ASSUME NEW S, Sized(S), NEW buf \in Seq(S)
  PROVE  /\ Len(buf) \in Nat
         /\ \A i \in 0..Len(buf) : Offset(buf, i) \in Nat
         /\ Offset(buf, 0) = 0
         /\ \A i \in 1..Len(buf) : /\ buf[i] \in S /\ buf[i].bytes \in Nat \ {0}
                                   /\ Offset(buf, i) = Offset(buf, i - 1) + buf[i].bytes
         /\ Offset(buf, Len(buf)) = Bytes(buf)
<1>1. Len(buf) \in Nat BY LenProperties
<1>2. PICK f : SumUpTo(buf, Len(buf), f) BY SumExists
<1>3. ASSUME NEW i \in 0..Len(buf) PROVE Offset(buf, i) = f[i]
  <2> DEFINE part == SubSeq(buf, 1, i)
             g == [j \in 0..i |-> f[j]]
  <2>1. \A j \in 1..i : buf[j] \in S BY <1>1, ElementOfSeq
  <2>2. part \in Seq(S) /\ Len(part) = i /\ \A j \in 1..i : part[j] = buf[j]
    <3>1. 1 \in Int /\ i \in Int BY <1>1
    <3>2. /\ part \in Seq(S) /\ Len(part) = IF 1 <= i THEN i - 1 + 1 ELSE 0
          /\ \A j \in 1..(i - 1 + 1) : part[j] = buf[1 + j - 1]
      BY <2>1, <3>1, SubSeqProperties
    <3> QED BY <3>1, <3>2, <1>1
  <2>3. SumUpTo(part, i, g)
    <3> HIDE DEF part
    <3>1. g \in [0..i -> Nat] BY <1>1, <1>2 DEF SumUpTo
    <3>2. g[0] = 0 BY <1>1, <1>2 DEF SumUpTo
    <3>3. ASSUME NEW j \in 1..i PROVE g[j] = g[j - 1] + part[j].bytes
      <4>1. j \in 0..i /\ j - 1 \in 0..i /\ j \in 1..Len(buf) BY <1>1
      <4>2. f[j] = f[j - 1] + buf[j].bytes BY <1>2, <4>1 DEF SumUpTo
      <4> QED BY <2>2, <4>1, <4>2
    <3> HIDE DEF g
    <3> QED BY <3>1, <3>2, <3>3 DEF SumUpTo
  <2> HIDE DEF part, g
  <2>4. Bytes(part) = g[i] BY <2>2, <2>3, BytesIsSum
  <2> QED BY <2>4, <1>1 DEF Offset, part, g
<1>4. SubSeq(buf, 1, Len(buf)) = buf BY SubSeqFull
<1>5. \A i \in 1..Len(buf) : buf[i] \in S /\ buf[i].bytes \in Nat \ {0}
  BY <1>1, ElementOfSeq DEF Sized
<1> QED
  <2>1. Offset(buf, Len(buf)) = Bytes(buf) BY <1>4 DEF Offset
  <2> QED BY <1>1, <1>2, <1>3, <1>5, <2>1 DEF SumUpTo

(* so a later part begins at a larger offset.                              *)
LEMMA OffsetsGrow ==
  ASSUME NEW S, Sized(S), NEW buf \in Seq(S),
         NEW i \in 0..Len(buf), NEW j \in 0..Len(buf), i < j
  PROVE  Offset(buf, i) < Offset(buf, j)
<1> DEFINE Bad == {k \in (i + 1)..Len(buf) : ~(Offset(buf, i) < Offset(buf, k))}
<1>0. Len(buf) \in Nat /\ j \in (i + 1)..Len(buf) BY OffsetSteps
<1>1. SUFFICES ASSUME Bad # {} PROVE FALSE BY <1>0
<1>2. Bad \subseteq Nat BY <1>0
<1>3. PICK k \in Bad : \A n \in Bad : k <= n
  <2> HIDE DEF Bad
  <2> QED BY <1>1, <1>2, LeastElement
<1>4. k \in 1..Len(buf) /\ k - 1 \in 0..Len(buf) /\ k - 1 >= i BY OffsetSteps
<1>5. Offset(buf, i) <= Offset(buf, k - 1)
  <2>1. CASE k - 1 = i BY <2>1, OffsetSteps
  <2>2. CASE k - 1 # i
    <3>1. k - 1 \notin Bad
      <4> HIDE DEF Bad
      <4> QED BY <1>2, <1>3
    <3>2. k - 1 \in (i + 1)..Len(buf) BY <1>4, <2>2, OffsetSteps
    <3>3. Offset(buf, i) \in Nat /\ Offset(buf, k - 1) \in Nat BY <1>4, OffsetSteps
    <3> QED BY <3>1, <3>2, <3>3
  <2> QED BY <2>1, <2>2
<1>6. /\ Offset(buf, k) = Offset(buf, k - 1) + buf[k].bytes
      /\ buf[k].bytes \in Nat \ {0}
  BY <1>4, OffsetSteps
<1>7. Offset(buf, i) \in Nat /\ Offset(buf, k - 1) \in Nat BY <1>4, OffsetSteps
<1>8. Offset(buf, i) < Offset(buf, k) BY <1>5, <1>6, <1>7
<1> QED BY <1>3, <1>8

(* A reader that asks for the part at the offset where part i begins gets  *)
(* part i, and all parts from it on.                                       *)
LEMMA PartAtOffset ==
  ASSUME NEW S, Sized(S), NEW buf \in Seq(S), NEW i \in 1..Len(buf)
  PROVE  /\ At(buf, Offset(buf, i - 1), buf[i].kind) = buf[i]
         /\ From(buf, Offset(buf, i - 1)) = SubSeq(buf, i, Len(buf))
<1> DEFINE o == Offset(buf, i - 1)
<1>1. Len(buf) \in Nat /\ DOMAIN buf = 1..Len(buf) /\ i - 1 \in 0..Len(buf)
  BY LenProperties
<1>2. \A j \in 1..Len(buf) : StartsAt(buf, j, o) <=> j = i
  <2> TAKE j \in 1..Len(buf)
  <2>1. j - 1 \in 0..Len(buf) BY <1>1
  <2>2. StartsAt(buf, j, o) <=> Offset(buf, j - 1) = Offset(buf, i - 1)
    BY DEF StartsAt, Offset
  <2>3. CASE j < i
    <3>1. Offset(buf, j - 1) < Offset(buf, i - 1) BY <1>1, <2>1, <2>3, OffsetsGrow
    <3> QED BY <1>1, <2>1, <2>2, <2>3, <3>1, OffsetSteps
  <2>4. CASE j > i
    <3>1. Offset(buf, i - 1) < Offset(buf, j - 1) BY <1>1, <2>1, <2>4, OffsetsGrow
    <3> QED BY <1>1, <2>1, <2>2, <2>4, <3>1, OffsetSteps
  <2>5. CASE j = i BY <2>2, <2>5
  <2> QED BY <1>1, <2>3, <2>4, <2>5
<1> HIDE DEF o
<1>3. {j \in DOMAIN buf : buf[j].kind = buf[i].kind /\ StartsAt(buf, j, o)} = {i}
  BY <1>1, <1>2
<1>4. {j \in DOMAIN buf : StartsAt(buf, j, o)} = {i} BY <1>1, <1>2
<1>5. (CHOOSE j \in {i} : TRUE) = i OBVIOUS
<1>6. At(buf, o, buf[i].kind) = buf[i] BY <1>3, <1>5 DEF At
<1>7. From(buf, o) = SubSeq(buf, i, Len(buf)) BY <1>4, <1>5 DEF From
<1> QED BY <1>6, <1>7 DEF o

(* Behind the last part there is nothing.                                  *)
LEMMA NothingAfterEnd ==
  ASSUME NEW S, Sized(S), NEW buf \in Seq(S)
  PROVE  From(buf, Bytes(buf)) = << >>
<1>1. Len(buf) \in Nat /\ DOMAIN buf = 1..Len(buf) BY LenProperties
<1>2. \A j \in DOMAIN buf : ~StartsAt(buf, j, Bytes(buf))
  <2> TAKE j \in DOMAIN buf
  <2>1. j - 1 \in 0..Len(buf) /\ Len(buf) \in 0..Len(buf) /\ j - 1 < Len(buf) BY <1>1
  <2>2. Offset(buf, j - 1) < Offset(buf, Len(buf)) BY <2>1, OffsetsGrow
  <2>3. Offset(buf, j - 1) \in Nat /\ Bytes(buf) \in Nat
        /\ Offset(buf, Len(buf)) = Bytes(buf)
    BY <2>1, OffsetSteps
  <2> QED BY <2>2, <2>3 DEF StartsAt, Offset
<1>3. {j \in DOMAIN buf : StartsAt(buf, j, Bytes(buf))} = {} BY <1>2
<1> QED BY <1>3 DEF From

(* What was put together comes apart again.                                *)
LEMMA ConcatApart ==
  ASSUME NEW S, NEW s \in Seq(S), NEW t \in Seq(S)
  PROVE  /\ SubSeq(s \o t, 1, Len(s)) = s
         /\ SubSeq(s \o t, Len(s) + 1, Len(s) + Len(t)) = t
<1> DEFINE st == s \o t
           ls == Len(s)
           lt == Len(t)
<1>1. ls \in Nat /\ lt \in Nat BY LenProperties
<1>2. /\ st \in Seq(S) /\ Len(st) = ls + lt
      /\ \A i \in 1..(ls + lt) : st[i] = IF i <= ls THEN s[i] ELSE t[i - ls]
  BY ConcatProperties
<1> HIDE DEF st, ls, lt
<1>3. \A i \in 1..(ls + lt) : st[i] \in S BY <1>2, ElementOfSeq
<1>4. SubSeq(st, 1, ls) = s
  <2> DEFINE p == SubSeq(st, 1, ls)
  <2>1. 1 \in Int /\ ls \in Int /\ \A i \in 1..ls : st[i] \in S BY <1>1, <1>3
  <2>2. /\ p \in Seq(S) /\ Len(p) = IF 1 <= ls THEN ls - 1 + 1 ELSE 0
        /\ \A i \in 1..(ls - 1 + 1) : p[i] = st[1 + i - 1]
    BY <2>1, SubSeqProperties
  <2> HIDE DEF p
  <2>3. Len(p) = Len(s) BY <1>1, <2>2 DEF ls
  <2>4. ASSUME NEW i \in 1..Len(p) PROVE p[i] = s[i]
    <3>1. i \in 1..(ls - 1 + 1) /\ i \in 1..(ls + lt) /\ i <= ls /\ 1 + i - 1 = i
      BY <1>1, <2>3 DEF ls
    <3> QED BY <1>2, <2>2, <3>1
  <2> QED BY <2>2, <2>3, <2>4, SeqEqual DEF p
<1>5. SubSeq(st, ls + 1, ls + lt) = t
  <2> DEFINE m == ls + 1
             n == ls + lt
             p == SubSeq(st, m, n)
  <2>0. /\ m \in 1..(ls + 1) /\ n \in Int /\ m = ls + 1 /\ n = ls + lt /\ n - m + 1 = lt
        /\ m <= n <=> lt # 0
    BY <1>1
  <2> HIDE DEF m, n
  <2>1. m \in Int /\ n \in Int /\ \A i \in m..n : st[i] \in S
    BY <1>1, <1>3, <2>0
  <2>2. /\ p \in Seq(S) /\ Len(p) = IF m <= n THEN n - m + 1 ELSE 0
        /\ \A i \in 1..(n - m + 1) : p[i] = st[m + i - 1]
    BY <2>1, SubSeqProperties
  <2> HIDE DEF p
  <2>3. Len(p) = lt BY <1>1, <2>0, <2>2
  <2>4. ASSUME NEW i \in 1..Len(p) PROVE p[i] = t[i]
    <3> DEFINE k == m + i - 1
    <3>1. i \in 1..(n - m + 1) /\ k = ls + i BY <1>1, <2>0, <2>3
    <3>2. p[i] = st[k] BY <2>2, <3>1
    <3>3. k \in 1..(ls + lt) /\ ~(k <= ls) /\ k - ls = i BY <1>1, <2>3, <3>1
    <3> HIDE DEF k
    <3>4. st[k] = t[k - ls] BY <1>2, <3>3
    <3> QED BY <3>2, <3>3, <3>4
  <2>5. p = t BY <2>2, <2>3, <2>4, SeqEqual DEF lt
  <2> QED BY <2>0, <2>5 DEF p
<1> QED BY <1>4, <1>5 DEF st, ls, lt

(* Two payloads one behind the other.                                      *)
LEMMA BytesOfConcat ==
  ASSUME NEW S, Sized(S), NEW s \in Seq(S), NEW t \in Seq(S)
  PROVE  Bytes(s \o t) = Bytes(s) + Bytes(t)
<1> DEFINE st == s \o t
           Sum(k) == IF k <= Len(s) THEN Offset(s, k) ELSE Bytes(s) + Offset(t, k - Len(s))
           f == [k \in 0..Len(st) |-> Sum(k)]
<1>1. Len(s) \in Nat /\ Len(t) \in Nat BY LenProperties
<1>2. st \in Seq(S) /\ Len(st) = Len(s) + Len(t)
      /\ \A i \in 1..Len(st) : st[i] = IF i <= Len(s) THEN s[i] ELSE t[i - Len(s)]
  BY ConcatProperties
<1> HIDE DEF st
<1>3. Bytes(s) \in Nat /\ Bytes(t) \in Nat BY <1>1, OffsetSteps
<1>4. SumUpTo(st, Len(st), f)
  <2>1. \A k \in 0..Len(st) : Sum(k) \in Nat
    <3> TAKE k \in 0..Len(st)
    <3>1. CASE k <= Len(s)
      <4>1. k \in 0..Len(s) BY <1>1, <1>2, <3>1
      <4> QED BY <3>1, <4>1, OffsetSteps
    <3>2. CASE ~(k <= Len(s))
      <4>1. k - Len(s) \in 0..Len(t) BY <1>1, <1>2, <3>2
      <4>2. Offset(t, k - Len(s)) \in Nat BY <4>1, OffsetSteps
      <4> QED BY <1>3, <3>2, <4>2
    <3> QED BY <3>1, <3>2
  <2>2. Sum(0) = 0 BY <1>1, OffsetSteps
  <2>3. ASSUME NEW i \in 1..Len(st) PROVE Sum(i) = Sum(i - 1) + st[i].bytes
    <3>1. CASE i <= Len(s)
      <4>1. i \in 1..Len(s) /\ i - 1 <= Len(s) BY <1>1, <1>2, <3>1
      <4>2. Offset(s, i) = Offset(s, i - 1) + s[i].bytes BY <4>1, OffsetSteps
      <4> QED BY <1>2, <3>1, <4>1, <4>2
    <3>2. CASE ~(i <= Len(s))
      <4>1. i - Len(s) \in 1..Len(t) /\ i - Len(s) - 1 \in 0..Len(t)
        BY <1>1, <1>2, <3>2
      <4>2. /\ Offset(t, i - Len(s)) = Offset(t, i - Len(s) - 1) + t[i - Len(s)].bytes
            /\ t[i - Len(s)].bytes \in Nat /\ Offset(t, i - Len(s) - 1) \in Nat
        BY <4>1, OffsetSteps
      <4>3. Sum(i) = Bytes(s) + Offset(t, i - Len(s) - 1) + st[i].bytes
        BY <1>2, <1>3, <3>2, <4>2
      <4>4. CASE i - 1 <= Len(s)
        <5>1. i - 1 = Len(s) /\ i - Len(s) - 1 = 0 BY <1>1, <1>2, <3>2, <4>4
        <5>2. Sum(i - 1) = Bytes(s) /\ Offset(t, i - Len(s) - 1) = 0
          BY <4>4, <5>1, OffsetSteps
        <5> QED BY <1>2, <1>3, <3>2, <4>2, <4>3, <5>2
      <4>5. CASE ~(i - 1 <= Len(s))
        <5>1. i - 1 - Len(s) = i - Len(s) - 1 BY <1>1, <1>2
        <5> QED BY <4>3, <4>5, <5>1
      <4> QED BY <4>4, <4>5
    <3> QED BY <3>1, <3>2
  <2> HIDE DEF Sum
  <2>4. Len(st) \in Nat BY <1>1, <1>2
  <2>5. f \in [0..Len(st) -> Nat] BY <2>1
  <2>6. f[0] = 0 BY <2>2, <2>4
  <2>7. ASSUME NEW i \in 1..Len(st) PROVE f[i] = f[i - 1] + st[i].bytes
    <3>1. i \in 0..Len(st) /\ i - 1 \in 0..Len(st) BY <2>4
    <3> QED BY <2>3, <3>1
  <2> HIDE DEF f
  <2> QED BY <2>5, <2>6, <2>7 DEF SumUpTo
<1>5. Bytes(st) = f[Len(st)]
  <2> HIDE DEF f
  <2> QED BY <1>2, <1>4, BytesIsSum
<1>6. f[Len(st)] = Sum(Len(st)) BY <1>1, <1>2
<1>7. Sum(Len(st)) = Bytes(s) + Bytes(t)
  <2>1. CASE Len(t) = 0
    <3>1. Bytes(t) = 0 BY <2>1, OffsetSteps
    <3> QED BY <1>1, <1>2, <1>3, <2>1, <3>1, OffsetSteps
  <2>2. CASE Len(t) # 0
    <3>1. ~(Len(st) <= Len(s)) /\ Len(st) - Len(s) = Len(t) BY <1>1, <1>2, <2>2
    <3> QED BY <3>1, OffsetSteps
  <2> QED BY <2>1, <2>2
<1> QED BY <1>5, <1>6, <1>7 DEF st

-----------------------------------------------------------------------------

(* The parts a payload can have, and the payloads of either kind: a shim   *)
(* that counts the hops, the hops, the application's part, and anything    *)
(* behind it.                                                              *)
ShimParts ==
  [kind : {"shim"}, bytes : {SHIM_SIZE}, ecn_echo : BOOLEAN, hop_count : Nat,
   max_hops : {MAX_HOPS}]
HopParts ==
  [kind : {"hop"}, bytes : {INT_HOP_SIZE}, switch_id : Nat, ingress_port : Nat,
   egress_port : Nat, qdepth : Nat, link_bps : Nat]
AppSize(kind) == IF kind = "data" THEN DATA_PAYLOAD_SIZE ELSE ACK_PAYLOAD_SIZE
AppParts(kind) == [kind : {kind}, bytes : {AppSize(kind)}, seq : Nat]
PaddingParts == [kind : {"padding"}, bytes : Nat \ {0}]
Parts == ShimParts \cup HopParts \cup AppParts("data") \cup AppParts("ack") \cup PaddingParts

Kinds == {"data", "ack"}
Layouts(kind) ==
  {hdr \in [shim : ShimParts, hops : Seq(HopParts), app : AppParts(kind), rest : Seq(Parts)] :
     hdr.shim.hop_count = Len(hdr.hops)}

(* None of these parts is empty.                                           *)
LEMMA PartsSized == Sized(Parts)
BY DEF Sized, Parts, ShimParts, HopParts, AppParts, AppSize, PaddingParts, SHIM_SIZE,
       INT_HOP_SIZE, DATA_PAYLOAD_SIZE, ACK_PAYLOAD_SIZE

(* A payload part by part.                                                 *)
LEMMA Laid ==
  ASSUME NEW kind \in Kinds, NEW hdr \in Layouts(kind)
  PROVE  LET buf == CommonDeparser(hdr)  n == Len(hdr.hops) IN
         /\ buf \in Seq(Parts) /\ n \in Nat /\ Len(hdr.rest) \in Nat
         /\ Len(buf) = n + 2 + Len(hdr.rest)
         /\ buf[1] = hdr.shim
         /\ \A k \in 1..n : buf[k + 1] = hdr.hops[k] /\ hdr.hops[k] \in HopParts
         /\ buf[n + 2] = hdr.app
         /\ \A j \in 1..Len(hdr.rest) : buf[n + 2 + j] = hdr.rest[j]
         /\ \E c \in Seq(Parts) : /\ buf = c \o hdr.rest /\ Len(c) = n + 2
                                 /\ \A k \in 1..(n + 2) : buf[k] = c[k]
<1> DEFINE n == Len(hdr.hops)
           r == Len(hdr.rest)
           a == <<hdr.shim>>
           b == a \o hdr.hops
           d == <<hdr.app>>
           c == b \o d
           buf == c \o hdr.rest
<1>1. /\ hdr.shim \in ShimParts /\ hdr.hops \in Seq(HopParts) /\ hdr.app \in AppParts(kind)
      /\ hdr.rest \in Seq(Parts)
  BY DEF Layouts
<1>2. /\ a \in Seq(Parts) /\ Len(a) = 1 /\ a[1] = hdr.shim
      /\ d \in Seq(Parts) /\ Len(d) = 1 /\ d[1] = hdr.app
  BY <1>1 DEF Parts, Kinds
<1>3. hdr.hops \in Seq(Parts) /\ n \in Nat /\ r \in Nat
      /\ \A k \in 1..n : hdr.hops[k] \in HopParts
  <2>1. HopParts \subseteq Parts BY DEF Parts
  <2>2. hdr.hops \in Seq(Parts) BY <1>1, <2>1, SeqMonotonic
  <2>3. n \in Nat /\ r \in Nat BY <1>1, LenProperties
  <2> QED BY <1>1, <2>2, <2>3, ElementOfSeq
<1>4. /\ b \in Seq(Parts) /\ Len(b) = 1 + n /\ b[1] = hdr.shim
      /\ \A k \in 1..n : b[k + 1] = hdr.hops[k]
  <2> HIDE DEF a
  <2>1. /\ b \in Seq(Parts) /\ Len(b) = Len(a) + Len(hdr.hops)
        /\ \A i \in 1..(Len(a) + Len(hdr.hops)) :
             b[i] = IF i <= Len(a) THEN a[i] ELSE hdr.hops[i - Len(a)]
    BY <1>2, <1>3, ConcatProperties
  <2> HIDE DEF b
  <2> QED BY <1>2, <1>3, <2>1, SMTT(30)
<1>5. /\ c \in Seq(Parts) /\ Len(c) = n + 2 /\ c[n + 2] = hdr.app
      /\ \A k \in 1..(n + 1) : c[k] = b[k]
  <2> HIDE DEF b, d
  <2>1. /\ c \in Seq(Parts) /\ Len(c) = Len(b) + Len(d)
        /\ \A i \in 1..(Len(b) + Len(d)) :
             c[i] = IF i <= Len(b) THEN b[i] ELSE d[i - Len(b)]
    BY <1>2, <1>4, ConcatProperties
  <2> HIDE DEF c, n
  <2>2. n \in Nat /\ Len(b) = n + 1 /\ Len(d) = 1 BY <1>2, <1>3, <1>4
  <2>3. c[n + 2] = hdr.app BY <1>2, <2>1, <2>2
  <2>4. \A k \in 1..(n + 1) : c[k] = b[k] BY <2>1, <2>2
  <2> QED BY <2>1, <2>2, <2>3, <2>4
<1>6. /\ buf \in Seq(Parts) /\ Len(buf) = n + 2 + r
      /\ \A k \in 1..(n + 2) : buf[k] = c[k]
      /\ \A j \in 1..r : buf[n + 2 + j] = hdr.rest[j]
  <2> HIDE DEF c
  <2>1. /\ buf \in Seq(Parts) /\ Len(buf) = Len(c) + r
        /\ \A i \in 1..(Len(c) + r) :
             buf[i] = IF i <= Len(c) THEN c[i] ELSE hdr.rest[i - Len(c)]
    BY <1>1, <1>5, ConcatProperties
  <2> HIDE DEF buf, n, r
  <2>2. n \in Nat /\ r \in Nat /\ Len(c) = n + 2 BY <1>3, <1>5
  <2>3. \A k \in 1..(n + 2) : buf[k] = c[k] BY <2>1, <2>2
  <2>4. \A j \in 1..r : buf[n + 2 + j] = hdr.rest[j] BY <2>1, <2>2
  <2> QED BY <2>1, <2>2, <2>3, <2>4
<1>7. CommonDeparser(hdr) = buf BY DEF CommonDeparser
<1>8. buf = c \o hdr.rest OBVIOUS
<1>9. buf[1] = hdr.shim /\ buf[n + 2] = hdr.app
      /\ \A k \in 1..n : buf[k + 1] = hdr.hops[k]
  <2> HIDE DEF b, c, buf, n
  <2>0. 1 \in 1..(n + 2) /\ n + 2 \in 1..(n + 2) /\ 1 \in 1..(n + 1) BY <1>3
  <2>1. buf[1] = c[1] /\ c[1] = b[1] BY <1>5, <1>6, <2>0
  <2>2. buf[n + 2] = c[n + 2] BY <1>6, <2>0
  <2>3. ASSUME NEW k \in 1..n PROVE buf[k + 1] = hdr.hops[k]
    <3>1. k + 1 \in 1..(n + 2) /\ k + 1 \in 1..(n + 1) BY <1>3
    <3> QED BY <1>4, <1>5, <1>6, <3>1
  <2> QED BY <1>4, <1>5, <2>1, <2>2, <2>3
<1> HIDE DEF a, b, c, buf
<1> QED BY <1>3, <1>5, <1>6, <1>7, <1>8, <1>9, ZenonT(30)

(* Where its parts begin.                                                  *)
LEMMA LaidOffsets ==
  ASSUME NEW kind \in Kinds, NEW hdr \in Layouts(kind)
  PROVE  LET buf == CommonDeparser(hdr)  n == Len(hdr.hops) IN
         /\ \A k \in 0..n : Offset(buf, k + 1) = PayloadOffset(k)
         /\ Offset(buf, n + 2) = TotalSize(n, kind)
         /\ Bytes(buf) = TotalSize(n, kind) + Bytes(hdr.rest)
         /\ Bytes(hdr.rest) \in Nat
<1> DEFINE buf == CommonDeparser(hdr)
           n == Len(hdr.hops)
           Bad == {k \in 0..n : Offset(buf, k + 1) # PayloadOffset(k)}
           r == Len(hdr.rest)
<1>1. /\ buf \in Seq(Parts) /\ n \in Nat /\ r \in Nat /\ Len(buf) = n + 2 + r
      /\ hdr.rest \in Seq(Parts)
  BY Laid DEF Layouts
<1>2. buf[1].bytes = 4 /\ buf[n + 2].bytes = AppSize(kind)
  BY Laid DEF Layouts, ShimParts, AppParts, SHIM_SIZE
<1>3. ASSUME NEW k \in 1..n PROVE buf[k + 1].bytes = 26
  <2>1. buf[k + 1] \in HopParts BY Laid
  <2> HIDE DEF buf
  <2> QED BY <2>1 DEF HopParts, INT_HOP_SIZE
<1>4. PICK c \in Seq(Parts) : /\ buf = c \o hdr.rest /\ Len(c) = n + 2
                              /\ \A k \in 1..(n + 2) : buf[k] = c[k]
  BY Laid
<1> HIDE DEF buf, n, r
<1>5. /\ Len(buf) \in Nat
      /\ \A i \in 0..Len(buf) : Offset(buf, i) \in Nat
      /\ Offset(buf, 0) = 0
      /\ \A i \in 1..Len(buf) : /\ buf[i] \in Parts /\ buf[i].bytes \in Nat \ {0}
                                /\ Offset(buf, i) = Offset(buf, i - 1) + buf[i].bytes
      /\ Offset(buf, Len(buf)) = Bytes(buf)
  BY <1>1, OffsetSteps, PartsSized
<1>6. Bad = {}
  <2> SUFFICES ASSUME Bad # {} PROVE FALSE OBVIOUS
  <2>1. Bad \subseteq Nat BY <1>1
  <2>2. PICK k \in Bad : \A j \in Bad : k <= j
    <3> HIDE DEF Bad
    <3> QED BY <2>1, LeastElement
  <2>3. k # 0
    <3>1. Offset(buf, 1) = Offset(buf, 0) + buf[1].bytes /\ buf[1].bytes = 4
      <4>1. 1 \in 1..Len(buf) /\ 1 - 1 = 0 BY <1>1
      <4> QED BY <1>2, <1>5, <4>1
    <3>2. PayloadOffset(0) = 4 BY DEF PayloadOffset, SHIM_SIZE, INT_HOP_SIZE
    <3> QED BY <1>5, <2>2, <3>1, <3>2
  <2>4. k \in 1..n /\ k - 1 \in 0..n BY <1>1, <2>2, <2>3
  <2>5. Offset(buf, k) = PayloadOffset(k - 1)
    <3>1. k - 1 \notin Bad
      <4> HIDE DEF Bad
      <4> QED BY <2>1, <2>2
    <3> QED BY <2>4, <3>1
  <2>6. Offset(buf, k + 1) = Offset(buf, k) + 26
    <3>1. buf[k + 1].bytes = 26 BY <1>3, <2>4
    <3>2. k + 1 \in 1..Len(buf) /\ k + 1 - 1 = k BY <1>1, <2>4
    <3> QED BY <1>5, <3>1, <3>2
  <2> QED BY <2>2, <2>4, <2>5, <2>6 DEF PayloadOffset, SHIM_SIZE, INT_HOP_SIZE
<1>7. \A k \in 0..n : Offset(buf, k + 1) = PayloadOffset(k) BY <1>6
<1>8. Offset(buf, n + 2) = TotalSize(n, kind)
  <2>1. n + 2 \in 1..Len(buf) /\ n + 2 - 1 = n + 1 /\ n \in 0..n BY <1>1
  <2>2. Offset(buf, n + 1) = PayloadOffset(n) BY <1>7, <2>1
  <2>3. buf[n + 2].bytes = AppSize(kind) BY <1>2
  <2> QED BY <1>5, <2>1, <2>2, <2>3 DEF TotalSize, AppSize
<1>9. Bytes(c) = Offset(buf, n + 2)
  <2>1. SubSeq(buf, 1, n + 2) = c
    <3>1. SubSeq(c \o hdr.rest, 1, Len(c)) = c BY <1>1, <1>4, ConcatApart
    <3> QED BY <1>4, <3>1
  <2> QED BY <2>1 DEF Offset
<1>10. Bytes(hdr.rest) \in Nat BY <1>1, OffsetSteps, PartsSized
<1>11. Bytes(buf) = Bytes(c) + Bytes(hdr.rest)
  BY <1>1, <1>4, BytesOfConcat, PartsSized
<1> QED BY <1>7, <1>8, <1>9, <1>10, <1>11 DEF buf, n

(* The parser of the switches takes apart what their deparser has put      *)
(* together, at whatever depth of the hop stack and whatever follows:      *)
(* the two halves of p4src/common/parsers.p4 agree on every offset.        *)
THEOREM ParserUndoesDeparser ==
  \A kind \in Kinds : \A hdr \in Layouts(kind) :
    CommonParser(CommonDeparser(hdr), kind) = hdr
<1> SUFFICES ASSUME NEW kind \in Kinds, NEW hdr \in Layouts(kind)
             PROVE  CommonParser(CommonDeparser(hdr), kind) = hdr
  OBVIOUS
<1> DEFINE buf == CommonDeparser(hdr)
           n == Len(hdr.hops)
           r == Len(hdr.rest)
<1>1. /\ buf \in Seq(Parts) /\ n \in Nat /\ r \in Nat /\ Len(buf) = n + 2 + r
      /\ buf[1] = hdr.shim /\ buf[n + 2] = hdr.app
      /\ \A k \in 1..n : buf[k + 1] = hdr.hops[k] /\ hdr.hops[k] \in HopParts
  BY Laid
<1>2. PICK c \in Seq(Parts) : buf = c \o hdr.rest /\ Len(c) = n + 2
  BY Laid
<1>3. /\ \A k \in 0..n : Offset(buf, k + 1) = PayloadOffset(k)
      /\ Offset(buf, n + 2) = TotalSize(n, kind)
      /\ Bytes(buf) = TotalSize(n, kind) + Bytes(hdr.rest)
  BY LaidOffsets
<1>4. /\ hdr.shim \in ShimParts /\ hdr.hops \in Seq(HopParts) /\ hdr.app \in AppParts(kind)
      /\ hdr.rest \in Seq(Parts) /\ hdr.shim.hop_count = n
      /\ hdr = [shim |-> hdr.shim, hops |-> hdr.hops, app |-> hdr.app, rest |-> hdr.rest]
  BY DEF Layouts
<1> HIDE DEF buf, n, r
<1>5. \A i \in 1..Len(buf) :
        /\ At(buf, Offset(buf, i - 1), buf[i].kind) = buf[i]
        /\ From(buf, Offset(buf, i - 1)) = SubSeq(buf, i, Len(buf))
  BY <1>1, PartAtOffset, PartsSized
<1>6. ShimOf(buf) = hdr.shim
  <2>1. 1 \in 1..Len(buf) /\ 1 - 1 = 0 BY <1>1
  <2>2. Offset(buf, 0) = 0 BY <1>1, OffsetSteps, PartsSized
  <2>3. buf[1].kind = "shim" BY <1>1, <1>4 DEF ShimParts
  <2> QED BY <1>1, <1>5, <2>1, <2>2, <2>3 DEF ShimOf
<1>7. HopsOf(buf, n) = hdr.hops
  <2>1. ASSUME NEW k \in 1..n PROVE At(buf, PayloadOffset(k - 1), "hop") = hdr.hops[k]
    <3> DEFINE i == k + 1
               j == k - 1
    <3>1. i \in 1..Len(buf) /\ i - 1 = k /\ j \in 0..n /\ j + 1 = k BY <1>1
    <3>2. buf[i] = hdr.hops[k] BY <1>1
    <3>3. buf[i].kind = "hop" BY <1>1, <3>2 DEF HopParts
    <3> HIDE DEF i, j
    <3>4. Offset(buf, i - 1) = PayloadOffset(j) BY <1>3, <3>1
    <3>5. At(buf, Offset(buf, i - 1), buf[i].kind) = buf[i] BY <1>5, <3>1
    <3>6. At(buf, PayloadOffset(j), "hop") = hdr.hops[k] BY <3>2, <3>3, <3>4, <3>5
    <3> QED BY <3>6 DEF j
  <2>2. hdr.hops = [k \in 1..n |-> hdr.hops[k]]
    <3>1. hdr.hops \in [1..n -> HopParts] BY <1>4, LenProperties DEF n
    <3> QED BY <3>1
  <2> QED BY <2>1, <2>2 DEF HopsOf
<1>8. At(buf, PayloadOffset(n), kind) = hdr.app
  <2> DEFINE i == n + 2
  <2>1. i \in 1..Len(buf) /\ i - 1 = n + 1 /\ n \in 0..n BY <1>1
  <2>2. buf[i] = hdr.app /\ buf[i].kind = kind BY <1>1, <1>4 DEF AppParts
  <2> HIDE DEF i
  <2>3. Offset(buf, i - 1) = PayloadOffset(n) BY <1>3, <2>1
  <2>4. At(buf, Offset(buf, i - 1), buf[i].kind) = buf[i] BY <1>5, <2>1
  <2> QED BY <2>2, <2>3, <2>4
<1>9. From(buf, TotalSize(n, kind)) = hdr.rest
  <2>1. CASE r = 0
    <3>1. hdr.rest = << >> BY <1>4, <2>1, EmptySeq DEF r
    <3>2. Bytes(hdr.rest) = 0 BY <1>4, <2>1, OffsetSteps, PartsSized DEF r
    <3>3. Offset(buf, Len(buf)) = Bytes(buf) BY <1>1, OffsetSteps, PartsSized
    <3>4. TotalSize(n, kind) = Bytes(buf) BY <1>1, <1>3, <2>1, <3>3
    <3> QED BY <1>1, <3>1, <3>4, NothingAfterEnd, PartsSized
  <2>2. CASE r # 0
    <3> DEFINE i == n + 3
    <3>1. i \in 1..Len(buf) /\ i - 1 = n + 2 /\ i = n + 3 BY <1>1, <2>2
    <3> HIDE DEF i
    <3>5. From(buf, Offset(buf, i - 1)) = SubSeq(buf, i, Len(buf)) BY <1>5, <3>1
    <3>2. From(buf, TotalSize(n, kind)) = SubSeq(buf, n + 3, Len(buf))
      BY <1>3, <3>1, <3>5
    <3>3. SubSeq(c \o hdr.rest, Len(c) + 1, Len(c) + Len(hdr.rest)) = hdr.rest
      BY <1>2, <1>4, ConcatApart
    <3>4. Len(c) + 1 = n + 3 /\ Len(c) + Len(hdr.rest) = Len(buf) BY <1>1, <1>2 DEF r
    <3> QED BY <1>2, <3>2, <3>3, <3>4
  <2> QED BY <2>1, <2>2
<1>10. CommonParser(buf, kind) =
         [shim |-> hdr.shim, hops |-> hdr.hops, app |-> hdr.app, rest |-> hdr.rest]
  BY <1>4, <1>6, <1>7, <1>8, <1>9 DEF CommonParser
<1> QED BY <1>4, <1>10 DEF buf

-----------------------------------------------------------------------------

(* The route that leads to a host.                                         *)
RightRoute(s, host) ==
  IF s = S1
    THEN IF host = R1 THEN [dst_mac |-> S2GwMac, port |-> BottleneckPort]
         ELSE [dst_mac |-> Mac(host), port |-> host]
    ELSE IF host = R1 THEN [dst_mac |-> Mac(R1), port |-> 2]
         ELSE [dst_mac |-> S1GwMac, port |-> 1]

(* The commands the loader ought to give.                                  *)
RouteTo(s, host) ==
  [switch |-> s, table |-> "ipv4_lpm", key |-> host, value |-> RightRoute(s, host)]
SetThreshold(s) == Write(s, "ecn_threshold", 0, EcnK)
Name(s) == Write(s, "switch_id", 0, s - 100)
SetBps(s, port) == Write(s, "link_bps", port, TrueBps(s, port))
RightCommands ==
  {RouteTo(s, host) : s \in Switches, host \in Hosts}
    \cup {SetThreshold(s) : s \in Switches} \cup {Name(s) : s \in Switches}
    \cup {SetBps(s, port) : s \in Switches, port \in Ports}

(* Right commands, and no capacity of a switch before its name.            *)
NamesFirst(cmds) ==
  /\ cmds \in Seq(RightCommands)
  /\ \A k \in 1..Len(cmds) : cmds[k].table = "link_bps" =>
       \E j \in 1..(k - 1) : cmds[j] = Name(cmds[k].switch)

(* The numbers of nodes and ports do not collide.                          *)
LEMMA Constants ==
  /\ MaxSenders \in 1..9 /\ Senders = 1..MaxSenders /\ MaxSenders \in Nat
  /\ R1 = 10 /\ S1 = 101 /\ S2 = 102 /\ Switches = {101, 102}
  /\ BottleneckPort = MaxSenders + 1 /\ Ports = 0..(MaxSenders + 1)
  /\ Hosts = 1..MaxSenders \cup {10}
BY DumbbellAssumption
DEF DumbbellAssumption, Senders, R1, S1, S2, Switches, BottleneckPort, Ports, Hosts

(* Functions on 1..n are sequences.                                        *)
LEMMA Listed ==
  ASSUME NEW S, NEW n \in Nat, NEW f \in [1..n -> S]
  PROVE  f \in Seq(S) /\ Len(f) = n
<1>1. f \in Seq(S) BY SeqDef
<1>2. Len(f) \in Nat /\ DOMAIN f = 1..Len(f) BY <1>1, LenProperties
<1>3. 1..Len(f) = 1..n BY <1>2
<1> QED BY <1>1, <1>2, <1>3

(* Two lists one behind the other keep that order, if each does by itself  *)
(* or if the first has named the switch the second is about.               *)
LEMMA OrderOfConcat ==
  ASSUME NEW a, NEW b, NamesFirst(a), b \in Seq(RightCommands),
         \/ NamesFirst(b)
         \/ \E s \in Switches : /\ \A k \in 1..Len(b) : b[k].switch = s
                                /\ \E j \in 1..Len(a) : a[j] = Name(s)
  PROVE  /\ NamesFirst(a \o b)
         /\ Len(a \o b) = Len(a) + Len(b)
         /\ \A j \in 1..Len(a) : (a \o b)[j] = a[j]
<1> DEFINE ab == a \o b
           la == Len(a)
           lb == Len(b)
<1>1. /\ ab \in Seq(RightCommands) /\ Len(ab) = la + lb
      /\ \A i \in 1..(la + lb) : ab[i] = IF i <= la THEN a[i] ELSE b[i - la]
  BY ConcatProperties DEF NamesFirst
<1>2. la \in Nat /\ lb \in Nat BY LenProperties DEF NamesFirst
<1> HIDE DEF ab
<1>3. ASSUME NEW k \in 1..(la + lb), ab[k].table = "link_bps"
      PROVE  \E j \in 1..(k - 1) : ab[j] = Name(ab[k].switch)
  <2>1. CASE k <= la
    <3>1. k \in 1..la /\ ab[k] = a[k] BY <1>1, <1>2, <2>1
    <3>2. PICK j \in 1..(k - 1) : a[j] = Name(a[k].switch)
      BY <1>3, <3>1 DEF NamesFirst
    <3>3. j \in 1..(la + lb) /\ j <= la BY <1>2, <3>1
    <3> QED BY <1>1, <3>1, <3>2, <3>3
  <2>2. CASE ~(k <= la)
    <3> DEFINE i == k - la
    <3>1. i \in 1..lb /\ ab[k] = b[i] BY <1>1, <1>2, <2>2
    <3>2. CASE NamesFirst(b)
      <4> HIDE DEF i
      <4>1. PICK j \in 1..(i - 1) : b[j] = Name(b[i].switch)
        BY <1>3, <3>1, <3>2 DEF NamesFirst
      <4> DEFINE m == la + j
      <4>2. m \in 1..(la + lb) /\ ~(m <= la) /\ m - la = j /\ m \in 1..(k - 1)
        BY <1>2, <3>1, <4>1 DEF i
      <4> HIDE DEF m
      <4>3. ab[m] = b[j] BY <1>1, <4>2
      <4> QED BY <3>1, <4>1, <4>2, <4>3
    <3>3. CASE \E s \in Switches : /\ \A n \in 1..lb : b[n].switch = s
                                   /\ \E j \in 1..la : a[j] = Name(s)
      <4>1. PICK s \in Switches : /\ \A n \in 1..lb : b[n].switch = s
                                  /\ \E j \in 1..la : a[j] = Name(s)
        BY <3>3
      <4>2. PICK j \in 1..la : a[j] = Name(s) BY <4>1
      <4>3. j \in 1..(k - 1) /\ j \in 1..(la + lb) /\ j <= la BY <1>2, <2>2
      <4>4. ab[j] = Name(s) BY <1>1, <4>2, <4>3
      <4>5. ab[k].switch = s BY <3>1, <4>1
      <4> QED BY <4>3, <4>4, <4>5
    <3> QED BY <3>2, <3>3
  <2> QED BY <2>1, <2>2
<1>4. NamesFirst(ab) BY <1>1, <1>3 DEF NamesFirst
<1>5. \A j \in 1..la : ab[j] = a[j] BY <1>1, <1>2
<1> QED BY <1>1, <1>4, <1>5 DEF ab

(* The first of the two, in the form it is cited in.                       *)
LEMMA OneAfterOther ==
  \A a, b : NamesFirst(a) /\ NamesFirst(b) => NamesFirst(a \o b)
<1> SUFFICES ASSUME NEW a, NEW b, NamesFirst(a), NamesFirst(b) PROVE NamesFirst(a \o b)
  OBVIOUS
<1>1. b \in Seq(RightCommands) BY DEF NamesFirst
<1> QED BY <1>1, OrderOfConcat

(* The routes of both switches are right ones, and set no register.        *)
LEMMA RoutesRight ==
  /\ NamesFirst(S1Routes) /\ NamesFirst(S2Routes)
<1> DEFINE RouteCmds == {RouteTo(s, host) : s \in Switches, host \in Hosts}
<1>1. \A c \in RouteCmds : c \in RightCommands /\ c.table # "link_bps"
  BY DEF RightCommands, RouteTo
<1>2. \A i \in Senders : /\ Route(S1, i, Mac(i), i) \in RouteCmds
                         /\ Route(S2, i, S1GwMac, 1) \in RouteCmds
  <2> TAKE i \in Senders
  <2>1. i \in Hosts /\ i # R1 /\ S1 \in Switches /\ S2 \in Switches /\ S1 # S2
    BY Constants
  <2>2. Route(S1, i, Mac(i), i) = RouteTo(S1, i) BY <2>1 DEF Route, RouteTo, RightRoute, Ip
  <2>3. Route(S2, i, S1GwMac, 1) = RouteTo(S2, i) BY <2>1 DEF Route, RouteTo, RightRoute, Ip
  <2> QED BY <2>1, <2>2, <2>3
<1>3. /\ Route(S1, R1, S2GwMac, BottleneckPort) \in RouteCmds
      /\ Route(S2, R1, Mac(R1), 2) \in RouteCmds
  <2>1. R1 \in Hosts /\ S1 \in Switches /\ S2 \in Switches /\ S1 # S2 BY Constants
  <2>2. Route(S1, R1, S2GwMac, BottleneckPort) = RouteTo(S1, R1)
    BY <2>1 DEF Route, RouteTo, RightRoute, Ip
  <2>3. Route(S2, R1, Mac(R1), 2) = RouteTo(S2, R1)
    BY <2>1 DEF Route, RouteTo, RightRoute, Ip
  <2> QED BY <2>1, <2>2, <2>3
<1> HIDE DEF RouteCmds
<1>4. S1Routes \in Seq(RouteCmds) /\ S2Routes \in Seq(RouteCmds)
  <2> DEFINE f == [i \in Senders |-> Route(S1, i, Mac(i), i)]
             g == [i \in Senders |-> Route(S2, i, S1GwMac, 1)]
             x == <<Route(S1, R1, S2GwMac, BottleneckPort)>>
             y == <<Route(S2, R1, Mac(R1), 2)>>
  <2>1. f \in [1..MaxSenders -> RouteCmds] /\ g \in [1..MaxSenders -> RouteCmds]
    BY <1>2 DEF Senders
  <2>2. f \in Seq(RouteCmds) /\ g \in Seq(RouteCmds)
    BY <2>1, Constants, Listed
  <2>3. x \in Seq(RouteCmds) /\ y \in Seq(RouteCmds) BY <1>3
  <2>4. f \o x \in Seq(RouteCmds) /\ g \o y \in Seq(RouteCmds)
    BY <2>2, <2>3, ConcatProperties
  <2> QED BY <2>4 DEF S1Routes, S2Routes
<1>5. ASSUME NEW cmds \in Seq(RouteCmds) PROVE NamesFirst(cmds)
  <2>1. RouteCmds \subseteq RightCommands BY <1>1
  <2>2. cmds \in Seq(RightCommands) BY <2>1, SeqMonotonic
  <2>3. \A k \in 1..Len(cmds) : cmds[k].table # "link_bps" BY <1>1, ElementOfSeq
  <2> QED BY <2>2, <2>3 DEF NamesFirst
<1> QED BY <1>4, <1>5

(* So are the writes of a register, one by one; of the last three, the     *)
(* name comes first.                                                       *)
LEMMA LoneCommands ==
  /\ \A s \in Switches : /\ NamesFirst(<<SetThreshold(s)>>) /\ NamesFirst(<<Name(s)>>)
                         /\ \A port \in Ports : <<SetBps(s, port)>> \in Seq(RightCommands)
  /\ NamesFirst(<<Name(S2), SetBps(S2, 1), SetBps(S2, 2)>>)
<1>1. ASSUME NEW s \in Switches
      PROVE  NamesFirst(<<SetThreshold(s)>>) /\ NamesFirst(<<Name(s)>>)
  <2>1. SetThreshold(s) \in RightCommands /\ Name(s) \in RightCommands BY DEF RightCommands
  <2>2. SetThreshold(s).table # "link_bps" /\ Name(s).table # "link_bps"
    BY DEF SetThreshold, Name, Write
  <2> QED BY <2>1, <2>2 DEF NamesFirst
<1>2. ASSUME NEW s \in Switches, NEW port \in Ports
      PROVE  <<SetBps(s, port)>> \in Seq(RightCommands)
  BY DEF RightCommands
<1>3. NamesFirst(<<Name(S2), SetBps(S2, 1), SetBps(S2, 2)>>)
  <2> DEFINE a == Name(S2)
             b == SetBps(S2, 1)
             c == SetBps(S2, 2)
  <2>1. 1 \in Ports /\ 2 \in Ports /\ S2 \in Switches BY Constants
  <2>2. a \in RightCommands /\ b \in RightCommands /\ c \in RightCommands
    BY <2>1 DEF RightCommands
  <2>3. a.table # "link_bps" /\ b.switch = S2 /\ c.switch = S2
    BY DEF Name, SetBps, Write
  <2> HIDE DEF a, b, c
  <2>4. a = Name(S2) BY DEF a
  <2> DEFINE cmds == <<a, b, c>>
  <2>5. cmds \in Seq(RightCommands) /\ Len(cmds) = 3 BY <2>2
  <2>6. cmds[1] = a /\ cmds[2] = b /\ cmds[3] = c OBVIOUS
  <2> HIDE DEF cmds
  <2>7. ASSUME NEW k \in 1..3, cmds[k].table = "link_bps"
        PROVE  \E j \in 1..(k - 1) : cmds[j] = Name(cmds[k].switch)
    <3>1. k = 2 \/ k = 3 BY <2>3, <2>6, <2>7
    <3>2. 1 \in 1..(k - 1) BY <3>1
    <3>3. cmds[k].switch = S2 BY <2>3, <2>6, <3>1
    <3> QED BY <2>4, <2>6, <3>2, <3>3
  <2>8. NamesFirst(cmds) BY <2>5, <2>7 DEF NamesFirst
  <2> QED BY <2>8 DEF a, b, c, cmds
<1> QED BY <1>1, <1>2, <1>3

(* What the loader of either program does is right in itself and in a      *)
(* right order.                                                            *)
LEMMA CommandsRight == \A p \in {"dctcp", "hpcc"} : NamesFirst(Commands(p))
<1>0. S1 \in Switches /\ S2 \in Switches /\ S1 = 101 /\ S2 = 102 /\ 1 \in Ports /\ 2 \in Ports
      /\ BottleneckPort \in Ports /\ Senders \subseteq Ports
      /\ BottleneckPort # 1 /\ BottleneckPort \notin Senders
  BY Constants
<1>1. NamesFirst(DctcpCommands)
  <2>1. /\ Write(S1, "ecn_threshold", 0, EcnK) = SetThreshold(S1)
        /\ Write(S2, "ecn_threshold", 0, EcnK) = SetThreshold(S2)
    BY DEF SetThreshold
  <2>2. NamesFirst(S1Routes \o <<SetThreshold(S1)>>)
    BY <1>0, RoutesRight, LoneCommands, OneAfterOther
  <2>3. NamesFirst((S1Routes \o <<SetThreshold(S1)>>) \o S2Routes)
    BY <2>2, RoutesRight, OneAfterOther
  <2>4. NamesFirst(((S1Routes \o <<SetThreshold(S1)>>) \o S2Routes) \o <<SetThreshold(S2)>>)
    BY <1>0, <2>3, LoneCommands, OneAfterOther
  <2> QED BY <2>1, <2>4 DEF DctcpCommands
<1>2. NamesFirst(HpccS1)
  <2> DEFINE a == S1Routes \o <<Name(S1)>>
             b == [i \in Senders |-> SetBps(S1, i)]
             c == a \o b
             d == <<SetBps(S1, BottleneckPort)>>
  <2>1. /\ Write(S1, "switch_id", 0, 1) = Name(S1)
        /\ \A i \in Senders : Write(S1, "link_bps", i, 100) = SetBps(S1, i)
        /\ Write(S1, "link_bps", BottleneckPort, 10) = SetBps(S1, BottleneckPort)
    BY <1>0 DEF Name, SetBps, TrueBps
  <2>2. NamesFirst(a) /\ \E j \in 1..Len(a) : a[j] = Name(S1)
    <3>1. /\ NamesFirst(S1Routes) /\ NamesFirst(<<Name(S1)>>)
          /\ S1Routes \in Seq(RightCommands) /\ <<Name(S1)>> \in Seq(RightCommands)
      BY <1>0, RoutesRight, LoneCommands, ZenonT(30) DEF NamesFirst
    <3>2. NamesFirst(a) BY <3>1, OrderOfConcat
    <3> DEFINE x == <<Name(S1)>>
               n == Len(S1Routes) + 1
    <3>3. Len(x) = 1 /\ x[1] = Name(S1) OBVIOUS
    <3> HIDE DEF x
    <3>4. /\ Len(S1Routes \o x) = Len(S1Routes) + Len(x)
          /\ \A i \in 1..(Len(S1Routes) + Len(x)) :
               (S1Routes \o x)[i] = IF i <= Len(S1Routes) THEN S1Routes[i]
                                    ELSE x[i - Len(S1Routes)]
      BY <3>1, ConcatProperties DEF x
    <3>5. Len(S1Routes) \in Nat BY <3>1, LenProperties
    <3>6. n \in 1..(Len(S1Routes) + Len(x)) /\ ~(n <= Len(S1Routes)) /\ n - Len(S1Routes) = 1
      BY <3>3, <3>5
    <3> HIDE DEF n
    <3>7. (S1Routes \o x)[n] = Name(S1) BY <3>3, <3>4, <3>6
    <3> QED BY <3>2, <3>4, <3>6, <3>7 DEF x
  <2>3. b \in Seq(RightCommands) /\ \A k \in 1..Len(b) : b[k].switch = S1
    <3>1. \A i \in Senders : SetBps(S1, i) \in RightCommands /\ SetBps(S1, i).switch = S1
      BY <1>0 DEF RightCommands, SetBps, Write
    <3>2. b \in [1..MaxSenders -> RightCommands] BY <3>1 DEF Senders
    <3>3. b \in Seq(RightCommands) /\ Len(b) = MaxSenders
      BY <3>2, Constants, Listed
    <3> QED BY <3>1, <3>3 DEF Senders
  <2> HIDE DEF a, b
  <2>4. NamesFirst(c) /\ \E j \in 1..Len(c) : c[j] = Name(S1)
    <3>1. /\ NamesFirst(c) /\ Len(c) = Len(a) + Len(b)
          /\ \A j \in 1..Len(a) : c[j] = a[j]
      BY <1>0, <2>2, <2>3, OrderOfConcat
    <3>2. Len(a) \in Nat /\ Len(b) \in Nat BY <2>2, <2>3, LenProperties DEF NamesFirst
    <3> HIDE DEF c
    <3>3. PICK j \in 1..Len(a) : a[j] = Name(S1) BY <2>2
    <3>4. j \in 1..Len(c) BY <3>1, <3>2
    <3> QED BY <3>1, <3>3, <3>4
  <2>5. d \in Seq(RightCommands) /\ \A k \in 1..Len(d) : d[k].switch = S1
    <3>1. d \in Seq(RightCommands) BY <1>0, LoneCommands
    <3>2. SetBps(S1, BottleneckPort).switch = S1 BY DEF SetBps, Write
    <3> QED BY <3>1, <3>2
  <2> HIDE DEF c, d
  <2>6. NamesFirst(c \o d) BY <1>0, <2>4, <2>5, OrderOfConcat
  <2>7. b = [i \in Senders |-> Write(S1, "link_bps", i, 100)] BY <2>1 DEF b
  <2> QED BY <2>1, <2>6, <2>7 DEF HpccS1, a, c, d
<1>3. NamesFirst(HpccS2)
  <2>1. /\ Write(S2, "switch_id", 0, 2) = Name(S2)
        /\ Write(S2, "link_bps", 1, 100) = SetBps(S2, 1)
        /\ Write(S2, "link_bps", 2, 100) = SetBps(S2, 2)
    BY <1>0 DEF Name, SetBps, TrueBps
  <2> DEFINE x == <<Name(S2), SetBps(S2, 1), SetBps(S2, 2)>>
  <2>2. NamesFirst(x) BY LoneCommands
  <2> HIDE DEF x
  <2>3. NamesFirst(S2Routes \o x)
    BY <2>2, RoutesRight, OneAfterOther
  <2> QED BY <2>1, <2>3 DEF HpccS2, x
<1>4. NamesFirst(HpccS1 \o HpccS2) BY <1>2, <1>3, OneAfterOther
<1> QED BY <1>1, <1>4 DEF Commands

(* What a table and the registers of a switch can hold.                    *)
Entries == [dst_mac : Nat, port : Ports]
RegistersType ==
  [ecn_threshold : [{0} -> Nat], switch_id : [{0} -> Nat], link_bps : [Ports -> Nat]]

(* What the loader has written so far: right routes, the names of the      *)
(* switches it is past, and no capacity before the name.                   *)
TablesType ==
  /\ program \in {"dctcp", "hpcc"} /\ loader_pc \in 0..(Len(Commands(program)) + 1)
  /\ ipv4_lpm \in [Switches -> [Hosts -> Entries]]
  /\ registers \in [Switches -> RegistersType]
RoutesSoFar ==
  \A s \in Switches, host \in Hosts : ipv4_lpm[s][host] \in {NoRoute, RightRoute(s, host)}
NamesSoFar ==
  \A k \in 1..(loader_pc - 1), s \in Switches :
    Commands(program)[k] = Name(s) => registers[s].switch_id[0] = s - 100
BpsSoFar ==
  \A s \in Switches, port \in Ports : registers[s].link_bps[port] # 0 =>
    registers[s].link_bps[port] = TrueBps(s, port) /\ registers[s].switch_id[0] = s - 100
Tables == TablesType /\ RoutesSoFar /\ NamesSoFar /\ BpsSoFar

(* The right routes are routes.                                            *)
LEMMA RightRouteType ==
  \A s \in Switches, host \in Hosts : RightRoute(s, host) \in Entries
BY Constants DEF RightRoute, Entries, Mac, S1GwMac, S2GwMac

(* Of the empty tables all that is true.                                   *)
LEMMA TablesInit == Init => Tables
<1> SUFFICES ASSUME Init PROVE Tables OBVIOUS
<1>1. \A p \in {"dctcp", "hpcc"} : Len(Commands(p)) \in Nat
  BY CommandsRight, LenProperties DEF NamesFirst
<1>2. program \in {"dctcp", "hpcc"} /\ loader_pc \in 0..(Len(Commands(program)) + 1)
  BY <1>1 DEF Init
<1>3. ipv4_lpm \in [Switches -> [Hosts -> Entries]] /\ RoutesSoFar
  <2>1. NoRoute \in Entries BY Constants DEF NoRoute, Entries
  <2>2. ipv4_lpm = [s \in Switches |-> [host \in Hosts |-> NoRoute]] BY DEF Init
  <2> QED BY <2>1, <2>2 DEF RoutesSoFar
<1>4. registers \in [Switches -> RegistersType] /\ BpsSoFar
  <2> DEFINE reg == [ecn_threshold |-> [i \in {0} |-> 0], switch_id |-> [i \in {0} |-> 0],
                     link_bps |-> [port \in Ports |-> 0]]
  <2>1. reg \in RegistersType BY DEF RegistersType
  <2>2. registers = [s \in Switches |-> reg] BY DEF Init
  <2>3. \A port \in Ports : reg.link_bps[port] = 0 OBVIOUS
  <2> HIDE DEF reg
  <2> QED BY <2>1, <2>2, <2>3 DEF BpsSoFar
<1>5. NamesSoFar BY DEF Init, NamesSoFar
<1> QED BY <1>2, <1>3, <1>4, <1>5 DEF Tables, TablesType

(* It stays true when the loader gives its next command,                   *)
LEMMA TablesLoaded ==
  ASSUME Tables, LoadNext PROVE Tables'
<1> DEFINE cmds == Commands(program)
           c == cmds[loader_pc]
<1>1. NamesFirst(cmds) BY CommandsRight DEF Tables, TablesType
<1>2. /\ cmds \in Seq(RightCommands) /\ Len(cmds) \in Nat /\ DOMAIN cmds = 1..Len(cmds)
      /\ loader_pc \in 1..Len(cmds) /\ c \in RightCommands
  <2>1. cmds \in Seq(RightCommands) BY <1>1 DEF NamesFirst
  <2>2. Len(cmds) \in Nat /\ DOMAIN cmds = 1..Len(cmds) BY <2>1, LenProperties
  <2>3. loader_pc \in 1..Len(cmds) BY <2>2 DEF LoadNext
  <2> QED BY <2>1, <2>2, <2>3, ElementOfSeq
<1>3. program' = program /\ loader_pc' = loader_pc + 1 BY DEF LoadNext
<1>4. IF c.table = "ipv4_lpm"
        THEN /\ ipv4_lpm' = [ipv4_lpm EXCEPT ![c.switch][c.key] = c.value]
             /\ UNCHANGED registers
        ELSE /\ registers' = [registers EXCEPT ![c.switch][c.table][c.key] = c.value]
             /\ UNCHANGED ipv4_lpm
  BY DEF LoadNext
<1>5. c.table = "link_bps" => \E j \in 1..(loader_pc - 1) : cmds[j] = Name(c.switch)
  BY <1>1, <1>2 DEF NamesFirst
<1>6. program' \in {"dctcp", "hpcc"} /\ loader_pc' \in 0..(Len(Commands(program')) + 1)
  BY <1>2, <1>3 DEF Tables, TablesType
<1>7. /\ ipv4_lpm \in [Switches -> [Hosts -> Entries]]
      /\ registers \in [Switches -> RegistersType]
  BY DEF Tables, TablesType
<1> HIDE DEF cmds
<1>8. \A s \in Switches : cmds[loader_pc] = Name(s) <=> c = Name(s) OBVIOUS
<1> HIDE DEF c
<1>9. ASSUME \A t \in Switches : registers'[t].switch_id = registers[t].switch_id,
             c.table # "switch_id"
      PROVE  NamesSoFar'
  <2>1. SUFFICES ASSUME NEW k \in 1..(loader_pc' - 1), NEW s \in Switches,
                        Commands(program')[k] = Name(s)
                 PROVE  registers'[s].switch_id[0] = s - 100
    BY DEF NamesSoFar
  <2>2. CASE k = loader_pc
    BY <1>3, <1>8, <1>9, <2>1, <2>2 DEF cmds, Name, Write
  <2>3. CASE k # loader_pc
    BY <1>2, <1>3, <1>9, <2>1, <2>3 DEF cmds, Tables, NamesSoFar
  <2> QED BY <2>2, <2>3
<1>10. CASE \E s \in Switches, host \in Hosts : c = RouteTo(s, host)
  <2>1. PICK s \in Switches, host \in Hosts : c = RouteTo(s, host) BY <1>10
  <2>2. /\ ipv4_lpm' = [ipv4_lpm EXCEPT ![s][host] = RightRoute(s, host)]
        /\ registers' = registers /\ c.table # "switch_id"
    BY <1>4, <2>1 DEF RouteTo
  <2>3. ipv4_lpm' \in [Switches -> [Hosts -> Entries]]
    BY <1>7, <2>2, RightRouteType
  <2>4. RoutesSoFar' BY <1>7, <2>2 DEF Tables, RoutesSoFar
  <2>5. BpsSoFar' BY <2>2 DEF Tables, BpsSoFar
  <2>6. NamesSoFar' BY <1>9, <2>2
  <2> QED BY <1>6, <1>7, <2>2, <2>3, <2>4, <2>5, <2>6 DEF Tables, TablesType
<1>11. CASE \E s \in Switches : c = SetThreshold(s)
  <2>1. PICK s \in Switches : c = SetThreshold(s) BY <1>11
  <2>2. /\ registers' = [registers EXCEPT ![s]["ecn_threshold"][0] = EcnK]
        /\ ipv4_lpm' = ipv4_lpm /\ c.table # "switch_id"
    BY <1>4, <2>1 DEF SetThreshold, Write
  <2>3. registers' \in [Switches -> RegistersType]
        /\ \A t \in Switches : /\ registers'[t].switch_id = registers[t].switch_id
                               /\ registers'[t].link_bps = registers[t].link_bps
    BY <1>7, <2>2, DumbbellAssumption DEF RegistersType, DumbbellAssumption
  <2>4. NamesSoFar' BY <1>9, <2>2, <2>3
  <2>5. BpsSoFar' BY <2>3 DEF Tables, BpsSoFar
  <2>6. RoutesSoFar' BY <2>2 DEF Tables, RoutesSoFar
  <2> QED BY <1>6, <1>7, <2>2, <2>3, <2>4, <2>5, <2>6 DEF Tables, TablesType
<1>12. CASE \E s \in Switches : c = Name(s)
  <2>1. PICK s \in Switches : c = Name(s) BY <1>12
  <2>2. /\ registers' = [registers EXCEPT ![s]["switch_id"][0] = s - 100]
        /\ ipv4_lpm' = ipv4_lpm
    BY <1>4, <2>1 DEF Name, Write
  <2>3. s - 100 \in Nat BY Constants
  <2>4. /\ registers' \in [Switches -> RegistersType]
        /\ registers'[s].switch_id[0] = s - 100
        /\ \A t \in Switches : /\ t # s => registers'[t].switch_id = registers[t].switch_id
                               /\ registers'[t].link_bps = registers[t].link_bps
    BY <1>7, <2>2, <2>3 DEF RegistersType
  <2>5. NamesSoFar'
    <3>1. SUFFICES ASSUME NEW k \in 1..(loader_pc' - 1), NEW t \in Switches,
                          Commands(program')[k] = Name(t)
                   PROVE  registers'[t].switch_id[0] = t - 100
      BY DEF NamesSoFar
    <3>2. CASE t = s BY <2>4, <3>2
    <3>3. CASE t # s
      <4>1. k # loader_pc BY <1>3, <1>8, <2>1, <3>1, <3>3 DEF cmds, Name, Write
      <4> QED BY <1>2, <1>3, <2>4, <3>1, <3>3, <4>1 DEF cmds, Tables, NamesSoFar
    <3> QED BY <3>2, <3>3
  <2>6. BpsSoFar' BY <2>4 DEF Tables, BpsSoFar
  <2>7. RoutesSoFar' BY <2>2 DEF Tables, RoutesSoFar
  <2> QED BY <1>6, <1>7, <2>2, <2>4, <2>5, <2>6, <2>7 DEF Tables, TablesType
<1>13. CASE \E s \in Switches, port \in Ports : c = SetBps(s, port)
  <2>1. PICK s \in Switches, port \in Ports : c = SetBps(s, port) BY <1>13
  <2>2. /\ registers' = [registers EXCEPT ![s]["link_bps"][port] = TrueBps(s, port)]
        /\ ipv4_lpm' = ipv4_lpm /\ c.table = "link_bps" /\ c.switch = s
    BY <1>4, <2>1 DEF SetBps, Write
  <2>3. TrueBps(s, port) \in Nat BY DEF TrueBps
  <2>4. /\ registers' \in [Switches -> RegistersType]
        /\ registers'[s].link_bps[port] = TrueBps(s, port)
        /\ \A t \in Switches : /\ registers'[t].switch_id = registers[t].switch_id
                               /\ \A p \in Ports : t # s \/ p # port =>
                                    registers'[t].link_bps[p] = registers[t].link_bps[p]
    BY <1>7, <2>2, <2>3, ZenonT(30) DEF RegistersType
  <2>5. registers[s].switch_id[0] = s - 100
    BY <1>5, <2>2 DEF cmds, Tables, NamesSoFar
  <2>6. BpsSoFar' BY <2>4, <2>5 DEF Tables, BpsSoFar
  <2>7. NamesSoFar' BY <1>9, <2>2, <2>4
  <2>8. RoutesSoFar' BY <2>2 DEF Tables, RoutesSoFar
  <2> QED BY <1>6, <1>7, <2>2, <2>4, <2>6, <2>7, <2>8 DEF Tables, TablesType
<1> QED BY <1>2, <1>10, <1>11, <1>12, <1>13 DEF RightCommands

(* when it gives up,                                                       *)
LEMMA TablesFail == Tables /\ LoadFails => Tables'
<1> SUFFICES ASSUME Tables, LoadFails PROVE Tables' OBVIOUS
<1>1. UNCHANGED <<program, ipv4_lpm, registers>> /\ loader_pc' = 0 BY DEF LoadFails
<1>2. Len(Commands(program)) \in Nat
  BY CommandsRight, LenProperties DEF NamesFirst, Tables, TablesType
<1>3. NamesSoFar' BY <1>1 DEF NamesSoFar
<1> QED
  BY <1>1, <1>2, <1>3 DEF Tables, TablesType, RoutesSoFar, BpsSoFar

(* and whenever it does nothing.                                           *)
LEMMA TablesStay ==
  ASSUME Tables, UNCHANGED <<program, loader_pc, ipv4_lpm, registers>> PROVE Tables'
BY DEF Tables, TablesType, RoutesSoFar, NamesSoFar, BpsSoFar

-----------------------------------------------------------------------------

(* Which end is at the other side of which link.                           *)
LEMMA Peers ==
  /\ \A i \in Senders : Peer(<<i, 0>>) = <<S1, i>> /\ Peer(<<S1, i>>) = <<i, 0>>
  /\ Peer(<<S1, BottleneckPort>>) = <<S2, 1>> /\ Peer(<<S2, 1>>) = <<S1, BottleneckPort>>
  /\ Peer(<<S2, 2>>) = <<R1, 0>> /\ Peer(<<R1, 0>>) = <<S2, 2>>
<1>1. ASSUME NEW a, NEW b, a # b, {a, b} \in Links,
             \A l \in Links : a \in l => l = {a, b}
      PROVE  Peer(a) = b
  <2>1. {l \in Links : a \in l} = {{a, b}} BY <1>1
  <2>2. UNION {{a, b}} = {a, b} OBVIOUS
  <2>3. (CHOOSE e \in {a, b} : e # a) = b BY <1>1
  <2>4. {{a, b}} # {} OBVIOUS
  <2> QED BY <2>1, <2>2, <2>3, <2>4 DEF Peer
<1>2. \A l \in Links : \/ \E i \in Senders : l = {<<i, 0>>, <<S1, i>>}
                       \/ l = {<<S1, BottleneckPort>>, <<S2, 1>>}
                       \/ l = {<<S2, 2>>, <<R1, 0>>}
  BY DEF Links
<1>3. /\ \A i \in Senders : {<<i, 0>>, <<S1, i>>} \in Links
      /\ {<<S1, BottleneckPort>>, <<S2, 1>>} \in Links /\ {<<S2, 2>>, <<R1, 0>>} \in Links
  BY DEF Links
<1>4. \A i \in Senders : i # S1 /\ i # S2 /\ i # R1 /\ i # BottleneckPort /\ i # 0
  BY Constants
<1>5. S1 # S2 /\ S1 # R1 /\ S2 # R1 /\ BottleneckPort # 0 BY Constants
<1>6. ASSUME NEW i \in Senders PROVE Peer(<<i, 0>>) = <<S1, i>> /\ Peer(<<S1, i>>) = <<i, 0>>
  <2> DEFINE a == <<i, 0>>
             b == <<S1, i>>
  <2>1. a # b BY <1>4
  <2>2. \A l \in Links : a \in l => l = {a, b} BY <1>2, <1>4, <1>5
  <2>3. \A l \in Links : b \in l => l = {b, a} BY <1>2, <1>4, <1>5
  <2>4. {a, b} \in Links /\ {b, a} = {a, b} BY <1>3
  <2> HIDE DEF a, b
  <2>5. Peer(a) = b BY <1>1, <2>1, <2>2, <2>4
  <2>6. Peer(b) = a BY <1>1, <2>1, <2>3, <2>4
  <2> QED BY <2>5, <2>6 DEF a, b
<1>7. Peer(<<S1, BottleneckPort>>) = <<S2, 1>> /\ Peer(<<S2, 1>>) = <<S1, BottleneckPort>>
  <2> DEFINE a == <<S1, BottleneckPort>>
             b == <<S2, 1>>
  <2>1. a # b BY <1>5
  <2>2. \A l \in Links : a \in l => l = {a, b} BY <1>2, <1>4, <1>5
  <2>3. \A l \in Links : b \in l => l = {b, a} BY <1>2, <1>4, <1>5
  <2>4. {a, b} \in Links /\ {b, a} = {a, b} BY <1>3
  <2> HIDE DEF a, b
  <2>5. Peer(a) = b BY <1>1, <2>1, <2>2, <2>4
  <2>6. Peer(b) = a BY <1>1, <2>1, <2>3, <2>4
  <2> QED BY <2>5, <2>6 DEF a, b
<1>8. Peer(<<S2, 2>>) = <<R1, 0>> /\ Peer(<<R1, 0>>) = <<S2, 2>>
  <2> DEFINE a == <<S2, 2>>
             b == <<R1, 0>>
  <2>1. a # b BY <1>5
  <2>2. \A l \in Links : a \in l => l = {a, b} BY <1>2, <1>4, <1>5
  <2>3. \A l \in Links : b \in l => l = {b, a} BY <1>2, <1>4, <1>5
  <2>4. {a, b} \in Links /\ {b, a} = {a, b} BY <1>3
  <2> HIDE DEF a, b
  <2>5. Peer(a) = b BY <1>1, <2>1, <2>2, <2>4
  <2>6. Peer(b) = a BY <1>1, <2>1, <2>3, <2>4
  <2> QED BY <2>5, <2>6 DEF a, b
<1> QED BY <1>6, <1>7, <1>8

-----------------------------------------------------------------------------

(* What a host or a switch reads from a payload: the shim, the hops and    *)
(* what follows them.                                                      *)
LEMMA ReadBack ==
  ASSUME NEW kind \in Kinds, NEW hdr \in Layouts(kind)
  PROVE  LET buf == CommonDeparser(hdr)  n == Len(hdr.hops) IN
         /\ n \in Nat /\ ShimOf(buf) = hdr.shim /\ hdr.shim.hop_count = n
         /\ HopsOf(buf, n) = hdr.hops
         /\ At(buf, PayloadOffset(n), kind) = hdr.app
         /\ Bytes(buf) \in Nat /\ TotalSize(n, kind) <= Bytes(buf)
<1> DEFINE buf == CommonDeparser(hdr)
           n == Len(hdr.hops)
           m == ShimOf(buf).hop_count
<1>1. n \in Nat /\ hdr.shim.hop_count = n BY Laid DEF Layouts
<1>2. hdr = [shim |-> ShimOf(buf), hops |-> HopsOf(buf, m),
             app |-> At(buf, PayloadOffset(m), kind), rest |-> From(buf, TotalSize(m, kind))]
  <2>1. CommonParser(buf, kind) = hdr BY ParserUndoesDeparser
  <2> HIDE DEF buf
  <2> QED BY <2>1 DEF CommonParser
<1>3. /\ Bytes(buf) = TotalSize(n, kind) + Bytes(hdr.rest) /\ Bytes(hdr.rest) \in Nat
      /\ TotalSize(n, kind) \in Nat
  <2>1. /\ Bytes(buf) = TotalSize(n, kind) + Bytes(hdr.rest) /\ Bytes(hdr.rest) \in Nat
    BY LaidOffsets
  <2>2. TotalSize(n, kind) \in Nat
    BY <1>1 DEF TotalSize, PayloadOffset, SHIM_SIZE, INT_HOP_SIZE, DATA_PAYLOAD_SIZE,
                ACK_PAYLOAD_SIZE
  <2> QED BY <2>1, <2>2
<1> HIDE DEF buf
<1>4. hdr.shim = ShimOf(buf) /\ m = n BY <1>1, <1>2
<1> HIDE DEF m, n
<1>5. hdr.hops = HopsOf(buf, n) /\ hdr.app = At(buf, PayloadOffset(n), kind)
  BY <1>2, <1>4
<1>6. TotalSize(n, kind) <= Bytes(buf) /\ Bytes(buf) \in Nat BY <1>3
<1> QED BY <1>1, <1>4, <1>5, <1>6 DEF buf, n

(* Payloads of the two kinds, by what is in them.                          *)
DataLayout(hops, seq, padding) ==
  [shim |-> Shim(FALSE, Len(hops)), hops |-> hops, app |-> DataPayload(seq),
   rest |-> Padding(padding)]
AckLayout(ecn_echo, hops, seq) ==
  [shim |-> Shim(ecn_echo, Len(hops)), hops |-> hops, app |-> AckPayload(seq),
   rest |-> << >>]
DataBytes(hops, seq, padding) == CommonDeparser(DataLayout(hops, seq, padding))
AckBytes(ecn_echo, hops, seq) == CommonDeparser(AckLayout(ecn_echo, hops, seq))

(* Padding is as long as it says.                                          *)
LEMMA PaddingSize ==
  ASSUME NEW n \in Nat
  PROVE  Padding(n) \in Seq(Parts) /\ Bytes(Padding(n)) = n
<1>1. CASE n = 0
  <2>1. Padding(n) = << >> BY <1>1 DEF Padding
  <2>2. << >> \in Seq(Parts) /\ Len(<< >>) = 0 OBVIOUS
  <2>3. Offset(<< >>, 0) = 0 /\ Offset(<< >>, 0) = Bytes(<< >>)
    BY <2>2, OffsetSteps, PartsSized
  <2> QED BY <1>1, <2>1, <2>2, <2>3
<1>2. CASE n # 0
  <2> DEFINE part == [kind |-> "padding", bytes |-> n]
             buf == <<part>>
  <2>1. Padding(n) = buf BY <1>2 DEF Padding
  <2>2. part \in Parts BY <1>2 DEF Parts, PaddingParts
  <2>3. buf \in Seq(Parts) /\ Len(buf) = 1 /\ buf[1] = part BY <2>2
  <2> HIDE DEF buf
  <2>4. /\ Offset(buf, 0) = 0 /\ Offset(buf, Len(buf)) = Bytes(buf)
        /\ \A i \in 1..Len(buf) : Offset(buf, i) = Offset(buf, i - 1) + buf[i].bytes
    BY <2>3, OffsetSteps, PartsSized
  <2>5. 1 \in 1..Len(buf) /\ 1 - 1 = 0 /\ buf[1].bytes = n BY <2>3
  <2> QED BY <2>1, <2>3, <2>4, <2>5
<1> QED BY <1>1, <1>2

(* Both are payloads as defined above, as long as their headers say.       *)
LEMMA PayloadTypes ==
  ASSUME NEW hops \in Seq(HopParts), NEW seq \in Nat
  PROVE  /\ \A padding \in Nat :
              /\ DataLayout(hops, seq, padding) \in Layouts("data")
              /\ DataBytes(hops, seq, padding) \in Seq(Parts)
              /\ Bytes(DataBytes(hops, seq, padding)) = TotalSize(Len(hops), "data") + padding
         /\ \A ecn_echo \in BOOLEAN :
              /\ AckLayout(ecn_echo, hops, seq) \in Layouts("ack")
              /\ AckBytes(ecn_echo, hops, seq) \in Seq(Parts)
              /\ Bytes(AckBytes(ecn_echo, hops, seq)) = TotalSize(Len(hops), "ack")
<1>1. Len(hops) \in Nat BY LenProperties
<1>2. ASSUME NEW padding \in Nat
      PROVE  /\ DataLayout(hops, seq, padding) \in Layouts("data")
             /\ DataBytes(hops, seq, padding) \in Seq(Parts)
             /\ Bytes(DataBytes(hops, seq, padding)) = TotalSize(Len(hops), "data") + padding
  <2> DEFINE hdr == DataLayout(hops, seq, padding)
  <2>1. Shim(FALSE, Len(hops)) \in ShimParts /\ DataPayload(seq) \in AppParts("data")
    BY <1>1 DEF Shim, ShimParts, DataPayload, AppParts, AppSize
  <2>2. Padding(padding) \in Seq(Parts) /\ Bytes(Padding(padding)) = padding BY PaddingSize
  <2>3. hdr \in Layouts("data") /\ hdr.hops = hops /\ hdr.rest = Padding(padding)
    BY <2>1, <2>2 DEF DataLayout, Layouts, Shim
  <2> HIDE DEF hdr
  <2>4. CommonDeparser(hdr) \in Seq(Parts) BY <2>3, Laid DEF Kinds
  <2>5. Bytes(CommonDeparser(hdr)) = TotalSize(Len(hdr.hops), "data") + Bytes(hdr.rest)
    BY <2>3, LaidOffsets DEF Kinds
  <2> QED BY <2>2, <2>3, <2>4, <2>5 DEF hdr, DataBytes
<1>3. ASSUME NEW ecn_echo \in BOOLEAN
      PROVE  /\ AckLayout(ecn_echo, hops, seq) \in Layouts("ack")
             /\ AckBytes(ecn_echo, hops, seq) \in Seq(Parts)
             /\ Bytes(AckBytes(ecn_echo, hops, seq)) = TotalSize(Len(hops), "ack")
  <2> DEFINE hdr == AckLayout(ecn_echo, hops, seq)
  <2>1. Shim(ecn_echo, Len(hops)) \in ShimParts /\ AckPayload(seq) \in AppParts("ack")
    BY <1>1 DEF Shim, ShimParts, AckPayload, AppParts, AppSize
  <2>2. << >> \in Seq(Parts) /\ Bytes(<< >>) = 0
    <3>1. Padding(0) = << >> BY DEF Padding
    <3>2. Bytes(Padding(0)) = 0 BY PaddingSize
    <3> QED BY <3>1, <3>2
  <2>3. hdr \in Layouts("ack") /\ hdr.hops = hops /\ hdr.rest = << >>
    BY <2>1, <2>2 DEF AckLayout, Layouts, Shim
  <2> HIDE DEF hdr
  <2>4. CommonDeparser(hdr) \in Seq(Parts) BY <2>3, Laid DEF Kinds
  <2>5. Bytes(CommonDeparser(hdr)) = TotalSize(Len(hdr.hops), "ack") + Bytes(hdr.rest)
    BY <2>3, LaidOffsets DEF Kinds
  <2>6. TotalSize(Len(hops), "ack") \in Nat
    BY <1>1 DEF TotalSize, PayloadOffset, SHIM_SIZE, INT_HOP_SIZE, ACK_PAYLOAD_SIZE
  <2> QED BY <2>2, <2>3, <2>4, <2>5, <2>6 DEF hdr, AckBytes
<1> QED BY <1>2, <1>3

(* What a sender packs is a data payload without hops;                     *)
LEMMA FreshData ==
  ASSUME NEW seq, NEW padding
  PROVE  DataPacketPack(seq, padding) = DataBytes(<< >>, seq, padding)
<1>1. <<Shim(FALSE, 0)>> \o << >> = <<Shim(FALSE, 0)>>
  BY ConcatEmptySeq
<1>2. <<Shim(FALSE, 0)>> \o <<DataPayload(seq)>> = <<Shim(FALSE, 0), DataPayload(seq)>>
  <2> DEFINE x == Shim(FALSE, 0)
             y == DataPayload(seq)
             S == {x, y}
             a == <<x>>
             b == <<y>>
             ab == <<x, y>>
             c == a \o b
  <2>1. /\ a \in Seq(S) /\ Len(a) = 1 /\ a[1] = x
        /\ b \in Seq(S) /\ Len(b) = 1 /\ b[1] = y
        /\ ab \in Seq(S) /\ Len(ab) = 2 /\ ab[1] = x /\ ab[2] = y
    OBVIOUS
  <2> HIDE DEF a, b, ab, S, x, y
  <2>2. /\ c \in Seq(S) /\ Len(c) = Len(a) + Len(b)
        /\ \A i \in 1..(Len(a) + Len(b)) : c[i] = IF i <= Len(a) THEN a[i] ELSE b[i - Len(a)]
    BY <2>1, ConcatProperties
  <2> HIDE DEF c
  <2>3. Len(c) = 2 /\ c[1] = x /\ c[2] = y BY <2>1, <2>2
  <2>4. \A i \in 1..2 : c[i] = ab[i] BY <2>1, <2>3
  <2>5. c = ab BY <2>1, <2>2, <2>3, <2>4, SeqEqual
  <2> QED BY <2>5 DEF a, b, ab, c, x, y
<1>3. Len(<< >>) = 0 OBVIOUS
<1> QED BY <1>1, <1>2, <1>3 DEF DataPacketPack, DataBytes, CommonDeparser, DataLayout

(* with a hop more the shim counts one more,                               *)
LEMMA ShimCounts ==
  ASSUME NEW ecn_echo, NEW n \in Nat
  PROVE  [Shim(ecn_echo, n) EXCEPT !.hop_count = @ + 1] = Shim(ecn_echo, n + 1)
BY DEF Shim

(* and what the deparser then puts together is the payload with that hop   *)
(* in front of the others, the padding behind it where it was.             *)
LEMMA HopPushed ==
  ASSUME NEW hops \in Seq(HopParts), NEW hop \in HopParts, NEW seq \in Nat, NEW padding \in Nat
  PROVE  /\ CommonDeparser(PushHop(DataLayout(hops, seq, padding), hop))
              = DataBytes(<<hop>> \o hops, seq, padding)
         /\ <<hop>> \o hops \in Seq(HopParts) /\ Len(<<hop>> \o hops) = Len(hops) + 1
         /\ (<<hop>> \o hops)[1] = hop
         /\ \A i \in 1..Len(hops) : (<<hop>> \o hops)[i + 1] = hops[i]
<1> DEFINE a == <<hop>>
           more == a \o hops
<1>1. a \in Seq(HopParts) /\ Len(a) = 1 /\ a[1] = hop OBVIOUS
<1>2. Len(hops) \in Nat BY LenProperties
<1> HIDE DEF a
<1>3. /\ more \in Seq(HopParts) /\ Len(more) = 1 + Len(hops)
      /\ \A i \in 1..(1 + Len(hops)) : more[i] = IF i <= 1 THEN a[i] ELSE hops[i - 1]
  BY <1>1, ConcatProperties, SMTT(30)
<1> HIDE DEF more
<1>4. more[1] = hop BY <1>1, <1>2, <1>3
<1>5. \A i \in 1..Len(hops) : more[i + 1] = hops[i] BY <1>2, <1>3
<1>6. CommonDeparser(PushHop(DataLayout(hops, seq, padding), hop))
        = DataBytes(more, seq, padding)
  <2>1. Len(more) = Len(hops) + 1 /\ Len(hops) \in Nat BY <1>2, <1>3
  <2>2. [Shim(FALSE, Len(hops)) EXCEPT !.hop_count = @ + 1] = Shim(FALSE, Len(more))
    BY <2>1, ShimCounts
  <2> DEFINE before == Shim(FALSE, Len(hops))
             app == DataPayload(seq)
             rest == Padding(padding)
             hdr == [shim |-> before, hops |-> hops, app |-> app, rest |-> rest]
             after == [hdr EXCEPT !.hops = more, !.shim.hop_count = @ + 1]
  <2> HIDE DEF before, app, rest
  <2>3. /\ after.shim = [before EXCEPT !.hop_count = @ + 1] /\ after.hops = more
        /\ after.app = app /\ after.rest = rest
    OBVIOUS
  <2>4. PushHop(hdr, hop) = after BY DEF PushHop, more, a
  <2> HIDE DEF after
  <2>5. CommonDeparser(after) = DataBytes(more, seq, padding)
    BY <2>2, <2>3 DEF CommonDeparser, DataBytes, DataLayout, before, app, rest
  <2> QED BY <2>4, <2>5 DEF DataLayout, before, app, rest
<1> QED BY <1>2, <1>3, <1>4, <1>5, <1>6 DEF more, a

(* The reflector answers a data payload with the same hops, the same       *)
(* number and the mark of the packet.                                      *)
LEMMA ReflectorAnswers ==
  ASSUME NEW hops \in Seq(HopParts), Len(hops) <= MAX_HOPS, NEW seq \in Nat,
         NEW padding \in Nat, NEW ce \in BOOLEAN
  PROVE  /\ BuildAck(DataBytes(hops, seq, padding), ce) = AckBytes(ce, hops, seq)
         /\ AckBytes(ce, hops, seq) # NoAck
<1> DEFINE buf == DataBytes(hops, seq, padding)
           n == Len(hops)
           hdr == DataLayout(hops, seq, padding)
<1>1. /\ hdr \in Layouts("data") /\ hdr.hops = hops /\ hdr.app = DataPayload(seq)
      /\ hdr.shim = Shim(FALSE, n) /\ buf = CommonDeparser(hdr)
  BY PayloadTypes DEF DataLayout, DataBytes
<1> HIDE DEF hdr
<1>2. /\ n \in Nat /\ ShimOf(buf) = hdr.shim /\ hdr.shim.hop_count = n
      /\ HopsOf(buf, n) = hops /\ At(buf, PayloadOffset(n), "data") = DataPayload(seq)
      /\ Bytes(buf) \in Nat /\ TotalSize(n, "data") <= Bytes(buf)
  BY <1>1, ReadBack DEF Kinds
<1>3. TotalSize(n, "data") \in Nat
  BY <1>2 DEF TotalSize, PayloadOffset, SHIM_SIZE, INT_HOP_SIZE, DATA_PAYLOAD_SIZE
<1> HIDE DEF buf, n
<1>4. ~(n > MAX_HOPS \/ Bytes(buf) < TotalSize(n, "data"))
  BY <1>2, <1>3 DEF n, MAX_HOPS
<1>5. BuildAck(buf, ce) = <<Shim(ce, n)>> \o hops \o <<AckPayload(seq)>>
  BY <1>2, <1>4 DEF BuildAck, DataPayload
<1>6. AckBytes(ce, hops, seq) = <<Shim(ce, n)>> \o hops \o <<AckPayload(seq)>>
  <2> DEFINE a == <<Shim(ce, n)>>
             b == <<AckPayload(seq)>>
  <2>1. a \in Seq(Parts) /\ b \in Seq(Parts) /\ hops \in Seq(Parts)
    <3>1. Shim(ce, n) \in Parts /\ AckPayload(seq) \in Parts
      BY <1>2 DEF Parts, ShimParts, Shim, AppParts, AckPayload, AppSize
    <3>2. HopParts \subseteq Parts BY DEF Parts
    <3> QED BY <3>1, <3>2, SeqMonotonic
  <2>2. AckBytes(ce, hops, seq) = ((a \o hops) \o b) \o << >>
    BY DEF AckBytes, AckLayout, CommonDeparser, n
  <2> HIDE DEF a, b
  <2>3. a \o hops \in Seq(Parts) BY <2>1, ConcatProperties
  <2>4. (a \o hops) \o b \in Seq(Parts) BY <2>1, <2>3, ConcatProperties
  <2> QED BY <2>2, <2>4, ConcatEmptySeq DEF a, b
<1>7. AckBytes(ce, hops, seq) # NoAck
  <2> DEFINE ack == AckLayout(ce, hops, seq)
  <2>1. ack \in Layouts("ack") BY PayloadTypes
  <2> HIDE DEF ack
  <2>2. /\ Len(CommonDeparser(ack)) = Len(ack.hops) + 2 + Len(ack.rest)
        /\ Len(ack.hops) \in Nat /\ Len(ack.rest) \in Nat
    BY <2>1, Laid DEF Kinds
  <2> DEFINE size == Len(CommonDeparser(ack))
             h == Len(ack.hops)
             r == Len(ack.rest)
  <2>3. size = h + 2 + r /\ h \in Nat /\ r \in Nat BY <2>2
  <2> HIDE DEF size, h, r
  <2>4. size # 0 BY <2>3
  <2>5. Len(<< >>) = 0 OBVIOUS
  <2> QED BY <2>4, <2>5 DEF size, ack, AckBytes, NoAck
<1> QED BY <1>5, <1>6, <1>7 DEF buf

(* What a sender reads from an ACK with no more hops than it takes.        *)
LEMMA AckRead ==
  ASSUME NEW hops \in Seq(HopParts), NEW seq \in Nat, NEW ecn_echo \in BOOLEAN,
         NEW limit \in Nat, Len(hops) <= limit
  PROVE  UnpackAck(AckBytes(ecn_echo, hops, seq), limit)
           = [seq |-> seq, ecn_echo |-> ecn_echo, hops |-> hops]
<1> DEFINE buf == AckBytes(ecn_echo, hops, seq)
           n == Len(hops)
           hdr == AckLayout(ecn_echo, hops, seq)
<1>1. /\ hdr \in Layouts("ack") /\ hdr.hops = hops /\ hdr.app = AckPayload(seq)
      /\ hdr.shim = Shim(ecn_echo, n) /\ buf = CommonDeparser(hdr)
  BY PayloadTypes DEF AckLayout, AckBytes
<1> HIDE DEF hdr
<1>2. /\ n \in Nat /\ ShimOf(buf) = hdr.shim /\ hdr.shim.hop_count = n
      /\ HopsOf(buf, n) = hops /\ At(buf, PayloadOffset(n), "ack") = AckPayload(seq)
      /\ Bytes(buf) \in Nat /\ TotalSize(n, "ack") <= Bytes(buf)
  BY <1>1, ReadBack DEF Kinds
<1>3. TotalSize(n, "ack") \in Nat
  BY <1>2 DEF TotalSize, PayloadOffset, SHIM_SIZE, INT_HOP_SIZE, ACK_PAYLOAD_SIZE
<1> HIDE DEF buf
<1>4. ~(n > limit \/ Bytes(buf) < TotalSize(n, "ack")) BY <1>2, <1>3
<1>5. ShimOf(buf).ecn_echo = ecn_echo BY <1>1, <1>2 DEF Shim
<1> HIDE DEF n
<1>6. UnpackAck(buf, limit)
        = [seq |-> AckPayload(seq).seq, ecn_echo |-> ecn_echo, hops |-> hops]
  BY <1>2, <1>4, <1>5 DEF UnpackAck
<1> QED BY <1>6 DEF buf, AckPayload

-----------------------------------------------------------------------------

(* The frames on the links, by their fields.                               *)
Ips ==
  [src : Hosts, dst : Hosts, ttl : 1..Ttl, ecn : {"ECT_0", "NOT_ECT", "CE"}, total_len : Nat]
Trails == Seq(Switches \X Ports \X Ports)
Frames ==
  [at : (Hosts \cup Switches) \X Ports, src_mac : Nat, dst_mac : Nat, ip : Ips,
   hdr_checksum : Ips, proto : {"udp", "icmp"}, dst_port : {"DATA", "ACK", "none"},
   udp_length : Nat, udp_checksum : Seq(Parts), payload : Seq(Parts),
   sender : Hosts, seq : Nat, trail : Trails, marked : BOOLEAN]

(* The hops of a payload are those the packet has made.                    *)
HopsTrue(hops, trail) ==
  /\ Len(hops) = Len(trail)
  /\ \A i \in 1..Len(hops) :
       /\ hops[i].ingress_port = trail[i][2] /\ hops[i].egress_port = trail[i][3]
       /\ hops[i].link_bps # 0 =>
            /\ hops[i].switch_id = trail[i][1] - 100
            /\ hops[i].link_bps = TrueBps(trail[i][1], trail[i][3])

(* What is in a frame; data packets have no more hops than they have       *)
(* passed switches.                                                        *)
CarriesPing(f) == f.proto = "icmp" /\ f.payload = Padding(56)
CarriesData(f, most) ==
  /\ f.proto = "udp" /\ f.dst_port = "DATA" /\ f.ip.dst = R1
  /\ f.ip.ecn # "NOT_ECT" /\ (f.ip.ecn = "CE" <=> f.marked)
  /\ \E hops \in Seq(HopParts), padding \in {0, MaxPadding} :
       /\ Len(hops) <= most /\ HopsTrue(hops, f.trail)
       /\ f.payload = DataBytes(hops, f.seq, padding)
CarriesAck(f) ==
  /\ f.proto = "udp" /\ f.dst_port = "ACK"  /\ f.ip.dst # R1
  /\ \E hops \in Seq(HopParts) :
       /\ Len(hops) <= 2 /\ HopsTrue(hops, f.trail)
       /\ f.payload = AckBytes(f.marked, hops, f.seq)
Carries(f, most) == CarriesPing(f) \/ CarriesData(f, most) \/ CarriesAck(f)

Lengths(f) ==
  /\ f.ip.total_len = 20 + f.udp_length /\ f.udp_length = 8 + Bytes(f.payload)
  /\ f.udp_checksum \in {Zero, f.payload}

(* Where it can be, and how many switches it has passed there.             *)
Outward(f) ==
  f.ip.dst = R1 /\ f.ip.src = f.sender /\ f.at \in {<<S1, f.sender>>, <<S2, 1>>, <<R1, 0>>}
Homeward(f) ==
  /\ f.ip.dst = f.sender /\ f.ip.src = R1
  /\ f.at \in {<<S2, 2>>, <<S1, BottleneckPort>>, <<f.sender, 0>>}
Passed(at) == IF at[1] = S1 THEN 0 ELSE IF at[1] = S2 THEN 1 ELSE 2

OnTheWay(f) ==
  /\ f \in Frames /\ f.sender \in Senders /\ Carries(f, Passed(f.at)) /\ Lengths(f)
  /\ f.hdr_checksum = f.ip
  /\ Outward(f) \/ Homeward(f)
  /\ f.at[1] \in Hosts => f.dst_mac = Mac(f.at[1])

IInv == Tables /\ drops \in 0..MaxDrops /\ (frame = None \/ OnTheWay(frame))

(* Of two frames at the same place on the same way.                        *)
SameWay(f, g) ==
  /\ g.at = f.at /\ g.ip.src = f.ip.src /\ g.ip.dst = f.ip.dst /\ g.sender = f.sender

(* The ingress of a switch gives a frame the MAC address its route says,   *)
(* and takes one off its time to live.                                     *)
LEMMA IngressKeeps ==
  ASSUME Tables, NEW f \in Frames, NEW most \in Nat, f.at[1] \in Switches, ~Dropped(f),
         Carries(f, most), Lengths(f)
  PROVE  LET g == Ingress(f) IN
         /\ g \in Frames /\ SameWay(f, g) /\ Carries(g, most) /\ Lengths(g)
         /\ g.dst_mac = RightRoute(f.at[1], f.ip.dst).dst_mac
         /\ ipv4_lpm[f.at[1]][f.ip.dst].port = RightRoute(f.at[1], f.ip.dst).port
<1> DEFINE s == f.at[1]
           host == f.ip.dst
           entry == ipv4_lpm[s][host]
           g == Ingress(f)
<1>1. s \in Switches /\ host \in Hosts /\ f.ip.ttl \in 1..Ttl /\ f.ip.ttl > 1
  BY DEF Frames, Ips, Dropped
<1>2. entry \in Entries /\ entry # NoRoute /\ entry \in {NoRoute, RightRoute(s, host)}
  BY <1>1 DEF Tables, TablesType, RoutesSoFar, Dropped
<1>3. entry = RightRoute(s, host) /\ entry.dst_mac \in Nat BY <1>2 DEF Entries
<1> HIDE DEF entry
<1>4. g = [f EXCEPT !.src_mac = f.dst_mac, !.dst_mac = entry.dst_mac, !.ip.ttl = @ - 1]
  BY DEF Ingress, entry
<1> HIDE DEF g
<1>5. /\ g.at = f.at /\ g.src_mac = f.dst_mac /\ g.dst_mac = entry.dst_mac
      /\ g.ip = [f.ip EXCEPT !.ttl = @ - 1] /\ g.hdr_checksum = f.hdr_checksum
      /\ g.proto = f.proto /\ g.dst_port = f.dst_port /\ g.udp_length = f.udp_length
      /\ g.udp_checksum = f.udp_checksum /\ g.payload = f.payload /\ g.sender = f.sender
      /\ g.seq = f.seq /\ g.trail = f.trail /\ g.marked = f.marked
  BY <1>4 DEF Frames
<1>6. /\ g.ip.src = f.ip.src /\ g.ip.dst = f.ip.dst /\ g.ip.ecn = f.ip.ecn
      /\ g.ip.total_len = f.ip.total_len
  BY <1>5 DEF Frames, Ips
<1>7. g \in Frames
  <2>1. f.ip.ttl - 1 \in 1..Ttl BY <1>1, DumbbellAssumption DEF DumbbellAssumption
  <2>2. [f.ip EXCEPT !.ttl = @ - 1] \in Ips BY <2>1 DEF Frames, Ips
  <2> QED BY <1>3, <1>4, <2>2 DEF Frames
<1>8. SameWay(f, g) BY <1>5, <1>6 DEF SameWay
<1>9. Carries(g, most)
  BY <1>5, <1>6 DEF Carries, CarriesPing, CarriesData, CarriesAck
<1>10. Lengths(g) BY <1>5, <1>6 DEF Lengths
<1> QED BY <1>3, <1>5, <1>7, <1>8, <1>9, <1>10 DEF g, entry

(* Whether or not a switch is to add a hop, it puts together again what it *)
(* has taken apart.                                                        *)
LEMMA EmittedSame ==
  ASSUME NEW f \in Frames, NEW most \in Nat, Carries(f, most)
  PROVE  /\ Emitted(f, Headers(f)) = f
         /\ CarriesData(f, most) =>
              \E hops \in Seq(HopParts), padding \in {0, MaxPadding} :
                /\ Len(hops) <= most /\ HopsTrue(hops, f.trail)
                /\ f.payload = DataBytes(hops, f.seq, padding)
                /\ Headers(f) = DataLayout(hops, f.seq, padding)
<1>1. f.seq \in Nat /\ f.marked \in BOOLEAN BY DEF Frames
<1>2. [f EXCEPT !.payload = f.payload] = f BY DEF Frames
<1>3. CASE CarriesPing(f)
  BY <1>3 DEF CarriesPing, CarriesData, Emitted
<1>4. CASE CarriesAck(f)
  <2>1. PICK hops \in Seq(HopParts) : f.payload = AckBytes(f.marked, hops, f.seq)
    BY <1>4 DEF CarriesAck
  <2>2. AckLayout(f.marked, hops, f.seq) \in Layouts("ack") BY <1>1, PayloadTypes
  <2>3. CommonParser(f.payload, "ack") = AckLayout(f.marked, hops, f.seq)
    BY <2>1, <2>2, ParserUndoesDeparser DEF AckBytes, Kinds
  <2>4. Headers(f) = AckLayout(f.marked, hops, f.seq) BY <1>4, <2>3 DEF CarriesAck, Headers
  <2>5. CommonDeparser(Headers(f)) = f.payload BY <2>1, <2>4 DEF AckBytes
  <2> QED BY <1>2, <1>4, <2>5 DEF CarriesAck, CarriesData, Emitted
<1>5. CASE CarriesData(f, most)
  <2>1. PICK hops \in Seq(HopParts), padding \in {0, MaxPadding} :
          /\ Len(hops) <= most /\ HopsTrue(hops, f.trail)
          /\ f.payload = DataBytes(hops, f.seq, padding)
    BY <1>5 DEF CarriesData
  <2>2. padding \in Nat BY DumbbellAssumption DEF DumbbellAssumption
  <2>3. DataLayout(hops, f.seq, padding) \in Layouts("data") BY <1>1, <2>2, PayloadTypes
  <2>4. CommonParser(f.payload, "data") = DataLayout(hops, f.seq, padding)
    BY <2>1, <2>3, ParserUndoesDeparser DEF DataBytes, Kinds
  <2>5. Headers(f) = DataLayout(hops, f.seq, padding)
    BY <1>5, <2>4 DEF CarriesData, Headers
  <2>6. CommonDeparser(Headers(f)) = f.payload BY <2>1, <2>5 DEF DataBytes
  <2>7. Emitted(f, Headers(f)) = f BY <1>2, <2>6 DEF Emitted
  <2> QED BY <2>1, <2>5, <2>7
<1> QED BY <1>3, <1>4, <1>5 DEF Carries

(* The egress of the DCTCP program changes the ECN bits of the packets it  *)
(* marks and nothing else.                                                 *)
LEMMA DctcpEgressKeeps ==
  ASSUME NEW f \in Frames, NEW most \in Nat, NEW q, Carries(f, most), Lengths(f)
  PROVE  LET g == DctcpEgress(f, q) IN
         /\ g \in Frames /\ SameWay(f, g) /\ g.dst_mac = f.dst_mac
         /\ Carries(g, most) /\ Lengths(g)
<1> DEFINE g == DctcpEgress(f, q)
           marks == IsData(f) /\ f.ip.ecn # "NOT_ECT" /\ q > registers[f.at[1]].ecn_threshold[0]
<1>1. g = IF marks THEN [f EXCEPT !.ip.ecn = "CE", !.marked = TRUE] ELSE f
  BY EmittedSame DEF DctcpEgress
<1>2. CASE ~marks BY <1>1, <1>2 DEF SameWay
<1>3. CASE marks
  <2> HIDE DEF g
  <2>1. g = [f EXCEPT !.ip.ecn = "CE", !.marked = TRUE] BY <1>1, <1>3
  <2>2. /\ g.at = f.at /\ g.dst_mac = f.dst_mac /\ g.ip = [f.ip EXCEPT !.ecn = "CE"]
        /\ g.proto = f.proto /\ g.dst_port = f.dst_port /\ g.udp_length = f.udp_length
        /\ g.udp_checksum = f.udp_checksum /\ g.payload = f.payload /\ g.sender = f.sender
        /\ g.seq = f.seq /\ g.trail = f.trail /\ g.marked = TRUE
    BY <2>1 DEF Frames
  <2>3. /\ g.ip.src = f.ip.src /\ g.ip.dst = f.ip.dst /\ g.ip.ecn = "CE"
        /\ g.ip.total_len = f.ip.total_len
    BY <2>2 DEF Frames, Ips
  <2>4. g \in Frames
    <3>1. [f.ip EXCEPT !.ecn = "CE"] \in Ips BY DEF Frames, Ips
    <3> QED BY <2>1, <3>1 DEF Frames
  <2>5. CarriesData(f, most)
    BY <1>3 DEF IsData, Carries, CarriesPing, CarriesAck
  <2>6. CarriesData(g, most) BY <2>2, <2>3, <2>5 DEF CarriesData
  <2>7. Lengths(g) BY <2>2, <2>3 DEF Lengths
  <2> QED BY <2>2, <2>3, <2>4, <2>6, <2>7 DEF SameWay, Carries, g
<1> QED BY <1>2, <1>3

(* The egress of the HPCC program gives a data packet one hop more, with   *)
(* the ports it has passed and the registers of this switch, and lengths   *)
(* that fit.                                                               *)
LEMMA HpccEgressKeeps ==
  ASSUME Tables, NEW f \in Frames, NEW most \in 0..1, NEW q \in Nat, NEW port \in Ports,
         f.at[1] \in Switches, Carries(f, most), Lengths(f)
  PROVE  LET g == HpccEgress(f, port, q) IN
         /\ g \in Frames /\ SameWay(f, g) /\ g.dst_mac = f.dst_mac
         /\ Carries(g, most + 1) /\ Lengths(g)
<1> DEFINE s == f.at[1]
           in == f.at[2]
           hdr == Headers(f)
           hop == IntHop(registers[s].switch_id[0], in, port, q, registers[s].link_bps[port])
           g == HpccEgress(f, port, q)
<1>1. Emitted(f, hdr) = f BY EmittedSame
<1>2. CASE ~CarriesData(f, most)
  <2>1. ~IsData(f) BY <1>2 DEF Carries, CarriesPing, CarriesAck, IsData
  <2>2. g = f BY <1>1, <2>1 DEF HpccEgress
  <2>3. Carries(f, most + 1) BY <1>2 DEF Carries
  <2> QED BY <2>2, <2>3 DEF SameWay
<1>3. CASE CarriesData(f, most)
  <2>1. PICK hops \in Seq(HopParts), padding \in {0, MaxPadding} :
          /\ Len(hops) <= most /\ HopsTrue(hops, f.trail)
          /\ f.payload = DataBytes(hops, f.seq, padding)
          /\ hdr = DataLayout(hops, f.seq, padding)
    BY <1>3, EmittedSame
  <2>2. /\ padding \in Nat /\ f.seq \in Nat /\ Len(hops) \in Nat /\ s \in Switches
        /\ in \in Ports /\ f.trail \in Trails
    BY LenProperties, DumbbellAssumption, SMTT(30) DEF DumbbellAssumption, Frames
  <2>3. hdr.shim.hop_count = Len(hops) BY <2>1 DEF DataLayout, Shim
  <2>4. IsData(f) /\ ~(hdr.shim.hop_count >= MAX_HOPS)
    BY <1>3, <2>1, <2>2, <2>3 DEF IsData, CarriesData, MAX_HOPS
  <2>5. /\ registers[s].switch_id[0] \in Nat /\ registers[s].link_bps[port] \in Nat
        /\ registers[s].link_bps[port] # 0 =>
             /\ registers[s].link_bps[port] = TrueBps(s, port)
             /\ registers[s].switch_id[0] = s - 100
    BY <2>2 DEF Tables, TablesType, RegistersType, BpsSoFar
  <2>6. /\ hop \in HopParts /\ hop.ingress_port = in /\ hop.egress_port = port
        /\ hop.link_bps # 0 => hop.switch_id = s - 100 /\ hop.link_bps = TrueBps(s, port)
    BY <2>2, <2>5, Constants DEF IntHop, HopParts
  <2> HIDE DEF hop
  <2> DEFINE here == <<s, in, port>>
             trail == <<here>> \o f.trail
             more == <<hop>> \o hops
             payload == DataBytes(more, f.seq, padding)
  <2>7. /\ CommonDeparser(PushHop(hdr, hop)) = payload
        /\ more \in Seq(HopParts) /\ Len(more) = Len(hops) + 1
        /\ more[1] = hop /\ \A i \in 1..Len(hops) : more[i + 1] = hops[i]
    BY <2>1, <2>2, <2>6, HopPushed
  <2>8. /\ trail \in Trails /\ Len(trail) = Len(f.trail) + 1
        /\ trail[1] = here /\ \A i \in 1..Len(f.trail) : trail[i + 1] = f.trail[i]
    <3> DEFINE S == Switches \X Ports \X Ports
               a == <<here>>
    <3>1. a \in Seq(S) /\ Len(a) = 1 /\ a[1] = here BY <2>2
    <3>2. f.trail \in Seq(S) /\ Len(f.trail) \in Nat BY <2>2, LenProperties DEF Trails
    <3> HIDE DEF a, S
    <3> DEFINE at == a \o f.trail
    <3>3. /\ at \in Seq(S) /\ Len(at) = Len(a) + Len(f.trail)
          /\ \A i \in 1..(Len(a) + Len(f.trail)) :
               at[i] = IF i <= Len(a) THEN a[i] ELSE f.trail[i - Len(a)]
      BY <3>1, <3>2, ConcatProperties
    <3> HIDE DEF at
    <3>4. Len(at) = Len(f.trail) + 1 /\ at[1] = here BY <3>1, <3>2, <3>3, SMTT(30)
    <3>5. \A i \in 1..Len(f.trail) : at[i + 1] = f.trail[i] BY <3>1, <3>2, <3>3
    <3> QED BY <3>3, <3>4, <3>5 DEF at, a, S, Trails
  <2> HIDE DEF trail, more, hdr
  <2>9. HopsTrue(more, trail)
    <3>1. Len(hops) = Len(f.trail) BY <2>1 DEF HopsTrue
    <3>2. Len(more) = Len(trail) BY <2>7, <2>8, <3>1
    <3>3. ASSUME NEW i \in 1..Len(more)
          PROVE  /\ more[i].ingress_port = trail[i][2] /\ more[i].egress_port = trail[i][3]
                 /\ more[i].link_bps # 0 =>
                      /\ more[i].switch_id = trail[i][1] - 100
                      /\ more[i].link_bps = TrueBps(trail[i][1], trail[i][3])
      <4>1. CASE i = 1 BY <2>6, <2>7, <2>8, <4>1
      <4>2. CASE i # 1
        <5> DEFINE j == i - 1
        <5>1. j \in 1..Len(hops) /\ i = j + 1 BY <2>2, <2>7, <4>2
        <5> HIDE DEF j
        <5>2. more[i] = hops[j] /\ trail[i] = f.trail[j] BY <2>7, <2>8, <3>1, <5>1
        <5> QED BY <2>1, <5>1, <5>2 DEF HopsTrue
      <4> QED BY <4>1, <4>2
    <3> QED BY <3>2, <3>3 DEF HopsTrue
  <2> HIDE DEF payload
  <2> DEFINE x == [f EXCEPT !.trail = trail]
             y == [x EXCEPT !.payload = payload]
             z == [y EXCEPT !.udp_length = @ + 26, !.ip.total_len = @ + 26, !.udp_checksum = Zero]
  <2>10. g = z
    <3>1. x.proto = "udp" BY <1>3 DEF CarriesData, Frames
    <3>2. [f EXCEPT !.trail = <<<<s, in, port>>>> \o @] = x BY DEF trail
    <3>3. g = Fixed(Emitted([f EXCEPT !.trail = <<<<s, in, port>>>> \o @], PushHop(hdr, hop)))
      BY <2>4 DEF HpccEgress, hdr, hop
    <3> HIDE DEF x
    <3>4. Emitted(x, PushHop(hdr, hop)) = y BY <2>7, <3>1 DEF Emitted
    <3> HIDE DEF y, g
    <3> QED BY <3>2, <3>3, <3>4 DEF Fixed, INT_HOP_SIZE
  <2>11. payload \in Seq(Parts) /\ Bytes(payload) = TotalSize(Len(hops) + 1, "data") + padding
         /\ Bytes(f.payload) = TotalSize(Len(hops), "data") + padding
    <3> HIDE DEF hop
    <3>1. payload \in Seq(Parts) /\ Bytes(payload) = TotalSize(Len(more), "data") + padding
      BY <2>2, <2>7, PayloadTypes DEF payload
    <3>2. Bytes(f.payload) = TotalSize(Len(hops), "data") + padding
      BY <2>1, <2>2, PayloadTypes, ZenonT(30)
    <3> QED BY <2>7, <3>1, <3>2
  <2>12. Bytes(payload) = Bytes(f.payload) + 26 /\ Bytes(f.payload) \in Nat
    BY <2>2, <2>11
    DEF TotalSize, PayloadOffset, SHIM_SIZE, INT_HOP_SIZE, DATA_PAYLOAD_SIZE
  <2>13. /\ x \in Frames /\ x.at = f.at /\ x.dst_mac = f.dst_mac /\ x.ip = f.ip
         /\ x.proto = f.proto /\ x.dst_port = f.dst_port /\ x.udp_length = f.udp_length
         /\ x.sender = f.sender /\ x.seq = f.seq /\ x.trail = trail /\ x.marked = f.marked
    BY <2>8 DEF Frames
  <2> HIDE DEF x
  <2>14. /\ y \in Frames /\ y.at = f.at /\ y.dst_mac = f.dst_mac /\ y.ip = f.ip
         /\ y.proto = f.proto /\ y.dst_port = f.dst_port /\ y.udp_length = f.udp_length
         /\ y.sender = f.sender /\ y.seq = f.seq /\ y.trail = trail /\ y.marked = f.marked
         /\ y.payload = payload
    BY <2>11, <2>13 DEF Frames
  <2> HIDE DEF y
  <2>15. /\ z.at = f.at /\ z.dst_mac = f.dst_mac
         /\ z.ip = [f.ip EXCEPT !.total_len = @ + 26]
         /\ z.proto = f.proto /\ z.dst_port = f.dst_port
         /\ z.udp_length = f.udp_length + 26 /\ z.udp_checksum = Zero
         /\ z.sender = f.sender /\ z.seq = f.seq /\ z.trail = trail /\ z.marked = f.marked
         /\ z.payload = payload
    BY <2>14 DEF Frames
  <2>16. z \in Frames
    <3>1. [y.ip EXCEPT !.total_len = @ + 26] \in Ips
      <4>1. y.ip \in Ips BY <2>14 DEF Frames
      <4>2. y.ip.total_len + 26 \in Nat BY <4>1 DEF Ips
      <4> QED BY <4>1, <4>2 DEF Ips
    <3>2. y.udp_length + 26 \in Nat BY <2>14 DEF Frames
    <3>3. Zero \in Seq(Parts) BY DEF Zero
    <3> QED BY <2>14, <3>1, <3>2, <3>3 DEF Frames
  <2> HIDE DEF z
  <2>17. /\ z.ip.src = f.ip.src /\ z.ip.dst = f.ip.dst /\ z.ip.ecn = f.ip.ecn
         /\ z.ip.total_len = f.ip.total_len + 26
    BY <2>15 DEF Frames, Ips
  <2>18. CarriesData(z, most + 1)
    <3>1. Len(more) <= most + 1 BY <2>1, <2>2, <2>7
    <3>2. z.payload = DataBytes(more, z.seq, padding) BY <2>15 DEF payload
    <3>3. z.proto = "udp" /\ z.dst_port = "DATA" /\ z.ip.dst = R1 /\ z.ip.ecn # "NOT_ECT"
          /\ (z.ip.ecn = "CE" <=> z.marked)
      BY <1>3, <2>15, <2>17 DEF CarriesData
    <3>4. HopsTrue(more, z.trail) BY <2>9, <2>15
    <3> QED BY <2>7, <3>1, <3>2, <3>3, <3>4 DEF CarriesData
  <2>19. Lengths(z)
    <3>1. f.ip.total_len \in Nat /\ f.udp_length \in Nat BY DEF Frames, Ips
    <3> QED BY <2>12, <2>15, <2>17, <3>1, SMTT(30) DEF Lengths
  <2> QED BY <2>10, <2>15, <2>16, <2>17, <2>18, <2>19 DEF SameWay, Carries
<1> QED BY <1>2, <1>3

(* Either program lets a frame out with what is true of it.                *)
LEMMA EgressKeeps ==
  ASSUME Tables, NEW f \in Frames, NEW most \in 0..1, NEW q \in Nat, NEW port \in Ports,
         f.at[1] \in Switches, Carries(f, most), Lengths(f)
  PROVE  LET g == Egress(f, port, q) IN
         /\ g \in Frames /\ SameWay(f, g) /\ g.dst_mac = f.dst_mac
         /\ Carries(g, most + 1) /\ Lengths(g)
<1>1. CASE program = "hpcc"
  BY <1>1, HpccEgressKeeps DEF Egress
<1>2. CASE program # "hpcc"
  <2> DEFINE g == DctcpEgress(f, q)
  <2>1. /\ g \in Frames /\ SameWay(f, g) /\ g.dst_mac = f.dst_mac
        /\ Carries(g, most) /\ Lengths(g)
    BY DctcpEgressKeeps
  <2>2. Egress(f, port, q) = g BY <1>2 DEF Egress
  <2> HIDE DEF g
  <2>3. Carries(g, most + 1)
    <3>1. CASE CarriesData(g, most)
      <4>1. PICK hops \in Seq(HopParts), padding \in {0, MaxPadding} :
              /\ Len(hops) <= most /\ HopsTrue(hops, g.trail)
              /\ g.payload = DataBytes(hops, g.seq, padding)
        BY <3>1 DEF CarriesData
      <4>2. Len(hops) <= most + 1 BY <4>1, LenProperties
      <4>3. CarriesData(g, most + 1) BY <3>1, <4>1, <4>2 DEF CarriesData
      <4> QED BY <4>3 DEF Carries
    <3> QED BY <2>1, <3>1 DEF Carries
  <2> QED BY <2>1, <2>2, <2>3
<1> QED BY <1>1, <1>2

(* One link further on the way to the reflector, or back to the sender.    *)
LEMMA NextLink ==
  ASSUME NEW f, OnTheWay(f), f.at[1] \in Switches
  PROVE  LET route == RightRoute(f.at[1], f.ip.dst)
             at == Peer(<<f.at[1], route.port>>) IN
         /\ at \in (Hosts \cup Switches) \X Ports /\ route.port \in Ports
         /\ Passed(f.at) \in 0..1
         /\ \/ /\ f.ip.dst = R1 /\ f.ip.src = f.sender
               /\ at \in {<<S2, 1>>, <<R1, 0>>} /\ Passed(at) = Passed(f.at) + 1
            \/ /\ f.ip.dst = f.sender /\ f.ip.src = R1 /\ f.ip.dst # R1
               /\ at \in {<<S1, BottleneckPort>>, <<f.sender, 0>>}
         /\ at[1] \in Hosts => route.dst_mac = Mac(at[1])
<1>1. f.sender \in Senders BY DEF OnTheWay
<1>2. /\ f.sender \in Hosts /\ f.sender \in Ports /\ f.sender \notin {R1, S1, S2}
      /\ R1 \in Hosts /\ R1 \notin {S1, S2} /\ S1 \notin Hosts /\ S2 \notin Hosts
      /\ S1 # S2 /\ S1 \in Switches /\ S2 \in Switches
      /\ {0, 1, 2, BottleneckPort} \subseteq Ports /\ Switches = {S1, S2}
  BY <1>1, Constants
<1>3. CASE f.at = <<S1, f.sender>> /\ f.ip.dst = R1 /\ f.ip.src = f.sender
  <2>1. Peer(<<S1, BottleneckPort>>) = <<S2, 1>> BY Peers
  <2>2. f.at[1] = S1 /\ RightRoute(S1, R1) = [dst_mac |-> S2GwMac, port |-> BottleneckPort]
    BY <1>3 DEF RightRoute
  <2> QED BY <1>2, <1>3, <2>1, <2>2 DEF Passed
<1>4. CASE f.at = <<S2, 1>> /\ f.ip.dst = R1 /\ f.ip.src = f.sender
  <2>1. Peer(<<S2, 2>>) = <<R1, 0>> BY Peers
  <2>2. f.at[1] = S2 /\ RightRoute(S2, R1) = [dst_mac |-> Mac(R1), port |-> 2]
    BY <1>2, <1>4 DEF RightRoute
  <2> QED BY <1>2, <1>4, <2>1, <2>2 DEF Passed
<1>5. CASE f.at = <<S2, 2>> /\ f.ip.dst = f.sender /\ f.ip.src = R1
  <2>1. Peer(<<S2, 1>>) = <<S1, BottleneckPort>> BY Peers
  <2>2. f.at[1] = S2 /\ RightRoute(S2, f.sender) = [dst_mac |-> S1GwMac, port |-> 1]
    BY <1>2, <1>5 DEF RightRoute
  <2> QED BY <1>2, <1>5, <2>1, <2>2 DEF Passed
<1>6. CASE f.at = <<S1, BottleneckPort>> /\ f.ip.dst = f.sender /\ f.ip.src = R1
  <2>1. Peer(<<S1, f.sender>>) = <<f.sender, 0>> BY <1>1, Peers
  <2>2. f.at[1] = S1
        /\ RightRoute(S1, f.sender) = [dst_mac |-> Mac(f.sender), port |-> f.sender]
    BY <1>2, <1>6 DEF RightRoute
  <2> QED BY <1>2, <1>6, <2>1, <2>2 DEF Passed
<1>7. f.at # <<R1, 0>> /\ f.at # <<f.sender, 0>> BY <1>2
<1> QED BY <1>3, <1>4, <1>5, <1>6, <1>7 DEF OnTheWay, Outward, Homeward

(* A switch that passes a frame on, or drops it, keeps the invariant.      *)
LEMMA ForwardKeeps == IInv /\ Forward => IInv'
<1> SUFFICES ASSUME IInv, Forward PROVE IInv' OBVIOUS
<1> DEFINE f == frame
           s == f.at[1]
           route == RightRoute(s, f.ip.dst)
<1>1. s \in Switches /\ drops' = drops BY DEF Forward, Here
<1>2. OnTheWay(f)
  <2>1. None.at[1] \notin Switches BY Constants DEF None, Nowhere
  <2> QED BY <1>1, <2>1 DEF IInv
<1>3. UNCHANGED <<program, loader_pc, ipv4_lpm, registers>> BY DEF Forward, Becomes
<1>4. Tables' BY <1>3, TablesStay DEF IInv
<1>5. CASE Dropped(f)
  <2>1. frame' = None BY <1>5 DEF Forward, Becomes
  <2> QED BY <1>1, <1>4, <2>1 DEF IInv
<1>6. CASE ~Dropped(f)
  <2> DEFINE port == ipv4_lpm[s][f.ip.dst].port
             g == Ingress(f)
             most == Passed(f.at)
             at == Peer(<<s, port>>)
  <2>1. PICK q \in QDepths : frame' = Departed(Egress(g, port, q), port)
    BY <1>6 DEF Forward, Becomes
  <2> DEFINE h == Egress(g, port, q)
             d == Departed(h, port)
  <2>2. q \in Nat BY DumbbellAssumption DEF DumbbellAssumption
  <2>3. /\ f \in Frames /\ Carries(f, most) /\ Lengths(f) /\ Tables
    BY <1>2 DEF OnTheWay, IInv
  <2>4. /\ most \in 0..1 /\ route.port \in Ports BY <1>1, <1>2, NextLink
  <2>5. /\ g \in Frames /\ SameWay(f, g) /\ Carries(g, most) /\ Lengths(g)
        /\ g.dst_mac = route.dst_mac /\ port = route.port
    BY <1>1, <1>6, <2>3, <2>4, IngressKeeps
  <2>6. g.at[1] \in Switches BY <1>1, <2>5 DEF SameWay
  <2> HIDE DEF g, port, most
  <2>7. /\ h \in Frames /\ SameWay(g, h) /\ h.dst_mac = g.dst_mac
        /\ Carries(h, most + 1) /\ Lengths(h)
    BY <2>2, <2>3, <2>4, <2>5, <2>6, EgressKeeps
  <2> HIDE DEF h
  <2>8. /\ SameWay(f, h) /\ h.dst_mac = route.dst_mac BY <2>5, <2>7 DEF SameWay
  <2>9. /\ at \in (Hosts \cup Switches) \X Ports
        /\ \/ /\ f.ip.dst = R1 /\ f.ip.src = f.sender
              /\ at \in {<<S2, 1>>, <<R1, 0>>} /\ Passed(at) = most + 1
           \/ /\ f.ip.dst = f.sender /\ f.ip.src = R1 /\ f.ip.dst # R1
              /\ at \in {<<S1, BottleneckPort>>, <<f.sender, 0>>}
        /\ at[1] \in Hosts => route.dst_mac = Mac(at[1])
    BY <1>1, <1>2, <2>5, NextLink DEF most
  <2>10. d = [h EXCEPT !.hdr_checksum = h.ip, !.at = at]
    BY <2>8 DEF Departed, SameWay
  <2> HIDE DEF at, d
  <2>11. /\ d \in Frames /\ d.at = at /\ d.dst_mac = h.dst_mac /\ d.ip = h.ip
         /\ d.hdr_checksum = h.ip /\ d.proto = h.proto /\ d.dst_port = h.dst_port
         /\ d.udp_length = h.udp_length /\ d.udp_checksum = h.udp_checksum
         /\ d.payload = h.payload /\ d.sender = h.sender /\ d.seq = h.seq
         /\ d.trail = h.trail /\ d.marked = h.marked
    BY <2>7, <2>9, <2>10 DEF Frames
  <2>12. Lengths(d) BY <2>7, <2>11 DEF Lengths
  <2>13. Carries(d, Passed(at))
    <3>1. Carries(d, most + 1)
      BY <2>7, <2>11 DEF Carries, CarriesPing, CarriesData, CarriesAck
    <3>2. CASE Passed(at) = most + 1 BY <3>1, <3>2
    <3>3. CASE f.ip.dst # R1
      <4>1. ~CarriesData(d, most + 1) BY <2>8, <2>11, <3>3 DEF SameWay, CarriesData
      <4> QED BY <3>1, <4>1 DEF Carries
    <3> QED BY <2>9, <3>2, <3>3
  <2>14. Outward(d) \/ Homeward(d)
    BY <2>8, <2>9, <2>11 DEF SameWay, Outward, Homeward
  <2>15. OnTheWay(d)
    BY <1>2, <2>8, <2>9, <2>11, <2>12, <2>13, <2>14 DEF OnTheWay, SameWay
  <2>16. frame' = d BY <2>1 DEF d, h, g, port
  <2> QED BY <1>1, <1>4, <2>15, <2>16 DEF IInv
<1> QED BY <1>5, <1>6

(* The ends of the links, and which of them are hosts.                     *)
LEMMA PortsOfHosts ==
  /\ \A h \in Senders : <<S1, h>> \in (Hosts \cup Switches) \X Ports /\ h \in Hosts /\ h # R1
  /\ <<S2, 2>> \in (Hosts \cup Switches) \X Ports /\ R1 \in Hosts
  /\ S1 \notin Hosts /\ S2 \notin Hosts /\ S1 # S2 /\ R1 # S1 /\ R1 # S2
BY Constants

(* A frame as a kernel has made it, and on which link.                     *)
AsSent(f, src, dst, ecn, proto, port, payload) ==
  /\ f \in Frames /\ Lengths(f) /\ f.hdr_checksum = f.ip
  /\ f.at = Peer(<<src, 0>>) /\ f.ip.src = src /\ f.ip.dst = dst /\ f.ip.ecn = ecn
  /\ f.proto = proto /\ f.dst_port = port /\ f.payload = payload
  /\ f.sender = src /\ f.trail = << >> /\ f.marked = FALSE

(* Such are the frames of IpFrame.                                         *)
LEMMA Sent ==
  ASSUME NEW src \in Hosts, NEW dst \in Hosts, NEW ecn \in {"ECT_0", "NOT_ECT"},
         NEW proto \in {"udp", "icmp"}, NEW port \in {"DATA", "ACK", "none"},
         NEW payload \in Seq(Parts), Peer(<<src, 0>>) \in (Hosts \cup Switches) \X Ports
  PROVE  AsSent(IpFrame(src, dst, ecn, proto, port, payload),
                src, dst, ecn, proto, port, payload)
<1>1. Bytes(payload) \in Nat BY OffsetSteps, PartsSized, LenProperties
<1>2. \A host \in Hosts : Mac(host) \in Nat BY Constants DEF Mac
<1>3. 1 <= Ttl /\ Ttl \in Nat BY DumbbellAssumption DEF DumbbellAssumption
<1> DEFINE ip == [src |-> Ip(src), dst |-> Ip(dst), ttl |-> Ttl, ecn |-> ecn,
                  total_len |-> 20 + 8 + Bytes(payload)]
           len == 8 + Bytes(payload)
           at == Peer(<<src, 0>>)
           f == IpFrame(src, dst, ecn, proto, port, payload)
<1>4. ip \in Ips /\ ip.src = src /\ ip.dst = dst /\ ip.ecn = ecn
      /\ ip.total_len = 20 + len /\ len \in Nat
  BY <1>1, <1>3 DEF Ips, Ip
<1>5. f = [at |-> at, src_mac |-> Mac(src), dst_mac |-> Mac(dst),
           ip |-> ip, hdr_checksum |-> ip, proto |-> proto, dst_port |-> port,
           udp_length |-> len, udp_checksum |-> payload, payload |-> payload,
           sender |-> src, seq |-> 0, trail |-> << >>, marked |-> FALSE]
  BY DEF IpFrame
<1> HIDE DEF ip, at, f
<1>6. << >> \in Trails BY DEF Trails
<1>7. len \in Nat BY <1>4
<1>8. at \in (Hosts \cup Switches) \X Ports BY DEF at
<1> DEFINE n == len
<1> HIDE DEF n
<1>9. f = [at |-> at, src_mac |-> Mac(src), dst_mac |-> Mac(dst),
           ip |-> ip, hdr_checksum |-> ip, proto |-> proto, dst_port |-> port,
           udp_length |-> n, udp_checksum |-> payload, payload |-> payload,
           sender |-> src, seq |-> 0, trail |-> << >>, marked |-> FALSE]
  BY <1>5 DEF n
<1>10. n \in Nat BY <1>7 DEF n
<1>11. f \in Frames BY <1>2, <1>4, <1>6, <1>8, <1>9, <1>10 DEF Frames
<1>12. /\ f.at = at /\ f.ip = ip /\ f.hdr_checksum = ip /\ f.proto = proto
       /\ f.dst_port = port /\ f.payload = payload /\ f.udp_checksum = payload
       /\ f.udp_length = n /\ f.sender = src /\ f.trail = << >> /\ f.marked = FALSE
  BY <1>9
<1>13. Lengths(f) BY <1>4, <1>12 DEF Lengths, n
<1> QED BY <1>4, <1>11, <1>12, <1>13 DEF AsSent, f, at

(* The names that are used are among those there are.                      *)
LEMMA Literals ==
  /\ "ECT_0" \in {"ECT_0", "NOT_ECT"} /\ "NOT_ECT" \in {"ECT_0", "NOT_ECT"}
  /\ "udp" \in {"udp", "icmp"} /\ "icmp" \in {"udp", "icmp"}
  /\ "DATA" \in {"DATA", "ACK", "none"} /\ "ACK" \in {"DATA", "ACK", "none"}
  /\ "none" \in {"DATA", "ACK", "none"}
OBVIOUS

(* A data packet starts on its way as the invariant has it, without hops;  *)
LEMMA SendDataKeeps ==
  ASSUME IInv, NEW h \in Senders, SendData(h) PROVE IInv'
<1>1. PICK seq \in Seqs, padding \in {0, MaxPadding} :
        frame' = [IpFrame(h, R1, "ECT_0", "udp", "DATA", DataPacketPack(seq, padding))
                    EXCEPT !.seq = seq]
  BY DEF SendData, Becomes
<1>2. Tables' /\ drops' \in 0..MaxDrops
  BY TablesStay DEF SendData, Becomes, IInv
<1>3. seq \in Nat /\ padding \in Nat BY DumbbellAssumption DEF DumbbellAssumption
<1> DEFINE payload == DataBytes(<< >>, seq, padding)
           f == IpFrame(h, R1, "ECT_0", "udp", "DATA", payload)
           g == [f EXCEPT !.seq = seq]
<1>4. << >> \in Seq(HopParts) /\ Len(<< >>) = 0 OBVIOUS
<1>5. payload \in Seq(Parts) BY <1>3, <1>4, PayloadTypes
<1>6. frame' = g BY <1>1, FreshData
<1>7. /\ h \in Hosts /\ R1 \in Hosts /\ h # R1 /\ Peer(<<h, 0>>) = <<S1, h>>
      /\ <<S1, h>> \in (Hosts \cup Switches) \X Ports /\ S1 \notin Hosts
  BY PortsOfHosts, Peers
<1> HIDE DEF payload
<1>8. /\ f \in Frames /\ Lengths(f) /\ f.hdr_checksum = f.ip
      /\ f.at = Peer(<<h, 0>>) /\ f.ip.src = h /\ f.ip.dst = R1 /\ f.ip.ecn = "ECT_0"
      /\ f.proto = "udp" /\ f.dst_port = "DATA" /\ f.payload = payload
      /\ f.sender = h /\ f.trail = << >> /\ f.marked = FALSE
  <2>1. AsSent(f, h, R1, "ECT_0", "udp", "DATA", payload)
    BY <1>5, <1>7, Sent, Literals
  <2> QED BY <2>1 DEF AsSent
<1> HIDE DEF f
<1>9. /\ g \in Frames /\ g.at = f.at /\ g.ip = f.ip
      /\ g.hdr_checksum = f.hdr_checksum /\ g.proto = f.proto /\ g.dst_port = f.dst_port
      /\ g.udp_length = f.udp_length /\ g.udp_checksum = f.udp_checksum
      /\ g.payload = f.payload /\ g.sender = f.sender /\ g.seq = seq
      /\ g.trail = f.trail /\ g.marked = f.marked
  BY <1>3, <1>8 DEF Frames
<1> HIDE DEF g
<1>10. Carries(g, Passed(g.at))
  <2>1. HopsTrue(<< >>, << >>) BY <1>4 DEF HopsTrue
  <2>2. Passed(g.at) = 0 BY <1>7, <1>8, <1>9 DEF Passed
  <2>3. g.payload = DataBytes(<< >>, g.seq, padding) BY <1>8, <1>9 DEF payload
  <2>4. \E hops \in Seq(HopParts), pad \in {0, MaxPadding} :
          /\ Len(hops) <= 0 /\ HopsTrue(hops, g.trail)
          /\ g.payload = DataBytes(hops, g.seq, pad)
    <3> WITNESS << >> \in Seq(HopParts), padding \in {0, MaxPadding}
    <3> QED BY <1>4, <1>8, <1>9, <2>1, <2>3
  <2>5. CarriesData(g, 0) BY <1>8, <1>9, <2>4 DEF CarriesData
  <2> QED BY <2>2, <2>5 DEF Carries
<1>11. Lengths(g) /\ Outward(g) BY <1>7, <1>8, <1>9 DEF Lengths, Outward
<1>12. OnTheWay(g) BY <1>7, <1>8, <1>9, <1>10, <1>11 DEF OnTheWay
<1> QED BY <1>2, <1>6, <1>12 DEF IInv

(* and so does a ping.                                                     *)
LEMMA SendPingKeeps ==
  ASSUME IInv, NEW h \in Senders, SendPing(h) PROVE IInv'
<1> DEFINE payload == Padding(56)
           f == IpFrame(h, R1, "NOT_ECT", "icmp", "none", payload)
<1>1. frame' = f BY DEF SendPing, Becomes
<1>2. Tables' /\ drops' \in 0..MaxDrops
  BY TablesStay DEF SendPing, Becomes, IInv
<1>3. payload \in Seq(Parts) BY PaddingSize
<1>4. /\ h \in Hosts /\ R1 \in Hosts /\ h # R1 /\ Peer(<<h, 0>>) = <<S1, h>>
      /\ <<S1, h>> \in (Hosts \cup Switches) \X Ports /\ S1 \notin Hosts
  BY PortsOfHosts, Peers
<1> HIDE DEF payload
<1>5. /\ f \in Frames /\ Lengths(f) /\ f.hdr_checksum = f.ip
      /\ f.at = Peer(<<h, 0>>) /\ f.ip.src = h /\ f.ip.dst = R1
      /\ f.proto = "icmp" /\ f.payload = payload /\ f.sender = h
  <2>1. AsSent(f, h, R1, "NOT_ECT", "icmp", "none", payload)
    BY <1>3, <1>4, Sent, Literals
  <2> QED BY <2>1 DEF AsSent
<1> HIDE DEF f
<1>6. Carries(f, Passed(f.at)) BY <1>5 DEF Carries, CarriesPing, payload
<1>7. Outward(f) BY <1>4, <1>5 DEF Outward
<1>8. OnTheWay(f) BY <1>4, <1>5, <1>6, <1>7 DEF OnTheWay
<1> QED BY <1>1, <1>2, <1>8 DEF IInv

(* The reflector's answer goes back, with what the packet has brought.     *)
LEMMA ReflectKeeps == IInv /\ Reflect => IInv'
<1> SUFFICES ASSUME IInv, Reflect PROVE IInv' OBVIOUS
<1> DEFINE f == frame
           ce == f.ip.ecn = "CE"
           ack == BuildAck(f.payload, ce)
           reply(proto, port, payload) ==
             [IpFrame(R1, f.ip.src, "NOT_ECT", proto, port, payload)
                EXCEPT !.sender = f.sender, !.seq = f.seq, !.trail = f.trail,
                       !.marked = f.marked]
<1>1. f.at[1] = R1 /\ frame' = Answer(f) BY DEF Reflect, Here, Becomes
<1>2. Tables' /\ drops' \in 0..MaxDrops BY TablesStay DEF Reflect, Becomes, IInv
<1>3. OnTheWay(f)
  <2>1. None.at[1] # R1 BY Constants DEF None, Nowhere
  <2> QED BY <1>1, <2>1 DEF IInv
<1>4. /\ f \in Frames /\ f.sender \in Senders /\ f.ip.dst = R1 /\ f.ip.src = f.sender
      /\ Passed(f.at) = 2
  <2>1. f.sender \in Senders /\ f.sender # R1 /\ S1 # R1 /\ S2 # R1
    BY <1>3, PortsOfHosts DEF OnTheWay
  <2>2. ~Homeward(f) BY <1>1, <2>1 DEF Homeward
  <2> QED BY <1>1, <1>3, <2>1, <2>2 DEF OnTheWay, Outward, Passed
<1>5. ASSUME NEW proto \in {"udp", "icmp"}, NEW port \in {"ACK", "none"},
             NEW payload \in Seq(Parts), NEW g, g = reply(proto, port, payload),
             \/ proto = "icmp" /\ payload = Padding(56)
             \/ /\ proto = "udp" /\ port = "ACK"
                /\ \E hops \in Seq(HopParts) :
                     /\ Len(hops) <= 2 /\ HopsTrue(hops, f.trail)
                     /\ payload = AckBytes(f.marked, hops, f.seq)
      PROVE  OnTheWay(g)
  <2> DEFINE h == IpFrame(R1, f.sender, "NOT_ECT", proto, port, payload)
  <2>1. /\ f.sender \in Hosts /\ R1 \in Hosts /\ f.sender # R1
        /\ Peer(<<R1, 0>>) = <<S2, 2>>
        /\ <<S2, 2>> \in (Hosts \cup Switches) \X Ports /\ S2 \notin Hosts
    BY <1>4, PortsOfHosts, Peers
  <2>2. /\ h \in Frames /\ Lengths(h) /\ h.hdr_checksum = h.ip
        /\ h.at = Peer(<<R1, 0>>) /\ h.ip.src = R1 /\ h.ip.dst = f.sender
        /\ h.proto = proto /\ h.dst_port = port /\ h.payload = payload
    <3>1. port \in {"DATA", "ACK", "none"} BY <1>5
    <3>2. AsSent(h, R1, f.sender, "NOT_ECT", proto, port, payload)
      BY <1>5, <2>1, <3>1, Sent, Literals
    <3> QED BY <3>2 DEF AsSent
  <2>3. g = [h EXCEPT !.sender = f.sender, !.seq = f.seq, !.trail = f.trail,
                      !.marked = f.marked]
    BY <1>4, <1>5
  <2> HIDE DEF h
  <2>4. /\ g \in Frames /\ g.at = h.at /\ g.ip = h.ip
        /\ g.hdr_checksum = h.hdr_checksum /\ g.proto = h.proto /\ g.dst_port = h.dst_port
        /\ g.udp_length = h.udp_length /\ g.udp_checksum = h.udp_checksum
        /\ g.payload = h.payload /\ g.sender = f.sender /\ g.seq = f.seq
        /\ g.trail = f.trail /\ g.marked = f.marked
    BY <1>4, <2>1, <2>2, <2>3 DEF Frames
  <2>5. Carries(g, Passed(g.at))
    BY <1>5, <2>1, <2>2, <2>4 DEF Carries, CarriesPing, CarriesAck
  <2>6. Lengths(g) /\ Homeward(g) BY <2>1, <2>2, <2>4 DEF Lengths, Homeward
  <2> QED BY <1>4, <2>1, <2>2, <2>4, <2>5, <2>6 DEF OnTheWay
<1>6. Answer(f) = IF ~Accepted(f) THEN None
                  ELSE IF f.proto = "icmp" THEN reply("icmp", "none", f.payload)
                  ELSE IF ack = NoAck THEN None ELSE reply("udp", "ACK", ack)
  BY DEF Answer
<1>7. CASE ~Accepted(f)
  <2>1. frame' = None BY <1>1, <1>6, <1>7
  <2> QED BY <1>2, <2>1 DEF IInv
<1>8. CASE Accepted(f) /\ CarriesPing(f)
  <2>1. frame' = reply("icmp", "none", f.payload)
    BY <1>1, <1>6, <1>8 DEF CarriesPing
  <2>2. f.payload \in Seq(Parts) /\ f.payload = Padding(56)
    BY <1>4, <1>8 DEF CarriesPing, Frames
  <2> HIDE DEF reply
  <2>3. OnTheWay(frame') BY <1>5, <2>1, <2>2
  <2> QED BY <1>2, <2>3 DEF IInv
<1>9. CASE Accepted(f) /\ CarriesData(f, 2)
  <2>1. PICK hops \in Seq(HopParts), padding \in {0, MaxPadding} :
          /\ Len(hops) <= 2 /\ HopsTrue(hops, f.trail)
          /\ f.payload = DataBytes(hops, f.seq, padding)
    BY <1>9 DEF CarriesData
  <2>2. f.seq \in Nat /\ padding \in Nat /\ f.marked \in BOOLEAN /\ Len(hops) \in Nat
    BY <1>4, DumbbellAssumption, LenProperties DEF DumbbellAssumption, Frames
  <2>3. ce = f.marked BY <1>9, <2>2 DEF CarriesData
  <2>4. Len(hops) <= MAX_HOPS BY <2>1, <2>2 DEF MAX_HOPS
  <2>5. ack = AckBytes(f.marked, hops, f.seq) /\ ack # NoAck
    BY <2>1, <2>2, <2>3, <2>4, ReflectorAnswers
  <2>6. ack \in Seq(Parts)
    <3>1. AckBytes(f.marked, hops, f.seq) \in Seq(Parts) BY <2>2, PayloadTypes
    <3> QED BY <2>5, <3>1
  <2>7. frame' = reply("udp", "ACK", ack)
    BY <1>1, <1>6, <1>9, <2>5 DEF CarriesData
  <2> HIDE DEF reply, ack
  <2>8. OnTheWay(frame') BY <1>5, <2>1, <2>5, <2>6, <2>7
  <2> QED BY <1>2, <2>8 DEF IInv
<1>10. ~CarriesAck(f) BY <1>4 DEF CarriesAck
<1>11. Carries(f, 2) BY <1>3, <1>4 DEF OnTheWay
<1> QED BY <1>7, <1>8, <1>9, <1>10, <1>11 DEF Carries

-----------------------------------------------------------------------------

(* Every step keeps the invariant.                                         *)
LEMMA Inductive == IInv /\ [Next]_vars => IInv'
<1> SUFFICES ASSUME IInv, [Next]_vars PROVE IInv' OBVIOUS
<1>1. CASE LoadNext
  <2>1. Tables' BY <1>1, TablesLoaded DEF IInv
  <2>2. UNCHANGED <<frame, drops>> BY <1>1 DEF LoadNext
  <2> QED BY <2>1, <2>2 DEF IInv
<1>2. CASE LoadFails
  <2>1. Tables' BY <1>2, TablesFail DEF IInv
  <2>2. UNCHANGED <<frame, drops>> BY <1>2 DEF LoadFails
  <2> QED BY <2>1, <2>2 DEF IInv
<1>3. ASSUME NEW h \in Senders, SendData(h) \/ SendPing(h) PROVE IInv'
  BY <1>3, SendDataKeeps, SendPingKeeps
<1>4. CASE Forward BY <1>4, ForwardKeeps
<1>5. CASE QueueDrops
  <2>1. drops < MaxDrops /\ frame' = None /\ drops' = drops + 1
    BY <1>5 DEF QueueDrops, Becomes
  <2>2. Tables' BY <1>5, TablesStay DEF QueueDrops, Becomes, IInv
  <2>3. drops' \in 0..MaxDrops
    BY <2>1, DumbbellAssumption DEF DumbbellAssumption, IInv
  <2> QED BY <2>1, <2>2, <2>3 DEF IInv
<1>6. CASE Reflect BY <1>6, ReflectKeeps
<1>7. CASE Receive
  <2>1. frame' = None /\ drops' = drops BY <1>7 DEF Receive, Becomes
  <2>2. Tables' BY <1>7, TablesStay DEF Receive, Becomes, IInv
  <2> QED BY <2>1, <2>2 DEF IInv
<1>8. CASE UNCHANGED vars
  <2>1. UNCHANGED <<program, loader_pc, ipv4_lpm, registers>> /\ UNCHANGED <<frame, drops>>
    BY <1>8 DEF vars
  <2>2. Tables' BY <2>1, TablesStay DEF IInv
  <2> QED BY <2>1, <2>2 DEF IInv
<1> QED BY <1>1, <1>2, <1>3, <1>4, <1>5, <1>6, <1>7, <1>8 DEF Next

(* It holds before anything is loaded or sent.                             *)
LEMMA Initially == Init => IInv
BY TablesInit, DumbbellAssumption DEF DumbbellAssumption, Init, IInv

(* The invariant holds throughout, with any number of senders, whatever is *)
(* dropped and wherever the loader fails.                                  *)
THEOREM IInvHolds == Spec => []IInv
BY Initially, Inductive, PTL DEF Spec

(* The largest frame there can be, a padded data packet with both hops,    *)
(* fits the links.                                                         *)
FramesFit == 20 + 8 + TotalSize(2, "data") + MaxPadding <= Mtu

(* Every variable has its type: frames are at nodes there are, and the     *)
(* tables have an entry for every host and a register for every port.      *)
THEOREM TypesHold == Spec => []TypeOK
<1>1. IInv => TypeOK
  <2> SUFFICES ASSUME IInv PROVE TypeOK OBVIOUS
  <2>1. Underway => frame.at[1] \in Hosts \cup Switches /\ frame.ip.ttl \in 1..Ttl
    BY DEF IInv, Underway, OnTheWay, Frames, Ips
  <2>2. \A s \in Switches, host \in Hosts :
          ipv4_lpm[s][host].port \in Ports /\ DOMAIN ipv4_lpm[s] = Hosts
    BY DEF IInv, Tables, TablesType, Entries
  <2>3. \A s \in Switches : DOMAIN registers[s].link_bps = Ports
    BY DEF IInv, Tables, TablesType, RegistersType
  <2> QED BY <2>1, <2>2, <2>3 DEF TypeOK, IInv, Tables, TablesType
<1> QED BY <1>1, IInvHolds, PTL

(* Every frame on a link has lengths and checksums that fit what is in it, *)
(* after whatever the switches have inserted, and is no longer than a link *)
(* takes, if the largest one is not.                                       *)
THEOREM EveryFrameWellFormed == FramesFit => (Spec => []WellFormed)
<1> SUFFICES ASSUME FramesFit PROVE Spec => []WellFormed OBVIOUS
<1>1. IInv => WellFormed
  <2> SUFFICES ASSUME IInv, Underway PROVE WellFormed BY DEF WellFormed
  <2> DEFINE f == frame
  <2>1. OnTheWay(f) BY DEF IInv, Underway
  <2>2. Passed(f.at) \in 0..2 /\ MaxPadding \in Nat /\ Mtu \in Nat
    BY DumbbellAssumption DEF Passed, DumbbellAssumption
  <2>3. Bytes(f.payload) \in Nat
    <3>1. f.payload \in Seq(Parts) BY <2>1 DEF OnTheWay, Frames
    <3> QED BY <3>1, OffsetSteps, PartsSized, LenProperties
  <2>4. f.seq \in Nat /\ f.marked \in BOOLEAN BY <2>1 DEF OnTheWay, Frames
  <2>5. \A n \in 0..2, kind \in Kinds : /\ TotalSize(n, kind) \in Nat
                                        /\ TotalSize(n, kind) <= TotalSize(2, "data")
    BY DEF TotalSize, PayloadOffset, SHIM_SIZE, INT_HOP_SIZE, DATA_PAYLOAD_SIZE,
           ACK_PAYLOAD_SIZE
  <2>6. TotalSize(2, "data") = 72
    BY DEF TotalSize, PayloadOffset, SHIM_SIZE, INT_HOP_SIZE, DATA_PAYLOAD_SIZE
  <2>7. Bytes(f.payload) <= TotalSize(2, "data") + MaxPadding
    <3>1. CASE CarriesPing(f)
      <4>1. Bytes(f.payload) = 56 BY <3>1, PaddingSize DEF CarriesPing
      <4> QED BY <2>2, <2>6, <4>1
    <3>2. CASE CarriesData(f, Passed(f.at))
      <4>1. PICK hops \in Seq(HopParts), padding \in {0, MaxPadding} :
              /\ Len(hops) <= Passed(f.at) /\ f.payload = DataBytes(hops, f.seq, padding)
        BY <3>2 DEF CarriesData
      <4> DEFINE n == Len(hops)
      <4>2. n \in Nat BY LenProperties
      <4>3. n <= Passed(f.at) BY <4>1
      <4> HIDE DEF n
      <4>4. n \in 0..2 BY <2>2, <4>2, <4>3
      <4>5. Len(hops) \in 0..2 /\ padding \in Nat /\ padding <= MaxPadding
        BY <2>2, <4>4 DEF n
      <4>6. Bytes(f.payload) = TotalSize(Len(hops), "data") + padding
        BY <2>4, <4>1, <4>5, PayloadTypes
      <4>7. TotalSize(Len(hops), "data") \in Nat
            /\ TotalSize(Len(hops), "data") <= TotalSize(2, "data")
        BY <2>5, <4>5 DEF Kinds
      <4> QED BY <2>2, <2>6, <4>5, <4>6, <4>7
    <3>3. CASE CarriesAck(f)
      <4>1. PICK hops \in Seq(HopParts) :
              /\ Len(hops) <= 2 /\ f.payload = AckBytes(f.marked, hops, f.seq)
        BY <3>3 DEF CarriesAck
      <4> DEFINE n == Len(hops)
      <4>2. n \in Nat BY LenProperties
      <4>3. n <= 2 BY <4>1
      <4> HIDE DEF n
      <4>4. n \in 0..2 BY <4>2, <4>3
      <4>5. Len(hops) \in 0..2 BY <4>4 DEF n
      <4>6. Bytes(f.payload) = TotalSize(Len(hops), "ack")
        BY <2>4, <4>1, <4>5, PayloadTypes
      <4>7. TotalSize(Len(hops), "ack") \in Nat
            /\ TotalSize(Len(hops), "ack") <= TotalSize(2, "data")
        BY <2>5, <4>5 DEF Kinds
      <4> QED BY <2>2, <2>6, <4>6, <4>7
    <3> QED BY <2>1, <3>1, <3>2, <3>3 DEF OnTheWay, Carries
  <2>8. f.ip.total_len = 20 + (8 + Bytes(f.payload)) /\ f.udp_length = 8 + Bytes(f.payload)
    BY <2>1 DEF OnTheWay, Lengths
  <2>9. f.ip.total_len <= Mtu BY <2>2, <2>3, <2>6, <2>7, <2>8 DEF FramesFit
  <2> QED BY <2>1, <2>9 DEF WellFormed, OnTheWay, Lengths
<1> QED BY <1>1, IInvHolds, PTL

(* A frame is only ever at an end of a link there is, and a host only gets *)
(* frames for its own MAC and IP address.                                  *)
THEOREM EveryFrameDeliveredRight == Spec => []DeliveredRight
<1>1. IInv => DeliveredRight
  <2> SUFFICES ASSUME IInv, Underway PROVE DeliveredRight BY DEF DeliveredRight
  <2> DEFINE f == frame
  <2>1. OnTheWay(f) BY DEF IInv, Underway
  <2>2. f.at # Nowhere
    <3>1. f.at[1] \in Hosts \cup Switches BY <2>1 DEF OnTheWay, Frames
    <3> QED BY <3>1, Constants DEF Nowhere
  <2>3. f.at[1] \in Hosts => f.ip.dst = f.at[1]
    <3>1. S1 \notin Hosts /\ S2 \notin Hosts BY PortsOfHosts
    <3> QED BY <2>1, <3>1 DEF OnTheWay, Outward, Homeward
  <2> QED BY <2>1, <2>2, <2>3 DEF DeliveredRight, OnTheWay, Ip
<1> QED BY <1>1, IInvHolds, PTL

(* What a sender finds in an ACK, whichever of the three reads it.         *)
LEMMA AckAtSender ==
  ASSUME IInv, Underway, AtSender(frame), IsAck(frame)
  PROVE  \E hops \in Seq(HopParts) :
           /\ HopsTrue(hops, frame.trail) /\ Len(hops) \in Nat
           /\ frame.trail \in Trails
           /\ \A limit \in {MAX_HOPS, 8, 255} :
                UnpackAck(frame.payload, limit)
                  = [seq |-> frame.seq, ecn_echo |-> frame.marked, hops |-> hops]
<1> DEFINE f == frame
<1>1. OnTheWay(f) BY DEF IInv, Underway
<1>2. CarriesAck(f)
  BY <1>1 DEF IsAck, OnTheWay, Carries, CarriesPing, CarriesData
<1>3. PICK hops \in Seq(HopParts) :
        /\ Len(hops) <= 2 /\ HopsTrue(hops, f.trail)
        /\ f.payload = AckBytes(f.marked, hops, f.seq)
  BY <1>2 DEF CarriesAck
<1>4. f.seq \in Nat /\ f.marked \in BOOLEAN /\ f.trail \in Trails
  BY <1>1 DEF OnTheWay, Frames
<1>5. ASSUME NEW limit \in {MAX_HOPS, 8, 255}
      PROVE  UnpackAck(f.payload, limit)
               = [seq |-> f.seq, ecn_echo |-> f.marked, hops |-> hops]
  <2>1. limit \in Nat /\ Len(hops) <= limit BY <1>3, LenProperties DEF MAX_HOPS
  <2>2. UnpackAck(AckBytes(f.marked, hops, f.seq), limit)
          = [seq |-> f.seq, ecn_echo |-> f.marked, hops |-> hops]
    BY <1>4, <2>1, AckRead
  <2> QED BY <1>3, <2>2
<1> QED BY <1>3, <1>4, <1>5, LenProperties

(* An ACK tells its sender the number of the packet it sent, whether a     *)
(* switch marked that packet, and one hop for each switch that added one,  *)
(* in order; the three senders read the same.                              *)
THEOREM EveryRoundTripTrue == Spec => []RoundTrip
<1>1. IInv => RoundTrip
  <2> SUFFICES ASSUME IInv, Underway, AtSender(frame), IsAck(frame) PROVE RoundTrip
    BY DEF RoundTrip
  <2> DEFINE f == frame
             ack == HpccParseAck(f.payload)
  <2>1. PICK hops \in Seq(HopParts) :
          /\ HopsTrue(hops, f.trail) /\ Len(hops) \in Nat /\ f.trail \in Trails
          /\ \A limit \in {MAX_HOPS, 8, 255} :
               UnpackAck(f.payload, limit)
                 = [seq |-> f.seq, ecn_echo |-> f.marked, hops |-> hops]
    BY AckAtSender
  <2>2. /\ ack = [seq |-> f.seq, ecn_echo |-> f.marked, hops |-> hops]
        /\ CParseAck(f.payload) = ack
        /\ DctcpUnpackAck(f.payload) = [ack EXCEPT !.hops = << >>]
    BY <2>1 DEF HpccParseAck, CParseAck, DctcpUnpackAck
  <2>3. DOMAIN hops = 1..Len(hops) /\ DOMAIN f.trail = 1..Len(hops)
    BY <2>1, LenProperties DEF HopsTrue, Trails
  <2>4. [i \in DOMAIN hops |-> <<hops[i].ingress_port, hops[i].egress_port>>]
          = [i \in DOMAIN f.trail |-> <<f.trail[i][2], f.trail[i][3]>>]
    BY <2>1, <2>3 DEF HopsTrue
  <2> QED BY <2>2, <2>4 DEF RoundTrip
<1> QED BY <1>1, IInvHolds, PTL

(* A hop with a capacity has the name of its switch and the capacity of    *)
(* the very port the packet left through, also while the tables are half   *)
(* loaded.                                                                 *)
THEOREM EveryHopNamedRight == Spec => []NamedRight
<1>1. IInv => NamedRight
  <2> SUFFICES ASSUME IInv, Underway, AtSender(frame), IsAck(frame) PROVE NamedRight
    BY DEF NamedRight
  <2> DEFINE f == frame
  <2>1. PICK hops \in Seq(HopParts) :
          /\ HopsTrue(hops, f.trail) /\ Len(hops) \in Nat
          /\ \A limit \in {MAX_HOPS, 8, 255} :
               UnpackAck(f.payload, limit)
                 = [seq |-> f.seq, ecn_echo |-> f.marked, hops |-> hops]
    BY AckAtSender
  <2>2. HpccParseAck(f.payload).hops = hops BY <2>1 DEF HpccParseAck
  <2>3. DOMAIN hops = 1..Len(hops) BY LenProperties
  <2> QED BY <2>1, <2>2, <2>3 DEF NamedRight, HopsTrue
<1> QED BY <1>1, IInvHolds, PTL

=============================================================================
