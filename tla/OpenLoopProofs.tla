--------------------------- MODULE OpenLoopProofs ---------------------------
(***************************************************************************)
(* The open-loop harness, whatever the number of switches, their queues    *)
(* and threshold, and the number of packets are: its log has a packet once *)
(* at most, with the mark of that very packet, and fits what it returns;   *)
(* and no switch counts too many packets, or marks.                        *)
(***************************************************************************)
EXTENDS OpenLoop, FiniteSetTheorems, TLAPS

(* Where the number of a packet may be.                                    *)
Place == {p \in Switches \X Nat : p[2] \in 1..Len(queue[p[1]])}
EntryAt(p) == queue[p[1]][p[2]]
Queued == {EntryAt(p).pkt.seq : p \in Place}
Arrived == {arrived[i].seq : i \in 1..Len(arrived)}
Answered == {a.seq : a \in acks}
InHand == {a.seq : a \in {in_hand} \ {Nothing}}
Logged == {rows[i].seq : i \in 1..Len(rows)}
Reached == Arrived \cup Answered \cup InHand \cup Logged

Pkts == [seq : Nat, ecn : {"Ect0", "Ce"}]
Entries == [pkt : Pkts, enq_qdepth : Nat]
Answers == [seq : Nat, echo : BOOLEAN]

(* The inductive invariant, in parts: the types;                           *)
CountersTyped ==
  /\ data_pkt_count \in [Switches -> Nat] /\ data_held \in [Switches -> Nat]
  /\ marked_pkt_count \in [Switches -> Nat] /\ marked_held \in [Switches -> Nat]
Typed ==
  /\ queue \in [Switches -> Seq(Entries)] /\ arrived \in Seq(Pkts)
  /\ CountersTyped
  /\ seq \in Nat /\ pending \subseteq Nat /\ marked \subseteq Nat
  /\ acks \subseteq Answers /\ rows \in Seq(Answers) /\ in_hand \in Answers \cup {Nothing}
  /\ (listener_pc = "write") = (in_hand # Nothing)

(* no number is used before it is sent;                                    *)
SentOnly ==
  /\ Queued \cup Reached \cup marked \subseteq 0..(seq - 1)
  /\ pending \subseteq 0..seq /\ (seq \in pending => main_pc # "loop")

(* a packet is pending, in the listener's hand or in the log, once;        *)
HeldOnce ==
  /\ pending \cap (InHand \cup Logged) = {} /\ InHand \cap Logged = {}
  /\ LoggedOnce

(* as long as the log is open it is one of the three;                      *)
Accounted ==
  main_pc # "done" /\ ~failed =>
    pending \cup InHand \cup Logged = 0..(IF main_pc = "registered" THEN seq ELSE seq - 1)

(* a packet is in one place of the queues, and behind them only when it is *)
(* no longer in one;                                                       *)
QueuedOnce ==
  /\ \A p, q \in Place : EntryAt(p).pkt.seq = EntryAt(q).pkt.seq => p = q
  /\ Queued \cap Reached = {}

(* it carries its mark, and its answer the echo of it;                     *)
Echoes(a) == a.echo = (a.seq \in marked)
MarkCarried ==
  /\ \A p \in Place : (EntryAt(p).pkt.ecn = "Ce") = (EntryAt(p).pkt.seq \in marked)
  /\ \A i \in 1..Len(arrived) : (arrived[i].ecn = "Ce") = (arrived[i].seq \in marked)
  /\ \A a \in acks \cup ({in_hand} \ {Nothing}) : Echoes(a)
  /\ EchoIsMark

(* and a join that has seen the listener's end is the end of it.           *)
JoinedIsEnd ==
  /\ joined => listener_pc = "ended"
  /\ main_pc \in {"loop", "registered", "drain", "join"} => ~joined
  /\ summary # NoSummary => main_pc = "done"

IInv ==
  /\ Typed /\ SentOnly /\ HeldOnce /\ Accounted /\ QueuedOnce /\ MarkCarried
  /\ JoinedIsEnd /\ SummaryFitsLog

-----------------------------------------------------------------------------

(* The steps that leave packets, answers and rows alone.                   *)
Aside ==
  \/ Register \/ SendFails \/ TimeUp \/ SetStop \/ Join \/ CloseSocket \/ CloseLog
  \/ CheckStop \/ RecvNothing \/ UNCHANGED vars

(* A step is one of those, or moves a packet, its answer or its row.       *)
LEMMA NextCases ==
  ASSUME [Next]_vars
  PROVE  \/ Aside \/ Send \/ WriteRow \/ Reflect \/ ReflectorFails
         \/ \E a \in acks : Recv(a)
         \/ \E i \in Switches : Forward(i)
BY DEF Next, Aside, Terminated

(* They leave every number where it is; only Register makes one pending.   *)
LEMMA AsideEffect ==
  ASSUME Aside
  PROVE  /\ UNCHANGED <<queue, counters, arrived, rows, in_hand, acks, marked, seq>>
         /\ pending' = pending \/ (Register /\ pending' = pending \cup {seq})
         /\ Place' = Place /\ Queued' = Queued /\ Reached' = Reached
         /\ InHand' = InHand /\ Logged' = Logged
         /\ \A p : EntryAt(p)' = EntryAt(p)
<1>1. /\ UNCHANGED <<queue, counters, arrived, rows, in_hand, acks, marked, seq>>
      /\ pending' = pending \/ (Register /\ pending' = pending \cup {seq})
  BY DEF Aside, Register, SendFails, TimeUp, SetStop, Join, CloseSocket, CloseLog,
     CheckStop, RecvNothing, switch_vars, listener_vars, main_vars, vars
<1>2. Place' = Place /\ \A p : EntryAt(p)' = EntryAt(p)
  BY <1>1 DEF Place, EntryAt
<1>3. Queued' = Queued /\ Reached' = Reached /\ InHand' = InHand /\ Logged' = Logged
  BY <1>1, <1>2 DEF Queued, Reached, Arrived, Answered, InHand, Logged
<1> QED BY <1>1, <1>2, <1>3

(* What is in a place, and where the heads of the queues are.              *)
LEMMA PlaceFacts ==
  ASSUME Typed
  PROVE  /\ \A p \in Place :
              /\ p[1] \in Switches /\ p[2] \in Nat \ {0} /\ p = <<p[1], p[2]>>
              /\ EntryAt(p) \in Entries /\ EntryAt(p).pkt.seq \in Queued
         /\ \A i \in Switches : queue[i] # <<>> =>
              <<i, 1>> \in Place /\ Head(queue[i]) = EntryAt(<<i, 1>>)
<1>1. queue \in [Switches -> Seq(Entries)] BY DEF Typed
<1>2. ASSUME NEW i \in Switches, NEW a \in Nat, <<i, a>> \in Place
      PROVE  a # 0 /\ EntryAt(<<i, a>>) \in Entries
  <2>1. a \in 1..Len(queue[i]) BY <1>2 DEF Place
  <2>2. queue[i] \in Seq(Entries) BY <1>1
  <2>3. queue[i][a] \in Entries BY <2>1, <2>2
  <2> QED BY <2>1, <2>3 DEF EntryAt
<1>3. \A p \in Place : p \in Switches \X Nat /\ p = <<p[1], p[2]>> BY DEF Place
<1>4. ASSUME NEW i \in Switches, queue[i] # <<>>
      PROVE  <<i, 1>> \in Place /\ Head(queue[i]) = EntryAt(<<i, 1>>)
  <2>1. queue[i] \in Seq(Entries) BY <1>1
  <2>2. 1 \in 1..Len(queue[i]) /\ Head(queue[i]) = queue[i][1] BY <1>4, <2>1
  <2> QED BY <2>2 DEF Place, EntryAt
<1> QED BY <1>2, <1>3, <1>4 DEF Queued

(* Of the queues after a packet has joined one: every place held what it   *)
(* holds before, but for the packet's own at the end.                      *)
LEMMA JoinedEffect ==
  ASSUME NEW q \in [Switches -> Seq(Entries)], NEW i \in Switches, NEW p \in Pkts
  PROVE  /\ Joined(q, i, p) \in [Switches -> Seq(Entries)]
         /\ \A j \in Switches : \A a \in 1..Len(Joined(q, i, p)[j]) :
              \/ a \in 1..Len(q[j]) /\ Joined(q, i, p)[j][a] = q[j][a]
              \/ /\ j = i /\ a = Len(q[i]) + 1
                 /\ Joined(q, i, p)[j][a].pkt = p
<1>1. CASE ~(Len(q[i]) < QueueDepth)
  BY <1>1 DEF Joined
<1>2. CASE Len(q[i]) < QueueDepth
  <2> DEFINE e == [pkt |-> p, enq_qdepth |-> Len(q[i])]
  <2>1. e \in Entries /\ e.pkt = p BY DEF Entries
  <2>2. Joined(q, i, p) = [q EXCEPT ![i] = Append(q[i], e)] BY <1>2 DEF Joined
  <2>3. /\ Append(q[i], e) \in Seq(Entries) /\ Len(Append(q[i], e)) = Len(q[i]) + 1
        /\ Append(q[i], e)[Len(q[i]) + 1] = e
        /\ \A a \in 1..Len(q[i]) : Append(q[i], e)[a] = q[i][a]
    BY <2>1
  <2>4. \A a \in 1..(Len(q[i]) + 1) : a \in 1..Len(q[i]) \/ a = Len(q[i]) + 1
    OBVIOUS
  <2> HIDE DEF e
  <2> QED BY <2>1, <2>2, <2>3, <2>4
<1> QED BY <1>1, <1>2

(* A packet joins the first queue, or is dropped.                          *)
LEMMA SendEffect ==
  ASSUME Typed, Send
  PROVE  /\ UNCHANGED <<counters, arrived, rows, in_hand, acks, marked, pending,
                        listener_pc, joined, summary, failed>>
         /\ main_pc = "registered" /\ main_pc' = "loop" /\ seq' = seq + 1
         /\ queue' \in [Switches -> Seq(Entries)]
         /\ \E new \in Switches \X Nat : \A p \in Place' :
              \/ p \in Place /\ EntryAt(p)' = EntryAt(p)
              \/ p = new /\ EntryAt(p)'.pkt = [seq |-> seq, ecn |-> "Ect0"]
         /\ Reached' = Reached /\ InHand' = InHand /\ Logged' = Logged
<1>1. /\ UNCHANGED <<counters, arrived, rows, in_hand, acks, marked, pending,
                     listener_pc, joined, summary, failed>>
      /\ main_pc = "registered" /\ main_pc' = "loop" /\ seq' = seq + 1
      /\ queue' = Joined(queue, 1, [seq |-> seq, ecn |-> "Ect0"])
  BY DEF Send, listener_vars
<1>2. /\ 1 \in Switches /\ queue \in [Switches -> Seq(Entries)]
      /\ [seq |-> seq, ecn |-> "Ect0"] \in Pkts
  BY SwitchAssumption DEF SwitchAssumption, Switches, Typed, Pkts
<1>3. /\ queue' \in [Switches -> Seq(Entries)]
      /\ \A j \in Switches : \A a \in 1..Len(queue'[j]) :
           \/ a \in 1..Len(queue[j]) /\ queue'[j][a] = queue[j][a]
           \/ /\ j = 1 /\ a = Len(queue[1]) + 1
              /\ queue'[j][a].pkt = [seq |-> seq, ecn |-> "Ect0"]
  BY <1>1, <1>2, JoinedEffect
<1>4. \A p \in Place' :
        \/ p \in Place /\ EntryAt(p)' = EntryAt(p)
        \/ p = <<1, Len(queue[1]) + 1>> /\ EntryAt(p)'.pkt = [seq |-> seq, ecn |-> "Ect0"]
  <2> SUFFICES ASSUME NEW j \in Switches, NEW a \in Nat, <<j, a>> \in Place'
               PROVE  \/ <<j, a>> \in Place /\ EntryAt(<<j, a>>)' = EntryAt(<<j, a>>)
                      \/ /\ <<j, a>> = <<1, Len(queue[1]) + 1>>
                         /\ EntryAt(<<j, a>>)'.pkt = [seq |-> seq, ecn |-> "Ect0"]
    BY DEF Place
  <2>1. a \in 1..Len(queue'[j]) BY DEF Place
  <2> QED BY <1>3, <2>1 DEF Place, EntryAt
<1>5. <<1, Len(queue[1]) + 1>> \in Switches \X Nat BY <1>2
<1>6. Reached' = Reached /\ InHand' = InHand /\ Logged' = Logged
  BY <1>1 DEF Reached, Arrived, Answered, InHand, Logged
<1> QED BY <1>1, <1>3, <1>4, <1>5, <1>6

(* The place of a packet before the head of queue i left.                  *)
Before(i, p) == <<p[1], IF p[1] = i THEN p[2] + 1 ELSE p[2]>>

(* The head of a queue goes on, marked or not, to the next queue, where it *)
(* may be dropped, or to the reflector.                                    *)
LEMMA ForwardEffect ==
  ASSUME Typed, NEW i \in Switches, Forward(i)
  PROVE  /\ UNCHANGED <<rows, in_hand, acks, pending, seq, main_pc, listener_pc, joined,
                        summary, failed>>
         /\ queue' \in [Switches -> Seq(Entries)] /\ arrived' \in Seq(Pkts)
         /\ <<i, 1>> \in Place
         /\ \E pkt \in Pkts :
              /\ pkt.seq = EntryAt(<<i, 1>>).pkt.seq
              /\ \/ pkt.ecn = "Ce" /\ marked' = marked \cup {pkt.seq}
                 \/ pkt = EntryAt(<<i, 1>>).pkt /\ marked' = marked
              /\ \E new \in Switches \X Nat : \A p \in Place' :
                   \/ /\ Before(i, p) \in Place \ {<<i, 1>>}
                      /\ EntryAt(p)' = EntryAt(Before(i, p))
                   \/ p = new /\ p[1] > i /\ EntryAt(p)'.pkt = pkt /\ arrived' = arrived
              /\ arrived' = arrived \/ (i = NSwitches /\ arrived' = Append(arrived, pkt))
         /\ InHand' = InHand /\ Logged' = Logged /\ Answered' = Answered
<1>1. /\ UNCHANGED <<rows, in_hand, acks, pending, seq, main_pc, listener_pc, joined,
                     summary, failed>>
      /\ queue[i] # <<>>
  BY DEF Forward, Egress, main_vars, listener_vars
<1> DEFINE e == Head(queue[i])
           rest == [queue EXCEPT ![i] = Tail(@)]
           pkt == AfterEgress(e)
<1>2. queue \in [Switches -> Seq(Entries)] /\ arrived \in Seq(Pkts) BY DEF Typed
<1>3. e = EntryAt(<<i, 1>>) /\ <<i, 1>> \in Place /\ e \in Entries
  BY <1>1, PlaceFacts
<1>4. /\ pkt \in Pkts /\ pkt.seq = e.pkt.seq
      /\ \/ pkt.ecn = "Ce" /\ marked' = marked \cup {pkt.seq}
         \/ pkt = e.pkt /\ marked' = marked
  BY <1>3 DEF Forward, AfterEgress, Entries, Pkts
<1>5. \/ i < NSwitches /\ queue' = Joined(rest, i + 1, pkt) /\ arrived' = arrived
      \/ i = NSwitches /\ queue' = rest /\ arrived' = Append(arrived, pkt)
  BY SwitchAssumption DEF SwitchAssumption, Switches, Forward, Egress
<1>6. /\ rest \in [Switches -> Seq(Entries)]
      /\ \A j \in Switches : \A a \in 1..Len(rest[j]) :
           IF j = i THEN a + 1 \in 1..Len(queue[j]) /\ rest[j][a] = queue[j][a + 1]
                    ELSE rest[j] = queue[j]
  <2>1. /\ Tail(queue[i]) \in Seq(Entries) /\ Len(Tail(queue[i])) = Len(queue[i]) - 1
        /\ \A a \in 1..Len(Tail(queue[i])) : Tail(queue[i])[a] = queue[i][a + 1]
        /\ Len(queue[i]) \in Nat
    BY <1>1, <1>2
  <2>2. \A a \in 1..(Len(queue[i]) - 1) : a + 1 \in 1..Len(queue[i]) BY <2>1
  <2> QED BY <1>2, <2>1, <2>2
<1> HIDE DEF e, pkt, rest
<1>7. \A j \in Switches : \A a \in 1..Len(rest[j]) :
        /\ Before(i, <<j, a>>) \in Place \ {<<i, 1>>}
        /\ rest[j][a] = EntryAt(Before(i, <<j, a>>))
  <2> SUFFICES ASSUME NEW j \in Switches, NEW a \in 1..Len(rest[j])
               PROVE  /\ Before(i, <<j, a>>) \in Place \ {<<i, 1>>}
                      /\ rest[j][a] = EntryAt(Before(i, <<j, a>>))
    OBVIOUS
  <2>1. a \in Nat \ {0} BY <1>6
  <2>2. CASE j = i
    <3>1. Before(i, <<j, a>>) = <<i, a + 1>> BY <2>2 DEF Before
    <3> QED BY <1>6, <2>1, <2>2, <3>1 DEF Place, EntryAt
  <2>3. CASE j # i
    <3>1. Before(i, <<j, a>>) = <<j, a>> BY <2>3 DEF Before
    <3> QED BY <1>6, <2>1, <2>3, <3>1 DEF Place, EntryAt
  <2> QED BY <2>2, <2>3
<1>8. /\ queue' \in [Switches -> Seq(Entries)] /\ arrived' \in Seq(Pkts)
      /\ \E new \in Switches \X Nat : \A p \in Place' :
           \/ /\ Before(i, p) \in Place \ {<<i, 1>>}
              /\ EntryAt(p)' = EntryAt(Before(i, p))
           \/ p = new /\ p[1] > i /\ EntryAt(p)'.pkt = pkt /\ arrived' = arrived
  <2>1. CASE i = NSwitches /\ queue' = rest /\ arrived' = Append(arrived, pkt)
    <3>1. queue' \in [Switches -> Seq(Entries)] /\ arrived' \in Seq(Pkts)
      BY <1>2, <1>4, <1>6, <2>1
    <3>2. \A p \in Place' : /\ Before(i, p) \in Place \ {<<i, 1>>}
                            /\ EntryAt(p)' = EntryAt(Before(i, p))
      BY <1>7, <2>1 DEF Place, EntryAt
    <3> QED BY <3>1, <3>2, <1>3 DEF Place
  <2>2. CASE i < NSwitches /\ queue' = Joined(rest, i + 1, pkt) /\ arrived' = arrived
    <3>1. i + 1 \in Switches BY <2>2, SwitchAssumption DEF SwitchAssumption, Switches
    <3>2. /\ queue' \in [Switches -> Seq(Entries)]
          /\ \A j \in Switches : \A a \in 1..Len(queue'[j]) :
               \/ a \in 1..Len(rest[j]) /\ queue'[j][a] = rest[j][a]
               \/ /\ j = i + 1 /\ a = Len(rest[i + 1]) + 1
                  /\ queue'[j][a].pkt = pkt
      <4>1. pkt \in Pkts /\ rest \in [Switches -> Seq(Entries)] BY <1>4, <1>6
      <4> DEFINE then == Joined(rest, i + 1, pkt)
      <4>2. /\ then \in [Switches -> Seq(Entries)]
            /\ \A j \in Switches : \A a \in 1..Len(then[j]) :
                 \/ a \in 1..Len(rest[j]) /\ then[j][a] = rest[j][a]
                 \/ j = i + 1 /\ a = Len(rest[i + 1]) + 1 /\ then[j][a].pkt = pkt
        BY <3>1, <4>1, JoinedEffect
      <4>3. queue' = then BY <2>2
      <4> HIDE DEF then
      <4> QED BY <4>2, <4>3
    <3>3. ASSUME NEW j \in Switches, NEW a \in Nat, <<j, a>> \in Place'
          PROVE  \/ /\ Before(i, <<j, a>>) \in Place \ {<<i, 1>>}
                    /\ EntryAt(<<j, a>>)' = EntryAt(Before(i, <<j, a>>))
                 \/ <<j, a>> = <<i + 1, Len(rest[i + 1]) + 1>> /\ EntryAt(<<j, a>>)'.pkt = pkt
      <4>1. a \in 1..Len(queue'[j]) BY <3>3 DEF Place
      <4>2. EntryAt(<<j, a>>)' = queue'[j][a] BY DEF EntryAt
      <4> QED BY <1>7, <3>2, <4>1, <4>2
    <3>4. <<i + 1, Len(rest[i + 1]) + 1>> \in Switches \X Nat BY <1>6, <3>1
    <3>5. \A p \in Place' : p = <<p[1], p[2]>> /\ p[1] \in Switches /\ p[2] \in Nat
      BY DEF Place
    <3>6. \A p \in Place' :
            \/ /\ Before(i, p) \in Place \ {<<i, 1>>}
               /\ EntryAt(p)' = EntryAt(Before(i, p))
            \/ p = <<i + 1, Len(rest[i + 1]) + 1>> /\ EntryAt(p)'.pkt = pkt
      BY <3>3, <3>5
    <3>7. (<<i + 1, Len(rest[i + 1]) + 1>>)[1] > i BY <3>1 DEF Switches
    <3> QED BY <1>2, <2>2, <3>2, <3>4, <3>6, <3>7
  <2> QED BY <1>5, <2>1, <2>2
<1>9. InHand' = InHand /\ Logged' = Logged /\ Answered' = Answered
  BY <1>1 DEF Answered, InHand, Logged
<1> QED BY <1>1, <1>3, <1>4, <1>5, <1>8, <1>9

(* The switch of that queue raises what its counters have held by one at   *)
(* most, the marks only for a packet it marks; no other switch counts.     *)
LEMMA CountEffect ==
  ASSUME Typed, NEW i \in Switches, Forward(i)
  PROVE  /\ CountersTyped'
         /\ \A j \in Switches \ {i} :
              /\ data_pkt_count'[j] = data_pkt_count[j] /\ data_held'[j] = data_held[j]
              /\ marked_pkt_count'[j] = marked_pkt_count[j]
              /\ marked_held'[j] = marked_held[j]
         /\ data_pkt_count'[i] <= data_held'[i] /\ data_held'[i] <= data_held[i] + 1
         /\ \/ /\ marked_pkt_count'[i] = marked_pkt_count[i]
               /\ marked_held'[i] = marked_held[i]
            \/ /\ marked_pkt_count'[i] <= marked_held'[i]
               /\ marked_held'[i] <= marked_held[i] + 1
               /\ EntryAt(<<i, 1>>).pkt.seq \in marked'
<1>1. /\ data_pkt_count \in [Switches -> Nat] /\ data_held \in [Switches -> Nat]
      /\ marked_pkt_count \in [Switches -> Nat] /\ marked_held \in [Switches -> Nat]
  BY DEF Typed, CountersTyped
<1>2. PICK total \in 0..data_held[i] :
        /\ data_pkt_count' = [data_pkt_count EXCEPT ![i] = total + 1]
        /\ data_held' = [data_held EXCEPT ![i] = Larger(@, total + 1)]
  BY DEF Forward, Egress, CountData
<1>3. /\ data_pkt_count' \in [Switches -> Nat] /\ data_held' \in [Switches -> Nat]
      /\ data_pkt_count'[i] <= data_held'[i] /\ data_held'[i] <= data_held[i] + 1
      /\ \A j \in Switches \ {i} :
           data_pkt_count'[j] = data_pkt_count[j] /\ data_held'[j] = data_held[j]
  <2>1. data_held[i] \in Nat /\ total + 1 \in Nat BY <1>1
  <2>2. /\ Larger(data_held[i], total + 1) \in Nat
        /\ total + 1 <= Larger(data_held[i], total + 1)
        /\ Larger(data_held[i], total + 1) <= data_held[i] + 1
    BY <2>1 DEF Larger
  <2> QED BY <1>1, <1>2, <2>1, <2>2
<1>4. CASE ~Marks(Head(queue[i]))
  <2>1. marked_pkt_count' = marked_pkt_count /\ marked_held' = marked_held
    BY <1>4 DEF Forward, Egress, CountIfMarked
  <2> QED BY <1>1, <1>3, <2>1 DEF CountersTyped
<1>5. CASE Marks(Head(queue[i]))
  <2>1. PICK marks \in 0..marked_held[i] :
          /\ marked_pkt_count' = [marked_pkt_count EXCEPT ![i] = marks + 1]
          /\ marked_held' = [marked_held EXCEPT ![i] = Larger(@, marks + 1)]
    BY <1>5 DEF Forward, Egress, CountIfMarked, CountMark
  <2>2. marked_held[i] \in Nat /\ marks + 1 \in Nat BY <1>1
  <2>3. /\ Larger(marked_held[i], marks + 1) \in Nat
        /\ marks + 1 <= Larger(marked_held[i], marks + 1)
        /\ Larger(marked_held[i], marks + 1) <= marked_held[i] + 1
    BY <2>2 DEF Larger
  <2>4. /\ marked_pkt_count' \in [Switches -> Nat] /\ marked_held' \in [Switches -> Nat]
        /\ marked_pkt_count'[i] <= marked_held'[i]
        /\ marked_held'[i] <= marked_held[i] + 1
        /\ \A j \in Switches \ {i} :
             /\ marked_pkt_count'[j] = marked_pkt_count[j]
             /\ marked_held'[j] = marked_held[j]
    BY <1>1, <2>1, <2>2, <2>3
  <2>5. EntryAt(<<i, 1>>).pkt.seq \in marked'
    <3>1. marked' = marked \cup {Head(queue[i]).pkt.seq} BY <1>5 DEF Forward
    <3>2. Head(queue[i]) = EntryAt(<<i, 1>>) BY PlaceFacts DEF Forward, Egress
    <3> QED BY <3>1, <3>2
  <2> QED BY <1>3, <2>4, <2>5 DEF CountersTyped
<1> QED BY <1>4, <1>5

(* The reflector takes a packet from its socket and may answer it.         *)
LEMMA ReflectEffect ==
  ASSUME Typed, Reflect \/ ReflectorFails
  PROVE  /\ UNCHANGED <<queue, counters, rows, in_hand, marked, pending, seq, main_pc,
                        listener_pc, joined, summary, failed>>
         /\ arrived' \in Seq(Pkts) /\ acks' \subseteq Answers
         /\ \A i \in 1..Len(arrived') : \E j \in 1..Len(arrived) : arrived'[i] = arrived[j]
         /\ \A a \in acks' : \/ a \in acks
                             \/ \E j \in 1..Len(arrived) : a = Ack(arrived[j])
         /\ Place' = Place /\ Queued' = Queued /\ (\A p : EntryAt(p)' = EntryAt(p))
         /\ Reached' \subseteq Reached /\ InHand' = InHand /\ Logged' = Logged
<1>1. /\ UNCHANGED <<queue, counters, rows, in_hand, marked, pending, seq, main_pc,
                     listener_pc, joined, summary, failed>>
      /\ arrived # <<>> /\ arrived' = Tail(arrived)
      /\ acks' = acks \/ acks' = acks \cup {Ack(Head(arrived))}
  BY DEF Reflect, ReflectorFails, main_vars, listener_vars
<1>2. arrived \in Seq(Pkts) /\ acks \subseteq Answers BY DEF Typed
<1>3. /\ 1 \in 1..Len(arrived) /\ Head(arrived) = arrived[1] /\ arrived[1] \in Pkts
      /\ Tail(arrived) \in Seq(Pkts)
      /\ \A i \in 1..Len(Tail(arrived)) :
           i + 1 \in 1..Len(arrived) /\ Tail(arrived)[i] = arrived[i + 1]
  BY <1>1, <1>2
<1>4. Ack(arrived[1]) \in Answers /\ Ack(arrived[1]).seq = arrived[1].seq
  BY <1>3 DEF Ack, Answers, Pkts
<1>5. /\ arrived' \in Seq(Pkts) /\ acks' \subseteq Answers
      /\ \A i \in 1..Len(arrived') : \E j \in 1..Len(arrived) : arrived'[i] = arrived[j]
      /\ \A a \in acks' : a \in acks \/ a = Ack(arrived[1])
  BY <1>1, <1>2, <1>3, <1>4
<1>6. Place' = Place /\ \A p : EntryAt(p)' = EntryAt(p)
  BY <1>1 DEF Place, EntryAt
<1>7. Queued' = Queued /\ InHand' = InHand /\ Logged' = Logged
  BY <1>1, <1>6 DEF Queued, InHand, Logged
<1>8. Arrived' \subseteq Arrived BY <1>5 DEF Arrived
<1>9. Answered' \subseteq Answered \cup Arrived
  BY <1>3, <1>4, <1>5 DEF Arrived, Answered
<1> QED BY <1>1, <1>3, <1>5, <1>6, <1>7, <1>8, <1>9 DEF Reached

(* An answer takes its number out of pending into the listener's hand, or  *)
(* leaves all as it is.                                                    *)
LEMMA RecvEffect ==
  ASSUME Typed, NEW a \in acks, Recv(a)
  PROVE  /\ UNCHANGED <<queue, counters, arrived, rows, marked, seq, main_pc, joined,
                        summary, failed>>
         /\ acks' \subseteq acks /\ a \in Answers /\ listener_pc = "receive"
         /\ \/ /\ a.seq \in pending /\ pending' = pending \ {a.seq}
               /\ in_hand' = a /\ InHand = {} /\ InHand' = {a.seq}
               /\ listener_pc' = "write"
            \/ /\ UNCHANGED <<pending, in_hand>> /\ InHand' = InHand
               /\ listener_pc' = "check"
         /\ Place' = Place /\ Queued' = Queued /\ (\A p : EntryAt(p)' = EntryAt(p))
         /\ Reached' \subseteq Reached /\ Logged' = Logged
<1>1. /\ UNCHANGED <<queue, counters, arrived, rows, marked, seq, main_pc, joined,
                     summary, failed>>
      /\ acks' \subseteq acks /\ listener_pc = "receive"
      /\ pending' = pending \ {a.seq}
      /\ \/ a.seq \in pending /\ in_hand' = a /\ listener_pc' = "write"
         \/ a.seq \notin pending /\ in_hand' = in_hand /\ listener_pc' = "check"
  BY DEF Recv, StillPending, main_vars, switch_vars
<1>2. a \in Answers /\ a # Nothing BY DEF Typed, Answers, Nothing
<1>3. InHand = {} BY <1>1 DEF Typed, InHand
<1>4. in_hand' = a => InHand' = {a.seq} BY <1>2 DEF InHand
<1>5. in_hand' = in_hand => InHand' = InHand BY DEF InHand
<1>6. Place' = Place /\ \A p : EntryAt(p)' = EntryAt(p)
  BY <1>1 DEF Place, EntryAt
<1>7. Queued' = Queued /\ Arrived' = Arrived /\ Logged' = Logged
  BY <1>1, <1>6 DEF Queued, Arrived, Logged
<1>8. Answered' \subseteq Answered /\ a.seq \in Answered BY <1>1 DEF Answered
<1>9. Reached' \subseteq Reached
  BY <1>1, <1>3, <1>4, <1>5, <1>7, <1>8 DEF Reached
<1>10. a.seq \notin pending => pending' = pending BY <1>1
<1> QED BY <1>1, <1>2, <1>3, <1>4, <1>5, <1>6, <1>7, <1>9, <1>10

(* The row in hand goes to the log, unless that is closed.                 *)
LEMMA WriteEffect ==
  ASSUME Typed, WriteRow
  PROVE  /\ UNCHANGED <<queue, counters, arrived, acks, marked, pending, seq, main_pc,
                        joined, summary, failed>>
         /\ listener_pc = "write" /\ listener_pc' \in {"ended", "check"}
         /\ in_hand \in Answers /\ InHand = {in_hand.seq}
         /\ in_hand' = Nothing /\ InHand' = {}
         /\ rows' \in Seq(Answers)
         /\ \/ main_pc = "done" /\ rows' = rows /\ Logged' = Logged
            \/ rows' = Append(rows, in_hand) /\ Logged' = Logged \cup {in_hand.seq}
         /\ Place' = Place /\ Queued' = Queued /\ (\A p : EntryAt(p)' = EntryAt(p))
         /\ Reached' \subseteq Reached
<1>1. /\ UNCHANGED <<queue, counters, arrived, acks, marked, pending, seq, main_pc,
                     joined, summary, failed>>
      /\ listener_pc = "write" /\ listener_pc' \in {"ended", "check"} /\ in_hand' = Nothing
      /\ \/ main_pc = "done" /\ rows' = rows
         \/ rows' = Append(rows, in_hand)
  BY DEF WriteRow, main_vars, switch_vars
<1>2. in_hand \in Answers /\ in_hand # Nothing BY <1>1 DEF Typed
<1>3. InHand = {in_hand.seq} /\ InHand' = {} BY <1>1, <1>2 DEF InHand
<1>4. rows \in Seq(Answers) BY DEF Typed
<1>5. rows' = Append(rows, in_hand) => Logged' = Logged \cup {in_hand.seq}
  <2> SUFFICES ASSUME rows' = Append(rows, in_hand)
               PROVE  Logged' = Logged \cup {in_hand.seq}
    OBVIOUS
  <2>1. /\ Len(rows') = Len(rows) + 1 /\ rows'[Len(rows) + 1] = in_hand /\ Len(rows) \in Nat
        /\ \A i \in 1..Len(rows) : rows'[i] = rows[i]
    BY <1>2, <1>4
  <2>2. 1..Len(rows') = 1..Len(rows) \cup {Len(rows) + 1} BY <2>1
  <2> QED BY <2>1, <2>2 DEF Logged
<1>6. rows' = rows => Logged' = Logged BY DEF Logged
<1>7. Place' = Place /\ \A p : EntryAt(p)' = EntryAt(p)
  BY <1>1 DEF Place, EntryAt
<1>8. Queued' = Queued /\ Arrived' = Arrived /\ Answered' = Answered
  BY <1>1, <1>7 DEF Queued, Arrived, Answered
<1>9. Reached' \subseteq Reached
  BY <1>1, <1>3, <1>5, <1>6, <1>8 DEF Reached
<1> QED BY <1>1, <1>2, <1>3, <1>4, <1>5, <1>6, <1>7, <1>8, <1>9

(* What comes to the reflector's socket is there with the rest.            *)
LEMMA ArrivedGrows ==
  ASSUME Typed, NEW pkt \in Pkts, arrived' = arrived \/ arrived' = Append(arrived, pkt)
  PROVE  /\ Arrived' \subseteq Arrived \cup {pkt.seq}
         /\ \A i \in 1..Len(arrived') :
              \/ i \in 1..Len(arrived) /\ arrived'[i] = arrived[i]
              \/ arrived' = Append(arrived, pkt) /\ arrived'[i] = pkt
<1>1. arrived \in Seq(Pkts) /\ Len(arrived) \in Nat BY DEF Typed
<1>2. CASE arrived' = arrived
  BY <1>2 DEF Arrived
<1>3. CASE arrived' = Append(arrived, pkt)
  <2>1. /\ Len(arrived') = Len(arrived) + 1 /\ arrived'[Len(arrived) + 1] = pkt
        /\ \A i \in 1..Len(arrived) : arrived'[i] = arrived[i]
    BY <1>1, <1>3
  <2>2. \A i \in 1..Len(arrived') : i \in 1..Len(arrived) \/ i = Len(arrived) + 1
    BY <1>1, <2>1
  <2> QED BY <1>3, <2>1, <2>2 DEF Arrived
<1> QED BY <1>2, <1>3

-----------------------------------------------------------------------------

(* No step leaves the types.                                               *)
LEMMA TypedStays ==
  ASSUME Typed, [Next]_vars
  PROVE  Typed'
<1>1. UNCHANGED counters => CountersTyped' BY DEF Typed, CountersTyped, counters
<1>2. CASE Aside
  <2>1. /\ UNCHANGED <<queue, counters, arrived, rows, in_hand, acks, marked, seq>>
        /\ pending' = pending \/ pending' = pending \cup {seq}
    BY <1>2, AsideEffect
  <2>2. (listener_pc' = "write") = (listener_pc = "write")
    BY <1>2 DEF Aside, Register, SendFails, TimeUp, SetStop, Join, CloseSocket, CloseLog,
       CheckStop, RecvNothing, listener_vars, vars
  <2> QED BY <1>1, <2>1, <2>2 DEF Typed
<1>3. CASE Send
  <2>1. /\ UNCHANGED <<counters, arrived, rows, in_hand, acks, marked, pending, listener_pc>>
        /\ seq' = seq + 1 /\ queue' \in [Switches -> Seq(Entries)]
    BY <1>3, SendEffect
  <2> QED BY <1>1, <2>1 DEF Typed
<1>4. CASE WriteRow
  BY <1>1, <1>4, WriteEffect DEF Typed
<1>5. CASE Reflect \/ ReflectorFails
  BY <1>1, <1>5, ReflectEffect DEF Typed
<1>6. ASSUME NEW a \in acks, Recv(a) PROVE Typed'
  <2>1. a # Nothing BY <1>6, RecvEffect DEF Answers, Nothing
  <2> QED BY <1>1, <1>6, <2>1, RecvEffect DEF Typed
<1>7. ASSUME NEW i \in Switches, Forward(i) PROVE Typed'
  <2>1. marked' \subseteq Nat
    <3>1. PICK pkt \in Pkts : marked' \in {marked, marked \cup {pkt.seq}}
      BY <1>7, ForwardEffect
    <3>2. pkt.seq \in Nat /\ marked \subseteq Nat BY DEF Typed, Pkts
    <3> QED BY <3>1, <3>2
  <2>2. CountersTyped' BY <1>7, CountEffect
  <2> QED BY <1>7, <2>1, <2>2, ForwardEffect DEF Typed
<1> QED BY <1>2, <1>3, <1>4, <1>5, <1>6, <1>7, NextCases

(* A number is used from the step on that sends it; one whose send failed  *)
(* stays pending and is not used again.                                    *)
LEMMA SentOnlyStays ==
  ASSUME Typed, SentOnly, [Next]_vars
  PROVE  SentOnly'
<1>1. seq \in Nat BY DEF Typed
<1>2. CASE Aside
  <2>1. /\ seq' = seq /\ Queued' = Queued /\ Reached' = Reached /\ marked' = marked
        /\ pending' = pending \/ (Register /\ pending' = pending \cup {seq})
    BY <1>2, AsideEffect
  <2>2. main_pc' = "loop" => main_pc = "loop" /\ ~Register
    BY <1>2 DEF Aside, Register, SendFails, TimeUp, SetStop, Join, CloseSocket, CloseLog,
       CheckStop, RecvNothing, main_vars, vars
  <2>3. pending' \subseteq 0..seq
    <3>1. pending \subseteq 0..seq BY DEF SentOnly
    <3>2. seq \in 0..seq BY <1>1
    <3> QED BY <2>1, <3>1, <3>2
  <2>4. seq \in pending' => main_pc' # "loop" BY <2>1, <2>2 DEF SentOnly
  <2> QED BY <2>1, <2>3, <2>4 DEF SentOnly
<1>3. CASE Send
  <2>1. Queued' \subseteq Queued \cup {seq}
    BY <1>3, SendEffect DEF Queued
  <2>2. UNCHANGED <<pending, marked>> /\ seq' = seq + 1 /\ Reached' = Reached
    BY <1>3, SendEffect
  <2> QED BY <1>1, <2>1, <2>2 DEF SentOnly
<1>4. CASE WriteRow \/ Reflect \/ ReflectorFails
  <2>1. /\ UNCHANGED <<seq, pending, marked, main_pc>>
        /\ Queued' = Queued /\ Reached' \subseteq Reached
    BY <1>4, WriteEffect, ReflectEffect
  <2> QED BY <2>1 DEF SentOnly
<1>5. ASSUME NEW a \in acks, Recv(a) PROVE SentOnly'
  <2>1. /\ UNCHANGED <<seq, marked, main_pc>> /\ pending' \subseteq pending
        /\ Queued' = Queued /\ Reached' \subseteq Reached
    BY <1>5, RecvEffect
  <2> QED BY <2>1 DEF SentOnly
<1>6. ASSUME NEW i \in Switches, Forward(i) PROVE SentOnly'
  <2>1. PICK pkt \in Pkts :
          /\ pkt.seq = EntryAt(<<i, 1>>).pkt.seq
          /\ marked' = marked \cup {pkt.seq} \/ marked' = marked
          /\ \A p \in Place' : \/ /\ Before(i, p) \in Place
                                  /\ EntryAt(p)' = EntryAt(Before(i, p))
                               \/ EntryAt(p)'.pkt = pkt
          /\ arrived' = arrived \/ arrived' = Append(arrived, pkt)
    BY <1>6, ForwardEffect
  <2>2. pkt.seq \in Queued BY <1>6, <2>1, ForwardEffect, PlaceFacts
  <2>3. Queued' \subseteq Queued
    BY <2>1, <2>2 DEF Queued
  <2>4. Arrived' \subseteq Arrived \cup {pkt.seq}
    BY <2>1, ArrivedGrows
  <2>5. /\ UNCHANGED <<seq, pending, main_pc>>
        /\ InHand' = InHand /\ Logged' = Logged /\ Answered' = Answered
    BY <1>6, ForwardEffect
  <2> QED BY <2>1, <2>2, <2>3, <2>4, <2>5 DEF SentOnly, Reached
<1> QED BY <1>2, <1>3, <1>4, <1>5, <1>6, NextCases

(* An answer makes a row only if its number was pending, and takes it from *)
(* there; another answer to the same packet finds it gone.                 *)
LEMMA HeldOnceStays ==
  ASSUME Typed, SentOnly, HeldOnce, [Next]_vars
  PROVE  HeldOnce'
<1>1. ASSUME InHand' = InHand, Logged' = Logged, rows' = rows,
             pending' \cap (InHand \cup Logged) = {}
      PROVE  HeldOnce'
  BY <1>1 DEF HeldOnce, LoggedOnce
<1>2. CASE Aside
  <2>1. /\ InHand' = InHand /\ Logged' = Logged /\ rows' = rows
        /\ pending' = pending \/ pending' = pending \cup {seq}
    BY <1>2, AsideEffect
  <2>2. seq \notin InHand \cup Logged
    <3>1. seq \in Nat /\ InHand \cup Logged \subseteq 0..(seq - 1)
      BY DEF Typed, SentOnly, Reached
    <3> QED BY <3>1
  <2> QED BY <1>1, <2>1, <2>2 DEF HeldOnce
<1>3. CASE Send \/ Reflect \/ ReflectorFails
  BY <1>1, <1>3, SendEffect, ReflectEffect DEF HeldOnce
<1>4. CASE WriteRow
  <2>1. /\ pending' = pending /\ InHand = {in_hand.seq} /\ InHand' = {}
        /\ \/ rows' = rows /\ Logged' = Logged
           \/ rows' = Append(rows, in_hand) /\ Logged' = Logged \cup {in_hand.seq}
        /\ in_hand \in Answers
    BY <1>4, WriteEffect
  <2>2. CASE rows' = rows
    BY <2>1, <2>2 DEF HeldOnce, LoggedOnce, Logged
  <2>3. CASE rows' = Append(rows, in_hand) /\ Logged' = Logged \cup {in_hand.seq}
    <3>1. rows \in Seq(Answers) /\ Len(rows) \in Nat BY DEF Typed
    <3>2. /\ Len(rows') = Len(rows) + 1 /\ rows'[Len(rows) + 1] = in_hand
          /\ \A i \in 1..Len(rows) : rows'[i] = rows[i]
      BY <2>1, <2>3, <3>1
    <3>3. \A i \in 1..Len(rows') : i \in 1..Len(rows) \/ i = Len(rows) + 1
      BY <3>1, <3>2
    <3>4. \A i \in 1..Len(rows) : rows[i].seq # in_hand.seq
      BY <2>1 DEF HeldOnce, Logged
    <3>5. LoggedOnce'
      BY <3>2, <3>3, <3>4 DEF HeldOnce, LoggedOnce
    <3> QED BY <2>1, <2>3, <3>5 DEF HeldOnce
  <2> QED BY <2>1, <2>2, <2>3
<1>5. ASSUME NEW a \in acks, Recv(a) PROVE HeldOnce'
  <2>1. /\ Logged' = Logged /\ rows' = rows
        /\ \/ /\ a.seq \in pending /\ pending' = pending \ {a.seq} /\ InHand' = {a.seq}
           \/ pending' = pending /\ InHand' = InHand
    BY <1>5, RecvEffect
  <2> QED BY <2>1 DEF HeldOnce, LoggedOnce
<1>6. ASSUME NEW i \in Switches, Forward(i) PROVE HeldOnce'
  BY <1>1, <1>6, ForwardEffect DEF HeldOnce
<1> QED BY <1>2, <1>3, <1>4, <1>5, <1>6, NextCases

(* A number leaves pending for the hand, and the hand for the log, which is*)
(* open until the harness is done.                                         *)
LEMMA AccountedStays ==
  ASSUME Typed, Accounted, [Next]_vars
  PROVE  Accounted'
<1>1. seq \in Nat BY DEF Typed
<1>2. ASSUME UNCHANGED <<main_pc, failed, seq>>,
             main_pc = "done" \/ (pending \cup InHand \cup Logged)' = pending \cup InHand \cup Logged
      PROVE  Accounted'
  BY <1>2 DEF Accounted
<1>3. CASE Aside
  <2>1. InHand' = InHand /\ Logged' = Logged /\ seq' = seq
    BY <1>3, AsideEffect
  <2>2. CASE Register
    <3>1. /\ main_pc = "loop" /\ main_pc' = "registered" /\ failed' = failed
          /\ pending' = pending \cup {seq}
      BY <2>2 DEF Register
    <3>2. 0..seq = 0..(seq - 1) \cup {seq} BY <1>1
    <3> QED BY <2>1, <3>1, <3>2 DEF Accounted
  <2>3. CASE ~Register
    <3>1. pending' = pending BY <1>3, <2>3, AsideEffect
    <3>2. main_pc' # "done" /\ ~failed' =>
            /\ main_pc # "done" /\ ~failed
            /\ (main_pc' = "registered") <=> (main_pc = "registered")
      BY <1>3, <2>3 DEF Aside, SendFails, TimeUp, SetStop, Join, CloseSocket, CloseLog,
         CheckStop, RecvNothing, main_vars, vars
    <3> QED BY <2>1, <3>1, <3>2 DEF Accounted
  <2> QED BY <2>2, <2>3
<1>4. CASE Send
  <2>1. /\ UNCHANGED <<pending, failed>> /\ InHand' = InHand /\ Logged' = Logged
        /\ main_pc = "registered" /\ main_pc' = "loop" /\ seq' = seq + 1
    BY <1>4, SendEffect
  <2>2. (seq + 1) - 1 = seq BY <1>1
  <2> QED BY <2>1, <2>2 DEF Accounted
<1>5. CASE WriteRow
  BY <1>2, <1>5, WriteEffect
<1>6. CASE Reflect \/ ReflectorFails
  BY <1>2, <1>6, ReflectEffect
<1>7. ASSUME NEW a \in acks, Recv(a) PROVE Accounted'
  BY <1>2, <1>7, RecvEffect
<1>8. ASSUME NEW i \in Switches, Forward(i) PROVE Accounted'
  BY <1>2, <1>8, ForwardEffect
<1> QED BY <1>3, <1>4, <1>5, <1>6, <1>7, <1>8, NextCases

(* A packet is in one queue, and only once; the reflector and the harness  *)
(* have its number only after that.                                        *)
LEMMA QueuedOnceStays ==
  ASSUME Typed, SentOnly, QueuedOnce, [Next]_vars
  PROVE  QueuedOnce'
<1>1. ASSUME Place' = Place, Queued' = Queued, \A p : EntryAt(p)' = EntryAt(p),
             Reached' \subseteq Reached
      PROVE  QueuedOnce'
  BY <1>1 DEF QueuedOnce
<1>2. CASE Aside
  BY <1>1, <1>2, AsideEffect
<1>3. CASE Send
  <2>1. PICK new \in Switches \X Nat : \A p \in Place' :
          \/ p \in Place /\ EntryAt(p)' = EntryAt(p)
          \/ p = new /\ EntryAt(p)'.pkt = [seq |-> seq, ecn |-> "Ect0"]
    BY <1>3, SendEffect
  <2>2. seq \notin Queued /\ seq \notin Reached
    <3>1. seq \in Nat /\ Queued \cup Reached \subseteq 0..(seq - 1)
      BY DEF Typed, SentOnly
    <3> QED BY <3>1
  <2>3. \A p \in Place : EntryAt(p).pkt.seq \in Queued BY PlaceFacts
  <2>4. ASSUME NEW p \in Place', NEW q \in Place', EntryAt(p)'.pkt.seq = EntryAt(q)'.pkt.seq
        PROVE  p = q
    <3>1. CASE p = new /\ EntryAt(p)'.pkt = [seq |-> seq, ecn |-> "Ect0"]
      BY <2>1, <2>2, <2>3, <2>4, <3>1
    <3>2. CASE q = new /\ EntryAt(q)'.pkt = [seq |-> seq, ecn |-> "Ect0"]
      BY <2>1, <2>2, <2>3, <2>4, <3>2
    <3>3. CASE p \in Place /\ EntryAt(p)' = EntryAt(p) /\ q \in Place /\ EntryAt(q)' = EntryAt(q)
      BY <2>4, <3>3 DEF QueuedOnce
    <3> QED BY <2>1, <3>1, <3>2, <3>3
  <2>5. Queued' \subseteq Queued \cup {seq}
    BY <2>1 DEF Queued
  <2>6. Reached' = Reached BY <1>3, SendEffect
  <2> QED BY <2>2, <2>4, <2>5, <2>6 DEF QueuedOnce
<1>4. CASE WriteRow \/ Reflect \/ ReflectorFails
  BY <1>1, <1>4, WriteEffect, ReflectEffect
<1>5. ASSUME NEW a \in acks, Recv(a) PROVE QueuedOnce'
  BY <1>1, <1>5, RecvEffect
<1>6. ASSUME NEW i \in Switches, Forward(i) PROVE QueuedOnce'
  <2>1. PICK pkt \in Pkts :
          /\ pkt.seq = EntryAt(<<i, 1>>).pkt.seq
          /\ \E new \in Switches \X Nat : \A p \in Place' :
               \/ /\ Before(i, p) \in Place \ {<<i, 1>>}
                  /\ EntryAt(p)' = EntryAt(Before(i, p))
               \/ p = new /\ p[1] > i /\ EntryAt(p)'.pkt = pkt /\ arrived' = arrived
          /\ arrived' = arrived \/ arrived' = Append(arrived, pkt)
    BY <1>6, ForwardEffect
  <2>2. PICK new \in Switches \X Nat :
          /\ pkt.seq = EntryAt(<<i, 1>>).pkt.seq
          /\ \A p \in Place' :
               \/ /\ Before(i, p) \in Place \ {<<i, 1>>}
                  /\ EntryAt(p)' = EntryAt(Before(i, p))
               \/ p = new /\ EntryAt(p)'.pkt = pkt /\ arrived' = arrived
          /\ arrived' = arrived \/ arrived' = Append(arrived, pkt)
    BY <2>1
  <2>3. <<i, 1>> \in Place BY <1>6, ForwardEffect
  <2>4. \A p \in Place : EntryAt(p).pkt.seq \in Queued BY PlaceFacts
  <2>5. \A p \in Place \ {<<i, 1>>} : EntryAt(p).pkt.seq # pkt.seq
    BY <2>2, <2>3 DEF QueuedOnce
  <2>6. \A p, q \in Place' : Before(i, p) = Before(i, q) => p = q
    <3>1. \A p \in Place' : p = <<p[1], p[2]>> /\ p[2] \in Nat BY DEF Place
    <3> QED BY <3>1 DEF Before
  <2>7. ASSUME NEW p \in Place', NEW q \in Place', EntryAt(p)'.pkt.seq = EntryAt(q)'.pkt.seq
        PROVE  p = q
    <3>1. CASE p = new /\ EntryAt(p)'.pkt = pkt
      BY <2>2, <2>5, <2>7, <3>1
    <3>2. CASE q = new /\ EntryAt(q)'.pkt = pkt
      BY <2>2, <2>5, <2>7, <3>2
    <3>3. CASE /\ Before(i, p) \in Place /\ EntryAt(p)' = EntryAt(Before(i, p))
               /\ Before(i, q) \in Place /\ EntryAt(q)' = EntryAt(Before(i, q))
      BY <2>6, <2>7, <3>3 DEF QueuedOnce
    <3> QED BY <2>2, <3>1, <3>2, <3>3
  <2>8. Queued' \cap Reached' = {}
    <3> SUFFICES ASSUME NEW p \in Place', EntryAt(p)'.pkt.seq \in Reached' PROVE FALSE
      BY DEF Queued
    <3>1. Reached' \subseteq Reached \cup {pkt.seq} /\ (arrived' = arrived => Reached' = Reached)
      <4>1. Arrived' \subseteq Arrived \cup {pkt.seq} /\ (arrived' = arrived => Arrived' = Arrived)
        BY <2>2, ArrivedGrows DEF Arrived
      <4>2. InHand' = InHand /\ Logged' = Logged /\ Answered' = Answered
        BY <1>6, ForwardEffect
      <4> QED BY <4>1, <4>2 DEF Reached
    <3>2. CASE Before(i, p) \in Place \ {<<i, 1>>} /\ EntryAt(p)' = EntryAt(Before(i, p))
      BY <2>4, <2>5, <3>1, <3>2 DEF QueuedOnce
    <3>3. CASE EntryAt(p)'.pkt = pkt /\ arrived' = arrived
      BY <2>2, <2>3, <2>4, <3>1, <3>3 DEF QueuedOnce
    <3> QED BY <2>2, <3>2, <3>3
  <2> QED BY <2>7, <2>8 DEF QueuedOnce
<1> QED BY <1>2, <1>3, <1>4, <1>5, <1>6, NextCases

(* Who marks a packet has the only one with its number; the answer echoes  *)
(* the packet that arrived, and the row is the answer.                     *)
LEMMA MarkCarriedStays ==
  ASSUME Typed, SentOnly, QueuedOnce, MarkCarried, [Next]_vars
  PROVE  MarkCarried'
<1>1. ASSUME UNCHANGED <<arrived, marked>>, Place' = Place, \A p : EntryAt(p)' = EntryAt(p),
             \A a \in acks' \cup ({in_hand'} \ {Nothing}) : a \in acks \cup ({in_hand} \ {Nothing}),
             rows' = rows \/ (rows' = Append(rows, in_hand) /\ in_hand # Nothing /\ in_hand \in Answers)
      PROVE  MarkCarried'
  <2>1. EchoIsMark'
    <3>1. CASE rows' = rows
      BY <1>1, <3>1 DEF MarkCarried, EchoIsMark
    <3>2. CASE rows' = Append(rows, in_hand) /\ in_hand # Nothing /\ in_hand \in Answers
      <4>1. rows \in Seq(Answers) /\ Len(rows) \in Nat BY DEF Typed
      <4>2. /\ Len(rows') = Len(rows) + 1 /\ rows'[Len(rows) + 1] = in_hand
            /\ \A i \in 1..Len(rows) : rows'[i] = rows[i]
        BY <3>2, <4>1
      <4>3. \A i \in 1..Len(rows') : i \in 1..Len(rows) \/ i = Len(rows) + 1
        BY <4>1, <4>2
      <4>4. Echoes(in_hand) BY <3>2 DEF MarkCarried
      <4> QED BY <1>1, <4>2, <4>3, <4>4 DEF MarkCarried, EchoIsMark, Echoes
    <3> QED BY <1>1, <3>1, <3>2
  <2>2. \A a \in acks' \cup ({in_hand'} \ {Nothing}) : a.echo = (a.seq \in marked')
    BY <1>1 DEF MarkCarried, Echoes
  <2> QED BY <1>1, <2>1, <2>2 DEF MarkCarried, Echoes
<1>2. CASE Aside
  BY <1>1, <1>2, AsideEffect
<1>3. CASE Send
  <2>1. /\ UNCHANGED <<arrived, rows, in_hand, acks, marked>>
        /\ \E new \in Switches \X Nat : \A p \in Place' :
              \/ p \in Place /\ EntryAt(p)' = EntryAt(p)
              \/ p = new /\ EntryAt(p)'.pkt = [seq |-> seq, ecn |-> "Ect0"]
    BY <1>3, SendEffect
  <2>2. seq \notin marked
    <3>1. seq \in Nat /\ marked \subseteq 0..(seq - 1) BY DEF Typed, SentOnly
    <3> QED BY <3>1
  <2>3. \A p \in Place' : (EntryAt(p)'.pkt.ecn = "Ce") = (EntryAt(p)'.pkt.seq \in marked')
    BY <2>1, <2>2 DEF MarkCarried
  <2> QED BY <2>1, <2>3 DEF MarkCarried, EchoIsMark, Echoes
<1>4. CASE WriteRow
  <2>1. in_hand # Nothing BY <1>4, WriteEffect DEF Typed
  <2>2. /\ UNCHANGED <<arrived, marked, acks>> /\ Place' = Place
        /\ \A p : EntryAt(p)' = EntryAt(p)
        /\ in_hand' = Nothing /\ in_hand \in Answers
        /\ rows' = rows \/ rows' = Append(rows, in_hand)
    BY <1>4, WriteEffect
  <2> QED BY <1>1, <2>1, <2>2
<1>5. CASE Reflect \/ ReflectorFails
  <2>1. /\ UNCHANGED <<rows, in_hand, marked>>
        /\ \A i \in 1..Len(arrived') : \E j \in 1..Len(arrived) : arrived'[i] = arrived[j]
        /\ \A a \in acks' : \/ a \in acks
                            \/ \E j \in 1..Len(arrived) : a = Ack(arrived[j])
        /\ Place' = Place /\ (\A p : EntryAt(p)' = EntryAt(p))
    BY <1>5, ReflectEffect
  <2>2. \A j \in 1..Len(arrived) : Echoes(Ack(arrived[j]))
    BY DEF MarkCarried, Echoes, Ack
  <2>3. \A a \in acks' \cup ({in_hand'} \ {Nothing}) : Echoes(a)
    BY <2>1, <2>2 DEF MarkCarried
  <2>4. EchoIsMark' BY <2>1 DEF MarkCarried, EchoIsMark
  <2>5. \A i \in 1..Len(arrived') : (arrived'[i].ecn = "Ce") = (arrived'[i].seq \in marked')
    BY <2>1 DEF MarkCarried
  <2> QED BY <2>1, <2>3, <2>4, <2>5 DEF MarkCarried, Echoes
<1>6. ASSUME NEW a \in acks, Recv(a) PROVE MarkCarried'
  <2>1. /\ UNCHANGED <<arrived, rows, marked>> /\ acks' \subseteq acks
        /\ in_hand' = a \/ in_hand' = in_hand
        /\ Place' = Place /\ (\A p : EntryAt(p)' = EntryAt(p))
    BY <1>6, RecvEffect
  <2> QED BY <1>1, <2>1
<1>7. ASSUME NEW i \in Switches, Forward(i) PROVE MarkCarried'
  <2>1. PICK pkt \in Pkts :
          /\ pkt.seq = EntryAt(<<i, 1>>).pkt.seq
          /\ \/ pkt.ecn = "Ce" /\ marked' = marked \cup {pkt.seq}
             \/ pkt = EntryAt(<<i, 1>>).pkt /\ marked' = marked
          /\ \A p \in Place' :
               \/ /\ Before(i, p) \in Place \ {<<i, 1>>}
                  /\ EntryAt(p)' = EntryAt(Before(i, p))
               \/ EntryAt(p)'.pkt = pkt
          /\ arrived' = arrived \/ arrived' = Append(arrived, pkt)
    BY <1>7, ForwardEffect
  <2>2. <<i, 1>> \in Place /\ UNCHANGED <<rows, in_hand, acks>> BY <1>7, ForwardEffect
  <2>3. (pkt.ecn = "Ce") = (pkt.seq \in marked')
    BY <2>1, <2>2 DEF MarkCarried
  <2>4. \A n : n # pkt.seq => (n \in marked') = (n \in marked) BY <2>1
  <2>5. \A n \in Reached : (n \in marked') = (n \in marked)
    <3>1. pkt.seq \in Queued BY <2>1, <2>2, PlaceFacts
    <3> QED BY <2>4, <3>1 DEF QueuedOnce
  <2>6. ASSUME NEW p \in Place'
        PROVE  (EntryAt(p)'.pkt.ecn = "Ce") = (EntryAt(p)'.pkt.seq \in marked')
    <3>1. CASE EntryAt(p)'.pkt = pkt
      BY <2>3, <3>1
    <3>2. CASE Before(i, p) \in Place \ {<<i, 1>>} /\ EntryAt(p)' = EntryAt(Before(i, p))
      <4>1. EntryAt(p)'.pkt.seq # pkt.seq
        BY <2>1, <2>2, <3>2 DEF QueuedOnce
      <4> QED BY <2>4, <3>2, <4>1 DEF MarkCarried
    <3> QED BY <2>1, <3>1, <3>2
  <2>7. ASSUME NEW j \in 1..Len(arrived')
        PROVE  (arrived'[j].ecn = "Ce") = (arrived'[j].seq \in marked')
    <3>1. CASE arrived'[j] = pkt
      BY <2>3, <3>1
    <3>2. CASE j \in 1..Len(arrived) /\ arrived'[j] = arrived[j]
      <4>1. arrived[j].seq \in Reached BY <3>2 DEF Reached, Arrived
      <4> QED BY <2>5, <3>2, <4>1 DEF MarkCarried
    <3> QED BY <2>1, <3>1, <3>2, ArrivedGrows
  <2>8. ASSUME NEW a \in acks' \cup ({in_hand'} \ {Nothing})
        PROVE  a.echo = (a.seq \in marked')
    <3>1. a \in acks \cup ({in_hand} \ {Nothing}) BY <2>2, <2>8
    <3>2. a.seq \in Reached BY <3>1 DEF Reached, Answered, InHand
    <3> QED BY <2>5, <3>1, <3>2 DEF MarkCarried, Echoes
  <2>9. ASSUME NEW j \in 1..Len(rows')
        PROVE  rows'[j].echo = (rows'[j].seq \in marked')
    <3>1. rows[j].seq \in Reached BY <2>2 DEF Reached, Logged
    <3> QED BY <2>2, <2>5, <3>1 DEF MarkCarried, EchoIsMark
  <2> QED BY <2>6, <2>7, <2>8, <2>9 DEF MarkCarried, EchoIsMark, Echoes
<1> QED BY <1>2, <1>3, <1>4, <1>5, <1>6, <1>7, NextCases

(* The numbers behind the last switch are finitely many.                   *)
LEMMA ReachedIsFinite ==
  ASSUME Typed, SentOnly
  PROVE  IsFiniteSet(Reached) /\ IsFiniteSet(Logged) /\ IsFiniteSet(pending)
<1>1. seq \in Nat /\ Reached \subseteq 0..(seq - 1) /\ pending \subseteq 0..seq
  BY DEF Typed, SentOnly
<1>2. IsFiniteSet(0..(seq - 1)) /\ IsFiniteSet(0..seq)
  BY <1>1, FS_Interval
<1> QED BY <1>1, <1>2, FS_Subset DEF Reached

(* A listener that has ended does not come back.                           *)
LEMMA JoinedIsEndStays ==
  ASSUME Typed, JoinedIsEnd, [Next]_vars
  PROVE  JoinedIsEnd'
<1>1. CASE Aside
  <2>1. CASE Join
    BY <2>1 DEF Join, JoinedIsEnd, listener_vars
  <2>2. CASE CloseSocket \/ CloseLog
    BY <2>2 DEF CloseSocket, CloseLog, JoinedIsEnd, listener_vars
  <2>3. CASE Register \/ SendFails \/ TimeUp \/ SetStop
    BY <2>3 DEF Register, SendFails, TimeUp, SetStop, JoinedIsEnd, listener_vars
  <2>4. CASE CheckStop \/ RecvNothing
    BY <2>4 DEF CheckStop, RecvNothing, JoinedIsEnd, main_vars
  <2>5. CASE UNCHANGED vars
    BY <2>5 DEF vars, main_vars, listener_vars, JoinedIsEnd
  <2> QED BY <1>1, <2>1, <2>2, <2>3, <2>4, <2>5 DEF Aside
<1>2. CASE Send
  BY <1>2, SendEffect DEF JoinedIsEnd
<1>3. CASE WriteRow
  BY <1>3, WriteEffect DEF JoinedIsEnd
<1>4. CASE Reflect \/ ReflectorFails
  BY <1>4, ReflectEffect DEF JoinedIsEnd
<1>5. ASSUME NEW a \in acks, Recv(a) PROVE JoinedIsEnd'
  BY <1>5, RecvEffect DEF JoinedIsEnd
<1>6. ASSUME NEW i \in Switches, Forward(i) PROVE JoinedIsEnd'
  BY <1>6, ForwardEffect DEF JoinedIsEnd
<1> QED BY <1>1, <1>2, <1>3, <1>4, <1>5, <1>6, NextCases

(* The rows are as many as the numbers in them.                            *)
LEMMA RowsCount ==
  ASSUME Typed, SentOnly, HeldOnce
  PROVE  Len(rows) = Cardinality(Logged) /\ Len(rows) \in Nat
<1>1. rows \in Seq(Answers) /\ Len(rows) \in Nat BY DEF Typed
<1> DEFINE f == [i \in 1..Len(rows) |-> rows[i].seq]
<1>2. f \in Bijection(1..Len(rows), Logged)
  <2>1. f \in Surjection(1..Len(rows), Logged)
    BY DEF Surjection, Logged
  <2>2. f \in Injection(1..Len(rows), Logged)
    BY DEF Injection, IsInjective, HeldOnce, LoggedOnce, Logged
  <2> QED BY <2>1, <2>2 DEF Bijection
<1>3. IsFiniteSet(1..Len(rows)) /\ Cardinality(1..Len(rows)) = Len(rows)
  <2> DEFINE n == Len(rows)
  <2>1. n \in Nat BY <1>1
  <2> HIDE DEF n
  <2>2. IsFiniteSet(1..n) /\ Cardinality(1..n) = n BY <2>1, FS_Interval
  <2> QED BY <2>2 DEF n
<1>4. ExistsBijection(1..Len(rows), Logged) BY <1>2 DEF ExistsBijection
<1> QED BY <1>1, <1>3, <1>4, FS_Bijection

(* When the log is closed after a join that saw the listener's end, nothing*)
(* is in the listener's hand.                                              *)
LEMMA SummaryFitsStays ==
  ASSUME Typed, SentOnly, HeldOnce, Accounted, JoinedIsEnd, SummaryFitsLog, [Next]_vars
  PROVE  SummaryFitsLog'
<1>1. ASSUME UNCHANGED <<summary, joined, rows>> PROVE SummaryFitsLog'
  BY <1>1 DEF SummaryFitsLog
<1>2. CASE CloseLog
  <2> SUFFICES ASSUME summary' # NoSummary, joined'
               PROVE  summary'.sent = Len(rows') + summary'.unacked
    BY DEF SummaryFitsLog
  <2>1. /\ rows' = rows /\ joined /\ ~failed /\ main_pc = "close_log"
        /\ summary' = [sent |-> seq, unacked |-> Cardinality(pending)]
    BY <1>2 DEF CloseLog, listener_vars
  <2>2. InHand = {}
    BY <2>1 DEF JoinedIsEnd, Typed, InHand
  <2>3. pending \cup Logged = 0..(seq - 1) BY <2>1, <2>2 DEF Accounted
  <2>4. pending \cap Logged = {} BY DEF HeldOnce
  <2>5. seq \in Nat /\ Cardinality(0..(seq - 1)) = seq
    <3>1. seq \in Nat BY DEF Typed
    <3> QED BY <3>1, FS_Interval
  <2>6. /\ IsFiniteSet(pending) /\ IsFiniteSet(Logged)
        /\ Cardinality(pending) \in Nat /\ Cardinality(Logged) \in Nat
    BY ReachedIsFinite, FS_CardinalityType
  <2>7. Cardinality(pending \cup Logged) =
          Cardinality(pending) + Cardinality(Logged) - Cardinality(pending \cap Logged)
    BY <2>6, FS_Union
  <2>8. Cardinality(pending \cap Logged) = 0 BY <2>4, FS_EmptySet
  <2>9. seq = Cardinality(pending) + Cardinality(Logged)
    <3>1. seq = Cardinality(pending) + Cardinality(Logged) - Cardinality(pending \cap Logged)
      BY <2>3, <2>5, <2>7
    <3> QED BY <2>6, <2>8, <3>1
  <2> QED BY <2>1, <2>6, <2>9, RowsCount
<1>3. CASE Join
  <2>1. summary = NoSummary /\ summary' = summary
    BY <1>3 DEF Join, JoinedIsEnd
  <2> QED BY <2>1 DEF SummaryFitsLog
<1>4. CASE Aside /\ ~CloseLog /\ ~Join
  BY <1>1, <1>4 DEF Aside, Register, SendFails, TimeUp, SetStop, CloseSocket,
     CheckStop, RecvNothing, listener_vars, main_vars, vars
<1>5. CASE Send \/ Reflect \/ ReflectorFails
  BY <1>1, <1>5, SendEffect, ReflectEffect
<1>6. CASE WriteRow
  <2>1. ~joined' BY <1>6, WriteEffect DEF JoinedIsEnd
  <2> QED BY <2>1 DEF SummaryFitsLog
<1>7. ASSUME NEW a \in acks, Recv(a) PROVE SummaryFitsLog'
  BY <1>1, <1>7, RecvEffect
<1>8. ASSUME NEW i \in Switches, Forward(i) PROVE SummaryFitsLog'
  BY <1>1, <1>8, ForwardEffect
<1> QED BY <1>2, <1>3, <1>4, <1>5, <1>6, <1>7, <1>8, NextCases

-----------------------------------------------------------------------------

(* The whole of it holds at the start and after every step.                *)
THEOREM InvariantHolds == Spec => []IInv
<1>1. Init => IInv
  <2> SUFFICES ASSUME Init PROVE IInv
    OBVIOUS
  <2>1. \A i \in Switches : queue[i] = <<>> BY DEF Init, SwitchInit
  <2>2. Place = {} BY <2>1 DEF Place
  <2>3. Reached = {} /\ InHand = {} /\ Logged = {} /\ Queued = {}
    BY <2>2 DEF Init, SwitchInit, Reached, Arrived, Answered, InHand, Logged, Queued
  <2>4. Typed
    BY DEF Init, SwitchInit, Typed, CountersTyped
  <2>5. SentOnly BY <2>3 DEF Init, SentOnly
  <2>6. HeldOnce BY <2>3 DEF Init, HeldOnce, LoggedOnce
  <2>7. Accounted BY <2>3 DEF Init, Accounted
  <2>8. QueuedOnce BY <2>2, <2>3 DEF QueuedOnce
  <2>9. MarkCarried BY <2>2 DEF Init, SwitchInit, MarkCarried, EchoIsMark
  <2>10. JoinedIsEnd /\ SummaryFitsLog BY DEF Init, JoinedIsEnd, SummaryFitsLog
  <2> QED BY <2>4, <2>5, <2>6, <2>7, <2>8, <2>9, <2>10 DEF IInv
<1>2. IInv /\ [Next]_vars => IInv'
  BY TypedStays, SentOnlyStays, HeldOnceStays, AccountedStays, QueuedOnceStays,
     MarkCarriedStays, JoinedIsEndStays, SummaryFitsStays DEF IInv
<1> QED BY <1>1, <1>2, PTL DEF Spec

(* However often an answer comes, and however late, its packet has one row *)
(* at most.                                                                *)
THEOREM EachLoggedOnce == Spec => []LoggedOnce
<1>1. IInv => LoggedOnce BY DEF IInv, HeldOnce
<1> QED BY <1>1, InvariantHolds, PTL

(* The echo in a row is the mark of that packet, over any number of        *)
(* switches.                                                               *)
THEOREM EachEchoIsMark == Spec => []EchoIsMark
<1>1. IInv => EchoIsMark BY DEF IInv, MarkCarried
<1> QED BY <1>1, InvariantHolds, PTL

(* What the harness returns after a join that saw the listener's end fits  *)
(* the log.                                                                *)
THEOREM EachSummaryFits == Spec => []SummaryFitsLog
<1>1. IInv => SummaryFitsLog BY DEF IInv
<1> QED BY <1>1, InvariantHolds, PTL

-----------------------------------------------------------------------------

(* The numbers in the queues up to that of a switch.                       *)
UpTo(i) == {EntryAt(p).pkt.seq : p \in {q \in Place : q[1] <= i}}
Behind(i) == 0..(seq - 1) \ UpTo(i)

(* What else the types need: limits and phases,                            *)
Phased ==
  /\ main_pc \in {"loop", "registered", "drain", "join", "close_socket", "close_log", "done"}
  /\ listener_pc \in {"check", "receive", "write", "ended"}
  /\ {stop, joined, failed, reflector_up} \subseteq BOOLEAN
  /\ seq <= MaxPackets /\ (main_pc = "registered" => seq < MaxPackets)
  /\ seq \in pending => seq < MaxPackets
  /\ \A i \in Switches : Len(queue[i]) <= QueueDepth

(* and that no counter has ever held more than the packets that have left  *)
(* the queue of its switch, or than those of them that are marked.         *)
CountedOnce ==
  \A i \in Switches :
    /\ data_pkt_count[i] <= data_held[i] /\ data_held[i] <= Cardinality(Behind(i))
    /\ marked_pkt_count[i] <= marked_held[i]
    /\ marked_held[i] <= Cardinality(Behind(i) \cap marked)

LEMMA PhasedStays ==
  ASSUME Typed, SentOnly, Phased, [Next]_vars
  PROVE  Phased'
<1>1. /\ MaxPackets \in Nat /\ seq \in Nat /\ QueueDepth \in Nat
      /\ queue \in [Switches -> Seq(Entries)] /\ 1 \in Switches
  BY OpenLoopAssumption, SwitchAssumption
  DEF OpenLoopAssumption, SwitchAssumption, Switches, Typed
<1>2. ASSUME NEW q \in [Switches -> Seq(Entries)], NEW i \in Switches, NEW p,
             \A j \in Switches : Len(q[j]) <= QueueDepth
      PROVE  \A j \in Switches : Len(Joined(q, i, p)[j]) <= QueueDepth
  <2>1. CASE Len(q[i]) < QueueDepth
    <3> DEFINE e == [pkt |-> p, enq_qdepth |-> Len(q[i])]
    <3>1. q[i] \in Seq(Entries) OBVIOUS
    <3>2. Len(Append(q[i], e)) = Len(q[i]) + 1 /\ Len(q[i]) \in Nat BY <3>1
    <3>3. Len(Append(q[i], e)) <= QueueDepth BY <1>1, <2>1, <3>2
    <3>4. Joined(q, i, p) = [q EXCEPT ![i] = Append(q[i], e)] BY <2>1 DEF Joined
    <3> HIDE DEF e
    <3> QED BY <1>2, <3>3, <3>4
  <2>2. CASE ~(Len(q[i]) < QueueDepth)
    BY <1>2, <2>2 DEF Joined
  <2> QED BY <2>1, <2>2
<1>3. CASE Aside
  BY <1>1, <1>3 DEF Aside, Register, SendFails, TimeUp, SetStop, Join, CloseSocket, CloseLog,
     CheckStop, RecvNothing, switch_vars, listener_vars, main_vars, vars, Phased
<1>4. CASE Send
  <2>1. /\ main_pc = "registered" /\ seq' = seq + 1 /\ main_pc' = "loop"
        /\ queue' = Joined(queue, 1, [seq |-> seq, ecn |-> "Ect0"])
        /\ UNCHANGED <<pending, listener_pc, stop, joined, failed, reflector_up>>
    BY <1>4 DEF Send, listener_vars
  <2>2. \A j \in Switches : Len(queue'[j]) <= QueueDepth
    BY <1>1, <1>2, <2>1 DEF Phased
  <2>3. seq' \notin pending'
    <3>1. seq + 1 \notin 0..seq BY <1>1
    <3> QED BY <2>1, <3>1 DEF SentOnly
  <2>4. seq' <= MaxPackets BY <1>1, <2>1 DEF Phased
  <2> QED BY <2>1, <2>2, <2>3, <2>4 DEF Phased
<1>5. CASE WriteRow \/ Reflect \/ ReflectorFails
  BY <1>5 DEF WriteRow, Reflect, ReflectorFails, switch_vars, listener_vars, main_vars,
     Phased
<1>6. ASSUME NEW a \in acks, Recv(a) PROVE Phased'
  BY <1>6 DEF Recv, StillPending, switch_vars, main_vars, Phased
<1>7. ASSUME NEW i \in Switches, Forward(i) PROVE Phased'
  <2> DEFINE rest == [queue EXCEPT ![i] = Tail(@)]
             pkt == AfterEgress(Head(queue[i]))
  <2>1. queue[i] # <<>> /\ UNCHANGED <<main_vars, listener_vars, pending, reflector_up>>
    BY <1>7 DEF Forward, Egress
  <2>2. /\ rest \in [Switches -> Seq(Entries)]
        /\ \A j \in Switches : Len(rest[j]) <= QueueDepth
    <3>1. queue[i] \in Seq(Entries) BY <1>1
    <3>2. /\ Tail(queue[i]) \in Seq(Entries) /\ Len(Tail(queue[i])) = Len(queue[i]) - 1
          /\ Len(queue[i]) \in Nat
      BY <2>1, <3>1
    <3>3. Len(Tail(queue[i])) <= QueueDepth BY <1>1, <3>2 DEF Phased
    <3> QED BY <1>1, <3>2, <3>3 DEF Phased
  <2>3. queue' = rest \/ (i + 1 \in Switches /\ queue' = Joined(rest, i + 1, pkt))
    BY <1>7, SwitchAssumption DEF SwitchAssumption, Switches, Forward, Egress
  <2> HIDE DEF rest, pkt
  <2>4. \A j \in Switches : Len(queue'[j]) <= QueueDepth
    BY <1>2, <2>2, <2>3
  <2> QED BY <2>1, <2>4 DEF Phased, main_vars, listener_vars
<1> QED BY <1>3, <1>4, <1>5, <1>6, <1>7, NextCases

(* Of finitely many numbers, a part is not more than the whole.            *)
LEMMA PartOfNumbers ==
  ASSUME NEW n \in Nat, NEW T, T \subseteq 0..(n - 1), NEW S, S \subseteq T
  PROVE  /\ IsFiniteSet(S) /\ Cardinality(S) \in Nat /\ Cardinality(T) \in Nat
         /\ Cardinality(S) <= Cardinality(T) /\ Cardinality(T) <= n
<1>1. IsFiniteSet(0..(n - 1)) /\ Cardinality(0..(n - 1)) = n BY FS_Interval
<1>2. IsFiniteSet(T) /\ Cardinality(T) <= n BY <1>1, FS_Subset
<1> QED BY <1>2, FS_Subset, FS_CardinalityType

(* Another one in the whole, not in the part, makes it larger.             *)
LEMMA OneMoreNumber ==
  ASSUME NEW n \in Nat, NEW T, T \subseteq 0..(n - 1), NEW S, S \subseteq T,
         NEW x \in T, x \notin S
  PROVE  Cardinality(S) + 1 <= Cardinality(T)
<1>1. IsFiniteSet(S) /\ Cardinality(S) \in Nat BY PartOfNumbers
<1>2. Cardinality(S \cup {x}) = Cardinality(S) + 1 BY <1>1, FS_AddElement
<1>3. S \cup {x} \subseteq T OBVIOUS
<1>4. Cardinality(S \cup {x}) <= Cardinality(T) BY <1>3, PartOfNumbers
<1> QED BY <1>2, <1>4

(* A packet gets behind the queue of a switch when that switch counts it,  *)
(* and none comes back.                                                    *)
LEMMA CountedOnceStays ==
  ASSUME IInv, CountedOnce, [Next]_vars
  PROVE  CountedOnce'
<1> DEFINE behind(i) == Behind(i)'
<1>1. /\ Typed /\ Typed' /\ seq' \in Nat /\ Switches \subseteq Nat /\ SentOnly
      /\ CountersTyped
  <2>1. Typed /\ SentOnly /\ Typed' BY TypedStays DEF IInv
  <2>2. Switches \subseteq Nat BY SwitchAssumption DEF SwitchAssumption, Switches
  <2> QED BY <2>1, <2>2 DEF Typed
<1>2. ASSUME NEW i \in Switches PROVE behind(i) \subseteq 0..(seq' - 1)
  BY DEF Behind
<1>3. ASSUME NEW i \in Switches, Behind(i) \subseteq behind(i), marked \subseteq marked'
      PROVE  /\ Cardinality(Behind(i)) \in Nat /\ Cardinality(behind(i)) \in Nat
             /\ Cardinality(Behind(i) \cap marked) \in Nat
             /\ Cardinality(behind(i) \cap marked') \in Nat
             /\ Cardinality(Behind(i)) <= Cardinality(behind(i))
             /\ Cardinality(Behind(i) \cap marked) <= Cardinality(behind(i) \cap marked')
  <2>1. /\ behind(i) \cap marked' \subseteq 0..(seq' - 1)
        /\ Behind(i) \cap marked \subseteq behind(i) \cap marked'
    BY <1>2, <1>3
  <2> HIDE DEF behind
  <2> QED BY <1>1, <1>2, <1>3, <2>1, PartOfNumbers
<1>4. ASSUME UNCHANGED counters, marked \subseteq marked',
             \A i \in Switches : Behind(i) \subseteq behind(i)
      PROVE  CountedOnce'
  <2> SUFFICES ASSUME NEW i \in Switches
               PROVE  /\ data_pkt_count'[i] <= data_held'[i]
                      /\ data_held'[i] <= Cardinality(behind(i))
                      /\ marked_pkt_count'[i] <= marked_held'[i]
                      /\ marked_held'[i] <= Cardinality(behind(i) \cap marked')
    BY DEF CountedOnce
  <2>1. /\ Cardinality(Behind(i)) <= Cardinality(behind(i))
        /\ Cardinality(Behind(i) \cap marked) <= Cardinality(behind(i) \cap marked')
        /\ Cardinality(Behind(i)) \in Nat /\ Cardinality(behind(i)) \in Nat
        /\ Cardinality(Behind(i) \cap marked) \in Nat
        /\ Cardinality(behind(i) \cap marked') \in Nat
    BY <1>3, <1>4
  <2>2. /\ data_pkt_count[i] <= data_held[i] /\ data_held[i] <= Cardinality(Behind(i))
        /\ marked_pkt_count[i] <= marked_held[i]
        /\ marked_held[i] <= Cardinality(Behind(i) \cap marked)
        /\ data_held[i] \in Nat /\ marked_held[i] \in Nat
    BY <1>1 DEF CountedOnce, CountersTyped
  <2> HIDE DEF behind
  <2> QED BY <1>4, <2>1, <2>2 DEF counters
<1>5. ASSUME UNCHANGED <<counters, marked, seq>>, Place' = Place,
             \A p : EntryAt(p)' = EntryAt(p)
      PROVE  CountedOnce'
  <2>1. ASSUME NEW i \in Switches PROVE behind(i) = Behind(i)
    BY <1>5 DEF Behind, UpTo
  <2> QED BY <1>4, <1>5, <2>1
<1>6. CASE Aside
  BY <1>5, <1>6, AsideEffect
<1>7. CASE WriteRow \/ Reflect \/ ReflectorFails
  BY <1>1, <1>5, <1>7, WriteEffect, ReflectEffect
<1>8. ASSUME NEW a \in acks, Recv(a) PROVE CountedOnce'
  BY <1>1, <1>5, <1>8, RecvEffect
<1>9. CASE Send
  <2>1. /\ UNCHANGED <<counters, marked>> /\ seq' = seq + 1
        /\ \A p \in Place' : \/ p \in Place /\ EntryAt(p)' = EntryAt(p)
                            \/ EntryAt(p)'.pkt.seq = seq
    BY <1>1, <1>9, SendEffect
  <2>2. ASSUME NEW i \in Switches PROVE Behind(i) \subseteq behind(i)
    <3>1. UpTo(i)' \subseteq UpTo(i) \cup {seq} BY <2>1 DEF UpTo
    <3>2. 0..(seq - 1) \subseteq 0..(seq' - 1) /\ seq \notin 0..(seq - 1)
      BY <1>1, <2>1 DEF Typed
    <3> QED BY <3>1, <3>2 DEF Behind
  <2> QED BY <1>4, <2>1, <2>2
<1>10. ASSUME NEW j \in Switches, Forward(j) PROVE CountedOnce'
  <2> DEFINE n == EntryAt(<<j, 1>>).pkt.seq
  <2>1. /\ seq' = seq /\ marked \subseteq marked' /\ <<j, 1>> \in Place
        /\ \A p \in Place' :
             \/ /\ Before(j, p) \in Place \ {<<j, 1>>}
                /\ EntryAt(p)' = EntryAt(Before(j, p))
             \/ p[1] > j /\ EntryAt(p)'.pkt.seq = EntryAt(<<j, 1>>).pkt.seq
    BY <1>1, <1>10, ForwardEffect
  <2>2. ASSUME NEW i \in Switches
        PROVE  /\ UpTo(i)' \subseteq UpTo(i)
               /\ EntryAt(<<j, 1>>).pkt.seq \in UpTo(j)
               /\ EntryAt(<<j, 1>>).pkt.seq \notin UpTo(j)'
    <3>1. \A p : Before(j, p)[1] = p[1] BY DEF Before
    <3>2. ASSUME NEW p \in Place', p[1] <= i PROVE EntryAt(p)'.pkt.seq \in UpTo(i)
      <4>1. CASE Before(j, p) \in Place /\ EntryAt(p)' = EntryAt(Before(j, p))
        BY <3>1, <3>2, <4>1 DEF UpTo
      <4>2. CASE p[1] > j /\ EntryAt(p)'.pkt.seq = EntryAt(<<j, 1>>).pkt.seq
        <5>1. p[1] \in Nat BY <1>1 DEF Place
        <5>2. j <= i BY <1>1, <3>2, <4>2, <5>1
        <5> QED BY <2>1, <4>2, <5>2 DEF UpTo
      <4> QED BY <2>1, <4>1, <4>2
    <3>3. ASSUME NEW p \in Place', p[1] <= j
          PROVE  EntryAt(p)'.pkt.seq # EntryAt(<<j, 1>>).pkt.seq
      <4>1. ~(p[1] > j)
        <5>1. p[1] \in Nat BY <1>1 DEF Place
        <5> QED BY <1>1, <3>3, <5>1
      <4>2. Before(j, p) \in Place /\ Before(j, p) # <<j, 1>>
            /\ EntryAt(p)' = EntryAt(Before(j, p))
        BY <2>1, <4>1
      <4> QED BY <2>1, <4>2 DEF IInv, QueuedOnce
    <3> QED BY <1>1, <2>1, <3>2, <3>3 DEF UpTo
  <2>3. /\ \A i \in Switches : Behind(i) \subseteq behind(i)
        /\ n \in behind(j) /\ n \notin Behind(j)
    <3>1. n \in 0..(seq - 1) BY <1>1, <2>1, PlaceFacts DEF SentOnly
    <3> QED BY <2>1, <2>2, <3>1 DEF Behind
  <2>4. /\ \A i \in Switches \ {j} :
             /\ data_pkt_count'[i] = data_pkt_count[i] /\ data_held'[i] = data_held[i]
             /\ marked_pkt_count'[i] = marked_pkt_count[i]
             /\ marked_held'[i] = marked_held[i]
        /\ data_pkt_count'[j] <= data_held'[j] /\ data_held'[j] <= data_held[j] + 1
        /\ \/ /\ marked_pkt_count'[j] = marked_pkt_count[j]
              /\ marked_held'[j] = marked_held[j]
           \/ /\ marked_pkt_count'[j] <= marked_held'[j]
              /\ marked_held'[j] <= marked_held[j] + 1
              /\ n \in marked'
        /\ CountersTyped'
    BY <1>1, <1>10, CountEffect
  <2> SUFFICES ASSUME NEW i \in Switches
               PROVE  /\ data_pkt_count'[i] <= data_held'[i]
                      /\ data_held'[i] <= Cardinality(behind(i))
                      /\ marked_pkt_count'[i] <= marked_held'[i]
                      /\ marked_held'[i] <= Cardinality(behind(i) \cap marked')
    BY DEF CountedOnce
  <2>5. /\ data_pkt_count[i] <= data_held[i] /\ data_held[i] <= Cardinality(Behind(i))
        /\ marked_pkt_count[i] <= marked_held[i]
        /\ marked_held[i] <= Cardinality(Behind(i) \cap marked)
        /\ data_held[i] \in Nat /\ marked_held[i] \in Nat
        /\ data_held'[i] \in Nat /\ marked_held'[i] \in Nat
    BY <1>1, <2>4 DEF CountedOnce, CountersTyped
  <2>6. /\ Cardinality(Behind(i)) <= Cardinality(behind(i))
        /\ Cardinality(Behind(i) \cap marked) <= Cardinality(behind(i) \cap marked')
        /\ Cardinality(Behind(i)) \in Nat /\ Cardinality(behind(i)) \in Nat
        /\ Cardinality(Behind(i) \cap marked) \in Nat
        /\ Cardinality(behind(i) \cap marked') \in Nat
    BY <1>3, <2>1, <2>3
  <2>7. CASE i # j
    <3> HIDE DEF behind, n
    <3> QED BY <2>4, <2>5, <2>6, <2>7
  <2>8. CASE i = j
    <3>1. Cardinality(Behind(j)) + 1 <= Cardinality(behind(j))
      <4> HIDE DEF behind, n
      <4> QED BY <1>1, <1>2, <2>3, OneMoreNumber
    <3>2. n \in marked' =>
            Cardinality(Behind(j) \cap marked) + 1 <= Cardinality(behind(j) \cap marked')
      <4>1. /\ behind(j) \cap marked' \subseteq 0..(seq' - 1)
            /\ Behind(j) \cap marked \subseteq behind(j) \cap marked'
            /\ n \notin Behind(j) \cap marked
            /\ n \in marked' => n \in behind(j) \cap marked'
        BY <1>2, <2>1, <2>3
      <4> HIDE DEF behind, n
      <4> QED BY <1>1, <4>1, OneMoreNumber
    <3> HIDE DEF behind, n
    <3> QED BY <2>4, <2>5, <2>6, <2>8, <3>1, <3>2
  <2> QED BY <2>7, <2>8
<1> QED BY <1>6, <1>7, <1>8, <1>9, <1>10, NextCases

(* With the types and limits, the packets behind a queue are those that    *)
(* NeverOvercounted counts.                                                *)
LEMMA BehindIsPast ==
  ASSUME Typed, Phased, NEW i \in Switches
  PROVE  Past(i) = Behind(i)
<1>1. /\ Switches = 1..NSwitches /\ NSwitches \in Nat /\ QueueDepth \in Nat
      /\ queue \in [Switches -> Seq(Entries)]
  BY SwitchAssumption DEF SwitchAssumption, Switches, Typed
<1>2. ASSUME NEW p \in Place, p[1] <= i
      PROVE  /\ p \in (1..i) \X (1..QueueDepth) /\ p[2] <= Len(queue[p[1]])
             /\ p = <<p[1], p[2]>>
  <2>1. /\ p[1] \in Switches /\ p[2] \in 1..Len(queue[p[1]]) /\ p = <<p[1], p[2]>>
        /\ Len(queue[p[1]]) <= QueueDepth
    BY DEF Place, Phased
  <2>2. queue[p[1]] \in Seq(Entries) BY <1>1, <2>1
  <2>3. Len(queue[p[1]]) \in Nat BY <2>2
  <2>4. p[1] \in 1..i BY <1>1, <1>2, <2>1
  <2>5. p[2] \in 1..QueueDepth /\ p[2] <= Len(queue[p[1]]) BY <1>1, <2>1, <2>3
  <2> QED BY <2>1, <2>4, <2>5
<1>3. ASSUME NEW p \in (1..i) \X (1..QueueDepth), p[2] <= Len(queue[p[1]])
      PROVE  p \in Place /\ p[1] <= i /\ p = <<p[1], p[2]>>
  <2>1. p[1] \in Switches /\ p[1] <= i /\ p[2] \in Nat \ {0} /\ p = <<p[1], p[2]>>
    BY <1>1
  <2>2. queue[p[1]] \in Seq(Entries) BY <1>1, <2>1
  <2>3. p[2] \in 1..Len(queue[p[1]]) BY <1>3, <2>1, <2>2
  <2> QED BY <2>1, <2>3 DEF Place
<1>4. UpTo(i) = {queue[p[1]][p[2]].pkt.seq :
                   p \in {q \in (1..i) \X (1..QueueDepth) : q[2] <= Len(queue[q[1]])}}
  BY <1>2, <1>3 DEF UpTo, EntryAt
<1> QED BY <1>4 DEF Past, Behind

(* Limits, phases and counts hold with the rest.                           *)
THEOREM LimitsHold == Spec => [](IInv /\ Phased /\ CountedOnce)
<1>1. Init => Phased /\ CountedOnce
  <2> SUFFICES ASSUME Init PROVE Phased /\ CountedOnce
    OBVIOUS
  <2>1. MaxPackets \in Nat /\ QueueDepth \in Nat
    BY OpenLoopAssumption, SwitchAssumption DEF OpenLoopAssumption, SwitchAssumption
  <2>2. \A i \in Switches : /\ queue[i] = <<>> /\ Len(queue[i]) = 0
                           /\ data_pkt_count[i] = 0 /\ marked_pkt_count[i] = 0
                           /\ data_held[i] = 0 /\ marked_held[i] = 0
    BY DEF Init, SwitchInit
  <2>3. seq = 0 BY DEF Init
  <2>4. \A i : Cardinality(Behind(i)) = 0 /\ Cardinality(Behind(i) \cap marked) = 0
    <3>1. \A i : Behind(i) = {} /\ Behind(i) \cap marked = {} BY <2>3 DEF Behind
    <3> QED BY <3>1, FS_EmptySet
  <2>5. Phased
    <3>1. {stop, joined, failed, reflector_up} \subseteq BOOLEAN BY DEF Init
    <3>2. /\ main_pc = "loop" /\ listener_pc = "check" /\ seq = 0 /\ pending = {}
      BY DEF Init
    <3>3. \A i \in Switches : Len(queue[i]) <= QueueDepth BY <2>1, <2>2
    <3>4. seq <= MaxPackets BY <2>1, <3>2
    <3> QED BY <3>1, <3>2, <3>3, <3>4 DEF Phased
  <2>6. CountedOnce BY <2>2, <2>4 DEF CountedOnce
  <2> QED BY <2>5, <2>6
<1>2. IInv /\ Phased /\ [Next]_vars => Phased' BY PhasedStays DEF IInv
<1>3. IInv /\ CountedOnce /\ [Next]_vars => CountedOnce' BY CountedOnceStays
<1> QED BY <1>1, <1>2, <1>3, InvariantHolds, PTL DEF Spec

(* Every variable has its type; in particular no queue outgrows its depth, *)
(* and no counter of a switch has held more than the packets sent.         *)
THEOREM TypesHold == Spec => []TypeOK
<1>1. IInv /\ Phased /\ CountedOnce => TypeOK
  <2> SUFFICES ASSUME IInv, Phased, CountedOnce PROVE TypeOK
    OBVIOUS
  <2>1. MaxPackets \in Nat /\ seq \in Nat /\ seq <= MaxPackets
    BY OpenLoopAssumption DEF OpenLoopAssumption, IInv, Typed, Phased
  <2>2. 0..(seq - 1) \subseteq Packets BY <2>1 DEF Packets
  <2>3. pending \subseteq Packets
    <3> SUFFICES ASSUME NEW n \in pending PROVE n \in Packets
      OBVIOUS
    <3>1. n \in 0..seq /\ (n = seq => seq < MaxPackets) BY DEF IInv, SentOnly, Phased
    <3> QED BY <2>1, <3>1 DEF Packets
  <2>4. marked \subseteq Packets BY <2>2 DEF IInv, SentOnly
  <2>5. \A a \in acks \cup ({in_hand} \ {Nothing}) : a \in Rows
    <3> TAKE a \in acks \cup ({in_hand} \ {Nothing})
    <3>1. a \in Answers /\ a.seq \in Reached
      BY DEF IInv, Typed, Reached, Answered, InHand
    <3>2. a.seq \in Packets BY <2>2, <3>1 DEF IInv, SentOnly
    <3> QED BY <3>1, <3>2 DEF Answers, Rows
  <2>6. rows \in Seq(Rows)
    <3>1. rows \in Seq(Answers) BY DEF IInv, Typed
    <3>2. ASSUME NEW i \in 1..Len(rows) PROVE rows[i] \in Rows
      <4>1. rows[i] \in Answers /\ rows[i].seq \in Reached
        BY <3>1 DEF Reached, Logged
      <4>2. rows[i].seq \in Packets BY <2>2, <4>1 DEF IInv, SentOnly
      <4> QED BY <4>1, <4>2 DEF Answers, Rows
    <3> QED BY <3>1, <3>2
  <2>7. ASSUME NEW i \in Switches
        PROVE  /\ Len(queue[i]) <= QueueDepth
               /\ data_pkt_count[i] <= data_held[i] /\ data_held[i] <= seq
               /\ marked_pkt_count[i] <= marked_held[i] /\ marked_held[i] <= seq
    <3>1. /\ Behind(i) \subseteq 0..(seq - 1)
          /\ Behind(i) \cap marked \subseteq 0..(seq - 1)
      BY DEF Behind
    <3>2. /\ Cardinality(Behind(i)) \in Nat /\ Cardinality(Behind(i)) <= seq
          /\ Cardinality(Behind(i) \cap marked) \in Nat
          /\ Cardinality(Behind(i) \cap marked) <= seq
      BY <2>1, <3>1, PartOfNumbers
    <3>3. data_held[i] \in Nat /\ marked_held[i] \in Nat BY DEF IInv, Typed, CountersTyped
    <3> QED BY <2>1, <3>2, <3>3 DEF Phased, CountedOnce
  <2>8. {stop, joined, failed, reflector_up} \subseteq BOOLEAN BY DEF Phased
  <2>9. seq \in 0..MaxPackets BY <2>1
  <2> QED BY <2>3, <2>4, <2>5, <2>6, <2>7, <2>8, <2>9 DEF TypeOK, IInv, Typed, Phased
<1> QED BY <1>1, LimitsHold, PTL

(* However reads and writes of the counters interleave, a switch counts no *)
(* more packets than have left its queue, and no more marks than packets   *)
(* among them that bear one.                                               *)
THEOREM CountersNeverOvercount == Spec => []NeverOvercounted
<1>1. IInv /\ Phased /\ CountedOnce => NeverOvercounted
  <2> SUFFICES ASSUME IInv, Phased, CountedOnce, NEW i \in Switches
               PROVE  /\ data_pkt_count[i] <= Cardinality(Past(i))
                      /\ marked_pkt_count[i] <= Cardinality(Past(i) \cap marked)
    BY DEF NeverOvercounted
  <2>1. Past(i) = Behind(i) BY BehindIsPast DEF IInv
  <2>2. /\ seq \in Nat
        /\ data_pkt_count[i] \in Nat /\ data_held[i] \in Nat
        /\ marked_pkt_count[i] \in Nat /\ marked_held[i] \in Nat
    BY DEF IInv, Typed, CountersTyped
  <2>3. Cardinality(Behind(i)) \in Nat /\ Cardinality(Behind(i) \cap marked) \in Nat
    BY <2>2, PartOfNumbers DEF Behind
  <2> QED BY <2>1, <2>2, <2>3 DEF CountedOnce
<1> QED BY <1>1, LimitsHold, PTL

=============================================================================
