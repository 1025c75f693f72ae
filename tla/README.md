# A TLA+ verification of INT-based HPCC

The repository reproduces HPCC (congestion control from in-network telemetry)
on BMv2 switches: senders in Python and C that run HPCC or DCTCP over UDP, a
reflector that answers their packets, P4 programs that add the telemetry or the
congestion marks, and drivers and scripts around them. This directory models
what of it has state that steps of several threads, packets, switches or processes
share: the senders' transport and control laws, the telemetry between switch and
sender, the way of a packet through both switches, the queue snapshots, the open-loop
harness and the drivers. TLC checks the modules on small instances; TLAPS proves the
safety properties of the transport, of all four senders, of the telemetry, of the
snapshots, of the open-loop harness and of the drivers for every instance.

Paths are relative to `src/`. PROJECT.json maps each definition to its lines.

## 1. The system

### Components, their state, and how they interact

| Component | State | Operations | Talks to |
|---|---|---|---|
| Windowed transport (the same in `sender/dctcp_sender.py`, `sender/hpcc_sender.py`, `extensions/hpcc_v2/hpcc_sender_v2.py`) | `next_seq`, `cum_acked_seq`, `in_flight`, `w`, a lock, `stop` | `run` (burst, early exit, drain), `_ack_listener`/`_on_ack_locked`, `_rto_checker`, `_send_one` | reflector by UDP; its three threads share everything under one lock |
| DCTCP control law | `alpha`, `rtt_window_total/marked`, `last_update_seq` | `_maybe_update_window_locked`, the cut on a timeout | called by the ACK listener with the lock held |
| HPCC control law, v1 and v2 | `w_ref`, `incarnation`, `u_smoothed`, `last_update_seq`, a pair stored with each packet in flight | `_compute_u`, EWMA, `_maybe_update_window_locked` | as above |
| C sender (`extensions/csender/hpcc_sender.c`) | array of slots, `in_flight_count`, cursor, control law | main loop with inline timer, ACK thread | as above; two threads, one mutex |
| INT telemetry (`p4src/hpcc.p4`, `_compute_u`) | switch: `tx_byte_count` per port, `link_bps`, `switch_id`; packet: hop stack; sender: `hop_last` | egress push, reflect, `_compute_u` | switch to sender by way of packet and ACK |
| Reflector (`receiver/reflector.py`) | none | receive, answer with the same number, hop stack and ECN echo | senders |
| DCTCP switch (`p4src/dctcp.p4`) | counters per port | mark CE above a queue depth, count | drivers read the counters |
| Parser, deparser, headers | none | header layout, stack bound | |
| Queue snapshots (`extensions/qsnap`) | ring of 1024 buckets per switch; poller: last value of each bucket | egress write of the last packet's depth, poll by CLI, a row per changed bucket | poller to switch |
| Open-loop sender (`sender/open_loop.py`) | pending packets, log | paced send, listener | reflector; two threads |
| Wire codecs (`sender/packet_format.py`, `packet_format.h`, the P4 parser, `_build_ack`) | none | pack, parse at byte offsets | every program that sends or receives |
| Table loader (`controller/load_tables.py`) | none of its own | writes tables, names, capacities and thresholds, s1 before s2 | switches, over their CLIs |
| Experiment drivers (`experiments/run_e1.py` to `run_e4.py`, `extensions/bdp_sweep/run.py`) | processes, times | load, start, wait with limits, kill, stop the reflector | loader, reflector, senders |
| Topology (`topo`) | links, addresses | set up Mininet | all of the above |
| Log analysis and plots, smoke scripts, containers | files | parse logs, plot, start programs | finished logs |

### What is hard about it

* Three threads share the window. The ACK listener and the timer run between
  any two bursts of the run loop; `next_seq` and `in_flight` are looked at
  under different acquisitions of the lock.
* The network loses, duplicates (a retransmission and its first copy) and
  reorders packets and ACKs; the reflector acknowledges packet by packet, the
  sender reads the number as cumulative.
* The port is not fresh: base-RTT probes, and earlier processes on the same
  port, may still get answers.
* A timeout empties the table and refills it, ignoring the window, and `sendto`
  may fail in the middle.
* The gate of a window update is measured in a window that the update moves.
* Feedback is older than the state it is applied to: an ACK may belong to a
  packet from before the last cut, a telemetry record may be older than the
  last one seen, and the switch's counter wraps.
* The C sender keeps a count beside an array indexed modulo its length.
* The switches' counters are read and written in two steps.
* Tables are loaded, and counters reset, while packets may be about.
* Headers grow on the way, and five programs in three languages find the payload
  by offsets they compute from the number of hops.
* The snapshots' ring is used again every 8 s and read only now and then; only
  what has changed is recorded.
* Drivers wait for senders that may crash, hang, or take as long as the wait.

PROJECT.json lists these at their lines under "hazards", each with the
properties that cover it or the reason none does yet.

### What makes the components correct

* Transport: no packet is forgotten, none that is acknowledged stays in
  flight, the number in flight is bounded, the early exit means what it says,
  and `run` ends.
* Control laws: the window stays in its limits, feedback counts once, growth
  is paid for by acknowledged packets, and one congestion event should cut once
  (it may not, see 5).
* Telemetry: a rate the sender computes is the rate of the port, no byte is
  counted twice, a measured hop is never taken for an unmeasured one.
* C sender: slots and count agree; the process ends.
* Open-loop harness: log and summary fit, an echo is its packet's mark, and the switches'
  counters, which may miss packets, never tell of too many.
* Wire formats and forwarding: what a sender reads from an ACK is what happened to
  its packet; a frame is well-formed on each link and never arrives at a wrong host.
* Loader: tables may be half loaded, but a hop with a capacity has its switch's name.
* Queue snapshots: the rows replay the ring, date what they record, and miss no change
  while reads keep ahead of the ring.
* Drivers: a fault of one sender costs no other its log, nobody is left behind, and
  the driver ends.

## 2. The modules

| Module | Models | Role |
|---|---|---|
| `WindowedSender` | transport, network, reflector | the abstract specification of all Python senders: the window may move anywhere in its limits when an ACK is processed |
| `WindowedSenderProofs` | | its safety properties, proved |
| `DctcpSender` | DCTCP control law on the transport | implements `WindowedSender` |
| `DctcpSenderProofs` | | type correctness, the refinement, the two estimator properties |
| `HpccLaw` | the arithmetic all HPCC senders share | used by the next two |
| `HpccSender` | both Python HPCC senders (`V2` selects) | implements `WindowedSender` |
| `HpccSenderProofs` | | type correctness, the refinement, the order of snapshots, for both versions |
| `CSender` | the C sender | stands alone: its transport differs |
| `DctcpSwitch` | `dctcp.p4` and the queues it runs over | used by the next |
| `OpenLoop` | open-loop sender, DCTCP switches and reflector | composes the three |
| `OpenLoopProofs` | | types, one row each, the right echo, summary fits the log, counters never too high |
| `IntTelemetry`, `MCIntTelemetry` | switch egress, hop stack, counter resets, `_compute_u`, the next trial's sender | supplies the utilisation samples `HpccSender` takes as given; the MC module adds symmetry of packets |
| `IntTelemetryProofs` | | types, true rates, no rate too large, no byte twice, measured is not zero, stack is path |
| `WireFormat` | payloads as parts at byte offsets; all packers and parsers | used by the next |
| `Dumbbell` | hosts, links, both switch programs, reflector, loader | composes them; one exchange at a time |
| `DumbbellProofs` | | parser and deparser, types, well-formed frames, right deliveries, true round trips, right names |
| `QueueSnapshots` | the ring in `hpcc_qsnap.p4` and the poller | stands alone |
| `ExtensionsProofs` | | of the C sender, types, slots and count; of the queue snapshots, types, replay, dates, no change missed. One module for the two extensions, hence the names `SnapshotsInit`, `SnapshotsSpec` ... of the second |
| `Drivers` | the five drivers and their senders as processes with times | stands alone |
| `DriversProofs` | | types, nobody left behind, which logs a fault can cost |

### How state and actions correspond to the code

**Threads and lock.** The ACK listener and the timer do all their work in one
critical section, so each is one action (`RecvAck`, `Rto`). The run loop holds
the lock over several sends: `run_pc = "burst"` is the time it has it, `SendNext`
one turn of its inner loop, `LeaveBurst` the release, `CheckDone` the test for
the early exit under a new acquisition, `TimeUp` the end of the duration. In the drain the other
two threads go on until `Close`.

**Sends.** A `sendto` may raise `OSError` (`SendMayFail`): no entry is made, but
`next_seq` has moved on; in a timeout the entry is gone. The history variable
`untracked` holds those numbers. If *every* send failed and there were no
`max_packets`, the inner loop would not end; the models bound the run by
`MaxPackets`.

**Network.** `data` and `acks` are sets: any order. A retransmission's second
copy is the choice `keep` when a message is taken. Loss is an action
(`LoseData`, `ReflectLost`, `Lose`). ACKs in `acks` are those that will reach
the socket. `StrayAcks` are ACKs in the network at the start, of the probes or
of an earlier process.

**Time.** Not modelled in the senders: an entry may be older than the RTO at any
moment, and the wall-clock half of HPCC's update gate is a free choice. Since
every order of timeout and ACK is allowed, the properties hold for every RTO.
`IntTelemetry` has a clock, because its rates divide by time.

**Numbers.** Windows, alpha and U are floats in the code and fixed-point
numbers, rounded down, here (`Scale`, `AlphaOne`, `UOne`). The transport reads
only `int(self.w)`; the refinement maps `w` to `w \div Scale`. The switch's
48-bit counter wraps at `CounterMod`.

**C sender.** Slot of packet s is `s % InflightMax`. The main thread sends and
looks for expired packets in the same critical section, so `Unlock(Rto)` and
`Unlock(NoRto)` are the two ways to leave it. Entries stay in place over a
timeout. An ACK above the cursor whose packet has no entry feeds the
utilisation and the update but moves nothing.

**Telemetry.** One packet at a time leaves a switch (`Egress`): the counter is
moved, the record made, put in front of the stack. A packet with a full stack
leaves unmodified and uncounted. `CrossTraffic` is other senders' data.
`RecvAck` is the whole of `_compute_u`, including that `hop_last` is replaced before
the sample is judged. `Reset` is the controller's `register_write` of 0 and may come at
any moment; `NextTrial` puts a new sender in the place of the old one while packets
of the old one go on.

**Wire format and dumbbell.** A payload is a sequence of parts with their sizes; a reader
asks for the part at a byte offset and gets garbage if none begins there, so that a wrong
length or order shows. A checksum is the very thing it was computed over. `Forward`
is a packet's whole way through a switch: parser, ingress, egress, checksum,
deparser, link. `LoadNext` is one CLI command; `LoadFails` ends the loader for good.
One exchange (a data packet and its ACK, or a ping) is in the network at a time:
what packets share is the subject of `DctcpSwitch` and `IntTelemetry`.

**Queue snapshots.** `time` counts buckets without end; the ring keeps the last `Slots`
of them. `Read` is the poll of the whole register and the rows it makes; `ReadFails`
and `ReadTimesOut` are the two ways it can go wrong. `wrote`, `trace`, `last_read`,
`ring_read` and `lapped` are history.

**Open loop.** `Register` and `Send` are the two halves of a turn of the loop: the
packet is in `pending` before it is on the wire. `Recv` takes a packet out of
`pending`, `WriteRow` writes its row; the main thread's shutdown (`SetStop`, `Join`,
`CloseSocket`, `CloseLog`) may come between any two of the listener's steps. A
switch's queue is FIFO and drops at its tail; `enq_qdepth` is its length when the
packet joins. The history variable `marked` holds the packets some switch marked.

**Counters of the DCTCP switches.** `dctcp.p4` reads a counter and then writes it, and
`docs/methodology.md:156-158` says that this is not atomic and may undercount under high concurrency.
The model agrees: an `Egress` is the write, and the value read may be any the counter has held,
so that what others wrote since is lost (`CountData`, `CountMark`; `data_held` and `marked_held`,
history, are the highest values so far). Hence nothing says that counters cover the log, and
`marked_pkt_count` may even be ahead of `data_pkt_count`; what is left, and checked, is that
neither is ever too high.

**Drivers.** A driver is a plan: when each sender starts and how long it may run, whom
the driver waits for and how long, and whether a wait that runs out ends one sender or all.
The plans are those of the five programs, and one set of actions carries them out; the
sweep over rates is E1 with a round for each trial, and `TrialFails` is a trial that raises:
the rate cannot be set, or there is no log to summarise. A
sender is a process with phases and the time spent in each; it may crash, or hang
(the loop over failing sends holds the lock for ever; a full output pipe does the same).
Due events happen before the next tick.

**Faulty variants.** A definition named `X_Something` is `X` with a plausible
mistake in it. No action uses it; PROJECT.json "mutants" says which property
notices when it takes the place of `X`.

## 3. What is checked

| Run | Shows | Result |
|---|---|---|
| `windowed` | the transport's bookkeeping, the early exit, and that `run` ends, with failing sends and a lossy, reordering network | holds |
| `loss_acknowledged` | a lost packet is taken for acknowledged | violated, see 5 |
| `stray_ack` | one late ACK on the port keeps the run from ending | violated, see 5 |
| `dctcp` | DCTCP implements the transport; an ACK is counted once; growth is paid for | holds |
| `hpcc_v2` | the second HPCC sender keeps its limits; with packets from before and after a cut in flight together, its snapshots tell them apart | holds |
| `hpcc_stale_ack` | an ACK from before a cut cuts again | violated, see 5 |
| `csender` | slots and count agree while slots are reused; the process ends although a left-over ACK is about, while no send fails | holds |
| `open_loop` | one row per packet, with the right echo; the summary fits the log; counters that lose updates never tell of too many; the harness ends | holds |
| `experiments` | at most one log of an incast round is lost, in the other experiments none but for E2's exception; nobody is left behind; the driver ends, whatever its senders do | holds |
| `telemetry` | rates are true, bytes count once, a measured hop counts, the stack is the path, over loss, reordering, a wrap, a full stack, a reset and a change of sender | holds |
| `qsnap` | rows replay the ring, date their packets, miss no change | holds |
| `paths` | headers, addresses, answers and hop names are right for either switch program, at every moment of loading; all is answered once loaded | holds |

Each module with a specification defines a `TypeOK` (`SnapshotsTypeOK` in `QueueSnapshots`).
Those of the transport and the senders are invariants of their runs; those of the others
are proved, and their runs spend their properties on what could be wrong.

### Bounds, and why they are enough

* `windowed`: 3 packets, window 2 at the start and at most. Three packets are
  the fewest with an ACK that jumps over another while a third is unsent;
  with the window of 2 the run loop has to wait, and a timeout that halves it
  leaves more in flight than it allows. Loss, duplication and failed sends are unbounded.
* `dctcp`: window 1 growing to 3 in halves of packets, alpha in quarters with
  g = 1/2: growth, cuts by every alpha, and the floor all happen.
* `hpcc_v2`: packets of two incarnations are in flight together when a cut leaves a packet of
  before in flight and a window with room for one more. That takes a window of 3, an ACK that
  opens the gate with one packet left behind it, a cut to 2, and a fifth packet; TLC
  refutes the claim that this instance has no such states. Of three incarnations, the sender's
  own included, it has none. Up to 2 cuts (`MaxIncarnation`) by updates and by timeouts, in any
  order; samples well below and above eta, and an EWMA that takes the last one alone (`TauInv` is
  1), so that windows from 1 to 3 all occur. For more cuts, samples that are none (0), and other gains
  there are the theorems, which also hold for the first version (`V2 = FALSE`): it reads less
  state and has no run of its own. That the sender implements the transport is proved
  (`HpccImplementsWindowed`) and not checked in this run: together with the invariants TLC needs more
  than five minutes for it here, and in instances small enough the two incarnations do not meet.
  The same refinement is checked for DCTCP (`dctcp`).
* `csender`: 3 packets in 2 slots, so that one slot is used twice, and an ACK of
  number 6, which falls in the slot of packets 0 and 2 and was never sent.
* `telemetry`: 3 switches of which the third finds the stack of 2 full and has
  no `link_bps`; 3 packets and one of cross traffic; a counter that starts 5
  below its end, so that it wraps between any two records; time 0 to 2,
  standing still allowed, so that dt is zero, positive and negative; one reset, of the
  first switch, and any number of new senders. Larger instances are the theorems' part.
  Behaviours end when all packets are gone, so deadlock is not checked there.
* `open_loop`: two switches with room for 2 packets and K = 0, so that of 3 packets
  any can be marked by none, one or both, or dropped; every place where `sendto` may
  fail; the shutdown at any moment; every value that a counter's read may give.
* `experiments`: all five plans; 3 flows, so that one waits before and one after a killed
  one; 2 rounds; the senders' cap and the wait of E3 are equal, as in the driver (6 ticks
  for 30 s), starting and ending take up to 3 ticks together, less than the 4 of the second
  wait of E2, as the code's times do (7.7 s and 10 s, `SenderTimes`); one crash or hang.
* `qsnap`: a ring of 2 buckets over 5 moments, so that it comes round twice; 4 reads, any
  of which may fail. The model stops at `MaxTime`, so deadlock is not checked.
* `paths`: two senders, so that there is a wrong one to arrive at; sequence numbers
  that differ; depths on both sides of the threshold; no padding and the default one, with
  which a second hop makes the frame exactly as large as the link takes.

### Fairness

`FairSpec` of `WindowedSender` assumes weak fairness of the run thread: it is
never blocked for good, since the others hold the lock for one bounded critical
section. The listener and the timer get strong fairness: they want the lock,
which the run thread gives up and sleeps without on each turn; they are enabled
again and again rather than for ever. `SF(Reflect(s))`: a packet sent again and again is
answered and the answer arrives at last. The duration (`TimeUp`) has no
fairness: `Completes` is about the early exit and must not lean on the time limit.
`CSender` has the same, and in place of the timer's fairness that of a resend in
which no send fails.
`OpenLoop` assumes fairness of the main thread only: it waits for nothing but time.
`Drivers` assumes `WF(Next)`: time passes and processes are scheduled; no fault has to
happen, and no trial has to fail. `Dumbbell` assumes weak fairness of the switches, the reflector and the
receiver, and strong fairness of each host's sends, which in the model wait for the
exchange before to be over; nothing says that the loader succeeds, so `AllAnswered` starts
from `Loaded`.

## 4. What is proved

Machine-checked, for every value of the constants that the modules' assumptions
(`WindowAssumption`, `DctcpAssumption`, `LawAssumption`, `HpccAssumption`,
`CSenderAssumption`, `TelemetryAssumption`, `SnapshotAssumption`, `SwitchAssumption`,
`OpenLoopAssumption`, `DriversAssumption`, `SenderTimes`, `DumbbellAssumption`) allow: windows at
least 1, `WMin` below `WInit` and `WMax`, fixed-point scales positive, durations of at least a tick,
at most nine senders (a tenth would have the receiver's address), a TTL above 0. They hold for the
code's defaults and options.

`WindowedSenderProofs`
* `TypeCorrect`: the types are inductive; they include that nothing is in flight,
  in the network or received that was not handed out.
* `FlightBound` (`InFlightBounded`): inductive given the types. Only
  `SendNext` adds an entry and its guard leaves room below `w <= WCap`; a
  timeout's resend adds none.
* `NothingForgotten` (`Accounted`): inductive given the types: an ACK removes
  only what it brings below the cursor, a timeout only what fails.
* `CursorReceived` (`CumAckReceived`): not inductive alone; the
  strengthening `AcksAnswer` says that every ACK on its way is of a received packet too.
  Needs `StrayAcks = {}`.
* `FlightAboveCursor` (`InFlightUnacked`): rests on `CursorReceived` and the
  types: the cursor stands at a packet that was sent, so a new packet is above it.
* `EarlyExitSound` (`EarlyExitComplete`): an action property, from `Accounted` and
  `CumAckReceived`: all handed out and nothing in flight leaves the last packet
  at or below the cursor, or given up.

`DctcpSenderProofs`
* `DctcpTypeCorrect`: `w`, `alpha` and the counters stay in their limits for
  every gain and resolution; the arithmetic (cut, growth, halving, EWMA) is in lemmas.
* `DctcpImplementsWindowed`: initial states map to initial states and each step
  to a step of `WindowedSender`, under `w \div Scale` and the ACKs' numbers. The
  invariant needed is the type correctness: it bounds where an update can put `w`.
* `DctcpTransportSafe`: hence the DCTCP sender has the transport's safety properties.
* `CountedOnce` (`AckCountedOnce`), without stray ACKs: an ACK that gets past
  the duplicate test is above the cursor, by `InFlightUnacked` of the transport, so it
  moves it by at least one.
* `GrowthIsPaidFor` (`GrowthPaidFor`): the window grows by one packet only when
  the gate has let as many packets be acknowledged as the window held.

`HpccSenderProofs`, for both values of `V2`
* `HpccTypeCorrect`: window, utilisation, snapshots and gate stay in their limits,
  whatever utilisation is measured; what an update or a timeout can make of a window
  is in the lemmas about `HpccLaw`, which the C sender's proofs state again for themselves.
* `HpccImplementsWindowed`: as for DCTCP; `w_ref \div Scale` is the abstract window.
* `SnapshotsStayInOrder` (`SnapshotsInOrder`): inductive given the types: a new packet
  carries the present incarnation, which never goes down.

`ExtensionsProofs`, of the C sender
* `CSenderInvariant`: the types with two more facts that make them inductive: each
  slot holds a packet of its own that is not acknowledged, and the count covers the
  occupied slots, so that an ACK, which takes as many off the count as it clears, cannot
  take it below zero. `CSenderTypeCorrect` and `CSenderSlotsAfterCursor` follow.
* `CountIsRight` (`CountMatchesSlots`), while no send fails and no window is larger
  than the table: the packets from the cursor on all have their slot (`Contiguous`)
  and the count is their number (`Tally`). A new packet's slot is free because
  all packets in flight are less than a table's length behind it; that an ACK
  clears as many slots as it moves the cursor is a bijection between the two.
  The first assumption is needed: failed sends use up numbers until a new packet
  takes the slot of one in flight, and the count is then wrong for good.

`IntTelemetryProofs`, for any path, number of packets, losses and resets, as long as all
packets together are less than one round of the counter (`TelemetryAssumption`; 2^48 bytes)
* `SamplesAreTrue` (`TrueRate`) and `SamplesNeverTooLarge` (`NeverTooBusy`). What is
  inductive: every record about is of its port's past (`Earlier`), and of two records of a
  port the one with the smaller timestamp is of the other's past. `Earlier` says: fewer
  bytes sent; after equally many resets the counters differ by what was sent,
  modulo the wrap; after fewer resets the later counter has no more than what was sent
  since. A packet that leaves a port moves the port on and adds a record that is its present.
  A sample takes two records in order of time, both counters are remainders, and
  what was sent fits the counter (`SentIsPassed`: no more than what has passed the port), so
  the difference, if not negative, is the bytes sent.
* `StacksArePaths` (`StackIsPath`): inductive given the types of the stacks.
* `NoByteIsCountedTwice` (`NoByteCountedTwice`). What is inductive (`CountsInOrder`): as long
  as no record of a hop is older than the one before it, what has been counted of the hop is no
  more than what left the port between first and last record. An ACK adds to a hop at most
  one sample (`OneRecordPerHop`, from `StackIsPath`: a stack names no switch twice), and its
  bytes are bounded by the invariant behind `NeverTooBusy`, so that resets do no harm either.
* `MeasuredHopsCount` (`EverySampleCounts`): of two records of equally many resets the later
  has strictly more bytes sent (a part of the invariant: what is in order of time is so
  strictly), so the sample has bytes; and as long as the clock of the model is finer than
  its unit of rate (`MaxTime <= RateUnit`) the division leaves more than 0. `u` is the greatest
  of finitely many terms.
* `TypesHold`: every variable, the history included.

`OpenLoopProofs`, for any number of switches and packets, any depth and threshold, failing
sends, a lossy way back, and a shutdown at any moment
* `InvariantHolds`: the inductive invariant of the four properties. A packet's number is, from
  its registration on, in one place at a time: pending, the listener's hand, the log
  (`HeldOnce`), and it is in all of these together exactly if it was sent, until the log closes
  (`Accounted`). On the wire it is in one place of one queue or behind the last switch
  (`QueuedOnce`), and it carries there, as the answer does later, whether it is in `marked`
  (`MarkCarried`). This holds because a mark is only ever set in a packet that is in a queue, so the
  numbers behind the switches do not change their mind. A join that saw the listener's end is the
  end of it (`JoinedIsEnd`).
* `EachLoggedOnce` (`LoggedOnce`), `EachEchoIsMark` (`EchoIsMark`) and `EachSummaryFits`
  (`SummaryFitsLog`) are parts of it. For the last, the numbers sent are split into rows and
  pending, and no number has two rows, so their counts add up.
* `CountersNeverOvercount` (`NeverOvercounted`): what is inductive is a bound for the highest value a
  counter has held (`CountedOnce`): the number of packets sent that are neither in the switch's
  queue nor in one before it, for marks those of them that are marked. A packet that
  leaves adds one to that set and at most one to the highest value, whatever older value was read. It
  adds to the set because a number is in one queue only (`QueuedOnce`), and no number behind a
  switch comes back to it.
* `TypesHold`: a queue never outgrows its depth, and no counter the number of packets sent.

`DriversProofs`, for all durations, delays, gaps, numbers of flows, rounds and trials
* `NobodyIsLeftBehind` (`NobodyLeftBehind`): inductive is where the driver is and who may be alive
  then (`Supervised`): in a wait, all whose waits are over are gone, and each sender has a
  wait (`WellPlanned`). It needs no assumption about how long senders take.
* `FaultsOfOneCostNoOther` (`FaultsStayLocal`): a wait that runs out finds nobody at work outside
  E3. A sender that works is never older than its times (`OnTime`) and a wait never older than the
  sender it is for, so it would have worked for `Duration + Grace` already; for the short
  second wait of E2, the first sender has the lead of the second and the second's whole run
  behind it (`LeadKept`). This needs `SenderTimes`: starting and ending together take less than
  `LastWait`, and `LastWait` is at most `Grace`.
* `RoundLacksOneLog` (`OneLogMissingAtMost`): in E3 whoever still works after a kill has worked for
  `Grace` before the next wait starts (`OneKilled`), so it is done before that runs out.
* `TypesHold`: the driver is nowhere longer than its plan says.

`ExtensionsProofs`, of the queue snapshots, for a ring of any size
* `SnapshotsTypeCorrect`, `RingReplayed` (`RowsReplayRing`) and `RowsDate` (`RowsDateWrites`)
  are parts of one invariant, with what links them: the poller remembers the ring
  of its last read, and a bucket that has another value now was written since.
* `NoChangeMissed` (`ChangesRecorded`): inductive with two more facts. `RingIsTrace`: less
  than a lap to either side of the present, a bucket holds what its moment left there, or
  what was there before. `ReadSoFar`: what the last read found of the moment under way is in
  the rows, and of the lap to come it found what was there before. That moments sharing
  a bucket are whole laps apart (`OwnLap`, `NextLap`) makes a packet disturb one of them only.

`DumbbellProofs`, for any number of senders up to nine, any numbers, depths, threshold and
padding, drops at full queues, and a loader that fails at any command
* `ParserUndoesDeparser`: what the deparser puts together, the parser takes apart, at every depth of
  the hop stack. A part is found by its byte offset, a recursive sum over the parts before it;
  that sum of two payloads in a row is the sum of the sums (`BytesOfConcat`), and as every part
  takes up room, no two are found at one offset.
* `IInvHolds`: the inductive invariant of the four properties. It has two halves.
  `Tables`: what the loader has written so far is a part of what is right, and what it has still
  to write is right too and has each switch's name before its capacities (`NamesFirst`). So a
  route is missing or leads to its host, and a capacity that is set has a name with it,
  wherever the loader stops. `OnTheWay`: a frame is at an end of a link its route leads
  over; it has its host's MAC address on the last link; its lengths and checksums fit its payload;
  and that is what a host packed with a hop for each port the frame has left (`trail`),
  in order. The four properties are not inductive alone: what a sender reads at the end
  depends on every byte written before, and where a frame is delivered on every table it met.
* `EveryFrameDeliveredRight` (`DeliveredRight`), `EveryRoundTripTrue` (`RoundTrip`) and
  `EveryHopNamedRight` (`NamedRight`) follow. For the second, the three listeners are shown to read
  the same of a payload: each unpacks at the offsets the reflector packed at.
* `EveryFrameWellFormed` (`WellFormed`), under the hypothesis `FramesFit`: a data packet with both
  hops and the most padding is no longer than a link takes. The drivers leave the padding at its
  default of 1400 bytes, and the largest frame then is exactly the 1500 of the links. `--padding` may be
  larger, and then the property fails. A frame has passed at most two switches, as the routes go.
* `TypesHold`: tables cover every host and registers every port; a TTL never reaches 0.

Sums and maxima over sets are folds, and the library's induction theorems about them take an
operator as a parameter, which the provers cannot instantiate. Where a proof needs such a fact
(`Greatest`, `GateStays`, the offsets in a payload) it takes the least
counterexample instead: a set of numbers that is not empty has a least element (`LeastElement`, from the library's theorem that
numbers are well-ordered).

Only model-checked:
* Liveness (`Completes` of both transports, `Ends`, `DriverEnds`, `AllAnswered`): it rests on
  fairness, hence on ENABLED, for which the prover has no rules.
* The three statements of documents and comments that the code does not keep (section 5): TLC's
  counterexamples are the evidence.

## 5. Where code and documentation disagree

PROJECT.json "findings" quotes the lines; each has a run with a counterexample.

1. `sender/dctcp_sender.py:152-155` takes every number up to `ack_seq` as
   acknowledged; the reflector answers each packet with its own number. A lost
   packet followed by one that arrives is never sent again (`loss_acknowledged`).
2. An ACK of an earlier use of the port moves the cursor to a number the flow
   never sends; from then on nothing leaves `in_flight` and the early exit is out of
   reach (`stray_ack`).
3. The second HPCC sender runs the window update after a stale ACK too; its
   docstring and the report say such an ACK only moves the cursor (`hpcc_stale_ack`).

Three more observations are consequences of the modelled code that nothing in the repository
clearly denies, or that are seen at once in the model; they have no run of their own.

* In DCTCP a cut lowers the window that the gate of the next update is measured in, so ACKs of packets
  sent before the cut open it again, and the marks of one flight may cut twice. With a window of 2 and
  packets 0, 1, 2 sent, the marked ACK of 1 cuts it below 2, and that of 2 cuts again. `PLAN.md:64`
  says "Per RTT"; the comment at `dctcp_sender.py:165` takes that for a window of ACKs since the last update,
  which the code keeps.
* In the C sender failed sends use up numbers, so a packet may come round to the slot of one in
  flight (`hpcc_sender.c:195-205`): packet 0 is sent, the next `INFLIGHT_MAX - 1` sends fail, and the one after
  takes slot 0. The count is then too high for good and the early exit out of reach. The comment at
  line 48, "hard cap; W_max << this", is about windows, which do not prevent it. `CountMatchesSlots` is
  checked and proved for sends that do not fail.
* The second HPCC sender takes an ACK whose packet has no entry for current feedback
  (`hpcc_sender_v2.py:270`). After a timeout whose resend of a packet fails, that is the ACK of the first
  copy, sent before the cut, and its telemetry moves U.

In one place documentation and code agree where one might expect more: the switches' counters may
undercount, as `docs/methodology.md:156-158` says (section 2, "Counters of the DCTCP switches").

## 6. Not modelled, and why

* Python's socket and thread start-up, logs, printing, plots, container and
  Mininet set-up, smoke scripts: no protocol state.
* The log parser (`analysis/`): pure functions over finished files.
* Malformed datagrams: the only processes that send to these ports send well-formed
  ones. `WireFormat` has the length checks of reflector and listeners; nothing reaches them
  with too little.
* The hop table of the C sender (linear probing) and its event log.
* The queue rates the loader sets: no property depends on speed.
* How often the switches' counters miss a packet: `docs/methodology.md` gives less than 1 % at the
  rates of the experiments; the model has any number of lost updates.
* What BMv2's CLI prints. The poller looks for `qdepth_history[i]= value` (`snapshot_reader.py:23`), while the
  CLI may print the whole array after one `qdepth_history=`; every read would then give
  an empty list, which is `ReadFails` in the model. The form is decided outside the repository.
* What `extensions/bdp_sweep/run.py` computes of its logs and prints. Its end without
  an exception stops the reflector (line 129), the other one stops the network, and everything in it
  (line 133); the model has one step for both.
* What is outside the repository: nothing in it loads `hpcc_qsnap.p4` (`run_e1.py` offers no
  such algorithm and the loader writes tables of `HpccIngress` only), so `QueueSnapshots`
  takes the program as loaded and says nothing of its set-up.
* Exceptions in the drivers, other than those their waits and the sweep's trials raise.
* A listener of the open-loop harness that outlives its join: `SummaryFitsLog` is
  about the other case, in which alone it can hold.

Limits of what is stated, which a reader should not take for more:

* `FaultsStayLocal` excepts E2 after a crash of its second sender: the wait for it
  returns at once, and the first sender, still running, has `LastWait` (10 s) before it is killed.
* `DriverEnds` excepts E1 and the sweep, whose waits have no limit.
* `TrueRate` is about samples with no reset in between; with one, `NeverTooBusy` says all
  there is to say: the rate may be too small.
* `NoByteCountedTwice` is about hops whose records came in order. After an ACK that was overtaken the
  next sample starts in the past and counts bytes again; each sample's rate is still true.
* `GrowthPaidFor` bounds growth; of cuts it says nothing, so a second cut on one flight's marks is not excluded.
* `CountMatchesSlots` is about sends that do not fail, `SnapshotsInOrder` about packets that have an entry.
* `NeverOvercounted` bounds the counters from above only.
* `ChangesRecorded` cannot speak of a depth that is the same a lap later: it leaves no row,
  and in the file it looks like an idle queue.
* After `ReadTimesOut` nothing is written: the code promises nothing, so no
  property is stated.

## 7. Plan

Done, in this order: transport and DCTCP, HPCC and C senders, telemetry, open loop,
drivers, snapshots, wire formats with the dumbbell and the loader; the proofs in section 4.
What remains worth doing:

1. The senders on top of the telemetry: `HpccSender` with samples from `IntTelemetry`
   in place of a free choice.
2. Several flows through one `DctcpSwitch`: marks and drops of one caused by the other.
3. The end of the reflector composed with `WindowedSender`: what a sender's result says when
   nobody answers any more.
