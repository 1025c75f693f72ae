--------------------------- MODULE QueueSnapshots ---------------------------
(***************************************************************************)
(* The queue depth as seen from the control plane (extensions/qsnap): the  *)
(* switch writes the depth each packet found into a ring of time buckets   *)
(* (hpcc_qsnap.p4), and a poller reads the whole ring now and then and     *)
(* records the buckets whose value has changed (snapshot_reader.py).       *)
(*                                                                         *)
(* Time goes in buckets of 8 ms, counted without end here; the ring keeps  *)
(* the last Slots of them.  A bucket holds the depth of its last packet.   *)
(* The rest of hpcc_qsnap.p4 is hpcc.p4 (see IntTelemetry); its packets    *)
(* that return early write nothing here.  The register is read in one      *)
(* piece, as BMv2 does.                                                    *)
(*                                                                         *)
(* Names that end in _Something: see WindowedSender.                       *)
(***************************************************************************)
EXTENDS Integers, FiniteSetsExt

CONSTANTS
  Slots,         (* QSNAP_SLOTS                                            *)
  Depths,        (* values of enq_qdepth                                   *)
  MaxTime, MaxPolls   (* bounds of the model                               *)

ASSUME SnapshotAssumption ==
  /\ Slots \in Nat \ {0} /\ {MaxTime, MaxPolls} \subseteq Nat
  /\ Depths \subseteq Nat

VARIABLES
  time,            (* egress_global_timestamp >> QSNAP_SHIFT               *)
  qdepth_history,  (* the ring, zero at the start                          *)
  poller_pc,
  polls,           (* reads begun                                          *)
  seen_max,        (* of each slot, the value last recorded, or Unseen     *)
  rows,            (* rows recorded: [poll, bucket, qdepth, since, wrote]  *)
  csv,             (* the file                                             *)
  wrote,           (* history: of each slot, the time of its last write    *)
  trace,           (* history: of each time, the depth of its last packet  *)
  last_read,       (* history: the time of the last read that succeeded    *)
  ring_read,       (* history: the ring it saw                             *)
  lapped           (* history: the ring has come round between two reads   *)

switch == <<time, qdepth_history, wrote, trace>>
poller == <<poller_pc, polls, seen_max, rows, csv, last_read, ring_read, lapped>>
snapshot_vars ==
  <<time, qdepth_history, wrote, trace,
    poller_pc, polls, seen_max, rows, csv, last_read, ring_read, lapped>>

Buckets == 0..(Slots - 1)
Times == 0..MaxTime
Never == -1
Unseen == -1
Idle == -1

Bucket(t) == t % Slots

SnapshotsInit ==
  /\ time = 0 /\ qdepth_history = [b \in Buckets |-> 0]
  /\ poller_pc = "loop" /\ polls = 0 /\ seen_max = [b \in Buckets |-> Unseen]
  /\ rows = {} /\ csv = {}
  /\ wrote = [b \in Buckets |-> Never] /\ trace = [t \in Times |-> Idle]
  /\ last_read = Never /\ ring_read = qdepth_history /\ lapped = FALSE

(***************************************************************************)
(* HpccQsnapEgress                                                         *)
(***************************************************************************)

Tick ==
  /\ time < MaxTime
  /\ time' = time + 1
  /\ UNCHANGED <<qdepth_history, wrote, trace, poller>>

Written_KeepsDeepest(q) ==
  [qdepth_history EXCEPT ![Bucket(time)] = IF q > @ THEN q ELSE @]
Written(q) == [qdepth_history EXCEPT ![Bucket(time)] = q]

Egress(q) ==
  /\ qdepth_history' = Written(q)
  /\ wrote' = [wrote EXCEPT ![Bucket(time)] = time]
  /\ trace' = [trace EXCEPT ![time] = q]
  /\ UNCHANGED <<time, poller>>

(***************************************************************************)
(* snapshot_reader.py                                                      *)
(***************************************************************************)

(* The end has not come: ts is taken and the CLI is started.               *)
StartRead ==
  /\ poller_pc = "loop" /\ polls < MaxPolls
  /\ polls' = polls + 1
  /\ poller_pc' = "reading"
  /\ UNCHANGED <<switch, seen_max, rows, csv, last_read, ring_read, lapped>>

(* The buckets whose value is not the one last recorded.                   *)
Changed_Deeper == {b \in Buckets : qdepth_history[b] > seen_max[b]}
Changed == {b \in Buckets : qdepth_history[b] # seen_max[b]}

Remembered_FirstOnly ==
  [b \in Buckets |-> IF seen_max[b] = Unseen THEN qdepth_history[b] ELSE seen_max[b]]
Remembered ==
  [b \in Buckets |-> IF b \in Changed THEN qdepth_history[b] ELSE seen_max[b]]

NewRows ==
  {[poll |-> polls, bucket |-> b, qdepth |-> qdepth_history[b],
    since |-> last_read, wrote |-> wrote[b]] : b \in Changed}

Read ==
  /\ poller_pc = "reading"
  /\ seen_max' = Remembered
  /\ rows' = rows \cup NewRows
  /\ poller_pc' = "loop"
  /\ last_read' = time /\ ring_read' = qdepth_history
  /\ lapped' = (lapped \/ time - last_read >= Slots)
  /\ UNCHANGED <<switch, polls, csv>>

(* The CLI ends with an error: an empty list, and on to the next poll.     *)
ReadFails ==
  /\ poller_pc = "reading"
  /\ poller_pc' = "loop"
  /\ UNCHANGED <<switch, polls, seen_max, rows, csv, last_read, ring_read, lapped>>

(* It takes more than 5 s: TimeoutExpired, which nothing catches.          *)
ReadTimesOut ==
  /\ poller_pc = "reading"
  /\ poller_pc' = "died"
  /\ UNCHANGED <<switch, polls, seen_max, rows, csv, last_read, ring_read, lapped>>

WriteCsv ==
  /\ poller_pc = "loop"
  /\ csv' = rows
  /\ poller_pc' = "done"
  /\ UNCHANGED <<switch, polls, seen_max, rows, last_read, ring_read, lapped>>

SnapshotsNext ==
  \/ Tick \/ \E q \in Depths : Egress(q)
  \/ StartRead \/ Read \/ ReadFails \/ ReadTimesOut \/ WriteCsv

SnapshotsSpec == SnapshotsInit /\ [][SnapshotsNext]_snapshot_vars

-----------------------------------------------------------------------------

Row == [poll : 1..MaxPolls, bucket : Buckets, qdepth : Depths \cup {0},
        since : Times \cup {Never}, wrote : Times \cup {Never}]

SnapshotsTypeOK ==
  /\ time \in Times /\ qdepth_history \in [Buckets -> Depths \cup {0}]
  /\ poller_pc \in {"loop", "reading", "done", "died"} /\ polls \in 0..MaxPolls
  /\ seen_max \in [Buckets -> Depths \cup {0, Unseen}]
  /\ rows \subseteq Row /\ csv \subseteq rows
  /\ wrote \in [Buckets -> Times \cup {Never}]
  /\ trace \in [Times -> Depths \cup {Idle}]
  /\ last_read \in Times \cup {Never} /\ ring_read \in [Buckets -> Depths \cup {0}]
  /\ lapped \in BOOLEAN

(* The rows replay the ring: of each bucket, the latest row gives what the *)
(* last read that succeeded found there, although only changes are         *)
(* recorded and reads fail in between.                                     *)
LatestRow(b, r) == r.bucket = b /\ \A s \in rows : s.bucket = b => s.poll <= r.poll
RowsReplayRing ==
  last_read # Never =>
    \A b \in Buckets : \E r \in rows : LatestRow(b, r) /\ r.qdepth = ring_read[b]

(* A row dates its packet: after the first read, a row stands for a write  *)
(* since the last read that succeeded.  As long as reads come more often   *)
(* than the ring goes round, its bucket then is one moment in time.        *)
RowsDateWrites ==
  \A r \in rows : r.since # Never => r.wrote >= r.since

(* Nothing that changes is missed: if the ring never came round between    *)
(* two reads, the depth each past moment ended with is in the rows, unless *)
(* its bucket held that depth before.  (That the same depth a lap later    *)
(* leaves no row is what the file cannot tell from an idle queue.)         *)
HeldBefore(t) ==
  LET laps == {u \in Times : u < t /\ Bucket(u) = Bucket(t) /\ trace[u] # Idle}
  IN IF laps = {} THEN 0 ELSE trace[Max(laps)]
Recorded(t) == \E r \in rows : r.wrote = t /\ r.qdepth = trace[t]
ChangesRecorded ==
  ~lapped => \A t \in Times :
    t < last_read /\ trace[t] \notin {Idle, HeldBefore(t)} => Recorded(t)

=============================================================================
