------------------------------ MODULE Drivers ------------------------------
(***************************************************************************)
(* The drivers of the experiments (experiments/run_e1.py to run_e4.py, and *)
(* extensions/bdp_sweep/run.py): each loads the tables, starts the         *)
(* reflector, starts its senders by a plan, waits for them one after the   *)
(* other, kills what takes too long, and stops the reflector.  A run of    *)
(* the model follows one plan.                                             *)
(*                                                                         *)
(* A sender is known here by its times only: it needs some time to start   *)
(* (the base-RTT probes), runs for its duration, or until it has drained   *)
(* if it has a number of packets to send, and then needs some time to end  *)
(* (the drain, the joins) before it writes its log and exits.  It may      *)
(* crash, and it may hang (a burst whose every sendto fails holds it for   *)
(* ever).  A log that is not written leaves that of an earlier experiment  *)
(* in place, since the directory is reused.                                *)
(*                                                                         *)
(* Time goes in ticks; nothing that is due waits for the next.  A killed   *)
(* process is gone at once.  An exception in the driver is modelled only   *)
(* where the trials of the sweep raise one.                                *)
(*                                                                         *)
(* Names that end in _Something: see WindowedSender.                       *)
(***************************************************************************)
EXTENDS Integers, Sequences, FiniteSets

CONSTANTS
  Duration,      (* --duration                                             *)
  Delay,         (* --delay of E2                                          *)
  JoinGap,       (* between the --start-times of E4                        *)
  NFlows, NRounds, RestTime,   (* --n-flows, --rounds, --inter-round-s, E3 *)
  NTrials,       (* 3: the rates of the sweep                              *)
  Grace,         (* 30 s: the cap and the wait of E3, added in E2 and E4   *)
  LastWait,      (* 10 s: the second wait of E2                            *)
  StartTime,     (* how long a sender may take from popen to run()         *)
  EndTime,       (* how long from the end of its loop to its exit          *)
  MaxFaults      (* bound of the model                                     *)

ASSUME DriversAssumption ==
  /\ {Duration, NFlows, NRounds, NTrials, Grace, LastWait} \subseteq Nat \ {0}
  /\ {Delay, JoinGap, RestTime, StartTime, EndTime, MaxFaults} \subseteq Nat

(* Ten probes take 5.2 s at most, the drain and the joins 2.5 s.           *)
ASSUME SenderTimes == StartTime + EndTime < LastWait /\ LastWait <= Grace

AtLeastOne(d) == IF d > 1 THEN d ELSE 1
NoLimit == -1

(* What a driver does: when it starts each sender and for how long, whether*)
(* senders may drain, whom it waits for in turn and how long, and whether  *)
(* a wait that runs out ends the sender waited for or all of them.         *)
E1 == [starts |-> <<0>>, caps |-> <<Duration>>, drains |-> FALSE,
       waits |-> <<[flow |-> 1, limit |-> NoLimit]>>, kills |-> "one",
       rounds |-> 1, rest |-> 0]
E2 == [starts |-> <<0, Delay>>, caps |-> <<Duration, AtLeastOne(Duration - Delay)>>,
       drains |-> FALSE,
       waits |-> <<[flow |-> 2, limit |-> Duration + Grace],
                   [flow |-> 1, limit |-> LastWait]>>,
       kills |-> "all", rounds |-> 1, rest |-> 0]
E3 == [starts |-> [i \in 1..NFlows |-> 0], caps |-> [i \in 1..NFlows |-> Grace],
       drains |-> TRUE,
       waits |-> [i \in 1..NFlows |-> [flow |-> i, limit |-> Grace]],
       kills |-> "one", rounds |-> NRounds, rest |-> RestTime]
E4_WaitsGrace ==
  [starts |-> [i \in 1..3 |-> (i - 1) * JoinGap],
   caps |-> [i \in 1..3 |-> AtLeastOne(Duration - (i - 1) * JoinGap)],
   drains |-> FALSE,
   waits |-> [i \in 1..3 |-> [flow |-> i, limit |-> Grace]],
   kills |-> "all", rounds |-> 1, rest |-> 0]
E4 == [starts |-> [i \in 1..3 |-> (i - 1) * JoinGap],
       caps |-> [i \in 1..3 |-> AtLeastOne(Duration - (i - 1) * JoinGap)],
       drains |-> FALSE,
       waits |-> [i \in 1..3 |-> [flow |-> i, limit |-> Duration + Grace]],
       kills |-> "all", rounds |-> 1, rest |-> 0]
Sweep == [E1 EXCEPT !.rounds = NTrials]
Plans == {E1, E2, E3, E4, Sweep}

VARIABLES
  plan,
  round,
  driver_pc,
  current,       (* the sender to start next, or the wait it is in         *)
  waited,        (* time since the first start, in this wait, or at rest   *)
  flow_pc, age,  (* of each flow: its phase, and the time in it            *)
  log,           (* the last round for which it wrote its log; 0: none     *)
  faults,        (* the senders that have crashed or hung                  *)
  reflector_up

vars == <<plan, round, driver_pc, current, waited, flow_pc, age, log, faults,
          reflector_up>>
driver == <<plan, round, driver_pc, current, waited, reflector_up>>

Flows == DOMAIN plan.starts
Alive(i) == flow_pc[i] \in {"starting", "running", "ending", "hung"}

Init ==
  /\ plan \in Plans
  /\ round = 1 /\ driver_pc = "load" /\ current = 1 /\ waited = 0
  /\ flow_pc = [i \in Flows |-> "none"] /\ age = [i \in Flows |-> 0]
  /\ log = [i \in Flows |-> 0] /\ faults = {}
  /\ reflector_up = FALSE

(***************************************************************************)
(* A sender                                                                *)
(***************************************************************************)

Enter(i, phase) ==
  /\ flow_pc' = [flow_pc EXCEPT ![i] = phase]
  /\ age' = [age EXCEPT ![i] = 0]

Begin(i) ==
  /\ flow_pc[i] = "starting"
  /\ Enter(i, "running")
  /\ UNCHANGED <<driver, log, faults>>

EndRun(i) ==
  /\ flow_pc[i] = "running"
  /\ plan.drains \/ age[i] = plan.caps[i]
  /\ Enter(i, "ending")
  /\ UNCHANGED <<driver, log, faults>>

Exit(i) ==
  /\ flow_pc[i] = "ending"
  /\ Enter(i, "exited")
  /\ log' = [log EXCEPT ![i] = round]
  /\ UNCHANGED <<driver, faults>>

Crash(i) ==
  /\ flow_pc[i] \in {"starting", "running", "ending"}
  /\ Cardinality(faults) < MaxFaults
  /\ Enter(i, "crashed")
  /\ faults' = faults \cup {i}
  /\ UNCHANGED <<driver, log>>

Hang(i) ==
  /\ flow_pc[i] = "running" /\ ~plan.drains
  /\ Cardinality(faults) < MaxFaults
  /\ Enter(i, "hung")
  /\ faults' = faults \cup {i}
  /\ UNCHANGED <<driver, log>>

Overdue(i) ==
  \/ flow_pc[i] = "starting" /\ age[i] = StartTime
  \/ flow_pc[i] = "running" /\ age[i] = plan.caps[i]
  \/ flow_pc[i] = "ending" /\ age[i] = EndTime

(***************************************************************************)
(* The driver                                                              *)
(***************************************************************************)

(* The tables are loaded and the reflector started, or the driver ends.    *)
Load ==
  /\ driver_pc = "load"
  /\ \/ driver_pc' = "start" /\ reflector_up' = TRUE
     \/ driver_pc' = "done" /\ UNCHANGED reflector_up
  /\ UNCHANGED <<plan, round, current, waited, flow_pc, age, log, faults>>

StartDue == waited >= plan.starts[current]

Start ==
  /\ driver_pc = "start" /\ StartDue
  /\ Enter(current, "starting")
  /\ IF current < Len(plan.starts)
       THEN current' = current + 1 /\ UNCHANGED <<driver_pc, waited>>
       ELSE current' = 1 /\ driver_pc' = "wait" /\ waited' = 0
  /\ UNCHANGED <<plan, round, log, faults, reflector_up>>

Awaited == plan.waits[current].flow
Expires == plan.waits[current].limit # NoLimit /\ waited = plan.waits[current].limit

(* On to the next wait, or from the last one to what comes after.  Each    *)
(* wait has a time of its own, counted from the end of the one before.     *)
NextWait_SharedTime ==
  IF current < Len(plan.waits)
    THEN current' = current + 1 /\ UNCHANGED <<waited, driver_pc>>
    ELSE waited' = 0 /\ current' = 1 /\ driver_pc' = "rest"
NextWait ==
  /\ waited' = 0
  /\ IF current < Len(plan.waits)
       THEN current' = current + 1 /\ UNCHANGED driver_pc
       ELSE current' = 1 /\ driver_pc' = "rest"

WaitReturns ==
  /\ driver_pc = "wait" /\ ~Alive(Awaited)
  /\ NextWait
  /\ UNCHANGED <<plan, round, flow_pc, age, log, faults, reflector_up>>

(* except subprocess.TimeoutExpired: in E3 within the loop over the        *)
(* senders, in E2 and E4 around it.                                        *)
KillAll ==
  /\ flow_pc' = [i \in Flows |-> IF Alive(i) THEN "killed" ELSE flow_pc[i]]
  /\ age' = [i \in Flows |-> 0]
  /\ driver_pc' = "stop" /\ current' = 1 /\ waited' = 0
Expired_LetRun == UNCHANGED <<flow_pc, age>> /\ NextWait
Expired_WaitsAgain == waited' = 0 /\ UNCHANGED <<flow_pc, age, current, driver_pc>>
Expired == IF plan.kills = "all" THEN KillAll ELSE Enter(Awaited, "killed") /\ NextWait

WaitExpires ==
  /\ driver_pc = "wait" /\ Alive(Awaited) /\ Expires
  /\ Expired
  /\ UNCHANGED <<plan, round, log, faults, reflector_up>>

NextRound ==
  /\ driver_pc = "rest" /\ waited = plan.rest
  /\ waited' = 0
  /\ IF round < plan.rounds
       THEN round' = round + 1 /\ driver_pc' = "start"
       ELSE UNCHANGED round /\ driver_pc' = "stop"
  /\ UNCHANGED <<plan, current, flow_pc, age, log, faults, reflector_up>>

(* A trial of the sweep: the rate of the bottleneck cannot be set, or there*)
(* is nothing to summarise (with a log of an earlier experiment there is). *)
TrialFails ==
  /\ plan = Sweep
  /\ driver_pc = "start" \/ (driver_pc = "rest" /\ log[1] # round)
  /\ driver_pc' = "stop"
  /\ UNCHANGED <<plan, round, current, waited, flow_pc, age, log, faults, reflector_up>>

(* The finally clause.                                                     *)
StopReflector ==
  /\ driver_pc = "stop"
  /\ driver_pc' = "done" /\ reflector_up' = FALSE
  /\ UNCHANGED <<plan, round, current, waited, flow_pc, age, log, faults>>

DriverReady ==
  \/ driver_pc \in {"load", "stop"}
  \/ driver_pc = "start" /\ StartDue
  \/ driver_pc = "wait" /\ (~Alive(Awaited) \/ Expires)
  \/ driver_pc = "rest" /\ waited = plan.rest

(* A hung sender makes no clock run.                                       *)
Later(i) ==
  IF flow_pc[i] \in {"starting", "running", "ending"} THEN age[i] + 1 ELSE age[i]

Tick ==
  /\ driver_pc # "done" /\ ~DriverReady
  /\ \A i \in Flows : ~Overdue(i)
  /\ waited' = IF driver_pc = "wait" /\ plan.waits[current].limit = NoLimit
                 THEN 0 ELSE waited + 1
  /\ age' = [i \in Flows |-> Later(i)]
  /\ UNCHANGED <<plan, round, driver_pc, current, flow_pc, log, faults, reflector_up>>

Terminated == driver_pc = "done" /\ (\A i \in Flows : ~Alive(i)) /\ UNCHANGED vars

Next ==
  \/ Load \/ Start \/ WaitReturns \/ WaitExpires \/ NextRound
  \/ TrialFails \/ StopReflector
  \/ Tick
  \/ \E i \in Flows : Begin(i) \/ EndRun(i) \/ Exit(i) \/ Crash(i) \/ Hang(i)
  \/ Terminated

Spec == Init /\ [][Next]_vars

(* Processes are scheduled and time passes; faults need not happen.        *)
FairSpec == Spec /\ WF_vars(Next)

-----------------------------------------------------------------------------

Phases == {"none", "starting", "running", "ending", "hung", "exited", "crashed", "killed"}

(* How long the driver means to stay where it is.                          *)
Due ==
  CASE driver_pc = "start" -> plan.starts[current]
    [] driver_pc = "wait" /\ plan.waits[current].limit # NoLimit -> plan.waits[current].limit
    [] driver_pc = "rest" -> plan.rest
    [] OTHER -> 0

TypeOK ==
  /\ plan \in Plans /\ round \in 1..plan.rounds
  /\ driver_pc \in {"load", "start", "wait", "rest", "stop", "done"}
  /\ current \in Flows /\ waited \in 0..Due
  /\ flow_pc \in [Flows -> Phases]
  /\ \A i \in Flows : age[i] \in 0..(StartTime + plan.caps[i] + EndTime)
  /\ log \in [Flows -> 0..round] /\ faults \subseteq Flows
  /\ reflector_up \in BOOLEAN

Lost == {i \in Flows \ faults : log[i] # round}

(* A round of E3 that is over has the logs of all its sound senders but at *)
(* most one: the driver may kill a sender that used its whole duration     *)
(* before it has written anything, but by then the waits for the others    *)
(* last long enough.                                                       *)
OneLogMissingAtMost == plan = E3 /\ driver_pc = "rest" => Cardinality(Lost) <= 1

(* In the other experiments no sound sender loses its log, whoever else    *)
(* crashes or hangs: with one exception, in E2 the crash of the second     *)
(* sender makes the driver wait only LastWait for the first.  The sweep    *)
(* reads the log after each trial.                                         *)
LogsDue == driver_pc = (IF plan = Sweep THEN "rest" ELSE "stop")
FaultsStayLocal ==
  plan # E3 /\ LogsDue /\ ~(plan = E2 /\ flow_pc[2] = "crashed") => Lost = {}

(* No sender is left behind: none of an earlier round is alive when the    *)
(* next one starts on its host, where it would take the ACKs of the same   *)
(* port, and none is alive when the reflector is gone.                     *)
NobodyLeftBehind ==
  \A i \in Flows : Alive(i) =>
    /\ reflector_up
    /\ driver_pc = "start" => i < current

(* A driver ends whatever its senders do, unless it is that of E1 or of    *)
(* the sweep, which wait without a limit.                                  *)
DriverEnds == plan \notin {E1, Sweep} ~> driver_pc = "done"

=============================================================================
