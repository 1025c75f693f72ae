--------------------------- MODULE DriversProofs ---------------------------
(***************************************************************************)
(* The drivers, whatever their durations, flows and rounds are: nobody is  *)
(* left behind, and which logs a faulty sender can cost.                   *)
(***************************************************************************)
EXTENDS Drivers, FiniteSetTheorems, TLAPS

(* A plan starts and awaits each of its senders once, in an order of time. *)
WellPlanned(p) ==
  LET n == Len(p.starts) flows == 1..n IN
  /\ n \in Nat \ {0} /\ DOMAIN p.starts = flows /\ Len(p.waits) = n
  /\ \A i \in flows :
       /\ p.starts[i] \in Nat /\ p.caps[i] \in Nat /\ p.waits[i].flow \in flows
       /\ p.waits[i].limit \in Int
       /\ \E j \in flows : p.waits[j].flow = i
  /\ \A i, j \in flows : i <= j => p.starts[i] <= p.starts[j]

(* E1 is,                                                                  *)
LEMMA E1WellPlanned == WellPlanned(E1)
BY DriversAssumption DEF DriversAssumption, E1, WellPlanned, NoLimit

(* its repetition for the rates of the sweep,                              *)
LEMMA SweepWellPlanned == WellPlanned(Sweep)
BY DriversAssumption DEF DriversAssumption, E1, Sweep, WellPlanned, NoLimit

(* so is E2, whatever the delay,                                           *)
LEMMA E2WellPlanned == WellPlanned(E2)
BY DriversAssumption DEF DriversAssumption, E2, WellPlanned, AtLeastOne

(* and E3, however many flows it has,                                      *)
LEMMA E3WellPlanned == WellPlanned(E3)
BY DriversAssumption DEF DriversAssumption, E3, WellPlanned, AtLeastOne

(* and E4, whatever the gap between its senders.                           *)
LEMMA E4WellPlanned == WellPlanned(E4)
BY DriversAssumption DEF DriversAssumption, E4, WellPlanned, AtLeastOne

(* Every plan is one of these.                                             *)
LEMMA PlanFacts ==
  ASSUME plan \in Plans
  PROVE  WellPlanned(plan)
BY E1WellPlanned, E2WellPlanned, E3WellPlanned, E4WellPlanned, SweepWellPlanned
   DEF Plans

-----------------------------------------------------------------------------

(* The inductive invariant, in parts: the types of what the proofs need;   *)
Typed ==
  /\ plan \in Plans /\ round \in Nat \ {0}
  /\ driver_pc \in {"load", "start", "wait", "rest", "stop", "done"}
  /\ current \in Flows /\ waited \in Nat
  /\ flow_pc \in [Flows -> Phases] /\ age \in [Flows -> Nat]
  /\ log \in [Flows -> Nat] /\ reflector_up \in BOOLEAN

(* where the driver is decides who may be alive;                           *)
Supervised ==
  /\ driver_pc \in {"load", "rest", "stop", "done"} => \A i \in Flows : ~Alive(i)
  /\ driver_pc = "start" => \A i \in Flows : i >= current => ~Alive(i)
  /\ driver_pc = "wait" =>
       \A j \in Flows : j < current => ~Alive(plan.waits[j].flow)
  /\ driver_pc \in {"start", "wait", "rest"} => reflector_up
  /\ driver_pc \in {"load", "rest"} => current = 1
  /\ driver_pc = "load" => waited = 0

(* what has become of a sender is on record, for those of this round;      *)
OfThisRound(i) ==
  \/ driver_pc \in {"wait", "rest"}
  \/ driver_pc = "stop" /\ plan # Sweep
  \/ driver_pc = "start" /\ i < current
FlowRecorded(i) ==
  /\ flow_pc[i] \in {"crashed", "hung"} => i \in faults
  /\ plan = E3 => flow_pc[i] # "hung"
  /\ OfThisRound(i) => flow_pc[i] # "none" /\ (flow_pc[i] = "exited" => log[i] = round)
  /\ flow_pc[i] = "killed" =>
       /\ driver_pc = "start" => i >= current
       /\ driver_pc = "wait" => plan.kills # "all"
Recorded == \A i \in Flows : FlowRecorded(i)

(* a sender that neither crashes nor hangs is never late, and a wait is    *)
(* never older than the sender;                                            *)
Working(i) == flow_pc[i] \in {"starting", "running", "ending"}
SpentBefore(i) ==
  CASE flow_pc[i] = "starting" -> 0
    [] flow_pc[i] = "running" -> StartTime
    [] OTHER -> StartTime + plan.caps[i]
Spent(i) == SpentBefore(i) + age[i]
TimeLimit(i) ==
  CASE flow_pc[i] = "starting" -> StartTime
    [] flow_pc[i] = "running" -> plan.caps[i]
    [] OTHER -> EndTime
FlowOnTime(i) ==
  Working(i) =>
    /\ age[i] <= TimeLimit(i)
    /\ driver_pc = "start" => waited <= plan.starts[i] + Spent(i)
    /\ driver_pc = "wait" => waited <= Spent(i)
OnTime ==
  /\ driver_pc = "start" => waited <= plan.starts[current]
  /\ \A i \in Flows : FlowOnTime(i)

(* in E2 the first sender has the lead of the second, and the second wait  *)
(* comes on top of it;                                                     *)
Run(i) ==
  CASE flow_pc[i] = "running" -> age[i]
    [] flow_pc[i] \in {"ending", "exited"} -> plan.caps[i]
    [] OTHER -> 0
LeadKept ==
  plan = E2 /\ driver_pc = "wait" /\ Working(1) =>
    /\ current = 1 => Delay + Run(2) <= Spent(1)
    /\ current = 2 /\ flow_pc[2] = "exited" => Delay + plan.caps[2] + waited <= Spent(1)

(* in E3 whoever still works after a kill has waited for Grace before;     *)
OneKilled ==
  plan = E3 /\ driver_pc \in {"wait", "rest"} =>
    \A k \in Flows : flow_pc[k] = "killed" =>
      \A i \in Flows :
        /\ flow_pc[i] = "killed" => i = k
        /\ driver_pc = "wait" /\ Working(i) => Grace + waited <= Spent(i)

(* elsewhere only who crashed or hung is killed.                           *)
OnlyFaultyKilled ==
  plan # E3 /\ ~(plan = E2 /\ flow_pc[2] = "crashed") =>
    \A i \in Flows : flow_pc[i] = "killed" => i \in faults

IInv ==
  /\ Typed /\ Supervised /\ Recorded /\ OnTime
  /\ LeadKept /\ OneKilled /\ OnlyFaultyKilled

-----------------------------------------------------------------------------

(* What a sender does by itself, as the driver sees it.                    *)
FlowStep(i) == Begin(i) \/ EndRun(i) \/ Exit(i) \/ Crash(i) \/ Hang(i)

(* The driver's steps: those that leave the senders alone, and the end of  *)
(* a wait.                                                                 *)
DriverStep == Load \/ NextRound \/ TrialFails \/ StopReflector
WaitStep == WaitReturns \/ WaitExpires

(* A step is the driver's, a sender's, or the passing of time.             *)
LEMMA NextCases ==
  ASSUME [Next]_vars
  PROVE  \/ DriverStep \/ WaitStep \/ Start \/ Tick
         \/ \E i \in Flows : FlowStep(i)
         \/ UNCHANGED vars
BY DEF Next, DriverStep, WaitStep, FlowStep, Terminated

(* A driver keeps to its plan.                                             *)
LEMMA PlanStays ==
  ASSUME [Next]_vars
  PROVE  plan' = plan /\ Flows' = Flows
<1>1. plan' = plan
  BY NextCases DEF DriverStep, WaitStep, FlowStep, Load, WaitReturns, NextRound, TrialFails,
     StopReflector, Start, WaitExpires, Tick, Begin, EndRun, Exit, Crash, Hang,
     driver, vars
<1> QED BY <1>1 DEF Flows

(* The plan of a state, without its records.                               *)
LEMMA PlanNow ==
  ASSUME Typed
  PROVE  /\ Len(plan.starts) \in Nat \ {0} /\ Flows = 1..Len(plan.starts)
         /\ Len(plan.waits) = Len(plan.starts)
         /\ current \in Int /\ Flows \subseteq Int
         /\ \A i \in Flows :
              /\ plan.starts[i] \in Nat /\ plan.caps[i] \in Nat
              /\ plan.waits[i].flow \in Flows
              /\ \E j \in Flows : plan.waits[j].flow = i
         /\ \A i, j \in Flows : i <= j => plan.starts[i] <= plan.starts[j]
<1>1. /\ Len(plan.starts) \in Nat \ {0} /\ Flows = 1..Len(plan.starts)
      /\ Len(plan.waits) = Len(plan.starts)
      /\ \A i \in Flows :
           /\ plan.starts[i] \in Nat /\ plan.caps[i] \in Nat
           /\ plan.waits[i].flow \in Flows
           /\ \E j \in Flows : plan.waits[j].flow = i
      /\ \A i, j \in Flows : i <= j => plan.starts[i] <= plan.starts[j]
  BY PlanFacts DEF Typed, WellPlanned, Flows
<1>2. current \in Int /\ Flows \subseteq Int
  BY <1>1 DEF Typed
<1> QED BY <1>1, <1>2

(* A step of a sender: it goes on, in its own order, and nobody else moves.*)
LEMMA FlowEffect ==
  ASSUME Typed, NEW i \in Flows, FlowStep(i)
  PROVE  /\ UNCHANGED driver
         /\ \A k \in Flows : k # i => flow_pc'[k] = flow_pc[k] /\ age'[k] = age[k]
                                      /\ log'[k] = log[k]
         /\ age'[i] = 0
         /\ \/ /\ flow_pc[i] = "starting" /\ flow_pc'[i] = "running"
               /\ UNCHANGED <<log, faults>>
            \/ /\ flow_pc[i] = "running" /\ flow_pc'[i] = "ending"
               /\ plan.drains \/ age[i] = plan.caps[i]
               /\ UNCHANGED <<log, faults>>
            \/ /\ flow_pc[i] = "ending" /\ flow_pc'[i] = "exited"
               /\ log'[i] = round /\ UNCHANGED faults
            \/ /\ Working(i) /\ flow_pc'[i] = "crashed"
               /\ faults' = faults \cup {i} /\ UNCHANGED log
            \/ /\ flow_pc[i] = "running" /\ flow_pc'[i] = "hung" /\ ~plan.drains
               /\ faults' = faults \cup {i} /\ UNCHANGED log
         /\ flow_pc' \in [Flows -> Phases] /\ age' \in [Flows -> Nat]
         /\ log' \in [Flows -> Nat]
BY DEF FlowStep, Begin, EndRun, Exit, Crash, Hang, Enter, Typed, Working, Phases

(* A wait ends with the sender waited for gone, by itself or killed, or    *)
(* with all of them killed.                                                *)
LEMMA WaitEffect ==
  ASSUME Typed, WaitStep
  PROVE  /\ driver_pc = "wait" /\ UNCHANGED <<plan, round, log, faults, reflector_up>>
         /\ flow_pc' \in [Flows -> Phases] /\ age' \in [Flows -> Nat]
         /\ \E i \in Flows :
              /\ i = plan.waits[current].flow
              /\ \/ /\ NextWait /\ ~Alive(i)'
                    /\ \A k \in Flows \ {i} : flow_pc'[k] = flow_pc[k] /\ age'[k] = age[k]
                    /\ \/ flow_pc'[i] = flow_pc[i]
                       \/ /\ Alive(i) /\ waited = plan.waits[current].limit
                          /\ plan.kills = "one" /\ flow_pc'[i] = "killed"
                 \/ /\ Alive(i) /\ waited = plan.waits[current].limit
                    /\ plan.kills = "all"
                    /\ driver_pc' = "stop" /\ current' = 1 /\ waited' = 0
                    /\ \A k \in Flows : flow_pc'[k] = IF Alive(k) THEN "killed" ELSE flow_pc[k]
<1>1. PICK i \in Flows : i = plan.waits[current].flow
  <2>1. WellPlanned(plan) BY PlanFacts DEF Typed
  <2> QED BY <2>1 DEF Typed, WellPlanned, Flows
<1>2. plan.kills \in {"one", "all"}
  BY DEF Typed, Plans, E1, E2, E3, E4, Sweep
<1>3. Awaited = i BY <1>1 DEF Awaited
<1>4. CASE WaitReturns
  BY <1>1, <1>3, <1>4 DEF WaitReturns, Typed, Alive
<1>5. CASE WaitExpires /\ plan.kills = "all"
  BY <1>1, <1>3, <1>5 DEF WaitExpires, Expires, Expired, KillAll, Typed, Phases
<1>6. CASE WaitExpires /\ plan.kills # "all"
  BY <1>1, <1>2, <1>3, <1>6 DEF WaitExpires, Expires, Expired, Enter, Typed, Phases, Alive
<1> QED BY <1>4, <1>5, <1>6 DEF WaitStep

-----------------------------------------------------------------------------

(* No step leaves the types; the driver never waits for a sender it lacks. *)
LEMMA TypedStays ==
  ASSUME Typed, [Next]_vars
  PROVE  Typed'
<1>1. plan' = plan /\ Flows' = Flows BY PlanStays
<1>2. /\ Len(plan.starts) \in Nat \ {0} /\ Flows = 1..Len(plan.starts)
      /\ Len(plan.waits) = Len(plan.starts)
  BY PlanNow
<1>3. CASE NextRound
  BY <1>1, <1>2, <1>3 DEF NextRound, Typed
<1>4. CASE Load \/ TrialFails \/ StopReflector
  BY <1>1, <1>4 DEF Load, TrialFails, StopReflector, Typed
<1>5. CASE Start
  BY <1>1, <1>2, <1>5 DEF Start, Enter, Typed, Phases
<1>6. CASE WaitStep
  <2>1. /\ UNCHANGED <<plan, round, log, faults, reflector_up>>
        /\ flow_pc' \in [Flows -> Phases] /\ age' \in [Flows -> Nat]
        /\ driver_pc = "wait"
        /\ NextWait \/ (driver_pc' = "stop" /\ current' = 1 /\ waited' = 0)
    BY <1>6, WaitEffect
  <2> QED BY <1>1, <1>2, <2>1 DEF NextWait, Typed
<1>7. CASE Tick
  BY <1>1, <1>7 DEF Tick, Later, Typed
<1>8. ASSUME NEW i \in Flows, FlowStep(i) PROVE Typed'
  BY <1>1, <1>8, FlowEffect DEF Typed, driver
<1>9. CASE UNCHANGED vars
  BY <1>1, <1>9 DEF Typed, vars
<1> QED BY <1>3, <1>4, <1>5, <1>6, <1>7, <1>8, <1>9, NextCases DEF DriverStep

(* A driver starts a sender anew only after the wait for it, and stops the *)
(* reflector after all waits, or after it has killed everybody.            *)
LEMMA SupervisedStays ==
  ASSUME Typed, Supervised, [Next]_vars
  PROVE  Supervised'
<1>1. plan' = plan /\ Flows' = Flows BY PlanStays
<1>2. /\ Len(plan.starts) \in Nat \ {0} /\ Flows = 1..Len(plan.starts)
      /\ Len(plan.waits) = Len(plan.starts)
      /\ \A i \in Flows : \E j \in Flows : plan.waits[j].flow = i
      /\ \A i \in Flows : plan.waits[i].flow \in Flows
      /\ current \in Int /\ Flows \subseteq Int
  BY PlanNow
<1>3. CASE Load
  BY <1>1, <1>3 DEF Load, Supervised, Alive
<1>4. CASE NextRound
  BY <1>1, <1>4 DEF NextRound, Supervised, Typed, Alive
<1>5. CASE TrialFails
  <2>1. \A i \in Flows : i >= current
    BY <1>2, <1>5 DEF TrialFails, Typed, Sweep, E1
  <2>2. \A i \in Flows : ~Alive(i)
    BY <1>5, <2>1 DEF TrialFails, Supervised
  <2> QED BY <1>1, <1>5, <2>2 DEF TrialFails, Supervised, Alive
<1>6. CASE StopReflector
  BY <1>1, <1>6 DEF StopReflector, Supervised, Typed, Alive
<1>7. CASE Start
  <2>1. \A i \in Flows : i # current => flow_pc'[i] = flow_pc[i]
    BY <1>7 DEF Start, Enter, Typed
  <2>2. ASSUME NEW i \in Flows, i > current PROVE ~Alive(i)'
    <3>1. i >= current /\ i # current BY <1>2, <2>2
    <3>2. ~Alive(i) BY <1>7, <3>1 DEF Start, Supervised
    <3> QED BY <2>1, <3>1, <3>2 DEF Alive
  <2>3. reflector_up' = reflector_up /\ reflector_up
    BY <1>7 DEF Start, Supervised
  <2>4. CASE current < Len(plan.starts)
    BY <1>1, <1>2, <1>7, <2>2, <2>3, <2>4 DEF Start, Supervised, Typed
  <2>5. CASE ~(current < Len(plan.starts))
    BY <1>1, <1>2, <1>7, <2>3, <2>5 DEF Start, Supervised, Typed
  <2> QED BY <2>4, <2>5
<1>8. CASE WaitStep
  <2>1. reflector_up' = reflector_up /\ reflector_up /\ driver_pc = "wait"
    BY <1>8, WaitEffect DEF Supervised
  <2>2. CASE driver_pc' = "stop"
    <3>1. \A k \in Flows : ~Alive(k)'
      BY <1>8, <2>1, <2>2, WaitEffect DEF NextWait, Alive
    <3> QED BY <1>1, <2>2, <3>1 DEF Supervised
  <2>3. CASE driver_pc' # "stop"
    <3>1. PICK i \in Flows :
            /\ i = plan.waits[current].flow /\ NextWait /\ ~Alive(i)'
            /\ \A k \in Flows \ {i} : flow_pc'[k] = flow_pc[k]
      BY <1>8, <2>3, WaitEffect
    <3>2. ASSUME NEW j \in Flows, j <= current PROVE ~Alive(plan.waits[j].flow)'
      <4>1. CASE j = current \/ plan.waits[j].flow = i
        BY <1>1, <3>1, <4>1 DEF Alive
      <4>2. CASE j # current /\ plan.waits[j].flow # i
        <5>1. j < current BY <1>2, <3>2, <4>2
        <5>2. ~Alive(plan.waits[j].flow) BY <2>1, <5>1 DEF Supervised
        <5> QED BY <1>1, <1>2, <3>1, <4>2, <5>2 DEF Alive
      <4> QED BY <4>1, <4>2
    <3>3. CASE current < Len(plan.waits)
      <4>1. current' = current + 1 /\ driver_pc' = "wait"
        BY <2>1, <3>1, <3>3 DEF NextWait
      <4>2. \A j \in Flows : j < current + 1 => j <= current BY <1>2
      <4> QED BY <1>1, <2>1, <3>2, <4>1, <4>2 DEF Supervised
    <3>4. CASE ~(current < Len(plan.waits))
      <4>1. ASSUME NEW k \in Flows PROVE ~Alive(k)'
        <5>1. PICK j \in Flows : plan.waits[j].flow = k BY <1>2
        <5>2. j <= current BY <1>2, <3>4 DEF Typed
        <5>3. ~Alive(plan.waits[j].flow)' BY <3>2, <5>2
        <5> QED BY <1>1, <5>1, <5>3 DEF Alive
      <4>2. driver_pc' = "rest" /\ current' = 1 BY <3>1, <3>4 DEF NextWait
      <4> QED BY <1>1, <2>1, <4>1, <4>2 DEF Supervised
    <3> QED BY <3>3, <3>4
  <2> QED BY <2>2, <2>3
<1>9. CASE Tick
  <2>1. driver_pc # "load" BY <1>9 DEF Tick, DriverReady
  <2> QED BY <1>1, <1>9, <2>1 DEF Tick, Supervised, Alive
<1>10. ASSUME NEW i \in Flows, FlowStep(i) PROVE Supervised'
  <2>1. UNCHANGED driver /\ \A k \in Flows : Alive(k)' => Alive(k)
    BY <1>10, FlowEffect DEF Alive, Working
  <2> QED BY <1>1, <1>2, <2>1 DEF Supervised, driver, Typed, Alive
<1>11. CASE UNCHANGED vars
  BY <1>1, <1>11 DEF Supervised, vars, Alive
<1> QED
  BY <1>3, <1>4, <1>5, <1>6, <1>7, <1>8, <1>9, <1>10, <1>11, NextCases DEF DriverStep

(* A driver starts before anything is.                                     *)
LEMMA StartsWell ==
  ASSUME Init
  PROVE  Typed /\ Supervised
<1>1. WellPlanned(plan) BY PlanFacts DEF Init
<1>2. 1 \in Flows BY <1>1 DEF WellPlanned, Flows
<1>3. flow_pc \in [Flows -> Phases] /\ age \in [Flows -> Nat] /\ log \in [Flows -> Nat]
  BY DEF Init, Phases
<1>4. Typed
  <2>1. round \in Nat \ {0} /\ current \in Flows /\ waited \in Nat
    BY <1>2 DEF Init
  <2> QED BY <1>3, <2>1 DEF Init, Typed
<1>5. \A i \in Flows : ~Alive(i) BY DEF Init, Alive
<1> QED BY <1>4, <1>5 DEF Init, Supervised

(* No sender is left behind, whatever the senders do and however long they *)
(* take.                                                                   *)
THEOREM NobodyIsLeftBehind == Spec => []NobodyLeftBehind
<1>1. Init => Typed /\ Supervised BY StartsWell
<1>2. Typed /\ Supervised /\ [Next]_vars => (Typed /\ Supervised)'
  BY TypedStays, SupervisedStays
<1>3. Typed /\ Supervised => NobodyLeftBehind
  <2> SUFFICES ASSUME Typed, Supervised, NEW i \in Flows, Alive(i)
               PROVE  reflector_up /\ (driver_pc = "start" => i < current)
    BY DEF NobodyLeftBehind
  <2>1. driver_pc \in {"start", "wait"} BY DEF Typed, Supervised
  <2>2. i \in Int /\ current \in Int BY PlanNow
  <2> QED BY <2>1, <2>2 DEF Supervised
<1> QED BY <1>1, <1>2, <1>3, PTL DEF Spec

-----------------------------------------------------------------------------

(* What becomes of a sender stays on record until it is started again.     *)
LEMMA RecordedStays ==
  ASSUME Typed, Supervised, Recorded, [Next]_vars
  PROVE  Recorded'
<1>1. plan' = plan /\ Flows' = Flows BY PlanStays
<1>2. /\ Len(plan.starts) \in Nat \ {0} /\ Flows = 1..Len(plan.starts)
      /\ current \in Int /\ Flows \subseteq Int
  BY PlanNow
<1> SUFFICES ASSUME NEW i \in Flows PROVE FlowRecorded(i)'
  BY <1>1 DEF Recorded
<1>3. FlowRecorded(i) /\ i \in Int BY <1>2 DEF Recorded
<1>4. ASSUME UNCHANGED <<flow_pc, log, faults>>, OfThisRound(i)' => OfThisRound(i) /\ round' = round,
             driver_pc' = "start" => i >= current', driver_pc' = "wait" => driver_pc = "wait"
      PROVE  FlowRecorded(i)'
  BY <1>1, <1>3, <1>4 DEF FlowRecorded
<1>5. CASE Load \/ NextRound
  <2>1. current' = 1 /\ UNCHANGED <<flow_pc, log, faults>> /\ i >= 1
    BY <1>2, <1>5 DEF Load, NextRound, Supervised
  <2>2. \/ driver_pc' \in {"start", "done"}
        \/ driver_pc' = "stop" /\ round' = round /\ driver_pc = "rest"
    BY <1>5 DEF Load, NextRound
  <2> QED BY <1>3, <1>4, <2>1, <2>2 DEF OfThisRound
<1>6. CASE TrialFails \/ StopReflector
  BY <1>1, <1>4, <1>6 DEF TrialFails, StopReflector, OfThisRound
<1>7. CASE Start
  <2>1. /\ flow_pc'[current] = "starting" /\ UNCHANGED <<log, faults, round>>
        /\ i # current => flow_pc'[i] = flow_pc[i]
        /\ driver_pc = "start"
    BY <1>7 DEF Start, Enter, Typed
  <2>2. CASE current < Len(plan.starts)
    <3>1. current' = current + 1 /\ driver_pc' = "start"
      BY <1>7, <2>2 DEF Start
    <3>2. i < current + 1 <=> i < current \/ i = current
      BY <1>2, <1>3
    <3>3. i >= current /\ i # current => i >= current + 1
      BY <1>2, <1>3
    <3> QED BY <1>1, <1>3, <2>1, <3>1, <3>2, <3>3 DEF FlowRecorded, OfThisRound
  <2>3. CASE ~(current < Len(plan.starts))
    <3>1. driver_pc' = "wait" BY <1>7, <2>3 DEF Start
    <3>2. i = current \/ (i < current /\ ~(i >= current))
      BY <1>2, <2>3 DEF Typed
    <3> QED BY <1>1, <1>3, <2>1, <3>1, <3>2 DEF FlowRecorded, OfThisRound
  <2> QED BY <2>2, <2>3
<1>8. CASE WaitStep
  <2>1. /\ driver_pc = "wait" /\ driver_pc' \in {"wait", "rest", "stop"}
        /\ UNCHANGED <<round, log, faults>>
        /\ \/ flow_pc'[i] = flow_pc[i]
           \/ flow_pc'[i] = "killed" /\ (driver_pc' = "wait" => plan.kills # "all")
    BY <1>8, WaitEffect DEF NextWait
  <2> QED BY <1>1, <1>3, <2>1 DEF FlowRecorded, OfThisRound
<1>9. CASE Tick
  BY <1>1, <1>3, <1>9 DEF Tick, FlowRecorded, OfThisRound
<1>10. ASSUME NEW k \in Flows, FlowStep(k) PROVE FlowRecorded(i)'
  <2>1. UNCHANGED driver BY <1>10, FlowEffect
  <2>2. CASE i # k
    <3>1. /\ flow_pc'[i] = flow_pc[i] /\ log'[i] = log[i] /\ faults \subseteq faults'
      BY <1>10, <2>2, FlowEffect
    <3> QED BY <1>1, <1>3, <2>1, <3>1 DEF FlowRecorded, OfThisRound, driver
  <2>3. CASE i = k
    BY <1>1, <1>3, <1>10, <2>1, <2>3, FlowEffect
       DEF FlowRecorded, OfThisRound, driver, E3, Working
  <2> QED BY <2>2, <2>3
<1>11. CASE UNCHANGED vars
  BY <1>1, <1>3, <1>11 DEF FlowRecorded, OfThisRound, vars
<1> QED
  BY <1>5, <1>6, <1>7, <1>8, <1>9, <1>10, <1>11, NextCases DEF DriverStep

(* Going on from phase to phase, a sender has been at work no less long.   *)
LEMMA SpentGrows ==
  ASSUME Typed, OnTime, NEW i \in Flows, FlowStep(i), Working(i)
  PROVE  Working(i)' => Spent(i)' >= Spent(i) /\ age'[i] <= TimeLimit(i)'
<1>1. plan.caps[i] \in Nat /\ StartTime \in Nat /\ EndTime \in Nat /\ age[i] \in Nat
  BY PlanNow, DriversAssumption DEF Typed, DriversAssumption
<1> QED
  BY <1>1, FlowEffect DEF driver, Working, Spent, SpentBefore, TimeLimit, OnTime, FlowOnTime

(* Time passes for the driver and the senders alike, and stops where one of*)
(* them is due.                                                            *)
LEMMA OnTimeStays ==
  ASSUME Typed, Supervised, OnTime, [Next]_vars
  PROVE  OnTime'
<1>1. plan' = plan /\ Flows' = Flows BY PlanStays
<1>2. /\ Len(plan.starts) \in Nat \ {0} /\ Flows = 1..Len(plan.starts)
      /\ current \in Int /\ Flows \subseteq Int
      /\ \A i \in Flows : plan.starts[i] \in Nat /\ plan.caps[i] \in Nat
      /\ \A i, j \in Flows : i <= j => plan.starts[i] <= plan.starts[j]
  BY PlanNow
<1>3. waited \in Nat /\ current \in Flows /\ current' \in Flows
  BY <1>1, TypedStays DEF Typed
<1>4. StartTime \in Nat /\ EndTime \in Nat BY DriversAssumption DEF DriversAssumption
<1>5. driver_pc' = "start" => waited' <= plan.starts[current']
  <2>1. CASE Load \/ NextRound
    <3>1. waited' = 0 \/ driver_pc' # "start"
      BY <2>1 DEF Load, NextRound, Supervised
    <3> QED BY <1>2, <1>3, <3>1
  <2>2. CASE TrialFails \/ StopReflector \/ WaitStep
    BY <2>2, WaitEffect DEF TrialFails, StopReflector, NextWait
  <2>3. CASE Start
    <3>1. waited <= plan.starts[current] BY <2>3 DEF Start, OnTime
    <3>2. driver_pc' = "start" => waited' = waited /\ current' = current + 1
      BY <2>3 DEF Start
    <3>3. driver_pc' = "start" => plan.starts[current] <= plan.starts[current']
      BY <1>2, <1>3, <3>2
    <3> QED BY <1>2, <1>3, <3>1, <3>2, <3>3
  <2>4. CASE Tick
    <3>1. /\ UNCHANGED <<driver_pc, current>>
          /\ driver_pc = "start" => waited' = waited + 1 /\ waited < plan.starts[current]
      BY <1>2, <1>3, <2>4 DEF Tick, DriverReady, StartDue
    <3> QED BY <1>2, <1>3, <3>1
  <2>5. ASSUME NEW i \in Flows, FlowStep(i)
        PROVE  driver_pc' = "start" => waited' <= plan.starts[current']
    BY <2>5, FlowEffect DEF driver, OnTime
  <2>6. CASE UNCHANGED vars
    BY <2>6 DEF vars, OnTime
  <2> QED BY <2>1, <2>2, <2>3, <2>4, <2>5, <2>6, NextCases DEF DriverStep
<1>6. ASSUME NEW i \in Flows PROVE FlowOnTime(i)'
  <2>1. /\ FlowOnTime(i) /\ i \in Int /\ plan.starts[i] \in Nat /\ plan.caps[i] \in Nat
        /\ age[i] \in Nat /\ age'[i] \in Nat
    BY <1>1, <1>2, TypedStays DEF OnTime, Typed
  <2>2. /\ Spent(i) \in Nat /\ Spent(i)' \in Nat
        /\ TimeLimit(i) \in Nat /\ TimeLimit(i)' \in Nat
    BY <1>1, <1>4, <2>1 DEF Spent, SpentBefore, TimeLimit
  <2>3. ASSUME UNCHANGED <<flow_pc, age>> \/ (flow_pc'[i] = flow_pc[i] /\ age'[i] = age[i])
        PROVE  /\ Working(i)' = Working(i) /\ age'[i] = age[i]
               /\ Spent(i)' = Spent(i) /\ TimeLimit(i)' = TimeLimit(i)
    BY <1>1, <2>3 DEF Working, Spent, SpentBefore, TimeLimit
  <2>4. CASE Load \/ NextRound
    BY <2>4 DEF Load, NextRound, Supervised, Working, Alive, FlowOnTime
  <2>5. CASE TrialFails \/ StopReflector
    BY <2>1, <2>3, <2>5 DEF TrialFails, StopReflector, FlowOnTime
  <2>6. CASE Start
    <3>1. waited <= plan.starts[current] /\ driver_pc = "start" BY <2>6 DEF Start, OnTime
    <3>2. waited' = waited \/ (driver_pc' = "wait" /\ waited' = 0) BY <2>6 DEF Start
    <3>3. CASE i = current
      <4>1. flow_pc'[i] = "starting" /\ age'[i] = 0 BY <2>6, <3>3 DEF Start, Enter, Typed
      <4>2. CASE driver_pc' = "wait"
        <5>1. waited' = 0 BY <2>6, <4>2 DEF Start
        <5> QED BY <1>4, <2>2, <4>1, <4>2, <5>1 DEF FlowOnTime, TimeLimit
      <4>3. CASE driver_pc' # "wait"
        BY <1>1, <1>3, <1>4, <2>1, <2>2, <3>1, <3>2, <3>3, <4>1, <4>3 DEF FlowOnTime, TimeLimit
      <4> QED BY <4>2, <4>3
    <3>4. CASE i # current
      <4>1. flow_pc'[i] = flow_pc[i] /\ age'[i] = age[i]
        BY <2>6, <3>4 DEF Start, Enter, Typed
      <4>2. CASE ~Working(i) BY <2>3, <4>1, <4>2 DEF FlowOnTime
      <4>3. CASE Working(i)
        <5>1. age[i] <= TimeLimit(i) /\ waited <= plan.starts[i] + Spent(i)
          BY <2>1, <3>1, <4>3 DEF FlowOnTime
        <5>2. /\ age'[i] <= TimeLimit(i)'
              /\ driver_pc' = "start" => waited' <= plan.starts[i] + Spent(i)'
          BY <2>3, <3>2, <4>1, <5>1
        <5>3. driver_pc' = "wait" => waited' <= Spent(i)'
          <6>1. driver_pc' = "wait" => waited' = 0 BY <2>6, <3>1 DEF Start
          <6> QED BY <2>2, <6>1
        <5> QED BY <1>1, <5>2, <5>3 DEF FlowOnTime
      <4> QED BY <4>2, <4>3
    <3> QED BY <3>3, <3>4
  <2>7. CASE WaitStep
    <3>1. driver_pc = "wait" /\ driver_pc' \in {"wait", "rest", "stop"} /\ waited' = 0
      BY <2>7, WaitEffect DEF NextWait
    <3>2. CASE flow_pc'[i] = flow_pc[i] /\ age'[i] = age[i]
      <4>1. waited' <= Spent(i)' BY <2>2, <3>1
      <4>2. driver_pc' # "start" BY <3>1
      <4>3. Working(i)' => age'[i] <= TimeLimit(i)'
        BY <2>1, <2>3, <3>2 DEF FlowOnTime
      <4> QED BY <4>1, <4>2, <4>3 DEF FlowOnTime
    <3>3. CASE ~(flow_pc'[i] = flow_pc[i] /\ age'[i] = age[i])
      <4>1. ~Working(i)'
        BY <2>7, <3>3, WaitEffect DEF Working, Alive
      <4> QED BY <4>1 DEF FlowOnTime
    <3> QED BY <3>2, <3>3
  <2>8. CASE Tick
    <3>1. /\ UNCHANGED <<plan, driver_pc, flow_pc>> /\ ~Overdue(i)
          /\ age'[i] = Later(i) /\ waited' \in {0, waited + 1}
      BY <2>8 DEF Tick
    <3>2. Working(i) => /\ age'[i] = age[i] + 1 /\ age[i] # TimeLimit(i)
                        /\ Spent(i)' = Spent(i) + 1 /\ TimeLimit(i)' = TimeLimit(i)
      <4>1. Working(i) => age'[i] = age[i] + 1 /\ age[i] # TimeLimit(i)
        BY <3>1 DEF Working, Later, Overdue, TimeLimit
      <4>2. TimeLimit(i)' = TimeLimit(i) /\ SpentBefore(i)' = SpentBefore(i)
        BY <3>1 DEF TimeLimit, SpentBefore
      <4>3. SpentBefore(i) \in Nat BY <1>4, <2>1 DEF SpentBefore
      <4> QED BY <2>1, <4>1, <4>2, <4>3 DEF Spent
    <3>3. Working(i)' = Working(i) BY <3>1 DEF Working
    <3> QED BY <1>1, <1>3, <2>1, <2>2, <3>1, <3>2, <3>3 DEF FlowOnTime
  <2>9. ASSUME NEW k \in Flows, FlowStep(k) PROVE FlowOnTime(i)'
    <3>1. UNCHANGED driver BY <2>9, FlowEffect
    <3>2. CASE i = k
      <4>1. Working(i)' => Working(i) /\ Spent(i)' >= Spent(i) /\ age'[i] <= TimeLimit(i)'
        BY <2>9, <3>2, FlowEffect, SpentGrows DEF Working
      <4> QED BY <1>1, <1>3, <2>1, <2>2, <3>1, <4>1 DEF FlowOnTime, driver
    <3>3. CASE i # k
      <4>1. flow_pc'[i] = flow_pc[i] /\ age'[i] = age[i] BY <2>9, <3>3, FlowEffect
      <4> QED BY <2>1, <2>3, <3>1, <4>1 DEF FlowOnTime, driver
    <3> QED BY <3>2, <3>3
  <2>10. CASE UNCHANGED vars
    BY <2>1, <2>3, <2>10 DEF FlowOnTime, vars
  <2> QED
    BY <2>4, <2>5, <2>6, <2>7, <2>8, <2>9, <2>10, NextCases DEF DriverStep
<1> QED BY <1>1, <1>5, <1>6 DEF OnTime

(* What the lead needs to know of E2.                                      *)
LEMMA E2Facts ==
  ASSUME plan = E2
  PROVE  /\ Flows = {1, 2} /\ Delay \in Nat
         /\ plan.starts[1] = 0 /\ plan.starts[2] = Delay
         /\ plan.caps[1] = Duration /\ plan.caps[2] = AtLeastOne(Duration - Delay)
         /\ plan.waits[1].flow = 2 /\ plan.waits[2].flow = 1
         /\ plan.waits[1].limit = Duration + Grace /\ plan.waits[2].limit = LastWait
         /\ Len(plan.starts) = 2 /\ Len(plan.waits) = 2
         /\ plan.kills = "all" /\ ~plan.drains
<1>1. Len(E2.starts) = 2 /\ Len(E2.waits) = 2 /\ DOMAIN E2.starts = 1..2
  BY DEF E2
<1>2. 1..2 = {1, 2} OBVIOUS
<1>3. Delay \in Nat BY DriversAssumption DEF DriversAssumption
<1> QED BY <1>1, <1>2, <1>3 DEF E2, Flows

(* The times of a working sender: a tick adds to them.                     *)
LEMMA TickEffect ==
  ASSUME Typed, Tick, NEW i \in Flows
  PROVE  /\ UNCHANGED <<plan, driver_pc, current, flow_pc>>
         /\ waited' \in {0, waited + 1}
         /\ Working(i)' = Working(i)
         /\ Working(i) => age'[i] = age[i] + 1 /\ Spent(i)' = Spent(i) + 1
<1>1. /\ UNCHANGED <<plan, driver_pc, current, flow_pc>> /\ age'[i] = Later(i)
      /\ waited' \in {0, waited + 1}
  BY DEF Tick
<1>2. Working(i)' = Working(i) BY <1>1 DEF Working
<1>3. Working(i) => age'[i] = age[i] + 1 BY <1>1 DEF Working, Later
<1>4. SpentBefore(i)' = SpentBefore(i) BY <1>1 DEF SpentBefore
<1>5. SpentBefore(i) \in Nat /\ age[i] \in Nat
  <2>1. StartTime \in Nat /\ plan.caps[i] \in Nat /\ age[i] \in Nat
    BY PlanNow, DriversAssumption DEF DriversAssumption, Typed
  <2> QED BY <2>1 DEF SpentBefore
<1> QED BY <1>1, <1>2, <1>3, <1>4, <1>5 DEF Spent

(* How long a sender has been at work is a number.                         *)
LEMMA SpentIsNumber ==
  ASSUME Typed, NEW i \in Flows
  PROVE  Spent(i) \in Nat /\ Run(i) \in Nat
<1>1. StartTime \in Nat /\ plan.caps[i] \in Nat /\ age[i] \in Nat
  BY PlanNow, DriversAssumption DEF DriversAssumption, Typed
<1> QED BY <1>1 DEF Spent, SpentBefore, Run

(* The second sender of E2 starts Delay after the first; when it has       *)
(* exited, the first has been at work for both.                            *)
LEMMA LeadKeptStays ==
  ASSUME Typed, Supervised, OnTime, LeadKept, [Next]_vars
  PROVE  LeadKept'
<1>1. plan' = plan /\ Flows' = Flows /\ Typed' BY PlanStays, TypedStays
<1> SUFFICES ASSUME plan = E2, driver_pc' = "wait", Working(1)'
             PROVE  /\ current' = 1 => Delay + Run(2)' <= Spent(1)'
                    /\ current' = 2 /\ flow_pc'[2] = "exited" =>
                         Delay + plan.caps[2] + waited' <= Spent(1)'
  BY <1>1 DEF LeadKept
<1>2. /\ 1 \in Flows /\ 2 \in Flows /\ Delay \in Nat
      /\ plan.caps[1] \in Nat /\ plan.caps[2] \in Nat /\ waited \in Nat
      /\ current \in {1, 2}
  BY PlanNow, E2Facts DEF Typed
<1>3. Spent(1) \in Nat /\ Run(2) \in Nat BY <1>2, SpentIsNumber
<1>4. Spent(1)' \in Nat /\ Run(2)' \in Nat
  <2>1. StartTime \in Nat /\ age'[1] \in Nat /\ age'[2] \in Nat
    BY <1>1, <1>2, DriversAssumption DEF DriversAssumption, Typed
  <2> QED BY <1>1, <1>2, <2>1 DEF Spent, SpentBefore, Run
<1>5. driver_pc = "wait" /\ Working(1) =>
        /\ current = 1 => Delay + Run(2) <= Spent(1)
        /\ current = 2 /\ flow_pc[2] = "exited" => Delay + plan.caps[2] + waited <= Spent(1)
  BY DEF LeadKept
<1>6. ~DriverStep
  BY DEF DriverStep, Load, NextRound, TrialFails, StopReflector
<1>7. CASE Start
  <2>1. current = 2 /\ current' = 1 /\ driver_pc = "start" /\ waited >= Delay
    BY <1>2, <1>7, E2Facts DEF Start, StartDue
  <2>2. flow_pc'[2] = "starting" /\ flow_pc'[1] = flow_pc[1] /\ age'[1] = age[1]
    BY <1>2, <1>7, <2>1 DEF Start, Enter, Typed
  <2>3. Run(2)' = 0 BY <2>2 DEF Run
  <2>4. Working(1) /\ Spent(1)' = Spent(1)
    BY <1>1, <2>2 DEF Working, Spent, SpentBefore
  <2>5. waited <= 0 + Spent(1)
    BY <1>2, <2>1, <2>4, E2Facts DEF OnTime, FlowOnTime
  <2> QED BY <1>2, <1>3, <2>1, <2>3, <2>4, <2>5
<1>8. CASE WaitStep
  <2>1. /\ driver_pc = "wait" /\ NextWait
        /\ \A k \in {1, 2} : flow_pc'[k] = flow_pc[k]
        /\ age'[1] = age[1] \/ current = 2
    BY <1>2, <1>8, WaitEffect, E2Facts
  <2>2. current = 1 /\ current' = 2 /\ waited' = 0
    <3>1. Len(plan.waits) = 2 BY E2Facts
    <3>2. current < 2 => current = 1 /\ current' = 2 BY <1>2, <2>1, <3>1 DEF NextWait
    <3>3. ~(current < 2) => driver_pc' = "rest" BY <2>1, <3>1 DEF NextWait
    <3>4. waited' = 0 BY <2>1 DEF NextWait
    <3> QED BY <3>2, <3>3, <3>4
  <2>3. Working(1) /\ Spent(1)' = Spent(1)
    BY <1>1, <2>1, <2>2 DEF Working, Spent, SpentBefore
  <2>4. flow_pc'[2] = "exited" => Run(2) = plan.caps[2] BY <2>1 DEF Run
  <2> QED BY <1>2, <1>3, <1>5, <2>1, <2>2, <2>3, <2>4
<1>9. CASE Tick
  <2>1. /\ UNCHANGED <<driver_pc, current, flow_pc>> /\ waited' \in {0, waited + 1}
        /\ Working(1) /\ Spent(1)' = Spent(1) + 1
    BY <1>2, <1>9, TickEffect
  <2>2. Run(2)' <= Run(2) + 1
    <3>1. flow_pc[2] = "running" => age'[2] = age[2] + 1
      BY <1>2, <1>9, TickEffect DEF Working
    <3>2. age[2] \in Nat BY <1>2 DEF Typed
    <3> QED BY <1>1, <1>2, <2>1, <3>1, <3>2 DEF Run
  <2> QED BY <1>2, <1>3, <1>4, <1>5, <2>1, <2>2
<1>10. CASE FlowStep(1)
  <2>1. UNCHANGED driver /\ Working(1) /\ flow_pc'[2] = flow_pc[2] /\ age'[2] = age[2]
    BY <1>2, <1>10, FlowEffect DEF Working
  <2>2. Spent(1)' >= Spent(1) BY <1>2, <1>10, <2>1, SpentGrows
  <2>3. Run(2)' = Run(2) BY <1>1, <2>1 DEF Run
  <2> QED BY <1>2, <1>3, <1>4, <1>5, <2>1, <2>2, <2>3 DEF driver
<1>11. CASE FlowStep(2)
  <2>1. /\ UNCHANGED driver /\ flow_pc'[1] = flow_pc[1] /\ age'[1] = age[1]
        /\ Working(2) /\ flow_pc'[2] \in {"running", "ending", "exited", "crashed", "hung"}
    BY <1>2, <1>11, FlowEffect DEF Working
  <2>2. Working(1) /\ Spent(1)' = Spent(1)
    BY <1>1, <2>1 DEF Working, Spent, SpentBefore
  <2>3. Run(2)' <= Run(2)
    BY <1>1, <1>2, <1>11, FlowEffect, E2Facts DEF Run, Working, Typed
  <2>4. current # 2
    <3>1. current = 2 => ~Alive(plan.waits[1].flow)
      BY <1>2, <2>1 DEF Supervised, driver
    <3>2. Alive(2) BY <2>1 DEF Alive, Working
    <3> QED BY <3>1, <3>2, E2Facts
  <2> QED BY <1>2, <1>3, <1>4, <1>5, <2>1, <2>2, <2>3, <2>4 DEF driver
<1>12. CASE UNCHANGED vars
  BY <1>1, <1>5, <1>12 DEF vars, Working, Spent, SpentBefore, Run
<1> QED
  BY <1>6, <1>7, <1>8, <1>9, <1>10, <1>11, <1>12, NextCases, E2Facts

-----------------------------------------------------------------------------

(* What the kills of E3 need to know of it.                                *)
LEMMA E3Facts ==
  ASSUME plan = E3
  PROVE  /\ Flows = 1..NFlows /\ NFlows \in Nat \ {0} /\ Grace \in Nat
         /\ Len(plan.starts) = NFlows /\ plan.kills = "one" /\ plan.drains
         /\ \A i \in Flows : /\ plan.caps[i] = Grace
                             /\ plan.waits[i].flow = i /\ plan.waits[i].limit = Grace
<1>1. NFlows \in Nat \ {0} /\ Grace \in Nat
  BY DriversAssumption DEF DriversAssumption
<1> QED BY <1>1 DEF E3, Flows

(* A sender that works has not used more than its times, which is less     *)
(* than Grace on top of its duration.                                      *)
LEMMA SpentBounded ==
  ASSUME Typed, OnTime, NEW i \in Flows, Working(i)
  PROVE  Spent(i) < plan.caps[i] + LastWait /\ Spent(i) < plan.caps[i] + Grace
<1>1. /\ plan.caps[i] \in Nat /\ age[i] \in Nat /\ StartTime \in Nat /\ EndTime \in Nat
      /\ LastWait \in Nat /\ Grace \in Nat
  BY PlanNow, DriversAssumption DEF DriversAssumption, Typed
<1>2. StartTime + EndTime < LastWait /\ LastWait <= Grace
  BY SenderTimes DEF SenderTimes
<1>3. age[i] <= TimeLimit(i) BY DEF OnTime, FlowOnTime
<1>4. Spent(i) <= StartTime + plan.caps[i] + EndTime
  BY <1>1, <1>3 DEF Working, Spent, SpentBefore, TimeLimit
<1> QED
  <2>1. Spent(i) \in Nat BY SpentIsNumber
  <2> QED BY <1>1, <1>2, <1>4, <2>1

(* In E3 the second sender to be killed would have used two times Grace.   *)
LEMMA OneKilledStays ==
  ASSUME Typed, Supervised, Recorded, OnTime, OneKilled, [Next]_vars
  PROVE  OneKilled'
<1>1. plan' = plan /\ Flows' = Flows BY PlanStays
<1> SUFFICES ASSUME plan = E3, driver_pc' \in {"wait", "rest"},
                    NEW k \in Flows, flow_pc'[k] = "killed", NEW i \in Flows
             PROVE  /\ flow_pc'[i] = "killed" => i = k
                    /\ driver_pc' = "wait" /\ Working(i)' => Grace + waited' <= Spent(i)'
  BY <1>1 DEF OneKilled
<1>2. /\ Grace \in Nat /\ waited \in Nat /\ current \in Flows
      /\ Spent(i) \in Nat
  BY E3Facts, SpentIsNumber DEF Typed
<1>3. ASSUME driver_pc \in {"wait", "rest"}, NEW b \in Flows, flow_pc[b] = "killed"
      PROVE  \A j \in Flows : /\ flow_pc[j] = "killed" => j = b
                              /\ driver_pc = "wait" /\ Working(j) => Grace + waited <= Spent(j)
  BY <1>3 DEF OneKilled
<1>4. ~DriverStep
  BY DEF DriverStep, Load, NextRound, TrialFails, StopReflector
<1>5. CASE Start
  <2>1. driver_pc = "start" /\ ~(current < Len(plan.starts))
    BY <1>5 DEF Start
  <2>2. flow_pc'[current] = "starting"
    BY <1>5 DEF Start, Enter, Typed
  <2>3. k # current /\ flow_pc[k] = "killed"
    BY <1>5, <2>2 DEF Start, Enter, Typed
  <2>4. k >= current BY <2>1, <2>3 DEF Recorded, FlowRecorded
  <2>5. current = NFlows /\ k \in 1..NFlows BY <1>2, <2>1, E3Facts
  <2> QED BY <1>2, <2>3, <2>4, <2>5, E3Facts
<1>6. CASE WaitStep
  <2>1. PICK j \in Flows :
          /\ j = plan.waits[current].flow /\ NextWait /\ ~Alive(j)'
          /\ \A m \in Flows \ {j} : flow_pc'[m] = flow_pc[m] /\ age'[m] = age[m]
          /\ \/ flow_pc'[j] = flow_pc[j]
             \/ /\ Alive(j) /\ waited = plan.waits[current].limit
                /\ flow_pc'[j] = "killed"
    BY <1>6, WaitEffect, E3Facts
  <2>2. driver_pc = "wait" /\ waited' = 0 BY <1>6, <2>1, WaitEffect DEF NextWait
  <2>3. Working(i)' => i # j /\ Working(i) /\ Spent(i)' = Spent(i)
    BY <1>1, <2>1 DEF Working, Alive, Spent, SpentBefore
  <2>4. CASE flow_pc'[j] = flow_pc[j]
    <3>1. flow_pc[k] = "killed" /\ (flow_pc'[i] = "killed" => flow_pc[i] = "killed")
      BY <2>1, <2>4
    <3>2. /\ flow_pc[i] = "killed" => i = k
          /\ Working(i) => Grace + waited <= Spent(i)
      BY <1>3, <2>2, <3>1
    <3> QED BY <1>2, <2>2, <2>3, <3>1, <3>2
  <2>5. CASE Alive(j) /\ waited = plan.waits[current].limit /\ flow_pc'[j] = "killed"
    <3>1. waited = Grace BY <1>2, <2>5, E3Facts
    <3>2. Working(j) BY <2>5 DEF Recorded, FlowRecorded, Alive, Working
    <3>3. \A m \in Flows : flow_pc[m] # "killed"
      <4> SUFFICES ASSUME NEW m \in Flows, flow_pc[m] = "killed" PROVE FALSE
        OBVIOUS
      <4>1. Grace + Grace <= Spent(j) BY <1>3, <2>2, <3>1, <3>2
      <4>2. Spent(j) < Grace + Grace BY <3>2, SpentBounded, E3Facts
      <4>3. Spent(j) \in Nat BY SpentIsNumber
      <4> QED BY <1>2, <4>1, <4>2, <4>3
    <3>4. k = j /\ (flow_pc'[i] = "killed" => i = j) BY <2>1, <3>3
    <3>5. Working(i) => waited <= Spent(i) BY <2>2 DEF OnTime, FlowOnTime
    <3> QED BY <1>2, <2>2, <2>3, <3>1, <3>4, <3>5
  <2> QED BY <2>1, <2>4, <2>5
<1>7. CASE Tick
  <2>1. /\ UNCHANGED <<driver_pc, flow_pc>> /\ waited' \in {0, waited + 1}
        /\ Working(i)' = Working(i) /\ (Working(i) => Spent(i)' = Spent(i) + 1)
    BY <1>7, TickEffect
  <2> QED BY <1>2, <1>3, <2>1
<1>8. ASSUME NEW j \in Flows, FlowStep(j)
      PROVE  /\ flow_pc'[i] = "killed" => i = k
             /\ driver_pc' = "wait" /\ Working(i)' => Grace + waited' <= Spent(i)'
  <2>1. /\ UNCHANGED driver
        /\ \A m \in Flows : flow_pc'[m] = "killed" => flow_pc[m] = "killed"
    BY <1>8, FlowEffect
  <2>2. Working(i)' => Working(i) /\ Spent(i)' >= Spent(i)
    <3>1. CASE i = j
      BY <1>8, <3>1, FlowEffect, SpentGrows DEF Working
    <3>2. CASE i # j
      <4>1. flow_pc'[i] = flow_pc[i] /\ age'[i] = age[i] BY <1>8, <3>2, FlowEffect
      <4>2. Working(i)' = Working(i) /\ Spent(i)' = Spent(i)
        BY <1>1, <4>1 DEF Working, Spent, SpentBefore
      <4> QED BY <1>2, <4>2
    <3> QED BY <3>1, <3>2
  <2>3. /\ flow_pc[i] = "killed" => i = k
        /\ driver_pc = "wait" /\ Working(i) => Grace + waited <= Spent(i)
    BY <1>3, <2>1 DEF driver
  <2>4. Working(i)' => Spent(i)' \in Nat
    <3>1. StartTime \in Nat /\ plan.caps[i] \in Nat /\ age'[i] \in Nat
      BY <1>1, PlanNow, TypedStays, DriversAssumption DEF DriversAssumption, Typed
    <3> QED BY <1>1, <3>1 DEF Spent, SpentBefore
  <2> QED BY <1>2, <2>1, <2>2, <2>3, <2>4 DEF driver
<1>9. CASE UNCHANGED vars
  <2>1. Working(i)' = Working(i) /\ Spent(i)' = Spent(i)
    BY <1>1, <1>9 DEF vars, Working, Spent, SpentBefore
  <2> QED BY <1>3, <1>9, <2>1 DEF vars
<1> QED BY <1>4, <1>5, <1>6, <1>7, <1>8, <1>9, NextCases

(* The limits of the other plans: only the second wait of E2 is short.     *)
LEMMA PlanLimits ==
  ASSUME plan \in Plans, plan # E3
  PROVE  \A i \in Flows :
           /\ plan.caps[i] <= Duration
           /\ plan.kills = "one" => plan.waits[i].limit = NoLimit
           /\ plan.kills = "all" => \/ plan.waits[i].limit = Duration + Grace
                                    \/ plan = E2 /\ i = 2
<1> USE DriversAssumption DEF DriversAssumption
<1>1. CASE plan = E1 \/ plan = Sweep
  BY <1>1 DEF E1, Sweep, Flows
<1>2. CASE plan = E2
  BY <1>2, E2Facts DEF AtLeastOne
<1>3. CASE plan = E4
  <2>1. /\ plan.kills = "all" /\ Flows = 1..3
        /\ \A i \in 1..3 : /\ plan.waits[i].limit = Duration + Grace
                          /\ plan.caps[i] = AtLeastOne(Duration - (i - 1) * JoinGap)
    BY <1>3 DEF E4, Flows
  <2>2. JoinGap \in Nat /\ Duration \in Nat \ {0} OBVIOUS
  <2>3. \A i \in 1..3 : (i - 1) * JoinGap \in Nat
    BY <2>2, Z3
  <2>4. \A x \in Nat : AtLeastOne(Duration - x) <= Duration
    BY <2>2 DEF AtLeastOne
  <2> QED BY <2>1, <2>3, <2>4
<1> QED BY <1>1, <1>2, <1>3 DEF Plans

(* Elsewhere a wait that runs out finds nobody at work, since the sender   *)
(* has used less than the time waited.                                     *)
LEMMA ExpiredFindsNobodyAtWork ==
  ASSUME Typed, Supervised, Recorded, OnTime, LeadKept, plan # E3,
         ~(plan = E2 /\ flow_pc[2] = "crashed"), driver_pc = "wait",
         waited = plan.waits[current].limit, NEW i \in Flows
  PROVE  ~Working(i)
<1> SUFFICES ASSUME Working(i) PROVE FALSE
  OBVIOUS
<1>1. /\ waited \in Nat /\ current \in Flows /\ Duration \in Nat /\ Grace \in Nat
      /\ LastWait \in Nat /\ Spent(i) \in Nat /\ plan.caps[i] \in Nat
      /\ plan.caps[i] <= Duration
  BY PlanNow, PlanLimits, SpentIsNumber, DriversAssumption DEF DriversAssumption, Typed
<1>2. waited <= Spent(i) /\ Spent(i) < plan.caps[i] + Grace
      /\ Spent(i) < plan.caps[i] + LastWait
  BY SpentBounded DEF OnTime, FlowOnTime
<1>3. plan.kills \in {"one", "all"}
  BY DEF Typed, Plans, E1, E2, E3, E4, Sweep
<1>4. CASE plan.kills = "one"
  BY <1>1, <1>4, PlanLimits DEF NoLimit, Typed
<1>5. CASE plan.waits[current].limit = Duration + Grace
  BY <1>1, <1>2, <1>5
<1>6. CASE plan = E2 /\ current = 2
  <2>1. 1 \in Flows /\ 2 \in Flows BY <1>6, E2Facts
  <2>2. ~Alive(2)
    <3>1. \A j \in Flows : j < 2 => ~Alive(plan.waits[j].flow)
      BY <1>6 DEF Supervised
    <3> QED BY <1>6, <2>1, <3>1, E2Facts
  <2>3. i = 1 BY <1>6, <2>2, E2Facts DEF Alive, Working
  <2>4. flow_pc[2] = "exited"
    BY <1>6, <2>1, <2>2, E2Facts
       DEF Typed, Phases, Alive, Recorded, FlowRecorded, OfThisRound
  <2>5. Delay + plan.caps[2] + LastWait <= Spent(1)
    BY <1>6, <2>3, <2>4, E2Facts DEF LeadKept
  <2>6. Spent(1) < Duration + LastWait BY <1>2, <1>6, <2>3, E2Facts
  <2>7. Delay \in Nat /\ plan.caps[2] >= Duration - Delay /\ plan.caps[2] \in Nat
    <3>1. Delay \in Nat /\ plan.caps[2] = AtLeastOne(Duration - Delay) BY <1>6, E2Facts
    <3>2. plan.caps[2] \in Nat BY <2>1, PlanNow
    <3> QED BY <1>1, <3>1, <3>2 DEF AtLeastOne
  <2> QED BY <1>1, <2>3, <2>5, <2>6, <2>7
<1> QED BY <1>1, <1>3, <1>4, <1>5, <1>6, PlanLimits DEF Typed

(* A wait that runs out finds at most senders that hang.                   *)
LEMMA OnlyFaultyKilledStays ==
  ASSUME Typed, Supervised, Recorded, OnTime, LeadKept, OnlyFaultyKilled, [Next]_vars
  PROVE  OnlyFaultyKilled'
<1>1. plan' = plan /\ Flows' = Flows BY PlanStays
<1> SUFFICES ASSUME plan # E3, ~(plan = E2 /\ flow_pc'[2] = "crashed"),
                    NEW i \in Flows, flow_pc'[i] = "killed"
             PROVE  i \in faults'
  BY <1>1 DEF OnlyFaultyKilled
<1>2. ASSUME flow_pc[i] = "killed", ~(plan = E2 /\ flow_pc[2] = "crashed") PROVE i \in faults
  BY <1>2 DEF OnlyFaultyKilled
<1>3. CASE DriverStep \/ Tick \/ UNCHANGED vars
  <2>1. UNCHANGED <<flow_pc, faults>>
    BY <1>3 DEF DriverStep, Load, NextRound, TrialFails, StopReflector, Tick, vars
  <2> QED BY <1>2, <2>1
<1>4. CASE Start
  <2>1. /\ driver_pc = "start" /\ faults' = faults /\ i # current /\ flow_pc[i] = "killed"
        /\ \A k \in Flows : k # current => flow_pc'[k] = flow_pc[k]
    BY <1>4 DEF Start, Enter, Typed
  <2>2. i >= current BY <2>1 DEF Recorded, FlowRecorded
  <2>3. plan = E2 => i = 2
    BY <2>1, <2>2, E2Facts DEF Typed
  <2> QED BY <1>2, <2>1, <2>3
<1>5. CASE WaitStep
  <2>1. /\ driver_pc = "wait" /\ faults' = faults
        /\ \A k \in Flows :
             \/ flow_pc'[k] = flow_pc[k]
             \/ Alive(k) /\ waited = plan.waits[current].limit
    BY <1>5, WaitEffect
  <2>2. ~(plan = E2 /\ flow_pc[2] = "crashed")
    BY <2>1, E2Facts DEF Alive
  <2>3. CASE flow_pc[i] = "killed"
    BY <1>2, <2>1, <2>2, <2>3
  <2>4. CASE flow_pc[i] # "killed"
    <3>1. Alive(i) /\ waited = plan.waits[current].limit BY <2>1, <2>4
    <3>2. ~Working(i) BY <2>1, <2>2, <3>1, ExpiredFindsNobodyAtWork
    <3>3. flow_pc[i] = "hung" BY <3>1, <3>2 DEF Alive, Working
    <3> QED BY <2>1, <3>3 DEF Recorded, FlowRecorded
  <2> QED BY <2>3, <2>4
<1>6. ASSUME NEW j \in Flows, FlowStep(j) PROVE i \in faults'
  <2>1. flow_pc[i] = "killed" /\ faults \subseteq faults'
    BY <1>6, FlowEffect
  <2>2. plan = E2 /\ flow_pc[2] = "crashed" => flow_pc'[2] = "crashed"
    BY <1>6, FlowEffect, E2Facts DEF Working
  <2> QED BY <1>2, <2>1, <2>2
<1> QED BY <1>3, <1>4, <1>5, <1>6, NextCases

-----------------------------------------------------------------------------

(* The whole of it holds at the start and after every step.                *)
THEOREM InvariantHolds == Spec => []IInv
<1>1. Init => IInv
  <2> SUFFICES ASSUME Init PROVE IInv
    OBVIOUS
  <2>1. Typed /\ Supervised BY StartsWell
  <2>2. driver_pc = "load" /\ \A i \in Flows : flow_pc[i] = "none"
    BY DEF Init
  <2>3. Recorded BY <2>2 DEF Recorded, FlowRecorded, OfThisRound
  <2>4. OnTime BY <2>2 DEF OnTime, FlowOnTime, Working
  <2>5. LeadKept /\ OneKilled /\ OnlyFaultyKilled
    BY <2>2 DEF LeadKept, OneKilled, OnlyFaultyKilled
  <2> QED BY <2>1, <2>3, <2>4, <2>5 DEF IInv
<1>2. IInv /\ [Next]_vars => IInv'
  BY TypedStays, SupervisedStays, RecordedStays, OnTimeStays, LeadKeptStays,
     OneKilledStays, OnlyFaultyKilledStays DEF IInv
<1> QED BY <1>1, <1>2, PTL DEF Spec

(* In a round that is over, a log is missing only of who was killed or is  *)
(* faulty.                                                                 *)
LEMMA LostWasKilled ==
  ASSUME Typed, Supervised, Recorded, driver_pc \in {"rest", "stop"},
         driver_pc = "stop" => plan # Sweep, NEW i \in Lost
  PROVE  flow_pc[i] = "killed"
<1>1. i \in Flows /\ i \notin faults /\ log[i] # round BY DEF Lost
<1>2. OfThisRound(i) /\ ~Alive(i) BY <1>1 DEF OfThisRound, Supervised
<1> QED BY <1>1, <1>2 DEF Recorded, FlowRecorded, Typed, Phases, Alive

(* Outside E3 no sender that is not faulty itself loses its log by another *)
(* that crashes or hangs, but for the crash of the second sender of E2.    *)
THEOREM FaultsOfOneCostNoOther == Spec => []FaultsStayLocal
<1>1. IInv => FaultsStayLocal
  <2> SUFFICES ASSUME IInv, plan # E3, LogsDue, ~(plan = E2 /\ flow_pc[2] = "crashed"),
                      NEW i \in Lost
               PROVE  FALSE
    BY DEF FaultsStayLocal
  <2>1. flow_pc[i] = "killed" BY LostWasKilled DEF IInv, LogsDue
  <2> QED BY <2>1 DEF IInv, OnlyFaultyKilled, Lost
<1> QED BY <1>1, InvariantHolds, PTL

(* A round of E3 lacks the log of one sound sender at most.                *)
THEOREM RoundLacksOneLog == Spec => []OneLogMissingAtMost
<1>1. IInv => OneLogMissingAtMost
  <2> SUFFICES ASSUME IInv, plan = E3, driver_pc = "rest"
               PROVE  Cardinality(Lost) <= 1
    BY DEF OneLogMissingAtMost
  <2>1. \A i, k \in Lost : i = k
    <3> SUFFICES ASSUME NEW i \in Lost, NEW k \in Lost PROVE i = k
      OBVIOUS
    <3>1. i \in Flows /\ k \in Flows BY DEF Lost
    <3>2. flow_pc[i] = "killed" /\ flow_pc[k] = "killed" BY LostWasKilled DEF IInv
    <3> QED BY <3>1, <3>2 DEF IInv, OneKilled
  <2>2. CASE Lost = {}
    BY <2>2, FS_EmptySet
  <2>3. CASE Lost # {}
    <3>1. PICK k : k \in Lost BY <2>3
    <3>2. Lost = {k} BY <2>1, <3>1
    <3> QED BY <3>2, FS_Singleton
  <2> QED BY <2>2, <2>3
<1> QED BY <1>1, InvariantHolds, PTL

-----------------------------------------------------------------------------

(* What else the types need: numbers do not run away.                      *)
Limits ==
  /\ round <= plan.rounds /\ waited <= Due /\ faults \subseteq Flows
  /\ \A i \in Flows : log[i] <= round /\ (~Working(i) => age[i] = 0)

(* The numbers of the plans.                                               *)
LEMMA PlanNumbers ==
  ASSUME plan \in Plans
  PROVE  /\ plan.rounds \in Nat \ {0} /\ plan.rest \in Nat
         /\ \A i \in Flows : plan.waits[i].limit \in Nat \cup {NoLimit}
         /\ plan = Sweep => plan.rest = 0 /\ \A i \in Flows : plan.starts[i] = 0
<1> USE DriversAssumption DEF DriversAssumption, NoLimit
<1>1. CASE plan = E1 \/ plan = Sweep
  BY <1>1 DEF E1, Sweep, Flows
<1>2. CASE plan = E2
  <2>1. plan # Sweep
    BY <1>2, E2Facts DEF E1, Sweep
  <2> QED BY <1>2, <2>1, E2Facts DEF E2
<1>3. CASE plan = E3
  <2>1. plan # Sweep BY <1>3 DEF E3, E1, Sweep
  <2> QED BY <1>3, <2>1 DEF E3, Flows
<1>4. CASE plan = E4
  <2>1. plan # Sweep BY <1>4 DEF E4, E1, Sweep
  <2> QED BY <1>4, <2>1 DEF E4, Flows
<1> QED BY <1>1, <1>2, <1>3, <1>4 DEF Plans

LEMMA DueIsNumber ==
  ASSUME Typed
  PROVE  Due \in Nat
<1>1. /\ current \in Flows /\ plan.rest \in Nat
      /\ \A i \in Flows : plan.starts[i] \in Nat /\ plan.waits[i].limit \in Nat \cup {NoLimit}
  BY PlanNow, PlanNumbers DEF Typed
<1> QED BY <1>1 DEF Due

(* The driver stays nowhere longer than it means to, and no log is newer   *)
(* than the round.                                                         *)
LEMMA LimitsStay ==
  ASSUME Typed, Supervised, Limits, [Next]_vars
  PROVE  Limits'
<1>1. plan' = plan /\ Flows' = Flows /\ Typed' BY PlanStays, TypedStays
<1>2. /\ Due \in Nat /\ Due' \in Nat /\ waited \in Nat /\ waited <= Due
      /\ round \in Nat /\ plan.rounds \in Nat /\ round <= plan.rounds
      /\ faults \subseteq Flows
      /\ \A i \in Flows : log[i] \in Nat /\ log[i] <= round
  <2>1. Due' \in Nat
    <3>1. /\ current' \in Flows /\ plan.rest \in Nat
          /\ \A i \in Flows : /\ plan.starts[i] \in Nat
                              /\ plan.waits[i].limit \in Nat \cup {NoLimit}
      BY <1>1, PlanNow, PlanNumbers DEF Typed
    <3> QED BY <1>1, <3>1 DEF Due
  <2> QED BY <2>1, DueIsNumber, PlanNumbers DEF Typed, Limits
<1>3. CASE Load \/ StopReflector
  <2>1. waited' = 0
    BY <1>2, <1>3 DEF Load, StopReflector, Supervised, Due
  <2> QED BY <1>1, <1>2, <1>3, <2>1 DEF Load, StopReflector, Limits, Working
<1>4. CASE NextRound
  <2>1. /\ waited' = 0 /\ UNCHANGED <<flow_pc, age, log, faults>>
        /\ round' = round \/ (round < plan.rounds /\ round' = round + 1)
    BY <1>4 DEF NextRound
  <2>2. round' <= plan.rounds /\ \A i \in Flows : log[i] <= round'
    BY <1>2, <2>1
  <2> QED BY <1>1, <1>2, <2>1, <2>2 DEF Limits, Working
<1>5. CASE TrialFails
  <2>1. Due = 0
    BY <1>5, PlanNumbers DEF TrialFails, Typed, Due
  <2> QED BY <1>1, <1>2, <1>5, <2>1 DEF TrialFails, Limits, Working
<1>6. CASE Start
  <2>1. /\ UNCHANGED <<plan, round, log, faults>>
        /\ \A i \in Flows : age'[i] = 0 \/ (i # current /\ age'[i] = age[i])
        /\ \A i \in Flows : i # current => flow_pc'[i] = flow_pc[i]
    BY <1>6 DEF Start, Enter, Typed
  <2>2. waited' <= Due'
    <3>1. CASE driver_pc' = "start"
      <4>1. /\ driver_pc = "start" /\ waited' = waited /\ current' = current + 1
        BY <1>6, <3>1 DEF Start
      <4>2. /\ current \in Flows /\ current' \in Flows /\ current \in Int
            /\ plan.starts[current] \in Nat /\ plan.starts[current'] \in Nat
        BY <1>1, PlanNow DEF Typed
      <4>3. plan.starts[current] <= plan.starts[current']
        <5>1. current <= current' BY <4>1, <4>2
        <5> QED BY <4>2, <5>1, PlanNow
      <4>4. Due = plan.starts[current] /\ Due' = plan.starts[current']
        BY <1>1, <3>1, <4>1 DEF Due
      <4> QED BY <1>2, <4>1, <4>2, <4>3, <4>4
    <3>2. CASE driver_pc' # "start"
      <4>1. waited' = 0 BY <1>6, <3>2 DEF Start
      <4> QED BY <1>2, <4>1
    <3> QED BY <3>1, <3>2
  <2> QED BY <1>1, <1>2, <2>1, <2>2 DEF Limits, Working
<1>7. CASE WaitStep
  <2>1. waited' = 0 /\ UNCHANGED <<round, log, faults>>
    BY <1>7, WaitEffect DEF NextWait
  <2>2. \A i \in Flows : \/ age'[i] = 0
                         \/ flow_pc'[i] = flow_pc[i] /\ age'[i] = age[i]
    BY <1>7 DEF WaitStep, WaitReturns, WaitExpires, Expired, KillAll, Enter, Typed
  <2> QED BY <1>1, <1>2, <2>1, <2>2 DEF Limits, Working
<1>8. CASE Tick
  <2>1. /\ UNCHANGED <<plan, round, driver_pc, current, flow_pc, log, faults>>
        /\ \A i \in Flows : age'[i] = Later(i)
        /\ ~DriverReady /\ driver_pc # "done"
        /\ waited' = IF driver_pc = "wait" /\ plan.waits[current].limit = NoLimit
                       THEN 0 ELSE waited + 1
    BY <1>8 DEF Tick
  <2>2. Due' = Due BY <2>1 DEF Due
  <2>3. waited' <= Due
    <3>1. CASE driver_pc = "start"
      <4>1. ~(waited >= plan.starts[current]) /\ Due = plan.starts[current]
        BY <2>1, <3>1 DEF DriverReady, StartDue, Due
      <4> QED BY <1>2, <2>1, <3>1, <4>1
    <3>2. CASE driver_pc = "wait"
      <4>1. CASE plan.waits[current].limit = NoLimit
        BY <1>2, <2>1, <3>2, <4>1
      <4>2. CASE plan.waits[current].limit # NoLimit
        <5>1. waited # Due
          BY <2>1, <3>2, <4>2 DEF DriverReady, Expires, Due
        <5> QED BY <1>2, <2>1, <4>2, <5>1
      <4> QED BY <4>1, <4>2
    <3>3. CASE driver_pc = "rest"
      <4>1. waited # Due BY <2>1, <3>3 DEF DriverReady, Due
      <4> QED BY <1>2, <2>1, <3>3, <4>1
    <3> QED BY <2>1, <3>1, <3>2, <3>3 DEF DriverReady, Typed
  <2> QED BY <1>1, <1>2, <2>1, <2>2, <2>3 DEF Limits, Working, Later
<1>9. ASSUME NEW i \in Flows, FlowStep(i) PROVE Limits'
  <2>1. UNCHANGED driver /\ age'[i] = 0
        /\ \A k \in Flows : k # i => flow_pc'[k] = flow_pc[k] /\ age'[k] = age[k]
                                    /\ log'[k] = log[k]
    BY <1>9, FlowEffect
  <2>2. log'[i] \in {log[i], round} /\ faults' \subseteq faults \cup {i}
    BY <1>9, FlowEffect
  <2>3. Due' = Due BY <2>1 DEF Due, driver
  <2>4. \A k \in Flows : log'[k] <= round BY <1>2, <2>1, <2>2
  <2>5. \A k \in Flows : ~Working(k)' => age'[k] = 0
    BY <2>1 DEF Limits, Working
  <2> QED BY <1>1, <1>2, <2>1, <2>2, <2>3, <2>4, <2>5 DEF Limits, driver
<1>10. CASE UNCHANGED vars
  BY <1>1, <1>10 DEF Limits, Due, Working, vars
<1> QED
  BY <1>3, <1>4, <1>5, <1>6, <1>7, <1>8, <1>9, <1>10, NextCases DEF DriverStep

(* Every variable has its type; in particular no driver waits longer than  *)
(* its plan says, and no sender that works is older than its times allow.  *)
THEOREM TypesHold == Spec => []TypeOK
<1>1. Init => Limits
  <2> SUFFICES ASSUME Init PROVE Limits
    OBVIOUS
  <2>1. Typed BY StartsWell
  <2>2. /\ round = 1 /\ waited = 0 /\ faults = {}
        /\ \A i \in Flows : log[i] = 0 /\ age[i] = 0
    BY DEF Init
  <2>3. Due \in Nat /\ plan.rounds \in Nat \ {0}
    BY <2>1, DueIsNumber, PlanNumbers DEF Typed
  <2> QED BY <2>2, <2>3 DEF Limits
<1>2. IInv /\ Limits /\ [Next]_vars => Limits' BY LimitsStay DEF IInv
<1>3. IInv /\ Limits => TypeOK
  <2> SUFFICES ASSUME IInv, Limits PROVE TypeOK
    OBVIOUS
  <2>1. /\ round \in 1..plan.rounds /\ waited \in 0..Due
    BY DueIsNumber, PlanNumbers DEF IInv, Typed, Limits
  <2>2. log \in [Flows -> 0..round]
    BY DEF IInv, Typed, Limits
  <2>3. ASSUME NEW i \in Flows
        PROVE  age[i] \in 0..(StartTime + plan.caps[i] + EndTime)
    <3>1. /\ StartTime \in Nat /\ EndTime \in Nat /\ plan.caps[i] \in Nat /\ age[i] \in Nat
      BY PlanNow, DriversAssumption DEF DriversAssumption, IInv, Typed
    <3>2. CASE Working(i)
      <4>1. age[i] <= TimeLimit(i) BY <3>2 DEF IInv, OnTime, FlowOnTime
      <4>2. TimeLimit(i) \in {StartTime, plan.caps[i], EndTime} BY DEF TimeLimit
      <4> QED BY <3>1, <4>1, <4>2
    <3>3. CASE ~Working(i)
      BY <3>1, <3>3 DEF Limits
    <3> QED BY <3>2, <3>3
  <2> QED BY <2>1, <2>2, <2>3 DEF TypeOK, IInv, Typed, Limits
<1> QED BY <1>1, <1>2, <1>3, InvariantHolds, PTL DEF Spec

=============================================================================
