--------------------------- MODULE Monitor_proofs ---------------------------
(***************************************************************************)
(* Proofs about the temperature monitor.                                   *)
(*                                                                         *)
(* Its life cycle (MonitorLifecycle), for any number of goroutines and any *)
(* mix of events: the types, one monitor at a time, a flag that tells the  *)
(* truth, and no waiter whose channel nobody will close.                   *)
(*                                                                         *)
(* Its control tick (SpeedControl), for any levels, thresholds, intervals  *)
(* and mixes of events: the types, and that a queued target is served.     *)
(*                                                                         *)
(* Its learning (Learning, SmartCurve), for any curves, biases, limits,    *)
(* windows and steps: the types, what learned offsets and the evidence are *)
(* worth, that the fan is slowed only on long evidence, that no user's     *)
(* change is undone, and that what is learned is what the fan runs on.     *)
(*                                                                         *)
(* The noise diagnostic that takes the fan from it (NoiseDiagnostic), for  *)
(* any requests, sessions, speeds and mixes of events: the types, that a   *)
(* lease stands until its own end, and that no channel is closed twice.    *)
(***************************************************************************)
EXTENDS MonitorLifecycle, SpeedControl, Learning, NoiseDiagnostic, FiniteSetTheorems,
        WellFoundedInduction, TLAPS

-----------------------------------------------------------------------------
(* The life cycle: types.                                                  *)

\* What is left alone keeps its type, an event spent leaves a coming.
LEMMA OccursKeepsType ==
    ASSUME LifeTypeOK, NEW e \in MonitorEvents, Occurs(e)
    PROVE  coming' \in [MonitorEvents -> Nat]
BY DEF LifeTypeOK, Occurs

\* A controller that moves stays within its steps.
LEMMA GotoKeepsType ==
    ASSUME LifeTypeOK, NEW c \in Controllers, NEW from, NEW to \in ControlSteps,
           Goto(c, from, to)
    PROVE  control' \in [Controllers -> ControlSteps]
BY DEF LifeTypeOK, Goto

\* A new goroutine changes where one run is, and nothing else of the runs.
LEMMA SpawnKeepsType ==
    ASSUME LifeTypeOK, NEW r \in Runs, Spawn(r)
    PROVE  pc' \in [Runs -> RunSteps] /\ UNCHANGED <<previousDone, cancelled>>
BY DEF LifeTypeOK, Spawn, RunSteps

\* What a throttled trigger of the recovery may change.
LEMMA TriggerKeepsType ==
    ASSUME LifeTypeOK, TriggerResumeRecovery
    PROVE  recoveryCooling' \in BOOLEAN /\ control' \in [Controllers -> ControlSteps]
BY DEF LifeTypeOK, TriggerResumeRecovery, Goto, Controllers, ControlSteps

\* The steps of the monitor goroutine keep the types.
LEMMA RunKeepsTypes ==
    ASSUME LifeTypeOK, NEW r \in Runs, Run(r) \/ LoopPanics(r)
    PROVE  LifeTypeOK'
<1>1. CASE BeginStarts(r)
  BY <1>1 DEF BeginStarts, LifeTypeOK, RunSteps, systemVars, controlVars
<1>2. CASE BeginGivesUp(r)
  BY <1>2 DEF BeginGivesUp, LifeTypeOK, RunSteps, monitorVars, systemVars, controlVars
<1>3. CASE BeginWaits(r)
  BY <1>3 DEF BeginWaits, LifeTypeOK, RunSteps, monitorVars, systemVars, controlVars
<1>4. CASE LoopReturns(r)
  BY <1>4 DEF LoopReturns, LifeTypeOK, RunSteps, monitorVars, systemVars, controlVars
<1>5. CASE Finish(r)
  <2>1. pc' \in [Runs -> RunSteps]
    BY <1>5 DEF Finish, Closed, LifeTypeOK, RunSteps
  <2>2. previousDone' \in [Runs -> Runs \cup {NoRun}] /\ cancelled' \subseteq Runs
    BY <1>5 DEF Finish, Forgotten, LifeTypeOK
  <2>3. monitoringDone' \in Runs \cup {NoRun} /\ monitoringStopping' \in BOOLEAN
          /\ monitoringTemp' \in BOOLEAN
    BY <1>5 DEF Finish, LifeTypeOK, monitorVars
  <2> QED
    BY <1>5, <2>1, <2>2, <2>3 DEF Finish, LifeTypeOK, systemVars, controlVars
<1>6. CASE LoopPanics(r)
  <2>1. coming' \in [MonitorEvents -> Nat]
    BY <1>6, OccursKeepsType DEF LoopPanics, MonitorEvents
  <2> QED
    BY <1>6, <2>1 DEF LoopPanics, LifeTypeOK, RunSteps, monitorVars, systemVars, controlVars
<1> QED
  BY <1>1, <1>2, <1>3, <1>4, <1>5, <1>6 DEF Run

\* The steps of suspend and resume keep the types.
LEMMA PowerKeepsTypes ==
    ASSUME LifeTypeOK,
           SuspendBegins \/ SuspendStops \/ ResumeNotice \/ GapDetected
             \/ CooldownEnds \/ Recovery
    PROVE  LifeTypeOK'
<1> USE DEF MonitorEvents, Controllers, ControlSteps
<1>1. CASE SuspendBegins
  <2>1. coming' \in [MonitorEvents -> Nat]
    BY <1>1, OccursKeepsType DEF SuspendBegins
  <2>2. control' \in [Controllers -> ControlSteps]
    BY <1>1, GotoKeepsType DEF SuspendBegins, LifeTypeOK
  <2> QED
    BY <1>1, <2>1, <2>2 DEF SuspendBegins, LifeTypeOK, runVars, monitorVars
<1>2. CASE SuspendStops
  <2>1. control' \in [Controllers -> ControlSteps]
    BY <1>2, GotoKeepsType DEF SuspendStops
  <2>2. cancelled' \subseteq Runs /\ monitoringStopping' \in BOOLEAN
    BY <1>2 DEF SuspendStops, StopMonitoring, LifeTypeOK
  <2> QED
    BY <1>2, <2>1, <2>2 DEF SuspendStops, LifeTypeOK, systemVars
<1>3. CASE ResumeNotice
  BY <1>3, TriggerKeepsType DEF ResumeNotice, LifeTypeOK, runVars, monitorVars
<1>4. CASE GapDetected
  <2>1. coming' \in [MonitorEvents -> Nat]
    BY <1>4, OccursKeepsType DEF GapDetected
  <2> QED
    BY <1>4, <2>1, TriggerKeepsType DEF GapDetected, LifeTypeOK, runVars, monitorVars
<1>5. CASE CooldownEnds
  BY <1>5 DEF CooldownEnds, LifeTypeOK, runVars, monitorVars, controlVars
<1>6. CASE RecoverySwaps
  <2>1. control' \in [Controllers -> ControlSteps]
    BY <1>6, GotoKeepsType DEF RecoverySwaps
  <2> QED
    BY <1>6, <2>1 DEF RecoverySwaps, LifeTypeOK, runVars, monitorVars
<1>7. CASE RecoveryRestarts
  <2>1. control' \in [Controllers -> ControlSteps]
    BY <1>7, GotoKeepsType DEF RecoveryRestarts
  <2>2. pc' \in [Runs -> RunSteps] /\ UNCHANGED <<previousDone, cancelled>>
    BY <1>7, SpawnKeepsType DEF RecoveryRestarts, LifeTypeOK, runVars
  <2> QED
    BY <1>7, <2>1, <2>2 DEF RecoveryRestarts, LifeTypeOK, monitorVars, systemVars
<1>8. CASE RecoveryEnds
  <2>1. control' \in [Controllers -> ControlSteps]
    BY <1>8, GotoKeepsType DEF RecoveryEnds
  <2> QED
    BY <1>8, <2>1 DEF RecoveryEnds, LifeTypeOK, runVars, monitorVars, systemVars
<1> QED
  BY <1>1, <1>2, <1>3, <1>4, <1>5, <1>6, <1>7, <1>8 DEF Recovery

\* The steps of the health check, of commits and of Stop keep the types.
LEMMA OthersKeepTypes ==
    ASSUME LifeTypeOK, Health \/ CommitStarts \/ StopBegins \/ Shutdown
    PROVE  LifeTypeOK'
<1> USE DEF MonitorEvents, Controllers, ControlSteps
<1>1. CASE HealthReads
  <2>1. control' \in [Controllers -> ControlSteps]
    BY <1>1, GotoKeepsType DEF HealthReads
  <2> QED
    BY <1>1, <2>1 DEF HealthReads, LifeTypeOK, runVars, monitorVars, systemVars
<1>2. CASE HealthRestarts
  <2>1. control' \in [Controllers -> ControlSteps]
    BY <1>2, GotoKeepsType DEF HealthRestarts
  <2>2. pc' \in [Runs -> RunSteps] /\ UNCHANGED <<previousDone, cancelled>>
    BY <1>2, SpawnKeepsType DEF HealthRestarts, LifeTypeOK, runVars
  <2> QED
    BY <1>2, <2>1, <2>2 DEF HealthRestarts, LifeTypeOK, monitorVars, systemVars
<1>3. CASE CommitStarts
  <2>1. coming' \in [MonitorEvents -> Nat]
    BY <1>3, OccursKeepsType DEF CommitStarts
  <2>2. pc' \in [Runs -> RunSteps] /\ UNCHANGED <<previousDone, cancelled>>
    BY <1>3, SpawnKeepsType DEF CommitStarts
  <2> QED
    BY <1>3, <2>1, <2>2 DEF CommitStarts, LifeTypeOK, monitorVars, systemVars, controlVars
<1>4. CASE StopBegins
  <2>1. coming' \in [MonitorEvents -> Nat]
    BY <1>4, OccursKeepsType DEF StopBegins
  <2>2. control' \in [Controllers -> ControlSteps]
    BY <1>4, GotoKeepsType DEF StopBegins
  <2> QED
    BY <1>4, <2>1, <2>2 DEF StopBegins, LifeTypeOK, runVars, monitorVars
<1>5. CASE StopStops
  <2>1. control' \in [Controllers -> ControlSteps]
    BY <1>5, GotoKeepsType DEF StopStops
  <2>2. cancelled' \subseteq Runs /\ monitoringStopping' \in BOOLEAN
    BY <1>5 DEF StopStops, StopMonitoring, LifeTypeOK
  <2> QED
    BY <1>5, <2>1, <2>2 DEF StopStops, LifeTypeOK, systemVars
<1>6. CASE StopGoesOn
  <2>1. control' \in [Controllers -> ControlSteps]
    BY <1>6, GotoKeepsType DEF StopGoesOn
  <2> QED
    BY <1>6, <2>1 DEF StopGoesOn, LifeTypeOK, runVars, monitorVars, systemVars
<1> QED
  BY <1>1, <1>2, <1>3, <1>4, <1>5, <1>6 DEF Health, Shutdown

\* Every variable of the monitor's life cycle keeps its type, for any number of
\* goroutines and any mix of suspends, gaps, commits, panics and stops.
THEOREM LifeTypesHold == LifeSpec => []LifeTypeOK
<1>1. LifeInit => LifeTypeOK
  BY EventMixesAssumption, ZenonT(60) DEF LifeInit, LifeTypeOK, RunSteps, ControlSteps
<1>2. LifeTypeOK /\ [LifeNext]_lifeVars => LifeTypeOK'
  <2> SUFFICES ASSUME LifeTypeOK, [LifeNext]_lifeVars PROVE LifeTypeOK'
    OBVIOUS
  <2>1. CASE UNCHANGED lifeVars
    BY <2>1 DEF lifeVars, runVars, monitorVars, systemVars, controlVars, LifeTypeOK
  <2> QED
    BY <2>1, RunKeepsTypes, PowerKeepsTypes, OthersKeepTypes DEF LifeNext
<1> QED
  BY <1>1, <1>2, PTL DEF LifeSpec

-----------------------------------------------------------------------------
(* One monitor.                                                            *)
(*                                                                         *)
(* OneMonitor and FlagTellsTruth follow from one fact about the code: a    *)
(* run is alive exactly while its channel is the stored one.  That fact is *)
(* inductive together with what a stop has done: a monitor marked as       *)
(* stopping is registered and cancelled, and whoever waits waits for it.   *)

Registered == \A r \in Runs : Alive(r) <=> monitoringDone = r

Flagged == monitoringTemp <=> monitoringDone # NoRun

StoppingIsCancelled == monitoringStopping => monitoringDone \in cancelled

WaitersWaitForTheStopped ==
    \A r \in Runs : pc[r] = "wait" => monitoringStopping /\ previousDone[r] = monitoringDone

MonitorInv == Registered /\ Flagged /\ StoppingIsCancelled /\ WaitersWaitForTheStopped

\* Steps that leave the monitor's own variables alone and move no goroutine out
\* of or into a wait, a run or a finish keep the invariant.
LEMMA SpawnKeepsOrder ==
    ASSUME LifeTypeOK, MonitorInv, UNCHANGED monitorVars,
           UNCHANGED runVars \/ \E r \in Runs : Spawn(r)
    PROVE  MonitorInv'
<1>1. CASE UNCHANGED runVars
  BY <1>1 DEF MonitorInv, Registered, Flagged, StoppingIsCancelled, WaitersWaitForTheStopped,
     Alive, monitorVars, runVars
<1>2. ASSUME NEW r \in Runs, Spawn(r) PROVE MonitorInv'
  <2>1. \A s \in Runs : Alive(s)' <=> Alive(s)
    BY <1>2 DEF Spawn, Alive, LifeTypeOK
  <2>2. \A s \in Runs : pc'[s] = "wait" => pc[s] = "wait"
    BY <1>2 DEF Spawn, LifeTypeOK
  <2>3. UNCHANGED <<previousDone, cancelled>>
    BY <1>2 DEF Spawn
  <2> QED
    BY <2>1, <2>2, <2>3 DEF MonitorInv, Registered, Flagged, StoppingIsCancelled,
       WaitersWaitForTheStopped, monitorVars
<1> QED
  BY <1>1, <1>2

\* A stop marks and cancels the registered monitor, and takes nothing back.
LEMMA StopKeepsOrder ==
    ASSUME LifeTypeOK, MonitorInv, StopMonitoring,
           UNCHANGED <<pc, previousDone, monitoringDone, monitoringTemp>>
    PROVE  MonitorInv'
<1>1. Registered' /\ Flagged'
  BY DEF MonitorInv, Registered, Flagged, Alive
<1>2. StoppingIsCancelled'
  BY DEF MonitorInv, StoppingIsCancelled, StopMonitoring
<1>3. WaitersWaitForTheStopped'
  BY DEF MonitorInv, WaitersWaitForTheStopped, StopMonitoring
<1> QED
  BY <1>1, <1>2, <1>3 DEF MonitorInv

\* A monitor registers only when none is, gives way otherwise, and unregisters
\* itself when it ends, waking exactly those who waited for it.
LEMMA RunKeepsOrder ==
    ASSUME LifeTypeOK, MonitorInv, NEW r \in Runs, Run(r) \/ LoopPanics(r)
    PROVE  MonitorInv'
<1>1. CASE BeginStarts(r)
  <2>1. ~monitoringStopping /\ \A s \in Runs : ~Alive(s) /\ pc[s] # "wait"
    BY <1>1, RunsAssumption DEF BeginStarts, MonitorInv, Registered, StoppingIsCancelled,
       WaitersWaitForTheStopped, LifeTypeOK
  <2>2. Registered' /\ Flagged'
    BY <1>1, <2>1, RunsAssumption DEF BeginStarts, Registered, Flagged, Alive, LifeTypeOK
  <2>3. StoppingIsCancelled' /\ WaitersWaitForTheStopped'
    BY <1>1, <2>1 DEF BeginStarts, StoppingIsCancelled, WaitersWaitForTheStopped, LifeTypeOK
  <2> QED
    BY <2>2, <2>3 DEF MonitorInv
<1>2. CASE BeginGivesUp(r)
  <2>1. Registered'
    BY <1>2 DEF BeginGivesUp, MonitorInv, Registered, Alive, LifeTypeOK, monitorVars
  <2>2. Flagged' /\ StoppingIsCancelled' /\ WaitersWaitForTheStopped'
    BY <1>2 DEF BeginGivesUp, MonitorInv, Flagged, StoppingIsCancelled,
       WaitersWaitForTheStopped, LifeTypeOK, monitorVars
  <2> QED
    BY <2>1, <2>2 DEF MonitorInv
<1>3. CASE BeginWaits(r)
  <2>1. Registered'
    BY <1>3 DEF BeginWaits, MonitorInv, Registered, Alive, LifeTypeOK, monitorVars
  <2>2. Flagged' /\ StoppingIsCancelled'
    BY <1>3 DEF BeginWaits, MonitorInv, Flagged, StoppingIsCancelled, monitorVars
  <2>3. WaitersWaitForTheStopped'
    BY <1>3 DEF BeginWaits, MonitorInv, WaitersWaitForTheStopped, LifeTypeOK, monitorVars
  <2> QED
    BY <2>1, <2>2, <2>3 DEF MonitorInv
<1>4. CASE LoopReturns(r) \/ LoopPanics(r)
  <2>1. UNCHANGED <<monitorVars, previousDone, cancelled>>
          /\ pc[r] = "run" /\ pc' = [pc EXCEPT ![r] = "finish"]
    BY <1>4 DEF LoopReturns, LoopPanics, monitorVars
  <2>2. Registered'
    BY <2>1 DEF MonitorInv, Registered, Alive, LifeTypeOK, monitorVars
  <2>3. Flagged' /\ StoppingIsCancelled' /\ WaitersWaitForTheStopped'
    BY <2>1 DEF MonitorInv, Flagged, StoppingIsCancelled, WaitersWaitForTheStopped, LifeTypeOK,
       monitorVars
  <2> QED
    BY <2>2, <2>3 DEF MonitorInv
<1>5. CASE Finish(r)
  <2>1. monitoringDone = r
    BY <1>5 DEF Finish, MonitorInv, Registered, Alive
  <2>2. /\ monitoringDone' = NoRun /\ ~monitoringStopping' /\ ~monitoringTemp'
        /\ pc' = Closed(r)
    BY <1>5, <2>1 DEF Finish
  <2>3. \A s \in Runs : ~Alive(s)'
    BY <2>1, <2>2 DEF Closed, MonitorInv, Registered, Alive
  <2>4. \A s \in Runs : pc'[s] # "wait"
    BY <2>1, <2>2 DEF Closed, MonitorInv, WaitersWaitForTheStopped
  <2> QED
    BY <2>2, <2>3, <2>4, RunsAssumption DEF MonitorInv, Registered, Flagged,
       StoppingIsCancelled, WaitersWaitForTheStopped
<1> QED
  BY <1>1, <1>2, <1>3, <1>4, <1>5 DEF Run

\* Every step keeps the invariant.
LEMMA StepKeepsOrder == LifeTypeOK /\ MonitorInv /\ [LifeNext]_lifeVars => MonitorInv'
<1> SUFFICES ASSUME LifeTypeOK, MonitorInv, [LifeNext]_lifeVars PROVE MonitorInv'
  OBVIOUS
<1>1. ASSUME NEW r \in Runs, Run(r) \/ LoopPanics(r) PROVE MonitorInv'
  BY <1>1, RunKeepsOrder
<1>2. CASE SuspendStops \/ StopStops
  BY <1>2, StopKeepsOrder DEF SuspendStops, StopStops
<1>3. CASE \/ SuspendBegins \/ ResumeNotice \/ GapDetected \/ CooldownEnds \/ Recovery
           \/ Health \/ CommitStarts \/ StopBegins \/ StopGoesOn \/ UNCHANGED lifeVars
  <2>1. UNCHANGED monitorVars /\ (UNCHANGED runVars \/ \E r \in Runs : Spawn(r))
    BY <1>3 DEF SuspendBegins, ResumeNotice, GapDetected, CooldownEnds, Recovery,
       RecoverySwaps, RecoveryRestarts, RecoveryEnds, Health, HealthReads, HealthRestarts,
       CommitStarts, StopBegins, StopGoesOn, lifeVars
  <2> QED
    BY <2>1, SpawnKeepsOrder
<1> QED
  BY <1>1, <1>2, <1>3 DEF LifeNext, Shutdown

\* The invariant holds throughout: a run is alive exactly while its channel is
\* the stored one, and waiters wait for a registered monitor that is cancelled.
THEOREM MonitorOrder == LifeSpec => []MonitorInv
<1>1. LifeInit => MonitorInv
  BY RunsAssumption DEF LifeInit, MonitorInv, Registered, Flagged, StoppingIsCancelled,
     WaitersWaitForTheStopped, Alive
<1> QED
  BY <1>1, StepKeepsOrder, LifeTypesHold, PTL DEF LifeSpec

\* beginTemperatureMonitoring never registers a second monitor beside one that
\* has not reached its finish, however starts and stops interleave.
THEOREM AtMostOneMonitor == LifeSpec => []OneMonitor
<1>1. MonitorInv => OneMonitor
  BY DEF MonitorInv, Registered, OneMonitor
<1> QED
  BY <1>1, MonitorOrder, PTL

\* monitoringTemp, which the health check trusts, is set exactly while a monitor
\* is alive.
THEOREM FlagIsTrue == LifeSpec => []FlagTellsTruth
<1>1. LifeTypeOK /\ MonitorInv => FlagTellsTruth
  <2> SUFFICES ASSUME LifeTypeOK, MonitorInv PROVE FlagTellsTruth
    OBVIOUS
  <2>1. monitoringDone # NoRun <=> \E r \in Runs : Alive(r)
    BY RunsAssumption DEF LifeTypeOK, MonitorInv, Registered
  <2> QED
    BY <2>1, Zenon DEF MonitorInv, Flagged, FlagTellsTruth
<1> QED
  BY <1>1, MonitorOrder, LifeTypesHold, PTL

\* Whoever waits in beginTemperatureMonitoring waits for a monitor that is alive
\* and cancelled, whose finish is therefore still to close the channel.
THEOREM NoWaiterIsLost == LifeSpec => []WaitersWillWake
<1>1. LifeTypeOK /\ MonitorInv => WaitersWillWake
  <2> SUFFICES ASSUME LifeTypeOK, MonitorInv, NEW r \in Runs, pc[r] = "wait"
               PROVE  \E s \in cancelled : s = previousDone[r] /\ Alive(s)
    BY DEF WaitersWillWake
  <2>1. monitoringDone \in cancelled /\ previousDone[r] = monitoringDone
    BY DEF MonitorInv, StoppingIsCancelled, WaitersWaitForTheStopped
  <2>2. Alive(monitoringDone)
    BY <2>1 DEF LifeTypeOK, MonitorInv, Registered
  <2> QED
    BY <2>1, <2>2
<1> QED
  BY <1>1, MonitorOrder, LifeTypesHold, PTL

-----------------------------------------------------------------------------
(* The control tick.                                                       *)

\* Spending an event keeps the budgets natural numbers.
LEMMA SpendType ==
    ASSUME NEW e \in Events, budget \in [Events -> Nat], Spend(e)
    PROVE  budget' \in [Events -> Nat]
  BY DEF Spend

\* After a write the interval has CoolingTicks ticks, or one more.
LEMMA CoolingType ==
    ASSUME CoolingStarts
    PROVE  cooling' \in 0..(CoolingTicks + 1)
  BY CoolingAssumption DEF CoolingStarts

\* Counters start within their bounds.
LEMMA ZeroType == 0 \in 0..(CoolingTicks + 1) /\ 0 \in 0..(Threshold + 1)
  BY CoolingAssumption, ThresholdAssumption

\* Where no gap of memory is noted, the host remembers what the cooler has: a target
\* skipped within the deadband is one the cooler is running at.
MemoryIsTrue == lastPushed # NoSpeed /\ "memory" \notin gaps => deviceSpeed = lastPushed

\* A speed given behind the host's back is noted, if there is anything to remember.
LEMMA GivenElsewhereType ==
    ASSUME TypeOK, NEW speed \in Speeds, GivenElsewhere(speed), UNCHANGED lastPushed
    PROVE  deviceSpeed' \in Speeds /\ gaps' \subseteq Gaps /\ MemoryIsTrue'
  BY DEF GivenElsewhere, MemoryIsTrue, Gaps, TypeOK, SpeedPushTypeOK

\* A write keeps the types and what is remembered true, whatever its outcome.
LEMMA HostWriteType ==
    ASSUME TypeOK, MemoryIsTrue, NEW speed \in Speeds, NEW ok \in BOOLEAN, HostWrite(speed, ok)
    PROVE  /\ deviceSpeed' \in Speeds
           /\ lastPushed' \in Speeds \cup {NoSpeed}
           /\ cooling' \in 0..(CoolingTicks + 1)
           /\ shownTarget' \in Speeds \cup {NoSpeed}
           /\ gaps' \subseteq Gaps
           /\ budget' \in [Events -> Nat]
           /\ MemoryIsTrue'
<1> USE DEF TypeOK, SpeedPushTypeOK
<1>1. CASE ok /\ HostWrites(speed) /\ UNCHANGED budget
  BY <1>1, CoolingType DEF HostWrites, Gaps, MemoryIsTrue
<1>2. CASE ~ok /\ HostWriteRefused(speed) /\ Spend("refused")
  BY <1>2, SpendType DEF HostWriteRefused, speedVars, Events, MemoryIsTrue
<1>3. CASE ~ok /\ HostWriteTorn(speed) /\ Spend("torn")
  BY <1>3, SpendType, GivenElsewhereType DEF HostWriteTorn, Events
<1> QED BY <1>1, <1>2, <1>3 DEF HostWrite

\* A worker that writes has taken a target: NoSpeed is never written.
WorkerHasTarget == worker.at = "write" => worker.speed \in Speeds

SpeedInv == TypeOK /\ WorkerHasTarget /\ QueuedIsServed /\ MemoryIsTrue

\* The ramp of the safety fallback stays on the levels of the curve.
LEMMA RampStaysOnCurve ==
    ASSUME NEW speed \in Speeds
    PROVE  Ramped(speed) \in Speeds
<1>1. speed \in Nat /\ SafeSpeed \in Nat /\ SafeSpeed \in Speeds
  BY SpeedsAssumption, TargetsAssumption
<1>2. CASE speed < SafeSpeed
  <2>1. speed + 1 \in speed .. SafeSpeed
    BY <1>1, <1>2
  <2> QED BY <1>1, <1>2, <2>1, LevelsAssumption DEF Ramped
<1>3. CASE speed > SafeSpeed
  <2>1. speed - 1 \in SafeSpeed .. speed
    BY <1>1, <1>3
  <2> QED BY <1>1, <1>3, <2>1, LevelsAssumption DEF Ramped
<1>4. CASE speed = SafeSpeed
  BY <1>1, <1>4 DEF Ramped
<1> QED BY <1>1, <1>2, <1>3, <1>4

\* What the tick takes for the last target is always a level.
LEMMA KnownTargetType ==
    ASSUME TypeOK
    PROVE  KnownTarget \in Speeds
  BY DEF KnownTarget, TypeOK, SpeedPushTypeOK

\* The debounce state counts a direction for one tick, then as settled.
LEMMA DebounceType ==
    ASSUME NEW target, NEW pushed
    PROVE  DebounceAdvanced(target, pushed) \in [sign : Signs, streak : 0..2]
<1>1. \A sign \in Signs, streak \in 0..2 : [sign |-> sign, streak |-> streak] \in [sign : Signs, streak : 0..2]
  OBVIOUS
<1> QED BY <1>1 DEF DebounceAdvanced, Signs

\* Every action of the worker preserves the invariant.
LEMMA WorkerKeeps ==
    ASSUME SpeedInv, Worker
    PROVE  SpeedInv'
<1> USE DEF SpeedInv, TypeOK, SpeedPushTypeOK, WorkerHasTarget, QueuedIsServed, MemoryIsTrue
<1>1. CASE WorkerTakes /\ UNCHANGED <<coreVars, tickVars, client, worldVars, budget>>
  BY <1>1 DEF WorkerTakes, WorkerSteps, speedVars, coreVars, tickVars, worldVars
<1>2. ASSUME NEW ok \in BOOLEAN, WorkerWrites(ok) PROVE SpeedInv'
  <2>1. worker' = [at |-> "take", speed |-> NoSpeed]
    BY <1>2 DEF WorkerWrites, WorkerGoesOn
  <2>2. autoPushFailed' \in BOOLEAN
    BY <1>2 DEF WorkerWrites
  <2>3. UNCHANGED <<pushPending, mode, forceNext, tickVars, client, worldVars>>
    BY <1>2 DEF WorkerWrites
  <2>4. worker.speed \in Speeds /\ HostWrite(worker.speed, ok)
    BY <1>2 DEF WorkerWrites
  <2> QED BY <2>1, <2>2, <2>3, <2>4, HostWriteType DEF WorkerSteps, tickVars, worldVars
<1> QED BY <1>1, <1>2 DEF Worker

\* Every action of the tick preserves the invariant.
LEMMA TickKeeps ==
    ASSUME SpeedInv, Tick
    PROVE  SpeedInv'
<1> USE DEF SpeedInv, TypeOK, SpeedPushTypeOK, WorkerHasTarget, QueuedIsServed, MemoryIsTrue
<1>1. CASE TickReads
  BY <1>1, CoolingAssumption DEF TickReads, queueVars, coreVars, worldVars
<1>2. CASE TickIdles
  BY <1>2, ZeroType DEF TickIdles, TickGated, queueVars, speedVars, coreVars, worldVars
<1>3. CASE TickFollows
  <2>1. /\ tick' = "wait" /\ invalidSamples' = 0 /\ fallbackActive' = FALSE /\ lastAuto' = TRUE
        /\ forceNext' = FALSE /\ autoPushFailed' = FALSE
        /\ UNCHANGED <<speedVars, mode, client, worldVars, budget>>
    BY <1>3 DEF TickFollows
  <2>3. debounce' \in [sign : Signs, streak : 0..2]
    BY <1>3, DebounceType DEF TickFollows, Signs
  <2>4. /\ lastTarget' \in Speeds \cup {NoSpeed}
        /\ (PushSpeedAsync(demand) \/ UNCHANGED queueVars)
    BY <1>3, KnownTargetType, TargetsAssumption DEF TickFollows
  <2>5. /\ pushPending' \in Speeds \cup {NoSpeed}
        /\ worker' \in [at : WorkerSteps, speed : Speeds \cup {NoSpeed}]
        /\ WorkerHasTarget' /\ QueuedIsServed'
    <3>1. CASE PushSpeedAsync(demand)
      BY <3>1, TargetsAssumption DEF PushSpeedAsync, WorkerSteps
    <3>2. CASE UNCHANGED queueVars
      BY <3>2 DEF queueVars
    <3> QED BY <2>4, <3>1, <3>2
  <2> QED BY <2>1, <2>3, <2>4, <2>5, ZeroType DEF worldVars, speedVars
<1>4. ASSUME NEW ok \in BOOLEAN, TickFallsBack(ok) PROVE SpeedInv'
  <2>1. /\ tick' = "wait" /\ lastAuto' = FALSE /\ lastTarget' = NoSpeed
        /\ UNCHANGED <<worker, coreVars, debounce, client, worldVars>>
    BY <1>4 DEF TickFallsBack, TickGated
  <2>2. invalidSamples' \in 0..(Threshold + 1)
    BY <1>4, ThresholdAssumption DEF TickFallsBack
  <2>3. fallbackActive' \in BOOLEAN
    BY <1>4 DEF TickFallsBack
  <2>4. \/ pushPending' = NoSpeed /\ HostWrite(Ramped(KnownTarget), ok)
        \/ UNCHANGED <<pushPending, speedVars, fallbackActive, budget>>
    BY <1>4 DEF TickFallsBack, CancelPendingSpeedPush
  <2>5. CASE pushPending' = NoSpeed /\ HostWrite(Ramped(KnownTarget), ok)
    <3>1. Ramped(KnownTarget) \in Speeds
      BY KnownTargetType, RampStaysOnCurve, ZenonT(60)
    <3> QED BY <2>1, <2>2, <2>3, <2>5, <3>1, HostWriteType DEF coreVars, worldVars
  <2>6. CASE UNCHANGED <<pushPending, speedVars, fallbackActive, budget>>
    BY <2>1, <2>2, <2>6, ZenonT(60) DEF speedVars, coreVars, worldVars
  <2> QED BY <2>4, <2>5, <2>6
<1> QED BY <1>1, <1>2, <1>3, <1>4 DEF Tick

\* Every step of a request preserves the invariant.
LEMMA ClientKeeps ==
    ASSUME SpeedInv,
           Client \/ ClientRequests \/ ClientCommitsAuto \/ ClientCustomOff \/ ClientRestores
    PROVE  SpeedInv'
<1> USE DEF SpeedInv, TypeOK, SpeedPushTypeOK, WorkerHasTarget, QueuedIsServed, MemoryIsTrue,
            queueVars, coreVars, tickVars, worldVars
<1>1. CASE ClientCommits
  BY <1>1 DEF ClientCommits, speedVars, Modes, ClientSteps
<1>2. CASE ClientAsserts
  BY <1>2 DEF ClientAsserts, speedVars, ClientSteps
<1>3. ASSUME NEW ok \in BOOLEAN, ClientGearWrites(ok) PROVE SpeedInv'
  BY <1>3, HostWriteType, TargetsAssumption DEF ClientGearWrites, ClientSteps
<1>4. ASSUME NEW ok \in BOOLEAN, ClientCustomWrites(ok) PROVE SpeedInv'
  BY <1>4, HostWriteType, TargetsAssumption DEF ClientCustomWrites, ClientSteps
<1>5. CASE ClientRequests
  BY <1>5, SpendType DEF ClientRequests, speedVars, ClientSteps, Events
<1>6. CASE ClientCommitsAuto
  BY <1>6, SpendType DEF ClientCommitsAuto, speedVars, ClientSteps, Modes, Events
<1>7. CASE ClientCustomOff
  BY <1>7, SpendType DEF ClientCustomOff, speedVars, ClientSteps, Modes, Events
<1>8. CASE ClientRestores
  BY <1>8, SpendType, GivenElsewhereType DEF ClientRestores, ClientSteps, Events
<1>9. CASE ClientForgets
  <2>1. CASE mode = "auto"
    BY <1>9, <2>1, CoolingAssumption DEF ClientForgets, ResetBlackSharkSpeedWriteState, ClientSteps, NoSpeed
  <2>2. CASE mode # "auto"
    BY <1>9, <2>2 DEF ClientForgets, ClientSteps
  <2> QED BY <2>1, <2>2
<1> QED BY <1>1, <1>2, <1>3, <1>4, <1>5, <1>6, <1>7, <1>8, <1>9 DEF Client

\* The environment only changes the demand and the telemetry.
LEMMA WorldKeeps ==
    ASSUME SpeedInv, DemandChanges \/ TelemetryChanges
    PROVE  SpeedInv'
<1> USE DEF SpeedInv, TypeOK, SpeedPushTypeOK, WorkerHasTarget, QueuedIsServed, MemoryIsTrue,
            queueVars, speedVars, coreVars, tickVars
<1>1. CASE DemandChanges
  BY <1>1, SpendType DEF DemandChanges, Events
<1>2. CASE TelemetryChanges
  BY <1>2, SpendType DEF TelemetryChanges, Events
<1> QED BY <1>1, <1>2

\* The invariant of the whole: types, a worker that writes has a level to write,
\* and a queued target has a worker.
THEOREM SpeedOrder == Spec => []SpeedInv
<1>1. ASSUME Init PROVE SpeedInv
  <2>1. SpeedPushTypeOK /\ WorkerHasTarget /\ QueuedIsServed /\ MemoryIsTrue
    BY <1>1, ZeroType DEF Init, SpeedPushInit, SpeedPushTypeOK, WorkerSteps, WorkerHasTarget, QueuedIsServed, MemoryIsTrue
  <2>2. /\ debounce \in [sign : Signs, streak : 0..2]
        /\ invalidSamples \in 0..(Threshold + 1)
        /\ budget \in [Events -> Nat]
    BY <1>1, ZeroType, BudgetsAssumption DEF Init, Signs
  <2> QED BY <1>1, <2>1, <2>2 DEF Init, SpeedInv, TypeOK, Modes, ClientSteps
<1>2. SpeedInv /\ [Next]_vars => SpeedInv'
  <2> SUFFICES ASSUME SpeedInv, [Next]_vars PROVE SpeedInv'
    OBVIOUS
  <2>1. CASE Next
    BY <2>1, WorkerKeeps, TickKeeps, ClientKeeps, WorldKeeps DEF Next
  <2>2. CASE UNCHANGED vars
    BY <2>2 DEF SpeedInv, TypeOK, SpeedPushTypeOK, WorkerHasTarget, QueuedIsServed, MemoryIsTrue,
                vars, queueVars, speedVars, coreVars, tickVars, worldVars
  <2> QED BY <2>1, <2>2
<1> QED BY <1>1, <1>2, PTL DEF Spec

\* Every variable of SpeedControl keeps its type: in particular the ramp never
\* leaves the curve and no write is made without a target.
THEOREM TypeCorrect == Spec => []TypeOK
<1>1. SpeedInv => TypeOK
  BY DEF SpeedInv
<1> QED BY <1>1, SpeedOrder, PTL

\* A target that PushSpeedAsync has queued always has a worker that will take it,
\* whatever cancels, replaces or overtakes it.
THEOREM QueueIsServed == Spec => []QueuedIsServed
<1>1. SpeedInv => QueuedIsServed
  BY DEF SpeedInv
<1> QED BY <1>1, SpeedOrder, PTL

\* What SetTargetSpeed skips within the deadband the cooler is running at, unless it
\* was given another speed by a restored snapshot or by a write that was taken for
\* failed.
THEOREM SkipsAreRight == Spec => []MemoryIsTrue
<1>1. SpeedInv => MemoryIsTrue
  BY DEF SpeedInv
<1> QED BY <1>1, SpeedOrder, PTL

-----------------------------------------------------------------------------
(* Finite recursion.  The library's induction theorems take operators; what *)
(* follows is stated about sets and functions alone.                        *)

\* A non-empty set within an interval has a last element.
LEMMA LastOne ==
    ASSUME NEW a \in Int, NEW b \in Int, NEW I \in SUBSET (a..b), I # {}
    PROVE  \E last \in I : \A i \in I : i <= last
<1> DEFINE S == a..b
           From(i) == i..b
           T == {From(i) : i \in I}
<1>1. IsWellFoundedOn(StrictSubsetOrdering(S), SUBSET S)
  <2>1. FiniteSubsetsOf(S) = SUBSET S
    BY FS_Interval, FS_FiniteSubsetsOfFinite
  <2> QED  BY <2>1, FS_StrictSubsetOrderingWellFounded
<1>2. T \subseteq SUBSET S /\ T # {}
  <2>1. PICK i \in I : TRUE
    OBVIOUS
  <2>2. From(i) \in T
    OBVIOUS
  <2> QED  BY <2>2
<1>3. \E x \in T : \A y \in T : <<y, x>> \notin StrictSubsetOrdering(S)
  <2> HIDE DEF S, T
  <2> QED  BY <1>1, <1>2, WFMin
<1>4. PICK last \in I : \A i \in I : <<From(i), From(last)>> \notin StrictSubsetOrdering(S)
  BY <1>3
<1>5. ASSUME NEW i \in I, i > last
      PROVE  FALSE
  <2>1. /\ From(i) \in SUBSET S /\ From(last) \in SUBSET S
        /\ From(i) \subseteq From(last) /\ last \in From(last) /\ last \notin From(i)
    BY <1>5
  <2>2. <<From(i), From(last)>> \in StrictSubsetOrdering(S)
    <3>1. From(i) # From(last)
      BY <2>1
    <3> HIDE DEF S, From
    <3> QED  BY <3>1, <2>1 DEF StrictSubsetOrdering
  <2> QED  BY <2>2, <1>4
<1> QED  BY <1>5

\* Induction along an interval, for the set of the indices it holds for.
LEMMA Climbs ==
    ASSUME NEW a \in Int, NEW b \in Int, NEW c \in Int, c = a + 1,
           NEW I, a \in I, \A i \in c..b : i - 1 \in I => i \in I
    PROVE  a..b \subseteq I
<1> SUFFICES ASSUME NEW i \in a..b, i \notin I
             PROVE  FALSE
  OBVIOUS
<1> DEFINE J == {j \in a..i : j \in I}
<1>1. PICK last \in J : \A j \in J : j <= last
  <2>1. J \in SUBSET (a..i) /\ a \in J /\ i \in Int
    OBVIOUS
  <2> HIDE DEF J
  <2> QED  BY <2>1, LastOne
<1>2. last \in a..i /\ last \in I /\ last # i
  OBVIOUS
<1>3. last + 1 \in c..b /\ (last + 1) - 1 = last
  BY <1>2
<1>4. last + 1 \in J
  BY <1>2, <1>3
<1> QED  BY <1>1, <1>2, <1>4

\* Some function from a..b to S begins with base and goes on by step.
Buildable(a, b, c, S, base, step) ==
  \E g \in [a..b -> S] :
    /\ g[a] = base
    /\ \A i \in c..b : g[i] = step[<<i, g[i - 1]>>]

\* A function may be built up from its first value, each value from the one before.
LEMMA Builds ==
    ASSUME NEW a \in Int, NEW b \in Int, NEW c \in Int, a <= b, c = a + 1,
           NEW S, NEW base \in S, NEW step, \A i \in c..b, s \in S : step[<<i, s>>] \in S
    PROVE  Buildable(a, b, c, S, base, step)
<1> DEFINE Built(k, g) == g[a] = base /\ \A i \in c..k : g[i] = step[<<i, g[i - 1]>>]
           K == {k \in a..b : \E g \in [a..k -> S] : Built(k, g)}
<1>1. a \in K
  <2> DEFINE g == [i \in a..a |-> base]
  <2>1. g \in [a..a -> S]
    OBVIOUS
  <2>2. Built(a, g)
    OBVIOUS
  <2>3. a \in a..b
    OBVIOUS
  <2> HIDE DEF g, Built
  <2> QED  BY <2>1, <2>2, <2>3
<1>2. ASSUME NEW next \in c..b, next - 1 \in K
      PROVE  next \in K
  <2> DEFINE k == next - 1
  <2>1. PICK g \in [a..k -> S] : Built(k, g)
    BY <1>2
  <2>2. k \in a..b /\ next = k + 1 /\ next \in a..b /\ k \in a..k
    OBVIOUS
  <2> DEFINE h == [i \in a..next |-> IF i = next THEN step[<<next, g[k]>>] ELSE g[i]]
  <2>3. h \in [a..next -> S]
    BY <2>2
  <2>4. Built(next, h)
    <3>1. h[a] = base
      BY <2>1, <2>2
    <3>2. ASSUME NEW i \in c..next
          PROVE  h[i] = step[<<i, h[i - 1]>>]
      <4>1. h[i - 1] = g[i - 1]
        BY <2>2
      <4>2. CASE i = next
        <5>1. h[i] = step[<<next, g[k]>>]
          BY <2>2, <4>2
        <5> HIDE DEF h
        <5> QED  BY <5>1, <4>1, <4>2
      <4>3. CASE i # next
        <5>1. h[i] = g[i] /\ i \in c..k
          BY <2>2, <4>3
        <5>2. g[i] = step[<<i, g[i - 1]>>]
          BY <5>1, <2>1
        <5> HIDE DEF h
        <5> QED  BY <5>1, <5>2, <4>1
      <4> QED  BY <4>2, <4>3
    <3> QED  BY <3>1, <3>2
  <2> HIDE DEF h, Built
  <2> QED  BY <2>2, <2>3, <2>4
<1>3. a..b \subseteq K
  <2> HIDE DEF K
  <2> QED  BY <1>1, <1>2, Climbs
<1>4. b \in K
  BY <1>3
<1> QED  BY <1>4 DEF Buildable

\* The least and the greatest element, once known.
LEMMA MinIs ==
    ASSUME NEW S \in SUBSET Int, NEW m \in S, \A x \in S : m <= x
    PROVE  Min(S) = m
<1>1. \A n \in S : (\A x \in S : n <= x) => n = m
  OBVIOUS
<1> QED  BY <1>1 DEF Min

\* An element that no other is above is the maximum.
LEMMA MaxIs ==
    ASSUME NEW S \in SUBSET Int, NEW m \in S, \A x \in S : x <= m
    PROVE  Max(S) = m
<1>1. \A n \in S : (\A x \in S : n >= x) => n = m
  OBVIOUS
<1> QED  BY <1>1 DEF Max

\* The smaller and the larger of two integers.
LEMMA OfTwo ==
    ASSUME NEW a \in Int, NEW b \in Int
    PROVE  /\ Min({a, b}) = IF a <= b THEN a ELSE b
           /\ Max({a, b}) = IF a <= b THEN b ELSE a
<1>1. CASE a <= b
  BY <1>1, MinIs, MaxIs
<1>2. CASE b <= a
  BY <1>2, MinIs, MaxIs
<1> QED  BY <1>1, <1>2

-----------------------------------------------------------------------------
(* The arithmetic of the curve (SmartCurve).                               *)

\* A fan curve is a function on its points.
LEMMA CurveType ==
    ASSUME NEW curve \in FanCurves
    PROVE  /\ Len(curve) \in Nat /\ Len(curve) >= 2
           /\ curve \in [1..Len(curve) -> [temp : Nat, rpm : Nat]]
           /\ \A i \in 2..Len(curve) : curve[i - 1].rpm <= curve[i].rpm
<1> DEFINE Points == [temp : Nat, rpm : Nat]
<1>1. curve \in Seq(Points)
  BY DEF FanCurves
<1>2. Len(curve) \in Nat /\ curve \in [1..Len(curve) -> Points]
  <2> HIDE DEF Points
  <2> QED  BY <1>1
<1>3. Len(curve) >= 2 /\ \A i \in 2..Len(curve) : curve[i - 1].rpm <= curve[i].rpm
  BY DEF FanCurves
<1> QED  BY <1>2, <1>3

\* The speeds of a curve do not fall anywhere between two points.
LEMMA CurveRises ==
    ASSUME NEW curve \in FanCurves, NEW i \in 1..Len(curve), NEW j \in i..Len(curve)
    PROVE  curve[i].rpm <= curve[j].rpm
<1> DEFINE n == Len(curve)
           I == {k \in i..n : curve[i].rpm <= curve[k].rpm}
<1> DEFINE next == i + 1
<1>1. i \in I /\ i \in Int /\ n \in Int /\ next \in Int
  BY CurveType
<1>2. ASSUME NEW k \in next..n, k - 1 \in I
      PROVE  k \in I
  <2>1. k \in 2..n /\ k \in i..n
    BY CurveType
  <2>2. curve[k - 1].rpm <= curve[k].rpm /\ curve[i].rpm <= curve[k - 1].rpm
    BY <2>1, <1>2, CurveType
  <2>3. i \in 1..n /\ k \in 1..n /\ k - 1 \in 1..n
    BY <2>1, CurveType
  <2>4. curve[i].rpm \in Nat /\ curve[k].rpm \in Nat /\ curve[k - 1].rpm \in Nat
    BY <2>3, CurveType
  <2> QED  BY <2>1, <2>2, <2>4
<1>3. i..n \subseteq I
  <2> HIDE DEF I, n
  <2> QED  BY <1>1, <1>2, Climbs
<1> QED  BY <1>3

\* The lowest and the highest speed are those of the end points.
LEMMA CurveEnds ==
    ASSUME NEW curve \in FanCurves
    PROVE  LowestRPM(curve) = curve[1].rpm /\ HighestRPM(curve) = curve[Len(curve)].rpm
<1> DEFINE n == Len(curve)
           S == {curve[i].rpm : i \in 1..n}
<1>1. S \in SUBSET Int /\ curve[1].rpm \in S /\ curve[n].rpm \in S
  BY CurveType
<1>2. ASSUME NEW x \in S
      PROVE  curve[1].rpm <= x /\ x <= curve[n].rpm
  <2>1. PICK i \in 1..n : x = curve[i].rpm
    OBVIOUS
  <2>2. 1 \in 1..n /\ i \in 1..n /\ n \in i..n
    BY CurveType
  <2> QED  BY <2>1, <2>2, CurveRises
<1>3. Min(S) = curve[1].rpm /\ Max(S) = curve[n].rpm
  <2> HIDE DEF S
  <2> QED  BY <1>1, <1>2, MinIs, MaxIs
<1> QED  BY <1>3 DEF LowestRPM, HighestRPM

\* The point a temperature belongs to is one of the curve's.
LEMMA BucketExists ==
    ASSUME NEW curve \in FanCurves, NEW temp \in Int
    PROVE  pickBucketIndex(temp, curve) \in 1..Len(curve)
<1> DEFINE n == Len(curve)
           I == {i \in 1..n : i = 1 \/ curve[i].temp <= temp}
<1>1. n \in Nat /\ n >= 2 /\ curve \in [1..n -> [temp : Nat, rpm : Nat]]
  BY CurveType
<1>2. PICK last \in I : \A i \in I : i <= last
  <2>1. I \in SUBSET (1..n) /\ 1 \in I /\ 1 \in Int /\ n \in Int
    BY <1>1
  <2> HIDE DEF I, n
  <2> QED  BY <2>1, LastOne
<1>3. last \in 1..n /\ (last > 1 => curve[last].temp <= temp)
  OBVIOUS
<1>4. last < n => temp < curve[last + 1].temp
  <2> SUFFICES ASSUME last < n
               PROVE  temp < curve[last + 1].temp
    OBVIOUS
  <2>1. last + 1 \in 1..n /\ last + 1 \notin I
    BY <1>1, <1>2, <1>3
  <2> QED  BY <2>1, <1>1, <1>3
<1>5. PointBelow(temp, curve) \in 1..n
  <2> HIDE DEF I
  <2> QED  BY <1>3, <1>4 DEF PointBelow
<1> QED  BY <1>1, <1>5 DEF pickBucketIndex

\* The limits of an offset at a point, and what an offset keeps to.
Lowest(curve, i) ==
  IF curve[1].rpm - curve[i].rpm <= -OffsetCap THEN -OffsetCap
  ELSE curve[1].rpm - curve[i].rpm
Highest(curve, i) ==
  IF curve[Len(curve)].rpm - curve[i].rpm <= OffsetCap
    THEN curve[Len(curve)].rpm - curve[i].rpm ELSE OffsetCap
Fits(offset, curve, i) == Lowest(curve, i) <= offset /\ offset <= Highest(curve, i)
Obeys(offset, bias) ==
  (bias = "quiet" => offset <= 0) /\ (bias = "cooling" => offset >= 0)

Fitting(curve) == {o \in [1..Len(curve) -> Int] : \A i \in 1..Len(curve) : Fits(o[i], curve, i)}
Learned(curve, bias) == {o \in Fitting(curve) : \A i \in 1..Len(curve) : Obeys(o[i], bias)}

\* Every point may keep its speed: 0 is within its limits.
LEMMA Limits ==
    ASSUME NEW curve \in FanCurves, NEW i \in 1..Len(curve)
    PROVE  /\ Lowest(curve, i) \in Int /\ Highest(curve, i) \in Int
           /\ Lowest(curve, i) <= 0 /\ 0 <= Highest(curve, i)
<1>1. /\ curve[1].rpm <= curve[i].rpm /\ curve[i].rpm <= curve[Len(curve)].rpm
      /\ curve[1].rpm \in Nat /\ curve[i].rpm \in Nat /\ curve[Len(curve)].rpm \in Nat
  <2>1. 1 \in 1..Len(curve) /\ i \in 1..Len(curve) /\ Len(curve) \in i..Len(curve)
    BY CurveType
  <2> QED  BY <2>1, CurveRises, CurveType
<1> DEFINE low == curve[1].rpm
           own == curve[i].rpm
           top == curve[Len(curve)].rpm
<1>2. low \in Nat /\ own \in Nat /\ top \in Nat /\ low <= own /\ own <= top
  BY <1>1
<1>3. /\ Lowest(curve, i) = IF low - own <= -OffsetCap THEN -OffsetCap ELSE low - own
      /\ Highest(curve, i) = IF top - own <= OffsetCap THEN top - own ELSE OffsetCap
  BY DEF Lowest, Highest
<1> HIDE DEF low, own, top
<1> QED  BY <1>2, <1>3, SmartCurveAssumption

\* The limits keep an offset within the cap, and its point within the curve.
LEMMA WithinCurve ==
    ASSUME NEW curve \in FanCurves, NEW i \in 1..Len(curve), NEW offset \in Int,
           Fits(offset, curve, i)
    PROVE  /\ curve[1].rpm \in Nat /\ curve[i].rpm \in Nat /\ curve[Len(curve)].rpm \in Nat
           /\ offset <= OffsetCap
           /\ curve[1].rpm <= curve[i].rpm + offset
           /\ curve[i].rpm + offset <= curve[Len(curve)].rpm
           /\ curve[i].rpm + offset \in Nat
<1> DEFINE low == curve[1].rpm
           own == curve[i].rpm
           top == curve[Len(curve)].rpm
<1>1. low \in Nat /\ own \in Nat /\ top \in Nat
  <2>1. 1 \in 1..Len(curve) /\ Len(curve) \in 1..Len(curve)
    BY CurveType
  <2> QED  BY <2>1, CurveType
<1>2. /\ (IF low - own <= -OffsetCap THEN -OffsetCap ELSE low - own) <= offset
      /\ offset <= (IF top - own <= OffsetCap THEN top - own ELSE OffsetCap)
  BY DEF Fits, Lowest, Highest
<1> HIDE DEF low, own, top
<1>3. offset <= OffsetCap /\ low <= own + offset /\ own + offset <= top /\ own + offset \in Nat
  BY <1>1, <1>2, SmartCurveAssumption
<1> QED  BY <1>1, <1>3 DEF low, own, top

\* Clamping brings an offset within its limits, and one within them it leaves.
LEMMA ClampFits ==
    ASSUME NEW curve \in FanCurves, NEW i \in 1..Len(curve), NEW offset \in Int
    PROVE  LET clamped == clampOffsetForPoint(offset, curve[i].rpm, curve)
           IN  /\ clamped \in Int /\ Fits(clamped, curve, i)
               /\ Fits(offset, curve, i) => clamped = offset
<1>1. /\ curve[1].rpm \in Nat /\ curve[i].rpm \in Nat /\ curve[Len(curve)].rpm \in Nat
      /\ -OffsetCap \in Int /\ OffsetCap \in Int
  BY CurveType, SmartCurveAssumption
<1>2. Max({LowestRPM(curve) - curve[i].rpm, -OffsetCap}) = Lowest(curve, i)
  <2> DEFINE down == curve[1].rpm - curve[i].rpm
  <2>1. down \in Int
    BY <1>1
  <2>2. Max({down, -OffsetCap}) = IF down <= -OffsetCap THEN -OffsetCap ELSE down
    <3> HIDE DEF down
    <3> QED  BY <1>1, <2>1, OfTwo
  <2> QED  BY <2>2, CurveEnds DEF Lowest
<1>3. Min({HighestRPM(curve) - curve[i].rpm, OffsetCap}) = Highest(curve, i)
  <2> DEFINE up == curve[Len(curve)].rpm - curve[i].rpm
  <2>1. up \in Int
    BY <1>1
  <2>2. Min({up, OffsetCap}) = IF up <= OffsetCap THEN up ELSE OffsetCap
    <3> HIDE DEF up
    <3> QED  BY <1>1, <2>1, OfTwo
  <2> QED  BY <2>2, CurveEnds DEF Highest
<1>4. clampOffsetForPoint(offset, curve[i].rpm, curve)
        = clampInt(offset, Lowest(curve, i), Highest(curve, i))
  BY <1>2, <1>3, Limits DEF clampOffsetForPoint
<1> QED  BY <1>4, Limits DEF clampInt, Fits

\* The learning bias cuts an offset to zero or leaves it.
LEMMA BiasFits ==
    ASSUME NEW curve \in FanCurves, NEW bias \in Biases, NEW o \in Fitting(curve)
    PROVE  constrainOffsetsToLearningBias(o, bias) \in Learned(curve, bias)
<1> DEFINE n == Len(curve)
           b == constrainOffsetsToLearningBias(o, bias)
<1>1. o \in [1..n -> Int] /\ \A i \in 1..n : Fits(o[i], curve, i)
  BY DEF Fitting
<1>2. b = [i \in 1..n |-> b[i]]
  BY <1>1 DEF constrainOffsetsToLearningBias
<1>3. ASSUME NEW i \in 1..n
      PROVE  b[i] \in Int /\ Fits(b[i], curve, i) /\ Obeys(b[i], bias)
  <2>1. Max({o[i], 0}) = (IF o[i] <= 0 THEN 0 ELSE o[i])
          /\ Min({o[i], 0}) = (IF o[i] <= 0 THEN o[i] ELSE 0)
    <3>1. o[i] \in Int /\ 0 \in Int
      BY <1>1
    <3> QED  BY <3>1, OfTwo
  <2>2. b[i] = IF bias = "cooling" THEN Max({o[i], 0})
               ELSE IF bias = "quiet" THEN Min({o[i], 0}) ELSE o[i]
    BY <1>1 DEF constrainOffsetsToLearningBias
  <2>3. b[i] \in {o[i], 0} /\ Obeys(b[i], bias)
    <3> QED  BY <2>1, <2>2, <1>1 DEF Obeys, Biases
  <2> QED  BY <2>3, <1>1, Limits DEF Fits
<1>4. b \in [1..n -> Int]
  <2> QED  BY <1>2, <1>3
<1> QED  BY <1>3, <1>4 DEF Learned, Fitting

\* An offset that obeys the bias is not touched by it.
LEMMA BiasLeaves ==
    ASSUME NEW curve \in FanCurves, NEW bias \in Biases, NEW o \in Learned(curve, bias)
    PROVE  constrainOffsetsToLearningBias(o, bias) = o
<1> DEFINE n == Len(curve)
           b == constrainOffsetsToLearningBias(o, bias)
<1>1. o \in [1..n -> Int] /\ \A i \in 1..n : Obeys(o[i], bias)
  BY DEF Learned, Fitting
<1>2. ASSUME NEW i \in 1..n
      PROVE  b[i] = o[i]
  <2>1. Max({o[i], 0}) = (IF o[i] <= 0 THEN 0 ELSE o[i])
          /\ Min({o[i], 0}) = (IF o[i] <= 0 THEN o[i] ELSE 0)
    <3>1. o[i] \in Int /\ 0 \in Int
      BY <1>1
    <3> QED  BY <3>1, OfTwo
  <2>2. b[i] = IF bias = "cooling" THEN Max({o[i], 0})
               ELSE IF bias = "quiet" THEN Min({o[i], 0}) ELSE o[i]
    BY <1>1 DEF constrainOffsetsToLearningBias
  <2> QED  BY <2>1, <2>2, <1>1 DEF Obeys
<1>3. b = [i \in 1..n |-> b[i]]
  BY <1>1 DEF constrainOffsetsToLearningBias
<1>4. o = [i \in 1..n |-> o[i]]
  BY <1>1
<1>5. [i \in 1..n |-> b[i]] = [i \in 1..n |-> o[i]]
  <2> QED  BY <1>2
<1> QED  BY <1>3, <1>4, <1>5

\* The blend of three integers is an integer.
LEMMA BlendIsInt ==
    ASSUME NEW own \in Int, NEW left \in Int, NEW right \in Int
    PROVE  Blend(own, left, right) \in Int
<1> DEFINE sum == 14 * own + 3 * left + 3 * right
<1>1. sum \in Int
  OBVIOUS
<1>2. (sum + 10) \div 20 \in Int /\ -((10 - sum) \div 20) \in Int
  <2> HIDE DEF sum
  <2> QED  BY <1>1
<1> QED  BY <1>2 DEF Blend

\* One pass of the smoothing keeps the offsets within their limits.
LEMMA PassFits ==
    ASSUME NEW curve \in FanCurves, NEW o \in Fitting(curve),
           NEW lo \in Int, NEW hi \in Int, 2 <= lo, hi <= Len(curve) - 1
    PROVE  SmoothPass(curve, o, lo, hi) \in Fitting(curve)
<1> DEFINE n == Len(curve)
           s == SmoothPass(curve, o, lo, hi)
<1>1. n \in Nat /\ o \in [1..n -> Int] /\ \A i \in 1..n : Fits(o[i], curve, i)
  BY CurveType DEF Fitting
<1>2. s = [i \in 1..n |-> s[i]]
  BY <1>1 DEF SmoothPass
<1>3. ASSUME NEW i \in 1..n
      PROVE  s[i] \in Int /\ Fits(s[i], curve, i)
  <2> DEFINE target == Blend(o[i], o[i - 1], o[i + 1])
             limited == clampInt(target, o[i] - PullLimit, o[i] + PullLimit)
  <2>1. CASE i \notin lo..hi
    <3>1. s[i] = o[i]
      BY <1>1, <2>1 DEF SmoothPass
    <3> QED  BY <3>1, <1>1
  <2>2. CASE i \in lo..hi
    <3>1. i - 1 \in 1..n /\ i + 1 \in 1..n
      BY <1>1, <2>2
    <3>2. o[i] \in Int /\ o[i - 1] \in Int /\ o[i + 1] \in Int
      BY <1>1, <3>1
    <3>3. target \in Int
      BY <3>2, BlendIsInt
    <3>4. limited \in Int
      <4> DEFINE own == o[i]
      <4>1. own \in Int /\ limited = clampInt(target, own - PullLimit, own + PullLimit)
        BY <3>2
      <4> HIDE DEF own, target, limited
      <4> QED  BY <3>3, <4>1, SmartCurveAssumption DEF clampInt
    <3>5. s[i] = clampOffsetForPoint(limited, curve[i].rpm, curve)
      BY <1>1, <2>2 DEF SmoothPass
    <3> HIDE DEF limited
    <3> QED  BY <3>4, <3>5, ClampFits
  <2> QED  BY <2>1, <2>2
<1> QED  BY <1>2, <1>3 DEF Fitting

\* So does the smoothing.
LEMMA SmoothFits ==
    ASSUME NEW curve \in FanCurves, NEW o \in Fitting(curve), NEW center \in Int
    PROVE  smoothOffsetsAroundWithPullLimit(curve, o, center) \in Fitting(curve)
<1> DEFINE lo == Max({center - SmoothRadius, 2})
           hi == Min({center + SmoothRadius, Len(curve) - 1})
           S == Fitting(curve)
           Steps(pass) == pass = [k \in 0..SmoothPasses |->
                                    IF k = 0 THEN o ELSE SmoothPass(curve, pass[k - 1], lo, hi)]
           all == CHOOSE pass : Steps(pass)
           step == [p \in (1..SmoothPasses) \X S |-> SmoothPass(curve, p[2], lo, hi)]
<1>1. lo \in Int /\ hi \in Int /\ 2 <= lo /\ hi <= Len(curve) - 1
  <2> DEFINE left == center - SmoothRadius
             right == center + SmoothRadius
             end == Len(curve) - 1
  <2>1. left \in Int /\ right \in Int /\ end \in Int /\ 2 \in Int
    BY CurveType, SmartCurveAssumption
  <2> HIDE DEF left, right, end
  <2>2. Max({left, 2}) \in Int /\ 2 <= Max({left, 2})
    <3>1. Max({left, 2}) = IF left <= 2 THEN 2 ELSE left
      BY <2>1, OfTwo
    <3> QED  BY <2>1, <3>1
  <2>3. Min({right, end}) \in Int /\ Min({right, end}) <= end
    BY <2>1, OfTwo
  <2> QED  BY <2>2, <2>3 DEF left, right, end
<1>2. SmoothPasses \in Nat
  BY SmartCurveAssumption
<1> HIDE DEF lo, hi
<1>3. ASSUME NEW offsets \in S
      PROVE  SmoothPass(curve, offsets, lo, hi) \in S
  BY <1>1, PassFits
<1> HIDE DEF S
<1>4. o \in S
  BY DEF S
<1>5. \E pass : Steps(pass)
  <2>1. \A i \in 1..SmoothPasses, offsets \in S : step[<<i, offsets>>] \in S
    BY <1>3
  <2>2. PICK g \in [0..SmoothPasses -> S] :
          g[0] = o /\ \A i \in 1..SmoothPasses : g[i] = step[<<i, g[i - 1]>>]
    <3>1. 0 \in Int /\ SmoothPasses \in Int /\ 1 \in Int /\ 0 <= SmoothPasses /\ 1 = 0 + 1
      BY <1>2
    <3> HIDE DEF step
    <3>2. Buildable(0, SmoothPasses, 1, S, o, step)
      BY <3>1, <2>1, <1>4, Builds
    <3> QED  BY <3>2 DEF Buildable
  <2>3. ASSUME NEW k \in 0..SmoothPasses
        PROVE  g[k] = IF k = 0 THEN o ELSE SmoothPass(curve, g[k - 1], lo, hi)
    <3>1. CASE k = 0
      BY <3>1, <2>2
    <3>2. CASE k # 0
      <4>1. k \in 1..SmoothPasses /\ k - 1 \in 0..SmoothPasses
        BY <3>2, <1>2
      <4>2. g[k - 1] \in S
        BY <4>1, <2>2
      <4>3. step[<<k, g[k - 1]>>] = SmoothPass(curve, g[k - 1], lo, hi)
        BY <4>1, <4>2
      <4> HIDE DEF step
      <4> QED  BY <4>1, <4>3, <3>2, <2>2
    <3> QED  BY <3>1, <3>2
  <2>4. g = [k \in 0..SmoothPasses |-> g[k]]
    BY <2>2
  <2>5. [k \in 0..SmoothPasses |-> g[k]]
          = [k \in 0..SmoothPasses |->
               IF k = 0 THEN o ELSE SmoothPass(curve, g[k - 1], lo, hi)]
    BY <2>3
  <2>6. Steps(g)
    BY <2>4, <2>5
  <2> QED  BY <2>6
<1>6. Steps(all)
  <2> HIDE DEF Steps
  <2> QED  BY <1>5
<1>7. all[SmoothPasses] \in S
  <2> DEFINE I == {k \in 0..SmoothPasses : all[k] \in S}
  <2> HIDE DEF all
  <2>1. 0 \in I
    BY <1>2, <1>4, <1>6
  <2>2. ASSUME NEW k \in 1..SmoothPasses, k - 1 \in I
        PROVE  k \in I
    <3>1. all[k] = SmoothPass(curve, all[k - 1], lo, hi)
      BY <1>2, <1>6
    <3> QED  BY <3>1, <2>2, <1>3
  <2>3. 0..SmoothPasses \subseteq I
    <3>1. 0 \in Int /\ SmoothPasses \in Int /\ 1 \in Int /\ 1 = 0 + 1
      BY <1>2
    <3> HIDE DEF I
    <3> QED  BY <3>1, <2>1, <2>2, Climbs
  <2> QED  BY <2>3, <1>2
<1>8. smoothOffsetsAroundWithPullLimit(curve, o, center) = all[SmoothPasses]
  BY DEF smoothOffsetsAroundWithPullLimit, lo, hi
<1> QED  BY <1>7, <1>8 DEF S

\* Offsets whose speeds do not fall along the curve.
Rising(curve, o) ==
  \A i \in 2..Len(curve) : curve[i - 1].rpm + o[i - 1] <= curve[i].rpm + o[i]

\* The offset of point i after the monotone pass, when the one before it is `prev`.
RaisedTo(curve, o, i, prev) ==
  LET before == curve[i - 1].rpm + prev
  IN  IF curve[i].rpm + o[i] < before
        THEN clampOffsetForPoint(before - curve[i].rpm, curve[i].rpm, curve)
        ELSE o[i]

\* To raise a point to the one before it needs no more than the limits allow, and
\* never goes against the bias.
LEMMA RaisedFits ==
    ASSUME NEW curve \in FanCurves, NEW bias \in Biases, NEW o \in Learned(curve, bias),
           NEW i \in 2..Len(curve), NEW prev \in Int,
           Fits(prev, curve, i - 1), Obeys(prev, bias)
    PROVE  LET v == RaisedTo(curve, o, i, prev)
           IN  /\ v \in Int /\ Fits(v, curve, i) /\ Obeys(v, bias)
               /\ curve[i - 1].rpm + prev <= curve[i].rpm + v
<1> DEFINE n == Len(curve)
           v == RaisedTo(curve, o, i, prev)
           needed == (curve[i - 1].rpm + prev) - curve[i].rpm
<1>1. /\ i \in 1..n /\ i - 1 \in 1..n
      /\ curve[1].rpm \in Nat /\ curve[n].rpm \in Nat
      /\ curve[i].rpm \in Nat /\ curve[i - 1].rpm \in Nat
      /\ curve[i - 1].rpm <= curve[i].rpm
  <2>1. i \in 1..n /\ i - 1 \in 1..n /\ 1 \in 1..n /\ n \in 1..n
    BY CurveType
  <2> QED  BY <2>1, CurveType
<1>2. o[i] \in Int /\ Fits(o[i], curve, i) /\ Obeys(o[i], bias)
  BY <1>1 DEF Learned, Fitting
<1>3. CASE ~(curve[i].rpm + o[i] < curve[i - 1].rpm + prev)
  <2>1. v = o[i]
    BY <1>3 DEF RaisedTo
  <2>2. curve[i - 1].rpm + prev <= curve[i].rpm + o[i]
    <3> DEFINE reached == curve[i].rpm + o[i]
               before == curve[i - 1].rpm
    <3>1. reached \in Int /\ before \in Int
      <4>1. curve[i].rpm \in Int /\ before \in Int
        BY <1>1
      <4> HIDE DEF before
      <4> QED  BY <1>2, <4>1
    <3>2. ~(reached < before + prev)
      BY <1>3
    <3> HIDE DEF reached, before
    <3>3. before + prev <= reached
      BY <3>1, <3>2
    <3> QED  BY <3>3 DEF reached, before
  <2> QED  BY <1>2, <2>1, <2>2
<1>4. CASE curve[i].rpm + o[i] < curve[i - 1].rpm + prev
  <2>1. needed \in Int /\ o[i] < needed /\ needed <= prev
    <3> DEFINE before == curve[i - 1].rpm
               base == curve[i].rpm
               own == o[i]
    <3>1. before \in Nat /\ base \in Nat /\ before <= base /\ own \in Int /\ base + own < before + prev
      BY <1>1, <1>2, <1>4
    <3> HIDE DEF before, base, own
    <3>2. LET d == (before + prev) - base IN d \in Int /\ own < d /\ d <= prev
      BY <3>1
    <3> QED  BY <3>2 DEF before, base, own
  <2>2. Fits(needed, curve, i)
    <3>1. Lowest(curve, i) <= needed
      BY <1>1, <1>2, <2>1, Limits DEF Fits
    <3> DEFINE before == curve[i - 1].rpm
               own == curve[i].rpm
               top == curve[n].rpm
    <3>2. /\ before \in Nat /\ own \in Nat /\ top \in Nat
          /\ prev <= OffsetCap /\ before + prev <= top
      BY <1>1, WithinCurve
    <3>3. needed = (before + prev) - own
      OBVIOUS
    <3>4. needed <= OffsetCap /\ needed <= top - own
      <4> HIDE DEF needed, before, own, top
      <4> QED  BY <2>1, <3>2, <3>3, SmartCurveAssumption
    <3>5. needed <= Highest(curve, i)
      BY <3>4 DEF Highest
    <3> QED  BY <3>1, <3>5 DEF Fits
  <2>3. v = needed
    <3>1. v = clampOffsetForPoint(needed, curve[i].rpm, curve)
      BY <1>4 DEF RaisedTo
    <3> HIDE DEF v, needed
    <3> QED  BY <1>1, <2>1, <2>2, <3>1, ClampFits
  <2>4. Obeys(needed, bias)
    BY <1>2, <2>1 DEF Obeys
  <2>5. curve[i - 1].rpm + prev <= curve[i].rpm + needed
    <3> DEFINE before == curve[i - 1].rpm
               own == curve[i].rpm
    <3>1. before \in Nat /\ own \in Nat
      BY <1>1
    <3> HIDE DEF before, own
    <3>2. before + prev <= own + ((before + prev) - own)
      BY <3>1
    <3> QED  BY <3>2 DEF before, own
  <2> QED  BY <2>1, <2>2, <2>3, <2>4, <2>5
<1> QED  BY <1>3, <1>4

\* The monotone pass answers with offsets that are learned, and rising.
LEMMA MonotoneFits ==
    ASSUME NEW curve \in FanCurves, NEW bias \in Biases, NEW o \in Learned(curve, bias)
    PROVE  LET r == enforceMonotonicWithOffsets(curve, o)
           IN  r \in Learned(curve, bias) /\ Rising(curve, r)
<1> DEFINE n == Len(curve)
           Steps(r) == r = [i \in 1..n |-> IF i = 1 THEN o[1] ELSE RaisedTo(curve, o, i, r[i - 1])]
           all == CHOOSE r : Steps(r)
           step == [p \in (2..n) \X Int |-> RaisedTo(curve, o, p[1], p[2])]
<1>1. n \in Nat /\ n >= 2 /\ curve \in [1..n -> [temp : Nat, rpm : Nat]]
  BY CurveType
<1>2. o \in [1..n -> Int] /\ \A i \in 1..n : Fits(o[i], curve, i) /\ Obeys(o[i], bias)
  BY DEF Learned, Fitting
<1> HIDE DEF n
<1>3. ASSUME NEW i \in 2..n, NEW prev \in Int
      PROVE  RaisedTo(curve, o, i, prev) \in Int
  <2>1. i \in 1..n /\ i - 1 \in 1..n
    BY <1>1
  <2>2. curve[i].rpm \in Int /\ curve[i - 1].rpm \in Int /\ o[i] \in Int
    BY <1>1, <1>2, <2>1
  <2>3. (curve[i - 1].rpm + prev) - curve[i].rpm \in Int
    BY <2>2
  <2>4. clampOffsetForPoint((curve[i - 1].rpm + prev) - curve[i].rpm,
                            curve[i].rpm, curve) \in Int
    BY <2>1, <2>3, ClampFits DEF n
  <2> QED  BY <2>2, <2>4 DEF RaisedTo
<1>4. \E r : Steps(r)
  <2>1. \A i \in 2..n, prev \in Int : step[<<i, prev>>] \in Int
    BY <1>3
  <2>2. PICK g \in [1..n -> Int] :
          g[1] = o[1] /\ \A i \in 2..n : g[i] = step[<<i, g[i - 1]>>]
    <3>1. 1 \in Int /\ n \in Int /\ 2 \in Int /\ 1 <= n /\ 2 = 1 + 1 /\ o[1] \in Int
      BY <1>1, <1>2
    <3> HIDE DEF step
    <3>2. Buildable(1, n, 2, Int, o[1], step)
      BY <3>1, <2>1, Builds
    <3> QED  BY <3>2 DEF Buildable
  <2>3. ASSUME NEW i \in 1..n
        PROVE  g[i] = IF i = 1 THEN o[1] ELSE RaisedTo(curve, o, i, g[i - 1])
    <3>1. CASE i = 1
      BY <3>1, <2>2
    <3>2. CASE i # 1
      <4>1. i \in 2..n /\ i - 1 \in 1..n
        BY <3>2, <1>1
      <4>2. g[i - 1] \in Int
        BY <4>1, <2>2
      <4>3. step[<<i, g[i - 1]>>] = RaisedTo(curve, o, i, g[i - 1])
        BY <4>1, <4>2
      <4> HIDE DEF step
      <4> QED  BY <4>1, <4>3, <3>2, <2>2
    <3> QED  BY <3>1, <3>2
  <2>4. g = [i \in 1..n |-> g[i]]
    BY <2>2
  <2>5. [i \in 1..n |-> g[i]]
          = [i \in 1..n |-> IF i = 1 THEN o[1] ELSE RaisedTo(curve, o, i, g[i - 1])]
    BY <2>3
  <2>6. Steps(g)
    BY <2>4, <2>5
  <2> QED  BY <2>6
<1>5. Steps(all)
  <2> HIDE DEF Steps
  <2> QED  BY <1>4
<1>6. enforceMonotonicWithOffsets(curve, o) = all
  BY DEF enforceMonotonicWithOffsets, RaisedTo, n
<1> HIDE DEF all
<1>7. /\ all = [i \in 1..n |-> all[i]]
      /\ all[1] = o[1]
      /\ \A i \in 2..n : all[i] = RaisedTo(curve, o, i, all[i - 1])
  <2>1. all = [i \in 1..n |-> IF i = 1 THEN o[1] ELSE RaisedTo(curve, o, i, all[i - 1])]
    BY <1>5
  <2>2. \A i \in 1..n : all[i] = IF i = 1 THEN o[1] ELSE RaisedTo(curve, o, i, all[i - 1])
    BY <2>1
  <2>3. all = [i \in 1..n |-> all[i]]
    BY <2>1
  <2>4. 1 \in 1..n /\ \A i \in 2..n : i \in 1..n /\ i # 1
    BY <1>1
  <2> QED  BY <2>2, <2>3, <2>4
<1>8. \A i \in 1..n : all[i] \in Int /\ Fits(all[i], curve, i) /\ Obeys(all[i], bias)
  <2> DEFINE I == {i \in 1..n : all[i] \in Int /\ Fits(all[i], curve, i) /\ Obeys(all[i], bias)}
  <2>1. 1 \in I
    <3>1. 1 \in 1..n
      BY <1>1
    <3>2. o[1] \in Int /\ Fits(o[1], curve, 1) /\ Obeys(o[1], bias)
      BY <3>1, <1>2
    <3> QED  BY <3>1, <3>2, <1>7
  <2>2. ASSUME NEW i \in 2..n, i - 1 \in I
        PROVE  i \in I
    <3>1. i \in 1..n
      BY <1>1
    <3>2. all[i - 1] \in Int /\ Fits(all[i - 1], curve, i - 1) /\ Obeys(all[i - 1], bias)
      BY <2>2
    <3>3. all[i] = RaisedTo(curve, o, i, all[i - 1])
      BY <1>7
    <3> QED  BY <3>1, <3>2, <3>3, RaisedFits DEF n
  <2>3. 1..n \subseteq I
    <3>1. 1 \in Int /\ n \in Int /\ 2 \in Int /\ 2 = 1 + 1
      BY <1>1
    <3> HIDE DEF I
    <3> QED  BY <3>1, <2>1, <2>2, Climbs
  <2> QED  BY <2>3
<1>9. all \in Learned(curve, bias)
  <2>1. all \in [1..n -> Int]
    BY <1>7, <1>8
  <2> QED  BY <2>1, <1>8 DEF Learned, Fitting, n
<1>10. Rising(curve, all)
  <2> SUFFICES ASSUME NEW i \in 2..n
               PROVE  curve[i - 1].rpm + all[i - 1] <= curve[i].rpm + all[i]
    BY DEF Rising, n
  <2>1. i - 1 \in 1..n
    BY <1>1
  <2>2. all[i] = RaisedTo(curve, o, i, all[i - 1])
    BY <1>7
  <2> QED  BY <2>1, <2>2, <1>8, RaisedFits DEF n
<1> QED  BY <1>6, <1>9, <1>10

\* The control path clips no offset that is learned and rising.
LEMMA NothingClipped ==
    ASSUME NEW curve \in FanCurves, NEW bias \in Biases, NEW r \in Learned(curve, bias),
           Rising(curve, r), NEW i \in 1..Len(curve)
    PROVE  EffectiveCurve(curve, r, bias)[i] = curve[i].rpm + r[i]
<1> DEFINE n == Len(curve)
           speed(j) == curve[j].rpm + r[j]
           own(j) == clampInt(curve[j].rpm + clampOffsetForPoint(r[j], curve[j].rpm, curve),
                              LowestRPM(curve), HighestRPM(curve))
<1>1. n \in Nat /\ n >= 2 /\ curve \in [1..n -> [temp : Nat, rpm : Nat]] /\ i \in 1..n
  BY CurveType
<1>2. r \in [1..n -> Int] /\ \A j \in 1..n : Fits(r[j], curve, j)
  BY DEF Learned, Fitting
<1>3. ASSUME NEW j \in 1..n
      PROVE  own(j) = speed(j) /\ speed(j) \in Int
  <2>1. r[j] \in Int /\ Fits(r[j], curve, j)
    BY <1>2
  <2>2. clampOffsetForPoint(r[j], curve[j].rpm, curve) = r[j]
    BY <2>1, ClampFits
  <2>3. curve[j].rpm \in Nat /\ curve[1].rpm \in Nat /\ curve[n].rpm \in Nat
    BY <2>1, WithinCurve
  <2>4. curve[1].rpm <= speed(j) /\ speed(j) <= curve[n].rpm /\ speed(j) \in Nat
    BY <2>1, WithinCurve
  <2>5. own(j) = clampInt(speed(j), curve[1].rpm, curve[n].rpm)
    BY <2>2, CurveEnds
  <2>6. clampInt(speed(j), curve[1].rpm, curve[n].rpm) = speed(j)
    <3>1. speed(j) \in Int
      BY <2>4
    <3> HIDE DEF speed
    <3> QED  BY <2>3, <2>4, <3>1 DEF clampInt
  <2> QED  BY <2>4, <2>5, <2>6
<1>4. ASSUME NEW j \in 1..i
      PROVE  speed(j) <= speed(i)
  <2> DEFINE I == {k \in j..i : speed(j) <= speed(k)}
             next == j + 1
  <2>1. j \in I /\ j \in Int /\ i \in Int /\ next \in Int
    BY <1>1, <1>3
  <2>2. ASSUME NEW k \in next..i, k - 1 \in I
        PROVE  k \in I
    <3>1. k \in 2..n /\ k \in j..i /\ k \in 1..n /\ k - 1 \in 1..n /\ j \in 1..n
      BY <1>1
    <3>2. speed(k - 1) <= speed(k) /\ speed(j) <= speed(k - 1)
      BY <3>1, <2>2 DEF Rising
    <3>3. speed(k - 1) \in Int /\ speed(k) \in Int /\ speed(j) \in Int
      BY <3>1, <1>3
    <3> HIDE DEF speed
    <3> QED  BY <3>1, <3>2, <3>3
  <2>3. j..i \subseteq I
    <3> HIDE DEF I
    <3> QED  BY <2>1, <2>2, Climbs
  <2> QED  BY <2>3, <1>1
<1>5. EffectiveCurve(curve, r, bias)[i] = Max({own(j) : j \in 1..i})
  <2> DEFINE biased == constrainOffsetsToLearningBias(r, bias)
             first(j) == clampInt(curve[j].rpm + clampOffsetForPoint(biased[j], curve[j].rpm, curve),
                                  LowestRPM(curve), HighestRPM(curve))
  <2>1. EffectiveCurve(curve, r, bias)[i] = Max({first(j) : j \in 1..i})
    BY <1>1 DEF EffectiveCurve
  <2>2. biased = r
    BY BiasLeaves
  <2>3. \A j \in 1..i : first(j) = own(j)
    BY <2>2
  <2>4. {first(j) : j \in 1..i} = {own(j) : j \in 1..i}
    <3> HIDE DEF first, own
    <3> QED  BY <2>3
  <2> QED  BY <2>1, <2>4
<1>6. {own(j) : j \in 1..i} = {speed(j) : j \in 1..i}
  <2>1. \A j \in 1..i : own(j) = speed(j)
    BY <1>1, <1>3
  <2> HIDE DEF own, speed
  <2> QED  BY <2>1
<1>7. Max({speed(j) : j \in 1..i}) = speed(i)
  <2> DEFINE S == {speed(j) : j \in 1..i}
  <2>1. S \in SUBSET Int /\ speed(i) \in S /\ \A x \in S : x <= speed(i)
    <3>1. i \in 1..i /\ \A j \in 1..i : j \in 1..n
      BY <1>1
    <3>2. \A j \in 1..i : speed(j) \in Int /\ speed(j) <= speed(i)
      BY <3>1, <1>3, <1>4
    <3> HIDE DEF speed
    <3> QED  BY <3>1, <3>2
  <2> HIDE DEF S
  <2>2. Max(S) = speed(i)
    BY <2>1, MaxIs
  <2> QED  BY <2>2 DEF S
<1> QED  BY <1>5, <1>6, <1>7

\* What has been learned keeps to the limits and the bias; a step that is not zero
\* leaves speeds that rise along the curve.
LEMMA LearnFits ==
    ASSUME NEW curve \in FanCurves, NEW bias \in Biases, NEW o \in Learned(curve, bias),
           NEW idx \in 1..Len(curve), NEW delta \in Int
    PROVE  LET r == LearnSteadyOffset(curve, o, bias, idx, delta)
           IN  r \in Learned(curve, bias) /\ (delta # 0 => Rising(curve, r))
<1> DEFINE n == Len(curve)
           own == clampOffsetForPoint(o[idx] + delta, curve[idx].rpm, curve)
           stepped == [o EXCEPT ![idx] = own]
           biased == constrainOffsetsToLearningBias(stepped, bias)
           smooth == smoothOffsetsAroundWithPullLimit(curve, biased, idx)
           kept == constrainOffsetsToLearningBias(smooth, bias)
<1>1. CASE delta = 0
  BY <1>1 DEF LearnSteadyOffset
<1>2. CASE delta # 0
  <2>1. n \in Nat /\ o \in [1..n -> Int] /\ \A i \in 1..n : Fits(o[i], curve, i)
    BY CurveType DEF Learned, Fitting
  <2>2. own \in Int /\ Fits(own, curve, idx)
    <3>1. o[idx] + delta \in Int
      BY <2>1
    <3> QED  BY <3>1, ClampFits
  <2>3. stepped \in Fitting(curve)
    <3> HIDE DEF own
    <3>1. stepped \in [1..n -> Int]
      BY <2>1, <2>2
    <3>2. \A i \in 1..n : Fits(stepped[i], curve, i)
      BY <2>1, <2>2
    <3> QED  BY <3>1, <3>2 DEF Fitting
  <2> HIDE DEF stepped
  <2>4. biased \in Fitting(curve)
    BY <2>3, BiasFits DEF Learned
  <2>5. idx \in Int
    BY <2>1
  <2> HIDE DEF biased
  <2>6. smooth \in Fitting(curve)
    BY <2>4, <2>5, SmoothFits
  <2> HIDE DEF smooth
  <2>7. kept \in Learned(curve, bias)
    BY <2>6, BiasFits
  <2>8. LearnSteadyOffset(curve, o, bias, idx, delta) = enforceMonotonicWithOffsets(curve, kept)
    BY <1>2 DEF LearnSteadyOffset, own, stepped, biased, smooth
  <2> QED  BY <2>7, <2>8, MonotoneFits
<1> QED  BY <1>1, <1>2

\* What the configuration makes of any offsets keeps to the limits and the bias.
LEMMA NormalizeFits ==
    ASSUME NEW curve \in FanCurves, NEW bias \in Biases, NEW o \in Seq(Int)
    PROVE  NormalizeOffsets(o, curve, bias) \in Learned(curve, bias)
<1> DEFINE n == Len(curve)
           sized == [i \in 1..n |-> IF i \in DOMAIN o THEN o[i] ELSE 0]
           bounded == constrainOffsetsToCurveBounds(sized, curve)
<1>1. sized \in [1..n -> Int]
  OBVIOUS
<1> HIDE DEF sized
<1>2. bounded \in Fitting(curve)
  <2>1. \A i \in 1..n : sized[i] \in Int
    BY <1>1
  <2>2. bounded = [i \in 1..n |-> clampOffsetForPoint(sized[i], curve[i].rpm, curve)]
    BY DEF constrainOffsetsToCurveBounds
  <2>3. \A i \in 1..n : LET c == clampOffsetForPoint(sized[i], curve[i].rpm, curve)
                        IN  c \in Int /\ Fits(c, curve, i)
    BY <2>1, ClampFits
  <2> QED  BY <2>2, <2>3 DEF Fitting
<1> HIDE DEF bounded
<1>3. NormalizeOffsets(o, curve, bias) = constrainOffsetsToLearningBias(bounded, bias)
  BY DEF NormalizeOffsets, bounded, sized
<1> QED  BY <1>2, <1>3, BiasFits

\* Offsets of 0 obey every curve and every bias.
LEMMA ZeroFits ==
    ASSUME NEW curve \in FanCurves, NEW bias \in Biases
    PROVE  ZeroOffsets(curve) \in Learned(curve, bias)
<1>1. \A i \in 1..Len(curve) : Fits(0, curve, i)
  BY Limits DEF Fits
<1>2. Obeys(0, bias)
  BY DEF Obeys
<1> QED  BY <1>1, <1>2 DEF ZeroOffsets, Learned, Fitting

\* Learned offsets are a sequence of integers, as long as the curve.
LEMMA LearnedIsSeq ==
    ASSUME NEW curve \in FanCurves, NEW bias, NEW o \in Learned(curve, bias)
    PROVE  o \in Seq(Int) /\ Len(o) = Len(curve)
<1>1. Len(curve) \in Nat /\ o \in [1..Len(curve) -> Int]
  BY CurveType DEF Learned, Fitting
<1> QED  BY <1>1

-----------------------------------------------------------------------------
(* The mean of a window.                                                   *)

\* The sum of finitely many integers is an integer.
LEMMA SumIsInt ==
    ASSUME NEW n \in Nat, NEW f \in [1..n -> Int]
    PROVE  FoldFunction(+, 0, f) \in Int
<1> DEFINE D == 1..n
           S == SUBSET D
           pick(s) == CHOOSE x \in s : TRUE
           Body(iter, s) == IF s = {} THEN 0 ELSE f[pick(s)] + iter[s \ {pick(s)}]
           Steps(iter) == iter = [s \in S |-> Body(iter, s)]
           all == CHOOSE iter : Steps(iter)
           Small(k) == {s \in S : Cardinality(s) <= k}
           Good(k) == \E g \in [Small(k) -> Int] : \A s \in Small(k) : g[s] = Body(g, s)
<1>1. \A s \in S : IsFiniteSet(s) /\ Cardinality(s) \in 0..n
  <2>1. IsFiniteSet(D) /\ Cardinality(D) = n
    <3>1. 1 \in Int /\ n \in Int
      OBVIOUS
    <3>2. Cardinality(D) = IF 1 > n THEN 0 ELSE n - 1 + 1
      BY <3>1, FS_Interval
    <3> QED  BY <3>1, <3>2, FS_Interval
  <2> HIDE DEF D
  <2> SUFFICES ASSUME NEW s \in SUBSET D
               PROVE  IsFiniteSet(s) /\ Cardinality(s) \in 0..n
    OBVIOUS
  <2>2. IsFiniteSet(s) /\ Cardinality(s) <= n
    BY <2>1, FS_Subset
  <2>3. Cardinality(s) \in Nat
    BY <2>2, FS_CardinalityType
  <2> QED  BY <2>2, <2>3
<1>2. \A s \in S : s # {} => /\ pick(s) \in s /\ f[pick(s)] \in Int
                             /\ s \ {pick(s)} \in S
                             /\ Cardinality(s \ {pick(s)}) = Cardinality(s) - 1
  <2> SUFFICES ASSUME NEW s \in S, s # {}
               PROVE  /\ pick(s) \in s /\ f[pick(s)] \in Int /\ s \ {pick(s)} \in S
                      /\ Cardinality(s \ {pick(s)}) = Cardinality(s) - 1
    OBVIOUS
  <2>1. pick(s) \in s
    OBVIOUS
  <2>2. Cardinality(s \ {pick(s)}) = Cardinality(s) - 1
    BY <1>1, <2>1, FS_RemoveElement
  <2> QED  BY <2>1, <2>2
<1> HIDE DEF pick
<1>3. Good(0)
  <2> DEFINE g == [s \in Small(0) |-> 0]
  <2>1. \A s \in Small(0) : s = {}
    BY <1>1, FS_EmptySet
  <2>2. g \in [Small(0) -> Int] /\ \A s \in Small(0) : g[s] = Body(g, s)
    BY <2>1
  <2> QED  BY <2>2
<1>4. ASSUME NEW k \in 0..n, Good(k)
      PROVE  Good(k + 1)
  <2>1. PICK g \in [Small(k) -> Int] : \A s \in Small(k) : g[s] = Body(g, s)
    BY <1>4
  <2> DEFINE h == [s \in Small(k + 1) |-> Body(g, s)]
  <2>2. \A s \in Small(k + 1) : s # {} => s \ {pick(s)} \in Small(k) /\ s \ {pick(s)} \in Small(k + 1)
    <3> SUFFICES ASSUME NEW s \in S, Cardinality(s) <= k + 1, s # {}
                 PROVE  s \ {pick(s)} \in Small(k) /\ s \ {pick(s)} \in Small(k + 1)
      OBVIOUS
    <3> DEFINE rest == s \ {pick(s)}
    <3>1. rest \in S /\ Cardinality(rest) = Cardinality(s) - 1 /\ Cardinality(s) \in 0..n
      BY <1>1, <1>2
    <3> HIDE DEF rest, S
    <3>2. Cardinality(rest) <= k /\ Cardinality(rest) <= k + 1
      BY <3>1
    <3>3. rest \in Small(k) /\ rest \in Small(k + 1)
      BY <3>1, <3>2
    <3> QED  BY <3>3 DEF rest
  <2>3. h \in [Small(k + 1) -> Int]
    <3>1. \A s \in Small(k + 1) : Body(g, s) \in Int
      <4> SUFFICES ASSUME NEW s \in Small(k + 1)
                   PROVE  Body(g, s) \in Int
        OBVIOUS
      <4>1. CASE s = {}
        BY <4>1
      <4>2. CASE s # {}
        <5> DEFINE rest == s \ {pick(s)}
        <5>1. f[pick(s)] \in Int /\ rest \in Small(k)
          BY <4>2, <1>2, <2>2
        <5>2. g[rest] \in Int
          BY <5>1, <2>1
        <5>3. Body(g, s) = f[pick(s)] + g[rest]
          BY <4>2
        <5> HIDE DEF Body, rest
        <5> QED  BY <5>1, <5>2, <5>3
      <4> QED  BY <4>1, <4>2
    <3> HIDE DEF Body
    <3> QED  BY <3>1
  <2>4. ASSUME NEW s \in Small(k + 1)
        PROVE  h[s] = Body(h, s)
    <3>1. CASE s = {}
      BY <3>1
    <3>2. CASE s # {}
      <4> DEFINE rest == s \ {pick(s)}
      <4>1. rest \in Small(k) /\ rest \in Small(k + 1)
        BY <3>2, <2>2
      <4>2. h[rest] = g[rest]
        BY <4>1, <2>1
      <4>3. h[s] = f[pick(s)] + g[rest]
        BY <3>2
      <4> HIDE DEF h, rest
      <4>4. h[s] = f[pick(s)] + h[rest]
        BY <4>2, <4>3
      <4> QED  BY <3>2, <4>4 DEF rest
    <3> QED  BY <3>1, <3>2
  <2> HIDE DEF h, Body, Small
  <2> QED  BY <2>3, <2>4
<1>5. Good(n)
  <2> DEFINE I == {k \in 0..n : Good(k)}
  <2>1. 0 \in I
    <3>1. 0 \in 0..n
      OBVIOUS
    <3> HIDE DEF Good
    <3> QED  BY <3>1, <1>3
  <2>2. ASSUME NEW k \in 1..n, k - 1 \in I
        PROVE  k \in I
    <3>1. k - 1 \in 0..n /\ (k - 1) + 1 = k /\ k \in 0..n
      OBVIOUS
    <3>2. Good(k - 1)
      BY <2>2
    <3>3. Good((k - 1) + 1)
      <4> HIDE DEF Good
      <4> QED  BY <3>1, <3>2, <1>4
    <3> HIDE DEF Good
    <3> QED  BY <3>1, <3>3
  <2>3. 0..n \subseteq I
    <3>1. 0 \in Int /\ n \in Int /\ 1 \in Int /\ 1 = 0 + 1
      OBVIOUS
    <3> HIDE DEF I
    <3> QED  BY <3>1, <2>1, <2>2, Climbs
  <2>4. n \in 0..n
    OBVIOUS
  <2> HIDE DEF Good
  <2> QED  BY <2>3, <2>4
<1>6. Small(n) = S
  BY <1>1
<1>7. \E iter : Steps(iter)
  <2>1. PICK g \in [S -> Int] : \A s \in S : g[s] = Body(g, s)
    <3> HIDE DEF Small, Body, S
    <3> QED  BY <1>5, <1>6
  <2>2. g = [s \in S |-> g[s]]
    OBVIOUS
  <2>3. [s \in S |-> g[s]] = [s \in S |-> Body(g, s)]
    <3> HIDE DEF Body
    <3> QED  BY <2>1
  <2> HIDE DEF Body
  <2>4. Steps(g)
    BY <2>2, <2>3
  <2> QED  BY <2>4
<1>8. Steps(all)
  <2> HIDE DEF Steps
  <2> QED  BY <1>7
<1>9. FoldFunction(+, 0, f) = all[D]
  BY DEF FoldFunction, FoldFunctionOnSet, MapThenFoldSet, pick
<1> HIDE DEF all
<1>10. \A s \in S : all[s] = Body(all, s)
  BY <1>8
<1>11. all[{}] = 0
  BY <1>10
<1>12. ASSUME NEW s \in S, s # {}
      PROVE  all[s] = f[pick(s)] + all[s \ {pick(s)}]
  BY <1>10, <1>12
<1>13. \A s \in S : all[s] \in Int
  <2> DEFINE Whole(k) == \A s \in Small(k) : all[s] \in Int
             I == {k \in 0..n : Whole(k)}
  <2>1. 0 \in I
    <3>1. \A s \in Small(0) : s = {}
      BY <1>1, FS_EmptySet
    <3>2. \A s \in Small(0) : all[s] \in Int
      <4> SUFFICES ASSUME NEW s \in Small(0)
                   PROVE  all[s] \in Int
        OBVIOUS
      <4>1. s = {}
        BY <3>1
      <4>2. all[s] = all[{}]
        BY <4>1
      <4>3. all[s] = 0
        BY <1>11, <4>2
      <4> QED  BY <4>3
    <3> HIDE DEF Small
    <3>3. Whole(0)
      BY <3>2
    <3> HIDE DEF Whole
    <3> QED  BY <3>3
  <2>2. ASSUME NEW k \in 1..n, k - 1 \in I
        PROVE  k \in I
    <3>1. Whole(k - 1)
      <4> HIDE DEF Whole
      <4> QED  BY <2>2
    <3>2. ASSUME NEW s \in Small(k)
          PROVE  all[s] \in Int
      <4>1. CASE s = {}
        <5>1. all[s] = 0
          BY <4>1, <1>11
        <5> QED  BY <5>1
      <4>2. CASE s # {}
        <5> DEFINE rest == s \ {pick(s)}
        <5>1. /\ rest \in S /\ f[pick(s)] \in Int
              /\ Cardinality(rest) = Cardinality(s) - 1 /\ Cardinality(s) \in 0..n
          BY <4>2, <1>1, <1>2
        <5>2. all[s] = f[pick(s)] + all[rest]
          BY <4>2, <1>12
        <5>3. Cardinality(s) <= k
          OBVIOUS
        <5> HIDE DEF rest, S
        <5>4. rest \in Small(k - 1)
          BY <5>1, <5>3
        <5> HIDE DEF Small
        <5>5. all[rest] \in Int
          BY <3>1, <5>4
        <5> QED  BY <5>1, <5>2, <5>5
      <4> QED  BY <4>1, <4>2
    <3>3. Whole(k)
      <4> HIDE DEF Small
      <4> QED  BY <3>2
    <3> HIDE DEF Whole
    <3> QED  BY <3>3
  <2>3. 0..n \subseteq I
    <3>1. 0 \in Int /\ n \in Int /\ 1 \in Int /\ 1 = 0 + 1
      OBVIOUS
    <3> HIDE DEF I
    <3> QED  BY <3>1, <2>1, <2>2, Climbs
  <2>4. Whole(n)
    <3> HIDE DEF Whole
    <3> QED  BY <2>3
  <2> HIDE DEF Small, S
  <2> QED  BY <2>4, <1>6
<1>14. all[D] \in Int
  BY <1>13
<1> QED  BY <1>9, <1>14, Zenon

\* So is the mean of a window.
LEMMA MeanIsInt ==
    ASSUME NEW n \in Nat \ {0}, NEW f \in [1..n -> Int]
    PROVE  Mean(f) \in Int
<1> DEFINE sum == FoldFunction(+, 0, f)
<1>1. sum \in Int
  BY SumIsInt
<1>2. Mean(f) = sum \div n
  <2>1. Len(f) = n
    OBVIOUS
  <2> QED  BY <2>1 DEF Mean
<1> HIDE DEF sum
<1>3. sum \div n \in Int
  BY <1>1
<1> QED  BY <1>2, <1>3

-----------------------------------------------------------------------------
(* Learning: the types of what an observation makes.                       *)

Sample == [temp : Int, rpm : Int, power : Int, age : Age]
Aggregate == [windows : Nat, age : Age, gap : Age, temps : Int, power : Int]
Result == [steady : BOOLEAN, ready : BOOLEAN, window : Int, mean : Int]

\* A later age is an age again and no smaller, and of two ages the older stays so.
LEMMA AgeGrows ==
    ASSUME NEW age \in Age, NEW ticks \in Nat
    PROVE  /\ Older(age, ticks) \in Age /\ age <= Older(age, ticks)
           /\ \A other \in Age : age <= other => Older(age, ticks) <= Older(other, ticks)
<1>1. MaxDuration \in Nat
  BY LearningAssumption
<1>2. \A a \in Age : Older(a, ticks) = IF a + ticks <= MaxDuration + 1 THEN a + ticks
                                       ELSE MaxDuration + 1
  <2> SUFFICES ASSUME NEW a \in Age
               PROVE  Older(a, ticks) = IF a + ticks <= MaxDuration + 1 THEN a + ticks
                                        ELSE MaxDuration + 1
    OBVIOUS
  <2> DEFINE later == a + ticks
             top == MaxDuration + 1
  <2>1. later \in Int /\ top \in Int
    BY <1>1 DEF Age
  <2>2. Min({later, top}) = IF later <= top THEN later ELSE top
    <3> HIDE DEF later, top
    <3> QED  BY <2>1, OfTwo
  <2> QED  BY <2>2 DEF Older
<1> QED  BY <1>1, <1>2 DEF Age

\* A new aggregate and a new bucket are well typed.
LEMMA NewBucketType == NoAggregate \in Aggregate /\ NewBucket \in Bucket
<1>1. 0 \in Age /\ 0 \in 0..LearnDelay /\ Len(<<>>) <= LearnWindow
  BY LearningAssumption DEF Age
<1> QED  BY <1>1 DEF NoAggregate, NewBucket, Bucket, Aggregate, Readings

\* The fields of a bucket.
LEMMA BucketFields ==
    ASSUME NEW b \in Bucket
    PROVE  /\ b.seen \in BOOLEAN /\ b.settle \in 0..LearnDelay /\ b.last \in Readings
           /\ b.samples \in Seq(Sample) /\ Len(b.samples) \in 0..LearnWindow
           /\ b.agg \in Aggregate
<1>1. b.samples \in {s \in Seq(Sample) : Len(s) <= LearnWindow}
  BY DEF Bucket, Sample
<1>2. b.samples \in Seq(Sample) /\ Len(b.samples) <= LearnWindow /\ Len(b.samples) \in Nat
  BY <1>1
<1>3. Len(b.samples) \in 0..LearnWindow
  BY <1>2, LearningAssumption
<1> QED  BY <1>2, <1>3 DEF Bucket, Aggregate

\* A bucket from its fields.
LEMMA BucketMade ==
    ASSUME NEW seen \in BOOLEAN, NEW settle \in 0..LearnDelay, NEW last \in Readings,
           NEW samples \in Seq(Sample), Len(samples) <= LearnWindow, NEW agg \in Aggregate
    PROVE  [seen |-> seen, settle |-> settle, samples |-> samples, last |-> last, agg |-> agg]
             \in Bucket
BY DEF Bucket, Sample, Aggregate

\* What the passing of time does to a bucket.
LEMMA AgedIs ==
    ASSUME NEW b \in Bucket, NEW ticks \in Nat
    PROVE  LET old == Aged(b, ticks)
           IN  /\ old \in Bucket
               /\ old.seen = b.seen /\ old.last = b.last /\ old.settle = b.settle
               /\ Len(old.samples) = Len(b.samples)
               /\ \A i \in 1..Len(b.samples) : old.samples[i].age = Older(b.samples[i].age, ticks)
               /\ old.agg.windows = b.agg.windows
               /\ b.agg.windows > 0 => old.agg.age = Older(b.agg.age, ticks)
<1> DEFINE n == Len(b.samples)
           samples == [i \in DOMAIN b.samples |->
                         [b.samples[i] EXCEPT !.age = Older(@, ticks)]]
           agg == IF b.agg.windows = 0 THEN b.agg
                  ELSE [b.agg EXCEPT !.age = Older(@, ticks), !.gap = Older(@, ticks)]
           made == [seen |-> b.seen, settle |-> b.settle, samples |-> samples,
                    last |-> b.last, agg |-> agg]
<1>1. /\ b.seen \in BOOLEAN /\ b.settle \in 0..LearnDelay /\ b.last \in Readings
      /\ b.samples \in [1..n -> Sample] /\ n \in 0..LearnWindow /\ b.agg \in Aggregate
  <2>1. b.samples \in Seq(Sample)
    BY BucketFields
  <2>2. b.samples \in [1..n -> Sample]
    <3> HIDE DEF n
    <3> QED  BY <2>1 DEF n
  <2> QED  BY <2>2, BucketFields
<1>2. Aged(b, ticks) = made
  <2>1. Aged(b, ticks) = [b EXCEPT !.samples = samples, !.agg = agg]
    BY DEF Aged
  <2> HIDE DEF samples, agg
  <2> QED  BY <2>1 DEF Bucket
<1>3. samples \in [1..n -> Sample] /\ \A i \in 1..n : samples[i].age = Older(b.samples[i].age, ticks)
  <2>1. \A i \in 1..n : b.samples[i] \in Sample /\ b.samples[i].age \in Age
    BY <1>1 DEF Sample
  <2>2. \A i \in 1..n : Older(b.samples[i].age, ticks) \in Age
    BY <2>1, AgeGrows
  <2>3. \A i \in 1..n : LET s == [b.samples[i] EXCEPT !.age = Older(@, ticks)]
                        IN  s \in Sample /\ s.age = Older(b.samples[i].age, ticks)
    BY <2>1, <2>2 DEF Sample
  <2>4. DOMAIN b.samples = 1..n
    BY <1>1
  <2> QED  BY <2>3, <2>4
<1>4. agg \in Aggregate /\ agg.windows = b.agg.windows
        /\ (b.agg.windows > 0 => agg.age = Older(b.agg.age, ticks))
  <2>1. b.agg.age \in Age /\ b.agg.gap \in Age
    BY <1>1 DEF Aggregate
  <2>2. Older(b.agg.age, ticks) \in Age /\ Older(b.agg.gap, ticks) \in Age
    BY <2>1, AgeGrows
  <2>3. CASE b.agg.windows = 0
    BY <1>1, <2>3
  <2>4. CASE b.agg.windows # 0
    <3>1. agg = [b.agg EXCEPT !.age = Older(b.agg.age, ticks), !.gap = Older(b.agg.gap, ticks)]
      BY <2>4
    <3>2. b.agg \in Aggregate
      BY <1>1
    <3> HIDE DEF agg
    <3> QED  BY <2>2, <3>1, <3>2 DEF Aggregate
  <2> QED  BY <2>3, <2>4
<1>5. samples \in Seq(Sample) /\ Len(samples) = n
  <2> HIDE DEF samples
  <2> QED  BY <1>1, <1>3
<1> HIDE DEF samples, agg
<1>6. made \in Bucket
  BY <1>1, <1>4, <1>5, BucketMade
<1> QED  BY <1>2, <1>3, <1>4, <1>5, <1>6

\* The samples of a bucket with one more, cut to the window.
Window(samples, s) ==
  LET grown == Append(samples, s)
  IN  SubSeq(grown, Max({1, Len(grown) - LearnWindow + 1}), Len(grown))

\* What appending a sample to a bucket's samples makes: the last ones, the new one among them.
LEMMA WindowIs ==
    ASSUME NEW samples \in Seq(Sample), Len(samples) <= LearnWindow, NEW s \in Sample
    PROVE  LET w == Window(samples, s)
           IN  /\ w \in Seq(Sample)
               /\ Len(w) = IF Len(samples) < LearnWindow THEN Len(samples) + 1 ELSE LearnWindow
               /\ Len(w) >= 1
               /\ \A i \in 1..Len(w) : w[i] = s \/ \E j \in 1..Len(samples) : w[i] = samples[j]
<1> DEFINE grown == Append(samples, s)
           n == Len(samples)
<1>1. LearnWindow \in Nat /\ LearnWindow >= 1 /\ n \in Nat
  BY LearningAssumption
<1>2. grown \in Seq(Sample) /\ Len(grown) = n + 1
  OBVIOUS
<1>3. \A i \in 1..(n + 1) : grown[i] = s \/ \E j \in 1..n : grown[i] = samples[j]
  OBVIOUS
<1> HIDE DEF grown, n
<1>4. Max({1, Len(grown) - LearnWindow + 1}) = IF n < LearnWindow THEN 1 ELSE 2
  <2> DEFINE from == Len(grown) - LearnWindow + 1
  <2>1. from \in Int /\ 1 \in Int /\ (from <= 1 <=> n < LearnWindow) /\ (n >= LearnWindow => from = 2)
    BY <1>1, <1>2 DEF n
  <2> HIDE DEF from
  <2>2. Max({1, from}) = IF 1 <= from THEN from ELSE 1
    BY <2>1, OfTwo
  <2> QED  BY <1>1, <2>1, <2>2 DEF from
<1>5. Window(samples, s) = SubSeq(grown, IF n < LearnWindow THEN 1 ELSE 2, n + 1)
  BY <1>2, <1>4 DEF Window, grown
<1>6. CASE n < LearnWindow
  <2>1. SubSeq(grown, 1, n + 1) = grown
    BY <1>1, <1>2
  <2> QED  BY <1>1, <1>2, <1>3, <1>5, <1>6, <2>1 DEF n
<1>7. CASE ~(n < LearnWindow)
  <2> DEFINE w == SubSeq(grown, 2, n + 1)
  <2>1. n = LearnWindow
    BY <1>1, <1>7 DEF n
  <2>2. w \in Seq(Sample) /\ Len(w) = n /\ \A i \in 1..n : w[i] = grown[i + 1]
    BY <1>1, <1>2
  <2>3. \A i \in 1..n : i + 1 \in 1..(n + 1)
    BY <1>1
  <2>4. \A i \in 1..n : w[i] = s \/ \E j \in 1..n : w[i] = samples[j]
    BY <2>2, <2>3, <1>3
  <2> HIDE DEF w
  <2>5. Window(samples, s) = w
    BY <1>5, <1>7 DEF w
  <2> QED  BY <1>1, <1>7, <2>1, <2>2, <2>4, <2>5 DEF n
<1> QED  BY <1>6, <1>7

\* A steady window adds one to the windows of a run, or begins a run with its own age.
LEMMA AggregatedIs ==
    ASSUME NEW a \in Aggregate, NEW firstAge \in Age, NEW temp \in Int, NEW power \in Int
    PROVE  LET x == Aggregated(a, firstAge, temp, power)
           IN  /\ x \in Aggregate
               /\ \/ x.windows = a.windows + 1 /\ a.windows > 0 /\ x.age = a.age
                  \/ x.windows = 1 /\ x.age = firstAge
<1> DEFINE start == [NoAggregate EXCEPT !.age = firstAge, !.power = power]
           add(run) == [run EXCEPT !.windows = @ + 1, !.gap = 0, !.temps = @ + temp]
<1>1. start \in Aggregate /\ start.windows = 0 /\ start.age = firstAge
  BY NewBucketType DEF Aggregate, NoAggregate
<1>2. \A run \in Aggregate : /\ add(run) \in Aggregate
                             /\ add(run).windows = run.windows + 1 /\ add(run).age = run.age
  <2> SUFFICES ASSUME NEW run \in Aggregate
               PROVE  /\ add(run) \in Aggregate
                      /\ add(run).windows = run.windows + 1 /\ add(run).age = run.age
    OBVIOUS
  <2>1. 0 \in Age
    BY LearningAssumption DEF Age
  <2>2. /\ run.windows \in Nat /\ run.age \in Age /\ run.gap \in Age
        /\ run.temps \in Int /\ run.power \in Int
    BY DEF Aggregate
  <2> DEFINE windows == run.windows + 1
             temps == run.temps + temp
  <2>3. add(run) = [run EXCEPT !.windows = windows, !.gap = 0, !.temps = temps]
    OBVIOUS
  <2>4. windows \in Nat /\ temps \in Int
    BY <2>2
  <2> HIDE DEF add, windows, temps
  <2>5. add(run) \in Aggregate /\ add(run).windows = windows /\ add(run).age = run.age
    BY <2>1, <2>2, <2>3, <2>4 DEF Aggregate
  <2> QED  BY <2>5 DEF windows
<1> HIDE DEF start, add
<1>3. CASE Compatible(a, firstAge, power)
  <2>1. Aggregated(a, firstAge, temp, power) = add(a)
    BY <1>3 DEF Aggregated, add
  <2>2. a.windows > 0
    BY <1>3 DEF Compatible
  <2> QED  BY <1>2, <2>1, <2>2
<1>4. CASE ~Compatible(a, firstAge, power)
  <2>1. Aggregated(a, firstAge, temp, power) = add(start)
    BY <1>4 DEF Aggregated, add, start
  <2> QED  BY <1>1, <1>2, <2>1
<1> QED  BY <1>3, <1>4

\* The means of a window are integers.
LEMMA WindowMeans ==
    ASSUME NEW w \in Seq(Sample), Len(w) >= 1
    PROVE  Mean(Field(w, "temp")) \in Int /\ Mean(Field(w, "power")) \in Int
<1> DEFINE n == Len(w)
<1>1. n \in Nat \ {0} /\ w \in [1..n -> Sample]
  OBVIOUS
<1> HIDE DEF n
<1>2. Field(w, "temp") \in [1..n -> Int] /\ Field(w, "power") \in [1..n -> Int]
  BY <1>1 DEF Field, Sample
<1> QED  BY <1>1, <1>2, MeanIsInt

-----------------------------------------------------------------------------
(* Learning: what the evidence counts.                                     *)

Enough == SteadyWindows * LearnWindow

\* The evidence of a bucket covers its windows and samples, unless it is full.
Counted(b, e) ==
  /\ e.samples = Enough \/ b.agg.windows * LearnWindow + Len(b.samples) <= e.samples
  /\ b.agg.windows > 0 => b.agg.age <= e.age
  /\ \A i \in 1..Len(b.samples) : b.samples[i].age <= e.age

\* Multiples of the window.
LEMMA Multiples ==
    ASSUME NEW k \in Nat
    PROVE  /\ LearnWindow \in Nat /\ LearnWindow >= 1
           /\ Enough \in Nat /\ Enough >= 1
           /\ k * LearnWindow \in Nat
           /\ (k + 1) * LearnWindow = k * LearnWindow + LearnWindow
           /\ k >= SteadyWindows => k * LearnWindow >= Enough
<1>1. LearnWindow \in Nat /\ LearnWindow >= 1 /\ SteadyWindows \in Nat /\ SteadyWindows >= 1
  BY LearningAssumption
<1>2. \A i, j \in Nat : i >= j => i * LearnWindow >= j * LearnWindow
  BY <1>1
<1>3. Enough >= 1 * LearnWindow /\ (k >= SteadyWindows => k * LearnWindow >= Enough)
  BY <1>1, <1>2 DEF Enough
<1> QED  BY <1>1, <1>3 DEF Enough

\* A new bucket claims no evidence.
LEMMA NothingCounted ==
    ASSUME NEW e \in Evidence
    PROVE  Counted(NewBucket, e)
<1>1. NewBucket.agg.windows = 0 /\ Len(NewBucket.samples) = 0
  BY DEF NewBucket, NoAggregate
<1>2. e.samples \in Nat
  BY Multiples DEF Evidence, Enough
<1> QED  BY <1>1, <1>2, LearningAssumption DEF Counted

\* Time ages the bucket and its evidence alike.
LaterEvidence(e, ticks) ==
  [samples |-> e.samples, age |-> IF e.samples = 0 THEN 0 ELSE Older(e.age, ticks)]

\* An older bucket is still covered by its older evidence.
LEMMA AgedCounted ==
    ASSUME NEW b \in Bucket, NEW e \in Evidence, NEW ticks \in Nat, Counted(b, e)
    PROVE  LaterEvidence(e, ticks) \in Evidence /\ Counted(Aged(b, ticks), LaterEvidence(e, ticks))
<1> DEFINE old == Aged(b, ticks)
           later == LaterEvidence(e, ticks)
<1>1. e.samples \in 0..Enough /\ e.age \in Age /\ Older(e.age, ticks) \in Age /\ 0 \in Age
  <2>1. e.samples \in 0..Enough /\ e.age \in Age
    BY DEF Evidence, Enough
  <2>2. 0 \in Age
    BY LearningAssumption DEF Age
  <2> QED  BY <2>1, <2>2, AgeGrows
<1>2. later \in Evidence /\ later.samples = e.samples
  BY <1>1 DEF LaterEvidence, Evidence, Enough
<1>3. /\ b.agg.windows \in Nat /\ b.agg.age \in Age /\ Len(b.samples) \in Nat
      /\ \A i \in 1..Len(b.samples) : b.samples[i].age \in Age
  <2>1. b.samples \in Seq(Sample) /\ b.agg \in Aggregate
    BY BucketFields
  <2>2. \A i \in 1..Len(b.samples) : b.samples[i] \in Sample
    BY <2>1
  <2> QED  BY <2>1, <2>2 DEF Aggregate, Sample
<1>4. /\ Len(old.samples) = Len(b.samples) /\ old.agg.windows = b.agg.windows
      /\ \A i \in 1..Len(b.samples) : old.samples[i].age = Older(b.samples[i].age, ticks)
      /\ b.agg.windows > 0 => old.agg.age = Older(b.agg.age, ticks)
  BY AgedIs
<1> HIDE DEF old, later
<1>5. CASE e.samples = 0
  <2>1. b.agg.windows * LearnWindow + Len(b.samples) <= 0
    BY <1>5, Multiples DEF Counted
  <2>2. b.agg.windows * LearnWindow \in Nat
    BY <1>3, Multiples
  <2>3. Len(b.samples) = 0 /\ b.agg.windows * LearnWindow = 0
    BY <1>3, <2>1, <2>2
  <2>4. b.agg.windows = 0
    <3> SUFFICES ASSUME b.agg.windows # 0
                 PROVE  FALSE
      OBVIOUS
    <3> DEFINE k == b.agg.windows - 1
    <3>1. k \in Nat /\ b.agg.windows = k + 1
      BY <1>3
    <3> HIDE DEF k
    <3>2. (k + 1) * LearnWindow = k * LearnWindow + LearnWindow /\ k * LearnWindow \in Nat
            /\ LearnWindow \in Nat /\ LearnWindow >= 1
      BY <3>1, Multiples
    <3> QED  BY <2>3, <3>1, <3>2
  <2>5. Counted(old, later)
    BY <1>2, <1>3, <1>4, <1>5, <2>3, <2>4, Multiples DEF Counted
  <2> QED  BY <1>2, <2>5 DEF old, later
<1>6. CASE e.samples # 0
  <2>1. later.age = Older(e.age, ticks)
    BY <1>6 DEF later, LaterEvidence
  <2>2. b.agg.windows > 0 => old.agg.age <= later.age
    BY <1>1, <1>3, <1>4, <2>1, AgeGrows DEF Counted
  <2>3. ASSUME NEW i \in 1..Len(old.samples)
        PROVE  old.samples[i].age <= later.age
    <3>1. /\ i \in 1..Len(b.samples) /\ b.samples[i].age \in Age
          /\ old.samples[i].age = Older(b.samples[i].age, ticks)
      BY <1>3, <1>4
    <3>2. b.samples[i].age <= e.age
      BY <3>1 DEF Counted
    <3> QED  BY <1>1, <2>1, <3>1, <3>2, AgeGrows
  <2>4. Counted(old, later)
    BY <1>2, <1>4, <2>2, <2>3 DEF Counted
  <2> QED  BY <1>2, <2>4 DEF old, later
<1> QED  BY <1>5, <1>6

\* A bucket as an observation finds it: new after a jump.
Jump(b, r) == b.seen /\ Jumped(b.last, r)
Found(b, r) == [(IF Jump(b, r) THEN Disturbed(b) ELSE b) EXCEPT !.seen = TRUE, !.last = r]

\* What an observation finds: the bucket, or a new one after a jump.
LEMMA FoundIs ==
    ASSUME NEW b \in Bucket, NEW r \in Readings
    PROVE  LET f == Found(b, r)
               from == IF Jump(b, r) THEN NewBucket ELSE b
           IN  f \in Bucket /\ f.samples = from.samples /\ f.agg = from.agg /\ f.settle = from.settle
<1> DEFINE from == IF Jump(b, r) THEN Disturbed(b) ELSE b
<1>1. Disturbed(b) \in Bucket /\ Disturbed(b).samples = NewBucket.samples
        /\ Disturbed(b).agg = NewBucket.agg /\ Disturbed(b).settle = NewBucket.settle
  BY NewBucketType DEF Disturbed, Bucket, NewBucket
<1>2. from \in Bucket
  BY <1>1
<1>3. Found(b, r) = [from EXCEPT !.seen = TRUE, !.last = r]
  BY DEF Found
<1> HIDE DEF from
<1>4. /\ Found(b, r) \in Bucket /\ Found(b, r).samples = from.samples
      /\ Found(b, r).agg = from.agg /\ Found(b, r).settle = from.settle
  BY <1>2, <1>3 DEF Bucket
<1> QED  BY <1>1, <1>4 DEF from

\* The window a sample completes, and what the aggregate becomes with it.
WindowOf(f, r) ==
  Window(f.samples, [temp |-> r.temp, rpm |-> r.rpm, power |-> r.power, age |-> 0])
AggregateOf(f, r) ==
  LET w == WindowOf(f, r)
  IN  Aggregated(f.agg, w[1].age, Mean(Field(w, "temp")), Mean(Field(w, "power")))

\* The window of an observation: at most one sample more than there were, and none older.
LEMMA WindowOfIs ==
    ASSUME NEW f \in Bucket, NEW r \in Readings
    PROVE  LET w == WindowOf(f, r)
               n == Len(f.samples)
           IN  /\ w \in Seq(Sample) /\ Len(w) \in 1..LearnWindow /\ n \in Nat
               /\ Len(w) <= n + 1
               /\ \A i \in 1..Len(w) :
                    /\ w[i].age \in Age
                    /\ w[i].age = 0 \/ \E j \in 1..n : w[i].age = f.samples[j].age
<1> DEFINE w == WindowOf(f, r)
           n == Len(f.samples)
           s == [temp |-> r.temp, rpm |-> r.rpm, power |-> r.power, age |-> 0]
<1>1. s \in Sample
  <2>1. 0 \in Age
    BY LearningAssumption DEF Age
  <2> QED  BY <2>1 DEF Sample, Readings
<1>2. f.samples \in Seq(Sample) /\ n \in 0..LearnWindow /\ LearnWindow \in Nat
  BY BucketFields, LearningAssumption
<1>3. w = Window(f.samples, s) /\ s.age = 0
  BY DEF WindowOf
<1> HIDE DEF s, w
<1>4. /\ w \in Seq(Sample) /\ Len(w) >= 1
      /\ Len(w) = IF n < LearnWindow THEN n + 1 ELSE LearnWindow
      /\ \A i \in 1..Len(w) : w[i] = s \/ \E j \in 1..n : w[i] = f.samples[j]
  <2>1. Len(f.samples) <= LearnWindow
    BY <1>2
  <2> DEFINE v == Window(f.samples, s)
  <2>2. /\ v \in Seq(Sample) /\ Len(v) >= 1
        /\ Len(v) = IF n < LearnWindow THEN n + 1 ELSE LearnWindow
        /\ \A i \in 1..Len(v) : v[i] = s \/ \E j \in 1..n : v[i] = f.samples[j]
    BY <1>1, <1>2, <2>1, WindowIs
  <2> QED  BY <1>3, <2>2
<1>5. Len(w) \in 1..LearnWindow /\ Len(w) <= n + 1
  BY <1>2, <1>4
<1>6. \A i \in 1..Len(w) : w[i] \in Sample
  BY <1>4
<1>7. \A i \in 1..Len(w) : w[i].age \in Age
  BY <1>6 DEF Sample
<1>8. \A i \in 1..Len(w) : w[i].age = 0 \/ \E j \in 1..n : w[i].age = f.samples[j].age
  BY <1>3, <1>4
<1> QED  BY <1>2, <1>4, <1>5, <1>7, <1>8 DEF w

\* The aggregate of an observation: one window more, or one in all, as old as its first sample.
LEMMA AggregateOfIs ==
    ASSUME NEW f \in Bucket, NEW r \in Readings
    PROVE  LET w == WindowOf(f, r)
               x == AggregateOf(f, r)
           IN  /\ Mean(Field(w, "temp")) \in Int /\ x \in Aggregate
               /\ \/ x.windows = f.agg.windows + 1 /\ f.agg.windows > 0 /\ x.age = f.agg.age
                  \/ x.windows = 1 /\ x.age = w[1].age
<1>1. Mean(Field(WindowOf(f, r), "temp")) \in Int /\ Mean(Field(WindowOf(f, r), "power")) \in Int
  BY WindowOfIs, WindowMeans
<1>2. WindowOf(f, r)[1].age \in Age
  BY WindowOfIs
<1>3. f.agg \in Aggregate
  BY BucketFields
<1> QED  BY <1>1, <1>2, <1>3, AggregatedIs DEF AggregateOf

\* The three things an observation may make of a bucket.
LEMMA ObservedIs ==
    ASSUME NEW b \in Bucket, NEW r \in Readings
    PROVE  LET f == Found(b, r)
               w == WindowOf(f, r)
               x == AggregateOf(f, r)
               ready == LearningReady(x)
               o == Observed(b, r)
               nothing == [steady |-> FALSE, ready |-> FALSE, window |-> 0, mean |-> 0]
           IN  \/ o = [bucket |-> [f EXCEPT !.settle = @ + 1], result |-> nothing]
                    /\ f.settle < LearnDelay
               \/ o = [bucket |-> [f EXCEPT !.samples = w], result |-> nothing]
               \/ /\ Len(w) = LearnWindow
                  /\ o = [bucket |-> [f EXCEPT !.samples = <<>>, !.settle = 0,
                                               !.agg = IF ready THEN NoAggregate ELSE x],
                          result |-> [steady |-> TRUE, ready |-> ready,
                                      window |-> Mean(Field(w, "temp")),
                                      mean |-> IF ready THEN x.temps \div x.windows
                                               ELSE Mean(Field(w, "temp"))]]
<1> DEFINE f == Found(b, r)
           w == WindowOf(f, r)
           x == AggregateOf(f, r)
           ready == LearningReady(x)
           mean == Mean(Field(w, "temp"))
           nothing == [steady |-> FALSE, ready |-> FALSE, window |-> 0, mean |-> 0]
<1>0. Observed(b, r) =
        IF f.settle < LearnDelay
          THEN [bucket |-> [f EXCEPT !.settle = @ + 1], result |-> nothing]
        ELSE IF ~Steady(w)
          THEN [bucket |-> [f EXCEPT !.samples = w], result |-> nothing]
        ELSE [bucket |-> [f EXCEPT !.samples = <<>>, !.settle = 0,
                                   !.agg = IF ready THEN NoAggregate ELSE x],
              result |-> [steady |-> TRUE, ready |-> ready, window |-> mean,
                          mean |-> IF ready THEN x.temps \div x.windows ELSE mean]]
  BY DEF Observed, Found, Jump, WindowOf, Window, AggregateOf
<1> HIDE DEF f, w, x, ready, mean, nothing
<1>1. CASE f.settle < LearnDelay
  BY <1>0, <1>1, Zenon DEF f, w, x, ready, mean, nothing
<1>2. CASE ~(f.settle < LearnDelay) /\ ~Steady(w)
  BY <1>0, <1>2, Zenon DEF f, w, x, ready, mean, nothing
<1>3. CASE ~(f.settle < LearnDelay) /\ Steady(w)
  <2>1. Len(w) = LearnWindow
    BY <1>3 DEF Steady
  <2> QED  BY <1>0, <1>3, <2>1, Zenon DEF f, w, x, ready, mean, nothing
<1> QED  BY <1>1, <1>2, <1>3

\* The types of what an observation makes.
LEMMA ObservedType ==
    ASSUME NEW b \in Bucket, NEW r \in Readings
    PROVE  Observed(b, r).bucket \in Bucket /\ Observed(b, r).result \in Result
<1> DEFINE f == Found(b, r)
           w == WindowOf(f, r)
           x == AggregateOf(f, r)
           mean == IF LearningReady(x) THEN x.temps \div x.windows ELSE Mean(Field(w, "temp"))
<1>1. f \in Bucket
  BY FoundIs
<1> HIDE DEF f
<1>2. /\ f.seen \in BOOLEAN /\ f.settle \in 0..LearnDelay /\ f.last \in Readings
      /\ f.samples \in Seq(Sample) /\ Len(f.samples) \in 0..LearnWindow /\ f.agg \in Aggregate
  BY <1>1, BucketFields
<1>3. w \in Seq(Sample) /\ Len(w) \in 1..LearnWindow
  BY <1>1, WindowOfIs
<1>4. Mean(Field(w, "temp")) \in Int /\ x \in Aggregate /\ LearningReady(x) \in BOOLEAN
  BY <1>1, AggregateOfIs DEF LearningReady
<1>5. mean \in Int
  <2>1. x.windows \in Nat /\ x.windows >= 1 /\ x.temps \in Int
    <3>1. x.windows = f.agg.windows + 1 \/ x.windows = 1
      BY <1>1, AggregateOfIs
    <3>2. f.agg.windows \in Nat /\ x.temps \in Int
      BY <1>2, <1>4 DEF Aggregate
    <3> QED  BY <3>1, <3>2
  <2>2. x.temps \div x.windows \in Int
    <3> DEFINE temps == x.temps
               windows == x.windows
    <3>1. temps \in Int /\ windows \in Nat \ {0}
      BY <2>1
    <3> HIDE DEF temps, windows
    <3>2. temps \div windows \in Int
      BY <3>1
    <3> QED  BY <3>2 DEF temps, windows
  <2> QED  BY <1>4, <2>2
<1>6. LearnDelay \in Nat /\ LearnWindow \in Nat /\ Len(<<>>) = 0 /\ <<>> \in Seq(Sample)
  BY LearningAssumption
<1> HIDE DEF w, x, mean
<1>7. CASE Observed(b, r) = [bucket |-> [f EXCEPT !.settle = @ + 1],
                             result |-> [steady |-> FALSE, ready |-> FALSE, window |-> 0, mean |-> 0]]
             /\ f.settle < LearnDelay
  <2>1. f.settle + 1 \in 0..LearnDelay
    BY <1>2, <1>6, <1>7
  <2>2. [f EXCEPT !.settle = @ + 1] \in Bucket
    BY <1>1, <2>1 DEF Bucket
  <2> QED  BY <1>7, <2>2 DEF Result
<1>8. CASE Observed(b, r) = [bucket |-> [f EXCEPT !.samples = w],
                             result |-> [steady |-> FALSE, ready |-> FALSE, window |-> 0, mean |-> 0]]
  <2>1. w \in {s \in Seq(Sample) : Len(s) <= LearnWindow}
    BY <1>3, <1>6
  <2>2. [f EXCEPT !.samples = w] \in Bucket
    BY <1>1, <2>1 DEF Bucket, Sample
  <2> QED  BY <1>8, <2>2 DEF Result
<1>9. CASE Observed(b, r) = [bucket |-> [f EXCEPT !.samples = <<>>, !.settle = 0,
                                                  !.agg = IF LearningReady(x) THEN NoAggregate ELSE x],
                             result |-> [steady |-> TRUE, ready |-> LearningReady(x),
                                         window |-> Mean(Field(w, "temp")), mean |-> mean]]
  <2> DEFINE agg == IF LearningReady(x) THEN NoAggregate ELSE x
  <2>1. <<>> \in {s \in Seq(Sample) : Len(s) <= LearnWindow} /\ 0 \in 0..LearnDelay
    BY <1>6
  <2>2. agg \in Aggregate
    BY <1>4, NewBucketType
  <2>3. Observed(b, r).bucket = [f EXCEPT !.samples = <<>>, !.settle = 0, !.agg = agg]
    BY <1>9
  <2> HIDE DEF agg
  <2>4. [f EXCEPT !.samples = <<>>, !.settle = 0, !.agg = agg] \in Bucket
    BY <1>1, <2>1, <2>2 DEF Bucket, Sample, Aggregate
  <2>5. Observed(b, r).result \in Result
    BY <1>4, <1>5, <1>9 DEF Result
  <2> QED  BY <2>3, <2>4, <2>5
<1> QED  BY <1>7, <1>8, <1>9, ObservedIs DEF f, w, x, mean

\* The evidence after a sample: one more, or the first after a jump.
KnownBy(e, jump) ==
  [samples |-> Min({(IF jump THEN 0 ELSE e.samples) + 1, Enough}),
   age |-> IF jump THEN 0 ELSE e.age]

\* No evidence is claimed that was not had: a window that makes a bucket ready has
\* all the samples and all the time behind it.
LEMMA ObservedCounts ==
    ASSUME NEW b \in Bucket, NEW e \in Evidence, Counted(b, e), NEW r \in Readings
    PROVE  LET k == KnownBy(e, Jump(b, r))
               o == Observed(b, r)
           IN  /\ k \in Evidence
               /\ ~o.result.ready => Counted(o.bucket, k)
               /\ o.result.ready =>
                    /\ k.samples = Enough /\ k.age >= MinDuration
                    /\ Counted(o.bucket, [samples |-> 0, age |-> 0])
<1> DEFINE f == Found(b, r)
           w == WindowOf(f, r)
           x == AggregateOf(f, r)
           n == Len(f.samples)
           had == IF Jump(b, r) THEN 0 ELSE e.samples
           k == KnownBy(e, Jump(b, r))
<1>1. Enough \in Nat /\ Enough >= 1 /\ LearnWindow \in Nat /\ LearnWindow >= 1
        /\ 0 \in Age /\ e.samples \in 0..Enough /\ e.age \in Age /\ Age \subseteq Nat
  <2>1. 0 \in Nat
    OBVIOUS
  <2>2. Enough \in Nat /\ Enough >= 1 /\ LearnWindow \in Nat /\ LearnWindow >= 1
    BY <2>1, Multiples
  <2>3. 0 \in Age /\ Age \subseteq Nat
    BY LearningAssumption DEF Age
  <2>4. e.samples \in 0..Enough /\ e.age \in Age
    BY DEF Evidence, Enough
  <2> QED  BY <2>2, <2>3, <2>4
<1>2. /\ had \in 0..Enough
      /\ k.samples = (IF had + 1 <= Enough THEN had + 1 ELSE Enough)
      /\ k.samples \in 0..Enough /\ k.age \in Age /\ k \in Evidence
  <2>1. had \in 0..Enough
    BY <1>1
  <2>2. k.samples = Min({had + 1, Enough})
    BY DEF KnownBy
  <2>3. Min({had + 1, Enough}) = IF had + 1 <= Enough THEN had + 1 ELSE Enough
    <3> DEFINE more == had + 1
    <3>1. more \in Int /\ Enough \in Int
      BY <1>1, <2>1
    <3> HIDE DEF more
    <3>2. Min({more, Enough}) = IF more <= Enough THEN more ELSE Enough
      BY <3>1, OfTwo
    <3> QED  BY <3>2 DEF more
  <2>4. k.age \in Age
    BY <1>1 DEF KnownBy
  <2> HIDE DEF had
  <2>5. k.samples \in 0..Enough
    BY <1>1, <2>1, <2>2, <2>3
  <2>6. k \in Evidence
    BY <2>4, <2>5 DEF KnownBy, Evidence, Enough
  <2> QED  BY <2>1, <2>2, <2>3, <2>4, <2>5, <2>6
<1>3. /\ f \in Bucket /\ n \in Nat /\ f.agg.windows \in Nat /\ f.agg.windows * LearnWindow \in Nat
      /\ \A j \in 1..n : f.samples[j].age \in Age
      /\ f.agg.age \in Age
  <2>1. f \in Bucket
    BY FoundIs
  <2> HIDE DEF f
  <2>2. f.samples \in Seq(Sample) /\ f.agg \in Aggregate
    BY <2>1, BucketFields
  <2>3. \A j \in 1..n : f.samples[j] \in Sample
    BY <2>2
  <2>4. f.agg.windows \in Nat /\ f.agg.age \in Age
    BY <2>2 DEF Aggregate
  <2>5. \A j \in 1..n : f.samples[j].age \in Age
    BY <2>3 DEF Sample
  <2>6. n \in Nat
    BY <2>2
  <2>7. f.agg.windows * LearnWindow \in Nat
    BY <2>4, Multiples
  <2> QED  BY <2>1, <2>4, <2>5, <2>6, <2>7
<1>4. /\ had = Enough \/ f.agg.windows * LearnWindow + n <= had
      /\ f.agg.windows > 0 => f.agg.age <= k.age
      /\ \A j \in 1..n : f.samples[j].age <= k.age
  <2>1. CASE Jump(b, r)
    <3>1. f.samples = <<>> /\ f.agg = NoAggregate
      BY <2>1, FoundIs DEF NewBucket
    <3>2. f.agg.windows = 0 /\ n = 0
      BY <3>1 DEF NoAggregate
    <3> HIDE DEF f
    <3> QED  BY <1>1, <1>2, <3>2, Multiples
  <2>2. CASE ~Jump(b, r)
    <3>1. f.samples = b.samples /\ f.agg = b.agg
      BY <2>2, FoundIs
    <3>2. had = e.samples /\ k.age = e.age
      BY <2>2 DEF KnownBy
    <3> HIDE DEF f, had, k
    <3> QED  BY <3>1, <3>2 DEF Counted
  <2> QED  BY <2>1, <2>2
<1>5. Len(w) \in 1..LearnWindow /\ Len(w) <= n + 1
        /\ \A i \in 1..Len(w) : w[i].age \in Age /\ w[i].age <= k.age
  <2>1. /\ Len(w) \in 1..LearnWindow /\ Len(w) <= n + 1
        /\ \A i \in 1..Len(w) :
             /\ w[i].age \in Age
             /\ w[i].age = 0 \/ \E j \in 1..n : w[i].age = f.samples[j].age
    BY <1>3, WindowOfIs
  <2> HIDE DEF w, f, k
  <2>2. k.age >= 0
    <3>1. k.age \in Age /\ Age \subseteq Nat
      BY <1>1, <1>2
    <3>2. k.age \in Nat
      BY <3>1, Zenon
    <3> QED  BY <3>2
  <2> QED  BY <2>1, <2>2, <1>4
<1>6. \/ x.windows = f.agg.windows + 1 /\ f.agg.windows > 0 /\ x.age = f.agg.age
      \/ x.windows = 1 /\ x.age = w[1].age
  BY <1>3, AggregateOfIs
<1>7. x.windows \in Nat /\ x.age \in Age
  <2>1. x \in Aggregate
    BY <1>3, AggregateOfIs
  <2> QED  BY <2>1 DEF Aggregate
<1>8. Len(w) = LearnWindow =>
        /\ x.age <= k.age
        /\ k.samples = Enough \/ x.windows * LearnWindow <= k.samples
  <2> SUFFICES ASSUME Len(w) = LearnWindow
               PROVE  /\ x.age <= k.age
                      /\ k.samples = Enough \/ x.windows * LearnWindow <= k.samples
    OBVIOUS
  <2> HIDE DEF f, w, x, k, had, n
  <2>1. LearnWindow <= n + 1
    BY <1>5
  <2>2. 1 * LearnWindow = LearnWindow
    BY <1>1
  <2>3. (f.agg.windows + 1) * LearnWindow = f.agg.windows * LearnWindow + LearnWindow
    BY <1>3, Multiples
  <2>4. x.age <= k.age
    BY <1>1, <1>4, <1>5, <1>6
  <2>5. had # Enough => x.windows * LearnWindow <= had + 1
    <3> DEFINE product == f.agg.windows * LearnWindow
    <3>1. x.windows * LearnWindow = product + LearnWindow \/ x.windows * LearnWindow = LearnWindow
      BY <1>6, <2>2, <2>3
    <3>2. had # Enough => product + n <= had
      BY <1>4
    <3>3. product \in Nat
      BY <1>3
    <3> HIDE DEF product
    <3> QED  BY <1>1, <1>2, <1>3, <2>1, <3>1, <3>2, <3>3
  <2>6. x.windows * LearnWindow \in Nat
    BY <1>7, Multiples
  <2> QED  BY <1>1, <1>2, <2>4, <2>5, <2>6
<1> HIDE DEF f, w, x, k, had, n
<1>9. CASE Observed(b, r) = [bucket |-> [f EXCEPT !.settle = @ + 1],
                             result |-> [steady |-> FALSE, ready |-> FALSE, window |-> 0, mean |-> 0]]
  <2>1. /\ Observed(b, r).bucket.samples = f.samples /\ Observed(b, r).bucket.agg = f.agg
        /\ Observed(b, r).result.ready = FALSE
    <3>1. /\ Observed(b, r).bucket = [f EXCEPT !.settle = @ + 1]
          /\ Observed(b, r).result.ready = FALSE
      BY <1>9
    <3> QED  BY <1>3, <3>1 DEF Bucket
  <2>2. k.samples = Enough \/ f.agg.windows * LearnWindow + n <= k.samples
    <3> DEFINE product == f.agg.windows * LearnWindow
    <3>1. product \in Nat /\ (had = Enough \/ product + n <= had)
      BY <1>3, <1>4
    <3> HIDE DEF product
    <3>2. k.samples = Enough \/ product + n <= k.samples
      BY <1>1, <1>2, <1>3, <3>1
    <3> QED  BY <3>2 DEF product
  <2>3. Counted(Observed(b, r).bucket, k)
    BY <1>4, <2>1, <2>2 DEF Counted, n
  <2> QED  BY <1>2, <2>1, <2>3 DEF k
<1>10. CASE Observed(b, r) = [bucket |-> [f EXCEPT !.samples = w],
                              result |-> [steady |-> FALSE, ready |-> FALSE, window |-> 0, mean |-> 0]]
  <2>1. /\ Observed(b, r).bucket.samples = w /\ Observed(b, r).bucket.agg = f.agg
        /\ Observed(b, r).result.ready = FALSE
    <3>1. /\ Observed(b, r).bucket = [f EXCEPT !.samples = w]
          /\ Observed(b, r).result.ready = FALSE
      BY <1>10
    <3> QED  BY <1>3, <3>1 DEF Bucket
  <2>2. k.samples = Enough \/ f.agg.windows * LearnWindow + Len(w) <= k.samples
    <3> DEFINE product == f.agg.windows * LearnWindow
               m == Len(w)
    <3>1. product \in Nat /\ m \in Nat /\ m <= n + 1 /\ (had = Enough \/ product + n <= had)
      BY <1>3, <1>4, <1>5
    <3> HIDE DEF product, m
    <3>2. k.samples = Enough \/ product + m <= k.samples
      BY <1>1, <1>2, <1>3, <3>1
    <3> QED  BY <3>2 DEF product, m
  <2>3. Counted(Observed(b, r).bucket, k)
    BY <1>4, <1>5, <2>1, <2>2 DEF Counted
  <2> QED  BY <1>2, <2>1, <2>3 DEF k
<1>11. ASSUME NEW mean, Len(w) = LearnWindow,
              Observed(b, r) = [bucket |-> [f EXCEPT !.samples = <<>>, !.settle = 0,
                                              !.agg = IF LearningReady(x) THEN NoAggregate ELSE x],
                                result |-> [steady |-> TRUE, ready |-> LearningReady(x),
                                            window |-> Mean(Field(w, "temp")), mean |-> mean]]
       PROVE  /\ ~Observed(b, r).result.ready => Counted(Observed(b, r).bucket, k)
              /\ Observed(b, r).result.ready =>
                   /\ k.samples = Enough /\ k.age >= MinDuration
                   /\ Counted(Observed(b, r).bucket, [samples |-> 0, age |-> 0])
  <2> DEFINE o == Observed(b, r)
             agg == IF LearningReady(x) THEN NoAggregate ELSE x
  <2>1. o.bucket = [f EXCEPT !.samples = <<>>, !.settle = 0, !.agg = agg]
          /\ o.result.ready = LearningReady(x)
    BY <1>11
  <2>2. o.bucket.samples = <<>> /\ o.bucket.agg = agg
    <3> HIDE DEF agg, o
    <3> QED  BY <1>3, <2>1 DEF Bucket
  <2>3. Len(o.bucket.samples) = 0
    BY <2>2
  <2>4. CASE LearningReady(x)
    <3>1. x.windows >= SteadyWindows /\ x.age >= MinDuration
      BY <2>4 DEF LearningReady
    <3>2. x.windows * LearnWindow >= Enough
      BY <1>7, <3>1, Multiples
    <3>3. k.samples = Enough /\ k.age >= MinDuration
      <4>1. x.windows * LearnWindow \in Nat
        BY <1>7, Multiples
      <4>2. MinDuration \in Int /\ x.age \in Nat /\ k.age \in Nat
        <5>1. x.age \in Nat /\ k.age \in Nat
          BY <1>1, <1>2, <1>7, Zenon
        <5>2. MinDuration \in Int
          BY LearningAssumption
        <5> QED  BY <5>1, <5>2
      <4>3. x.age <= k.age
        BY <1>8, <1>11
      <4>4. k.age >= MinDuration
        BY <3>1, <4>2, <4>3
      <4>5. k.samples = Enough
        <5> DEFINE product == x.windows * LearnWindow
        <5>1. product \in Nat /\ product >= Enough /\ (k.samples = Enough \/ product <= k.samples)
          BY <1>8, <1>11, <3>2, <4>1
        <5> HIDE DEF product
        <5> QED  BY <1>1, <1>2, <5>1
      <4> QED  BY <4>4, <4>5
    <3>4. o.bucket.agg.windows = 0
      BY <2>2, <2>4 DEF NoAggregate
    <3>5. Counted(o.bucket, [samples |-> 0, age |-> 0])
      <4> HIDE DEF o
      <4> QED  BY <1>1, <2>3, <3>4 DEF Counted
    <3> QED  BY <2>1, <2>4, <3>3, <3>5
  <2>5. CASE ~LearningReady(x)
    <3>1. o.bucket.agg = x
      BY <2>2, <2>5
    <3>2. Counted(o.bucket, k)
      <4> HIDE DEF o
      <4>1. x.windows * LearnWindow \in Nat
        BY <1>7, Multiples
      <4> QED  BY <1>8, <1>11, <2>3, <3>1, <4>1 DEF Counted
    <3> QED  BY <2>1, <2>5, <3>2
  <2> QED  BY <2>4, <2>5
<1>12. \/ Observed(b, r) = [bucket |-> [f EXCEPT !.settle = @ + 1],
                             result |-> [steady |-> FALSE, ready |-> FALSE, window |-> 0, mean |-> 0]]
       \/ Observed(b, r) = [bucket |-> [f EXCEPT !.samples = w],
                            result |-> [steady |-> FALSE, ready |-> FALSE, window |-> 0, mean |-> 0]]
       \/ \E mean :
            /\ Len(w) = LearnWindow
            /\ Observed(b, r) =
                 [bucket |-> [f EXCEPT !.samples = <<>>, !.settle = 0,
                                       !.agg = IF LearningReady(x) THEN NoAggregate ELSE x],
                  result |-> [steady |-> TRUE, ready |-> LearningReady(x),
                              window |-> Mean(Field(w, "temp")), mean |-> mean]]
  BY ObservedIs, Zenon DEF f, w, x
<1> QED  BY <1>2, <1>9, <1>10, <1>11, <1>12, Zenon DEF k

-----------------------------------------------------------------------------
(* Learning: the inductive invariant.                                      *)

\* Learned offsets stay within their limits and obey the bias of their configuration.
OffsetsFit(cfg) == cfg.offsets \in Learned(cfg.curve, cfg.bias)

\* The monitor's copy is the configuration, but for learned offsets, or an older one.
CopyIsOlder ==
  /\ monitor.cfg.rev <= store.rev
  /\ monitor.cfg.rev = store.rev =>
       /\ monitor.cfg.curve = store.curve
       /\ monitor.cfg.bias = store.bias
       /\ monitor.cfg.epoch = store.epoch

EvidenceCounts == \A i \in 1..Len(observer) : Counted(observer[i], evidence[i])

LearnInv ==
  /\ LearnTypeOK
  /\ OffsetsFit(store) /\ OffsetsFit(monitor.cfg)
  /\ CopyIsOlder
  /\ EvidenceCounts
  /\ QuietLearningIsEarned

\* A configuration's fields, and those of one that is made.
LEMMA ConfigFields ==
    ASSUME NEW cfg \in Config
    PROVE  /\ cfg.rev \in Nat /\ cfg.epoch \in Nat /\ cfg.offsets \in Seq(Int)
           /\ cfg.curve \in Curves /\ cfg.curve \in FanCurves
           /\ cfg.bias \in Settings /\ cfg.bias \in Biases
BY LearningAssumption DEF Config

\* New buckets and no evidence, one for each point.
LEMMA NewObserver ==
    ASSUME NEW curve \in FanCurves
    PROVE  LET o == NewStableObserver(curve)
               e == NoEvidence(curve)
           IN  /\ o \in [1..Len(curve) -> Bucket] /\ e \in [1..Len(curve) -> Evidence]
               /\ o \in Seq(Bucket) /\ Len(o) = Len(curve)
               /\ e \in Seq(Evidence) /\ Len(e) = Len(curve)
               /\ \A i \in 1..Len(curve) : Counted(o[i], e[i])
<1> DEFINE n == Len(curve)
           none == [samples |-> 0, age |-> 0]
<1>1. n \in Nat
  BY CurveType
<1>2. NewBucket \in Bucket
  BY NewBucketType
<1>3. none \in Evidence
  <2>1. 0 \in 0..Enough /\ 0 \in Age
    <3>1. 0 \in Nat
      OBVIOUS
    <3>2. Enough \in Nat
      BY <3>1, Multiples
    <3> QED  BY <3>2, LearningAssumption DEF Age
  <2> QED  BY <2>1 DEF Evidence, Enough
<1>4. Counted(NewBucket, none)
  BY <1>3, NothingCounted
<1> HIDE DEF n, none
<1>5. NewStableObserver(curve) = [i \in 1..n |-> NewBucket] /\ NoEvidence(curve) = [i \in 1..n |-> none]
  BY DEF NewStableObserver, NoEvidence, n, none
<1>6. /\ [i \in 1..n |-> NewBucket] \in [1..n -> Bucket] /\ [i \in 1..n |-> NewBucket] \in Seq(Bucket)
      /\ Len([i \in 1..n |-> NewBucket]) = n
  BY <1>1, <1>2
<1>7. /\ [i \in 1..n |-> none] \in [1..n -> Evidence] /\ [i \in 1..n |-> none] \in Seq(Evidence)
      /\ Len([i \in 1..n |-> none]) = n
  BY <1>1, <1>3
<1>8. \A i \in 1..n : NewStableObserver(curve)[i] = NewBucket /\ NoEvidence(curve)[i] = none
  BY <1>5
<1> QED  BY <1>4, <1>5, <1>6, <1>7, <1>8 DEF n

\* The first states have learned nothing.
LEMMA NothingLearned ==
    NoOutcome \in [bucket : {0}, window : Int, mean : Int, delta : {0},
                   samples : 0..Enough, age : Age]
<1>1. 0 \in 0..Enough /\ 0 \in Age
  <2>1. 0 \in Nat
    OBVIOUS
  <2>2. Enough \in Nat
    BY <2>1, Multiples
  <2> QED  BY <2>2, LearningAssumption DEF Age
<1> QED  BY <1>1 DEF NoOutcome

\* A state without an outcome, whose buckets are new, needs no more than a good
\* configuration and a good copy of it.
LEMMA AnewKeeps ==
    ASSUME store' \in Config, monitor' \in [cfg : Config, dirty : BOOLEAN],
           OffsetsFit(store)', OffsetsFit(monitor.cfg)', CopyIsOlder',
           NEW curve \in FanCurves,
           observer' = NewStableObserver(curve), evidence' = NoEvidence(curve),
           outcome' = NoOutcome,
           count' \in [learns : Nat, edits : Nat, pauses : Nat], mix' \in Mixes
    PROVE  LearnInv'
<1> DEFINE o == NewStableObserver(curve)
           e == NoEvidence(curve)
<1>1. /\ o \in Seq(Bucket) /\ Len(o) = Len(curve) /\ e \in Seq(Evidence) /\ Len(e) = Len(curve)
      /\ \A i \in 1..Len(curve) : Counted(o[i], e[i])
  BY NewObserver
<1>2. Len(curve) \in Nat
  BY CurveType
<1> HIDE DEF o, e
<1>3. observer' = o /\ evidence' = e
  BY DEF o, e
<1>4. EvidenceCounts'
  BY <1>1, <1>3 DEF EvidenceCounts, Counted
<1>5. outcome' \in [bucket : 0..Len(observer'), window : Int, mean : Int, delta : Int,
                    samples : 0..(SteadyWindows * LearnWindow), age : Age]
  BY <1>1, <1>2, <1>3, NothingLearned DEF Enough
<1>6. LearnTypeOK'
  BY <1>1, <1>3, <1>5 DEF LearnTypeOK
<1>7. QuietLearningIsEarned'
  BY DEF QuietLearningIsEarned, NoOutcome
<1> QED  BY <1>4, <1>6, <1>7 DEF LearnInv

\* The copy at the head of a tick.
LEMMA FreshIs ==
    ASSUME LearnInv
    PROVE  /\ Fresh \in [cfg : Config, dirty : BOOLEAN] /\ Fresh.cfg \in Config
           /\ OffsetsFit(Fresh.cfg)
           /\ Fresh.cfg.rev = store.rev /\ Fresh.cfg.curve = store.curve
           /\ Fresh.cfg.bias = store.bias /\ Fresh.cfg.epoch = store.epoch
<1>1. store \in Config /\ monitor \in [cfg : Config, dirty : BOOLEAN]
  BY DEF LearnInv, LearnTypeOK
<1>2. CASE store.rev = monitor.cfg.rev
  BY <1>1, <1>2 DEF LearnInv, Fresh, CopyIsOlder
<1>3. CASE store.rev # monitor.cfg.rev
  BY <1>1, <1>3 DEF LearnInv, Fresh
<1> QED  BY <1>2, <1>3

\* The buckets and the evidence of a tick, one for each point of the curve.
LEMMA BucketsAre ==
    ASSUME LearnInv, NEW curve \in FanCurves
    PROVE  /\ Buckets(curve) \in [1..Len(curve) -> Bucket]
           /\ Kept(curve) \in [1..Len(curve) -> Evidence]
           /\ \A i \in 1..Len(curve) : Counted(Buckets(curve)[i], Kept(curve)[i])
<1> DEFINE n == Len(curve)
<1>1. observer \in Seq(Bucket) /\ evidence \in Seq(Evidence) /\ Len(observer) = Len(evidence)
  BY DEF LearnInv, LearnTypeOK
<1>2. CASE n = Len(observer)
  <2>1. observer \in [1..n -> Bucket] /\ evidence \in [1..n -> Evidence]
    BY <1>1, <1>2
  <2>2. \A i \in 1..n : Counted(observer[i], evidence[i])
    BY <1>2 DEF LearnInv, EvidenceCounts
  <2>3. Buckets(curve) = observer /\ Kept(curve) = evidence
    BY <1>1, <1>2 DEF Buckets, Kept
  <2> QED  BY <2>1, <2>2, <2>3
<1>3. CASE n # Len(observer)
  <2>1. Buckets(curve) = NewStableObserver(curve) /\ Kept(curve) = NoEvidence(curve)
    BY <1>1, <1>3 DEF Buckets, Kept
  <2> QED  BY <2>1, NewObserver
<1> QED  BY <1>2, <1>3

\* A tick, with its bucket, its observation and its evidence by name.
TickBucket(r) == pickBucketIndex(r.temp, Fresh.cfg.curve)
TickFound(ticks, i) == Aged(Buckets(Fresh.cfg.curve)[i], ticks)
TickSeen(r, ticks) == Observed(TickFound(ticks, TickBucket(r)), r)
TickHad(ticks, i) == LaterEvidence(Kept(Fresh.cfg.curve)[i], ticks)
TickKnown(r, ticks) ==
  KnownBy(TickHad(ticks, TickBucket(r)), Jump(TickFound(ticks, TickBucket(r)), r))
TickDeltas(r, ticks) ==
  LET result == TickSeen(r, ticks).result
  IN  IF AllowsLongTermOffsetLearning(result) THEN LearnSteps(result.mean) ELSE {0}

\* A tick in these names.
LEMMA TickIs ==
    ASSUME LearnInv, NEW r \in Readings, NEW ticks \in Nat, LearningTick(r, ticks)
    PROVE  LET cfg == Fresh.cfg
               n == Len(cfg.curve)
               idx == TickBucket(r)
               result == TickSeen(r, ticks).result
               known == TickKnown(r, ticks)
           IN  /\ idx \in 1..n
               /\ observer' = [[i \in 1..n |-> TickFound(ticks, i)]
                                 EXCEPT ![idx] = TickSeen(r, ticks).bucket]
               /\ evidence' = [i \in 1..n |->
                                 IF i # idx THEN TickHad(ticks, i)
                                 ELSE IF result.ready THEN NoEvidence(cfg.curve)[i] ELSE known]
               /\ UNCHANGED <<store, mix>>
               /\ \E delta \in TickDeltas(r, ticks) :
                    LET offsets == LearnSteadyOffset(cfg.curve, cfg.offsets, cfg.bias, idx, delta)
                        changed == offsets # cfg.offsets
                    IN  /\ monitor' = [cfg |-> [cfg EXCEPT !.offsets = offsets],
                                       dirty |-> Fresh.dirty \/ changed]
                        /\ outcome' = IF ~result.steady THEN NoOutcome
                                      ELSE [bucket |-> idx, window |-> result.window,
                                            mean |-> result.mean, delta |-> delta,
                                            samples |-> known.samples, age |-> known.age]
                        /\ count' = [count EXCEPT !.learns = IF changed THEN @ + 1 ELSE @,
                                                  !.pauses = IF ticks > 1 THEN @ + 1 ELSE @]
<1> DEFINE cfg == Fresh.cfg
           n == Len(cfg.curve)
           idx == TickBucket(r)
           buckets == [i \in 1..n |-> TickFound(ticks, i)]
           old == Kept(cfg.curve)[idx]
           jump == buckets[idx].seen /\ Jumped(buckets[idx].last, r)
           known == [samples |-> Min({(IF jump THEN 0 ELSE old.samples) + 1,
                                      SteadyWindows * LearnWindow}),
                     age |-> IF jump \/ old.samples = 0 THEN 0 ELSE Older(old.age, ticks)]
           seen == Observed(buckets[idx], r)
           deltas == IF AllowsLongTermOffsetLearning(seen.result)
                       THEN LearnSteps(seen.result.mean) ELSE {0}
<1>0. idx \in 1..n /\ Kept(cfg.curve) \in [1..n -> Evidence]
  <2>1. cfg.curve \in FanCurves /\ r.temp \in Int
    BY FreshIs, ConfigFields DEF Readings
  <2> QED  BY <2>1, BucketExists, BucketsAre DEF TickBucket
<1>1. buckets[idx] = TickFound(ticks, idx)
  BY <1>0
<1>2. seen = TickSeen(r, ticks) /\ deltas = TickDeltas(r, ticks)
  BY <1>1 DEF TickSeen, TickDeltas
<1>3. known = TickKnown(r, ticks)
  <2>1. jump = Jump(TickFound(ticks, idx), r)
    BY <1>1 DEF Jump
  <2>2. TickHad(ticks, idx).samples = old.samples
    BY DEF TickHad, LaterEvidence
  <2>3. TickHad(ticks, idx).age = IF old.samples = 0 THEN 0 ELSE Older(old.age, ticks)
    BY DEF TickHad, LaterEvidence
  <2> HIDE DEF old, idx
  <2>4. TickKnown(r, ticks)
          = [samples |-> Min({(IF jump THEN 0 ELSE old.samples) + 1, Enough}),
             age |-> IF jump THEN 0 ELSE TickHad(ticks, idx).age]
    BY <2>1, <2>2, Zenon DEF TickKnown, KnownBy, idx
  <2> HIDE DEF jump
  <2> QED  BY <2>3, <2>4 DEF Enough
<1>4. /\ observer' = [buckets EXCEPT ![idx] = seen.bucket]
      /\ evidence' = [i \in 1..n |->
                        IF i # idx THEN LET e == Kept(cfg.curve)[i]
                                        IN  [e EXCEPT !.age = IF e.samples = 0 THEN 0
                                                              ELSE Older(@, ticks)]
                        ELSE IF seen.result.ready THEN NoEvidence(cfg.curve)[i] ELSE known]
      /\ \E delta \in deltas :
           LET offsets == LearnSteadyOffset(cfg.curve, cfg.offsets, cfg.bias, idx, delta)
               changed == offsets # cfg.offsets
           IN  /\ changed => count.learns < mix.learns
               /\ monitor' = [cfg |-> [cfg EXCEPT !.offsets = offsets],
                              dirty |-> Fresh.dirty \/ changed]
               /\ outcome' = IF ~seen.result.steady THEN NoOutcome
                             ELSE [bucket |-> idx, window |-> seen.result.window,
                                   mean |-> seen.result.mean, delta |-> delta,
                                   samples |-> known.samples, age |-> known.age]
               /\ count' = [count EXCEPT !.learns = IF changed THEN @ + 1 ELSE @,
                                         !.pauses = IF ticks > 1 THEN @ + 1 ELSE @]
      /\ UNCHANGED <<store, mix>>
  BY Zenon DEF LearningTick, TickBucket, TickFound
<1> HIDE DEF seen, known, deltas, buckets
<1>7. ASSUME NEW i \in 1..n
      PROVE  LET e == Kept(cfg.curve)[i]
             IN  [e EXCEPT !.age = IF e.samples = 0 THEN 0 ELSE Older(@, ticks)] = TickHad(ticks, i)
  <2> DEFINE e == Kept(cfg.curve)[i]
             age == IF e.samples = 0 THEN 0 ELSE Older(e.age, ticks)
  <2>1. e \in Evidence
    BY <1>0
  <2>2. TickHad(ticks, i) = [samples |-> e.samples, age |-> age]
    BY DEF TickHad, LaterEvidence
  <2> HIDE DEF e
  <2>3. [e EXCEPT !.age = age] = [samples |-> e.samples, age |-> age]
    <3> HIDE DEF age
    <3> QED  BY <2>1 DEF Evidence
  <2> QED  BY <2>2, <2>3 DEF e
<1>8. evidence' = [i \in 1..n |->
                     IF i # idx THEN TickHad(ticks, i)
                     ELSE IF seen.result.ready THEN NoEvidence(cfg.curve)[i] ELSE known]
  BY <1>4, <1>7
<1> QED  BY <1>0, <1>2, <1>3, <1>4, <1>8, Zenon DEF buckets

-----------------------------------------------------------------------------
(* Learning: what the steps keep.                                          *)

\* A tick slows the fan only for a window that completes the aggregate.
LEMMA DeltaIs ==
    ASSUME NEW result \in Result, NEW delta \in Int,
           delta \in IF AllowsLongTermOffsetLearning(result) THEN LearnSteps(result.mean) ELSE {0}
    PROVE  delta < 0 => result.steady /\ result.ready
<1> SUFFICES ASSUME delta < 0
             PROVE  result.steady /\ result.ready
  OBVIOUS
<1>1. AllowsLongTermOffsetLearning(result) /\ delta \in LearnSteps(result.mean)
  OBVIOUS
<1>2. delta \notin HotSteps
  BY LearningAssumption
<1>3. result.mean < LowTarget
  BY <1>1, <1>2 DEF LearnSteps
<1>4. result.mean \in Int /\ LowTarget \in Int
  BY LearningAssumption DEF Result, LowTarget
<1>5. ~(result.mean >= LowTarget)
  BY <1>3, <1>4
<1> QED  BY <1>1, <1>5 DEF AllowsLongTermOffsetLearning

\* The steps of learning are integers.
LEMMA DeltaIsInt ==
    ASSUME NEW r, NEW ticks, NEW delta \in TickDeltas(r, ticks)
    PROVE  delta \in Int
<1>1. HotSteps \subseteq Int /\ QuietSteps \subseteq Int
  BY LearningAssumption
<1> QED  BY <1>1 DEF TickDeltas, LearnSteps

\* What a tick has of its bucket.
LEMMA TickHas ==
    ASSUME LearnInv, NEW r \in Readings, NEW ticks \in Nat, TickBucket(r) \in 1..Len(Fresh.cfg.curve)
    PROVE  LET n == Len(Fresh.cfg.curve)
               seen == TickSeen(r, ticks)
               known == TickKnown(r, ticks)
           IN  /\ \A i \in 1..n :
                    /\ TickFound(ticks, i) \in Bucket /\ TickHad(ticks, i) \in Evidence
                    /\ Counted(TickFound(ticks, i), TickHad(ticks, i))
               /\ seen.bucket \in Bucket /\ seen.result \in Result
               /\ known \in Evidence
               /\ ~seen.result.ready => Counted(seen.bucket, known)
               /\ seen.result.ready =>
                    /\ known.samples = Enough /\ known.age >= MinDuration
                    /\ Counted(seen.bucket, [samples |-> 0, age |-> 0])
<1> DEFINE curve == Fresh.cfg.curve
           idx == TickBucket(r)
<1>1. curve \in FanCurves
  BY FreshIs, ConfigFields
<1>2. ASSUME NEW i \in 1..Len(curve)
      PROVE  /\ TickFound(ticks, i) \in Bucket /\ TickHad(ticks, i) \in Evidence
             /\ Counted(TickFound(ticks, i), TickHad(ticks, i))
  <2>1. /\ Buckets(curve)[i] \in Bucket /\ Kept(curve)[i] \in Evidence
        /\ Counted(Buckets(curve)[i], Kept(curve)[i])
    BY <1>1, BucketsAre
  <2> QED  BY <2>1, AgedCounted, AgedIs DEF TickFound, TickHad
<1>3. TickSeen(r, ticks).bucket \in Bucket /\ TickSeen(r, ticks).result \in Result
  BY <1>2, ObservedType DEF TickSeen
<1>4. /\ TickKnown(r, ticks) \in Evidence
      /\ ~TickSeen(r, ticks).result.ready => Counted(TickSeen(r, ticks).bucket, TickKnown(r, ticks))
      /\ TickSeen(r, ticks).result.ready =>
           /\ TickKnown(r, ticks).samples = Enough /\ TickKnown(r, ticks).age >= MinDuration
           /\ Counted(TickSeen(r, ticks).bucket, [samples |-> 0, age |-> 0])
  BY <1>2, ObservedCounts DEF TickSeen, TickKnown
<1> QED  BY <1>2, <1>3, <1>4

\* A tick changes no more of the configuration it works on than its offsets.
LEMMA OnlyOffsets ==
    ASSUME NEW cfg \in Config, NEW o \in Seq(Int)
    PROVE  LET new == [cfg EXCEPT !.offsets = o]
           IN  /\ new \in Config /\ new.offsets = o
               /\ new.rev = cfg.rev /\ new.curve = cfg.curve
               /\ new.bias = cfg.bias /\ new.epoch = cfg.epoch
BY DEF Config

\* What a tick learns fits the curve and the bias it learns for; when it has
\* learned something, the learned curve rises.
LEMMA TickLearns ==
    ASSUME LearnInv, NEW r \in Readings, NEW ticks \in Nat, LearningTick(r, ticks)
    PROVE  /\ monitor' \in [cfg : Config, dirty : BOOLEAN]
           /\ OffsetsFit(monitor.cfg)' /\ CopyIsOlder'
           /\ monitor'.cfg.curve \in FanCurves /\ monitor'.cfg.bias \in Biases
           /\ count' \in [learns : Nat, edits : Nat, pauses : Nat]
           /\ count'.edits = count.edits
           /\ count'.learns > count.learns => Rising(monitor'.cfg.curve, monitor'.cfg.offsets)
<1> DEFINE cfg == Fresh.cfg
           idx == TickBucket(r)
<1>1. PICK delta \in TickDeltas(r, ticks) :
        LET offsets == LearnSteadyOffset(cfg.curve, cfg.offsets, cfg.bias, idx, delta)
            changed == offsets # cfg.offsets
        IN  /\ monitor' = [cfg |-> [cfg EXCEPT !.offsets = offsets],
                           dirty |-> Fresh.dirty \/ changed]
            /\ count' = [count EXCEPT !.learns = IF changed THEN @ + 1 ELSE @,
                                      !.pauses = IF ticks > 1 THEN @ + 1 ELSE @]
  BY TickIs, ZenonT(30)
<1> DEFINE offsets == LearnSteadyOffset(cfg.curve, cfg.offsets, cfg.bias, idx, delta)
           changed == offsets # cfg.offsets
<1>2. /\ cfg \in Config /\ cfg.curve \in FanCurves /\ cfg.bias \in Biases
      /\ cfg.offsets \in Learned(cfg.curve, cfg.bias) /\ Fresh.dirty \in BOOLEAN
      /\ cfg.rev = store.rev /\ cfg.curve = store.curve
      /\ cfg.bias = store.bias /\ cfg.epoch = store.epoch
  BY FreshIs, ConfigFields DEF OffsetsFit
<1>3. idx \in 1..Len(cfg.curve) /\ UNCHANGED store
  BY TickIs, ZenonT(30)
<1>4. /\ offsets \in Learned(cfg.curve, cfg.bias)
      /\ delta # 0 => Rising(cfg.curve, offsets)
  BY <1>2, <1>3, LearnFits, DeltaIsInt
<1>5. changed => delta # 0
  BY DEF LearnSteadyOffset
<1>6. offsets \in Seq(Int)
  BY <1>2, <1>4, LearnedIsSeq
<1> HIDE DEF cfg, idx, offsets
<1>7. monitor' = [cfg |-> [cfg EXCEPT !.offsets = offsets], dirty |-> Fresh.dirty \/ changed]
  BY <1>1 DEF cfg, idx, offsets
<1>8. count' = [count EXCEPT !.learns = IF changed THEN @ + 1 ELSE @,
                             !.pauses = IF ticks > 1 THEN @ + 1 ELSE @]
  BY <1>1 DEF cfg, idx, offsets
<1>9. LET new == monitor'.cfg
      IN  /\ new \in Config /\ new.offsets = offsets
          /\ new.rev = cfg.rev /\ new.curve = cfg.curve
          /\ new.bias = cfg.bias /\ new.epoch = cfg.epoch
  BY <1>2, <1>6, <1>7, OnlyOffsets
<1>10. monitor' \in [cfg : Config, dirty : BOOLEAN]
  BY <1>2, <1>7, <1>9
<1>11. OffsetsFit(monitor.cfg)'
  <2>1. monitor'.cfg.offsets \in Learned(monitor'.cfg.curve, monitor'.cfg.bias)
    BY <1>4, <1>9
  <2> QED  BY <2>1 DEF OffsetsFit
<1>12. CopyIsOlder'
  <2>1. store.rev \in Nat
    BY <1>2 DEF Config
  <2> QED  BY <1>2, <1>3, <1>9, <2>1 DEF CopyIsOlder
<1>13. count \in [learns : Nat, edits : Nat, pauses : Nat]
  BY DEF LearnInv, LearnTypeOK
<1>14. /\ count' \in [learns : Nat, edits : Nat, pauses : Nat]
       /\ count'.edits = count.edits
       /\ count'.learns > count.learns => changed
  <2> HIDE DEF changed
  <2>1. /\ count'.learns = IF changed THEN count.learns + 1 ELSE count.learns
        /\ count'.pauses = IF ticks > 1 THEN count.pauses + 1 ELSE count.pauses
        /\ count'.edits = count.edits
    BY <1>8, <1>13
  <2>2. count' = [learns |-> count'.learns, edits |-> count'.edits, pauses |-> count'.pauses]
    BY <1>8, <1>13
  <2>3. count.learns \in Nat /\ count.edits \in Nat /\ count.pauses \in Nat
    BY <1>13
  <2> QED  BY <2>1, <2>2, <2>3
<1> QED  BY <1>2, <1>4, <1>5, <1>9, <1>10, <1>11, <1>12, <1>14

\* A tick keeps the buckets and what the evidence says of them.
LEMMA TickCounts ==
    ASSUME LearnInv, NEW r \in Readings, NEW ticks \in Nat, LearningTick(r, ticks)
    PROVE  /\ observer' \in Seq(Bucket) /\ evidence' \in Seq(Evidence)
           /\ Len(observer') = Len(Fresh.cfg.curve) /\ Len(evidence') = Len(observer')
           /\ EvidenceCounts'
<1> DEFINE curve == Fresh.cfg.curve
           n == Len(curve)
           idx == TickBucket(r)
           seen == TickSeen(r, ticks)
           known == TickKnown(r, ticks)
           none == [samples |-> 0, age |-> 0]
           found == [i \in 1..n |-> TickFound(ticks, i)]
           had(i) == IF i # idx THEN TickHad(ticks, i)
                     ELSE IF seen.result.ready THEN NoEvidence(curve)[i] ELSE known
<1>1. curve \in FanCurves /\ n \in Nat
  BY FreshIs, ConfigFields, CurveType
<1>2. /\ idx \in 1..n /\ observer' = [found EXCEPT ![idx] = seen.bucket]
      /\ evidence' = [i \in 1..n |-> had(i)]
  BY TickIs, ZenonT(30)
<1>3. \A i \in 1..n : /\ TickFound(ticks, i) \in Bucket /\ TickHad(ticks, i) \in Evidence
                      /\ Counted(TickFound(ticks, i), TickHad(ticks, i))
  BY <1>2, TickHas
<1>4. /\ seen.bucket \in Bucket /\ known \in Evidence
      /\ ~seen.result.ready => Counted(seen.bucket, known)
      /\ seen.result.ready => Counted(seen.bucket, none)
  BY <1>2, TickHas
<1>5. \A i \in 1..n : NoEvidence(curve)[i] = none /\ NoEvidence(curve)[i] \in Evidence
  <2>1. \A i \in 1..n : NoEvidence(curve)[i] = none
    BY DEF NoEvidence
  <2>2. NoEvidence(curve) \in [1..n -> Evidence]
    BY <1>1, NewObserver
  <2> QED  BY <2>1, <2>2
<1> HIDE DEF curve, n, idx, seen, known, none
<1>6. \A i \in 1..n : had(i) \in Evidence
  BY <1>3, <1>4, <1>5
<1>7. evidence' \in [1..n -> Evidence] /\ observer' \in [1..n -> Bucket]
  BY <1>2, <1>3, <1>4, <1>6
<1>8. /\ observer' \in Seq(Bucket) /\ Len(observer') = n
      /\ evidence' \in Seq(Evidence) /\ Len(evidence') = n
  BY <1>1, <1>7
<1>9. ASSUME NEW i \in 1..n
      PROVE  Counted(observer'[i], evidence'[i])
  <2>1. CASE i = idx
    <3>1. observer'[i] = seen.bucket
      BY <1>2, <2>1
    <3>2. evidence'[i] = IF seen.result.ready THEN none ELSE known
      BY <1>2, <1>5, <2>1
    <3> QED  BY <1>4, <3>1, <3>2
  <2>2. CASE i # idx
    <3>1. observer'[i] = TickFound(ticks, i) /\ evidence'[i] = TickHad(ticks, i)
      BY <1>2, <2>2
    <3> QED  BY <1>3, <3>1
  <2> QED  BY <2>1, <2>2
<1>10. EvidenceCounts'
  BY <1>8, <1>9 DEF EvidenceCounts, Counted
<1> QED  BY <1>8, <1>10 DEF n, curve

\* What a tick learns has its evidence.
LEMMA TickEarns ==
    ASSUME LearnInv, NEW r \in Readings, NEW ticks \in Nat, LearningTick(r, ticks)
    PROVE  /\ outcome' \in [bucket : 0..Len(Fresh.cfg.curve), window : Int, mean : Int, delta : Int,
                            samples : 0..Enough, age : Age]
           /\ QuietLearningIsEarned'
<1> DEFINE n == Len(Fresh.cfg.curve)
           idx == TickBucket(r)
           result == TickSeen(r, ticks).result
           known == TickKnown(r, ticks)
<1>1. PICK delta \in TickDeltas(r, ticks) :
        outcome' = IF ~result.steady THEN NoOutcome
                   ELSE [bucket |-> idx, window |-> result.window, mean |-> result.mean,
                         delta |-> delta, samples |-> known.samples, age |-> known.age]
  BY TickIs, ZenonT(30)
<1>2. n \in Nat /\ idx \in 1..n
  <2>1. idx \in 1..n
    BY TickIs, ZenonT(30)
  <2> QED  BY <2>1, FreshIs, ConfigFields, CurveType
<1>3. delta \in Int
  BY DeltaIsInt
<1>4. /\ result \in Result /\ known \in Evidence
      /\ result.ready => known.samples = Enough /\ known.age >= MinDuration
  BY <1>2, TickHas
<1>5. delta < 0 => result.steady /\ result.ready
  BY <1>3, <1>4, DeltaIs DEF TickDeltas
<1>6. Enough \in Nat
  BY <1>2, Multiples
<1> HIDE DEF n, idx, result, known
<1>7. CASE ~result.steady
  <2>1. outcome' = NoOutcome
    BY <1>1, <1>7
  <2>2. outcome' \in [bucket : 0..n, window : Int, mean : Int, delta : Int,
                      samples : 0..Enough, age : Age]
    BY <1>2, <2>1, NothingLearned
  <2>3. outcome'.delta = 0
    BY <2>1 DEF NoOutcome
  <2> QED  BY <2>2, <2>3 DEF QuietLearningIsEarned, n
<1>8. CASE result.steady
  <2>1. outcome' = [bucket |-> idx, window |-> result.window, mean |-> result.mean,
                    delta |-> delta, samples |-> known.samples, age |-> known.age]
    BY <1>1, <1>8
  <2>2. known.samples \in 0..Enough /\ known.age \in Age
    BY <1>4 DEF Evidence, Enough
  <2>3. result.window \in Int /\ result.mean \in Int /\ idx \in 0..n
    BY <1>2, <1>4 DEF Result
  <2>4. outcome' \in [bucket : 0..n, window : Int, mean : Int, delta : Int,
                      samples : 0..Enough, age : Age]
    BY <1>3, <2>1, <2>2, <2>3
  <2>5. QuietLearningIsEarned'
    <3> SUFFICES ASSUME outcome'.delta < 0
                 PROVE  outcome'.samples >= Enough /\ outcome'.age >= MinDuration
      BY DEF QuietLearningIsEarned, Enough
    <3>1. known.samples = Enough /\ known.age >= MinDuration
      BY <1>4, <1>5, <2>1
    <3> QED  BY <1>6, <2>1, <3>1
  <2> QED  BY <2>4, <2>5 DEF n
<1> QED  BY <1>7, <1>8

\* A tick keeps the invariant.
LEMMA LearningTickKeeps ==
    ASSUME LearnInv, NEW r \in Readings, NEW ticks \in Nat, LearningTick(r, ticks)
    PROVE  LearnInv'
<1>1. /\ store' = store /\ mix' = mix
  BY TickIs, ZenonT(30)
<1>2. store \in Config /\ mix \in Mixes /\ OffsetsFit(store)
  BY DEF LearnInv, LearnTypeOK
<1>3. OffsetsFit(store)'
  BY <1>1, <1>2 DEF OffsetsFit
<1>4. LearnTypeOK'
  BY <1>1, <1>2, TickLearns, TickCounts, TickEarns DEF LearnTypeOK, Enough
<1> QED  BY <1>3, <1>4, TickLearns, TickCounts, TickEarns DEF LearnInv

\* The first states satisfy the invariant.
LEMMA LearnStarts == LearnInit => LearnInv
<1> SUFFICES ASSUME LearnInit
             PROVE  LearnInv
  OBVIOUS
<1>0. PICK bias \in Settings, m \in Mixes :
        \E curve \in m.curves :
          /\ mix = m
          /\ store = [rev |-> 0, curve |-> curve, bias |-> bias,
                      offsets |-> ZeroOffsets(curve), epoch |-> 0]
          /\ monitor = [cfg |-> store, dirty |-> FALSE]
          /\ observer = NewStableObserver(curve)
          /\ evidence = NoEvidence(curve)
          /\ outcome = NoOutcome
          /\ count = [learns |-> 0, edits |-> 0, pauses |-> 0]
  BY DEF LearnInit
<1>1. PICK curve \in m.curves :
        /\ mix = m
        /\ store = [rev |-> 0, curve |-> curve, bias |-> bias,
                    offsets |-> ZeroOffsets(curve), epoch |-> 0]
        /\ monitor = [cfg |-> store, dirty |-> FALSE]
        /\ observer = NewStableObserver(curve)
        /\ evidence = NoEvidence(curve)
        /\ outcome = NoOutcome
        /\ count = [learns |-> 0, edits |-> 0, pauses |-> 0]
  BY <1>0
<1>2. curve \in Curves /\ curve \in FanCurves /\ bias \in Biases
  BY LearningAssumption
<1>3. ZeroOffsets(curve) \in Learned(curve, bias) /\ ZeroOffsets(curve) \in Seq(Int)
  BY <1>2, ZeroFits, LearnedIsSeq
<1>4. store \in Config /\ store.offsets = ZeroOffsets(curve)
  BY <1>1, <1>2, <1>3 DEF Config
<1>5. OffsetsFit(store) /\ OffsetsFit(monitor.cfg) /\ CopyIsOlder
  BY <1>1, <1>3 DEF OffsetsFit, CopyIsOlder
<1>6. /\ observer \in Seq(Bucket) /\ Len(observer) = Len(curve)
      /\ evidence \in Seq(Evidence) /\ Len(evidence) = Len(curve)
      /\ \A i \in 1..Len(curve) : Counted(observer[i], evidence[i])
  BY <1>1, <1>2, NewObserver
<1>7. Len(curve) \in Nat
  BY <1>2, CurveType
<1>8. outcome \in [bucket : 0..Len(observer), window : Int, mean : Int, delta : Int,
                   samples : 0..(SteadyWindows * LearnWindow), age : Age]
  BY <1>1, <1>6, <1>7, NothingLearned DEF Enough
<1>9. LearnTypeOK
  BY <1>1, <1>4, <1>6, <1>8 DEF LearnTypeOK
<1>10. EvidenceCounts /\ QuietLearningIsEarned
  BY <1>1, <1>6 DEF EvidenceCounts, QuietLearningIsEarned, NoOutcome
<1> QED  BY <1>5, <1>9, <1>10 DEF LearnInv

\* A tick without a sample keeps the invariant.
LEMMA InterruptedKeeps ==
    ASSUME LearnInv, Interrupted
    PROVE  LearnInv'
<1>1. /\ monitor' = Fresh /\ store' = store
      /\ observer' = NewStableObserver(Fresh.cfg.curve)
      /\ evidence' = NoEvidence(Fresh.cfg.curve) /\ outcome' = NoOutcome
      /\ count' = count /\ mix' = mix
  BY DEF Interrupted
<1>2. store \in Config /\ count \in [learns : Nat, edits : Nat, pauses : Nat] /\ mix \in Mixes
  BY DEF LearnInv, LearnTypeOK
<1>3. Fresh.cfg.curve \in FanCurves /\ Fresh \in [cfg : Config, dirty : BOOLEAN]
  BY FreshIs, ConfigFields
<1>4. OffsetsFit(store)' /\ OffsetsFit(monitor.cfg)' /\ CopyIsOlder'
  <2>1. store.rev \in Nat
    BY <1>2, ConfigFields
  <2> QED  BY <1>1, <2>1, FreshIs DEF LearnInv, OffsetsFit, CopyIsOlder
<1> QED  BY <1>1, <1>2, <1>3, <1>4, AnewKeeps

\* A save writes the monitor's copy, made from the configuration as it is, or
\* leaves the configuration alone.
LEMMA SavedIs ==
    ASSUME LearnInv
    PROVE  LET new == Saved(monitor.cfg)
           IN  /\ new \in Config /\ OffsetsFit(new)
               /\ new.rev >= store.rev /\ new.curve = store.curve
               /\ new.bias = store.bias /\ new.epoch = store.epoch
               /\ new = store \/ new.curve = monitor.cfg.curve
<1> DEFINE cfg == monitor.cfg
           new == Saved(cfg)
<1>1. store \in Config /\ cfg \in Config /\ OffsetsFit(store) /\ OffsetsFit(cfg)
  BY DEF LearnInv, LearnTypeOK
<1>2. store.rev \in Nat
  BY <1>1, ConfigFields
<1>3. CASE store.rev # cfg.rev
  <2>1. new = store
    BY <1>3 DEF Saved
  <2> QED  BY <1>1, <1>2, <2>1
<1>4. CASE store.rev = cfg.rev
  <2>1. cfg.curve = store.curve /\ cfg.bias = store.bias /\ cfg.epoch = store.epoch
    BY <1>4 DEF LearnInv, CopyIsOlder
  <2> HIDE DEF cfg
  <2>2. new = [store EXCEPT !.rev = store.rev + 1, !.offsets = cfg.offsets,
                            !.bias = cfg.bias, !.epoch = cfg.epoch]
    BY <1>4 DEF Saved
  <2>3. /\ new \in Config /\ new.rev = store.rev + 1 /\ new.offsets = cfg.offsets
        /\ new.curve = store.curve /\ new.bias = cfg.bias /\ new.epoch = cfg.epoch
    <3>1. new = [rev |-> store.rev + 1, curve |-> store.curve, bias |-> cfg.bias,
                 offsets |-> cfg.offsets, epoch |-> cfg.epoch]
      <4> HIDE DEF new
      <4> QED  BY <1>1, <2>2 DEF Config
    <3>2. /\ cfg.epoch \in Nat /\ cfg.bias \in Settings /\ cfg.offsets \in Seq(Int)
          /\ store.curve \in Curves
      BY <1>1, ConfigFields
    <3> HIDE DEF new
    <3> QED  BY <1>2, <3>1, <3>2 DEF Config
  <2> QED  BY <1>1, <1>2, <2>1, <2>3 DEF OffsetsFit, cfg
<1> QED  BY <1>3, <1>4

\* The state of a monitor that has just taken the saved configuration.
LEMMA SavedCopy ==
    ASSUME LearnInv, store' = Saved(monitor.cfg), monitor' = [cfg |-> store', dirty |-> FALSE]
    PROVE  /\ store' \in Config /\ monitor' \in [cfg : Config, dirty : BOOLEAN]
           /\ OffsetsFit(store)' /\ OffsetsFit(monitor.cfg)' /\ CopyIsOlder'
           /\ store'.curve \in FanCurves
<1>1. store' \in Config /\ OffsetsFit(store')
  BY SavedIs
<1>2. store'.rev \in Nat /\ store'.curve \in FanCurves
  BY <1>1, ConfigFields
<1> QED  BY <1>1, <1>2 DEF OffsetsFit, CopyIsOlder

\* A save keeps the invariant.
LEMMA SaveKeeps ==
    ASSUME LearnInv, Save
    PROVE  LearnInv'
<1>1. /\ store' = Saved(monitor.cfg) /\ monitor' = [cfg |-> store', dirty |-> FALSE]
      /\ outcome' = NoOutcome /\ count' = count /\ mix' = mix
  BY DEF Save
<1>2. /\ store' \in Config /\ monitor' \in [cfg : Config, dirty : BOOLEAN]
      /\ OffsetsFit(store)' /\ OffsetsFit(monitor.cfg)' /\ CopyIsOlder'
      /\ store'.curve \in FanCurves
  BY <1>1, SavedCopy
<1>3. /\ count \in [learns : Nat, edits : Nat, pauses : Nat] /\ mix \in Mixes
      /\ observer \in Seq(Bucket) /\ evidence \in Seq(Evidence) /\ Len(observer) = Len(evidence)
  BY DEF LearnInv, LearnTypeOK
<1>4. CASE store' = store
  <2>1. observer' = NewStableObserver(store'.curve) /\ evidence' = NoEvidence(store'.curve)
    BY <1>4 DEF Save
  <2> QED  BY <1>1, <1>2, <1>3, <2>1, AnewKeeps
<1>5. CASE store' # store
  <2>1. observer' = observer /\ evidence' = evidence
    BY <1>5 DEF Save
  <2>2. EvidenceCounts'
    BY <2>1 DEF LearnInv, EvidenceCounts, Counted
  <2>3. outcome' \in [bucket : 0..Len(observer'), window : Int, mean : Int, delta : Int,
                      samples : 0..(SteadyWindows * LearnWindow), age : Age]
    <3>1. Len(observer') \in Nat
      BY <1>3, <2>1
    <3> QED  BY <1>1, <3>1, NothingLearned DEF Enough
  <2>4. LearnTypeOK'
    BY <1>1, <1>2, <1>3, <2>1, <2>3 DEF LearnTypeOK
  <2>5. QuietLearningIsEarned'
    BY <1>1 DEF QuietLearningIsEarned, NoOutcome
  <2> QED  BY <1>2, <2>2, <2>4, <2>5 DEF LearnInv
<1> QED  BY <1>4, <1>5

\* A new monitor keeps the invariant.
LEMMA RestartKeeps ==
    ASSUME LearnInv, Restart
    PROVE  LearnInv'
<1>1. /\ store' = Saved(monitor.cfg) /\ monitor' = [cfg |-> store', dirty |-> FALSE]
      /\ observer' = NewStableObserver(store'.curve) /\ evidence' = NoEvidence(store'.curve)
      /\ outcome' = NoOutcome /\ count' = count /\ mix' = mix
  BY DEF Restart
<1>2. /\ store' \in Config /\ monitor' \in [cfg : Config, dirty : BOOLEAN]
      /\ OffsetsFit(store)' /\ OffsetsFit(monitor.cfg)' /\ CopyIsOlder'
      /\ store'.curve \in FanCurves
  BY <1>1, SavedCopy
<1>3. count \in [learns : Nat, edits : Nat, pauses : Nat] /\ mix \in Mixes
  BY DEF LearnInv, LearnTypeOK
<1> QED  BY <1>1, <1>2, <1>3, AnewKeeps

\* A commit keeps the invariant when the configuration it makes is good.
LEMMA CommitKeeps ==
    ASSUME LearnInv, NEW cfg \in Config, cfg.rev = store.rev, OffsetsFit(cfg), Commit(cfg)
    PROVE  LearnInv'
<1>1. /\ store' = [cfg EXCEPT !.rev = cfg.rev + 1] /\ count' = [count EXCEPT !.edits = count.edits + 1]
      /\ UNCHANGED <<monitor, observer, outcome, evidence, mix>>
  BY DEF Commit
<1>2. /\ store' \in Config /\ store'.rev = cfg.rev + 1 /\ cfg.rev \in Nat
      /\ store'.offsets = cfg.offsets /\ store'.curve = cfg.curve /\ store'.bias = cfg.bias
  BY <1>1 DEF Config
<1>3. LearnTypeOK /\ OffsetsFit(monitor.cfg) /\ CopyIsOlder /\ EvidenceCounts /\ QuietLearningIsEarned
  BY DEF LearnInv
<1>4. OffsetsFit(store)' /\ OffsetsFit(monitor.cfg)'
  BY <1>1, <1>2, <1>3 DEF OffsetsFit
<1>5. CopyIsOlder'
  <2>1. monitor.cfg.rev \in Nat
    BY <1>3, ConfigFields DEF LearnTypeOK
  <2> QED  BY <1>1, <1>2, <1>3, <2>1 DEF CopyIsOlder
<1>6. EvidenceCounts' /\ QuietLearningIsEarned'
  BY <1>1, <1>3 DEF EvidenceCounts, Counted, QuietLearningIsEarned
<1>7. count' \in [learns : Nat, edits : Nat, pauses : Nat]
  <2>1. count \in [learns : Nat, edits : Nat, pauses : Nat]
    BY <1>3 DEF LearnTypeOK
  <2> QED  BY <1>1, <2>1
<1>8. LearnTypeOK'
  BY <1>1, <1>2, <1>3, <1>7 DEF LearnTypeOK
<1> QED  BY <1>4, <1>5, <1>6, <1>8 DEF LearnInv

\* A user's change makes a good configuration.
LEMMA EditFits ==
    ASSUME NEW cfg \in Config, NEW o, NEW curve \in Curves, NEW bias \in Settings,
           NEW epoch \in Nat, o \in Learned(curve, bias)
    PROVE  LET new == [rev |-> cfg.rev, curve |-> curve, bias |-> bias,
                       offsets |-> o, epoch |-> epoch]
           IN  new \in Config /\ OffsetsFit(new)
<1>1. curve \in FanCurves /\ cfg.rev \in Nat
  BY ConfigFields, LearningAssumption
<1>2. o \in Seq(Int)
  BY <1>1, LearnedIsSeq, Zenon
<1> QED  BY <1>1, <1>2 DEF Config, OffsetsFit

\* A change of the curve keeps the invariant: the offsets are normalised for the new one.
LEMMA SetFanCurveKeeps ==
    ASSUME LearnInv, NEW curve \in Curves, SetFanCurve(curve)
    PROVE  LearnInv'
<1> DEFINE o == NormalizeOffsets(store.offsets, curve, store.bias)
           cfg == [rev |-> store.rev, curve |-> curve, bias |-> store.bias,
                   offsets |-> o, epoch |-> store.epoch]
<1>1. store \in Config /\ curve \in FanCurves
  BY LearningAssumption DEF LearnInv, LearnTypeOK
<1>2. o \in Learned(curve, store.bias)
  BY <1>1, ConfigFields, NormalizeFits
<1>3. cfg \in Config /\ OffsetsFit(cfg) /\ cfg.rev = store.rev
  BY <1>1, <1>2, ConfigFields, EditFits
<1>4. Commit([store EXCEPT !.curve = curve, !.offsets = o])
  BY DEF SetFanCurve
<1>5. [store EXCEPT !.curve = curve, !.offsets = o] = cfg
  <2> DEFINE new == [store EXCEPT !.curve = curve, !.offsets = o]
  <2>1. new = [store EXCEPT !.curve = curve, !.offsets = o]
    OBVIOUS
  <2> HIDE DEF o, new
  <2>2. new = cfg
    BY <1>1, <2>1 DEF Config
  <2> QED  BY <2>2 DEF new
<1>6. Commit(cfg)
  BY <1>4, <1>5
<1> QED  BY <1>3, <1>6, CommitKeeps

\* A change of the bias keeps the invariant: the offsets are normalised for the new one.
LEMMA SetLearningBiasKeeps ==
    ASSUME LearnInv, NEW bias \in Settings, SetLearningBias(bias)
    PROVE  LearnInv'
<1> DEFINE o == NormalizeOffsets(store.offsets, store.curve, bias)
           cfg == [rev |-> store.rev, curve |-> store.curve, bias |-> bias,
                   offsets |-> o, epoch |-> store.epoch]
<1>1. store \in Config /\ bias \in Biases
  BY LearningAssumption DEF LearnInv, LearnTypeOK
<1>2. o \in Learned(store.curve, bias)
  BY <1>1, ConfigFields, NormalizeFits
<1>3. cfg \in Config /\ OffsetsFit(cfg) /\ cfg.rev = store.rev
  BY <1>1, <1>2, ConfigFields, EditFits
<1>4. Commit([store EXCEPT !.bias = bias, !.offsets = o])
  BY DEF SetLearningBias
<1>5. [store EXCEPT !.bias = bias, !.offsets = o] = cfg
  <2> DEFINE new == [store EXCEPT !.bias = bias, !.offsets = o]
  <2>1. new = [store EXCEPT !.bias = bias, !.offsets = o]
    OBVIOUS
  <2> HIDE DEF o, new
  <2>2. new = cfg
    BY <1>1, <2>1 DEF Config
  <2> QED  BY <2>2 DEF new
<1>6. Commit(cfg)
  BY <1>4, <1>5
<1> QED  BY <1>3, <1>6, CommitKeeps

\* A reset keeps the invariant: its offsets are all 0.
LEMMA ResetKeeps ==
    ASSUME LearnInv, ResetLearnedOffsets
    PROVE  LearnInv'
<1> DEFINE o == ZeroOffsets(store.curve)
           cfg == [rev |-> store.rev, curve |-> store.curve, bias |-> store.bias,
                   offsets |-> o, epoch |-> store.epoch + 1]
<1>1. store \in Config
  BY DEF LearnInv, LearnTypeOK
<1>2. o \in Learned(store.curve, store.bias)
  BY <1>1, ConfigFields, ZeroFits
<1>3. cfg \in Config /\ OffsetsFit(cfg) /\ cfg.rev = store.rev
  BY <1>1, <1>2, ConfigFields, EditFits
<1>4. Commit([store EXCEPT !.offsets = o, !.epoch = store.epoch + 1])
  BY DEF ResetLearnedOffsets
<1>5. [store EXCEPT !.offsets = o, !.epoch = store.epoch + 1] = cfg
  <2> DEFINE new == [store EXCEPT !.offsets = o, !.epoch = store.epoch + 1]
  <2>1. new = [store EXCEPT !.offsets = o, !.epoch = store.epoch + 1]
    OBVIOUS
  <2> HIDE DEF o, new
  <2>2. new = cfg
    BY <1>1, <2>1 DEF Config
  <2> QED  BY <2>2 DEF new
<1>6. Commit(cfg)
  BY <1>4, <1>5
<1> QED  BY <1>3, <1>6, CommitKeeps

-----------------------------------------------------------------------------
(* Learning: the theorems.                                                 *)

\* What a behaviour's mix has: readings, curves and times between samples.
LEMMA MixIs ==
    ASSUME LearnInv
    PROVE  /\ mix.readings \subseteq Readings /\ mix.curves \subseteq Curves
           /\ {1} \cup Pauses \subseteq Nat
<1>1. mix \in Mixes
  BY DEF LearnInv, LearnTypeOK
<1> QED  BY <1>1, LearningAssumption

\* Every step keeps the invariant.
LEMMA LearnStepKeeps == LearnInv /\ [LearnNext]_learnVars => LearnInv'
<1> SUFFICES ASSUME LearnInv, [LearnNext]_learnVars
             PROVE  LearnInv'
  OBVIOUS
<1>1. ASSUME NEW r \in mix.readings, NEW ticks \in {1} \cup Pauses, LearningTick(r, ticks)
      PROVE  LearnInv'
  BY <1>1, MixIs, LearningTickKeeps
<1>2. CASE Interrupted
  BY <1>2, InterruptedKeeps
<1>3. CASE Save
  BY <1>3, SaveKeeps
<1>4. CASE Restart
  BY <1>4, RestartKeeps
<1>5. ASSUME NEW curve \in mix.curves, SetFanCurve(curve)
      PROVE  LearnInv'
  BY <1>5, MixIs, SetFanCurveKeeps
<1>6. ASSUME NEW bias \in Settings, SetLearningBias(bias)
      PROVE  LearnInv'
  BY <1>6, SetLearningBiasKeeps
<1>7. CASE ResetLearnedOffsets
  BY <1>7, ResetKeeps
<1>8. CASE UNCHANGED learnVars
  BY <1>8 DEF learnVars, LearnInv, LearnTypeOK, OffsetsFit, CopyIsOlder, EvidenceCounts, Counted,
              QuietLearningIsEarned
<1> QED  BY <1>1, <1>2, <1>3, <1>4, <1>5, <1>6, <1>7, <1>8 DEF LearnNext

\* The inductive invariant of learning: the offsets of the configuration and of the
\* monitor's copy obey the curve's limits and the bias, the copy is the
\* configuration or an older one, and the evidence covers what a bucket counts.
THEOREM LearnOrder == LearnSpec => []LearnInv
<1>1. LearnInit => LearnInv
  BY LearnStarts
<1>2. LearnInv /\ [LearnNext]_learnVars => LearnInv'
  BY LearnStepKeeps
<1> QED  BY <1>1, <1>2, PTL DEF LearnSpec

\* Learning keeps the shapes of its state: a bucket for each point, samples
\* within the window, ages within what the code tells apart (learning.go).
THEOREM LearnTypesHold == LearnSpec => []LearnTypeOK
<1>1. LearnInv => LearnTypeOK
  BY DEF LearnInv
<1> QED  BY <1>1, LearnOrder, PTL

\* The fan is slowed for quiet only on the samples of all the windows and the
\* minimum time (aggregateLongTermSteady).
THEOREM QuietIsEarned == LearnSpec => []QuietLearningIsEarned
<1>1. LearnInv => QuietLearningIsEarned
  BY DEF LearnInv
<1> QED  BY <1>1, LearnOrder, PTL

\* No save or restart of the monitor brings an older bias, curve or reset back
\* (the revision check of the save in monitoring.go).
THEOREM EditsHold == LearnSpec => UserEditsHold
<1>1. LearnInv /\ [LearnNext]_learnVars =>
        [count'.edits = count.edits =>
           /\ store'.bias = store.bias
           /\ store'.curve = store.curve
           /\ store'.epoch >= store.epoch]_learnVars
  <2> SUFFICES ASSUME LearnInv, [LearnNext]_learnVars, count'.edits = count.edits
               PROVE  store'.bias = store.bias /\ store'.curve = store.curve
                      /\ store'.epoch >= store.epoch
    OBVIOUS
  <2>0. store \in Config /\ store.epoch \in Nat
    BY ConfigFields DEF LearnInv, LearnTypeOK
  <2>1. CASE store' = store
    BY <2>0, <2>1
  <2>2. CASE Save \/ Restart
    <3>1. store' = Saved(monitor.cfg)
      BY <2>2 DEF Save, Restart
    <3> QED  BY <2>0, <3>1, SavedIs
  <2>3. ASSUME NEW cfg, Commit(cfg)
        PROVE  FALSE
    <3>1. count' = [count EXCEPT !.edits = count.edits + 1]
      BY <2>3 DEF Commit
    <3>2. count \in [learns : Nat, edits : Nat, pauses : Nat]
      BY DEF LearnInv, LearnTypeOK
    <3> QED  BY <3>1, <3>2
  <2>4. CASE \E r \in mix.readings, ticks \in {1} \cup Pauses : LearningTick(r, ticks)
    <3>1. ASSUME NEW r, NEW ticks, LearningTick(r, ticks)
          PROVE  store' = store
      BY <3>1, Zenon DEF LearningTick
    <3> QED  BY <2>1, <2>4, <3>1, Zenon
  <2>5. CASE Interrupted \/ UNCHANGED learnVars
    BY <2>1, <2>5 DEF Interrupted, learnVars
  <2>6. CASE \E curve \in mix.curves : SetFanCurve(curve)
    BY <2>3, <2>6 DEF SetFanCurve
  <2>7. CASE \E bias \in Settings : SetLearningBias(bias)
    BY <2>3, <2>7 DEF SetLearningBias
  <2>8. CASE ResetLearnedOffsets
    BY <2>3, <2>8 DEF ResetLearnedOffsets
  <2> QED  BY <2>2, <2>4, <2>5, <2>6, <2>7, <2>8 DEF LearnNext
<1> QED  BY <1>1, LearnOrder, PTL DEF LearnSpec, UserEditsHold

\* What a step has learned is what the fan then runs on, for every curve, bias and
\* step: the control path clips none of it.
THEOREM LearnedIsTheFans == LearnSpec => LearnedIsUsed
<1>1. LearnInv /\ [LearnNext]_learnVars =>
        [count'.learns > count.learns =>
           LET cfg == monitor'.cfg
           IN  \A i \in 1..Len(cfg.curve) :
                 EffectiveCurve(cfg.curve, cfg.offsets, cfg.bias)[i]
                   = cfg.curve[i].rpm + cfg.offsets[i]]_learnVars
  <2> SUFFICES ASSUME LearnInv, [LearnNext]_learnVars, count'.learns > count.learns,
                      NEW i \in 1..Len(monitor'.cfg.curve)
               PROVE  EffectiveCurve(monitor'.cfg.curve, monitor'.cfg.offsets, monitor'.cfg.bias)[i]
                        = monitor'.cfg.curve[i].rpm + monitor'.cfg.offsets[i]
    OBVIOUS
  <2>1. count \in [learns : Nat, edits : Nat, pauses : Nat]
    BY DEF LearnInv, LearnTypeOK
  <2>2. PICK r \in mix.readings, ticks \in {1} \cup Pauses : LearningTick(r, ticks)
    <3>1. ASSUME NEW cfg, Commit(cfg)
          PROVE  FALSE
      <4>1. count' = [count EXCEPT !.edits = count.edits + 1]
        BY <3>1 DEF Commit
      <4> QED  BY <2>1, <4>1
    <3>2. count' # count
      BY <2>1
    <3>3. ~Interrupted /\ ~Save /\ ~Restart /\ ~UNCHANGED learnVars
      BY <3>2 DEF Interrupted, Save, Restart, learnVars
    <3>4. \A curve : ~SetFanCurve(curve)
      BY <3>1, Zenon DEF SetFanCurve
    <3>5. \A bias : ~SetLearningBias(bias)
      BY <3>1, Zenon DEF SetLearningBias
    <3>6. ~ResetLearnedOffsets
      BY <3>1, Zenon DEF ResetLearnedOffsets
    <3> QED  BY <3>3, <3>4, <3>5, <3>6, Zenon DEF LearnNext
  <2>3. r \in Readings /\ ticks \in Nat
    BY MixIs
  <2>4. /\ monitor'.cfg.curve \in FanCurves /\ monitor'.cfg.bias \in Biases
        /\ monitor'.cfg.offsets \in Learned(monitor'.cfg.curve, monitor'.cfg.bias)
        /\ Rising(monitor'.cfg.curve, monitor'.cfg.offsets)
    BY <2>2, <2>3, TickLearns DEF OffsetsFit
  <2> QED  BY <2>4, NothingClipped
<1> QED  BY <1>1, LearnOrder, PTL DEF LearnSpec, LearnedIsUsed

-----------------------------------------------------------------------------
(* The noise diagnostic: the invariant.                                    *)

\* The requests on their way from the configuration to a lease.
Beginners == {c \in Clients : call[c].pc \in {"begins", "leases"}}

\* Every lease taken, on its way or allowed for has a place.
LeasesBounded == begun + allowed.begins + Cardinality(Beginners) <= MaxSessions

\* Who ends a lease without naming it is the core itself, who restores knows
\* which lease, and a timer's goroutine acts for the session it was started with.
Proper(c, now) ==
  /\ now.pc = "ends" /\ now.session = 0 => c \in {System, Monitor}
  /\ now.pc \in {"restores", "rewrites"} => now.session # 0
  /\ c \in Sessions /\ now.pc \in {"timer", "ends", "restores", "rewrites"} => now.session = c

CallsProper == \A c \in Callers : Proper(c, call[c])

\* A session's channel is closed exactly when its lease is gone, and a session
\* not begun has neither a lease nor a timer.
ClosedIsGone ==
  /\ \A s \in 1..begun : sessions[s].done <=> lease # s
  /\ \A s \in Sessions : s > begun => sessions[s] = NoSession /\ call[s] = Idle

NoiseInv == NoiseTypeOK /\ LeasesBounded /\ CallsProper /\ ClosedIsGone

-----------------------------------------------------------------------------
(* The noise diagnostic: types.                                            *)

LEMMA IdleIsTyped ==
    ASSUME NEW n \in Nat
    PROVE  Idle \in Calling(n) /\ NoSession \in Leases
BY DEF Idle, NoSession, Calling, Leases, DiagnosticSettings, CallSteps, ControlModes, FanSpeeds

LEMMA SettingsAreTyped ==
    ASSUME NoiseTypeOK
    PROVE  SettingsOf(config) \in DiagnosticSettings
BY DEF NoiseTypeOK, SettingsOf, DiagnosticSettings

\* A caller whose record stays one keeps the types of all.
LEMMA CallStaysTyped ==
    ASSUME NoiseTypeOK, NEW c \in Callers, NEW now \in Calling(begun)
    PROVE  [call EXCEPT ![c] = now] \in [Callers -> Calling(begun)]
BY DEF NoiseTypeOK

\* A caller that goes on to another step.
LEMMA StepStaysTyped ==
    ASSUME NoiseTypeOK, NEW c \in Callers, NEW step \in CallSteps
    PROVE  [call EXCEPT ![c].pc = step] \in [Callers -> Calling(begun)]
<1>1. call[c] \in Calling(begun)
  BY DEF NoiseTypeOK
<1>2. [call[c] EXCEPT !.pc = step] \in Calling(begun)
  BY <1>1 DEF Calling
<1> QED
  BY <1>2 DEF NoiseTypeOK

LEMMA BoundsStayTyped ==
    ASSUME NoiseTypeOK
    PROVE  /\ allowed.begins > 0 => [allowed EXCEPT !.begins = @ - 1] \in DiagnosticBounds
           /\ allowed.targets > 0 => [allowed EXCEPT !.targets = @ - 1] \in DiagnosticBounds
           /\ allowed.ends > 0 => [allowed EXCEPT !.ends = @ - 1] \in DiagnosticBounds
           /\ allowed.edits > 0 => [allowed EXCEPT !.edits = @ - 1] \in DiagnosticBounds
           /\ allowed.losses > 0 => [allowed EXCEPT !.losses = @ - 1] \in DiagnosticBounds
           /\ allowed.fails > 0 => [allowed EXCEPT !.fails = @ - 1] \in DiagnosticBounds
           /\ allowed.gaps > 0 => [allowed EXCEPT !.gaps = @ - 1] \in DiagnosticBounds
           /\ allowed.suspends > 0 => [allowed EXCEPT !.suspends = @ - 1] \in DiagnosticBounds
BY NoiseDiagnosticAssumption DEF NoiseTypeOK, DiagnosticBounds

\* A request that begins, looks up or waits.
LEMMA RequestsAreTyped ==
    ASSUME NoiseTypeOK, NEW c \in Clients, Requests(c)
    PROVE  NoiseTypeOK'
<1>0. c \in Callers /\ begun \in Nat
  BY NoiseDiagnosticAssumption DEF Callers, NoiseTypeOK
<1> USE <1>0, IdleIsTyped, BoundsStayTyped
<1>1. CASE BeginReads(c)
  <2>1. [Idle EXCEPT !.pc = "begins", !.old = SettingsOf(config)] \in Calling(begun)
    BY SettingsAreTyped DEF Calling, CallSteps
  <2> QED
    BY <1>1, <2>1, CallStaysTyped DEF BeginReads, NoiseTypeOK
<1>2. CASE \E s \in Sessions, value \in Sweep : TargetLooksUp(c, s, value)
  <2> PICK s \in Sessions, value \in Sweep : TargetLooksUp(c, s, value)
    BY <1>2
  <2>1. s \in 0..begun /\ value \in FanSpeeds
    BY NoiseDiagnosticAssumption DEF TargetLooksUp, Sessions, FanSpeeds
  <2>2. /\ [Idle EXCEPT !.pc = "ends", !.session = s] \in Calling(begun)
        /\ [Idle EXCEPT !.pc = "sweeps", !.session = s, !.value = value] \in Calling(begun)
    BY <2>1 DEF Calling, CallSteps
  <2> QED
    BY <2>2, CallStaysTyped DEF TargetLooksUp, NoiseTypeOK
<1>3. CASE \E s \in Sessions : EndRequested(c, s)
  <2> PICK s \in Sessions : EndRequested(c, s)
    BY <1>3
  <2>1. s \in 0..begun
    BY NoiseDiagnosticAssumption DEF EndRequested, Sessions
  <2>2. [Idle EXCEPT !.pc = "ends", !.session = s] \in Calling(begun)
    BY <2>1 DEF Calling, CallSteps
  <2> QED
    BY <2>2, CallStaysTyped DEF EndRequested, NoiseTypeOK
<1>4. ASSUME NEW wanted \in ControlModes, NEW value \in FanSpeeds, UserSets(c, wanted, value)
      PROVE  NoiseTypeOK'
  <2>1. ASSUME NEW step \in {"commits", "sets"}
        PROVE  [Idle EXCEPT !.pc = step, !.mode = wanted, !.value = value] \in Calling(begun)
    BY DEF Calling, CallSteps
  <2> QED
    BY <1>4, <2>1, CallStaysTyped DEF UserSets, NoiseTypeOK
<1> QED
  BY <1>1, <1>2, <1>3, <1>4 DEF Requests, ControlModes, FanSpeeds

\* What follows a write, and what a write leaves.
LEMMA WritesAreTyped ==
    ASSUME NoiseTypeOK, NEW value \in FanSpeeds, NEW late \in BOOLEAN, NEW Ok, NEW Fails,
           Writes(value, late, Ok, Fails)
    PROVE  /\ fan' \in FanSpeeds /\ allowed' \in DiagnosticBounds /\ allowed'.begins = allowed.begins
           /\ (Ok /\ stray' \in BOOLEAN) \/ Fails
BY BoundsStayTyped DEF Writes, NoiseTypeOK, DiagnosticBounds

LEMMA RestoresAreTyped ==
    ASSUME NoiseTypeOK, CallsProper, NEW c \in Callers, LeaseSteps(c)
    PROVE  NoiseTypeOK'
<1>0. c \in Callers /\ begun \in Nat /\ call[c] \in Calling(begun)
  BY NoiseDiagnosticAssumption DEF NoiseTypeOK
<1> USE <1>0, IdleIsTyped
<1>1. CASE Ends(c)
  <2>1. CASE Names(call[c].session)
    <3>1. lease \in Sessions /\ lease \in 0..begun
      BY <2>1, NoiseDiagnosticAssumption DEF Names, NoiseTypeOK, Sessions
    <3>2. [call[c] EXCEPT !.pc = "restores", !.session = lease] \in Calling(begun)
      BY <3>1 DEF Calling, CallSteps
    <3>3. call' \in [Callers -> Calling(begun)]
      <4>1. call' = [call EXCEPT ![c] = [call[c] EXCEPT !.pc = "restores", !.session = lease]]
        BY <1>1, <2>1 DEF Ends, NoiseTypeOK
      <4> QED
        BY <4>1, <3>2, CallStaysTyped
    <3>4. sessions' \in [Sessions -> Leases]
      <4>1. [sessions[lease] EXCEPT !.done = TRUE] \in Leases
        BY <3>1 DEF NoiseTypeOK, Leases
      <4>2. sessions' = [sessions EXCEPT ![lease] = [sessions[lease] EXCEPT !.done = TRUE]]
        BY <1>1, <2>1 DEF Ends
      <4> QED
        BY <4>1, <4>2 DEF NoiseTypeOK
    <3> QED
      BY <1>1, <2>1, <3>3, <3>4 DEF Ends, NoiseTypeOK
  <2>2. CASE ~Names(call[c].session)
    BY <1>1, <2>2, CallStaysTyped DEF Ends, NoiseTypeOK
  <2> QED
    BY <2>1, <2>2
<1>2. CASE RestoreReads(c)
  <2> DEFINE s == call[c].session
             back == Restored(s)
  <2>1. s \in Sessions
    BY <1>2, NoiseDiagnosticAssumption DEF RestoreReads, CallsProper, Proper, Calling, Sessions, NoiseTypeOK
  <2>2. back \in DiagnosticSettings
    BY <2>1, SettingsAreTyped DEF Restored, NoiseTypeOK, Leases
  <2>3. CASE call' = [call EXCEPT ![c] = Idle]
    BY <1>2, <2>3, CallStaysTyped DEF RestoreReads, Torn, NoiseTypeOK
  <2>4. CASE /\ call' = [call EXCEPT ![c].pc = "rewrites", ![c].rev = config.rev,
                            ![c].value = IF back.mode = "custom" THEN back.custom ELSE config.gear]
             /\ UNCHANGED <<force, stray>>
    <3> DEFINE value == IF back.mode = "custom" THEN back.custom ELSE config.gear
    <3>1. value \in FanSpeeds /\ config.rev \in Nat
      BY <2>2 DEF NoiseTypeOK, DiagnosticSettings
    <3>2. call' = [call EXCEPT ![c] = [call[c] EXCEPT !.pc = "rewrites", !.rev = config.rev, !.value = value]]
      BY <2>4 DEF NoiseTypeOK
    <3> HIDE DEF value
    <3>3. [call[c] EXCEPT !.pc = "rewrites", !.rev = config.rev, !.value = value] \in Calling(begun)
      BY <3>1 DEF Calling, CallSteps
    <3>4. call' \in [Callers -> Calling(begun)]
      BY <3>2, <3>3, CallStaysTyped
    <3> QED
      BY <1>2, <2>4, <3>4 DEF RestoreReads, NoiseTypeOK
  <2> QED
    BY <1>2, <2>3, <2>4 DEF RestoreReads
<1>3. CASE RestoreWrites(c)
  <2>1. call[c].value \in FanSpeeds /\ (call[c].rev # config.rev \/ Torn(call[c].session)) \in BOOLEAN
    BY DEF Calling
  <2>2. fan' \in FanSpeeds /\ allowed' \in DiagnosticBounds /\ stray' \in BOOLEAN
        /\ call' = [call EXCEPT ![c] = Idle]
    BY <1>3, <2>1, WritesAreTyped DEF RestoreWrites
  <2>3. call' \in [Callers -> Calling(begun)]
    BY <2>2, CallStaysTyped
  <2> QED
    BY <1>3, <2>2, <2>3 DEF RestoreWrites, NoiseTypeOK
<1> QED
  BY <1>1, <1>2, <1>3 DEF LeaseSteps

\* How a write goes on with the call of its writer.
LEMMA WriterIsTyped ==
    ASSUME NoiseTypeOK, NEW c \in Clients, UserWrites(c) \/ TargetWrites(c)
    PROVE  NoiseTypeOK'
<1>0. c \in Callers /\ begun \in Nat /\ call[c] \in Calling(begun)
  BY NoiseDiagnosticAssumption DEF Callers, NoiseTypeOK
<1>1. /\ Idle \in Calling(begun) /\ call[c].value \in FanSpeeds
      /\ {"commits", "settles"} \subseteq CallSteps
      /\ stray \in BOOLEAN /\ (lease # call[c].session) \in BOOLEAN
  BY <1>0, IdleIsTyped DEF Calling, CallSteps, NoiseTypeOK
<1>2. /\ [call EXCEPT ![c] = Idle] \in [Callers -> Calling(begun)]
      /\ [call EXCEPT ![c].pc = "commits"] \in [Callers -> Calling(begun)]
      /\ [call EXCEPT ![c].pc = "settles"] \in [Callers -> Calling(begun)]
  BY <1>0, <1>1, CallStaysTyped, StepStaysTyped
<1>3. CASE UserWrites(c)
  <2>1. /\ fan' \in FanSpeeds /\ allowed' \in DiagnosticBounds /\ stray' \in BOOLEAN
        /\ call' \in [Callers -> Calling(begun)]
    BY <1>1, <1>2, <1>3, WritesAreTyped DEF UserWrites
  <2> QED
    BY <1>3, <2>1 DEF UserWrites, NoiseTypeOK
<1>4. CASE TargetWrites(c)
  <2>1. /\ fan' \in FanSpeeds /\ allowed' \in DiagnosticBounds /\ stray' \in BOOLEAN
        /\ call' \in [Callers -> Calling(begun)]
    BY <1>1, <1>2, <1>4, WritesAreTyped DEF TargetWrites
  <2> QED
    BY <1>4, <2>1 DEF TargetWrites, NoiseTypeOK
<1> QED
  BY <1>3, <1>4

\* The steps of a request but for the one that takes a lease.
LEMMA StepsAreTyped ==
    ASSUME NoiseTypeOK, NEW c \in Clients,
           BeginReadsRevision(c) \/ TargetReturns(c) \/ UserCommits(c)
    PROVE  NoiseTypeOK'
<1>0. c \in Callers /\ begun \in Nat /\ call[c] \in Calling(begun)
  BY NoiseDiagnosticAssumption DEF Callers, NoiseTypeOK
<1>1. CASE BeginReadsRevision(c)
  <2>1. [call[c] EXCEPT !.pc = "leases", !.rev = config.rev] \in Calling(begun)
    BY <1>0 DEF Calling, CallSteps, NoiseTypeOK
  <2>2. call' = [call EXCEPT ![c] = [call[c] EXCEPT !.pc = "leases", !.rev = config.rev]]
    BY <1>0, <1>1 DEF BeginReadsRevision, NoiseTypeOK
  <2>3. call' \in [Callers -> Calling(begun)]
    BY <1>0, <2>1, <2>2, CallStaysTyped
  <2> QED
    BY <1>1, <2>3 DEF BeginReadsRevision, NoiseTypeOK
<1>2. CASE TargetReturns(c)
  BY <1>0, <1>2, IdleIsTyped, CallStaysTyped DEF TargetReturns, NoiseTypeOK
<1>3. CASE UserCommits(c)
  <2>1. call[c].mode \in ControlModes /\ call[c].value \in FanSpeeds
    BY <1>0 DEF Calling
  <2>2. config' \in [mode : ControlModes, custom : FanSpeeds, gear : FanSpeeds, rev : Nat]
    <3> DEFINE wanted == call[c].mode
               value == call[c].value
               custom == IF wanted = "custom" THEN value ELSE config.custom
               gear == IF wanted = "gear" THEN value ELSE config.gear
               rev == config.rev + 1
    <3>1. config' = [config EXCEPT !.mode = wanted, !.rev = rev, !.custom = custom, !.gear = gear]
      BY <1>3 DEF UserCommits, NoiseTypeOK
    <3>2. wanted \in ControlModes /\ custom \in FanSpeeds /\ gear \in FanSpeeds /\ rev \in Nat
      BY <2>1 DEF NoiseTypeOK
    <3> HIDE DEF wanted, custom, gear, rev
    <3> QED
      BY <3>1, <3>2 DEF NoiseTypeOK
  <2>3. call' \in [Callers -> Calling(begun)]
    BY <1>0, <1>3, IdleIsTyped, CallStaysTyped DEF UserCommits
  <2> QED
    BY <1>3, <2>2, <2>3 DEF UserCommits, NoiseTypeOK
<1> QED
  BY <1>1, <1>2, <1>3

\* A request that takes a lease has its place, so there is a session to take.
LEMMA BeginHasRoom ==
    ASSUME NoiseTypeOK, LeasesBounded, NEW c \in Clients, call[c].pc \in {"begins", "leases"}
    PROVE  begun + 1 \in Sessions /\ begun + 1 + allowed.begins + Cardinality(Beginners \ {c}) <= MaxSessions
<1>1. IsFiniteSet(Beginners) /\ c \in Beginners
  BY NoiseDiagnosticAssumption, FS_Subset DEF Beginners
<1>2. Cardinality(Beginners \ {c}) = Cardinality(Beginners) - 1 /\ Cardinality(Beginners) \in Nat
  BY <1>1, FS_RemoveElement, FS_CardinalityType
<1>3. Cardinality(Beginners \ {c}) \in Nat
  BY <1>1, FS_RemoveElement, FS_CardinalityType
<1>4. allowed.begins \in Nat /\ begun \in Nat /\ MaxSessions \in Nat
  BY NoiseDiagnosticAssumption DEF NoiseTypeOK, DiagnosticBounds
<1> HIDE DEF Beginners
<1> QED
  BY <1>2, <1>3, <1>4 DEF LeasesBounded, Sessions

LEMMA LeaseIsTyped ==
    ASSUME NoiseTypeOK, LeasesBounded, NEW c \in Clients, BeginLeases(c)
    PROVE  NoiseTypeOK'
<1>0. c \in Callers /\ begun \in Nat /\ call[c] \in Calling(begun)
  BY NoiseDiagnosticAssumption DEF Callers, NoiseTypeOK
<1>1. CASE Active
  BY <1>0, <1>1, IdleIsTyped, CallStaysTyped DEF BeginLeases, NoiseTypeOK
<1>2. CASE ~Active
  <2>1. begun' = begun + 1 /\ lease' = begun + 1 /\ begun + 1 \in Sessions /\ begun + 1 # c
    BY <1>2, BeginHasRoom, NoiseDiagnosticAssumption DEF BeginLeases, Sessions
  <2>2. /\ [Idle EXCEPT !.pc = "timer", !.session = begun + 1] \in Calling(begun + 1)
        /\ Idle \in Calling(begun + 1)
    <3>1. begun + 1 \in Nat /\ begun + 1 \in 0..(begun + 1)
      BY <1>0
    <3>2. Idle \in Calling(begun + 1)
      BY <3>1, IdleIsTyped
    <3> QED
      BY <3>1, <3>2 DEF Calling, CallSteps
  <2>3. \A d \in Callers : call[d] \in Calling(begun + 1)
    BY <1>0 DEF Calling, NoiseTypeOK
  <2>4. call' = [d \in Callers |-> IF d = begun + 1 THEN [Idle EXCEPT !.pc = "timer", !.session = begun + 1]
                                   ELSE IF d = c THEN Idle ELSE call[d]]
    BY <1>0, <1>2, <2>1 DEF BeginLeases, NoiseTypeOK
  <2>5. call' \in [Callers -> Calling(begun + 1)]
    BY <2>2, <2>3, <2>4
  <2>6. sessions' \in [Sessions -> Leases]
    <3>1. [NoSession EXCEPT !.rev = call[c].rev, !.old = call[c].old] \in Leases
      BY <1>0, IdleIsTyped DEF Calling, Leases
    <3>2. \A s \in Sessions : sessions[s] \in Leases /\ [sessions[s] EXCEPT !.done = TRUE] \in Leases
      BY DEF NoiseTypeOK, Leases
    <3> QED
      BY <1>2, <3>1, <3>2 DEF BeginLeases
  <2>7. begun' \in 0..MaxSessions /\ lease' \in 0..begun'
    BY <1>0, <2>1, NoiseDiagnosticAssumption DEF Sessions
  <2> QED
    BY <1>2, <2>1, <2>5, <2>6, <2>7 DEF BeginLeases, NoiseTypeOK
<1> QED
  BY <1>1, <1>2

\* The expiry, the timers and what befalls the device.
LEMMA EventsAreTyped ==
    ASSUME NoiseTypeOK, CallsProper,
           \/ Expires \/ LinkLost \/ LinkBack \/ Suspends \/ SensorsChange
           \/ \E s \in Sessions : TimerFires(s)
    PROVE  NoiseTypeOK'
<1>0. /\ System \in Callers /\ Sessions \subseteq Callers /\ begun \in Nat
      /\ Idle \in Calling(begun)
  BY IdleIsTyped DEF Callers, NoiseTypeOK
<1>1. CASE Expires
  <2>1. lease \in Sessions
    BY <1>1, NoiseDiagnosticAssumption DEF Expires, Active, NoiseTypeOK, Sessions
  <2>2. [sessions[lease] EXCEPT !.expired = TRUE] \in Leases
    BY <2>1 DEF NoiseTypeOK, Leases
  <2>3. sessions' = [sessions EXCEPT ![lease] = [sessions[lease] EXCEPT !.expired = TRUE]]
    BY <1>1 DEF Expires
  <2> QED
    BY <1>1, <2>2, <2>3 DEF Expires, NoiseTypeOK
<1>2. [Idle EXCEPT !.pc = "ends"] \in Calling(begun)
  BY <1>0 DEF Calling, CallSteps
<1>3. CASE LinkLost
  BY <1>0, <1>2, <1>3, CallStaysTyped, BoundsStayTyped DEF LinkLost, NoiseTypeOK
<1>4. CASE LinkBack
  BY <1>4 DEF LinkBack, NoiseTypeOK, FanSpeeds
<1>5. CASE Suspends
  BY <1>0, <1>2, <1>5, CallStaysTyped, BoundsStayTyped DEF Suspends, NoiseTypeOK
<1>6. CASE SensorsChange
  BY <1>6, BoundsStayTyped DEF SensorsChange, NoiseTypeOK
<1>7. ASSUME NEW s \in Sessions, TimerFires(s)
      PROVE  NoiseTypeOK'
  <2>1. call[s].session = s /\ call[s] \in Calling(begun)
    BY <1>0, <1>7 DEF TimerFires, CallsProper, Proper, NoiseTypeOK
  <2>2. s \in 0..begun
    BY <2>1 DEF Calling
  <2>3. TimerEnds(s) \in Calling(begun)
    BY <1>0, <2>2 DEF TimerEnds, Calling, CallSteps
  <2> QED
    BY <1>0, <1>7, <2>3, CallStaysTyped DEF TimerFires, NoiseTypeOK
<1> QED
  BY <1>1, <1>3, <1>4, <1>5, <1>6, <1>7

\* The ticks.
LEMMA TicksAreTyped ==
    ASSUME NoiseTypeOK,
           TickCopies \/ TickObserves \/ TickDecides \/ TickWrites \/ TickEndsLease \/ TickSaves
    PROVE  NoiseTypeOK'
<1>0. /\ Monitor \in Callers /\ begun \in Nat
      /\ Idle \in Calling(begun)
  BY IdleIsTyped DEF Callers, NoiseTypeOK
<1>1. ASSUME NEW step \in TickSteps
      PROVE  [ticker EXCEPT !.pc = step] \in Ticking
  BY DEF NoiseTypeOK, Ticking
<1>2. CASE TickCopies
  <2>1. [ticker EXCEPT !.pc = "reads", !.follow = config.mode = "auto"] \in Ticking
    BY DEF NoiseTypeOK, Ticking, TickSteps
  <2> QED
    BY <1>2, <2>1 DEF TickCopies, NoiseTypeOK
<1>3. CASE TickObserves
  <2> DEFINE auto == ticker.follow
             observed == ~auto \/ on
             misses == IF observed THEN Misses(auto, usable) ELSE ticker.misses
             follows == auto /\ usable /\ on
             step == IF follows THEN "decides"
                     ELSE IF misses = FallbackAfter /\ on THEN "falls" ELSE "idle"
             last == IF ~follows THEN 0 ELSE IF ticker.last = 0 THEN fan ELSE ticker.last
             applied == ticker.applied /\ ~(observed /\ misses = 0)
  <2>1. misses \in 0..FallbackAfter
    BY NoiseDiagnosticAssumption DEF Misses, NoiseTypeOK, Ticking
  <2>2. step \in TickSteps /\ follows \in BOOLEAN /\ applied \in BOOLEAN
    BY DEF NoiseTypeOK, Ticking, TickSteps
  <2>3. last \in FanSpeeds
    BY DEF NoiseTypeOK, Ticking, FanSpeeds
  <2>4. ticker' = [ticker EXCEPT !.pc = step, !.seen = fan, !.misses = misses, !.auto = follows,
                                 !.last = last, !.applied = applied]
    BY <1>3 DEF TickObserves, NoiseTypeOK, Ticking
  <2>5. force' \in BOOLEAN
    BY <1>3 DEF TickObserves, NoiseTypeOK, Ticking
  <2> HIDE DEF misses, step, follows, applied, last
  <2>6. ticker' \in Ticking
    BY <2>1, <2>2, <2>3, <2>4 DEF NoiseTypeOK, Ticking
  <2> QED
    BY <1>3, <2>5, <2>6 DEF TickObserves, NoiseTypeOK
<1>4. CASE TickDecides
  BY <1>1, <1>4 DEF TickDecides, NoiseTypeOK, TickSteps
<1>5. /\ Demand \in FanSpeeds /\ Safe \in FanSpeeds /\ 0 \in FanSpeeds /\ (config.mode # "auto") \in BOOLEAN
  BY DEF FanSpeeds
<1>6. CASE TickWrites
  <2>1. /\ [ticker EXCEPT !.pc = "idle", !.last = Demand] \in Ticking
        /\ [ticker EXCEPT !.pc = "idle", !.last = 0] \in Ticking
    BY <1>5 DEF NoiseTypeOK, Ticking, TickSteps
  <2>2. fan' \in FanSpeeds /\ allowed' \in DiagnosticBounds /\ stray' \in BOOLEAN /\ ticker' \in Ticking
    BY <1>5, <1>6, <2>1, WritesAreTyped DEF TickWrites, NoiseTypeOK
  <2> QED
    BY <1>6, <2>2 DEF TickWrites, NoiseTypeOK
<1>7. CASE TickEndsLease
  <2>1. [Idle EXCEPT !.pc = "ends"] \in Calling(begun)
    BY <1>0 DEF Calling, CallSteps
  <2> QED
    BY <1>0, <1>1, <1>7, <2>1, CallStaysTyped DEF TickEndsLease, NoiseTypeOK, TickSteps
<1>8. CASE TickSaves
  <2>1. /\ [ticker EXCEPT !.pc = "idle", !.applied = TRUE] \in Ticking
        /\ [ticker EXCEPT !.pc = "idle"] \in Ticking
    BY DEF NoiseTypeOK, Ticking, TickSteps
  <2>2. fan' \in FanSpeeds /\ allowed' \in DiagnosticBounds /\ stray' \in BOOLEAN /\ ticker' \in Ticking
    BY <1>5, <1>8, <2>1, WritesAreTyped DEF TickSaves, NoiseTypeOK
  <2> QED
    BY <1>8, <2>2 DEF TickSaves, NoiseTypeOK
<1> QED
  BY <1>2, <1>3, <1>4, <1>6, <1>7, <1>8

\* Together: no step leaves the types.
LEMMA NoiseStepKeepsTypes ==
    ASSUME NoiseInv, [NoiseNext]_noiseVars
    PROVE  NoiseTypeOK'
<1> USE DEF NoiseInv
<1>1. Clients \cup Sessions \cup {System, Monitor} \subseteq Callers
  BY DEF Callers
<1>2. CASE UNCHANGED noiseVars
  BY <1>2 DEF noiseVars, NoiseTypeOK
<1>3. ASSUME NEW c \in Clients, RequestSteps(c)
      PROVE  NoiseTypeOK'
  BY <1>1, <1>3, RestoresAreTyped, StepsAreTyped, LeaseIsTyped, WriterIsTyped DEF RequestSteps
<1> QED
  BY <1>1, <1>2, <1>3, RequestsAreTyped, RestoresAreTyped, EventsAreTyped, TicksAreTyped
  DEF NoiseNext, MonitorSteps

-----------------------------------------------------------------------------
(* The noise diagnostic: what the steps of one caller keep.                *)

\* A caller that takes another step, where the lease and the sessions stay.
LEMMA MoveKeepsProper ==
    ASSUME NoiseInv, NEW c \in Callers, NEW now, Proper(c, now), call' = [call EXCEPT ![c] = now],
           c \in Sessions => call[c].pc # "idle",
           UNCHANGED <<lease, sessions, begun>>
    PROVE  CallsProper' /\ ClosedIsGone'
<1>1. CallsProper'
  BY DEF NoiseInv, NoiseTypeOK, CallsProper, Proper
<1>2. c \in Sessions => c <= begun
  BY DEF NoiseInv, NoiseTypeOK, ClosedIsGone, Idle, Sessions
<1>3. ClosedIsGone'
  BY <1>2 DEF NoiseInv, NoiseTypeOK, ClosedIsGone, Sessions
<1> QED
  BY <1>1, <1>3

\* The places stay enough if a caller that now begins has had or paid for its.
LEMMA MoveKeepsBound ==
    ASSUME NoiseInv, NEW c \in Callers, NEW now, call' = [call EXCEPT ![c] = now], begun' = begun,
           allowed'.begins \in Nat, allowed'.begins <= allowed.begins,
           c \in Clients /\ now.pc \in {"begins", "leases"} =>
             call[c].pc \in {"begins", "leases"} \/ allowed'.begins = allowed.begins - 1
    PROVE  LeasesBounded'
<1>1. IsFiniteSet(Beginners) /\ Cardinality(Beginners) \in Nat
  BY NoiseDiagnosticAssumption, FS_Subset, FS_CardinalityType DEF Beginners
<1>2. begun \in Nat /\ allowed.begins \in Nat /\ MaxSessions \in Nat
  BY NoiseDiagnosticAssumption DEF NoiseInv, NoiseTypeOK, DiagnosticBounds
<1>3. CASE Beginners' \subseteq Beginners
  <2>1. Cardinality(Beginners') <= Cardinality(Beginners) /\ Cardinality(Beginners') \in Nat
    BY <1>1, <1>3, FS_Subset, FS_CardinalityType
  <2> HIDE DEF Beginners
  <2> QED
    BY <1>1, <1>2, <2>1 DEF NoiseInv, LeasesBounded
<1>4. CASE ~(Beginners' \subseteq Beginners)
  <2>1. /\ Beginners' = Beginners \cup {c} /\ c \notin Beginners
        /\ allowed'.begins = allowed.begins - 1
    BY <1>4 DEF Beginners, Callers, NoiseInv, NoiseTypeOK
  <2>2. Cardinality(Beginners') = Cardinality(Beginners) + 1
    BY <1>1, <2>1, FS_AddElement
  <2> HIDE DEF Beginners
  <2> QED
    BY <1>1, <1>2, <2>1, <2>2 DEF NoiseInv, LeasesBounded
<1> QED
  BY <1>3, <1>4

\* Together, with the types, they keep the invariant.
LEMMA MoveKeepsInv ==
    ASSUME NoiseInv, NoiseTypeOK', NEW c \in Callers, NEW now, Proper(c, now),
           call' = [call EXCEPT ![c] = now],
           c \in Sessions => call[c].pc # "idle",
           UNCHANGED <<lease, sessions, begun>>, allowed'.begins <= allowed.begins,
           c \in Clients /\ now.pc \in {"begins", "leases"} =>
             call[c].pc \in {"begins", "leases"} \/ allowed'.begins = allowed.begins - 1
    PROVE  NoiseInv'
<1>1. allowed'.begins \in Nat
  BY NoiseDiagnosticAssumption DEF NoiseTypeOK, DiagnosticBounds
<1> QED
  BY <1>1, MoveKeepsProper, MoveKeepsBound DEF NoiseInv

\* A step of no caller, which closes no session.
LEMMA CalmKeepsInv ==
    ASSUME NoiseInv, NoiseTypeOK', UNCHANGED <<lease, begun, call>>, allowed'.begins = allowed.begins,
           \A s \in Sessions : sessions'[s].done = sessions[s].done,
           \A s \in Sessions : s > begun => sessions'[s] = sessions[s]
    PROVE  NoiseInv'
<1>1. LeasesBounded'
  BY DEF NoiseInv, LeasesBounded, Beginners
<1>2. CallsProper'
  BY DEF NoiseInv, CallsProper, Proper
<1>3. ClosedIsGone'
  BY NoiseDiagnosticAssumption DEF NoiseInv, NoiseTypeOK, ClosedIsGone, Sessions
<1> QED
  BY <1>1, <1>2, <1>3 DEF NoiseInv

-----------------------------------------------------------------------------
(* The noise diagnostic: the invariant is kept.                            *)

LEMMA TicksKeepInv ==
    ASSUME NoiseInv, NoiseTypeOK',
           \/ TickCopies \/ TickObserves \/ TickDecides \/ TickWrites \/ TickEndsLease \/ TickSaves
           \/ Expires \/ LinkLost \/ LinkBack \/ Suspends \/ SensorsChange
    PROVE  NoiseInv'
<1>0. /\ {System, Monitor} \subseteq Callers /\ {System, Monitor} \cap (Sessions \cup Clients) = {}
      /\ allowed \in DiagnosticBounds
  BY NoiseDiagnosticAssumption DEF Callers, Sessions, NoiseInv, NoiseTypeOK
<1>1. ASSUME NEW c \in {System, Monitor} PROVE Proper(c, [Idle EXCEPT !.pc = "ends"])
  BY <1>0 DEF Proper, Idle
<1>2. CASE \/ TickCopies \/ TickObserves \/ TickDecides \/ LinkBack
           \/ (TickEndsLease /\ ~Active)
  BY <1>2, CalmKeepsInv DEF TickCopies, TickObserves, TickDecides, LinkBack, TickEndsLease
<1>3. CASE TickWrites \/ TickSaves
  <2>1. allowed' = allowed \/ allowed' = [allowed EXCEPT !.fails = @ - 1]
    BY <1>3 DEF TickWrites, TickSaves, Writes
  <2>2. allowed'.begins = allowed.begins
    BY <1>0, <2>1 DEF DiagnosticBounds
  <2> QED
    BY <1>3, <2>2, CalmKeepsInv DEF TickWrites, TickSaves
<1>4. CASE SensorsChange
  BY <1>0, <1>4, CalmKeepsInv DEF SensorsChange, DiagnosticBounds
<1>5. CASE Expires
  <2>1. lease <= begun /\ lease \in Sessions
    BY <1>5, NoiseDiagnosticAssumption DEF Expires, Active, NoiseInv, NoiseTypeOK, Sessions
  <2>2. /\ \A s \in Sessions : sessions'[s].done = sessions[s].done
        /\ \A s \in Sessions : s > begun => sessions'[s] = sessions[s]
    BY <1>5, <2>1, NoiseDiagnosticAssumption DEF Expires, NoiseInv, NoiseTypeOK, Leases, Sessions
  <2> QED
    BY <1>5, <2>2, CalmKeepsInv DEF Expires
<1>6. CASE TickEndsLease /\ Active
  <2>1. allowed' = allowed /\ allowed.begins <= allowed.begins
    BY <1>0, <1>6, NoiseDiagnosticAssumption DEF TickEndsLease, DiagnosticBounds
  <2> QED
    BY <1>0, <1>1, <1>6, <2>1, MoveKeepsInv DEF TickEndsLease
<1>7. CASE LinkLost \/ Suspends
  <2>1. allowed'.begins = allowed.begins
    BY <1>0, <1>7 DEF LinkLost, Suspends, DiagnosticBounds
  <2>2. allowed'.begins <= allowed.begins
    BY <1>0, <2>1, NoiseDiagnosticAssumption DEF DiagnosticBounds
  <2> QED
    BY <1>0, <1>1, <1>7, <2>2, MoveKeepsInv DEF LinkLost, Suspends
<1> QED
  BY <1>2, <1>3, <1>4, <1>5, <1>6, <1>7

LEMMA RequestsKeepInv ==
    ASSUME NoiseInv, NoiseTypeOK', NEW c \in Clients, Requests(c)
    PROVE  NoiseInv'
<1>0. /\ c \in Callers /\ c \notin Sessions /\ allowed \in DiagnosticBounds /\ allowed.begins \in Nat
  BY NoiseDiagnosticAssumption DEF Callers, Sessions, NoiseInv, NoiseTypeOK, DiagnosticBounds
<1>1. CASE BeginReads(c)
  <2> DEFINE now == [Idle EXCEPT !.pc = "begins", !.old = SettingsOf(config)]
  <2>1. Proper(c, now) /\ now.pc = "begins"
    BY DEF Proper, Idle
  <2>2. allowed'.begins = allowed.begins - 1 /\ allowed'.begins <= allowed.begins
    BY <1>0, <1>1 DEF BeginReads, DiagnosticBounds
  <2> HIDE DEF now
  <2>3. call' = [call EXCEPT ![c] = now] /\ UNCHANGED <<lease, sessions, begun>>
    BY <1>1 DEF BeginReads, now
  <2> QED
    BY <1>0, <2>1, <2>2, <2>3, MoveKeepsInv
<1>2. ASSUME NEW now, Proper(c, now), now.pc \notin {"begins", "leases"},
             call' = [call EXCEPT ![c] = now], UNCHANGED <<lease, sessions, begun>>,
             \/ allowed' = [allowed EXCEPT !.targets = @ - 1] \/ allowed' = [allowed EXCEPT !.ends = @ - 1]
             \/ allowed' = [allowed EXCEPT !.edits = @ - 1]
      PROVE  NoiseInv'
  <2>1. allowed'.begins <= allowed.begins
    BY <1>0, <1>2 DEF DiagnosticBounds
  <2> QED
    BY <1>0, <1>2, <2>1, MoveKeepsInv
<1>3. Proper(c, Idle) /\ Idle.pc = "idle"
  BY DEF Proper, Idle
<1>4. ASSUME NEW s \in Sessions, NEW value
      PROVE  /\ Proper(c, [Idle EXCEPT !.pc = "ends", !.session = s])
             /\ Proper(c, [Idle EXCEPT !.pc = "sweeps", !.session = s, !.value = value])
             /\ [Idle EXCEPT !.pc = "ends", !.session = s].pc = "ends"
             /\ [Idle EXCEPT !.pc = "sweeps", !.session = s, !.value = value].pc = "sweeps"
  BY <1>0, NoiseDiagnosticAssumption DEF Proper, Idle, Sessions
<1>5. CASE \E s \in Sessions, value \in Sweep : TargetLooksUp(c, s, value)
  <2> PICK s \in Sessions, value \in Sweep : TargetLooksUp(c, s, value)
    BY <1>5
  <2>1. CASE call' = [call EXCEPT ![c] = Idle]
    BY <1>2, <1>3, <2>1 DEF TargetLooksUp
  <2>2. CASE call' = [call EXCEPT ![c] = [Idle EXCEPT !.pc = "ends", !.session = s]]
    <3> DEFINE now == [Idle EXCEPT !.pc = "ends", !.session = s]
    <3>1. Proper(c, now) /\ now.pc = "ends" /\ call' = [call EXCEPT ![c] = now]
      BY <1>4, <2>2
    <3> HIDE DEF now
    <3> QED
      BY <1>2, <3>1 DEF TargetLooksUp
  <2>3. CASE call' = [call EXCEPT ![c] = [Idle EXCEPT !.pc = "sweeps", !.session = s, !.value = value]]
    <3> DEFINE now == [Idle EXCEPT !.pc = "sweeps", !.session = s, !.value = value]
    <3>1. Proper(c, now) /\ now.pc = "sweeps" /\ call' = [call EXCEPT ![c] = now]
      BY <1>4, <2>3
    <3> HIDE DEF now
    <3> QED
      BY <1>2, <3>1 DEF TargetLooksUp
  <2> QED
    BY <2>1, <2>2, <2>3 DEF TargetLooksUp
<1>6. CASE \E s \in Sessions : EndRequested(c, s)
  <2> PICK s \in Sessions : EndRequested(c, s)
    BY <1>6
  <2> DEFINE now == [Idle EXCEPT !.pc = "ends", !.session = s]
  <2>1. Proper(c, now) /\ now.pc = "ends" /\ call' = [call EXCEPT ![c] = now]
    BY <1>4 DEF EndRequested
  <2> HIDE DEF now
  <2> QED
    BY <1>2, <2>1 DEF EndRequested
<1>7. ASSUME NEW wanted, NEW value, UserSets(c, wanted, value)
      PROVE  NoiseInv'
  <2> DEFINE step == IF wanted = "auto" \/ ~on THEN "commits" ELSE "sets"
             now == [Idle EXCEPT !.pc = step, !.mode = wanted, !.value = value]
  <2>1. now.pc \in {"commits", "sets"}
    BY DEF Idle
  <2>2. Proper(c, now) /\ call' = [call EXCEPT ![c] = now]
    BY <1>7, <2>1 DEF Proper, UserSets
  <2> HIDE DEF now
  <2> QED
    BY <1>2, <1>7, <2>1, <2>2 DEF UserSets
<1> QED
  BY <1>1, <1>5, <1>6, <1>7 DEF Requests

\* A caller that has been somewhere, and goes to where no lease is to be had.
LEMMA GoesOnKeepsInv ==
    ASSUME NoiseInv, NoiseTypeOK', NEW c \in Callers, NEW now, Proper(c, now),
           now.pc \notin {"begins", "leases"} \/ call[c].pc \in {"begins", "leases"},
           call' = [call EXCEPT ![c] = now], call[c].pc # "idle",
           UNCHANGED <<lease, sessions, begun>>,
           allowed' = allowed \/ allowed' = [allowed EXCEPT !.fails = @ - 1]
    PROVE  NoiseInv'
<1>1. allowed'.begins <= allowed.begins
  BY NoiseDiagnosticAssumption DEF NoiseInv, NoiseTypeOK, DiagnosticBounds
<1> QED
  BY <1>1, MoveKeepsInv

\* A record that changes its step, its revision or its value keeps its session.
LEMMA RecordsAreProper ==
    ASSUME NEW c \in Callers, NoiseInv
    PROVE  /\ Proper(c, Idle) /\ Idle.pc = "idle"
           /\ \A rev : /\ Proper(c, [call[c] EXCEPT !.pc = "leases", !.rev = rev])
                       /\ [call[c] EXCEPT !.pc = "leases", !.rev = rev].pc = "leases"
           /\ call[c].pc = "restores" => \A rev, value :
                /\ Proper(c, [call[c] EXCEPT !.pc = "rewrites", !.rev = rev, !.value = value])
                /\ [call[c] EXCEPT !.pc = "rewrites", !.rev = rev, !.value = value].pc = "rewrites"
<1>1. call[c] \in Calling(begun) /\ Proper(c, call[c])
  BY DEF NoiseInv, NoiseTypeOK, CallsProper
<1> QED
  BY <1>1 DEF Proper, Calling, Idle

\* An end closes the session whose lease it takes, and no other.
LEMMA EndKeepsInv ==
    ASSUME NoiseInv, NoiseTypeOK', NEW c \in Callers, Ends(c)
    PROVE  NoiseInv'
<1>0. /\ call[c] \in Calling(begun) /\ allowed.begins \in Nat /\ call[c].pc = "ends"
      /\ begun \in 0..MaxSessions /\ MaxSessions \in Nat
  BY NoiseDiagnosticAssumption DEF NoiseInv, NoiseTypeOK, DiagnosticBounds, Ends
<1>1. CASE ~Names(call[c].session)
  BY <1>0, <1>1, GoesOnKeepsInv, RecordsAreProper DEF Ends
<1>2. CASE Names(call[c].session)
  <2> DEFINE now == [call[c] EXCEPT !.pc = "restores", !.session = lease]
  <2>1. /\ call' = [call EXCEPT ![c] = now] /\ lease' = 0 /\ UNCHANGED <<begun, allowed>>
        /\ sessions' = [sessions EXCEPT ![lease].done = TRUE]
    BY <1>2 DEF Ends, NoiseInv, NoiseTypeOK
  <2>2. lease \in 1..begun /\ lease \in Sessions
    BY <1>0, <1>2 DEF Names, NoiseInv, NoiseTypeOK, Sessions
  <2>3. now.pc = "restores" /\ now.session = lease
    BY <1>0 DEF Calling
  <2>4. Proper(c, now)
    <3>1. c \in Sessions => call[c].session = c /\ c # 0
      BY <1>0 DEF NoiseInv, CallsProper, Proper, Sessions
    <3>2. c \in Sessions => lease = c
      BY <1>2, <3>1 DEF Names
    <3> QED
      BY <2>2, <2>3, <3>2 DEF Proper
  <2> HIDE DEF now
  <2>5. LeasesBounded'
    <3>1. allowed'.begins \in Nat /\ allowed'.begins <= allowed.begins /\ now.pc \notin {"begins", "leases"}
      BY <1>0, <2>1, <2>3
    <3> QED
      BY <2>1, <3>1, MoveKeepsBound
  <2>6. CallsProper'
    BY <2>1, <2>4 DEF CallsProper, Proper, NoiseInv, NoiseTypeOK
  <2>7. c \in Sessions => c <= begun
    BY <1>0 DEF NoiseInv, ClosedIsGone, Idle, Sessions
  <2>8. ClosedIsGone'
    <3>1. ASSUME NEW s \in 1..begun'
          PROVE  sessions'[s].done <=> lease' # s
      <4>1. s \in 1..begun /\ s \in Sessions /\ (sessions[s].done <=> lease # s)
        BY <1>0, <2>1, <3>1 DEF NoiseInv, ClosedIsGone, Sessions
      <4>2. sessions'[s].done
        BY <2>1, <4>1 DEF NoiseInv, NoiseTypeOK, Leases
      <4> QED
        BY <2>1, <4>1, <4>2
    <3>2. ASSUME NEW s \in Sessions, s > begun'
          PROVE  sessions'[s] = NoSession /\ call'[s] = Idle
      BY <1>0, <2>1, <2>2, <2>7, <3>2 DEF NoiseInv, NoiseTypeOK, ClosedIsGone, Sessions
    <3> QED
      BY <3>1, <3>2 DEF ClosedIsGone
  <2> QED
    BY <2>5, <2>6, <2>8 DEF NoiseInv
<1> QED
  BY <1>1, <1>2

LEMMA StepsKeepInv ==
    ASSUME NoiseInv, NoiseTypeOK', NEW c \in Callers, LeaseSteps(c)
    PROVE  NoiseInv'
<1>1. CASE RestoreReads(c)
  <2> DEFINE back == Restored(call[c].session)
             value == IF back.mode = "custom" THEN back.custom ELSE config.gear
  <2>1. CASE call' = [call EXCEPT ![c] = Idle]
    BY <1>1, <2>1, GoesOnKeepsInv, RecordsAreProper DEF RestoreReads
  <2>2. CASE call' = [call EXCEPT ![c].pc = "rewrites", ![c].rev = config.rev, ![c].value = value]
    <3> DEFINE now == [call[c] EXCEPT !.pc = "rewrites", !.rev = config.rev, !.value = value]
    <3>1. call' = [call EXCEPT ![c] = now]
      BY <2>2 DEF NoiseInv, NoiseTypeOK
    <3> HIDE DEF value
    <3>2. Proper(c, now) /\ now.pc = "rewrites"
      <4>1. call[c].pc = "restores"
        BY <1>1 DEF RestoreReads
      <4>2. \A rev, v : /\ Proper(c, [call[c] EXCEPT !.pc = "rewrites", !.rev = rev, !.value = v])
                        /\ [call[c] EXCEPT !.pc = "rewrites", !.rev = rev, !.value = v].pc = "rewrites"
        BY <4>1, RecordsAreProper, Zenon
      <4> QED
        BY <4>2, Zenon
    <3> HIDE DEF now
    <3> QED
      BY <1>1, <3>1, <3>2, GoesOnKeepsInv DEF RestoreReads
  <2> QED
    BY <1>1, <2>1, <2>2 DEF RestoreReads
<1>2. CASE RestoreWrites(c)
  <2>1. call' = [call EXCEPT ![c] = Idle] /\ (allowed' = allowed \/ allowed' = [allowed EXCEPT !.fails = @ - 1])
    BY <1>2 DEF RestoreWrites, Writes
  <2> QED
    BY <1>2, <2>1, GoesOnKeepsInv, RecordsAreProper DEF RestoreWrites
<1> QED
  BY <1>1, <1>2, EndKeepsInv DEF LeaseSteps

\* A timer that fires ends its own session, or finds it closed and is gone.
LEMMA TimersKeepInv ==
    ASSUME NoiseInv, NoiseTypeOK', NEW s \in Sessions, TimerFires(s)
    PROVE  NoiseInv'
<1>1. s \in Callers /\ s # 0
  BY NoiseDiagnosticAssumption DEF Callers, Sessions
<1>2. Proper(s, TimerEnds(s)) /\ TimerEnds(s).pc = "ends"
  BY <1>1 DEF Proper, TimerEnds, Idle
<1> QED
  BY <1>1, <1>2, GoesOnKeepsInv, RecordsAreProper DEF TimerFires

\* A request that is refused, or takes a lease nobody has had.
LEMMA LeaseKeepsInv ==
    ASSUME NoiseInv, NoiseTypeOK', NEW c \in Clients, BeginLeases(c)
    PROVE  NoiseInv'
<1>0. /\ c \in Callers /\ c \notin Sessions /\ call[c].pc = "leases" /\ allowed.begins \in Nat
      /\ begun \in 0..MaxSessions /\ MaxSessions \in Nat /\ lease \in 0..begun
  BY NoiseDiagnosticAssumption DEF Callers, Sessions, NoiseInv, NoiseTypeOK, DiagnosticBounds, BeginLeases
<1>1. CASE Active
  BY <1>0, <1>1, GoesOnKeepsInv, RecordsAreProper DEF BeginLeases
<1>2. CASE ~Active
  <2> DEFINE new == begun + 1
             now == [Idle EXCEPT !.pc = "timer", !.session = new]
             record == [NoSession EXCEPT !.rev = call[c].rev, !.old = call[c].old]
  <2>1. new \in Sessions /\ new + allowed.begins + Cardinality(Beginners \ {c}) <= MaxSessions
    BY <1>0, BeginHasRoom DEF NoiseInv
  <2>2. /\ begun' = new /\ lease' = new /\ allowed' = allowed
        /\ call' = [call EXCEPT ![c] = Idle, ![new] = now]
        /\ sessions' = [s \in Sessions |->
             IF s = new THEN record
             ELSE IF s = lease THEN [sessions[s] EXCEPT !.done = TRUE] ELSE sessions[s]]
    BY <1>2 DEF BeginLeases
  <2>3. now.pc = "timer" /\ now.session = new /\ ~record.done
    BY DEF Idle, NoSession
  <2>4. LeasesBounded'
    <3>1. Beginners' = Beginners \ {c}
      BY <1>0, <2>1, <2>2, <2>3, NoiseDiagnosticAssumption
      DEF Beginners, Callers, Sessions, NoiseInv, NoiseTypeOK, Idle
    <3> QED
      BY <2>1, <2>2, <3>1 DEF LeasesBounded
  <2> HIDE DEF now, record
  <2>5. CallsProper'
    <3>1. \A d \in Callers : call'[d] = IF d = new THEN now ELSE IF d = c THEN Idle ELSE call[d]
      BY <1>0, <2>1, <2>2 DEF NoiseInv, NoiseTypeOK
    <3>2. \A d \in Callers : Proper(d, call[d]) /\ Proper(d, Idle)
      BY RecordsAreProper DEF NoiseInv, CallsProper
    <3>3. Proper(new, now)
      BY <2>3 DEF Proper
    <3> QED
      BY <3>1, <3>2, <3>3 DEF CallsProper, Proper
  <2>6. ClosedIsGone'
    <3>1. ASSUME NEW s \in 1..begun'
          PROVE  sessions'[s].done <=> lease' # s
      <4>1. CASE s = new
        BY <2>1, <2>2, <2>3, <4>1
      <4>2. CASE s # new
        <5>1. s \in 1..begun /\ s \in Sessions
          BY <1>0, <2>2, <4>2 DEF Sessions
        <5>2. sessions[s] \in Leases /\ (sessions[s].done <=> lease # s)
          BY <5>1 DEF NoiseInv, NoiseTypeOK, ClosedIsGone
        <5> QED
          BY <2>2, <4>2, <5>1, <5>2 DEF Leases
      <4> QED
        BY <4>1, <4>2
    <3>2. ASSUME NEW s \in Sessions, s > begun'
          PROVE  sessions'[s] = NoSession /\ call'[s] = Idle
      <4>1. s # new /\ s # lease /\ s > begun /\ s # c /\ s \in Callers
        BY <1>0, <2>2, <3>2 DEF Sessions, Callers
      <4>2. sessions[s] = NoSession /\ call[s] = Idle
        BY <4>1 DEF NoiseInv, ClosedIsGone
      <4> QED
        BY <2>2, <4>1, <4>2 DEF NoiseInv, NoiseTypeOK
    <3> QED
      BY <3>1, <3>2 DEF ClosedIsGone
  <2> QED
    BY <2>4, <2>5, <2>6 DEF NoiseInv
<1> QED
  BY <1>1, <1>2

LEMMA RequestStepsKeepInv ==
    ASSUME NoiseInv, NoiseTypeOK', NEW c \in Clients, RequestSteps(c)
    PROVE  NoiseInv'
<1>0. c \in Callers
  BY DEF Callers
<1>1. CASE BeginReadsRevision(c)
  <2> DEFINE now == [call[c] EXCEPT !.pc = "leases", !.rev = config.rev]
  <2>1. Proper(c, now)
    BY <1>0, RecordsAreProper, Zenon
  <2>2. call' = [call EXCEPT ![c] = now]
    BY <1>1 DEF BeginReadsRevision, NoiseInv, NoiseTypeOK
  <2> HIDE DEF now
  <2> QED
    BY <1>0, <1>1, <2>1, <2>2, GoesOnKeepsInv DEF BeginReadsRevision
<1>2. CASE TargetReturns(c) \/ UserCommits(c)
  BY <1>0, <1>2, GoesOnKeepsInv, RecordsAreProper DEF TargetReturns, UserCommits
<1>3. CASE TargetWrites(c) \/ UserWrites(c)
  <2>1. allowed' = allowed \/ allowed' = [allowed EXCEPT !.fails = @ - 1]
    BY <1>3 DEF TargetWrites, UserWrites, Writes
  <2>2. \/ call' = [call EXCEPT ![c] = Idle]
        \/ \E step \in {"settles", "commits"} : call' = [call EXCEPT ![c] = [call[c] EXCEPT !.pc = step]]
    BY <1>3 DEF TargetWrites, UserWrites, Writes
  <2>3. call[c].pc # "idle" /\ UNCHANGED <<lease, sessions, begun>>
    BY <1>3 DEF TargetWrites, UserWrites
  <2>4. CASE call' = [call EXCEPT ![c] = Idle]
    BY <1>0, <2>1, <2>3, <2>4, GoesOnKeepsInv, RecordsAreProper
  <2>5. ASSUME NEW step \in {"settles", "commits"},
               call' = [call EXCEPT ![c] = [call[c] EXCEPT !.pc = step]]
        PROVE  NoiseInv'
    <3> DEFINE now == [call[c] EXCEPT !.pc = step]
    <3>1. Proper(c, now) /\ now.pc = step
      <4>1. call[c] \in Calling(begun)
        BY <1>0 DEF NoiseInv, NoiseTypeOK
      <4>2. now.pc = step
        BY <4>1 DEF Calling
      <4> QED
        BY <4>2 DEF Proper
    <3> HIDE DEF now
    <3>2. call' = [call EXCEPT ![c] = now]
      BY <2>5 DEF now
    <3> QED
      BY <1>0, <2>1, <2>3, <3>1, <3>2, GoesOnKeepsInv
  <2> QED
    BY <2>2, <2>4, <2>5
<1> QED
  BY <1>0, <1>1, <1>2, <1>3, StepsKeepInv, LeaseKeepsInv DEF RequestSteps

LEMMA NoiseStepKeepsInv ==
    ASSUME NoiseInv, [NoiseNext]_noiseVars
    PROVE  NoiseInv'
<1>0. NoiseTypeOK' /\ Sessions \cup {System, Monitor} \subseteq Callers
  BY NoiseStepKeepsTypes DEF Callers
<1>1. CASE UNCHANGED noiseVars
  BY <1>0, <1>1 DEF noiseVars, NoiseInv, LeasesBounded, Beginners, CallsProper, Proper, ClosedIsGone
<1> QED
  BY <1>0, <1>1, TicksKeepInv, RequestsKeepInv, RequestStepsKeepInv, StepsKeepInv, TimersKeepInv
  DEF NoiseNext, MonitorSteps

LEMMA NoiseInitInv ==
    ASSUME NoiseInit
    PROVE  NoiseInv
<1> PICK wanted \in {"auto", "custom", "gear"}, custom \in Customs, gear \in Gears, m \in DiagnosticMixes :
      /\ config = [mode |-> wanted, custom |-> custom, gear |-> gear, rev |-> 0]
      /\ lease = 0 /\ begun = 0
      /\ sessions = [s \in Sessions |-> NoSession]
      /\ on = TRUE
      /\ fan = IF wanted = "auto" THEN Demand ELSE Manual(config)
      /\ force = FALSE /\ usable = TRUE /\ stray = FALSE
      /\ ticker = [pc |-> "idle", follow |-> wanted = "auto", auto |-> wanted = "auto", seen |-> fan,
                   last |-> IF wanted = "auto" THEN Demand ELSE 0, misses |-> 0, applied |-> FALSE]
      /\ call = [c \in Callers |-> Idle]
      /\ allowed = m
  BY DEF NoiseInit
<1>1. Idle.pc = "idle" /\ Idle \in Calling(0) /\ NoSession \in Leases /\ ~NoSession.done
  BY IdleIsTyped DEF Idle, NoSession
<1>2. fan \in FanSpeeds /\ Demand \in FanSpeeds /\ 0 \in FanSpeeds
  BY DEF FanSpeeds, Manual
<1>3. NoiseTypeOK
  <2>1. config \in [mode : ControlModes, custom : FanSpeeds, gear : FanSpeeds, rev : Nat]
    BY DEF ControlModes, FanSpeeds
  <2>2. ticker \in Ticking
    BY <1>2, NoiseDiagnosticAssumption DEF Ticking, TickSteps
  <2>3. begun \in 0..MaxSessions /\ lease \in 0..begun
    BY NoiseDiagnosticAssumption
  <2>4. sessions \in [Sessions -> Leases] /\ call \in [Callers -> Calling(begun)]
    BY <1>1
  <2>5. allowed \in DiagnosticBounds
    BY NoiseDiagnosticAssumption
  <2> QED
    BY <1>2, <2>1, <2>2, <2>3, <2>4, <2>5 DEF NoiseTypeOK
<1>4. LeasesBounded
  <2>1. Beginners = {}
    BY <1>1 DEF Beginners, Callers
  <2>2. Cardinality(Beginners) = 0
    BY <2>1, FS_EmptySet
  <2>3. allowed.begins \in 0..MaxSessions /\ MaxSessions \in Nat
    BY NoiseDiagnosticAssumption DEF DiagnosticBounds
  <2> QED
    BY <2>2, <2>3 DEF LeasesBounded
<1>5. CallsProper /\ ClosedIsGone
  BY <1>1 DEF CallsProper, Proper, ClosedIsGone, Callers, Sessions
<1> QED
  BY <1>3, <1>4, <1>5 DEF NoiseInv

-----------------------------------------------------------------------------
(* The noise diagnostic: what follows.                                     *)

\* The invariant holds of every behaviour of the diagnostic.
THEOREM NoiseInvHolds == NoiseSpec => []NoiseInv
<1>1. NoiseInit => NoiseInv
  BY NoiseInitInv
<1>2. NoiseInv /\ [NoiseNext]_noiseVars => NoiseInv'
  BY NoiseStepKeepsInv
<1> QED
  BY <1>1, <1>2, PTL DEF NoiseSpec

\* The types of the diagnostic: leases, calls and tick of noise_diagnostic.go
\* and monitoring.go stay what they are declared to be, and no more sessions
\* are begun than were allowed for.
THEOREM NoiseTypesHold == NoiseSpec => []NoiseTypeOK
<1>1. NoiseInv => NoiseTypeOK
  BY DEF NoiseInv
<1> QED
  BY <1>1, NoiseInvHolds, PTL

\* Every channel that finishNoiseDiagnostic and BeginNoiseDiagnostic close
\* (lease.done) is open, as closing one twice would panic; and the goroutine of
\* an expiry timer that still waits has the lease or finds its channel closed.
ChannelsCloseOnce ==
  /\ lease # 0 => ~sessions[lease].done
  /\ \A s \in Sessions : call[s].pc = "timer" => lease = s \/ sessions[s].done

THEOREM ChannelsHold == NoiseSpec => []ChannelsCloseOnce
<1>1. NoiseInv => ChannelsCloseOnce
  BY NoiseDiagnosticAssumption
  DEF NoiseInv, NoiseTypeOK, ClosedIsGone, ChannelsCloseOnce, Sessions, Idle
<1> QED
  BY <1>1, NoiseInvHolds, PTL

\* A live lease is taken away by nobody but its own end, cancel or expiry, or
\* the core (finishNoiseDiagnostic compares the session under the lock): the
\* end of a session that is over leaves its successor alone.
THEOREM SessionsHold == NoiseSpec => SessionsStand
<1> DEFINE Stands ==
      lease # 0 /\ lease' # lease =>
        \/ sessions[lease].expired
        \/ \E c \in Callers : /\ call[c].pc = "ends" /\ call'[c].pc = "restores"
                              /\ \/ call[c].session = lease
                                 \/ c \in {System, Monitor}
<1>1. ASSUME NoiseInv, NEW c \in Callers, Ends(c)
      PROVE  Stands
  <2>1. CASE ~Names(call[c].session)
    BY <1>1, <2>1 DEF Ends
  <2>2. CASE Names(call[c].session)
    <3>1. call[c].pc = "ends" /\ (call[c].session = 0 \/ call[c].session = lease)
      BY <1>1, <2>2 DEF Ends, Names
    <3>2. call'[c] = [call[c] EXCEPT !.pc = "restores", !.session = lease]
      BY <1>1, <2>2 DEF Ends, NoiseInv, NoiseTypeOK
    <3>3. call'[c].pc = "restores"
      BY <1>1, <3>2 DEF NoiseInv, NoiseTypeOK, Calling
    <3>4. call[c].session = 0 => c \in {System, Monitor}
      BY <1>1, <3>1 DEF NoiseInv, CallsProper, Proper
    <3> QED
      BY <3>1, <3>3, <3>4
  <2> QED
    BY <2>1, <2>2
<1>2. ASSUME NEW c \in Clients, BeginLeases(c)
      PROVE  Stands
  BY <1>2 DEF BeginLeases, Active
<1>3. ASSUME NoiseInv, NoiseNext
      PROVE  Stands
  <2>1. Clients \cup Sessions \cup {System, Monitor} \subseteq Callers
    BY DEF Callers
  <2>2. ASSUME NEW c \in Callers, LeaseSteps(c)
        PROVE  Stands
    BY <1>1, <1>3, <2>2 DEF LeaseSteps, RestoreReads, RestoreWrites
  <2>3. ASSUME NEW c \in Clients, Requests(c) \/ RequestSteps(c)
        PROVE  Stands
    <3>1. CASE Requests(c)
      <4>1. lease' = lease
        BY <3>1 DEF Requests, BeginReads, TargetLooksUp, EndRequested, UserSets
      <4> QED
        BY <4>1, Zenon
    <3>2. CASE RequestSteps(c)
      <4>1. CASE \/ BeginReadsRevision(c) \/ TargetWrites(c) \/ TargetReturns(c)
                 \/ UserWrites(c) \/ UserCommits(c)
        <5>1. lease' = lease
          BY <4>1 DEF BeginReadsRevision, TargetWrites, TargetReturns, UserWrites, UserCommits
        <5> QED
          BY <5>1
      <4> HIDE DEF Stands
      <4> QED
        BY <1>2, <2>1, <2>2, <3>2, <4>1 DEF RequestSteps
    <3> QED
      BY <2>3, <3>1, <3>2
  <2>4. CASE \/ Expires \/ LinkLost \/ LinkBack \/ Suspends \/ SensorsChange
             \/ \E s \in Sessions : TimerFires(s)
    BY <2>4 DEF Expires, LinkLost, LinkBack, Suspends, SensorsChange, TimerFires
  <2>5. CASE TickCopies \/ TickObserves \/ TickDecides \/ TickWrites \/ TickEndsLease \/ TickSaves
    BY <2>5 DEF TickCopies, TickObserves, TickDecides, TickWrites, TickEndsLease, TickSaves
  <2> HIDE DEF Stands
  <2> QED
    BY <1>3, <2>1, <2>2, <2>3, <2>4, <2>5 DEF NoiseNext, MonitorSteps
<1>4. NoiseInv /\ [NoiseNext]_noiseVars => [Stands]_noiseVars
  BY <1>3 DEF noiseVars
<1> QED
  BY <1>4, NoiseInvHolds, PTL DEF NoiseSpec, SessionsStand
=============================================================================
