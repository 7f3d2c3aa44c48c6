-------------------------- MODULE MonitorLifecycle --------------------------
(***************************************************************************)
(* The life cycle of the temperature monitor (coreapp/monitoring.go): the  *)
(* goroutine that reads temperatures and drives the fan.  The core wants   *)
(* exactly one while the machine is awake.  Five places start it (core     *)
(* start, the commit of a connection, the health check, a resume) and two  *)
(* stop it (suspend, Stop); a start that finds a monitor being stopped     *)
(* waits for its done channel and tries again.                             *)
(*                                                                         *)
(* Runs are the goroutines in startTemperatureMonitoring.  Channels and    *)
(* contexts are named by the run that made them.  Each critical section of *)
(* monitoringMutex is one step: nothing blocks inside one.                 *)
(*                                                                         *)
(* The machine, the connection and time are the environment: suspends,     *)
(* gaps, commits and panics have budgets.                                  *)
(***************************************************************************)
EXTENDS FiniteSets, Naturals

CONSTANTS
    Runs,       \* goroutines that may be in startTemperatureMonitoring at once
    NoRun,      \* nil, for a channel
    EventMixes  \* the mixes of environment events a behaviour may contain

MonitorEvents == {"suspend", "gap", "commit", "panic", "stop"}

ASSUME RunsAssumption == NoRun \notin Runs
ASSUME EventMixesAssumption == EventMixes \subseteq [MonitorEvents -> Nat]

VARIABLES
    pc,                 \* where each run is
    previousDone,       \* the channel a run waits for
    cancelled,          \* runs whose context is cancelled
    monitoringDone,     \* the run whose channel is stored
    monitoringStopping, \* stopTemperatureMonitoring was called on it
    monitoringTemp,     \* the flag the health check reads
    systemSuspended,    \* the core believes the machine is suspended
    stopping,           \* Stop has begun
    recoveryCooling,    \* within systemResumeRecoveryCooldown of the last recovery
    machine,            \* what the system has told the core last: awake or asleep
    control,            \* where each of the controllers below is
    proactive,          \* handleSystemResume's proactivelySuspended
    coming              \* events still to come

runVars == <<pc, previousDone, cancelled>>
monitorVars == <<monitoringDone, monitoringStopping, monitoringTemp>>
systemVars == <<systemSuspended, stopping, recoveryCooling, machine>>
controlVars == <<control, proactive>>
lifeVars == <<runVars, monitorVars, systemVars, controlVars, coming>>

RunSteps == {"none", "begin", "wait", "run", "finish"}
Controllers == {"power", "recovery", "health", "stop"}
ControlSteps == {"idle", "stop", "swap", "restart", "clean", "check", "wait", "done"}

\* Every variable stays in its type.
LifeTypeOK ==
    /\ pc \in [Runs -> RunSteps]
    /\ previousDone \in [Runs -> Runs \cup {NoRun}]
    /\ cancelled \subseteq Runs
    /\ monitoringDone \in Runs \cup {NoRun}
    /\ monitoringStopping \in BOOLEAN /\ monitoringTemp \in BOOLEAN
    /\ systemSuspended \in BOOLEAN /\ stopping \in BOOLEAN
    /\ recoveryCooling \in BOOLEAN /\ machine \in {"awake", "asleep"}
    /\ control \in [Controllers -> ControlSteps]
    /\ proactive \in BOOLEAN
    /\ coming \in [MonitorEvents -> Nat]

Occurs(event) ==
    /\ coming[event] > 0
    /\ coming' = [coming EXCEPT ![event] = @ - 1]

-----------------------------------------------------------------------------
(* The monitor.                                                            *)

\* safeGo(startTemperatureMonitoring): a new goroutine, which has not begun.
Spawn(r) ==
    /\ pc[r] = "none"
    /\ pc' = [pc EXCEPT ![r] = "begin"]
    /\ UNCHANGED <<previousDone, cancelled>>

\* Mutant: a monitor that is being stopped does not count as one.
BeginStarts_OverStopping(r) ==
    /\ pc[r] = "begin" /\ (monitoringDone = NoRun \/ monitoringStopping)
    /\ monitoringDone' = r
    /\ monitoringStopping' = FALSE
    /\ monitoringTemp' = TRUE
    /\ pc' = [pc EXCEPT ![r] = "run"]
    /\ UNCHANGED <<previousDone, cancelled, systemVars, controlVars, coming>>

\* No monitor is registered: this one is, with a context and channel of its own.
BeginStarts(r) ==
    /\ pc[r] = "begin" /\ monitoringDone = NoRun
    /\ monitoringDone' = r
    /\ monitoringStopping' = FALSE
    /\ monitoringTemp' = TRUE
    /\ pc' = [pc EXCEPT ![r] = "run"]
    /\ UNCHANGED <<previousDone, cancelled, systemVars, controlVars, coming>>

\* A monitor is registered and not being stopped: this goroutine is not needed.
BeginGivesUp(r) ==
    /\ pc[r] = "begin" /\ monitoringDone # NoRun /\ ~monitoringStopping
    /\ pc' = [pc EXCEPT ![r] = "none"]
    /\ UNCHANGED <<previousDone, cancelled, monitorVars, systemVars, controlVars, coming>>

\* A monitor is being stopped: wait for its channel, then try again.
BeginWaits(r) ==
    /\ pc[r] = "begin" /\ monitoringDone # NoRun /\ monitoringStopping
    /\ previousDone' = [previousDone EXCEPT ![r] = monitoringDone]
    /\ pc' = [pc EXCEPT ![r] = "wait"]
    /\ UNCHANGED <<cancelled, monitorVars, systemVars, controlVars, coming>>

\* The loop sees its context at the next select, after the tick it is in.
LoopReturns(r) ==
    /\ pc[r] = "run" /\ r \in cancelled
    /\ pc' = [pc EXCEPT ![r] = "finish"]
    /\ UNCHANGED <<previousDone, cancelled, monitorVars, systemVars, controlVars, coming>>

\* A tick panics: the deferred finish runs, safeGo recovers.
LoopPanics(r) ==
    /\ pc[r] = "run"
    /\ Occurs("panic")
    /\ pc' = [pc EXCEPT ![r] = "finish"]
    /\ UNCHANGED <<previousDone, cancelled, monitorVars, systemVars, controlVars>>

\* close(done) wakes everyone who waits for it; r itself is gone.
Closed(r) ==
    [s \in Runs |-> IF s = r THEN "none"
                    ELSE IF pc[s] = "wait" /\ previousDone[s] = r THEN "begin"
                    ELSE pc[s]]

\* The channel and the context of r are forgotten with it.
Forgotten(r) ==
    /\ previousDone' = [s \in Runs |-> IF previousDone[s] = r THEN NoRun ELSE previousDone[s]]
    /\ cancelled' = cancelled \ {r}

\* Mutant: the flag is left set.
Finish_KeepsFlag(r) ==
    /\ pc[r] = "finish" /\ monitoringDone = r
    /\ monitoringDone' = NoRun
    /\ monitoringStopping' = FALSE
    /\ pc' = Closed(r) /\ Forgotten(r)
    /\ UNCHANGED <<monitoringTemp, systemVars, controlVars, coming>>

\* finishTemperatureMonitoring.
Finish(r) ==
    /\ pc[r] = "finish"
    /\ IF monitoringDone = r
       THEN /\ monitoringDone' = NoRun
            /\ monitoringStopping' = FALSE
            /\ monitoringTemp' = FALSE
            /\ pc' = Closed(r)
       ELSE /\ pc' = [pc EXCEPT ![r] = "none"]
            /\ UNCHANGED monitorVars
    /\ Forgotten(r)
    /\ UNCHANGED <<systemVars, controlVars, coming>>

\* stopTemperatureMonitoring: cancels the registered monitor, if there is one.
StopMonitoring ==
    IF monitoringDone = NoRun
    THEN UNCHANGED <<cancelled, monitoringStopping>>
    ELSE /\ monitoringStopping' = TRUE
         /\ cancelled' = cancelled \cup {monitoringDone}

Run(r) == BeginStarts(r) \/ BeginGivesUp(r) \/ BeginWaits(r) \/ LoopReturns(r) \/ Finish(r)

-----------------------------------------------------------------------------
(* Its controllers.                                                        *)

At(c, step) == control[c] = step

Goto(c, from, to) ==
    /\ At(c, from)
    /\ control' = [control EXCEPT ![c] = to]

\* onSystemSuspend, up to the flag: a second suspend changes nothing.  Stop
\* takes the power notifications away first.
SuspendBegins ==
    /\ machine = "awake" /\ At("power", "idle") /\ ~stopping
    /\ Occurs("suspend")
    /\ machine' = "asleep"
    /\ systemSuspended' = TRUE
    /\ IF systemSuspended THEN UNCHANGED control ELSE Goto("power", "idle", "stop")
    /\ UNCHANGED <<runVars, monitorVars, stopping, recoveryCooling, proactive>>

\* onSystemSuspend, later: stopTemperatureMonitoring.
SuspendStops ==
    /\ Goto("power", "stop", "idle")
    /\ StopMonitoring
    /\ UNCHANGED <<pc, previousDone, monitoringDone, monitoringTemp, systemVars, proactive, coming>>

\* triggerResumeRecovery: throttled, and one recovery at a time.
TriggerResumeRecovery ==
    IF recoveryCooling \/ ~At("recovery", "idle")
    THEN UNCHANGED <<recoveryCooling, control>>
    ELSE recoveryCooling' = TRUE /\ Goto("recovery", "idle", "swap")

\* onSystemResume.
ResumeNotice ==
    /\ machine = "asleep" /\ At("power", "idle") /\ ~stopping
    /\ machine' = "awake"
    /\ TriggerResumeRecovery
    /\ UNCHANGED <<runVars, monitorVars, systemSuspended, stopping, proactive, coming>>

\* maybeRecoverFromSystemResume, from a tick of the monitor or of the health
\* check that comes late; a resume notice that is repeated does the same.
GapDetected ==
    /\ ~At("stop", "done") \/ \E r \in Runs : pc[r] = "run"
    /\ Occurs("gap")
    /\ TriggerResumeRecovery
    /\ UNCHANGED <<runVars, monitorVars, systemSuspended, stopping, machine, proactive>>

CooldownEnds ==
    /\ recoveryCooling /\ recoveryCooling' = FALSE
    /\ UNCHANGED <<runVars, monitorVars, systemSuspended, stopping, machine, controlVars, coming>>

\* handleSystemResume: the suspend is over, whether or not it was noticed.
RecoverySwaps ==
    /\ Goto("recovery", "swap", "restart")
    /\ proactive' = systemSuspended
    /\ systemSuspended' = FALSE
    /\ UNCHANGED <<runVars, monitorVars, stopping, recoveryCooling, machine, coming>>

\* handleSystemResume, after the bridge: a monitor that a suspend has stopped is
\* started again.
RecoveryRestarts ==
    /\ Goto("recovery", "restart", "clean")
    /\ IF proactive THEN \E r \in Runs : Spawn(r) ELSE UNCHANGED runVars
    /\ UNCHANGED <<monitorVars, systemVars, proactive, coming>>

\* handleSystemResume goes on to close the device and to request a reconnect.
RecoveryEnds ==
    /\ Goto("recovery", "clean", "idle")
    /\ proactive' = FALSE
    /\ UNCHANGED <<runVars, monitorVars, systemVars, coming>>

\* ensureTemperatureMonitoringHealthy reads systemSuspended, and then the flag.
\* Its ticker runs until Stop cleans up.
HealthReads ==
    /\ ~systemSuspended /\ ~At("stop", "done")
    /\ Goto("health", "idle", "check")
    /\ UNCHANGED <<runVars, monitorVars, systemVars, proactive, coming>>

HealthRestarts ==
    /\ Goto("health", "check", "idle")
    /\ IF monitoringTemp THEN UNCHANGED runVars ELSE \E r \in Runs : Spawn(r)
    /\ UNCHANGED <<monitorVars, systemVars, proactive, coming>>

\* finishSuccessfulDeviceConnection starts a monitor at its end.
CommitStarts ==
    /\ ~systemSuspended
    /\ Occurs("commit")
    /\ \E r \in Runs : Spawn(r)
    /\ UNCHANGED <<monitorVars, systemVars, controlVars>>

StopBegins ==
    /\ ~stopping /\ stopping' = TRUE
    /\ Occurs("stop")
    /\ Goto("stop", "idle", "stop")
    /\ UNCHANGED <<runVars, monitorVars, systemSuspended, recoveryCooling, machine, proactive>>

StopStops ==
    /\ Goto("stop", "stop", "wait")
    /\ StopMonitoring
    /\ UNCHANGED <<pc, previousDone, monitoringDone, monitoringTemp, systemVars, proactive, coming>>

\* The monitor's channel is closed, or three seconds have passed; cleanup.
StopGoesOn ==
    /\ Goto("stop", "wait", "done")
    /\ UNCHANGED <<runVars, monitorVars, systemVars, proactive, coming>>

-----------------------------------------------------------------------------
\* Start has just started the first monitor.
LifeInit ==
    /\ \E first \in Runs : pc = [r \in Runs |-> IF r = first THEN "begin" ELSE "none"]
    /\ previousDone = [r \in Runs |-> NoRun]
    /\ cancelled = {}
    /\ monitoringDone = NoRun /\ monitoringStopping = FALSE /\ monitoringTemp = FALSE
    /\ systemSuspended = FALSE /\ stopping = FALSE /\ recoveryCooling = FALSE
    /\ machine = "awake"
    /\ control = [c \in Controllers |-> "idle"]
    /\ proactive = FALSE
    /\ coming \in EventMixes

Recovery == RecoverySwaps \/ RecoveryRestarts \/ RecoveryEnds
Health == HealthReads \/ HealthRestarts
Shutdown == StopStops \/ StopGoesOn

LifeNext ==
    \/ \E r \in Runs : Run(r) \/ LoopPanics(r)
    \/ SuspendBegins \/ SuspendStops \/ ResumeNotice
    \/ GapDetected \/ CooldownEnds \/ Recovery
    \/ Health \/ CommitStarts \/ StopBegins \/ Shutdown

LifeSpec == LifeInit /\ [][LifeNext]_lifeVars

\* Goroutines that can run do, I/O ends, the health check's ticker ticks, a
\* suspended machine wakes up.
FairLifeSpec ==
    /\ LifeSpec
    /\ \A r \in Runs : WF_lifeVars(Run(r))
    /\ WF_lifeVars(SuspendStops) /\ WF_lifeVars(ResumeNotice) /\ SF_lifeVars(Recovery)
    /\ SF_lifeVars(Health) /\ WF_lifeVars(Shutdown)

-----------------------------------------------------------------------------
(* Properties.                                                             *)

\* A monitor from its successful begin to its finish.
Alive(r) == pc[r] \in {"run", "finish"}

\* A monitor that nobody has told to stop.
Serving(r) == pc[r] = "run" /\ r \notin cancelled

\* Two monitors never run at once, whatever starts, stops and panics overlap:
\* a restart waits for the finish of the monitor it replaces.
OneMonitor == \A r, s \in Runs : Alive(r) /\ Alive(s) => r = s

\* The flag the health check relies on is set exactly while a monitor is alive:
\* a monitor that is gone is noticed, one that is being stopped is not doubled.
FlagTellsTruth == monitoringTemp <=> \E r \in Runs : Alive(r)

\* A start that waits does so for a monitor that is alive and cancelled, so the
\* channel it waits for is still going to be closed.
WaitersWillWake ==
    \A r \in Runs : pc[r] = "wait" =>
        \E s \in cancelled : s = previousDone[r] /\ Alive(s)

\* Once the core has left its last suspend it gets a monitor that stays, also
\* when a late suspend callback or a panic has taken the last one: the restart
\* of the recovery or of the health check is not lost.
MonitorComesBack ==
    <>[](~systemSuspended /\ ~stopping) => <>[](\E r \in Runs : Serving(r))

\* A resumed machine gets its monitor back ("called on the resume notice,
\* triggers the recovery of device and monitoring", onSystemResume).
AwakeIsMonitored ==
    <>[](machine = "awake" /\ ~stopping) => <>[](\E r \in Runs : Serving(r))

\* Between the stop of a suspend and its resume no monitor is serving.
SuspendedIsStopped ==
    systemSuspended /\ ~At("power", "stop") => \A r \in Runs : ~Serving(r)
=============================================================================
