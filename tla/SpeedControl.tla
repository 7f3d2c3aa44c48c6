---------------------------- MODULE SpeedControl ----------------------------
(***************************************************************************)
(* Who sets the speed of a Black Shark cooler that the host controls: the  *)
(* tick of the temperature monitor (coreapp/monitoring.go), which pushes   *)
(* routine targets, falls back to a safe speed when the temperatures are   *)
(* not usable and takes over again when they are; and the requests of the  *)
(* user (coreapp/config_control.go, blackshark.go), which write a speed    *)
(* and then commit the mode, or restore a snapshot of the cooler's curves. *)
(* The cooler stays connected; Connection has the rest.                    *)
(*                                                                         *)
(* reassertBlackSharkInverterGear, which the tick and the requests call    *)
(* when automatic control takes over, does nothing here: without a gear it *)
(* returns before it has looked who controls the speed (blackshark.go:914).*)
(*                                                                         *)
(* A tick has two steps: it copies the configuration, and after a blocking *)
(* read of the temperatures it acts on the copy.  What the smart control   *)
(* computes is the environment's: a demand.  Spinning fans report a speed. *)
(***************************************************************************)
EXTENDS Integers, SpeedPush

CONSTANTS
    AutoTargets,  \* what smart control may ask for
    SafeSpeed,    \* the highest target of the curve
    GearSpeed,    \* the manual gear's speed
    CustomSpeed,  \* the custom speed
    Threshold,    \* temperatureSafetyFallbackThreshold
    Budgets       \* the mixes of environment events a behaviour may contain

Events == {"demand", "telemetry", "refused", "torn", "request", "restore"}

ASSUME TargetsAssumption ==
    AutoTargets \subseteq Speeds /\ {SafeSpeed, GearSpeed, CustomSpeed} \subseteq Speeds
ASSUME LevelsAssumption == \A low, high \in Speeds : low .. high \subseteq Speeds
ASSUME ThresholdAssumption == Threshold \in Nat \ {0}
ASSUME BudgetsAssumption == Budgets \subseteq [Events -> Nat]

VARIABLES
    mode,            \* AutoControl and CustomSpeedEnabled of the stored configuration
    forceNext,       \* forceNextAutoTarget
    autoPushFailed,  \* an asynchronous push has reported a failure
    tick,            \* "wait", or the mode the running tick has copied
    lastTarget,      \* lastTargetRPM
    lastAuto,        \* lastAutoControl
    debounce,        \* direction of the deviation, and ticks it has had it
    invalidSamples,  \* of temperatureSafetyFallback, counted up to Threshold + 1
    fallbackActive,  \* of temperatureSafetyFallback
    client,          \* where the user's request is
    demand,          \* the target smart control computes
    inputReady,      \* the bridge delivers a usable temperature
    budget           \* events still to come

coreVars == <<mode, forceNext, autoPushFailed>>
tickVars == <<tick, lastTarget, lastAuto, debounce, invalidSamples, fallbackActive>>
worldVars == <<demand, inputReady>>
vars == <<queueVars, speedVars, coreVars, tickVars, client, worldVars, budget>>

Modes == {"auto", "manual", "custom"}
ClientSteps == {"idle", "gear", "commitGear", "custom", "commitCustom", "assert", "apply", "restored"}
Signs == {-1, 0, 1}

\* Every variable stays in its type.
TypeOK ==
    /\ SpeedPushTypeOK
    /\ mode \in Modes
    /\ forceNext \in BOOLEAN /\ autoPushFailed \in BOOLEAN
    /\ tick \in Modes \cup {"wait"}
    /\ lastTarget \in Speeds \cup {NoSpeed}
    /\ lastAuto \in BOOLEAN
    /\ debounce \in [sign : Signs, streak : 0..2]
    /\ invalidSamples \in 0..(Threshold + 1)
    /\ fallbackActive \in BOOLEAN
    /\ client \in ClientSteps
    /\ demand \in AutoTargets /\ inputReady \in BOOLEAN
    /\ budget \in [Events -> Nat]

Spend(event) ==
    /\ budget[event] > 0
    /\ budget' = [budget EXCEPT ![event] = @ - 1]

-----------------------------------------------------------------------------
(* The write, with its outcome.                                            *)

\* setTargetSpeedWithMode ends in SetTargetSpeed, whatever the mode is by then.
HostWrite(speed, ok) ==
    \/ ok /\ HostWrites(speed) /\ UNCHANGED budget
    \/ ~ok /\ HostWriteRefused(speed) /\ Spend("refused")
    \/ ~ok /\ HostWriteTorn(speed) /\ Spend("torn")

\* The worker writes the target it has taken and reports the outcome.
WorkerWrites(ok) ==
    /\ worker.at = "write"
    /\ HostWrite(worker.speed, ok)
    /\ WorkerGoesOn
    /\ autoPushFailed' = (autoPushFailed \/ ~ok)
    /\ UNCHANGED <<pushPending, mode, forceNext, tickVars, client, worldVars>>

Worker ==
    \/ WorkerTakes /\ UNCHANGED <<coreVars, tickVars, client, worldVars, budget>>
    \/ \E ok \in BOOLEAN : WorkerWrites(ok)

-----------------------------------------------------------------------------
(* The tick.                                                               *)

\* A tick begins: the configuration is copied.
TickReads ==
    /\ tick = "wait" /\ tick' = mode
    /\ cooling' = IF cooling > 0 THEN cooling - 1 ELSE 0
    /\ UNCHANGED <<queueVars, deviceSpeed, lastPushed, shownTarget, gaps, coreVars>>
    /\ UNCHANGED <<lastTarget, lastAuto, debounce, invalidSamples, fallbackActive>>
    /\ UNCHANGED <<client, worldVars, budget>>

\* The target of the last tick; after a gate, what the fan data say.
KnownTarget ==
    IF lastTarget # NoSpeed THEN lastTarget
    ELSE IF shownTarget # NoSpeed THEN shownTarget ELSE deviceSpeed

\* The end of a tick that automatic control was gated in.
TickGated == lastAuto' = FALSE /\ lastTarget' = NoSpeed

\* The copy says that automatic control is off.
TickIdles ==
    /\ tick \in {"manual", "custom"} /\ tick' = "wait"
    /\ invalidSamples' = 0 /\ fallbackActive' = FALSE
    /\ TickGated
    /\ UNCHANGED <<queueVars, speedVars, coreVars, debounce, client, worldVars, budget>>

\* Mutant: applied once, when the threshold is reached.
FallbackIsDue_Once(samples) == samples = Threshold

\* observe: from the threshold on, every tick.
FallbackIsDue(samples) == samples >= Threshold

\* One ramp step towards the safe speed.
Ramped(speed) ==
    IF speed < SafeSpeed THEN speed + 1
    ELSE IF speed > SafeSpeed THEN speed - 1 ELSE SafeSpeed

\* No usable temperature: count, and write the fallback when it is due, past the
\* queue, which is emptied.
TickFallsBack(ok) ==
    /\ tick = "auto" /\ ~inputReady /\ tick' = "wait"
    /\ LET samples == IF invalidSamples > Threshold THEN invalidSamples ELSE invalidSamples + 1
       IN  /\ invalidSamples' = samples
           /\ IF FallbackIsDue(samples)
              THEN /\ CancelPendingSpeedPush
                   /\ HostWrite(Ramped(KnownTarget), ok)
                   /\ fallbackActive' = (fallbackActive \/ ok)
              ELSE /\ ok
                   /\ UNCHANGED <<pushPending, speedVars, fallbackActive, budget>>
    /\ TickGated
    /\ UNCHANGED <<worker, coreVars, debounce, client, worldVars>>

\* blackSharkHostDebounceAdvance.
DebounceAdvanced(target, pushed) ==
    LET sign == IF target > pushed THEN 1 ELSE IF target < pushed THEN -1 ELSE 0
    IN  IF sign = 0 THEN [sign |-> 0, streak |-> 0]
        ELSE IF sign = debounce.sign THEN [sign |-> sign, streak |-> 2]
        ELSE [sign |-> sign, streak |-> 1]

\* shouldSendTargetSpeed.
ShouldSend(target, previous) == previous = NoSpeed \/ target # previous \/ target # shownTarget

\* A usable temperature: leave the fallback or take over if automatic control was
\* not running, then push the demand, unless debounced or unchanged.
TickFollows ==
    /\ tick = "auto" /\ inputReady /\ tick' = "wait"
    /\ invalidSamples' = 0 /\ fallbackActive' = FALSE /\ lastAuto' = TRUE
    /\ forceNext' = FALSE /\ autoPushFailed' = FALSE
    /\ LET forced == forceNext \/ fallbackActive \/ ~lastAuto
           previous == IF autoPushFailed THEN NoSpeed ELSE KnownTarget
           held == /\ ~forced /\ lastPushed # NoSpeed
                   /\ DebounceAdvanced(demand, lastPushed).streak = 1
       IN  /\ debounce' = IF forced \/ lastPushed = NoSpeed THEN [sign |-> 0, streak |-> 0]
                          ELSE DebounceAdvanced(demand, lastPushed)
           /\ IF forced \/ (~held /\ ShouldSend(demand, previous))
              THEN PushSpeedAsync(demand) /\ lastTarget' = demand
              ELSE UNCHANGED queueVars /\ lastTarget' = previous
    /\ UNCHANGED <<speedVars, mode, client, worldVars, budget>>

Tick == TickReads \/ TickIdles \/ TickFollows \/ \E ok \in BOOLEAN : TickFallsBack(ok)

-----------------------------------------------------------------------------
(* The user's requests: one at a time.                                     *)

\* SetManualGear, and SetAutoControl(false), which applies the current gear;
\* SetCustomSpeed(true).
ClientRequests ==
    /\ client = "idle" /\ Spend("request")
    /\ client' \in {"gear", "custom"}
    /\ UNCHANGED <<queueVars, speedVars, coreVars, tickVars, worldVars>>

\* SetManualGearRPM: for a Black Shark this is SetTargetSpeed.
ClientGearWrites(ok) ==
    /\ client \in {"gear", "apply"}
    /\ HostWrite(GearSpeed, ok)
    /\ client' = IF client = "gear" /\ ok THEN "commitGear" ELSE "idle"
    /\ UNCHANGED <<queueVars, coreVars, tickVars, worldVars>>

ClientCustomWrites(ok) ==
    /\ client = "custom"
    /\ HostWrite(CustomSpeed, ok)
    /\ client' = IF ok THEN "commitCustom" ELSE "idle"
    /\ UNCHANGED <<queueVars, coreVars, tickVars, worldVars>>

\* Only now does the configuration say so.
ClientCommits ==
    /\ \/ client = "commitGear" /\ mode' = "manual"
       \/ client = "commitCustom" /\ mode' = "custom"
    /\ client' = "idle"
    /\ UNCHANGED <<queueVars, speedVars, forceNext, autoPushFailed, tickVars, worldVars, budget>>

\* SetAutoControl(true), refused in custom mode: the commit, then its callback.
ClientCommitsAuto ==
    /\ client = "idle" /\ mode # "custom" /\ Spend("request")
    /\ mode' = "auto" /\ client' = "assert"
    /\ UNCHANGED <<queueVars, speedVars, forceNext, autoPushFailed, tickVars, worldVars>>

ClientAsserts ==
    /\ client = "assert" /\ client' = "idle"
    /\ forceNext' = TRUE
    /\ UNCHANGED <<queueVars, speedVars, mode, autoPushFailed, tickVars, worldVars, budget>>

\* SetCustomSpeed(false): the commit, then the manual gear in a goroutine.
ClientCustomOff ==
    /\ client = "idle" /\ mode = "custom" /\ Spend("request")
    /\ mode' = "manual" /\ client' = "apply"
    /\ UNCHANGED <<queueVars, speedVars, forceNext, autoPushFailed, tickVars, worldVars>>

\* RestoreBlackSharkConfig writes curves, which the cooler follows until the next
\* target.
ClientRestores ==
    /\ client = "idle" /\ Spend("restore")
    /\ client' = "restored"
    /\ \E speed \in Speeds : GivenElsewhere(speed)
    /\ UNCHANGED <<queueVars, lastPushed, cooling, shownTarget, coreVars, tickVars, worldVars>>

\* Afterwards, in automatic control: what was pushed is forgotten and the next tick
\* has to push.
ClientForgets ==
    /\ client = "restored" /\ client' = "idle"
    /\ IF mode = "auto"
       THEN ResetBlackSharkSpeedWriteState /\ forceNext' = TRUE
       ELSE UNCHANGED <<lastPushed, cooling, gaps, forceNext>>
    /\ UNCHANGED <<queueVars, deviceSpeed, shownTarget, mode, autoPushFailed>>
    /\ UNCHANGED <<tickVars, worldVars, budget>>

Client ==
    \/ ClientCommits \/ ClientAsserts \/ ClientForgets
    \/ \E ok \in BOOLEAN : ClientGearWrites(ok) \/ ClientCustomWrites(ok)

-----------------------------------------------------------------------------
(* The environment.                                                        *)

DemandChanges ==
    /\ Spend("demand")
    /\ demand' \in AutoTargets \ {demand}
    /\ UNCHANGED <<queueVars, speedVars, coreVars, tickVars, client, inputReady>>

TelemetryChanges ==
    /\ Spend("telemetry")
    /\ inputReady' = ~inputReady
    /\ UNCHANGED <<queueVars, speedVars, coreVars, tickVars, client, demand>>

\* Automatic control is on; postConnectSync has asserted it.
Init ==
    /\ SpeedPushInit
    /\ mode = "auto" /\ forceNext = TRUE /\ autoPushFailed = FALSE
    /\ tick = "wait" /\ lastTarget = NoSpeed /\ lastAuto = TRUE
    /\ debounce = [sign |-> 0, streak |-> 0]
    /\ invalidSamples = 0 /\ fallbackActive = FALSE
    /\ client = "idle"
    /\ demand \in AutoTargets /\ inputReady = TRUE
    /\ budget \in Budgets

Next ==
    \/ Worker \/ Tick \/ Client
    \/ ClientRequests \/ ClientCommitsAuto \/ ClientCustomOff \/ ClientRestores
    \/ DemandChanges \/ TelemetryChanges

Spec == Init /\ [][Next]_vars

\* The timer fires, goroutines run and device I/O ends; the environment may rest.
FairSpec == Spec /\ WF_vars(Tick) /\ WF_vars(Worker) /\ WF_vars(Client)

-----------------------------------------------------------------------------
(* Properties.                                                             *)

\* A queued target always has a worker that will take it: the worker retires only
\* in the critical section that finds the queue empty.
QueuedIsServed == pushPending # NoSpeed => worker.at # "off"

\* If automatic control is on and the temperatures stay unusable, the cooler ends
\* at the safe speed and stays there, although the interval skips steps of the ramp
\* and reports them as written, writes fail, and a routine target is still queued or
\* being written.  Excepted is a memory that is wrong: the deadband is then measured
\* from a speed the cooler has lost.
SafetyPrevails ==
    <>[](mode = "auto" /\ ~inputReady) => <>[](deviceSpeed = SafeSpeed \/ "memory" \in gaps)

\* In automatic control with usable temperatures the cooler follows a demand that has
\* settled, after a fallback, a manual value, a failed write or a restored snapshot;
\* unless the interval has swallowed the target or the memory is wrong.
SettledDemandIsMet ==
    \A speed \in AutoTargets :
        <>[](mode = "auto" /\ inputReady /\ demand = speed)
            => <>[](deviceSpeed = speed \/ gaps # {})

\* Without those exceptions: neither a safe speed nor a manual one is left in the
\* cooler ("the device may still hold the value of the safety fallback, so it must not
\* be skipped", reassertBlackSharkInverterGear).
AutoTakesOver ==
    <>[](mode = "auto" /\ inputReady) => <>[](deviceSpeed \in AutoTargets)

\* A custom speed that was accepted stays in the cooler until the mode changes
\* ("otherwise the old routine target would cover the manual value later",
\* SetBlackSharkFixedSpeedForGear).
CustomHolds == <>[](mode = "custom" /\ client = "idle") => <>[](deviceSpeed = CustomSpeed)
=============================================================================
