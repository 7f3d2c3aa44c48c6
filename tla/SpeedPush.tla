----------------------------- MODULE SpeedPush -----------------------------
(***************************************************************************)
(* How a target speed reaches a Black Shark cooler (device/blackshark_hid) *)
(* when the host controls the speed: the queue of depth one that routine   *)
(* targets go through, its single worker, and the write.  The curve of the *)
(* host belongs to no gear (activeBlackSharkGear is 0), so whoever sets a  *)
(* speed ends in SetTargetSpeed, with its deadband and its interval.       *)
(*                                                                         *)
(* Speeds are levels at least blackSharkSpeedWriteDeadbandRPM apart: two   *)
(* of them are within the deadband, or closer than MinRPMChange, only if   *)
(* they are equal.  NoSpeed is the code's "none": nil, 0 or -1.            *)
(*                                                                         *)
(* A write is one step: it holds Manager.mutex from its checks to its last *)
(* frame.  Time is counted in ticks of the monitor: after a write the next *)
(* blackSharkFixedWriteMinInterval lasts CoolingTicks ticks, or one more   *)
(* when the write comes right before a tick.                               *)
(***************************************************************************)
EXTENDS Naturals

CONSTANTS
    Speeds,       \* levels
    CoolingTicks  \* the write interval divided by the sampling interval, rounded up

NoSpeed == 0

ASSUME SpeedsAssumption == Speeds \subseteq Nat \ {NoSpeed}
ASSUME CoolingAssumption == CoolingTicks \in Nat

VARIABLES
    pushPending,    \* the queued target
    worker,         \* speedPushWorker: where it is, and the target it has taken
    deviceSpeed,    \* what the cooler has been told
    lastPushed,     \* blackSharkLastPushedRPM
    cooling,        \* ticks left of the write interval
    shownTarget,    \* TargetRPM of the current fan data
    gaps            \* history: why the cooler may lack the last target accepted

queueVars == <<pushPending, worker>>
speedVars == <<deviceSpeed, lastPushed, cooling, shownTarget, gaps>>

WorkerSteps == {"off", "take", "write"}

\* "interval": it came within the write interval, was skipped and reported as written.
\* "memory": the cooler was given another speed, and lastPushed was not told.
Gaps == {"interval", "memory"}

SpeedPushTypeOK ==
    /\ pushPending \in Speeds \cup {NoSpeed}
    /\ worker \in [at : WorkerSteps, speed : Speeds \cup {NoSpeed}]
    /\ deviceSpeed \in Speeds
    /\ lastPushed \in Speeds \cup {NoSpeed}
    /\ cooling \in 0..(CoolingTicks + 1)
    /\ shownTarget \in Speeds \cup {NoSpeed}
    /\ gaps \subseteq Gaps

\* A cooler that has just been connected, with the speed of its last session.
SpeedPushInit ==
    /\ pushPending = NoSpeed
    /\ worker = [at |-> "off", speed |-> NoSpeed]
    /\ deviceSpeed \in Speeds
    /\ lastPushed = NoSpeed
    /\ cooling = 0
    /\ shownTarget = NoSpeed
    /\ gaps = {}

-----------------------------------------------------------------------------
(* The queue.                                                              *)

\* PushSpeedAsync: the newest target replaces the queued one.
PushSpeedAsync(speed) ==
    /\ pushPending' = speed
    /\ worker' = IF worker.at = "off" THEN [worker EXCEPT !.at = "take"] ELSE worker

\* CancelPendingSpeedPush: the request is dropped and its done never called.
CancelPendingSpeedPush == pushPending' = NoSpeed

\* The worker takes the queued target, or ends.
WorkerTakes ==
    /\ worker.at = "take"
    /\ worker' = [at |-> IF pushPending = NoSpeed THEN "off" ELSE "write", speed |-> pushPending]
    /\ pushPending' = NoSpeed
    /\ UNCHANGED speedVars

\* Mutant: it ends after one request.
WorkerGoesOn_Ends == worker' = [at |-> "off", speed |-> NoSpeed]

\* The request is done; look for another.
WorkerGoesOn == worker' = [at |-> "take", speed |-> NoSpeed]

-----------------------------------------------------------------------------
(* The write.                                                              *)

CoolingStarts == cooling' \in {CoolingTicks, CoolingTicks + 1}

\* Mutant: compared with the target shown, which a skipped one has become.
WithinDeadband_Shown(speed) == shownTarget = speed

\* Within the deadband of the last target pushed.
WithinDeadband(speed) == lastPushed = speed

\* SetTargetSpeed skips a target within the deadband, or within the interval after
\* the last write.
HostWriteSkips(speed) == WithinDeadband(speed) \/ cooling > 0

\* SetTargetSpeed: a skipped target counts as written.
HostWrites(speed) ==
    /\ shownTarget' = speed
    /\ IF HostWriteSkips(speed)
       THEN /\ UNCHANGED <<deviceSpeed, lastPushed, cooling>>
            /\ gaps' = IF WithinDeadband(speed) THEN gaps \ {"interval"} ELSE gaps \cup {"interval"}
       ELSE deviceSpeed' = speed /\ lastPushed' = speed /\ CoolingStarts /\ gaps' = {}

\* The configuration that has to be written back cannot be read: nothing is written.
HostWriteRefused(speed) ==
    /\ ~HostWriteSkips(speed)
    /\ UNCHANGED speedVars

\* The cooler is given another speed behind the host's back.
GivenElsewhere(speed) ==
    /\ deviceSpeed' = speed
    /\ gaps' = IF lastPushed = NoSpeed THEN gaps ELSE gaps \cup {"memory"}

\* The cooler takes the last frame, but its write reports an error.
HostWriteTorn(speed) ==
    /\ ~HostWriteSkips(speed)
    /\ GivenElsewhere(speed)
    /\ UNCHANGED <<lastPushed, cooling, shownTarget>>

\* Mutant: only the interval is forgotten.
ResetBlackSharkSpeedWriteState_Interval == cooling' = 0 /\ gaps' = {} /\ UNCHANGED lastPushed

\* ResetBlackSharkSpeedWriteState.
ResetBlackSharkSpeedWriteState == lastPushed' = NoSpeed /\ cooling' = 0 /\ gaps' = {}
=============================================================================
