-------------------------- MODULE NoiseDiagnostic --------------------------
(***************************************************************************)
(* The noise diagnostic (coreapp/noise_diagnostic.go): a front end takes a  *)
(* lease, sweeps the fan through speeds and ends the lease; a timer, the    *)
(* loss of the device, a suspend and the safety fallback may end it too.    *)
(* While the lease is live the control tick does not write.  Whoever ends   *)
(* it restores control: the next tick writes in automatic control, the      *)
(* configured speed is written otherwise.                                   *)
(*                                                                          *)
(* The tick is that of a device written synchronously (monitoring.go: every *)
(* device but the Black Shark, which SpeedControl models).  Two different   *)
(* speeds differ by at least MinRPMChange; `fan` is the target the device   *)
(* holds and reports.                                                       *)
(***************************************************************************)
EXTENDS Naturals, FiniteSets

CONSTANTS
  Clients,        \* goroutines of IPC requests
  System,         \* the callbacks that end a lease: device loss, suspend, stop
  Monitor,        \* the temperature monitor
  MaxSessions,    \* at least the leases of any mix
  Demand, Safe,   \* the target of smart control, the safety speed
  Sweep,          \* the speeds of a sweep
  Customs, Gears, \* custom speeds and speeds of manual gears
  FallbackAfter,  \* temperatureSafetyFallback: unusable samples before it applies
  DiagnosticMixes \* what one behaviour may have: bounds on the requests (begins, targets,
                  \* ends, edits), device losses (losses), failing writes (fails), changes
                  \* of the telemetry (gaps) and suspends (suspends)

DiagnosticBounds == [begins : 0..MaxSessions, targets : Nat, ends : Nat, edits : Nat,
                     losses : Nat, fails : Nat, gaps : Nat, suspends : Nat]

ASSUME NoiseDiagnosticAssumption ==
  /\ MaxSessions \in Nat \ {0} /\ FallbackAfter \in Nat \ {0}
  /\ IsFiniteSet(Clients)
  /\ System # Monitor /\ {System, Monitor} \cap (Clients \cup 1..MaxSessions) = {}
  /\ Clients \cap 1..MaxSessions = {}
  /\ DiagnosticMixes \subseteq DiagnosticBounds
  /\ {Demand, Safe} \cup Sweep \cup Customs \cup Gears \subseteq Nat \ {0}

VARIABLES
  config,    \* the committed configuration: mode, custom, gear, rev
  lease,     \* noiseDiagnosticLease: the session that holds it, 0 when nil
  sessions,  \* the leases: rev and config at the begin, expired, done (closed)
  on,        \* whether the device is connected
  fan,       \* the target it holds, 0 after a connect
  force,     \* forceNextAutoTarget
  usable,    \* whether the temperature telemetry is usable
  ticker,    \* the tick: pc, follow (AutoControl of its copy of the configuration), auto
             \* (lastAutoControl), last (lastTargetRPM, 0 for -1), seen, misses, applied
  call,      \* per goroutine: pc, session, rev, old, value, mode
  stray,     \* ghost: the last write was by somebody who had been overtaken
  begun,     \* sessions so far
  allowed    \* what is left of the bounds of this behaviour's mix

noiseVars == <<config, lease, sessions, on, fan, force, usable, ticker, call, stray, begun, allowed>>

Sessions == 1..MaxSessions
Callers == Clients \cup Sessions \cup {System, Monitor}  \* a session stands for its expiry timer
FanSpeeds == {0, Demand, Safe} \cup Sweep \cup Customs \cup Gears
Idle == [pc |-> "idle", session |-> 0, value |-> 0, mode |-> "auto",
         rev |-> 0, old |-> [mode |-> "auto", custom |-> 0, gear |-> 0]]
NoSession == [rev |-> 0, old |-> Idle.old, expired |-> FALSE, done |-> FALSE]

SettingsOf(c) == [mode |-> c.mode, custom |-> c.custom, gear |-> c.gear]
Manual(c) == IF c.mode = "custom" THEN c.custom ELSE c.gear

NoiseInit ==
  \E mode \in {"auto", "custom", "gear"}, custom \in Customs, gear \in Gears, m \in DiagnosticMixes :
    /\ config = [mode |-> mode, custom |-> custom, gear |-> gear, rev |-> 0]
    /\ lease = 0 /\ begun = 0
    /\ sessions = [s \in Sessions |-> NoSession]
    /\ on = TRUE
    /\ fan = IF mode = "auto" THEN Demand ELSE Manual(config)
    /\ force = FALSE /\ usable = TRUE /\ stray = FALSE
    /\ ticker = [pc |-> "idle", follow |-> mode = "auto", auto |-> mode = "auto", seen |-> fan,
                 last |-> IF mode = "auto" THEN Demand ELSE 0, misses |-> 0, applied |-> FALSE]
    /\ call = [c \in Callers |-> Idle]
    /\ allowed = m

Active == lease # 0 /\ ~sessions[lease].expired

\* A write of a speed to the device, which may fail; `late` tells whether its
\* writer has been overtaken (ghost).  Ok and Fails say what follows.
Writes(value, late, Ok, Fails) ==
  \/ /\ on
     /\ fan' = value /\ stray' = late
     /\ Ok /\ UNCHANGED allowed
  \/ /\ on => allowed.fails > 0
     /\ Fails /\ UNCHANGED fan
     /\ allowed' = IF on THEN [allowed EXCEPT !.fails = @ - 1] ELSE allowed

-----------------------------------------------------------------------------
\* BeginNoiseDiagnostic: the configuration, then its revision, then the lease.
BeginReads(c) ==
  /\ call[c].pc = "idle" /\ on /\ allowed.begins > 0
  /\ allowed' = [allowed EXCEPT !.begins = @ - 1]
  /\ call' = [call EXCEPT ![c] = [Idle EXCEPT !.pc = "begins", !.old = SettingsOf(config)]]
  /\ UNCHANGED <<config, lease, sessions, on, fan, force, usable, ticker, stray, begun>>

BeginReadsRevision(c) ==
  /\ call[c].pc = "begins"
  /\ call' = [call EXCEPT ![c].pc = "leases", ![c].rev = config.rev]
  /\ UNCHANGED <<config, lease, sessions, on, fan, force, usable, ticker, stray, begun, allowed>>

\* Under noiseDiagnosticMu: a live lease refuses, an expired one is replaced.
\* The expiry timer starts with the lease.
BeginLeases(c) ==
  /\ call[c].pc = "leases"
  /\ \/ /\ Active
        /\ call' = [call EXCEPT ![c] = Idle]
        /\ UNCHANGED <<lease, sessions, begun>>
     \/ /\ ~Active
        /\ begun' = begun + 1
        /\ lease' = begun'
        /\ sessions' = [s \in Sessions |->
             IF s = begun' THEN [NoSession EXCEPT !.rev = call[c].rev, !.old = call[c].old]
             ELSE IF s = lease THEN [sessions[s] EXCEPT !.done = TRUE]
             ELSE sessions[s]]
        /\ call' = [call EXCEPT ![c] = Idle,
                                ![begun'] = [Idle EXCEPT !.pc = "timer", !.session = begun']]
  /\ UNCHANGED <<config, on, fan, force, usable, ticker, stray, allowed>>

Expires ==
  /\ Active
  /\ sessions' = [sessions EXCEPT ![lease].expired = TRUE]
  /\ UNCHANGED <<config, lease, on, fan, force, usable, ticker, call, stray, begun, allowed>>

\* What the goroutine of an expiry timer goes on with: Cancel of its session.
TimerEnds(s) == [Idle EXCEPT !.pc = "ends", !.session = s]

TimerFires(s) ==
  /\ call[s].pc = "timer"
  /\ \/ sessions[s].expired /\ call' = [call EXCEPT ![s] = TimerEnds(s)]
     \/ sessions[s].done /\ call' = [call EXCEPT ![s] = Idle]
  /\ UNCHANGED <<config, lease, sessions, on, fan, force, usable, ticker, stray, begun, allowed>>

-----------------------------------------------------------------------------
\* SetNoiseDiagnosticTarget: the lease is looked up, then the connection.
TargetLooksUp(c, s, value) ==
  /\ call[c].pc = "idle" /\ s <= begun /\ allowed.targets > 0
  /\ allowed' = [allowed EXCEPT !.targets = @ - 1]
  /\ call' = [call EXCEPT ![c] =
       IF lease # s THEN Idle
       ELSE IF ~Active THEN [Idle EXCEPT !.pc = "ends", !.session = s]
       ELSE IF ~on THEN Idle
       ELSE [Idle EXCEPT !.pc = "sweeps", !.session = s, !.value = value]]
  /\ UNCHANGED <<config, lease, sessions, on, fan, force, usable, ticker, stray, begun>>

TargetWrites(c) ==
  /\ call[c].pc = "sweeps"
  /\ Writes(call[c].value, lease # call[c].session,
            call' = [call EXCEPT ![c].pc = "settles"],
            call' = [call EXCEPT ![c] = Idle] /\ UNCHANGED stray)
  /\ UNCHANGED <<config, lease, sessions, on, force, usable, ticker, begun>>

\* The wait for the fan to settle ends: settled, timed out, the lease is gone
\* or the connection is another one.
TargetReturns(c) ==
  /\ call[c].pc = "settles"
  /\ call' = [call EXCEPT ![c] = Idle]
  /\ UNCHANGED <<config, lease, sessions, on, fan, force, usable, ticker, stray, begun, allowed>>

-----------------------------------------------------------------------------
\* End and Cancel, of a session the front end knows.
EndRequested(c, s) ==
  /\ call[c].pc = "idle" /\ s <= begun /\ allowed.ends > 0
  /\ allowed' = [allowed EXCEPT !.ends = @ - 1]
  /\ call' = [call EXCEPT ![c] = [Idle EXCEPT !.pc = "ends", !.session = s]]
  /\ UNCHANGED <<config, lease, sessions, on, fan, force, usable, ticker, stray, begun>>

\* Mutant: a cancel does not compare the session.
Names_Any(session) == lease # 0

\* Whether the lease is the one an end names (0 names any).
Names(session) == lease # 0 /\ session \in {0, lease}

\* finishNoiseDiagnostic up to the unlock of noiseDiagnosticMu.
Ends(c) ==
  /\ call[c].pc = "ends"
  /\ IF Names(call[c].session)
       THEN /\ lease' = 0
            /\ sessions' = [sessions EXCEPT ![lease].done = TRUE]
            /\ call' = [call EXCEPT ![c].pc = "restores", ![c].session = lease]
       ELSE call' = [call EXCEPT ![c] = Idle] /\ UNCHANGED <<lease, sessions>>
  /\ UNCHANGED <<config, on, fan, force, usable, ticker, stray, begun, allowed>>

\* Mutant: the configuration of the begin is restored whatever the user did since.
Restored_Original(s) == sessions[s].old

\* The configuration a lease is restored to.
Restored(s) == IF config.rev = sessions[s].rev THEN sessions[s].old ELSE SettingsOf(config)

\* Ghost: a commit fell between the two reads of the begin.
Torn(s) == sessions[s].rev = config.rev /\ sessions[s].old # SettingsOf(config)

\* restoreNoiseDiagnosticState: what is to be restored.  A manual gear is read
\* from the configuration again (applyCurrentGearSetting).
RestoreReads(c) ==
  /\ call[c].pc = "restores"
  /\ LET back == Restored(call[c].session)
     IN  \/ /\ ~on
            /\ call' = [call EXCEPT ![c] = Idle]
            /\ UNCHANGED <<force, stray>>
         \/ /\ on /\ back.mode = "auto"
            /\ force' = TRUE
            /\ stray' = (stray \/ Torn(call[c].session))
            /\ call' = [call EXCEPT ![c] = Idle]
         \/ /\ on /\ back.mode # "auto"
            /\ call' = [call EXCEPT ![c].pc = "rewrites", ![c].rev = config.rev,
                          ![c].value = IF back.mode = "custom" THEN back.custom ELSE config.gear]
            /\ UNCHANGED <<force, stray>>
  /\ UNCHANGED <<config, lease, sessions, on, fan, usable, ticker, begun, allowed>>

RestoreWrites(c) ==
  /\ call[c].pc = "rewrites"
  /\ Writes(call[c].value, call[c].rev # config.rev \/ Torn(call[c].session),
            call' = [call EXCEPT ![c] = Idle],
            call' = [call EXCEPT ![c] = Idle] /\ stray' = TRUE)
  /\ UNCHANGED <<config, lease, sessions, on, force, usable, ticker, begun>>

-----------------------------------------------------------------------------
\* SetAutoControl, SetCustomSpeed and SetManualGear: a manual speed is written
\* before it is committed; automatic control is committed with a forced tick.
UserSets(c, mode, value) ==
  /\ call[c].pc = "idle" /\ allowed.edits > 0
  /\ mode = "auto" => config.mode # "custom"
  /\ allowed' = [allowed EXCEPT !.edits = @ - 1]
  /\ call' = [call EXCEPT ![c] = [Idle EXCEPT !.pc = IF mode = "auto" \/ ~on THEN "commits" ELSE "sets",
                                              !.mode = mode, !.value = value]]
  /\ UNCHANGED <<config, lease, sessions, on, fan, force, usable, ticker, stray, begun>>

UserWrites(c) ==
  /\ call[c].pc = "sets"
  /\ Writes(call[c].value, stray,
            call' = [call EXCEPT ![c].pc = "commits"],
            call' = [call EXCEPT ![c] = Idle] /\ UNCHANGED stray)
  /\ UNCHANGED <<config, lease, sessions, on, force, usable, ticker, begun>>

UserCommits(c) ==
  /\ call[c].pc = "commits"
  /\ LET mode == call[c].mode
     IN  /\ config' = [config EXCEPT !.mode = mode, !.rev = @ + 1,
                                     !.custom = IF mode = "custom" THEN call[c].value ELSE @,
                                     !.gear = IF mode = "gear" THEN call[c].value ELSE @]
         /\ force' = (force \/ mode = "auto")
         /\ stray' = (mode # "auto" /\ fan # call[c].value)
  /\ call' = [call EXCEPT ![c] = Idle]
  /\ UNCHANGED <<lease, sessions, on, fan, usable, ticker, begun, allowed>>

-----------------------------------------------------------------------------
\* The device is lost (the callback ends the lease) and connected again.
LinkLost ==
  /\ on /\ allowed.losses > 0 /\ call[System].pc = "idle"
  /\ on' = FALSE
  /\ allowed' = [allowed EXCEPT !.losses = @ - 1]
  /\ call' = [call EXCEPT ![System] = [Idle EXCEPT !.pc = "ends"]]
  /\ UNCHANGED <<config, lease, sessions, fan, force, usable, ticker, stray, begun>>

LinkBack ==
  /\ ~on
  /\ on' = TRUE
  /\ fan' = 0 /\ stray' = TRUE
  /\ UNCHANGED <<config, lease, sessions, force, usable, ticker, call, begun, allowed>>

\* onSystemSuspend ends the lease first.
Suspends ==
  /\ allowed.suspends > 0 /\ call[System].pc = "idle"
  /\ allowed' = [allowed EXCEPT !.suspends = @ - 1]
  /\ call' = [call EXCEPT ![System] = [Idle EXCEPT !.pc = "ends"]]
  /\ UNCHANGED <<config, lease, sessions, on, fan, force, usable, ticker, stray, begun>>

SensorsChange ==
  /\ allowed.gaps > 0
  /\ usable' = ~usable
  /\ allowed' = [allowed EXCEPT !.gaps = @ - 1]
  /\ UNCHANGED <<config, lease, sessions, on, fan, force, ticker, call, stray, begun>>

-----------------------------------------------------------------------------
\* The head of a tick: its copy of the configuration.
TickCopies ==
  /\ ticker.pc = "idle"
  /\ ticker' = [ticker EXCEPT !.pc = "reads", !.follow = config.mode = "auto"]
  /\ UNCHANGED <<config, lease, sessions, on, fan, force, usable, call, stray, begun, allowed>>

\* temperatureSafetyFallback.observe: the unusable samples in a row.
Misses(auto, ready) ==
  IF auto /\ ~ready THEN IF ticker.misses < FallbackAfter THEN ticker.misses + 1 ELSE FallbackAfter
  ELSE 0

\* The rest of its inputs: telemetry, connection and the device's report.  A
\* tick that does not follow the curve forgets the last target; enough unusable
\* samples make the fallback due.
TickObserves ==
  /\ ticker.pc = "reads"
  /\ LET auto == ticker.follow
         observed == ~auto \/ on
         misses == IF observed THEN Misses(auto, usable) ELSE ticker.misses
         follows == auto /\ usable /\ on
     IN  /\ ticker' = [ticker EXCEPT
               !.pc = IF follows THEN "decides"
                      ELSE IF misses = FallbackAfter /\ on THEN "falls" ELSE "idle",
               !.seen = fan, !.misses = misses, !.auto = follows,
               !.last = IF ~follows THEN 0 ELSE IF @ = 0 THEN fan ELSE @,
               !.applied = @ /\ ~(observed /\ misses = 0)]
         /\ force' = (force \/ (observed /\ auto /\ usable /\ ticker.applied)
                            \/ (auto /\ usable /\ ~ticker.auto))
  /\ UNCHANGED <<config, lease, sessions, on, fan, usable, call, stray, begun, allowed>>

\* shouldSendTargetSpeed
shouldSendTargetSpeed == ticker.last = 0 \/ ticker.last # Demand \/ ticker.seen # Demand

\* Whether the tick writes; a forced write is used up even under a lease.
TickDecides ==
  /\ ticker.pc = "decides"
  /\ force' = FALSE
  /\ ticker' = [ticker EXCEPT !.pc = IF ~Active /\ (force \/ shouldSendTargetSpeed) THEN "writes" ELSE "idle"]
  /\ UNCHANGED <<config, lease, sessions, on, fan, usable, call, stray, begun, allowed>>

TickWrites ==
  /\ ticker.pc = "writes"
  /\ Writes(Demand, config.mode # "auto",
            ticker' = [ticker EXCEPT !.pc = "idle", !.last = Demand],
            ticker' = [ticker EXCEPT !.pc = "idle", !.last = 0] /\ UNCHANGED stray)
  /\ UNCHANGED <<config, lease, sessions, on, force, usable, call, begun>>

\* The fallback ends a live lease, restoring as everybody does, and writes the
\* safety speed (its ramp is in SpeedControl).
TickEndsLease ==
  /\ ticker.pc = "falls"
  /\ ticker' = [ticker EXCEPT !.pc = "saves"]
  /\ call' = IF Active THEN [call EXCEPT ![Monitor] = [Idle EXCEPT !.pc = "ends"]] ELSE call
  /\ UNCHANGED <<config, lease, sessions, on, fan, force, usable, stray, begun, allowed>>

TickSaves ==
  /\ ticker.pc = "saves" /\ call[Monitor].pc = "idle"
  /\ Writes(Safe, config.mode # "auto",
            ticker' = [ticker EXCEPT !.pc = "idle", !.applied = TRUE],
            ticker' = [ticker EXCEPT !.pc = "idle"] /\ UNCHANGED stray)
  /\ UNCHANGED <<config, lease, sessions, on, force, usable, call, begun>>

-----------------------------------------------------------------------------
LeaseSteps(c) == Ends(c) \/ RestoreReads(c) \/ RestoreWrites(c)

RequestSteps(c) ==
  \/ LeaseSteps(c)
  \/ BeginReadsRevision(c) \/ BeginLeases(c)
  \/ TargetWrites(c) \/ TargetReturns(c)
  \/ UserWrites(c) \/ UserCommits(c)

MonitorSteps ==
  \/ TickCopies \/ TickObserves \/ TickDecides \/ TickWrites \/ TickEndsLease \/ TickSaves
  \/ LeaseSteps(Monitor)

Requests(c) ==
  \/ BeginReads(c)
  \/ \E s \in Sessions, value \in Sweep : TargetLooksUp(c, s, value)
  \/ \E s \in Sessions : EndRequested(c, s)
  \/ UserSets(c, "auto", 0)
  \/ \E value \in Customs : UserSets(c, "custom", value)
  \/ \E value \in Gears : UserSets(c, "gear", value)

NoiseNext ==
  \/ \E c \in Clients : Requests(c) \/ RequestSteps(c)
  \/ \E s \in Sessions : TimerFires(s) \/ LeaseSteps(s)
  \/ LeaseSteps(System)
  \/ Expires
  \/ LinkLost \/ LinkBack \/ Suspends \/ SensorsChange
  \/ MonitorSteps

\* Goroutines run on, the clock runs, and the monitor ticks; nothing is asked
\* of the front end, of the device or of the telemetry.
NoiseSpec ==
  /\ NoiseInit /\ [][NoiseNext]_noiseVars
  /\ \A c \in Clients : WF_noiseVars(RequestSteps(c))
  /\ \A s \in Sessions : WF_noiseVars(TimerFires(s) \/ LeaseSteps(s))
  /\ WF_noiseVars(LeaseSteps(System)) /\ WF_noiseVars(Expires) /\ WF_noiseVars(MonitorSteps)

-----------------------------------------------------------------------------
ControlModes == {"auto", "custom", "gear"}

CallSteps == {"idle", "begins", "leases", "timer", "sweeps", "settles", "ends", "restores",
              "rewrites", "sets", "commits"}
TickSteps == {"idle", "reads", "decides", "writes", "falls", "saves"}

DiagnosticSettings == [mode : ControlModes, custom : FanSpeeds, gear : FanSpeeds]
Leases == [rev : Nat, old : DiagnosticSettings, expired : BOOLEAN, done : BOOLEAN]
Calling(named) == [pc : CallSteps, session : 0..named, rev : Nat, old : DiagnosticSettings,
                   value : FanSpeeds, mode : ControlModes]
Ticking == [pc : TickSteps, follow : BOOLEAN, auto : BOOLEAN, last : FanSpeeds, seen : FanSpeeds,
            misses : 0..FallbackAfter, applied : BOOLEAN]

NoiseTypeOK ==
  /\ config \in [mode : ControlModes, custom : FanSpeeds, gear : FanSpeeds, rev : Nat]
  /\ begun \in 0..MaxSessions /\ lease \in 0..begun
  /\ sessions \in [Sessions -> Leases]
  /\ on \in BOOLEAN /\ force \in BOOLEAN /\ usable \in BOOLEAN /\ stray \in BOOLEAN
  /\ fan \in FanSpeeds /\ ticker \in Ticking
  /\ call \in [Callers -> Calling(begun)]
  /\ allowed \in DiagnosticBounds

\* A session ends only by its own end or cancel, by its own expiry, or by the
\* core itself (device loss, suspend, safety fallback): the cancel of a session
\* that is over, and the timer of an older one, leave the current one alone.
SessionsStand ==
  [][lease # 0 /\ lease' # lease =>
       \/ sessions[lease].expired
       \/ \E c \in Callers : /\ call[c].pc = "ends" /\ call'[c].pc = "restores"
                             /\ \/ call[c].session = lease
                                \/ c \in {System, Monitor}]_noiseVars

\* However a diagnostic ends, the fan is in the end what the user has set by
\* then: under smart control (or, without telemetry, at the safety speed)
\* whatever write came late; under manual control unless the last write was
\* overtaken (stray): a sweep write or a tick that had passed its check, a
\* restore or a request that another commit or write has crossed, a restore that
\* failed, a new connection.
ControlComesBack ==
  <>[](on => IF config.mode = "auto" THEN fan = IF usable THEN Demand ELSE Safe
             ELSE stray \/ fan = Manual(config))
=============================================================================
