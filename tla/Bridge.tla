------------------------------- MODULE Bridge -------------------------------
(***************************************************************************)
(* The supervision of the temperature bridge (bridge/bridge.go): a helper  *)
(* process that answers commands on its standard streams, the goroutine    *)
(* that starts it, and the goroutines that read temperatures, restart the  *)
(* PawnIO driver and stop the helper.  The monitor counts its failed reads *)
(* and lets a recovery (coreapp/monitoring.go) stop and start the helper.  *)
(*                                                                         *)
(* m.mutex is held from the moment a command is sent until its answer is   *)
(* read, and by Stop until the helper is gone; startMu orders starts and   *)
(* stops.  A helper may die, fail to start, answer late or not at all;     *)
(* these faults share one bound.  Timers are faults.                       *)
(***************************************************************************)
EXTENDS Naturals, Sequences, FiniteSets

CONSTANTS
  Monitor, Recovery,  \* the monitor goroutine, its bridge recovery
  Clients,            \* goroutines that make one request each
  Procs, NoProc,      \* helper processes, used again after they have ended
  Nobody,             \* no holder of a lock
  Wishes,             \* the requests the clients may make
  MaxFaults           \* bound: faults of the helper and timers that fire

ASSUME NobodyAssumption == Nobody \notin Clients \cup {Monitor, Recovery}
ASSUME ProcAssumption == NoProc \notin Procs
ASSUME CallerAssumption == Monitor # Recovery /\ {Monitor, Recovery} \cap Clients = {}
ASSUME WishAssumption == Wishes \subseteq [Clients -> {"read", "pawnio", "stop"}]
ASSUME FaultAssumption == MaxFaults \in Nat

Callers == Clients \cup {Monitor, Recovery}

VARIABLES
  wish,      \* what each client asks for: "read", "pawnio" or "stop"
  state,     \* Manager.state
  cmd,       \* Manager.cmd, with the pipes to it
  mu,        \* holder of m.mutex across a wait
  startMu,   \* holder of startMu across a wait
  starting,  \* Manager.starting
  starter,   \* the start goroutine: [pc, proc]
  helper,    \* per process: [life, in, out, lost]; lost: another is published over it
  call,      \* per caller: [pc, bit, proc, got]
  cooling,   \* is the read cooldown running?
  recent,    \* is the last recovery less than temperatureBridgeRestartCooldown ago?
  failed,    \* the monitor's bridgeFailureCount
  faults     \* faults so far

vars == <<wish, state, cmd, mu, startMu, starting, starter, helper, call,
          cooling, recent, failed, faults>>

RestartThreshold == 2

States == {"not_started", "starting", "running_owned", "degraded", "stopping",
           "stopped", "failed"}
(* A command on the wire names its sender, one of its calls, and its sort. *)
Command == Callers \X {0, 1} \X {"Read", "Exit"}
NoAnswer == <<>>
NewHelper == [life |-> "alive", in |-> <<>>, out |-> <<>>, lost |-> FALSE]
NoHelper == [life |-> "gone", in |-> <<>>, out |-> <<>>, lost |-> FALSE]
Alive(p) == helper[p].life = "alive"
Stopped == state \in {"stopping", "stopped"}
MuFree == mu = Nobody
StartMuFree == startMu = Nobody
At(c, label) == call[c].pc = label
Faulty == faults < MaxFaults /\ faults' = faults + 1

TypeOK ==
  /\ wish \in [Clients -> {"read", "pawnio", "stop"}]
  /\ state \in States /\ cmd \in Procs \cup {NoProc}
  /\ mu \in Callers \cup {Nobody} /\ startMu \in Callers \cup {Nobody}
  /\ starting \in BOOLEAN /\ cooling \in BOOLEAN /\ recent \in BOOLEAN
  /\ starter \in [pc : {"none", "spawn", "handshake", "fail", "publish", "end"},
                  proc : Procs \cup {NoProc}]
  /\ starting <=> starter.pc # "none"
  /\ helper \in [Procs -> [life : {"alive", "dead", "gone"},
                           in : Seq(Command), out : Seq(Command), lost : BOOLEAN]]
  /\ call \in [Callers ->
       [pc : {"idle", "ensure", "begin", "wait", "check", "send", "reading",
              "trip", "record", "stop", "exiting", "reap", "done"},
        bit : {0, 1}, proc : Procs \cup {NoProc}, got : {NoAnswer} \cup Command]]
  /\ failed \in 0..RestartThreshold - 1
  /\ faults \in 0..MaxFaults

----------------------------------------------------------------------------
(* Parts of the handlers.  A caller's record and the helpers are changed   *)
(* by the actions, so these give values.                                   *)

Goes(c, label) == [call EXCEPT ![c].pc = label, ![c].got = NoAnswer]
\* Mutant: a helper that is given up goes on.
Killed_Not(p) == helper
Killed(p) == IF p = NoProc THEN helper ELSE [helper EXCEPT ![p] = NoHelper]
Lost(p) == IF p = NoProc THEN helper ELSE [helper EXCEPT ![p].lost = TRUE]

(* RestartPawnIO leaves the read cooldown alone. *)
IsRead(c) == c = Monitor \/ (c \in Clients /\ wish[c] = "read")

(* What a read answers to the monitor: failures are counted, and the       *)
(* second in a row starts the recovery, unless one is running; while the   *)
(* last one is recent the count only grows (here it stays below the 2).    *)
ReadEnds(c, result) ==
  IF c # Monitor
  THEN call' = Goes(c, "done") /\ UNCHANGED <<failed, recent>>
  ELSE IF result # "failed"
  THEN call' = Goes(c, "idle") /\ failed' = 0 /\ recent' = recent
  ELSE IF failed + 1 < RestartThreshold \/ recent
  THEN call' = Goes(c, "idle") /\ failed' = RestartThreshold - 1 /\ recent' = recent
  ELSE /\ failed' = 0 /\ recent' = TRUE
       /\ call' = IF At(Recovery, "idle")
                  THEN [Goes(c, "idle") EXCEPT ![Recovery].pc = "stop"]
                  ELSE Goes(c, "idle")

(* The end of a Stop: the recovery goes on with EnsureRunning. *)
AfterStop(c) == IF c = Recovery THEN "ensure" ELSE "done"
----------------------------------------------------------------------------
(* GetTemperature, EnsureRunning and EnsureRunningWait. *)

(* A helper that answers but no longer updates is restarted too. *)
UpdateIsStale ==
  /\ At(Monitor, "idle") /\ At(Recovery, "idle") /\ ~recent /\ Faulty
  /\ call' = Goes(Recovery, "stop") /\ recent' = TRUE
  /\ UNCHANGED <<wish, state, cmd, mu, startMu, starting, starter, helper,
                 cooling, failed>>

(* temperatureReadCooldown. *)
ReadBegins(c) ==
  /\ At(c, "idle") /\ IsRead(c) /\ MuFree
  /\ IF cooling THEN ReadEnds(c, "failed")
     ELSE call' = Goes(c, "ensure") /\ UNCHANGED <<failed, recent>>
  /\ UNCHANGED <<wish, state, cmd, mu, startMu, starting, starter, helper,
                 cooling, faults>>

RequestBegins(c) ==
  /\ At(c, "idle") /\ c \in Clients /\ wish[c] # "read"
  /\ call' = Goes(c, IF wish[c] = "stop" THEN "stop" ELSE "ensure")
  /\ UNCHANGED <<wish, state, cmd, mu, startMu, starting, starter, helper,
                 cooling, recent, failed, faults>>

(* healthy: a helper that has ended is given up; it has to be started. *)
Healthy(c) ==
  /\ MuFree /\ call[c].pc \in {"ensure", "check"}
  /\ LET ok == cmd # NoProc /\ Alive(cmd)
         to == IF ok THEN IF c = Recovery THEN "idle" ELSE "send"
               ELSE IF At(c, "ensure") THEN "begin" ELSE "done"
     IN
     /\ call' = Goes(c, to)
     /\ state' = IF ok THEN "running_owned"
                 ELSE IF cmd # NoProc THEN "degraded" ELSE state
     /\ cmd' = IF ok THEN cmd ELSE NoProc
     /\ helper' = IF ok THEN helper ELSE Killed(cmd)
  /\ UNCHANGED <<wish, mu, startMu, starting, starter, cooling, recent, failed,
                 faults>>

\* Mutant: a start does not leave the state a stop has set.
MarksStarting_Not == UNCHANGED state
MarksStarting == state' = "starting"

(* beginStartAsync: one start at a time; a second caller gets the channel  *)
(* of the first. RestartPawnIO waits for it, the others do not.            *)
BeginStartAsync(c) ==
  /\ At(c, "begin") /\ StartMuFree
  /\ IF starting THEN UNCHANGED <<starting, starter, state>>
     ELSE /\ MuFree /\ MarksStarting
          /\ starting' = TRUE /\ starter' = [pc |-> "spawn", proc |-> NoProc]
  /\ IF IsRead(c) THEN ReadEnds(c, "starting")
     ELSE call' = Goes(c, IF c = Recovery THEN "idle" ELSE "wait") /\ UNCHANGED <<failed, recent>>
  /\ UNCHANGED <<wish, cmd, mu, startMu, helper, cooling, faults>>

(* EnsureRunningWait gives up. *)
WaitTimesOut(c) ==
  /\ At(c, "wait") /\ Faulty
  /\ call' = Goes(c, "done")
  /\ UNCHANGED <<wish, state, cmd, mu, startMu, starting, starter, helper,
                 cooling, recent, failed>>

----------------------------------------------------------------------------
(* The start goroutine: startStdio. *)

StarterAt(label) == starter.pc = label
StarterGoes(label) == starter' = [starter EXCEPT !.pc = label]
StarterKeeps == UNCHANGED <<wish, mu, startMu, cooling, recent, failed>>

Spawns ==
  /\ StarterAt("spawn")
  /\ \E q \in Procs : helper[q].life = "gone"
  /\ LET p == CHOOSE q \in Procs : helper[q].life = "gone" IN
     /\ helper' = [helper EXCEPT ![p] = NewHelper]
     /\ starter' = [pc |-> "handshake", proc |-> p]
  /\ UNCHANGED <<state, cmd, starting, call, faults>> /\ StarterKeeps

SpawnFails ==
  /\ StarterAt("spawn") /\ Faulty /\ StarterGoes("fail")
  /\ UNCHANGED <<state, cmd, starting, helper, call>> /\ StarterKeeps

(* waitForReady. *)
HandshakeDone ==
  /\ StarterAt("handshake") /\ Alive(starter.proc)
  /\ StarterGoes("publish")
  /\ UNCHANGED <<state, cmd, starting, helper, call, faults>> /\ StarterKeeps

(* An ERROR line, the end of the output or the timer. *)
HandshakeFails ==
  /\ StarterAt("handshake")
  /\ IF Alive(starter.proc) THEN Faulty ELSE faults' = faults
  /\ helper' = Killed(starter.proc) /\ starter' = [pc |-> "fail", proc |-> NoProc]
  /\ UNCHANGED <<state, cmd, starting, call>> /\ StarterKeeps

SetFailed ==
  /\ StarterAt("fail") /\ MuFree /\ StarterGoes("end")
  /\ state' = IF Stopped THEN state ELSE "failed"
  /\ UNCHANGED <<cmd, starting, helper, call, faults>> /\ StarterKeeps

StopRequested == Stopped

(* The new helper takes the place of the one there is, if any.  That one   *)
(* is neither killed nor told: it lives on, and nobody can reach it.       *)
PublishesHelper ==
  /\ StarterAt("publish") /\ MuFree
  /\ starter' = [pc |-> "end", proc |-> NoProc]
  /\ IF StopRequested
       THEN helper' = Killed(starter.proc) /\ UNCHANGED <<state, cmd>>
       ELSE cmd' = starter.proc /\ state' = "running_owned" /\ helper' = Lost(cmd)
  /\ UNCHANGED <<starting, call, faults>> /\ StarterKeeps

Wakes == call' = [c \in Callers |-> IF At(c, "wait") THEN [call[c] EXCEPT !.pc = "check"]
                                    ELSE call[c]]

StarterEnds ==
  /\ StarterAt("end") /\ StartMuFree
  /\ starting' = FALSE /\ StarterGoes("none") /\ Wakes
  /\ UNCHANGED <<state, cmd, helper, faults>> /\ StarterKeeps

----------------------------------------------------------------------------
(* SendCommand. *)

(* failBridgeUnsafe: the helper is killed and the pipes are closed. *)
\* Mutant: the helper is kept after a command that got no answer.
FailBridge_Keeps == state' = "degraded" /\ UNCHANGED <<cmd, helper>>
FailBridge == state' = "degraded" /\ cmd' = NoProc /\ helper' = Killed(cmd)

(* Old output is thrown away and the command is written; mutex is kept. *)
Asks(c, sort, label) ==
  /\ call' = [call EXCEPT ![c].pc = label, ![c].bit = 1 - @, ![c].got = NoAnswer]
  /\ helper' = [helper EXCEPT ![cmd].out = <<>>,
                  ![cmd].in = Append(@, <<c, 1 - call[c].bit, sort>>)]

SendCommand(c) ==
  /\ At(c, "send") /\ MuFree
  /\ \/ cmd = NoProc /\ call' = Goes(c, "trip") /\ UNCHANGED <<state, cmd, helper, mu>>
     \/ /\ cmd # NoProc /\ ~Alive(cmd)
        /\ call' = Goes(c, "trip") /\ FailBridge /\ mu' = mu
     \/ /\ cmd # NoProc /\ Alive(cmd)
        /\ Asks(c, "Read", "reading") /\ mu' = c /\ UNCHANGED <<state, cmd>>
  /\ UNCHANGED <<wish, startMu, starting, starter, cooling, recent, failed, faults>>

ReadsAnswer(c) ==
  /\ At(c, "reading") /\ helper[cmd].out # <<>>
  /\ helper' = [helper EXCEPT ![cmd].out = Tail(@)]
  /\ state' = "running_owned" /\ mu' = Nobody
  /\ call' = [call EXCEPT ![c].pc = "record", ![c].got = Head(helper[cmd].out)]
  /\ UNCHANGED <<wish, cmd, startMu, starting, starter, cooling, recent, failed,
                 faults>>

(* The output has ended, or the timer fires. *)
CommandFails(c) ==
  /\ At(c, "reading")
  /\ IF Alive(cmd) THEN Faulty ELSE helper[cmd].out = <<>> /\ faults' = faults
  /\ FailBridge /\ mu' = Nobody /\ call' = Goes(c, "trip")
  /\ UNCHANGED <<wish, startMu, starting, starter, cooling, recent, failed>>

(* tripTemperatureReadCooldown, or the end of a failed RestartPawnIO. *)
Trips(c) ==
  /\ At(c, "trip") /\ MuFree
  /\ cooling' = (cooling \/ IsRead(c)) /\ ReadEnds(c, "failed")
  /\ UNCHANGED <<wish, state, cmd, mu, startMu, starting, starter, helper,
                 faults>>

(* recordLastTemp, or an answer without a temperature. *)
Records(c) ==
  /\ At(c, "record") /\ MuFree
  /\ \/ /\ cooling' = (cooling /\ ~IsRead(c)) /\ ReadEnds(c, "ok") /\ faults' = faults
     \/ /\ Faulty /\ call' = Goes(c, "trip") /\ UNCHANGED <<cooling, recent, failed>>
  /\ UNCHANGED <<wish, state, cmd, mu, startMu, starting, starter, helper>>

CooldownEnds ==
  /\ cooling /\ cooling' = FALSE
  /\ UNCHANGED <<wish, state, cmd, mu, startMu, starting, starter, helper, call,
                 recent, failed, faults>>

(* Ten seconds after a recovery: by then the helper has started, the three *)
(* seconds of the read cooldown have passed, and the monitor, which reads  *)
(* at least every few seconds, has seen it.  Less than that is a fault.    *)
RecoveryIsPast ==
  /\ recent /\ recent' = FALSE
  /\ IF ~starting /\ ~cooling /\ At(Recovery, "idle") /\ At(Monitor, "idle") /\ failed = 0
     THEN faults' = faults ELSE Faulty
  /\ UNCHANGED <<wish, state, cmd, mu, startMu, starting, starter, helper, call,
                 cooling, failed>>

----------------------------------------------------------------------------
(* Stop. *)

StopBegins(c) ==
  /\ At(c, "stop") /\ StartMuFree /\ MuFree
  /\ \/ /\ cmd = NoProc
        /\ state' = "stopped" /\ call' = Goes(c, AfterStop(c))
        /\ UNCHANGED <<cmd, helper, mu, startMu>>
     \/ /\ cmd # NoProc /\ ~Alive(cmd)
        /\ state' = "stopped" /\ cmd' = NoProc /\ helper' = Killed(cmd)
        /\ call' = Goes(c, AfterStop(c)) /\ UNCHANGED <<mu, startMu>>
     \/ /\ cmd # NoProc /\ Alive(cmd)
        /\ state' = "stopping" /\ Asks(c, "Exit", "exiting")
        /\ mu' = c /\ startMu' = c /\ cmd' = cmd
  /\ UNCHANGED <<wish, starting, starter, cooling, recent, failed, faults>>

(* The answer to Exit; the pipes are closed and the helper is waited for. *)
ExitAnswered(c) ==
  /\ At(c, "exiting") /\ helper[cmd].out # <<>>
  /\ call' = [call EXCEPT ![c].pc = "reap", ![c].proc = cmd, ![c].got = Head(helper[cmd].out)]
  /\ helper' = [helper EXCEPT ![cmd].out = <<>>]
  /\ cmd' = NoProc /\ state' = "running_owned"
  /\ UNCHANGED <<wish, mu, startMu, starting, starter, cooling, recent, failed,
                 faults>>

Finishes(c) ==
  /\ state' = "stopped" /\ mu' = Nobody /\ startMu' = Nobody
  /\ call' = [call EXCEPT ![c].pc = AfterStop(c), ![c].proc = NoProc, ![c].got = NoAnswer]

ExitFails(c) ==
  /\ At(c, "exiting")
  /\ IF Alive(cmd) THEN Faulty ELSE helper[cmd].out = <<>> /\ faults' = faults
  /\ cmd' = NoProc /\ helper' = Killed(cmd) /\ Finishes(c)
  /\ UNCHANGED <<wish, starting, starter, cooling, recent, failed>>

(* The helper has ended, or it is killed after the wait. *)
Reaps(c) ==
  /\ At(c, "reap")
  /\ IF Alive(call[c].proc) THEN Faulty ELSE faults' = faults
  /\ helper' = Killed(call[c].proc) /\ Finishes(c)
  /\ UNCHANGED <<wish, cmd, starting, starter, cooling, recent, failed>>

----------------------------------------------------------------------------
(* The helper process. *)

HelperKeeps == UNCHANGED <<wish, state, cmd, mu, startMu, starting, starter, call,
                           cooling, recent, failed>>

HelperAnswers(p) ==
  /\ Alive(p) /\ helper[p].in # <<>>
  /\ LET command == Head(helper[p].in) IN
     helper' = [helper EXCEPT ![p].in = Tail(@), ![p].out = Append(@, command),
                              ![p].life = IF command[3] = "Exit" THEN "dead" ELSE @]
  /\ faults' = faults /\ HelperKeeps

HelperDies(p) ==
  /\ Alive(p) /\ Faulty
  /\ helper' = [helper EXCEPT ![p].life = "dead", ![p].in = <<>>]
  /\ HelperKeeps

(* Some time later the garbage collector closes the pipes that nobody      *)
(* holds, and the helper reads the end of its input and ends.              *)
LostEnds(p) ==
  /\ helper[p].lost /\ helper' = Killed(p)
  /\ faults' = faults /\ HelperKeeps

----------------------------------------------------------------------------

Init ==
  /\ wish \in Wishes
  /\ state = "not_started" /\ cmd = NoProc /\ mu = Nobody /\ startMu = Nobody
  /\ starting = FALSE /\ starter = [pc |-> "none", proc |-> NoProc]
  /\ helper = [p \in Procs |-> NoHelper]
  /\ call = [c \in Callers |-> [pc |-> "idle", bit |-> 0, proc |-> NoProc, got |-> NoAnswer]]
  /\ cooling = FALSE /\ recent = FALSE /\ failed = 0 /\ faults = 0

CallerStep(c) ==
  \/ ReadBegins(c) \/ RequestBegins(c) \/ Healthy(c) \/ BeginStartAsync(c)
  \/ WaitTimesOut(c) \/ SendCommand(c) \/ ReadsAnswer(c) \/ CommandFails(c)
  \/ Trips(c) \/ Records(c)
  \/ StopBegins(c) \/ ExitAnswered(c) \/ ExitFails(c) \/ Reaps(c)

StarterStep ==
  \/ Spawns \/ SpawnFails \/ HandshakeDone \/ HandshakeFails \/ SetFailed
  \/ PublishesHelper \/ StarterEnds

Next ==
  \/ \E c \in Callers : CallerStep(c)
  \/ StarterStep
  \/ CooldownEnds \/ RecoveryIsPast \/ UpdateIsStale
  \/ \E p \in Procs : HelperAnswers(p) \/ HelperDies(p) \/ LostEnds(p)

Spec == Init /\ [][Next]_vars

Others == StarterStep \/ \E c \in Callers \ {Monitor} : CallerStep(c)

(* Goroutines run, and get a mutex in the end whatever the monitor does    *)
(* (sync.Mutex hands it over to one that has waited for a millisecond); a  *)
(* helper that lives answers, and the cooldown ends.  No fault has to      *)
(* happen.                                                                 *)
FairSpec ==
  /\ Spec
  /\ WF_vars(CallerStep(Monitor) /\ faults' = faults)
  /\ SF_vars(Others /\ faults' = faults)
  /\ WF_vars(\E p \in Procs : HelperAnswers(p))
  /\ WF_vars(CooldownEnds)

----------------------------------------------------------------------------

(* Every helper that lives is the one the manager talks to, the one that   *)
(* is being started, or the one a stop waits for: a helper given up after  *)
(* a timeout, a failed handshake or a stop during the start is killed.     *)
(* The exception is a helper over which a second start has published its   *)
(* own (bridge.go:265-272), see EveryHelperIsHeld.                         *)
NoOrphan ==
  \A p \in Procs : Alive(p) =>
    \/ p = cmd \/ p = starter.proc \/ helper[p].lost
    \/ \E c \in Callers : At(c, "reap") /\ call[c].proc = p

(* The same without the exception.  It does not hold: a caller that finds  *)
(* no helper, and asks for a start when another start has just come to     *)
(* its end, has a second helper put in the place of a healthy first one.   *)
EveryHelperIsHeld == NoOrphan /\ \A p \in Procs : Alive(p) => ~helper[p].lost

(* The answer that is used is the answer to the command that was sent: the *)
(* answer to one that timed out is never taken for the next one's.         *)
AnswerMatches ==
  \A c \in Callers :
    /\ At(c, "record") => call[c].got = <<c, call[c].bit, "Read">>
    /\ At(c, "reap") => call[c].got = <<c, call[c].bit, "Exit">>

(* The monitor gets temperatures again after any faults, without anyone's  *)
(* doing: its reads start a helper, and its recovery replaces a mute one.  *)
TemperatureReturns == []<>At(Monitor, "record")

============================================================================
