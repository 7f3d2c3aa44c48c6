----------------------------- MODULE WifiRuntime -----------------------------
(***************************************************************************)
(* The device manager on a WiFi controller (device/manager_wifi.go,        *)
(* wifi.go, compatibility_runtime.go, operation_control.go and             *)
(* write_barrier.go) with the flows of the core that call it: reconnect    *)
(* attempts with the search for a controller that has moved, the user's    *)
(* switch to another controller, speed and option writes, refreshes, the   *)
(* health check, disconnects, and the write barrier.                       *)
(*                                                                         *)
(* m.mutex (holder) is held across the requests of a connect, a speed      *)
(* write and an option write; a refresh reads the controller without it    *)
(* and looks again before it stores.  The heartbeat loops are goroutines   *)
(* that a disconnect only asks to stop.  A request may reach the           *)
(* controller and lose its answer; one given up does not arrive later.     *)
(***************************************************************************)
EXTENDS Naturals, Sequences, FiniteSets, SequencesExt

CONSTANTS
  Flows,        \* goroutines that call the manager
  Health,       \* the health monitor, a caller of its own
  Nobody,       \* no holder of a lock
  Loops, NoLoop,  \* heartbeat loops, used again after they have ended
  Endpoints,    \* addresses a controller may have
  Away,         \* the controller has no address
  Home,         \* the address in the configuration at the start
  MissThreshold,    \* wifiHeartbeatFailureThreshold
  HealthThreshold,  \* healthConsecutiveFailureThreshold
  Attempts,     \* requests of one speed write: MaxRetries + 1
  Mixes         \* bound: how often each sort of call and event may happen

ASSUME CallerAssumption == Health \notin Flows /\ Nobody \notin Flows \cup {Health}
ASSUME PlaceAssumption == Home \in Endpoints /\ Away \notin Endpoints /\ NoLoop \notin Loops
ASSUME NumberAssumption ==
  /\ MissThreshold \in Nat \ {0} /\ HealthThreshold \in Nat \ {0}
  /\ Attempts \in Nat \ {0}

Kinds == {"set", "option", "reconnect", "switch", "refresh", "drop", "block", "unblock"}
Events == {"move", "knob", "heartbeat", "health", "scan", "control", "quiet"}
Callers == Flows \cup {Health}

ASSUME MixAssumption == Mixes \subseteq [Kinds \cup Events -> Nat]

VARIABLES
  ctrl,       \* the controller: its address, and whether its knob or software rules
  saved,      \* FanControlDeviceIp in the configuration
  gate,       \* holder of connectMutex
  holder,     \* holder of m.mutex across a request
  op,         \* operationControl: the operation under way, and is it cancelled?
  blocked,    \* writesBlocked
  connected,  \* isConnected
  at,         \* the address of the configured executor
  gen,        \* connectionGen
  fanData,    \* currentFanData: the generation it was read in, or None
  loop,       \* wifiHbStop: the loop of this connection
  misses,     \* wifiHbFailures
  loops,      \* the heartbeat loops: [pc, at, gen]
  flow,       \* the callers: [pc, kind, at, gen, tries]
  failed,     \* healthConsecutiveFailureCount
  fresh,      \* was there an update since the last health check?
  readings,   \* states read and not yet told to the core, oldest first
  lastMode, auto,  \* lastDeviceMode and AutoControl
  turned,     \* has the knob been turned while software ruled?
  slip,       \* was an update told after a later one?
  left        \* the calls and events still to come

manager == <<connected, at, gen, fanData, loop, misses, loops>>
core == <<saved, gate, failed, fresh>>
told == <<readings, lastMode, auto, slip>>
world == <<ctrl, turned, left>>
locks == <<holder, op, blocked>>
vars == <<manager, core, told, world, locks, flow>>

None == 0
Idle == [pc |-> "idle", kind |-> "none", at |-> Home, gen |-> 0, tries |-> 0]
NoLoopYet == [pc |-> "ended", at |-> Home, gen |-> 0]
At(f, label) == flow[f].pc = label
Goes(f, label) == [flow EXCEPT ![f].pc = label]
Ends(f) == [flow EXCEPT ![f] = Idle]
MutexFree == holder = Nobody
Cancelled(f) == op.flow = f /\ op.cancelled
NoOperation == [flow |-> Nobody, cancelled |-> FALSE]
Reachable == ctrl.at = at

Init ==
  /\ ctrl = [at |-> Home, mode |-> "manual"]
  /\ saved = Home /\ gate = Nobody
  /\ holder = Nobody /\ op = NoOperation /\ blocked = FALSE
  /\ connected = FALSE /\ at = Home /\ gen = 1 /\ fanData = None
  /\ loop = NoLoop /\ misses = 0 /\ loops = [l \in Loops |-> NoLoopYet]
  /\ flow = [f \in Callers |-> Idle]
  /\ failed = 0 /\ fresh = FALSE
  /\ readings = <<>> /\ lastMode = "none" /\ auto = TRUE
  /\ turned = FALSE /\ slip = FALSE
  /\ left \in Mixes

----------------------------------------------------------------------------
(* The controller is taken off the network, returns or gets another        *)
(* address; its owner turns the knob.                                      *)

Spend(event) == left[event] > 0 /\ left' = [left EXCEPT ![event] = @ - 1]

Moves ==
  /\ Spend("move")
  /\ \E place \in (Endpoints \cup {Away}) \ {ctrl.at} : ctrl' = [ctrl EXCEPT !.at = place]
  /\ UNCHANGED <<manager, core, told, turned, locks, flow>>

KnobTurned ==
  /\ Spend("knob") /\ ctrl.mode = "software" /\ ctrl.at # Away
  /\ ctrl' = [ctrl EXCEPT !.mode = "manual"] /\ turned' = TRUE
  /\ UNCHANGED <<manager, core, told, locks, flow>>

----------------------------------------------------------------------------
(* Calls begin. *)

First(kind) ==
  IF kind = "set" THEN "enter"
  ELSE IF kind \in {"reconnect", "switch"} THEN "gate"
  ELSE IF kind = "refresh" THEN "type"
  ELSE IF kind = "drop" THEN "cancel"
  ELSE kind

(* Goroutines and loops that have ended are all alike: the next one takes  *)
(* any of these slots.                                                     *)
FreeFlow == CHOOSE f \in Flows : At(f, "idle")
FreeLoop == CHOOSE l \in Loops : loops[l].pc = "ended"

Begins(f) ==
  /\ At(f, "idle") /\ f = FreeFlow
  /\ \E kind \in Kinds, place \in Endpoints :
       /\ Spend(kind)
       /\ kind # "switch" => place = Home
       /\ flow' = [flow EXCEPT ![f] = [Idle EXCEPT !.pc = First(kind), !.kind = kind,
                                                   !.at = place]]
  /\ UNCHANGED <<manager, core, told, ctrl, turned, locks>>

----------------------------------------------------------------------------
(* Parts of the handlers that change the manager. *)

(* readings: a state read is told to the core later, by the refresh that   *)
(* read it or by a goroutine of its own (Nobody).                          *)
Reads(f) == readings' = Append(readings, [by |-> f, mode |-> ctrl.mode, late |-> FALSE])
Mine(f) == CHOOSE i \in DOMAIN readings : readings[i].by = f
Forgets(f) == readings' = RemoveAt(readings, Mine(f))

(* disconnectWiFiLocked: the loop is asked to stop, not waited for. *)
Closes ==
  /\ connected' = FALSE /\ fanData' = None /\ loop' = NoLoop /\ misses' = 0

DisconnectsLocked ==
  /\ gen' = gen + 1
  /\ IF connected THEN Closes
     ELSE UNCHANGED <<connected, fanData, loop, misses>>
  /\ UNCHANGED <<at, loops>>

(* cancelActive. *)
CancelActive == op' = IF op.flow = Nobody THEN op ELSE [op EXCEPT !.cancelled = TRUE]

(* The end of an operation: finishOperation and the mutex. *)
Releases == holder' = Nobody /\ op' = NoOperation

----------------------------------------------------------------------------
(* connectMutex, ConfigureProfile and the two ways to connect. *)

Gate(f) ==
  /\ At(f, "gate") /\ gate = Nobody
  /\ gate' = f
  /\ flow' = [flow EXCEPT ![f].pc = IF flow[f].kind = "switch" THEN "leave" ELSE "configure",
                          ![f].at = IF flow[f].kind = "switch" THEN @ ELSE saved]
  /\ UNCHANGED <<manager, saved, failed, fresh, told, world, locks>>

(* disconnectForSwitch. *)
Leave(f) ==
  /\ At(f, "leave") /\ MutexFree
  /\ flow' = Goes(f, IF connected THEN "cancel" ELSE "configure")
  /\ UNCHANGED <<manager, core, told, world, locks>>

(* ConfigureProfile does nothing while a controller is connected.  After a *)
(* switch that failed the profile before it is configured again.           *)
Configure(f) ==
  /\ flow[f].pc \in {"configure", "restore"} /\ MutexFree
  /\ IF connected THEN UNCHANGED <<gen, at>>
     ELSE gen' = gen + 1 /\ at' = IF At(f, "restore") THEN saved ELSE flow[f].at
  /\ IF At(f, "restore")
     THEN flow' = Ends(f) /\ gate' = Nobody
     ELSE flow' = Goes(f, "enter") /\ gate' = gate
  /\ UNCHANGED <<connected, fanData, loop, misses, loops, saved, failed, fresh,
                 told, world, locks>>

(* Connect or SetTargetSpeed takes m.mutex and looks at writesBlocked. *)
Enter(f) ==
  /\ At(f, "enter") /\ MutexFree
  /\ LET isSet == flow[f].kind = "set" IN
       \/ /\ ~blocked /\ connected = isSet
          /\ holder' = f /\ flow' = Goes(f, "begin")
       \/ /\ blocked \/ connected # isSet
          /\ holder' = holder
          /\ flow' = IF isSet THEN Ends(f)
                     ELSE Goes(f, IF blocked THEN "unconnected" ELSE "result")
  /\ UNCHANGED <<manager, core, told, world, op, blocked>>

(* operationControl.begin. *)
Begin(f) ==
  /\ At(f, "begin")
  /\ op' = [flow |-> f, cancelled |-> FALSE]
  /\ flow' = Goes(f, "check")
  /\ UNCHANGED <<manager, core, told, world, holder, blocked>>

(* The second look: a barrier raised before begin could not cancel it. *)
\* Mutant: there is no second look.
Check_Not(f) ==
  /\ At(f, "check")
  /\ UNCHANGED <<holder, op>>
  /\ flow' = Goes(f, IF flow[f].kind = "set" THEN "post" ELSE "state")
  /\ UNCHANGED <<manager, core, told, world, blocked>>
Check(f) ==
  /\ At(f, "check")
  /\ IF blocked
     THEN Releases /\ flow' = IF flow[f].kind = "set" THEN Ends(f) ELSE Goes(f, "unconnected")
     ELSE /\ UNCHANGED <<holder, op>>
          /\ flow' = Goes(f, IF flow[f].kind = "set" THEN "post" ELSE "state")
  /\ UNCHANGED <<manager, core, told, world, blocked>>

(* connectWiFiWithContextLocked: the state is read, the firmware probed,   *)
(* the connection published and its heartbeat loop started.                *)
State(f) ==
  /\ At(f, "state")
  /\ \/ /\ Reachable /\ ~Cancelled(f)
        /\ Reads(f) /\ flow' = Goes(f, "probe")
        /\ UNCHANGED <<holder, op>>
     \/ /\ UNCHANGED readings
        /\ Releases /\ flow' = Goes(f, "unconnected")
  /\ UNCHANGED <<manager, core, lastMode, auto, slip, world, blocked>>

(* detectWiFiFirmwareWithContextLocked, startWiFiHeartbeatLocked. *)
Publish(f) ==
  /\ At(f, "probe")
  /\ connected' = TRUE /\ fanData' = gen
  /\ \/ UNCHANGED <<loop, loops>>
     \/ /\ Reachable /\ ~Cancelled(f) /\ left["heartbeat"] > 0
        /\ \E l \in Loops : loops[l].pc = "ended"
        /\ loop' = FreeLoop
        /\ loops' = [loops EXCEPT ![FreeLoop] = [pc |-> "post", at |-> at, gen |-> 0]]
  /\ readings' = [readings EXCEPT ![Mine(f)].by = Nobody]
  /\ Releases /\ flow' = Goes(f, "result")
  /\ UNCHANGED <<at, gen, misses, core, lastMode, auto, slip, world, blocked>>

(* connectCompatibilityWithRecovery: a reconnect attempt that failed looks *)
(* for the controller at another address, stores that and tries once more. *)
(* The whole search is one answer here; it may find nothing, and the       *)
(* commit may fail.  A switch that failed restores the old profile.        *)
Unconnected(f) ==
  /\ At(f, "unconnected")
  /\ \/ /\ flow[f].kind = "switch"
        /\ flow' = Goes(f, "restore") /\ UNCHANGED <<saved, gate>>
     \/ /\ flow[f].kind = "reconnect"
        /\ gate' = Nobody /\ flow' = Ends(f) /\ UNCHANGED saved
     \/ /\ flow[f].kind = "reconnect" /\ flow[f].tries = 0
        /\ ctrl.at \in Endpoints \ {saved}
        /\ saved' = ctrl.at /\ gate' = gate
        /\ flow' = [flow EXCEPT ![f].pc = "configure", ![f].at = ctrl.at, ![f].tries = 1]
  /\ UNCHANGED <<manager, failed, fresh, told, world, locks>>

(* Connected.  A reconnect notes the generation and leaves connectMutex;   *)
(* it is then published, or closed because it was superseded.  A switch    *)
(* stores the address; if that fails the call ends as it is.               *)
Result(f) ==
  /\ At(f, "result")
  /\ \/ /\ flow[f].kind = "reconnect"
        /\ gate' = Nobody /\ saved' = saved
        /\ \E label \in {"finish", "cancel"} :
             flow' = [flow EXCEPT ![f].pc = label, ![f].gen = gen]
     \/ /\ flow[f].kind = "switch"
        /\ gate' = gate /\ saved' = flow[f].at /\ flow' = Goes(f, "finish")
     \/ /\ flow[f].kind = "switch"
        /\ gate' = Nobody /\ saved' = saved /\ flow' = Ends(f)
  /\ UNCHANGED <<manager, failed, fresh, told, world, locks>>

(* finishSuccessfulDeviceConnection: writes are let through again, but in  *)
(* the monitor-only mode what was connected is disconnected instead.       *)
Finish(f) ==
  /\ At(f, "finish")
  /\ \E label \in {"unblock", "dismiss"} : flow' = Goes(f, label)
  /\ UNCHANGED <<manager, core, told, world, locks>>

(* UnblockWrites, there and at the end of the monitor-only mode. *)
Unblock(f) ==
  /\ At(f, "unblock") /\ MutexFree
  /\ blocked' = FALSE
  /\ gate' = IF gate = f THEN Nobody ELSE gate
  /\ flow' = Ends(f)
  /\ UNCHANGED <<manager, saved, failed, fresh, told, world, holder, op>>

----------------------------------------------------------------------------
(* WiFiExecutor.SetSpeed: the request is sent up to Attempts times, then   *)
(* the state is read back and stored.                                      *)

Post(f) ==
  /\ At(f, "post")
  /\ IF Cancelled(f)
     THEN Releases /\ flow' = Ends(f)
     ELSE /\ UNCHANGED <<holder, op>>
          /\ flow' = [flow EXCEPT ![f].pc = "posted", ![f].tries = @ + 1]
  /\ UNCHANGED <<manager, core, told, world, blocked>>

Posted(f) ==
  /\ At(f, "posted")
  /\ \/ ctrl' = [ctrl EXCEPT !.mode = "software"] /\ Reachable
     \/ ctrl' = ctrl
  /\ \/ /\ Reachable /\ ~Cancelled(f) /\ ctrl'.mode = "software"
        /\ flow' = Goes(f, "read") /\ UNCHANGED <<holder, op>>
     \/ /\ flow[f].tries < Attempts
        /\ flow' = Goes(f, "post") /\ UNCHANGED <<holder, op>>
     \/ /\ flow[f].tries = Attempts \/ Cancelled(f)
        /\ Releases /\ flow' = Ends(f)
  /\ UNCHANGED <<manager, core, told, turned, left, blocked>>

ReadBack(f) ==
  /\ At(f, "read")
  /\ \/ /\ Reachable /\ ~Cancelled(f)
        /\ fanData' = gen /\ Reads(Nobody)
     \/ UNCHANGED <<fanData, readings>>
  /\ Releases /\ flow' = Ends(f)
  /\ UNCHANGED <<connected, at, gen, loop, misses, loops, core, lastMode, auto, slip,
                 world, blocked>>

(* SetPowerOnStart, SetSmartStartStop: neither the barrier nor             *)
(* operationControl is looked at.                                          *)
Option(f) ==
  /\ At(f, "option") /\ MutexFree
  /\ IF connected THEN holder' = f /\ flow' = Goes(f, "tune")
     ELSE holder' = holder /\ flow' = Ends(f)
  /\ UNCHANGED <<manager, core, told, world, op, blocked>>

Tune(f) ==
  /\ At(f, "tune")
  /\ holder' = Nobody /\ flow' = Ends(f)
  /\ UNCHANGED <<manager, core, told, world, op, blocked>>

----------------------------------------------------------------------------
(* disconnectWithGeneration: the operation under way is cancelled before   *)
(* the generation is looked at.  "dismiss" and "part" are the disconnect   *)
(* of Finish.                                                              *)

Cancel(f) ==
  /\ flow[f].pc \in {"cancel", "dismiss"}
  /\ CancelActive
  /\ flow' = Goes(f, IF At(f, "cancel") THEN "close" ELSE "part")
  /\ UNCHANGED <<manager, core, told, world, holder, blocked>>

(* gen = 0 stands for any generation.  A health check that closed the      *)
(* connection waits for its next round.                                    *)
Close(f) ==
  /\ flow[f].pc \in {"close", "part"} /\ MutexFree
  /\ IF flow[f].gen \in {0, gen} \/ At(f, "part") THEN DisconnectsLocked ELSE UNCHANGED manager
  /\ flow' = IF At(f, "close") /\ flow[f].kind = "switch" THEN Goes(f, "configure") ELSE Ends(f)
  /\ gate' = IF At(f, "part") /\ gate = f THEN Nobody ELSE gate
  /\ UNCHANGED <<saved, failed, fresh, told, world, locks>>

(* BlockWrites, and the disconnect that follows it in a suspend and in the *)
(* monitor-only mode.                                                      *)
Block(f) ==
  /\ At(f, "block")
  /\ blocked' = TRUE
  /\ flow' = Goes(f, "hush")
  /\ UNCHANGED <<manager, core, told, world, holder, op>>

Hush(f) ==
  /\ At(f, "hush")
  /\ CancelActive
  /\ flow' = Goes(f, "seal")
  /\ UNCHANGED <<manager, core, told, world, holder, blocked>>

Seal(f) ==
  /\ At(f, "seal") /\ MutexFree
  /\ flow' = Goes(f, "cancel")
  /\ UNCHANGED <<manager, core, told, world, locks>>

----------------------------------------------------------------------------
(* compatibilityRuntime.refresh, for the overview and the health check.    *)

(* checkDeviceHealth: an update since the last check (15 s count as fresh, *)
(* a check comes every 30 s) makes it skip the refresh; while a reconnect  *)
(* is in progress the check does nothing.                                  *)
HealthTick ==
  /\ At(Health, "idle") /\ left["health"] > 0
  /\ \/ /\ fresh /\ fresh' = FALSE /\ failed' = 0 /\ flow' = flow
     \/ /\ \E f \in Flows : flow[f].kind = "reconnect"
        /\ UNCHANGED <<fresh, failed, flow>>
     \/ /\ fresh' = FALSE /\ failed' = failed
        /\ flow' = [flow EXCEPT ![Health] = [Idle EXCEPT !.pc = "type", !.kind = "health"]]
  /\ UNCHANGED <<manager, saved, gate, told, world, locks>>

(* How the caller takes the result: the overview leaves a failure to the   *)
(* health check, which disconnects whatever is connected after             *)
(* HealthThreshold failures in a row.                                      *)
Healthy(f) ==
  /\ flow' = Ends(f) /\ failed' = IF f = Health THEN 0 ELSE failed
\* Mutant: a failed check is not counted.
Unhealthy_NotCounted(f) == flow' = Ends(f) /\ failed' = failed
Unhealthy(f) ==
  IF f # Health THEN flow' = Ends(f) /\ failed' = failed
  ELSE IF failed + 1 < HealthThreshold
  THEN flow' = Ends(f) /\ failed' = failed + 1
  ELSE /\ flow' = [flow EXCEPT ![f].pc = "cancel", ![f].gen = 0] /\ failed' = 0

(* GetDeviceType: nothing connected is healthy here. *)
DeviceType(f) ==
  /\ At(f, "type") /\ MutexFree
  /\ IF connected THEN flow' = Goes(f, "snap") /\ failed' = failed ELSE Healthy(f)
  /\ UNCHANGED <<manager, saved, gate, fresh, told, world, locks>>

Snap(f) ==
  /\ At(f, "snap") /\ MutexFree
  /\ IF connected
     THEN flow' = [flow EXCEPT ![f].pc = "ask", ![f].gen = gen, ![f].at = at] /\ failed' = failed
     ELSE Unhealthy(f)
  /\ UNCHANGED <<manager, saved, gate, fresh, told, world, locks>>

(* The controller is read without m.mutex. *)
Ask(f) ==
  /\ At(f, "ask")
  /\ \/ /\ ctrl.at = flow[f].at /\ Reads(f) /\ flow' = Goes(f, "store")
     \/ flow' = Goes(f, "failed") /\ UNCHANGED readings
  /\ UNCHANGED <<manager, core, lastMode, auto, slip, world, locks>>

\* Mutant: a refresh looks only whether something is connected.
Stale_Connected(f) == ~connected
Stale(f) == flow[f].gen # gen \/ ~connected

AskFailed(f) ==
  /\ At(f, "failed") /\ MutexFree
  /\ IF Stale(f) THEN Healthy(f) ELSE Unhealthy(f)
  /\ UNCHANGED <<manager, saved, gate, fresh, told, world, locks>>

Store(f) ==
  /\ At(f, "store") /\ MutexFree
  /\ IF Stale(f)
     THEN Forgets(f) /\ Healthy(f) /\ UNCHANGED fanData
     ELSE fanData' = flow[f].gen /\ flow' = Goes(f, "show") /\ UNCHANGED <<readings, failed>>
  /\ UNCHANGED <<connected, at, gen, loop, misses, loops, saved, gate, fresh,
                 lastMode, auto, slip, world, locks>>

----------------------------------------------------------------------------
(* onFanDataUpdate: a controller that software ruled and that now says     *)
(* manual turns the automatic control off.                                 *)

Later(i) ==
  [j \in DOMAIN readings |-> IF j < i THEN [readings[j] EXCEPT !.late = TRUE] ELSE readings[j]]

\* Mutant: the first state after the start is taken for a change.
Told_First(i) ==
  /\ readings' = RemoveAt(Later(i), i)
  /\ auto' = (auto /\ ~(readings[i].mode = "manual" /\ lastMode # "manual"))
  /\ lastMode' = readings[i].mode
  /\ slip' = (slip \/ readings[i].late) /\ fresh' = TRUE
Told(i) ==
  /\ readings' = RemoveAt(Later(i), i)
  /\ auto' = (auto /\ ~(readings[i].mode = "manual" /\ lastMode = "software"))
  /\ lastMode' = readings[i].mode
  /\ slip' = (slip \/ readings[i].late) /\ fresh' = TRUE

(* The goroutine of a connect or a speed write. *)
Update ==
  /\ \E i \in DOMAIN readings : readings[i].by = Nobody /\ Told(i)
  /\ UNCHANGED <<manager, saved, gate, failed, world, locks, flow>>

(* The callback of a refresh. *)
Show(f) ==
  /\ At(f, "show")
  /\ Told(Mine(f)) /\ Healthy(f)
  /\ UNCHANGED <<manager, saved, gate, world, locks>>

----------------------------------------------------------------------------
(* wifiHeartbeatLoop and handleWiFiHeartbeatResult. *)

Beat(l, label) == loops' = [loops EXCEPT ![l].pc = label]

HeartbeatPost(l) ==
  /\ loops[l].pc = "post"
  /\ \/ ctrl.at = loops[l].at /\ Beat(l, "beat")
     \/ Beat(l, "miss")
  /\ UNCHANGED <<connected, at, gen, fanData, loop, misses, core, told, world, locks, flow>>

(* A report counts for the connection of the moment, whichever loop it     *)
(* comes from.                                                             *)
HeartbeatReport(l) ==
  /\ loops[l].pc \in {"beat", "miss"} /\ MutexFree
  /\ IF ~connected \/ loop = NoLoop
     THEN misses' = misses /\ Beat(l, "tick")
     ELSE IF loops[l].pc = "beat"
     THEN misses' = 0 /\ Beat(l, "tick")
     ELSE IF misses + 1 < MissThreshold
     THEN misses' = misses + 1 /\ Beat(l, "tick")
     ELSE /\ misses' = MissThreshold
          /\ loops' = [loops EXCEPT ![l].pc = "cancel", ![l].gen = gen]
  /\ UNCHANGED <<connected, at, gen, fanData, loop, core, told, world, locks, flow>>

HeartbeatCancel(l) ==
  /\ loops[l].pc = "cancel"
  /\ CancelActive /\ Beat(l, "close")
  /\ UNCHANGED <<connected, at, gen, fanData, loop, misses, core, told, world,
                 holder, blocked, flow>>

HeartbeatClose(l) ==
  /\ loops[l].pc = "close" /\ MutexFree
  /\ Beat(l, "tick")
  /\ IF loops[l].gen # gen THEN UNCHANGED <<connected, gen, fanData, loop, misses>>
     ELSE /\ gen' = gen + 1
          /\ IF connected THEN Closes ELSE UNCHANGED <<connected, fanData, loop, misses>>
  /\ UNCHANGED <<at, core, told, world, locks, flow>>

(* A loop that was asked to stop ends, or posts once more when its ticker  *)
(* is ready too.                                                           *)
HeartbeatTick(l) ==
  /\ loops[l].pc = "tick"
  /\ \/ Beat(l, "post")
     \/ l # loop /\ Beat(l, "ended")
  /\ UNCHANGED <<connected, at, gen, fanData, loop, misses, core, told, world, locks, flow>>

----------------------------------------------------------------------------
Connects(f) ==
  \/ Gate(f) \/ Leave(f) \/ Configure(f) \/ State(f) \/ Publish(f)
  \/ Unconnected(f) \/ Result(f) \/ Finish(f) \/ Unblock(f)
Writes(f) ==
  \/ Enter(f) \/ Begin(f) \/ Check(f) \/ Post(f) \/ Posted(f) \/ ReadBack(f)
  \/ Option(f) \/ Tune(f)
Disconnects(f) == Cancel(f) \/ Close(f) \/ Block(f) \/ Hush(f) \/ Seal(f)
Refreshes(f) == DeviceType(f) \/ Snap(f) \/ Ask(f) \/ AskFailed(f) \/ Store(f) \/ Show(f)
Runs(f) == Connects(f) \/ Writes(f) \/ Disconnects(f) \/ Refreshes(f)
Beats(l) ==
  \/ HeartbeatPost(l) \/ HeartbeatReport(l) \/ HeartbeatCancel(l) \/ HeartbeatClose(l)
  \/ HeartbeatTick(l)

Next ==
  \/ Moves \/ KnobTurned \/ HealthTick \/ Update
  \/ \E f \in Flows : Begins(f)
  \/ \E f \in Callers : Runs(f)
  \/ \E l \in Loops : Beats(l)

Spec == Init /\ [][Next]_vars

(* Requests end by their time limit, tickers tick, goroutines run. *)
FairSpec ==
  /\ Spec
  /\ \A f \in Callers : WF_vars(Runs(f))
  /\ WF_vars(HealthTick) /\ WF_vars(Update)
  /\ \A l \in Loops : WF_vars(Beats(l))

----------------------------------------------------------------------------
Labels == {
  "idle", "gate", "leave", "configure", "restore", "enter", "begin", "check", "state",
  "probe", "unconnected", "result", "finish", "unblock", "post", "posted", "read", "option",
  "tune", "cancel", "close", "dismiss", "part", "block", "hush", "seal", "type", "snap", "ask", "failed",
  "store", "show"}
Flow(last) ==
  [pc : Labels, kind : Kinds \cup {"none", "health"}, at : Endpoints, gen : 0..last,
   tries : 0..Attempts]
Loop(last) ==
  [pc : {"ended", "post", "beat", "miss", "cancel", "close", "tick"}, at : Endpoints,
   gen : 0..last]
Reading ==
  [by : Callers \cup {Nobody}, mode : {"manual", "software"}, late : BOOLEAN]

TypeOK ==
  /\ ctrl \in [at : Endpoints \cup {Away}, mode : {"manual", "software"}]
  /\ saved \in Endpoints /\ gate \in Flows \cup {Nobody}
  /\ holder \in Flows \cup {Nobody} /\ op \in [flow : Flows \cup {Nobody}, cancelled : BOOLEAN]
  /\ blocked \in BOOLEAN /\ connected \in BOOLEAN /\ at \in Endpoints
  /\ gen \in Nat \ {0} /\ fanData \in 0..gen
  /\ loop \in Loops \cup {NoLoop} /\ misses \in 0..MissThreshold
  /\ loops \in [Loops -> Loop(gen)] /\ flow \in [Callers -> Flow(gen)]
  /\ failed \in 0..HealthThreshold - 1 /\ fresh \in BOOLEAN
  /\ readings \in Seq(Reading)
  /\ lastMode \in {"none", "manual", "software"} /\ auto \in BOOLEAN
  /\ turned \in BOOLEAN /\ slip \in BOOLEAN

(* What the manager shows as the state of the controller was read in this  *)
(* connection: a refresh that outlived its connection stores nothing, also *)
(* when another connection stands by then.                                 *)
OwnData == IF connected THEN fanData = gen ELSE fanData = None

(* From the moment BlockWrites has cancelled the operation under way until *)
(* writes are let through again no speed request is sent, by the operation *)
(* it waits for or by a later one; and once BlockWrites has returned no    *)
(* connection is published.                                                *)
Sealed == blocked /\ \A f \in Flows : flow[f].pc # "hush"
BlockStopsWrites ==
  [][ /\ Sealed /\ blocked' => \A f \in Flows : ~(At(f, "post") /\ flow'[f].pc = "posted")
      /\ Sealed /\ connected' /\ ~connected => \E f \in Flows : At(f, "seal") ]_vars

(* The automatic control is turned off only by someone who turned the knob *)
(* while software ruled, or by an update that was told after a later one.  *)
AutoStays == auto \/ turned \/ slip

(* A controller that is gone is noticed: its connection does not stand for *)
(* good, with heartbeats or with health checks alone.                      *)
GoneIsNoticed == []<>(connected => Reachable)

(* Known departures. *)

(* A connection is given up only after its own loop missed three times. *)
HeartbeatsAreOwn ==
  [][\A l \in Loops : loops[l].pc = "miss" /\ misses' # misses => l = loop]_vars

(* A disconnect for a connection that is no more cancels nothing. *)
StaleCallSparesOperations ==
  [][\A f \in Flows : At(f, "cancel") /\ flow[f].gen \notin {0, gen} => op' = op]_vars

(* The barrier stops option writes like speed writes. *)
OptionIsBlocked ==
  [][\A f \in Flows : At(f, "option") /\ flow'[f].pc = "tune" => ~Sealed]_vars

(* Nothing but the knob turns the automatic control off. *)
AutoIsKept == auto \/ turned
============================================================================
