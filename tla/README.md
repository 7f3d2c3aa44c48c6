# Formal model of the FanControlPortable core

TLA+ specifications of the control core of FanControlPortable (Go, `src/internal/`), model-checked with TLC
on small instances and, for the results listed in section 6, proved with TLAPS for all values of the
constants. The code is the reference: every definition names, in `PROJECT.json` ("map"), the lines it stands
for.

1. The system and its parts
2. What is modelled, and how modules correspond to code
3. Reading guide to each module
4. Runs: what is checked, on which instance, and why it is enough
5. Promises the code does not keep
6. What is proved
7. What is only model-checked, and what is not modelled
8. Plan

## 1. The system and its parts

A core process (`cmd/core`) owns a laptop cooler. A GUI process and the tray send it requests over a named
pipe; a helper process (`TempBridge`, C#) reads temperatures; the operating system reports suspend, resume
and device arrival. The core turns all of that into a fan speed.

```
  GUI --pipe--> ipc.Server --handler goroutines--> coreapp.CoreApp --+--> config.Manager --> config file
  power notices, device arrivals, tray, hotkeys -------^   ^         +--> bridge.Manager --> TempBridge
  health-monitor ticker -------------------------------+   |         +--> device.Manager --> HID/BLE/WiFi
  temperature-monitor ticker ------------------------------+                    |
                           ^----------- loss and fan-data callbacks ------------+
```

| Part (code) | State it keeps | Operations | Talks to | What makes it correct |
|---|---|---|---|---|
| Connection lifecycle (`coreapp/system_device.go`, `device_connection_flow.go`, `health_monitor.go`, `monitor_only.go`) | `isConnected`, `autoReconnectSuppressed`, `systemSuspended`, `resumeReconnectWanted`, `monitorOnly`, the stored cancel function and `reconnectGeneration` of the reconnect loop, `connectMutex`, `reconnectMutex` | request, run, cancel and commit a reconnect; connect and disconnect requests; loss report; health check; arrival; suspend, resume; monitor-only | calls the device manager; is called back by its receivers | one loop; what the user switched off stays off; what was lost comes back; every request returns |
| Device manager, connection state (`device/manager_wifi.go`, `auto_native.go`, `write_barrier.go`, `flydigi_hid_windows.go`) | the handle, `m.mutex`, `writesBlocked`, `connectionGen` | connect, disconnect (also conditional on a generation), block and unblock writes, report a loss | I/O; callbacks into the core | an attempt that was overtaken does not close a handle that someone else has opened |
| Temperature monitor, life cycle (`coreapp/monitoring.go`) | `monitoringDone`, `monitoringStopping`, `monitoringTemp`, a cancel function | begin (waits for the predecessor), run, stop, finish | started by Start, commits, health check, resume; stopped by suspend and Stop | at most one runs; it is noticed when it dies; it comes back |
| Temperature monitor, control tick (`coreapp/monitoring.go`, `config_control.go`) | last target, last automatic state, safety-fallback counters, debounce | read configuration, read temperatures, decide, push | bridge, smart control, push queue | fails safe without telemetry; takes over again; user modes win |
| Asynchronous speed push (`device/blackshark_hid.go`, `blackshark_hid_windows.go`) | queue of depth one, its worker, the epoch, last pushed value and time of the last write | push, cancel, take, write | tick and requests | nothing queued is forgotten; nothing stale is written |
| Black Shark wire exchange and image transfer (`device/blackshark_hid.go`, `blackshark_hid_windows.go`, `coreapp/blackshark.go`) | the bus, the awaited command, late answers, remembered lighting blocks, a running upload | exchange, query, edit, select, upload | HID reader goroutine | an answer is matched with its own request; a confirmed edit is on the cooler |
| Black Shark panel (`coreapp/blackshark.go`) | configuration fields, the cached panel state, the record of the screen taken over | host control on and off, gear, profiles, snapshots, work after a connect | device manager, configuration | the screen comes back; the cooler follows the gear chosen |
| WiFi controller (`device/wifi.go`, `manager_wifi.go`, `compatibility_runtime.go`, `operation_control.go`) | controller, address, heartbeat loop and its failures, cached state, the active operation | connect, recover, switch, write, refresh, heartbeat, health check, block | HTTP; callbacks into the core | nothing stale is stored; a gone controller is noticed; a block stops writes |
| WiFi scan (`device/wifi_discovery.go`, `coreapp/wifi_discovery.go`, `types/wifi_discovery.go`) | the shared control (paused, cancelled), workers, phases | scan, pause, resume, cancel | HTTP; the GUI | a cancelled scan stops; a paused one ends |
| Smart control (`smartcontrol/`) | buckets of samples, long-term aggregates, learned offsets | curve, prediction, ramp limit, learning | the tick | what is used is what was learned; slowing down is earned |
| Configuration store (`config/`, `coreapp/config_control.go`) | current value, revision, files | load, commit of a snapshot, of a field, at a revision | everyone | no lost update; a failed or interrupted write leaves something that was stored |
| IPC server and client (`ipc/ipc.go`, `guiapp/ipc_client.go`, `ipc_watchdog.go`) | connections, generations, pending requests | request, respond, broadcast, time out, reconnect, stop | GUI and core | a write is executed at most once; an old connection does not harm a new one |
| Temperature bridge supervision (`bridge/bridge.go`, `coreapp/monitoring.go`) | the helper process and its pipe, the start under way, the cooldown | start, handshake, command, restart, stop | TempBridge | one helper; answers fit commands; temperatures come back |
| Noise diagnostic (`coreapp/noise_diagnostic.go`) | a lease that gates automatic control, its timer | begin, set target, end, cancel, expire | tick | the lease ends once, and control comes back |
| FlyDigi HID and BLE writes, other profile transports, device protocols | none to speak of | frames, readbacks, transactions | the devices | encode and decode agree |
| Core life cycle, tray, hotkeys, plugins, notifications | wiring | start, stop | all | orderly shutdown |
| GUI and front end; TempBridge | presentation; sensors | | core | external to the control logic |

**What is hard here.** The core runs tens of goroutines: one per IPC request, one per reconnect loop, one
per device receiver, heartbeats, a suspend cleanup that may outlive the suspend, a resume recovery, tickers,
a push worker, gear and state reports in goroutines of their own. Mutexes, atomics, generation counters,
revisions and a write barrier order them. Most tests of the repository call one handler after the other;
what they cannot reach are the orders in between: a loss between a check and the publication that relies on
it, a cancellation while a lock is awaited, a suspend within a commit, an answer that comes after its time,
a write that fails after the new value is in memory, a record read before a query and used after it.
`PROJECT.json` lists each of these under "hazards", at the line where it bites, with the properties that
would catch it.

## 2. What is modelled

| Module | Models | Built on |
|---|---|---|
| `DeviceManager` | state and methods of the connection part of `device.Manager` | |
| `Connection` | everything in `coreapp` that connects or disconnects | EXTENDS `DeviceManager` |
| `MonitorLifecycle` | begin, run, stop and finish of the monitor goroutine, and all its callers | |
| `SpeedPush` | queue, worker and speed write of a Black Shark that the host controls | |
| `SpeedControl` | the tick and the user's speed requests | EXTENDS `SpeedPush` |
| `NoiseDiagnostic` | the lease, its sweep and its ends, with the tick of a synchronously written device | |
| `SmartCurve` | the arithmetic of base curve, offsets and effective curve, as operators | |
| `Learning` | learning from samples, saving, and the user's edits of the curve | EXTENDS `SmartCurve` |
| `ConfigStore` | the configuration manager, its files, and every request that commits | |
| `Calls` | abstract specification: what a caller in the GUI may rely on | |
| `IpcServer` | the core's end of the pipe | |
| `Ipc` | the GUI's end, its retries and its watchdog; implements `Calls` | EXTENDS `IpcServer` |
| `Bridge` | the helper process, its starter, and those who read, restart and stop | |
| `WireLink` | bus, awaited command, late answers and the cooler's end of the wire | |
| `Wire` | the goroutines that exchange frames: queries, switches, lighting, images | EXTENDS `WireLink` |
| `Panel` | host control, screen takeover, gears, profiles, snapshots, connects | |
| `WifiRuntime` | the manager on a WiFi controller and the flows that call it | |
| `Wifi` | the user's scan and monitor-only, composed with the manager | EXTENDS `WifiRuntime` |
| `MC...` | instances of each for TLC: mixes of events, symmetry | EXTEND the module they name |
| `Connection_proofs`, `ConfigStore_proofs`, `Bridge_proofs`, `Panel_proofs`, `Ipc_proofs`, `Wifi_proofs`, `Wire_proofs` | theorems | EXTEND the module they name |
| `Monitor_proofs` | theorems about the temperature monitor and the diagnostic that takes the fan from it | EXTENDS `MonitorLifecycle`, `SpeedControl`, `Learning`, `NoiseDiagnostic` |

Conventions. A goroutine is an actor with a program counter (`pc`, `at`, `control`, `tick`, `client`). A
step is as large as the code is atomic: it takes at most one mutex it does not already hold, and reads and
writes share a step only when no other actor can act on the difference. A mutex that is held across steps
has an owner variable; a short critical section is a guard that the mutex is free. Blocking I/O is a step of
its own wherever another actor can act meanwhile. Every environment event draws on a named budget: `Mixes`,
`Budgets`, `Scenarios` are sets of mixes, and a behaviour starts with one of them. Counters that are only
compared for equality with an earlier copy (generations, revisions) are kept as "is the copy still current",
where the code can observe no more. A variable that only the properties read (history) says so where it is
declared. A definition whose name ends in `_Something` and is commented "Mutant" is a wrong form of the
definition that follows; no specification uses it. It documents which mistake a property detects.

## 3. Reading guide to each module

### DeviceManager and Connection

State: the handle (`closed`, `live`, or `dead`: open, but its device is gone and nobody has noticed),
`m.mutex`, `writesBlocked`, the generation, and the core's flags under their source names. `connectionGen`
and `suspendGeneration` are counters that are only compared for equality with an earlier copy; the model
keeps the set of actors whose copy is still current (`genHolders`, `suspendHolders`), which is exactly what
the code can observe. `reconnectGeneration` is the loop that was started last.

| Actions | Code |
|---|---|
| `RequestReconnect`, `Startup` | `requestReconnect`, `requestStartupReconnect` |
| `Loop`: delay, checks, `OpenBegins` / `OpenConnects` / `OpenGivesUp` / `OpenAnswers`, capture and completion, deferred end | `runReconnectLoop`, `reconnectDevice`, `completeReconnectAttempt` |
| `Finish`, `FinishPublish`, `QueryAnswers`, `QueryFails`, `SettingsReady` | `finishSuccessfulDeviceConnection`, `RefreshDeviceSettings` |
| `ClientStarts`, `ClientGoesOn` | `ConnectDevice`, `DisconnectDevice`, refresh and reconfiguration requests |
| `Receiver`, `LinkDrop`, `LinkReturn` | receiver goroutines and `onDeviceDisconnect` |
| `HealthMonitor`, `Arrival` | `health_monitor.go`, arrival callbacks |
| `SuspendReads`, `SuspendCancels`, `SuspendHandsOver`, `Cleanup` | `onSystemSuspend` and the cleanup it may not wait for |
| `ResumeNotice`, `GapDetected`, `ResumeRecovery` | `triggerResumeRecovery`, `handleSystemResume` |
| `ModeTurnsOn`, `MonitorOnlyMode` | `refreshMonitorOnlyRuntime(true)` |

`userOff` is history: it remembers that the user's last word was "disconnect", and whether it fell into a
suspend. `Quiet` stands for a program in which every goroutine waits for an event; with it, any other dead
end is reported as a deadlock.

### MonitorLifecycle

`Runs` are the goroutines; `monitoringDone` is the run whose channel is registered. `Run(r)` is begin, the
wait for the predecessor, the loop and finish; `LoopPanics` ends a loop that the deferred finish then cleans
up. Suspend is split where the code is: the flag first, the stop later, on a callback that may run after the
resume. The recovery is split at the bridge start that lies between its swap and the restart.

### SpeedPush and SpeedControl

A Black Shark cooler under host control: the mode with the most actors between a decision and the fan.
Speeds are levels at least 100 RPM apart, the deadband of a write, so that "within the deadband" and "closer
than MinRPMChange" both become equality. Time is counted in monitor ticks: the write interval of 5 s lasts
`CoolingTicks` ticks or one more, depending on where in the period the write falls; at the default sampling
of 2 s that is 3. The curve of the host is the curve of no gear, so `activeBlackSharkGear` is 0 and the
fixed form, which needs a gear, is never reached: a routine target, the safety fallback, a custom speed and a
manual gear all end in `SetTargetSpeed`, whose deadband and interval apply to each of them and which reports
a skipped target as written. Only a routine target goes through the queue; the fallback empties the queue
before it writes. For the same reason `reassertBlackSharkInverterGear`, which the takeover calls, returns
before it forgets what was pushed (`blackshark.go:914`). `TickReads` copies the configuration, and the rest
of the tick acts on that copy after a blocking temperature read. A write is one step, because it holds
`Manager.mutex` from its checks to its last frame. It may be refused before anything was written
(`HostWriteRefused`), or written but reported as failed (`HostWriteTorn`). A restored snapshot writes curves,
which the cooler then follows (`ClientRestores`), and in automatic control forgets what was pushed
afterwards (`ClientForgets`). `gaps` (history) says why the cooler may lack a target that was accepted: it
was skipped within the interval (`interval`), or the cooler was given another speed than `lastPushed`
remembers (`memory`).

### NoiseDiagnostic

The tick here is that of every other device: the write is synchronous, and the device reports the target it
holds. `Begin` reads configuration and revision in two steps, as the code does; a client steps through
begin, set target and end; the timer of each session fires in a goroutine of its own; `System` is a device
loss, a suspend or a stop; the monitor ends a lease when it falls back to the safe speed. Whoever ends a
session restores control: a forced tick in automatic control, the configured gear otherwise. A lease whose
time is up is noticed by the next call that looks at it. The sweep is written between two looks at the
lease. `stray` (history) marks a write by somebody who had been overtaken, which in manual control nothing
corrects; `Torn` says that a session has read an older configuration than its revision names.

### SmartCurve and Learning

`SmartCurve` has the operators that the tests of the code cover only by example: nearest bucket,
interpolation, clamping of offsets, the learning bias, the Gaussian pull of the neighbours, the monotone
pass and the effective curve. All are over integers with the code's rounding. `Learning` drives them: `LearningTick`
feeds a sample, closes windows, adds a steady one to the long-term aggregate or corrects at once, and moves
the offsets; `Save` commits the monitor's copy if the revision it has read is current; the requests edit the
curve, set the bias and reset. The size of a step depends on cooling efficiency, rate and noise profile in
the code; here it is any of `HotSteps` or `QuietSteps`, because no property depends on more than its sign
and bound. CPU and GPU power are one number; durations are scaled ticks; one device and one profile are
modelled.

### ConfigStore

`memory` is the configuration in use and `revision` its number; `files` are the five places in which a start
looks for one, the last of them the `settings.json` of the first portable versions. `mu` is the manager's lock
and `core` is `a.mutex`, which only some requests take. Requests are of three sorts: a whole snapshot
(`Update`: settings, curve, gear, custom speed, retention), a narrow change (`MutateAndSave`), and a gated one
(`MutateIfRevisionAndSave`: learned offsets, diagnosis, scan). A save writes a temporary file in the portable
place and renames it, falls back to the user's directory and rolls memory back when both fail. `Dies` may
happen between any two steps; the restart looks at the places in the code's order and skips what it cannot
parse. A configuration is a function from fields to values, so a lost change is a field that has gone back.

### Calls, IpcServer, Ipc

A link is a pipe with a queue in each direction and two ends that close separately. `IpcServer` has accept,
the reader, the writer with its two queues, a handler per request within `MaxConcurrent`, broadcasts that
drop a client whose queue is full, and `Stop`. `Ipc` has the client: dial, the generation, one reader per
connection, pending requests, the write with its deadline, the response timer, failure and recovery, the
second attempt that only read requests get, and the watchdog. `Calls` is what a caller may rely on: a call
that succeeds has been executed; a write is executed at most once; a read at most twice; a failed call may
have been executed, or still be. `Abstract == INSTANCE Calls WITH ...` maps the outcome of a client's call
and the number of times a handler has executed it to the state of `Calls`; the program itself reads neither,
so what is shown is that pending table, generations and retries together allow no other outcomes.

### Bridge

`startMu` orders starts and stops, `m.mutex` is held over a command. The starter is the goroutine that
`EnsureRunningAsync` begins, with its waiters; a start makes a process, waits for its handshake, looks whether
it has been overtaken by a stop, and publishes. Publishing over a helper that lives only overwrites the
manager's fields: the first process goes on, reached by nobody (`lost`), until its pipes are collected (`LostEnds`). A caller sends a command, waits, and
on a timeout leaves the answer behind: whether the next reader can take it for its own is what `AnswerMatches`
says. A helper that fails is stopped, reaped and, after a cooldown, started again; the monitor counts unusable
readings and lets a recovery stop and start the helper. Processes are used again once they have ended, so that
the number of restarts has no bound but that of faults.

### WireLink and Wire

Frames carry no sequence number: an answer repeats the command, and for a lighting block its slot. The bus
is a first-come-first-served lock. An exchange clears old answers, looks for a late one, declares what it
awaits and sends; the reader hands an answer to whoever awaits that command, else stores it as late. In
`Wire`: lighting edits (read the block, write, wait for the acknowledgement, read back), selections, which
use the remembered block, plain reads, switches, the periodic host information, and the image upload with
flow answers and resends. A query holds `m.mutex` while it waits for the bus; an edit gives `m.mutex` back
between its frames. Answers are lost, late (after the waiting caller has given up) or rejections, within
`MaxFaults`.

### Panel

Form `fixed` means that the host turns the fan and the firmware keeps the screen dark; form `curve` means
that the cooler follows the gear's curve by itself. A flow is a goroutine: a request of the panel, the work
it leaves behind, the work after a connect, or a refresh. `TakesOver` reads the screen, notes it in the
configuration and switches it off; the end writes the gear's curve and `Restores` lights the screen in up to
`MaxTries` tries and clears the note. The tick queues a target; the worker asks who controls
the speed (`WorkerDecides`) and under host control writes it.
`wished` (history) is the screen as the user left it; `slips` says which known gap a behaviour has gone
through: `crossed` (host control on while its end is still under way), `late` (a write overtaken by a later
choice), `unconfirmed`, `misread`, `refused`, `restored`. A property that excepts one names it.

### WifiRuntime and Wifi

A controller sits at an endpoint or is `Away`; it can move, leave, come back, and be turned by hand. Flows
are reconnect attempts (with the search for a controller that has moved), the switch to another controller,
speed and option writes, refreshes, disconnects, and block and unblock. `m.mutex` is held over the requests
of a connect and a write; a refresh reads without it and looks again before it stores. An operation looks at
the barrier, registers itself and looks again; `CancelActive` cancels whatever is registered. A connect that has been
carried out is finished by lifting the block, or in monitor-only mode by disconnecting (`Finish`). Heartbeat
loops count failures and are only asked to stop. Every state told to the core travels in a goroutine of its
own (`Update` delivers any of those under way). `Wifi` adds the scan: dispatcher, workers, the two phases of
a deep scan, the shared control, the limit in time, and the monitor-only switch, which cancels the scan and
disconnects.

## 4. Runs

Each passing run asks its module for everything worth asking; each of its properties has a mutant in
`PROJECT.json`: a plausible mistake in a modelled definition under which the same run reports a violation.
All runs use two or three of each kind of actor. That is where the interesting cases lie: the code compares
a current owner with one that has been superseded, so two of a kind (and for the monitor three: one running,
one waiting, one starting) exercise every comparison. Events are combined by two or three: more events of
the same kinds repeat the same steps.

| Run | Instance | States | Shows |
|---|---|---|---|
| `connection_safety` | HID and WiFi; two loops of two attempts, two clients, one receiver, two cleanups; connects, disconnects, losses, monitor-only, refreshes, gaps; one or two suspends with a gap, a disconnect or a loss | 980,197 | `OneReconnectLoop`; `QuietWhenAskedTo`; `StaleAttemptSparesOthers` |
| `connection_live` | HID; one loop, one client; eight mixes: a connect beside a suspend, the monitor-only switch or a gap, a refresh beside a suspend, the switch or a loop at start, a disconnect beside a suspend or a loop at start; fairness | 258,263 | `RequestsReturn`; `ResumeReopens` |
| `monitor_lifecycle` | three goroutines; two suspends with a gap, a commit and a panic; or one suspend with a commit, a panic and Stop; fairness | 124,376 | `OneMonitor`; `MonitorComesBack` |
| `speed_control` | four levels, automatic targets 1 and 2, manual 3, safe 4; `CoolingTicks` 2, threshold 3 as in the code; five mixes; fairness | 446,650 | `QueuedIsServed`; `SafetyPrevails`; `SettledDemandIsMet` |
| `noise_diagnostic` | two clients, up to two sessions, seven mixes; fairness | 268,574 | `SessionsStand`; `ControlComesBack` |
| `learning` | three curves, five mixes of readings, edits, pauses and restarts | 87,691 | `QuietLearningIsEarned`; `LearnedIsUsed`; `UserEditsHold` |
| `config_store` | three requests at once in five combinations of kinds, two failed writes, one crash, with no file, with files of an old version, or with a torn file and the settings of a first version | 849,556 | `RevisionNamesCopy`; `LearningIsCurrent`; `RunsOnWhatIsStored`; `NothingElseLosesChanges` |
| `ipc` | two calls, three links, two broadcasts, queues of one; a stop, a death, a stalled write, a timer or the watchdog; fairness | 212,234 | `EventsInOrder`; `HealthyIsKept`; `CallsReturn`; `StopClosesAll`; `RefinesCalls` |
| `bridge` | the monitor, its recovery and one client that restarts PawnIO, stops or reads; two processes, two faults; fairness | 1,206,058 | `NoOrphan`; `AnswerMatches`; `TemperatureReturns` |
| `wire` | up to three goroutines in ten combinations, two slots, images of two blocks, three faults; fairness | 1,561,925 | `SlotsApart`; `ConfirmedIsDone`; `RejectedIsResent`; `CallsEnd` |
| `panel` | three flows, two gears, three tries, six mixes of toggles, choices, failures, unplugs, crashes | 1,366,814 | `DarkIsRecorded`; `ScreenComesBack`; `DeviceAsChosen` |
| `wifi` | three flows and the health monitor, two heartbeat loops, two endpoints, thresholds 3 as in the code, two scans, three candidates, two workers, eleven mixes; fairness | 223,193 | `OwnData`; `AutoStays`; `BlockStopsWrites`; `ScanStops`; `GoneIsNoticed`; `EverythingReturns` |

What the properties say, in a sentence each, stands above each definition. Bounds that need a word:

* *Connection.* `MaxAttempts` 2 lets a loop fail, wait and try again; the code's longer delay list repeats
  the same step. `FailureThreshold` 2 is the smallest value at which one failed check is not enough. Loops,
  clients and cleanups are symmetric in the safety run; the liveness run uses no symmetry. Its mixes put
  every kind of request beside every kind of event that takes what the request waits for: a suspend and its
  cleanup, a resume recovery, the monitor-only switch, a loop at work.
* *Speed.* The safe speed lies two levels above the higher automatic target, so that the ramp takes several
  ticks and can be interrupted. `CoolingTicks` 2 or one more makes the interval swallow steps of the ramp,
  takeovers and requests; what that does to the last of them is excepted by name (`gaps`, section 5). The
  mixes combine telemetry that comes and goes with failing writes, with requests and with a restored snapshot.
* *Learning.* The constants are the code's in a unit of 10 RPM and scaled ticks. The readings are chosen so
  that 57 °C and 66 °C lie below and above the comfort band and in one bucket of one curve, differ by a
  jump, and that two powers are close while a third is not; `Short` has fewer points, so that stored offsets
  have the wrong length.
* *ConfigStore.* Three requests suffice for every pair of kinds with a third in between; two failures make
  both places fail; one crash may fall between any two steps.
* *Ipc.* Queues of one make the full queue an everyday case. Three links allow a first connection, its
  replacement and one more.
* *Bridge.* Two processes are one being reaped and one starting. Two faults are a fault of a helper and one
  during the recovery from it.
* *Wire.* A late queue of one overflows with the second late answer. In the mix of a switch that goes on, off
  and on again a late answer can have the value another call wishes.
* *Panel, WiFi, noise.* The mixes combine a takeover, a connection or a lease with each of its disturbances,
  and with each other where the code shares state. In the WiFi mixes heartbeats and health checks recur as
  long as the behaviour lasts.

Deadlock checking is on for `connection_safety`, `connection_live` and `speed_control`. In the others the
actors really end: the requests have been served, or the process has stopped.

**Fairness**, and why the code justifies it.

* *Connection*: goroutines that have been started run, and are blocked only by mutexes that others release.
  Go's mutexes hand over to a waiter after a millisecond of starvation, so a waiter that is enabled again and
  again gets its turn: strong fairness. `FairSpec` has it for every goroutine; the run `connection_live` needs
  less (`LessFairSpec`): strong fairness of a request, weak fairness of every other goroutine.
  `SF(OpenConnects)` and `WF(LinkReturn)` are assumptions
  about the world, needed because no program can promise that a device answers: a reachable device answers
  one of ever more attempts, a lost one comes back. `WF(ResumeNotice)`: a suspended machine wakes up. Users,
  gaps and losses are not fair.
* *Monitor*: weak fairness for steps that stay enabled; the recovery and the health check are strongly fair,
  since their steps come and go with flags and free goroutine slots.
* *Speed, noise*: the ticker fires, the worker and the timers run, a request that has begun goes on.
* *Ipc*: weak fairness of the two processes as a whole, `WF(Gui \/ Core)`. No timer is fair: `CallsReturn`
  shows that a call also returns when no timeout fires, because every lost connection is noticed.
* *Bridge*: the monitor's own steps weakly, other callers strongly (they wait for mutexes the monitor takes
  again and again), a helper that is alive answers, a cooldown ends. Deaths, slow starts and mute helpers
  are not fair, and bounded.
* *Wire*: some step of the program or an answer of the cooler is taken while one is possible. Every wait has
  a timer, which is part of the waiting step.
* *WiFi*: each caller, heartbeat loop and worker runs, tickers tick, a request ends by its time limit, a
  scan by its own. No fairness makes a controller answer.

**Refinement.** `RefinesCalls == Abstract!CallsSpec` in `Ipc` is checked as a property of the run `ipc`:
under every mixture of stops, deaths, stalls and timers each step of the detailed model is a step of `Calls`
or leaves it unchanged. `Ipc_proofs` proves the same for every value of the constants (section 6).

## 5. Promises the code does not keep

The following is stated in the modules, follows from comments, documents or the purpose of the code, and
fails. The configurations lie beside the runs and find the trace in seconds: `tlc -config X.cfg MCModule`.

| Configuration (module), property | Behaviour |
|---|---|
| `wifi_after_resume` (MCConnection), `ResumeReopens` | A suspend blocks writes; only a finished connect lifts the block; `Manager.Connect`, the only way to a WiFi or serial device, refuses while it is set. Such a device is not connected again after a resume. |
| `disconnect_asleep` (MCConnection), `DisconnectHoldsAsleep` | A manual disconnect during a suspend or a resume recovery is undone by the recovery. |
| `cancelled_loop` (MCConnection), `CancelledLoopSparesOthers` | A loop that was cancelled while it waited for `connectMutex` disconnects before it looks at its context, and takes down the connection of the manual connect that cancelled it. |
| `resume_dropped` (MCMonitorLifecycle), `AwakeIsMonitored` | A resume notice within 15 s of the last recovery is dropped although another suspend lies in between; the machine is awake, and its monitor is not. |
| `custom_overwritten` (MCSpeedControl), `CustomHolds` | A routine target that the push worker has taken, or a tick that has already copied the configuration, is written over a custom speed set meanwhile. And a custom speed set within 5 s of the last write is skipped and reported as accepted. |
| `retention_restart` (MCConfigStore), `RetentionSurvives` | The temperature history is made with the retention of the defaults; the stored one is loaded later (`app.go:242`). |
| `partial_upload` (MCWire), `UploadIsWhole` | A late flow answer shifts the count, and an upload is reported complete that lacks a block. |
| `safety_delayed` (MCLearning), `SafetyIsImmediate` | A hot window that completes a long-term run of cooler ones is averaged with them; the safety correction waits for the next window, although the comment on `AllowsLongTermOffsetLearning` and the notes of release 2.6.0 promise an immediate one. |
| `screen_lost` (MCPanel), `ScreenIsNotLost` | Host control is switched on while its end is still being worked on: the restoration clears the record of the new takeover, and the screen stays dark. |

Without a configuration of their own, to be put in the place of the properties of the configuration named:
`DisconnectHolds` (connection_safety with a mix of one disconnect, two suspends and two gaps) and
`SuspendIsQuiet` (with one suspend and one refresh), both explained in section 6;
`LostDeviceReturns` (cancelled_loop with `FairSpec` and `Budgets <- DropMix`: a loss reported between the
check of a reconnect attempt and the publication of its result, `system_device.go:335`, leaves the core's
flag set and the manager's clear, and every path that could reconnect looks at the core's flag and stops);
`ReadsOwnSlot` (partial_upload with `Blocks = 2`, `MaxFaults = 1`, `Mixes <- ReadMixes`: a plain read of one
lighting mode takes the late block of another one); `NeverStuck` (screen_lost: a target decided under host
control is written after host control was left, and the cooler stays in the fixed form); `RestoreKeepsGear`
(screen_lost with `Mixes <- RestoreMixes`: restoring a snapshot writes the curve of every gear, and writing
a curve selects it, so the cooler ends in the last gear and not in the chosen one);
`AutoTakesOver` (custom_overwritten with `CoolingTicks = 3`, `Budgets <- OneGap`: the target with which
automatic control takes over from a fallback falls into the write interval, is skipped, reported as written
(`blackshark_hid_windows.go:419`), and not sent again while the demand stays, so that the cooler keeps the
fallback's speed; the reassert that was to prevent this returns early, `blackshark.go:914`);
`StaleClosesOnlyOwn` (cancelled_loop with `Transports = {"wifi"}`: a loop that waits for `connectMutex` while
a manual connect cancels it is told that the handle is open already, `manager_wifi.go:132`, takes it for its
own success, is found overtaken and closes the connection of that connect);
`ResumeAlwaysReopens` (connection_live: a connect that publishes what a suspend has closed leaves the core
convinced that it is connected, and a native device can pass for a compatibility one, which no loop looks
for; `ResumeReopens` excepts both by name);
`EveryHelperIsHeld` (bridge: a start that finds no helper just before another start publishes one publishes
over it, `bridge.go:265`, and the first process lives on, reached by nobody);
`LateAnswerHolds` (partial_upload with `Blocks = 2`, `Mixes <- SwitchMixes`, as PROPERTY: a switch goes on,
off and on again, the last write is lost, and the read-back takes the late "on" of the first: the user is
told "on" while the cooler is off, `blackshark_hid.go:439`);
`ScanTimeStays` (config_store: a settings update completes the time of the last scan before it takes the
lock); and under `WifiSpec` with wifi.cfg's constants `HeartbeatsAreOwn` (a late report of a stopped
heartbeat counts for the new connection, `wifi.go:694`), `StaleCallSparesOperations`
(`disconnectWithGeneration` cancels the active operation before it compares the generation),
`OptionIsBlocked` (power-on, start-stop and standby writes look at neither barrier nor operation, while
`write_barrier.go:3` says new writes are rejected), `AutoIsKept` (a late "manual" report looks like a turned
knob) and `QuietScans` (a cancel between the claim and the reset of a scan is lost).
`CleanupSparesReconnect` (Connection) and `SuspendedIsStopped` (MonitorLifecycle) do not hold either; the
code repairs both situations later.

Seen while modelling, and described here because no property is about them:

* *Panel*: the gap of an image transfer between its end and `done()` (`coreapp/blackshark.go:1732`) lets a
  monitor resume in between; a refresh that began before a switch was confirmed overwrites the cached state;
  in manual mode `reassertBlackSharkInverterGear` returns before the fixed form its comment promises.
* *WiFi*: a refresh read before a speed write may be stored after it; `DisconnectForRecovery` has no
  generation and a reconnect does not reset the count of failed health checks; a switch whose save fails
  leaves the manager connected to the new controller until the health check reconnects; a dynamic recovery
  scan has no control.
* *Learning*: the smoothing that follows a correction above the ceiling can lower that bucket's own offset
  ([17, 43, 17] + 20 gives 41); a pause inside a window does not count as a gap; the client's overlay of
  learned offsets in `UpdateConfig` wins over newer learning; unsaved offsets are dropped when another
  change moves the revision.
* *Configuration*: `SetManualGear` and `SetCustomSpeed` store whole snapshots; after a fall-back to the
  user's directory the older portable file is preferred at the next start (`NothingElseLosesChanges` excepts
  both by name); `SaveNoiseDiagnosticResult` reports a change when its gated mutation changed nothing.
* *Wire*: `rememberRgbBlockLocked` files whatever block answered under the slot asked for; a stale
  acknowledgement counts for a newer write (the value read back tells).
* *IPC*: requests of one client run concurrently, so a timed-out write may be executed after a later one; a
  call still under way after `QuitAll` may start the core again.
* *Monitor, speed*: the commit of a manual connect lifts a write block just stored; a stop before a spawned
  monitor has begun is lost; the host-info push is switched off after the mutex; a manual gear goes through
  a deadband that does not know of a custom speed; a cancelled queued push is never reported; a
  snapshot restored in manual or custom control leaves `lastPushed` as it was, and the deadband then skips a
  target the cooler has lost.
* *Noise*: a late sweep write in manual control stays; an expired lease is replaced without a restore.

## 6. What is proved

The theorems hold for any sets of actors, any levels, thresholds, files and bounds that satisfy the named
assumptions, and any budget of events: no bound of section 4 applies to them. The exceptions are
`DisconnectStands`, `SuspendStaysQuiet` and `QuietStays`, which state a condition on the mix of events.

| Module | Theorem | Statement |
|---|---|---|
| `Connection_proofs` | `TypeCorrect` | `Spec => []TypeOK` |
| | `OrderHolds` | the inductive invariant `Orderly` |
| | `SingleLoop` | `Spec => []OneReconnectLoop` |
| | `CommitsStand` | `Spec => []CommitIsNotCancelled` |
| | `HandleHolds` | the inductive invariant `HandleInv` |
| | `StaleClosesOwn` | the action property `StaleAttemptSparesOthers` |
| | `MonitorOnlyStaysQuiet` | `Spec => []MonitorOnlyIsQuiet` |
| | `DisconnectStands` | `DisconnectHolds`, if every budget is a `MildBudget` |
| | `SuspendStaysQuiet` | `SuspendIsQuiet`, if every budget is a `CalmBudget` |
| | `QuietStays` | `QuietWhenAskedTo`, if every budget is both |
| `Monitor_proofs` (life cycle) | `LifeTypesHold` | `LifeSpec => []LifeTypeOK` |
| | `MonitorOrder` | the inductive invariant `MonitorInv` |
| | `AtMostOneMonitor`, `FlagIsTrue`, `NoWaiterIsLost` | `OneMonitor`, `FlagTellsTruth`, `WaitersWillWake` |
| `Monitor_proofs` (control tick) | `SpeedOrder` | the inductive invariant `SpeedInv` |
| | `TypeCorrect`, `QueueIsServed` | `TypeOK`, `QueuedIsServed` |
| | `SkipsAreRight` | `MemoryIsTrue`: what the deadband skips the cooler has, unless a gap of memory is noted |
| `Monitor_proofs` (learning) | `LearnTypesHold` | `LearnSpec => []LearnTypeOK` |
| | `LearnOrder` | the inductive invariant `LearnInv` |
| | `QuietIsEarned` | `QuietLearningIsEarned` |
| | `EditsHold`, `LearnedIsTheFans` | the action properties `UserEditsHold`, `LearnedIsUsed` |
| `Monitor_proofs` (noise diagnostic) | `NoiseTypesHold` | `NoiseSpec => []NoiseTypeOK` |
| | `NoiseInvHolds` | the inductive invariant `NoiseInv` |
| | `SessionsHold` | the action property `SessionsStand` |
| | `ChannelsHold` | `ChannelsCloseOnce`: no lease's channel is closed twice, and no expiry goroutine is left behind |
| `ConfigStore_proofs` | `TypeCorrect` | `Spec => []TypeOK` |
| | `ConfigHolds` | the inductive invariant `ConfigInv` |
| | `RevisionsName`, `LearningStays`, `RunsOnStored` | `RevisionNamesCopy`, `LearningIsCurrent`, `RunsOnWhatIsStored` |
| | `KeptHolds` | the inductive invariant `KeptInv` |
| | `ChangesStay` | `Spec => []NothingElseLosesChanges` |
| `Bridge_proofs` | `TypeCorrect` | `Spec => []TypeOK` |
| | `InvariantHolds` | the inductive invariant `IInv` |
| | `NoOrphanHolds`, `AnswerMatchesHolds` | `NoOrphan`, `AnswerMatches` |
| | `OneCommandAtATime` | no two callers wait for the helper at a time |
| `Panel_proofs` | `TypeCorrect` | `Spec => []TypeOK` |
| | `InvariantHolds` | the inductive invariant `IInv` |
| | `DeviceAsChosenHolds`, `DarkIsRecordedHolds`, `ScreenComesBackHolds` | `DeviceAsChosen`, `DarkIsRecorded`, `ScreenComesBack` |
| `Ipc_proofs` | `TypeCorrect` | `Spec => []TypeOK` |
| | `InvariantHolds` | the inductive invariant `IInv` |
| | `EventsInOrderHolds`, `HealthyIsKeptHolds` | `EventsInOrder`, and the action property `HealthyIsKept` |
| | `Implements` | `Spec => RefinesCalls`: the pipe implements `Calls` |
| `Wifi_proofs` | `TypeCorrect` | `WifiSpec => []TypeOK` |
| | `InvariantHolds` | the inductive invariant `IInv` |
| | `OwnDataHolds`, `AutoStaysHolds` | `OwnData`, `AutoStays` |
| | `BarrierHolds`, `CancelledScanStops` | the action properties `BlockStopsWrites`, `ScanStops` |
| | `OneScanAtATime` | one scan at a time has its turn |
| `Wire_proofs` | `TypeCorrect` | `Spec => []TypeOK` |
| | `WireOrder`, `UploadOrder` | the inductive invariants `IInv`, `UploadInv` |
| | `BusIsExclusive` | one caller at a time is on the bus |
| | `SlotsStayApart`, `UploadsAreWhole` | `SlotsApart`, `RejectedIsResent` |
| | `ReadsAreTold` | the inductive invariant `ToldInv` |
| | `ConfirmedWasDone` | `ConfirmedIsDone` |

*Connection.* Assumptions: the kinds of actors are disjoint and `NoOne` is none of them
(`ActorsAssumption`), the bounds are positive (`BoundsAssumption`), the transports are known
(`TransportsAssumption`). `OneReconnectLoop` says that a loop that is not idle is the stored one and the
newest one; it is inductive together with types because a new loop is started only when none is stored, and
the stored one is removed only by its own deferred end. `CommitIsNotCancelled` is not inductive: a
cancellation is excluded only because it needs `reconnectMutex`, so the invariant has to say that a loop in
its commit owns it and that the loop is not cancelled on entry (`CommitOwned`). `Orderly` is the conjunction
of the two. Steps that touch neither the loops nor the mutex are dismissed by one lemma (`OthersMove`); a
request and a cancellation each have one (`RequestKeepsOrder`, `CancelKeepsOrder`).

`HandleInv` says whose handle is open. `connectMutex` is held from before a connect call until a loop has read
the generation of what it opened (`MutexHeld`), so what a loop may later close by that generation is what
`Manager.Connect` told it last that it had (`OpenersKnown`, `ToldLast`). On a native transport that is a
handle it has opened itself. On a compatibility transport it may be one that was open when it came, and
`StaleAttemptSparesOthers` excepts it: the opener is kept in `openedBy`, who was told of it in `adoptedBy`. A
request closes what was open before it connects and never adopts a handle. `ModeInv` is the argument for the
monitor-only switch, which looks at the connection once: whoever opens a handle after that look will look at
the mode himself.

A disconnect and a suspend rest on the same fact, that an open handle has somebody who is about to close it
(`HandleLet` in `DisconnectInv`, `SuspendLeaves`). For a disconnect one must also know what may lift its
suppression: a resume with something to come back to, which a suspend after a disconnect does not leave
behind (`DisconnectKept`). That is not so in every mix of events. `onSystemSuspend` sets `systemSuspended`
first and stores `resumeReconnectWanted` later (`system_device.go:613-628`); a recovery set off by a gap may
swap both in between, so that what the handler then stores outlives this suspend, and when the next one is
overtaken too, its recovery finds it and lifts the suppression. A `MildBudget` has at most one suspend, or no
gaps. A `CalmBudget` has no connect or refresh request beside a suspend: `ConnectDevice` and
`RefreshDeviceSettings` do not look at `systemSuspended`, and a refresh that began before publishes the
connected state over the suspend's. With two suspends and two gaps, or a refresh beside a suspend, TLC shows
both. The budgets of `connection_safety` satisfy both conditions.

*MonitorLifecycle.* "At most one is alive" says too little to be inductive: begin registers itself only if
nothing is registered. `Registered` (alive means registered), `Flagged` (the flag is set exactly when
something is registered), `StoppingIsCancelled` (a monitor marked as stopping has been cancelled) and
`WaitersWaitForTheStopped` (who waits does so for a monitor that is alive and cancelled) are; the three
results follow.

*SpeedControl.* `QueuedIsServed` is inductive with types; for the types themselves one needs that a worker
about to write has taken a target (`WorkerHasTarget`), and that the levels have no gaps
(`LevelsAssumption`), so that a ramp step ends on a level (`RampStaysOnCurve`). `MemoryIsTrue` is inductive beside
them: `lastPushed` and the cooler part only where a speed is given behind the host's back, and that is noted.

*Learning.* Assumptions: base curves are those the configuration lets in (`FanCurves`, from
`ValidateFanCurveForUnit`), windows and delays are within the limits the configuration normalises them to,
the longest duration is above the shortest, and a step above the ceiling raises the fan while one below the
comfort band lowers it or leaves it (`LearningAssumption`); cap, pull, passes and radius of the smoothing are
any (`SmartCurveAssumption`). `LearnInv` has three parts. Offsets are `Learned`: each is within the cap, keeps
its point between the curve's ends and obeys the bias. Every way to new offsets keeps that (`LearnFits`,
`NormalizeFits`, `ZeroFits`), and after a step they also rise with the curve (`Rising`), because raising a
point to its left neighbour never leaves its limits nor goes against the bias (`RaisedFits`); what is learned
and rising the effective curve does not clip (`NothingClipped`), which is `LearnedIsUsed`. `CopyIsOlder`: with
the revision of the configuration the monitor's copy has its curve, bias and epoch, so a save that is not
refused brings back nothing older; this is `UserEditsHold`. `EvidenceCounts`: the samples and the time a
bucket has had since it was last disturbed cover its windows and samples, unless there were enough already
(`Counted`); a jump empties both, time ages both alike (`AgedCounted`), and the window that makes the
aggregate ready therefore has all of it behind it (`ObservedCounts`).

The recursion in these operators (the smoothing passes, the monotone pass, the fold under a mean) is over
finite intervals. The library's induction rules take an operator and cannot be used, but that an interval's
non-empty subsets have a last element follows from the well-foundedness of the subsets of a finite set
(`LastOne`). From it come induction over a set of numbers (`Climbs`) and the existence of a function defined
by steps (`Buildable`, `Builds`); a definition by `CHOOSE` then has the values its equation gives.

*ConfigStore.* "While the revision has not moved, the copy is what the manager holds" is not inductive:
during a save memory already holds the new value under the old revision, and a failed save takes it back.
`ConfigInv` therefore speaks of the *settled* configuration, which is the one a failed save would return to
while a save is under way and the one in memory otherwise: a gated request whose revision is current has a
copy of it (`CopyNamed`), some file or the defaults hold it (`SettledStored`), and only the call that saves
holds the lock (`LockHeld`). The three results follow between writes, where settled and current are the
same. `NothingElseLosesChanges` compares the configuration with what was stored last, and needs `KeptInv`
beside it: what was stored last is settled (`KeptSettled`) and is what the next start finds, unless a save
was diverted to the user's directory (`KeptStored`); a save under way changes one field (`SavesOneField`),
because a whole snapshot whose revision is current is the settled configuration with that field changed
(`SnapshotsKnown`), and so is the copy of the front end, from which a settings request starts (`GuiKnown`).
A file that is missing or torn must not be taken for a configuration (`FilesAssumption`).

*Bridge.* Assumptions: callers, processes and their "nobody" are different things, every client wishes
something it can ask for (`WishAssumption`). `NoOrphan` is inductive with types once the start goroutine is
known to have a process exactly from the spawn to the end of its handshake or publication (`StarterHasProc`);
it excepts the helper that a second start has published over (`lost`). `AnswerMatches` is not: that the next
answer on the pipe belongs to the caller who reads it depends on what was left behind by the callers before.
`Exchange` says it for the whole pipe: who waits holds `m.mutex` (`MutexHeld`), there is a helper to wait for
(`HelperKnown`), and each helper's two pipes are empty or hold exactly the command, or the answer, of the one
caller that waits for it (`Pipes`). A command that times out therefore has to take the helper with it, which
is what `failBridgeUnsafe` does. Most steps are dismissed by one lemma: they leave the exchange `Quiet`.

*Panel.* Assumption: at least one gear and one try, budgets that are numbers (`PanelAssumption`). What the
three properties say of a device at rest is a promise about flows still under way, so the invariant names
who will keep it. `GearKept`: outside host control the cooler runs on the chosen gear's curve, or a flow or
a target of the host that will see to it is still to come (`GearToCome`). `RecordKept`: wish, record and
screen agree (`ScreenRecorded`), one flow at a time is between reading the record and writing it
(`OneActive`), and what that flow has read is still true (`FlowKnows`). `ReturnKept` does for the way back
what `GearKept` does for the gear, and needs that only a flow that leaves host control has the screen to
restore after the gear (`ThenRestores`). Each is stated under the slips its property excepts (`Without`),
and no more.

*Ipc.* Assumptions: a call has two attempts, numbered 1 and 2 (`RequestsAssumption`), links are numbered
from 1 in the order they are dialled (`LinksAssumption`), queues and semaphores have room for one at least
(`ConcurrentAssumption`), events are told from responses (`BroadcastsAssumption`), calls are reads, writes
or nothing (`ScenariosAssumption`). Three parts hold each other up. `CallsInv`: a handler that runs or has
answered had its request read from a link (`ServerKnows`), a request is on one link once and is sent only by
its own call at that attempt (`SentOnce`, `SentByCall`), a second attempt is a read's (`CallKnown`), the
number of executions is the number of handlers that have run (`RunsCounted`), and a response, on its way or
delivered, means one has (`Answered`). `LinksInv`: links not yet dialled are fresh, and what a call, a read
loop and a waiting response remember of a link is true of it. `EventsInv`: events of one link are
queued, written, read and handled in that order and once (`EventsOnce`), and every event handled lies
behind those still on the way (`EventsBehind`). `HealthyIsKept` and the refinement use them: a step maps to
`Begin`, `Execute`, `Succeed` or `Fail` of `Calls` or to a stutter, and that a write succeeds only after it
has been executed, once, is `Answered` and `RunsCounted`.

*Wifi.* Assumptions: the health monitor is no flow and "nobody" is no caller (`CallerAssumption`), home is
an endpoint and "away" is none (`PlaceAssumption`), thresholds and attempts are positive
(`NumberAssumption`). `OwnData` is inductive only with who holds `m.mutex`: a speed write stores what it
read back without looking whether a connection stands, which is right because the mutex it holds keeps the
connection (`HolderKnown`). `BarrierKnown` is the argument for the write barrier: a request that has passed
both looks is, while the barrier is up, either about to be cancelled or cancelled and waited for. Hence the
second look of `Check`: without it a write that had not begun when the barrier cancelled would pass.
`ModesInOrder` is the one for the automatic control: until somebody turns the knob the states read go from
manual to software and not back, also in the order they wait to be told, so that "manual" told after
"software" was read before it (`slip`). A cancelled scan asks nobody: its
control stays cancelled until the next scan resets it (`ScanInv`), and that scan has its turn only after the
answer of this one (`OneScanAtATime`).

*NoiseDiagnostic.* Assumptions: requests, sessions, core and monitor are different goroutines, requests are
finitely many, and no mix begins more often than there are sessions. `SessionsStand` needs little besides
types: an end that names no session is the core's own (`Proper`). The types need more, since a session is a
number: everybody between the read of the configuration and the lease has paid for a place
(`LeasesBounded`), so that there is a session to take. `ClosedIsGone` (a session's channel is closed exactly
when its lease is gone) is inductive because the lease changes hands under the mutex that closes the channel; it
gives `ChannelsHold`. That the fan is the user's again in the end (`ControlComesBack`) is liveness and stays with TLC.

*Wire.* Assumptions: "nobody" is no caller (`CallerAssumption`), slots and blocks are counted from 1
(`SlotAssumption`), late queues have room for one (`BoundAssumption`), and a lighting wish names a slot the
cooler has, as the lighting functions check first (`MixesAssumption`). `BusInv`: a caller has one ticket,
drawn for what it waits for or does, and whoever exchanges frames is the first. `SlotsApart` is not
inductive, because what is written next may have been read, stored as late or remembered long before. Who
holds it, and in which step, does not matter, though: every frame that names a slot (on its way, delivered,
late, in a call or in the cache) has only values wished for that slot (`Good`), and an edit changes one
field of such a block. What it needs besides is that the answer a call has got is of the kind it asked for
(`CallKnown`). For `RejectedIsResent`, while nothing was missed and nothing has failed (`Clean`): at most one
block or flow answer is under way (`OneUnderWay`), it belongs to the registered upload at its present step
(`OfItsUpload`), and the blocks before that step are on the cooler (`SentSoFar`). A single missed answer
breaks it, which is the behaviour `partial_upload` shows.

`ConfirmedIsDone` needs that nothing is read back before it was carried out. `ToldInv` says so of every
frame: an answer to a query, a remembered block and what is written back as it was read have only values
that the cooler took from a caller that asked for them, or had from the start (`FieldDone`, `SwitchDone`); a
write may also have what its own caller asks for (`Right`). These sets only grow (`RightStays`), so a late answer
stays right. So a confirmed value was carried out for somebody
who wished it, or the cooler had it from the start; a call whose wish nobody shares is confirmed by its own
write. It need not be what the cooler has now: `LateAnswerHolds` (section 5) shows a call confirmed by what an
earlier one did, while the one between them has undone it.

`CommitIsNotCancelled`, `FlagTellsTruth`, `WaitersWillWake`, `ChannelsCloseOnce`, `OneCommandAtATime`, `OneOnTheBus` (the
statement of `BusIsExclusive`) and `OneScanAtATime` are steps of these arguments rather than questions a run asks, and are only proved.

## 7. Only model-checked, and not modelled

Only model-checked: all liveness properties, since the prover has no rules for fairness and ENABLED
(`SafetyPrevails`, `MonitorComesBack`, `ControlComesBack`, `RequestsReturn` and their like). `QuietWhenAskedTo`
excepts what section 5 says of a disconnect during a suspend, and holds only under the conditions of
section 6.

Abstracted: the contents of frames, names and settings; delays (a step may be late); the number of devices
(one known device per installation, as one reconnect loop handles one); BLE discovery and candidate ranking;
the curve, light-strip and host-info effects of a commit; the frames of one speed write, which are under one
mutex. In `SpeedControl` prediction and learning are the environment's choice of a demand. In `Wifi` a
request that was given up is assumed not to arrive later, the order of candidates is open, and the
controller starts in manual mode. In `Wire` the device answers a block request once, and the check of an
image's metadata echoes size and checksum (external: the firmware). In `Panel` the firmware's refusal to
light the screen in the fixed form is external.

Not modelled, and why. Together these are the greater part of the implementation's lines; the modules stand
for about a seventh of it, the part in which the order of events decides.

| Part | Why |
|---|---|
| `deviceproto/`, FlyDigi HID and BLE frames, `device/rgb.go` | pure encoding and parsing, one input to one output, covered by table tests; no state two actors share beyond `m.mutex` |
| `deviceprofileexec/` BLE and serial executors, templates and response parsing | data-driven I/O sequences of one caller; their retries are those of the HTTP transport, which `WifiRuntime` has |
| `types/`, `theme/`, `deviceprofiles/`, `curveprofiles/`, `screenimg/` | declarations, defaults, normalisation and image conversion |
| rise prediction, ramp limit, unit conversions of `smartcontrol/` | pure functions with table tests |
| tray, hotkeys, plugins, notifications, `autostart/`, updates, diagnostics export | wiring to the operating system; each calls operations that are modelled |
| temperature history | an append-only buffer with its own lock |
| `guiapp/` but for its IPC client and watchdog, the front end | presentation |
| TempBridge, the C# helper | external; the environment of `Bridge` |
| the serial transport, `Configure`, `userSetAutoControl`, `IgnoreDeviceOnReconnect` | the first shares refresh and disconnect with WiFi; the second is not called in production; the others are filters before modelled operations |
| the `0xC7`/`0xC8` read-back, reset and one-register queries of a Black Shark | the same exchange as the ones in `Wire`; reconnects under an exchange are in `Connection` |

## 8. Plan

1. **Proofs**: that the fallback ramp moves one level towards the safe speed and never past it.
2. **SpeedControl, the rest**: the synchronous write with readback of FlyDigi devices under the safety
   fallback.
3. **Panel under manual control**: the fixed form of a custom speed and of a manual gear together with
   screen and gears, and the image transfer's end against the resume of the monitor.
4. **SmartCurve**: prediction and the ramp limit as operators, against reference definitions.
5. **Composition**: `Bridge` with `MonitorLifecycle` (a recovery that is under way while the monitor is
   stopped), and `ConfigStore` with `Learning` (a revision that moves while a correction waits to be saved).
