----------------------------- MODULE Connection -----------------------------
(***************************************************************************)
(* Who connects and who disconnects the cooler: the part of                *)
(* internal/coreapp that turns link losses, power events, user requests,   *)
(* health checks and monitor-only mode into calls of the device manager.   *)
(*                                                                         *)
(* Every goroutine is an actor with a program counter.  A step is atomic   *)
(* where the code is: it takes at most one lock it does not already hold,  *)
(* and two reads or writes are put in one step only when no other actor    *)
(* could act on the difference.  Time is abstracted: a delay, cooldown or  *)
(* poll interval is a step that may be late.                               *)
(*                                                                         *)
(* Three mutexes order the actors: reconnectMutex (start, cancel and       *)
(* commit of automatic reconnects), connectMutex (one connect at a time)   *)
(* and the manager's own m.mutex.                                          *)
(***************************************************************************)
EXTENDS DeviceManager, Naturals, FiniteSets

CONSTANTS
    Loops,      \* reconnect goroutines that may exist at one time
    Clients,    \* concurrent IPC requests
    Receivers,  \* goroutines that report a lost handle
    Cleanups,   \* suspend-cleanup goroutines
    Power,      \* the OS power callback
    Recovery,   \* the systemResumeRecovery goroutine
    Health,     \* the health-monitor goroutine
    Mode,       \* the request that turns monitor-only on
    MaxAttempts,         \* bound: attempts of one reconnect loop
    FailureThreshold,    \* healthConsecutiveFailureThreshold
    Budgets              \* bound: how often each event of Events may occur, in one
                         \* of several mixes

Events == {"startup", "suspend", "gap", "drop", "connect", "disconnect", "refresh",
           "reconfigure", "monitor_only"}

Actors == Loops \cup Clients \cup Receivers \cup Cleanups
            \cup {Power, Recovery, Health, Mode}

ASSUME ActorsAssumption ==
    /\ Loops \cap Clients = {} /\ Loops \cap Receivers = {} /\ Loops \cap Cleanups = {}
    /\ Clients \cap Receivers = {} /\ Clients \cap Cleanups = {} /\ Receivers \cap Cleanups = {}
    /\ \A s \in {Power, Recovery, Health, Mode} :
          s \notin Loops \cup Clients \cup Receivers \cup Cleanups
    /\ Cardinality({Power, Recovery, Health, Mode}) = 4
    /\ NoOne \notin Actors

ASSUME BoundsAssumption ==
    /\ MaxAttempts \in Nat \ {0}
    /\ FailureThreshold \in Nat \ {0}
    /\ Budgets \subseteq [Events -> Nat]

VARIABLES
    coreConnected,   \* a.isConnected
    suppressed,      \* a.autoReconnectSuppressed
    suspended,       \* a.systemSuspended
    wanted,          \* a.resumeReconnectWanted
    monitorOnly,     \* a.monitorOnly
    hasSuccess,      \* a.hasSuccessfulConnection
    lastNative,      \* a.lastConnectionWasNative
    recoveryCooling, \* less than systemResumeRecoveryCooldown since the last recovery
    healthFailures,  \* a.healthConsecutiveFailureCount
    connectMutex,    \* owner of a.connectMutex
    reconnectMutex,  \* owner of a.reconnectMutex across a commit
    reconnectCancel, \* the loop whose cancel function is stored; inProgress with it
    generation,      \* a.reconnectGeneration: the loop started last
    cancelled,       \* the loops whose context is cancelled
    suspendHolders,  \* the actors whose copy of suspendGeneration is current
    pc,              \* where each actor is
    attemptsLeft,    \* delays a loop has not used up
    attemptOk,       \* result.connected of a loop's attempt
    resume,          \* the locals of handleSystemResume
    asleep,          \* environment: a resume notice is still owed
    userOff,         \* history: see the section on history below
    budget           \* bound: events that may still occur

coreVars == <<coreConnected, suppressed, suspended, wanted, monitorOnly,
              hasSuccess, lastNative, recoveryCooling, healthFailures>>
lockVars == <<connectMutex, reconnectMutex>>
loopVars == <<reconnectCancel, generation, cancelled, attemptsLeft, attemptOk>>
powerVars == <<suspendHolders, resume, asleep>>
histVars == <<userOff, budget>>

vars == <<managerVars, coreVars, lockVars, loopVars, powerVars, histVars, pc>>

Steps == {"idle", "exit", "check", "wait", "attempt", "open", "opening",
          "capture", "complete", "stale", "finish", "publish", "query", "ready",
          "release", "lock", "switch", "manual", "unpublish", "close", "reconcile",
          "barrier", "cancel", "resume", "read", "refresh", "lost", "request", "reconnect"}

CoreTypeOK ==
    /\ coreConnected \in BOOLEAN /\ suppressed \in BOOLEAN /\ suspended \in BOOLEAN
    /\ wanted \in BOOLEAN /\ monitorOnly \in BOOLEAN
    /\ hasSuccess \in BOOLEAN /\ lastNative \in BOOLEAN
    /\ recoveryCooling \in BOOLEAN
    /\ healthFailures \in 0 .. FailureThreshold - 1

LockTypeOK ==
    /\ connectMutex \in Loops \cup Clients \cup {NoOne}
    /\ reconnectMutex \in Loops \cup {NoOne}

LoopTypeOK ==
    /\ reconnectCancel \in Loops \cup {NoOne}
    /\ generation \in Loops \cup {NoOne}
    /\ cancelled \subseteq Loops
    /\ attemptsLeft \in [Loops -> 0 .. MaxAttempts]
    /\ attemptOk \in [Loops -> BOOLEAN]

PowerTypeOK ==
    /\ suspendHolders \subseteq Cleanups \cup {Power}
    /\ resume \in [proactive : BOOLEAN, wanted : BOOLEAN, force : BOOLEAN]
    /\ asleep \in BOOLEAN

HistTypeOK ==
    /\ userOff \in {"no", "awake", "asleep"}
    /\ budget \in [Events -> Nat]

PcTypeOK == pc \in [Actors -> Steps]

TypeOK ==
    /\ ManagerTypeOK(Actors) /\ CoreTypeOK /\ LockTypeOK /\ LoopTypeOK
    /\ PowerTypeOK /\ HistTypeOK /\ PcTypeOK

NoResume == [proactive |-> FALSE, wanted |-> FALSE, force |-> FALSE]

Init ==
    /\ ManagerInit
    /\ coreConnected = FALSE /\ suppressed = FALSE /\ suspended = FALSE
    /\ wanted = FALSE /\ monitorOnly = FALSE
    /\ hasSuccess = FALSE /\ lastNative = FALSE
    /\ recoveryCooling = FALSE /\ healthFailures = 0
    /\ connectMutex = NoOne /\ reconnectMutex = NoOne
    /\ reconnectCancel = NoOne /\ generation = NoOne /\ cancelled = {}
    /\ suspendHolders = {}
    /\ pc = [a \in Actors |-> "idle"]
    /\ attemptsLeft = [l \in Loops |-> 0]
    /\ attemptOk = [l \in Loops |-> FALSE]
    /\ resume = NoResume
    /\ asleep = FALSE
    /\ userOff = "no"
    /\ budget \in Budgets

-----------------------------------------------------------------------------
(* Shared pieces.                                                          *)

Goto(a, from, to) == pc[a] = from /\ pc' = [pc EXCEPT ![a] = to]

Spend(e) == budget[e] > 0 /\ budget' = [budget EXCEPT ![e] = @ - 1]

\* A short critical section of reconnectMutex: the mutex is free and is given
\* back in the same step.
ReconnectMutexFree == reconnectMutex = NoOne

\* cancelReconnect: the running loop's context is cancelled; its cancel
\* function stays stored until the loop itself removes it.
CancelReconnect ==
    /\ ReconnectMutexFree
    /\ cancelled' = cancelled \cup ({reconnectCancel} \ {NoOne})

\* requestReconnect is refused without an error.
RequestIgnored == monitorOnly \/ suppressed \/ suspended

\* Mutant: a cancelled loop does not count.
LoopStored_UnlessCancelled == reconnectCancel # NoOne /\ reconnectCancel \notin cancelled

\* The cancel function of a loop is stored: there is a loop already.
LoopStored == reconnectCancel # NoOne

\* requestReconnect with n delays.  "moved" is pc after the caller's own move.
\* A request that finds a loop is merged into it; the wake it may send only
\* ends the current delay early.
RequestReconnect(n, moved) ==
    \/ RequestIgnored /\ UNCHANGED loopVars /\ pc' = moved
    \/ /\ ~RequestIgnored
       /\ ReconnectMutexFree
       /\ LoopStored
       /\ UNCHANGED loopVars /\ pc' = moved
    \/ /\ ~RequestIgnored
       /\ ReconnectMutexFree
       /\ ~LoopStored
       /\ \E l \in Loops :
             /\ pc[l] = "idle"
             /\ reconnectCancel' = l
             /\ generation' = l
             /\ attemptsLeft' = [attemptsLeft EXCEPT ![l] = n]
             /\ UNCHANGED <<cancelled, attemptOk>>
             /\ pc' = [moved EXCEPT ![l] = "check"]

\* requestStartupReconnect.
Startup ==
    /\ Spend("startup")
    /\ RequestReconnect(MaxAttempts, pc)
    /\ UNCHANGED <<managerVars, coreVars, lockVars, powerVars, userOff>>

-----------------------------------------------------------------------------
(* A connect call and the commit that follows it: used by the reconnect    *)
(* loops and by the IPC requests, both of which hold connectMutex here.    *)

Connectors == Loops \cup Clients

\* reconnectTransport: which transports a loop tries.  A request names its
\* candidate, so it always tries the right one.
Tries(a) ==
    \/ a \in Clients
    \/ IsNative /\ (~hasSuccess \/ lastNative)
    \/ ~IsNative /\ ~lastNative

Outcome(a, ok) ==
    IF a \in Loops
    THEN attemptOk' = [attemptOk EXCEPT ![a] = ok] /\ Goto(a, pc[a], "capture")
    ELSE UNCHANGED attemptOk /\ Goto(a, pc[a], IF ok THEN "finish" ELSE "release")

\* The call returns without I/O: nothing to try, refused by the write barrier,
\* or the compatibility device is already connected.
OpenAnswers(a) ==
    /\ pc[a] = "open"
    /\ ManagerFree
    /\ \/ (~Tries(a) \/ ConnectRefused) /\ Outcome(a, FALSE) /\ UNCHANGED managerVars
       \/ Tries(a) /\ AdoptOpen(a) /\ Outcome(a, TRUE)
    /\ UNCHANGED <<coreVars, lockVars, reconnectCancel, generation, cancelled,
                   attemptsLeft, powerVars, histVars>>

OpenBegins(a) ==
    /\ Goto(a, "open", "opening")
    /\ Tries(a)
    /\ BeginOpen(a)
    /\ UNCHANGED <<coreVars, lockVars, loopVars, powerVars, histVars>>

OpenConnects(a) ==
    /\ pc[a] = "opening"
    /\ OpenSucceeds(a)
    /\ \/ Outcome(a, TRUE)
       \/ a \in Clients /\ ~IsNative /\ Outcome(a, FALSE) \* commitConfigUpdate failed
    /\ UNCHANGED <<coreVars, lockVars, reconnectCancel, generation, cancelled,
                   attemptsLeft, powerVars, histVars>>

OpenGivesUp(a) ==
    /\ pc[a] = "opening"
    /\ OpenFails(a)
    /\ Outcome(a, FALSE)
    /\ UNCHANGED <<coreVars, lockVars, reconnectCancel, generation, cancelled,
                   attemptsLeft, powerVars, histVars>>

\* finishSuccessfulDeviceConnection, step by step: unblock writes, or give the
\* handle back in monitor-only mode; publish; query; ready.
Finish(a) ==
    /\ \/ /\ monitorOnly
          /\ Disconnect
          /\ Goto(a, "finish", "unpublish")
       \/ /\ ~monitorOnly
          /\ UnblockWrites
          /\ Goto(a, "finish", "publish")
    /\ UNCHANGED <<coreVars, lockVars, loopVars, powerVars, histVars>>

FinishUnpublish(a) ==
    /\ Goto(a, "unpublish", "release")
    /\ coreConnected' = FALSE
    /\ UNCHANGED <<managerVars, suppressed, suspended, wanted, monitorOnly, hasSuccess,
                   lastNative, recoveryCooling, healthFailures, lockVars, loopVars,
                   powerVars, histVars>>

\* setRuntimeConnected and the two facts the next reconnect goes by.
\* GetDeviceType is empty once the handle is gone, which is not native.
FinishPublish(a) ==
    /\ Goto(a, "publish", "query")
    /\ ManagerFree
    /\ coreConnected' = TRUE
    /\ hasSuccess' = TRUE
    /\ lastNative' = (IsNative /\ IsConnected)
    /\ UNCHANGED <<managerVars, suppressed, suspended, wanted, monitorOnly,
                   recoveryCooling, healthFailures, lockVars, loopVars, powerVars, histVars>>

\* RefreshDeviceSettings: QueryDeviceSettings talks to a HID device, which may
\* fail, and answers from the last state read for the other transports.
QueryAnswers(a) ==
    /\ ManagerFree
    /\ IF transport = "hid" THEN handle = "live" ELSE IsConnected
    /\ Goto(a, "query", "ready")
    /\ UNCHANGED <<managerVars, coreVars, lockVars, loopVars, powerVars, histVars>>

QueryFails(a) ==
    /\ ManagerFree
    /\ transport = "hid" \/ ~IsConnected
    /\ Goto(a, "query", "release")
    /\ UNCHANGED <<managerVars, coreVars, lockVars, loopVars, powerVars, histVars>>

\* setRuntimeReady marks the core connected once more.
SettingsReady(a) ==
    /\ Goto(a, "ready", "release")
    /\ coreConnected' = TRUE
    /\ UNCHANGED <<managerVars, suppressed, suspended, wanted, monitorOnly, hasSuccess,
                   lastNative, recoveryCooling, healthFailures, lockVars, loopVars,
                   powerVars, histVars>>

\* The deferred unlocks.  A loop whose commit ran is done; a request returns.
Release(a) ==
    /\ Goto(a, "release", IF a \in Loops THEN "exit" ELSE "idle")
    /\ connectMutex' = IF connectMutex = a THEN NoOne ELSE connectMutex
    /\ reconnectMutex' = IF reconnectMutex = a THEN NoOne ELSE reconnectMutex
    /\ UNCHANGED <<managerVars, coreVars, loopVars, powerVars, histVars>>

Connect(a) ==
    \/ OpenAnswers(a) \/ OpenBegins(a) \/ OpenConnects(a) \/ OpenGivesUp(a)
    \/ Finish(a) \/ FinishUnpublish(a) \/ FinishPublish(a)
    \/ QueryAnswers(a) \/ QueryFails(a) \/ SettingsReady(a) \/ Release(a)

-----------------------------------------------------------------------------
(* The reconnect loop: runReconnectLoopWithWake, reconnectDevice and       *)
(* completeReconnectAttempt.                                               *)

LoopMustStop(l) == l \in cancelled \/ suppressed \/ suspended \/ coreConnected

LoopIsDone(l) == attemptsLeft[l] = 0 \/ LoopMustStop(l) \/ monitorOnly

\* The head of the loop: no delay is left, or something has ended the need.
LoopCheck(l) ==
    /\ pc[l] = "check"
    /\ IF LoopIsDone(l)
       THEN Goto(l, "check", "exit") /\ UNCHANGED attemptsLeft
       ELSE /\ Goto(l, "check", "wait")
            /\ attemptsLeft' = [attemptsLeft EXCEPT ![l] = @ - 1]
    /\ UNCHANGED <<managerVars, coreVars, lockVars, reconnectCancel, generation,
                   cancelled, attemptOk, powerVars, histVars>>

\* The delay is over, cut short by a wake, or cancelled; then everything is
\* looked at again.
LoopWakes(l) ==
    /\ Goto(l, "wait", IF LoopMustStop(l) THEN "exit" ELSE "attempt")
    /\ UNCHANGED <<managerVars, coreVars, lockVars, loopVars, powerVars, histVars>>

\* reconnectDevice: no attempt in monitor-only mode, otherwise wait for connectMutex.
LoopAttempt(l) ==
    /\ \/ monitorOnly /\ Goto(l, "attempt", "complete") /\ UNCHANGED connectMutex
          /\ attemptOk' = [attemptOk EXCEPT ![l] = FALSE]
       \/ ~monitorOnly /\ Goto(l, "attempt", "open") /\ UNCHANGED attemptOk
          /\ connectMutex = NoOne /\ connectMutex' = l
    /\ UNCHANGED <<managerVars, coreVars, reconnectMutex, reconnectCancel, generation,
                   cancelled, attemptsLeft, powerVars, histVars>>

\* Mutant: a failed attempt keeps connectMutex.
LoopCapture_LeaksOnFailure(l) ==
    /\ Goto(l, "capture", "complete")
    /\ ReadGeneration(l)
    /\ connectMutex' = IF attemptOk[l] THEN NoOne ELSE connectMutex
    /\ UNCHANGED <<coreVars, reconnectMutex, loopVars, powerVars, histVars>>

\* The generation to disconnect by is read before connectMutex is given back.
LoopCapture(l) ==
    /\ Goto(l, "capture", "complete")
    /\ ReadGeneration(l)
    /\ connectMutex' = NoOne
    /\ UNCHANGED <<coreVars, reconnectMutex, loopVars, powerVars, histVars>>

\* Mutant: neither the context nor the suppression is looked at again.
AttemptIsCurrent_ByGeneration(l) == generation = l /\ ~suspended

\* May the result of this attempt still be committed?
AttemptIsCurrent(l) ==
    l \notin cancelled /\ generation = l /\ ~suppressed /\ ~suspended

\* completeReconnectAttempt under reconnectMutex: commit a connection that
\* still stands, go on to the next delay, or undo what is no longer wanted.
LoopComplete(l) ==
    /\ pc[l] = "complete"
    /\ ReconnectMutexFree
    /\ \/ /\ AttemptIsCurrent(l) /\ attemptOk[l]
          /\ ManagerFree
          /\ IF IsConnected
             THEN reconnectMutex' = l /\ Goto(l, "complete", "finish")
             ELSE UNCHANGED reconnectMutex /\ Goto(l, "complete", "check")
       \/ /\ AttemptIsCurrent(l) /\ ~attemptOk[l]
          /\ UNCHANGED reconnectMutex /\ Goto(l, "complete", "check")
       \/ /\ ~AttemptIsCurrent(l) /\ attemptOk[l]
          /\ reconnectMutex' = l /\ Goto(l, "complete", "stale")
       \/ /\ ~AttemptIsCurrent(l) /\ ~attemptOk[l]
          /\ UNCHANGED reconnectMutex /\ Goto(l, "complete", "exit")
    /\ attemptOk' = [attemptOk EXCEPT ![l] = FALSE]
    /\ UNCHANGED <<managerVars, coreVars, connectMutex, reconnectCancel, generation,
                   cancelled, attemptsLeft, powerVars, histVars>>

\* The undo: the handle of this attempt only, and then the core's flag.
LoopDropsStale(l) ==
    /\ Goto(l, "stale", "unpublish")
    /\ DisconnectIfCurrent(l)
    /\ UNCHANGED <<coreVars, lockVars, loopVars, powerVars, histVars>>

\* The deferred end of the goroutine; its locals go with it.
LoopExit(l) ==
    /\ Goto(l, "exit", "idle")
    /\ ReconnectMutexFree
    /\ reconnectCancel' = IF generation = l THEN NoOne ELSE reconnectCancel
    /\ cancelled' = cancelled \ {l}
    /\ attemptsLeft' = [attemptsLeft EXCEPT ![l] = 0]
    /\ genHolders' = genHolders \ {l}
    /\ UNCHANGED <<transport, linkUp, handle, writesBlocked, mgrLock, openedBy, adoptedBy,
                   coreVars, lockVars, generation, attemptOk, powerVars, histVars>>

Loop(l) ==
    \/ LoopCheck(l) \/ LoopWakes(l) \/ LoopAttempt(l) \/ LoopCapture(l)
    \/ LoopComplete(l) \/ LoopDropsStale(l) \/ LoopExit(l) \/ Connect(l)

-----------------------------------------------------------------------------
(* IPC requests.  Each runs in a goroutine of its own.                     *)

\* History.  userOff says that the last thing the user asked for is a
\* disconnect that no connect request overlaps, and whether the machine was
\* awake ("awake") or in some stage of suspend or resume ("asleep") then.
Awake == ~suspended /\ pc[Power] = "idle" /\ pc[Recovery] = "idle" /\ ~asleep

Connecting(c) == pc[c] \in {"lock", "switch", "open", "opening", "finish", "publish"}
                 \/ connectMutex = c

\* ConnectDevice, ConnectNativeDevice, ConnectDeviceCandidate.
ClientConnect(c) ==
    /\ Spend("connect")
    /\ ~monitorOnly
    /\ Goto(c, "idle", "lock")
    /\ CancelReconnect
    /\ userOff' = "no"
    /\ UNCHANGED <<managerVars, coreVars, lockVars, reconnectCancel, generation,
                   attemptsLeft, attemptOk, powerVars>>

\* connectMutex, and then the flow: in monitor-only mode or with nothing to
\* connect to it ends here, otherwise the manual disconnect is forgotten.
ClientLock(c) ==
    /\ connectMutex = NoOne
    /\ connectMutex' = c
    /\ \/ Goto(c, "lock", "release") /\ UNCHANGED suppressed
       \/ ~monitorOnly /\ Goto(c, "lock", "switch") /\ suppressed' = FALSE
    /\ UNCHANGED <<managerVars, coreConnected, suspended, wanted, monitorOnly, hasSuccess,
                   lastNative, recoveryCooling, healthFailures, reconnectMutex, loopVars,
                   powerVars, histVars>>

\* disconnectForSwitch.
ClientSwitch(c) ==
    /\ Goto(c, "switch", "open")
    /\ ManagerFree
    /\ IF IsConnected THEN Disconnect /\ coreConnected' = FALSE
       ELSE UNCHANGED <<managerVars, coreConnected>>
    /\ UNCHANGED <<suppressed, suspended, wanted, monitorOnly, hasSuccess, lastNative,
                   recoveryCooling, healthFailures, lockVars, loopVars, powerVars, histVars>>

\* DisconnectDevice.  suppressReconnect holds reconnectMutex, so no commit is
\* under way when the flag is set.
ClientDisconnect(c) ==
    /\ Spend("disconnect")
    /\ Goto(c, "idle", "manual")
    /\ CancelReconnect
    /\ suppressed' = TRUE
    /\ userOff' = IF \E d \in Clients : Connecting(d) THEN "no"
                  ELSE IF Awake THEN "awake" ELSE "asleep"
    /\ UNCHANGED <<managerVars, coreConnected, suspended, wanted, monitorOnly, hasSuccess,
                   lastNative, recoveryCooling, healthFailures, lockVars, reconnectCancel,
                   generation, attemptsLeft, attemptOk, powerVars>>

ClientUnpublish(c) ==
    /\ Goto(c, "manual", "close")
    /\ lastNative' = FALSE
    /\ coreConnected' = FALSE
    /\ UNCHANGED <<managerVars, suppressed, suspended, wanted, monitorOnly, hasSuccess,
                   recoveryCooling, healthFailures, lockVars, loopVars, powerVars, histVars>>

ClientClose(c) ==
    /\ Goto(c, "close", "idle")
    /\ Disconnect
    /\ UNCHANGED <<coreVars, lockVars, loopVars, powerVars, histVars>>

\* RefreshDeviceSettings on its own: no lock of this module is held.
ClientRefresh(c) ==
    /\ Spend("refresh")
    /\ Goto(c, "idle", "query")
    /\ UNCHANGED <<managerVars, coreVars, lockVars, loopVars, powerVars, userOff>>

\* A configuration whose connection settings differ has been committed.
ClientReconfigure(c) ==
    /\ Spend("reconfigure")
    /\ Goto(c, "idle", "reconcile")
    /\ CancelReconnect
    /\ UNCHANGED <<managerVars, coreVars, lockVars, reconnectCancel, generation,
                   attemptsLeft, attemptOk, powerVars, userOff>>

\* reconcileDeviceManagerProfile: a native device stays, and so does one that the
\* new configuration names; otherwise the device is disconnected, and reconnecting
\* is suppressed if there was a connection.
ClientReconcile(c) ==
    /\ Goto(c, "reconcile", "idle")
    /\ connectMutex = NoOne
    /\ ManagerFree
    /\ \/ /\ IsConnected
          /\ UNCHANGED <<managerVars, coreConnected, suppressed>>
       \/ /\ ~(IsConnected /\ IsNative)
          /\ Disconnect
          /\ coreConnected' = FALSE
          /\ suppressed' = (suppressed \/ IsConnected \/ coreConnected)
    /\ UNCHANGED <<suspended, wanted, monitorOnly, hasSuccess, lastNative, recoveryCooling,
                   healthFailures, lockVars, loopVars, powerVars, histVars>>

ClientStarts(c) ==
    \/ ClientConnect(c) \/ ClientDisconnect(c) \/ ClientRefresh(c) \/ ClientReconfigure(c)

ClientGoesOn(c) ==
    \/ ClientLock(c) \/ ClientSwitch(c) \/ Connect(c)
    \/ ClientUnpublish(c) \/ ClientClose(c) \/ ClientReconcile(c)

-----------------------------------------------------------------------------
(* Losing the device: the receivers, onDeviceDisconnect, the device health *)
(* check and the arrival notifications.                                    *)

ReceiverReports(r) ==
    /\ Goto(r, "idle", "lost")
    /\ ReceiverGivesUp
    /\ UNCHANGED <<coreVars, lockVars, loopVars, powerVars, histVars>>

\* onDeviceDisconnect, run by a receiver or by the health monitor after the
\* handle has been closed and m.mutex given back.
LossPublished(a) ==
    /\ Goto(a, "lost", "request")
    /\ coreConnected' = FALSE
    /\ UNCHANGED <<managerVars, suppressed, suspended, wanted, monitorOnly, hasSuccess,
                   lastNative, recoveryCooling, healthFailures, lockVars, loopVars,
                   powerVars, histVars>>

LossRequest(a) ==
    /\ a \in Receivers \cup {Health}
    /\ pc[a] = "request"
    /\ RequestReconnect(MaxAttempts, [pc EXCEPT ![a] = "idle"])
    /\ UNCHANGED <<managerVars, coreVars, lockVars, powerVars, histVars>>

Receiver(r) == ReceiverReports(r) \/ LossPublished(r) \/ LossRequest(r)

\* deviceRuntimeSnapshot().Connected
RuntimeConnected == coreConnected /\ IsConnected

\* checkDeviceHealth on a tick of the health monitor: a missing device is
\* requested with one immediate attempt, a HID device is taken to be healthy,
\* any other is asked for its state.
HealthCheck ==
    /\ pc[Health] = "idle"
    /\ ~monitorOnly /\ ~suspended /\ pc[Recovery] = "idle" /\ reconnectCancel = NoOne
    /\ ManagerFree
    /\ \/ ~RuntimeConnected /\ Goto(Health, "idle", "reconnect")
       \/ RuntimeConnected /\ transport # "hid" /\ Goto(Health, "idle", "refresh")
    /\ UNCHANGED <<managerVars, coreVars, lockVars, loopVars, powerVars, histVars>>

HealthRequests ==
    /\ pc[Health] = "reconnect"
    /\ RequestReconnect(1, [pc EXCEPT ![Health] = "idle"])
    /\ UNCHANGED <<managerVars, coreVars, lockVars, powerVars, histVars>>

HealthPasses ==
    /\ Goto(Health, "refresh", "idle")
    /\ ManagerFree
    /\ handle = "live"
    /\ healthFailures' = 0
    /\ UNCHANGED <<managerVars, coreConnected, suppressed, suspended, wanted, monitorOnly,
                   hasSuccess, lastNative, recoveryCooling, lockVars, loopVars, powerVars,
                   histVars>>

\* A refresh may fail on a live handle too; the third failure in a row disconnects.
HealthFails ==
    /\ ManagerFree
    /\ IF healthFailures + 1 < FailureThreshold
       THEN Goto(Health, "refresh", "idle") /\ healthFailures' = healthFailures + 1
       ELSE Goto(Health, "refresh", "close") /\ healthFailures' = 0
    /\ UNCHANGED <<managerVars, coreConnected, suppressed, suspended, wanted, monitorOnly,
                   hasSuccess, lastNative, recoveryCooling, lockVars, loopVars, powerVars,
                   histVars>>

HealthCloses ==
    /\ Goto(Health, "close", "lost")
    /\ Disconnect
    /\ UNCHANGED <<coreVars, lockVars, loopVars, powerVars, histVars>>

HealthMonitor ==
    \/ HealthCheck \/ HealthRequests \/ HealthPasses \/ HealthFails \/ HealthCloses
    \/ LossPublished(Health) \/ LossRequest(Health)

\* onSupportedHIDArrival and onSupportedBLEArrival.
Arrival ==
    /\ linkUp /\ IsNative
    /\ ManagerFree
    /\ ~suspended /\ ~suppressed /\ ~coreConnected /\ ~IsConnected
    /\ RequestReconnect(1, pc)
    /\ UNCHANGED <<managerVars, coreVars, lockVars, powerVars, histVars>>

-----------------------------------------------------------------------------
(* Suspend and resume.                                                     *)

\* onSystemSuspend wins the compare-and-swap and stores the write block.
SuspendBegins ==
    /\ Spend("suspend")
    /\ ~asleep /\ asleep' = TRUE
    /\ ~suspended /\ suspended' = TRUE
    /\ Goto(Power, "idle", "barrier")
    /\ suspendHolders' = {Power}
    /\ StoreWritesBlocked
    /\ UNCHANGED <<coreConnected, suppressed, wanted, monitorOnly, hasSuccess, lastNative,
                   recoveryCooling, healthFailures, lockVars, loopVars, resume, userOff>>

\* Past the barrier: is there a connection to come back to?
SuspendReads ==
    /\ Goto(Power, "barrier", "cancel")
    /\ ManagerFree
    /\ wanted' = (~suppressed /\ (coreConnected \/ IsConnected \/ reconnectCancel # NoOne))
    /\ UNCHANGED <<managerVars, coreConnected, suppressed, suspended, monitorOnly, hasSuccess,
                   lastNative, recoveryCooling, healthFailures, lockVars, loopVars,
                   powerVars, histVars>>

\* cancelReconnect, which waits for a commit under way.
SuspendCancels ==
    /\ Goto(Power, "cancel", "unpublish")
    /\ CancelReconnect
    /\ UNCHANGED <<managerVars, coreVars, lockVars, reconnectCancel, generation,
                   attemptsLeft, attemptOk, powerVars, histVars>>

\* Suppress, unpublish and hand the slow part to a goroutine.  The handler
\* waits for it, but for no longer than suspendCleanupGrace: it may return at
\* any moment from here on.
SuspendHandsOver ==
    /\ pc[Power] = "unpublish"
    /\ suppressed' = TRUE
    /\ coreConnected' = FALSE
    /\ \E k \in Cleanups :
          /\ pc[k] = "idle"
          /\ pc' = [pc EXCEPT ![k] = "check", ![Power] = "idle"]
          /\ suspendHolders' = IF Power \in suspendHolders
                               THEN suspendHolders \cup {k} ELSE suspendHolders \ {k}
    /\ UNCHANGED <<managerVars, suspended, wanted, monitorOnly, hasSuccess, lastNative,
                   recoveryCooling, healthFailures, lockVars, loopVars, resume, asleep,
                   histVars>>

\* suspend-cleanup: isCurrentSuspendGeneration, and only then the disconnect.
CleanupChecks(k) ==
    /\ Goto(k, "check", IF suspended /\ k \in suspendHolders THEN "close" ELSE "idle")
    /\ UNCHANGED <<managerVars, coreVars, lockVars, loopVars, powerVars, histVars>>

CleanupCloses(k) ==
    /\ Goto(k, "close", "idle")
    /\ Disconnect
    /\ UNCHANGED <<coreVars, lockVars, loopVars, powerVars, histVars>>

Cleanup(k) == CleanupChecks(k) \/ CleanupCloses(k)

\* triggerResumeRecovery: dropped during the cooldown or while one is running.
TriggerRecovery(force) ==
    IF recoveryCooling \/ pc[Recovery] # "idle"
    THEN UNCHANGED <<pc, recoveryCooling, resume>>
    ELSE /\ pc' = [pc EXCEPT ![Recovery] = "resume"]
         /\ recoveryCooling' = TRUE
         /\ resume' = [resume EXCEPT !.force = force]

\* onSystemResume: the notice that follows every suspend.
ResumeNotice ==
    /\ asleep /\ asleep' = FALSE
    /\ pc[Power] = "idle"
    /\ TriggerRecovery(TRUE)
    /\ UNCHANGED <<managerVars, coreConnected, suppressed, suspended, wanted, monitorOnly,
                   hasSuccess, lastNative, healthFailures, lockVars, loopVars,
                   suspendHolders, histVars>>

\* maybeRecoverFromSystemResume: a ticker notices that much time has passed.
GapDetected ==
    /\ Spend("gap")
    /\ TriggerRecovery(FALSE)
    /\ UNCHANGED <<managerVars, coreConnected, suppressed, suspended, wanted, monitorOnly,
                   hasSuccess, lastNative, healthFailures, lockVars, loopVars,
                   suspendHolders, asleep, userOff>>

CooldownEnds ==
    /\ recoveryCooling /\ recoveryCooling' = FALSE
    /\ UNCHANGED <<managerVars, coreConnected, suppressed, suspended, wanted, monitorOnly,
                   hasSuccess, lastNative, healthFailures, lockVars, loopVars, powerVars,
                   histVars, pc>>

\* handleSystemResume.  First it makes a cleanup that is still behind stale.
RecoverySwaps ==
    /\ Goto(Recovery, "resume", "cancel")
    /\ resume' = [resume EXCEPT !.proactive = suspended, !.wanted = wanted]
    /\ suspended' = FALSE
    /\ wanted' = FALSE
    /\ suspendHolders' = IF suspended THEN {} ELSE suspendHolders
    /\ UNCHANGED <<managerVars, coreConnected, suppressed, monitorOnly, hasSuccess, lastNative,
                   recoveryCooling, healthFailures, lockVars, loopVars, asleep, histVars>>

\* The running loop is cancelled, and shouldReconnectAfterResume decides.
RecoveryCancels ==
    /\ Goto(Recovery, "cancel", "read")
    /\ CancelReconnect
    /\ resume' = [resume EXCEPT !.force = IF resume.proactive THEN resume.wanted
                                          ELSE @ /\ ~suppressed]
    /\ UNCHANGED <<managerVars, coreVars, lockVars, reconnectCancel, generation,
                   attemptsLeft, attemptOk, suspendHolders, asleep, histVars>>

\* Mutant: no suspend lifts it.
LiftsSuppression_Never == FALSE

\* Only a suspend that had something to come back to lifts the suppression.
LiftsSuppression == resume.proactive /\ resume.wanted

\* Was there a connection, and is it to come back?
RecoveryReads ==
    LET given == IF resume.proactive THEN resume.wanted ELSE ~suppressed
        was   == given /\ (IsConnected \/ coreConnected)
    IN  /\ ManagerFree
        /\ Goto(Recovery, "read", IF was \/ resume.force THEN "close" ELSE "idle")
        /\ suppressed' = (suppressed /\ ~LiftsSuppression)
        /\ resume' = NoResume
        /\ UNCHANGED <<managerVars, coreConnected, suspended, wanted, monitorOnly, hasSuccess,
                       lastNative, recoveryCooling, healthFailures, lockVars, loopVars,
                       suspendHolders, asleep, histVars>>

RecoveryCloses ==
    /\ Goto(Recovery, "close", "unpublish")
    /\ Disconnect
    /\ UNCHANGED <<coreVars, lockVars, loopVars, powerVars, histVars>>

RecoveryUnpublishes ==
    /\ Goto(Recovery, "unpublish", "request")
    /\ coreConnected' = FALSE
    /\ UNCHANGED <<managerVars, suppressed, suspended, wanted, monitorOnly, hasSuccess,
                   lastNative, recoveryCooling, healthFailures, lockVars, loopVars,
                   powerVars, histVars>>

RecoveryRequests ==
    /\ pc[Recovery] = "request"
    /\ RequestReconnect(MaxAttempts, [pc EXCEPT ![Recovery] = "idle"])
    /\ UNCHANGED <<managerVars, coreVars, lockVars, powerVars, histVars>>

PowerCallback == SuspendReads \/ SuspendCancels \/ SuspendHandsOver

ResumeRecovery ==
    \/ RecoverySwaps \/ RecoveryCancels \/ RecoveryReads
    \/ RecoveryCloses \/ RecoveryUnpublishes \/ RecoveryRequests

-----------------------------------------------------------------------------
(* Monitor-only mode: refreshMonitorOnlyRuntime(true).  The running core    *)
(* never turns it off again: it restarts.                                  *)

ModeTurnsOn ==
    /\ Spend("monitor_only")
    /\ ~monitorOnly /\ monitorOnly' = TRUE
    /\ Goto(Mode, "idle", "cancel")
    /\ UNCHANGED <<managerVars, coreConnected, suppressed, suspended, wanted, hasSuccess,
                   lastNative, recoveryCooling, healthFailures, lockVars, loopVars,
                   powerVars, userOff>>

ModeCancels ==
    /\ Goto(Mode, "cancel", "close")
    /\ CancelReconnect
    /\ StoreWritesBlocked
    /\ UNCHANGED <<coreVars, lockVars, reconnectCancel, generation, attemptsLeft, attemptOk,
                   powerVars, histVars>>

ModeCloses ==
    /\ ManagerFree
    /\ IF IsConnected THEN Disconnect /\ Goto(Mode, "close", "unpublish")
       ELSE UNCHANGED managerVars /\ Goto(Mode, "close", "idle")
    /\ UNCHANGED <<coreVars, lockVars, loopVars, powerVars, histVars>>

ModeUnpublishes ==
    /\ Goto(Mode, "unpublish", "idle")
    /\ coreConnected' = FALSE
    /\ UNCHANGED <<managerVars, suppressed, suspended, wanted, monitorOnly, hasSuccess,
                   lastNative, recoveryCooling, healthFailures, lockVars, loopVars,
                   powerVars, histVars>>

MonitorOnlyMode == ModeCancels \/ ModeCloses \/ ModeUnpublishes

-----------------------------------------------------------------------------
LinkDrop ==
    /\ Spend("drop")
    /\ LinkDrops
    /\ UNCHANGED <<coreVars, lockVars, loopVars, powerVars, userOff, pc>>

LinkReturn ==
    /\ LinkReturns
    /\ UNCHANGED <<coreVars, lockVars, loopVars, powerVars, histVars, pc>>

\* Everyone is idle and waits for an event that may not come.
Quiet ==
    /\ \A a \in Actors : pc[a] = "idle"
    /\ UNCHANGED vars

Environment ==
    \/ Startup \/ SuspendBegins \/ GapDetected \/ CooldownEnds \/ ModeTurnsOn
    \/ LinkDrop \/ Arrival \/ \E c \in Clients : ClientStarts(c)

Next ==
    \/ Environment \/ ResumeNotice \/ LinkReturn
    \/ \E l \in Loops : Loop(l)
    \/ \E c \in Clients : ClientGoesOn(c)
    \/ \E r \in Receivers : Receiver(r)
    \/ \E k \in Cleanups : Cleanup(k)
    \/ HealthMonitor \/ PowerCallback \/ ResumeRecovery \/ MonitorOnlyMode
    \/ Quiet

Spec == Init /\ [][Next]_vars

\* Every goroutine that can run does, also one that waits for a mutex others
\* keep taking (Go's mutexes hand over after a millisecond); ticks keep coming.
\* The environment is assumed kind: a reachable device answers one of ever more
\* connects, a lost one comes back, a suspended machine wakes up.
Fairness ==
    /\ \A l \in Loops : SF_vars(Loop(l)) /\ SF_vars(OpenConnects(l))
    /\ \A c \in Clients : SF_vars(ClientGoesOn(c))
    /\ \A r \in Receivers : SF_vars(Receiver(r))
    /\ \A k \in Cleanups : SF_vars(Cleanup(k))
    /\ SF_vars(HealthMonitor) /\ SF_vars(PowerCallback)
    /\ SF_vars(ResumeRecovery) /\ SF_vars(MonitorOnlyMode)
    /\ WF_vars(ResumeNotice) /\ WF_vars(LinkReturn)

FairSpec == Spec /\ Fairness

\* Less of it, for what holds: only a request is sure to get a mutex that others
\* keep taking, the other goroutines run when nothing holds them up for good.
LessFairness ==
    /\ \A l \in Loops : WF_vars(Loop(l)) /\ SF_vars(OpenConnects(l))
    /\ \A c \in Clients : SF_vars(ClientGoesOn(c))
    /\ \A r \in Receivers : WF_vars(Receiver(r))
    /\ \A k \in Cleanups : WF_vars(Cleanup(k))
    /\ WF_vars(HealthMonitor) /\ WF_vars(PowerCallback)
    /\ WF_vars(ResumeRecovery) /\ WF_vars(MonitorOnlyMode)
    /\ WF_vars(ResumeNotice) /\ WF_vars(LinkReturn)

LessFairSpec == Spec /\ LessFairness

-----------------------------------------------------------------------------
(* Safety.                                                                 *)

\* The steps of a loop between taking connectMutex and settling the attempt.
Attempting(l) == pc[l] \in {"open", "opening", "capture", "complete", "stale"}

\* The steps of the commit, under reconnectMutex for a loop.
Committing(a) == pc[a] \in {"finish", "publish", "query", "ready"}

\* requestReconnect never starts a second reconnect loop while one is alive,
\* cancelled or not: whatever the order of requests, cancellations and exits,
\* a loop that has not reached its deferred end is the one whose cancel
\* function is stored, and the one generation names.
OneReconnectLoop ==
    \A l \in Loops : pc[l] # "idle" => reconnectCancel = l /\ generation = l

\* completeReconnectAttempt checks and commits under reconnectMutex: no one can
\* cancel a loop, or start a manual disconnect, between its check and the end of
\* its commit.
CommitIsNotCancelled ==
    \A l \in Loops : Committing(l) => reconnectMutex = l /\ l \notin cancelled

\* DisconnectDevice and suppressReconnect: once the user has disconnected, with
\* no connect request since, no reconnect loop, health check, arrival, late loss
\* report or resume brings the device back: apart from an attempt that is about
\* to be undone, no handle is open.  (For a disconnect while the machine is awake,
\* see DisconnectHoldsAsleep; and for instances in which a gap cannot come
\* between suspends, as its recovery could overtake two suspend handlers.)
DisconnectHolds ==
    /\ userOff = "awake"
    /\ \A c \in Clients : pc[c] \notin {"manual", "close"}
    /\ \A l \in Loops : ~Attempting(l)
    => suppressed /\ ~IsConnected

\* The same promise for a disconnect during suspend or resume, once the machine
\* is awake again.
DisconnectHoldsAsleep ==
    /\ userOff = "asleep" /\ Awake
    /\ \A c \in Clients : pc[c] \notin {"manual", "close"}
    /\ \A l \in Loops : ~Attempting(l)
    => suppressed /\ ~IsConnected

\* refreshMonitorOnlyRuntime and the checks along the connect path: when the
\* switch to monitor-only mode is through, and every connect that was under way
\* has come to its end, no handle is open, whichever of them won.
MonitorOnlyIsQuiet ==
    /\ monitorOnly /\ pc[Mode] = "idle"
    /\ \A l \in Loops : ~Attempting(l) /\ ~Committing(l)
    /\ \A c \in Clients : pc[c] \notin {"switch", "open", "opening", "finish"}
    => ~IsConnected

\* onSystemSuspend: when the handler and its cleanup are through, the device is
\* closed and the core knows it, even if a reconnect attempt was in its connect
\* call when the notice came; only that call can still hold a handle.  (For
\* instances without manual connect requests or refreshes beside a suspend,
\* which do not look at suspended.)
SuspendIsQuiet ==
    /\ suspended /\ pc[Power] = "idle"
    /\ \A k \in Cleanups : pc[k] = "idle"
    /\ \A l \in Loops : ~Attempting(l)
    => ~IsConnected /\ ~coreConnected

\* DisconnectDevice, refreshMonitorOnlyRuntime and onSystemSuspend: whoever asked
\* for the device to be let go, no attempt, commit or recovery that was under way
\* in another goroutine has it open again when all of them are through.
QuietWhenAskedTo == DisconnectHolds /\ MonitorOnlyIsQuiet /\ SuspendIsQuiet

\* completeReconnectAttempt, DisconnectIfConnectionGeneration: an attempt that
\* has been overtaken closes the handle it opened itself, never one that someone
\* else has opened.  The exception is a handle of a compatibility transport that
\* was open when the attempt came to its connect call: Manager.Connect reports it
\* as the attempt's success (manager_wifi.go:132-136), and the attempt closes it
\* for its own, see StaleClosesOnlyOwn.
StaleAttemptSparesOthers ==
    [][\A l \in Loops : LoopDropsStale(l) /\ IsConnected /\ ~IsConnected'
                           => openedBy = l \/ (~IsNative /\ adoptedBy = l)]_vars

\* The same without the exception, as completeReconnectAttempt is meant.  It does
\* not hold for WiFi: a loop that waited for connectMutex while a manual connect
\* cancelled it finds the handle of that connect open, takes it for its own, is
\* found overtaken and closes it.
StaleClosesOnlyOwn ==
    [][\A l \in Loops : LoopDropsStale(l) /\ IsConnected /\ ~IsConnected' => openedBy = l]_vars

\* cancelReconnect, and the context every attempt carries: a reconnect loop that
\* has been cancelled by a newer connect does not take down the connection that
\* the newer one has made.
CancelledLoopSparesOthers ==
    [][\A l \in Loops : l \in cancelled /\ OpenBegins(l) => ~IsConnected]_vars

\* handleSystemResume makes the cleanup of the suspend stale before it
\* reconnects: the cleanup closes no connection that was opened after that.
CleanupSparesReconnect ==
    [][\A k \in Cleanups : CleanupCloses(k) /\ IsConnected => suspended]_vars

-----------------------------------------------------------------------------
(* Liveness.                                                               *)

\* The three mutexes and the write barrier: every IPC request returns, whatever
\* loop, suspend or mode switch holds what it needs.
RequestsReturn == \A c \in Clients : pc[c] # "idle" ~> pc[c] = "idle"

\* A handle that is closed before finishSuccessfulDeviceConnection asks for its
\* type leaves the core convinced that the last connection was no native one.
TakenForCompatibility == IsNative /\ hasSuccess /\ ~lastNative

\* A connect that publishes its result after the handle was closed leaves the
\* core convinced that it is connected.
TakenForConnected == coreConnected /\ ~IsConnected

\* onSystemResume: if there was a connection to come back to at the suspend, the
\* device is opened again some time after the resume, or the user disconnects it,
\* whatever request, cleanup or loop the recovery meets.  The exceptions are a
\* native device that passes for a compatibility one, which the loops do not look
\* for, and a core that goes on believing in the connection, in which they stop.
ResumeReopens ==
    pc[Recovery] = "cancel" /\ resume.wanted
        ~> handle = "live" \/ userOff # "no" \/ TakenForCompatibility \/ []TakenForConnected

\* The same without the exceptions.  It does not hold: a suspend closes the
\* handle of a connect between its commit and its end, the connect publishes what
\* it believes, and no loop brings the device back after the resume.
ResumeAlwaysReopens ==
    pc[Recovery] = "cancel" /\ resume.wanted ~> handle = "live" \/ userOff # "no"

\* onDeviceDisconnect: a device that was lost, and is reachable, is connected
\* again if nothing keeps reconnecting from being tried.
LostDeviceReturns ==
    ~IsConnected /\ hasSuccess ~> handle = "live" \/ suppressed \/ monitorOnly \/ suspended
=============================================================================
