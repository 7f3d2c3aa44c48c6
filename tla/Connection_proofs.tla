------------------------- MODULE Connection_proofs -------------------------
(***************************************************************************)
(* Proofs about Connection, for every set of actors and every bound: the   *)
(* types; the two invariants that keep reconnecting orderly,               *)
(* OneReconnectLoop and CommitIsNotCancelled; whose handle is open, and    *)
(* that an overtaken attempt closes the one it opened itself, or was told  *)
(* to be open by Manager.Connect; and that the device is let go when the   *)
(* user, the monitor-only switch or a suspend asks for it.                 *)
(* The mixes of events are any, but for a disconnect (MildBudget) and a    *)
(* suspend (CalmBudget), which the code does not keep in every mix.        *)
(***************************************************************************)
EXTENDS Connection, FiniteSetTheorems, TLAPS

-----------------------------------------------------------------------------
(* The actors are told apart by their sort.                                *)

\* Reconnect loops, requests, receivers and the single actors are different.
LEMMA ActorSorts ==
    /\ Loops \subseteq Actors /\ Clients \subseteq Actors /\ Receivers \subseteq Actors
    /\ Cleanups \subseteq Actors
    /\ Power \in Actors /\ Recovery \in Actors /\ Health \in Actors /\ Mode \in Actors
    /\ NoOne \notin Actors
    /\ Power \notin Loops /\ Recovery \notin Loops /\ Health \notin Loops /\ Mode \notin Loops
    /\ Loops \cap Clients = {} /\ Loops \cap Receivers = {} /\ Loops \cap Cleanups = {}
BY ActorsAssumption DEF Actors

-----------------------------------------------------------------------------
(* Types.  What an action leaves alone keeps its type; what a method of    *)
(* the manager, a move of pc or a reconnect request changes is typed once. *)

\* A group of variables that a step leaves alone keeps its type.
LEMMA Stays ==
    /\ ManagerTypeOK(Actors) /\ UNCHANGED managerVars => ManagerTypeOK(Actors)'
    /\ CoreTypeOK /\ UNCHANGED coreVars => CoreTypeOK'
    /\ LockTypeOK /\ UNCHANGED lockVars => LockTypeOK'
    /\ LoopTypeOK /\ UNCHANGED loopVars => LoopTypeOK'
    /\ PowerTypeOK /\ UNCHANGED powerVars => PowerTypeOK'
    /\ HistTypeOK /\ UNCHANGED histVars => HistTypeOK'
    /\ PcTypeOK /\ UNCHANGED pc => PcTypeOK'
BY DEF managerVars, coreVars, lockVars, loopVars, powerVars, histVars, ManagerTypeOK, IsNative,
       CoreTypeOK, LockTypeOK, LoopTypeOK, PowerTypeOK, HistTypeOK, PcTypeOK

\* Every method of the device manager keeps the manager's types.
LEMMA MethodTypes ==
    ASSUME ManagerTypeOK(Actors), NEW a \in Actors,
           \/ Disconnect \/ DisconnectIfCurrent(a) \/ ReadGeneration(a)
           \/ StoreWritesBlocked \/ UnblockWrites \/ AdoptOpen(a) \/ BeginOpen(a)
           \/ OpenSucceeds(a) \/ OpenFails(a) \/ ReceiverGivesUp
           \/ LinkDrops \/ LinkReturns
    PROVE  ManagerTypeOK(Actors)'
BY DEF ManagerTypeOK, Disconnect, DisconnectIfCurrent, ReadGeneration, StoreWritesBlocked,
       UnblockWrites, AdoptOpen, BeginOpen, OpenSucceeds, OpenFails, ReceiverGivesUp,
       LinkDrops, LinkReturns, CloseHandle, Handles, IsNative

\* Moving one actor to another step keeps the type of pc.
LEMMA Moves ==
    ASSUME PcTypeOK, NEW a \in Actors, NEW to \in Steps, pc' = [pc EXCEPT ![a] = to]
    PROVE  PcTypeOK'
BY DEF PcTypeOK

\* The literal steps used by the actions are steps.
LEMMA StepNames ==
    {"idle", "exit", "check", "wait", "attempt", "open", "opening", "capture", "complete",
     "stale", "finish", "publish", "query", "ready", "release", "lock", "switch", "manual",
     "unpublish", "close", "reconcile", "barrier", "cancel", "resume", "read", "refresh",
     "lost", "request", "reconnect"} \subseteq Steps
BY DEF Steps

\* A reconnect request, ignored or stored, keeps the types it touches.
LEMMA RequestTypes ==
    ASSUME LoopTypeOK, NEW n \in 0 .. MaxAttempts, NEW moved \in [Actors -> Steps],
           RequestReconnect(n, moved)
    PROVE  PcTypeOK' /\ LoopTypeOK'
BY ActorSorts DEF LoopTypeOK, PcTypeOK, RequestReconnect, loopVars, Steps

\* The outcome of an attempt has the type of an outcome.
LEMMA OutcomeTypes ==
    ASSUME LoopTypeOK, PcTypeOK, NEW a \in Connectors, NEW ok \in BOOLEAN, Outcome(a, ok),
           UNCHANGED <<reconnectCancel, generation, cancelled, attemptsLeft>>
    PROVE  LoopTypeOK' /\ PcTypeOK'
<1> USE ActorSorts, Moves, StepNames DEF Outcome, Goto, Connectors
<1>1. LoopTypeOK'
  BY DEF LoopTypeOK
<1>2. PcTypeOK'
  BY Zenon
<1> QED
  BY <1>1, <1>2

\* The steps a connect is made of, whoever runs it, keep the types.
LEMMA ConnectTypes ==
    ASSUME TypeOK, NEW a \in Connectors, Connect(a)
    PROVE  TypeOK'
<1> USE ActorSorts, Stays, MethodTypes, OutcomeTypes, Moves, StepNames
        DEF TypeOK, Connectors, Goto
<1>1. CASE OpenAnswers(a)
  BY <1>1 DEF OpenAnswers
<1>2. CASE OpenBegins(a)
  BY <1>2 DEF OpenBegins
<1>3. CASE OpenConnects(a)
  BY <1>3 DEF OpenConnects
<1>4. CASE OpenGivesUp(a)
  BY <1>4 DEF OpenGivesUp
<1>5. CASE Finish(a)
  BY <1>5 DEF Finish
<1>6. CASE FinishUnpublish(a)
  BY <1>6 DEF FinishUnpublish, CoreTypeOK
<1>7. CASE FinishPublish(a)
  BY <1>7 DEF FinishPublish, IsNative, IsConnected, CoreTypeOK
<1>8. CASE QueryAnswers(a)
  BY <1>8 DEF QueryAnswers
<1>9. CASE QueryFails(a)
  BY <1>9 DEF QueryFails
<1>10. CASE SettingsReady(a)
  BY <1>10 DEF SettingsReady, CoreTypeOK
<1>11. CASE Release(a)
  BY <1>11 DEF Release, LockTypeOK
<1> QED
  BY <1>1, <1>2, <1>3, <1>4, <1>5, <1>6, <1>7, <1>8, <1>9, <1>10, <1>11 DEF Connect

\* Every action of a reconnect loop keeps the types.
LEMMA LoopTypes ==
    ASSUME TypeOK, NEW l \in Loops, Loop(l)
    PROVE  TypeOK'
<1> USE ActorSorts, Stays, MethodTypes, Moves, StepNames DEF TypeOK, Goto
<1>1. CASE LoopCheck(l)
  <2>1. LoopTypeOK'
    BY <1>1, BoundsAssumption DEF LoopCheck, LoopTypeOK, LoopIsDone
  <2> QED
    BY <1>1, <2>1 DEF LoopCheck
<1>2. CASE LoopWakes(l)
  BY <1>2 DEF LoopWakes
<1>3. CASE LoopAttempt(l)
  <2>1. LoopTypeOK' /\ LockTypeOK'
    BY <1>3 DEF LoopAttempt, LoopTypeOK, LockTypeOK
  <2> QED
    BY <1>3, <2>1 DEF LoopAttempt
<1>4. CASE LoopCapture(l)
  <2>1. LockTypeOK'
    BY <1>4 DEF LoopCapture, LockTypeOK
  <2> QED
    BY <1>4, <2>1 DEF LoopCapture
<1>5. CASE LoopComplete(l)
  <2>1. LoopTypeOK' /\ LockTypeOK'
    BY <1>5 DEF LoopComplete, LoopTypeOK, LockTypeOK
  <2>2. PcTypeOK'
    BY <1>5 DEF LoopComplete
  <2> QED
    BY <1>5, <2>1, <2>2 DEF LoopComplete
<1>6. CASE LoopDropsStale(l)
  BY <1>6 DEF LoopDropsStale
<1>7. CASE LoopExit(l)
  <2>1. LoopTypeOK'
    BY <1>7, BoundsAssumption DEF LoopExit, LoopTypeOK
  <2>2. ManagerTypeOK(Actors)'
    BY <1>7 DEF LoopExit, ManagerTypeOK, IsNative
  <2> QED
    BY <1>7, <2>1, <2>2 DEF LoopExit
<1>8. CASE Connect(l)
  BY <1>8, ConnectTypes DEF Connectors
<1> QED
  BY <1>1, <1>2, <1>3, <1>4, <1>5, <1>6, <1>7, <1>8 DEF Loop

\* Cancelling the reconnect loop keeps the types.
LEMMA CancelTypes ==
    ASSUME LoopTypeOK, CancelReconnect,
           UNCHANGED <<reconnectCancel, generation, attemptsLeft, attemptOk>>
    PROVE  LoopTypeOK'
BY DEF LoopTypeOK, CancelReconnect

\* Spending an event keeps the budgets natural numbers.
LEMMA SpendTypes ==
    ASSUME HistTypeOK, NEW e \in Events, Spend(e),
           userOff' \in {"no", "awake", "asleep"}
    PROVE  HistTypeOK'
BY DEF HistTypeOK, Spend

\* The literal events used by the actions are events.
LEMMA EventNames ==
    {"startup", "suspend", "gap", "drop", "connect", "disconnect", "refresh",
     "reconfigure", "monitor_only"} \subseteq Events
BY DEF Events

\* Every action of a request of the user keeps the types.
LEMMA ClientTypes ==
    ASSUME TypeOK, NEW c \in Clients, ClientStarts(c) \/ ClientGoesOn(c)
    PROVE  TypeOK'
<1> USE ActorSorts, Stays, MethodTypes, Moves, StepNames DEF TypeOK, Goto
<1>1. CASE ClientConnect(c)
  BY <1>1, CancelTypes, SpendTypes, EventNames DEF ClientConnect
<1>2. CASE ClientDisconnect(c)
  <2>1. CoreTypeOK'
    BY <1>2 DEF ClientDisconnect, CoreTypeOK
  <2>2. HistTypeOK'
    BY <1>2, SpendTypes, EventNames DEF ClientDisconnect
  <2> QED
    BY <1>2, <2>1, <2>2, CancelTypes DEF ClientDisconnect
<1>3. CASE ClientRefresh(c)
  BY <1>3, SpendTypes, EventNames DEF ClientRefresh, HistTypeOK
<1>4. CASE ClientReconfigure(c)
  BY <1>4, CancelTypes, SpendTypes, EventNames DEF ClientReconfigure, HistTypeOK
<1>5. CASE ClientLock(c)
  <2>1. CoreTypeOK' /\ LockTypeOK'
    BY <1>5 DEF ClientLock, CoreTypeOK, LockTypeOK
  <2> QED
    BY <1>5, <2>1 DEF ClientLock
<1>6. CASE ClientSwitch(c)
  <2>1. CoreTypeOK'
    BY <1>6 DEF ClientSwitch, CoreTypeOK
  <2> QED
    BY <1>6, <2>1 DEF ClientSwitch
<1>7. CASE ClientUnpublish(c)
  BY <1>7 DEF ClientUnpublish, CoreTypeOK
<1>8. CASE ClientClose(c)
  BY <1>8 DEF ClientClose
<1>9. CASE ClientReconcile(c)
  <2>1. CoreTypeOK'
    BY <1>9 DEF ClientReconcile, CoreTypeOK, IsConnected
  <2> QED
    BY <1>9, <2>1 DEF ClientReconcile
<1>10. CASE Connect(c)
  BY <1>10, ConnectTypes DEF Connectors
<1> QED
  BY <1>1, <1>2, <1>3, <1>4, <1>5, <1>6, <1>7, <1>8, <1>9, <1>10
     DEF ClientStarts, ClientGoesOn

\* Loss reports, health checks and arrivals keep the types.
LEMMA LossTypes ==
    ASSUME TypeOK, \/ \E r \in Receivers : Receiver(r)
                   \/ HealthMonitor \/ Arrival
    PROVE  TypeOK'
<1> USE ActorSorts, Stays, MethodTypes, Moves, StepNames DEF TypeOK, Goto
<1>1. ASSUME NEW r \in Receivers, ReceiverReports(r) PROVE TypeOK'
  BY <1>1 DEF ReceiverReports
<1>2. ASSUME NEW a \in Receivers \cup {Health}, LossPublished(a) PROVE TypeOK'
  BY <1>2 DEF LossPublished, CoreTypeOK
<1>3. ASSUME NEW a \in Receivers \cup {Health}, LossRequest(a) PROVE TypeOK'
  <2>1. [pc EXCEPT ![a] = "idle"] \in [Actors -> Steps]
    BY DEF PcTypeOK
  <2>2. MaxAttempts \in 0 .. MaxAttempts
    BY BoundsAssumption
  <2> QED
    BY <1>3, <2>1, <2>2, RequestTypes DEF LossRequest
<1>4. CASE HealthCheck
  BY <1>4 DEF HealthCheck
<1>5. CASE HealthRequests
  <2>1. [pc EXCEPT ![Health] = "idle"] \in [Actors -> Steps]
    BY DEF PcTypeOK
  <2>2. 1 \in 0 .. MaxAttempts
    BY BoundsAssumption
  <2> QED
    BY <1>5, <2>1, <2>2, RequestTypes DEF HealthRequests
<1>6. CASE HealthPasses
  <2>1. CoreTypeOK'
    BY <1>6, BoundsAssumption DEF HealthPasses, CoreTypeOK
  <2> QED
    BY <1>6, <2>1 DEF HealthPasses
<1>7. CASE HealthFails
  <2>1. CoreTypeOK'
    BY <1>7, BoundsAssumption DEF HealthFails, CoreTypeOK
  <2> QED
    BY <1>7, <2>1 DEF HealthFails
<1>8. CASE HealthCloses
  BY <1>8 DEF HealthCloses
<1>9. CASE Arrival
  <2>1. 1 \in 0 .. MaxAttempts
    BY BoundsAssumption
  <2> QED
    BY <1>9, <2>1, RequestTypes DEF Arrival, PcTypeOK
<1> QED
  BY <1>1, <1>2, <1>3, <1>4, <1>5, <1>6, <1>7, <1>8, <1>9 DEF Receiver, HealthMonitor

\* The suspend callback and its cleanup keep the types.
LEMMA PowerTypes ==
    ASSUME TypeOK, \/ SuspendBegins \/ PowerCallback
                   \/ \E k \in Cleanups : Cleanup(k)
    PROVE  TypeOK'
<1> USE ActorSorts, Stays, MethodTypes, Moves, StepNames DEF TypeOK, Goto
<1>1. CASE SuspendBegins
  <2>1. CoreTypeOK' /\ PowerTypeOK'
    BY <1>1 DEF SuspendBegins, CoreTypeOK, PowerTypeOK
  <2> QED
    BY <1>1, <2>1, SpendTypes, EventNames DEF SuspendBegins, HistTypeOK
<1>2. CASE SuspendReads
  BY <1>2 DEF SuspendReads, CoreTypeOK, IsConnected
<1>3. CASE SuspendCancels
  BY <1>3, CancelTypes DEF SuspendCancels
<1>4. CASE SuspendHandsOver
  <2>1. CoreTypeOK' /\ PowerTypeOK'
    BY <1>4, ZenonT(60) DEF SuspendHandsOver, CoreTypeOK, PowerTypeOK
  <2>2. PcTypeOK'
    BY <1>4 DEF SuspendHandsOver, PcTypeOK
  <2> QED
    BY <1>4, <2>1, <2>2 DEF SuspendHandsOver
<1>5. ASSUME NEW k \in Cleanups, CleanupChecks(k) PROVE TypeOK'
  BY <1>5 DEF CleanupChecks
<1>6. ASSUME NEW k \in Cleanups, CleanupCloses(k) PROVE TypeOK'
  BY <1>6 DEF CleanupCloses
<1> QED
  BY <1>1, <1>2, <1>3, <1>4, <1>5, <1>6 DEF PowerCallback, Cleanup

\* Triggering a recovery, throttled or not, keeps the types.
LEMMA TriggerTypes ==
    ASSUME PcTypeOK, CoreTypeOK, PowerTypeOK, NEW force \in BOOLEAN, TriggerRecovery(force),
           asleep' \in BOOLEAN,
           UNCHANGED <<coreConnected, suppressed, suspended, wanted, monitorOnly, hasSuccess,
                       lastNative, healthFailures, suspendHolders>>
    PROVE  PcTypeOK' /\ CoreTypeOK' /\ PowerTypeOK'
<1>1. PcTypeOK'
  BY ActorSorts, Stays, Moves, StepNames DEF TriggerRecovery
<1>2. CoreTypeOK' /\ PowerTypeOK'
  BY ZenonT(60) DEF TriggerRecovery, CoreTypeOK, PowerTypeOK
<1> QED
  BY <1>1, <1>2

\* The resume notice, a detected gap and the recovery keep the types.
LEMMA ResumeTypes ==
    ASSUME TypeOK, ResumeNotice \/ GapDetected \/ CooldownEnds \/ ResumeRecovery
    PROVE  TypeOK'
<1> USE ActorSorts, Stays, MethodTypes, Moves, StepNames DEF TypeOK, Goto
<1>1. CASE ResumeNotice
  BY <1>1, TriggerTypes DEF ResumeNotice
<1>2. CASE GapDetected
  <2>1. asleep' \in BOOLEAN
    BY <1>2 DEF GapDetected, PowerTypeOK
  <2>2. PcTypeOK' /\ CoreTypeOK' /\ PowerTypeOK'
    BY <1>2, <2>1, TriggerTypes DEF GapDetected
  <2> QED
    BY <1>2, <2>2, SpendTypes, EventNames DEF GapDetected, HistTypeOK
<1>3. CASE CooldownEnds
  BY <1>3 DEF CooldownEnds, CoreTypeOK
<1>4. CASE RecoverySwaps
  <2>1. CoreTypeOK' /\ PowerTypeOK'
    BY <1>4 DEF RecoverySwaps, CoreTypeOK, PowerTypeOK
  <2> QED
    BY <1>4, <2>1 DEF RecoverySwaps
<1>5. CASE RecoveryCancels
  <2>1. PowerTypeOK'
    BY <1>5 DEF RecoveryCancels, CoreTypeOK, PowerTypeOK
  <2> QED
    BY <1>5, <2>1, CancelTypes DEF RecoveryCancels
<1>6. CASE RecoveryReads
  <2>1. CoreTypeOK' /\ PowerTypeOK'
    BY <1>6 DEF RecoveryReads, CoreTypeOK, PowerTypeOK, NoResume
  <2>2. PcTypeOK'
    BY <1>6 DEF RecoveryReads
  <2> QED
    BY <1>6, <2>1, <2>2 DEF RecoveryReads
<1>7. CASE RecoveryCloses
  BY <1>7 DEF RecoveryCloses
<1>8. CASE RecoveryUnpublishes
  BY <1>8 DEF RecoveryUnpublishes, CoreTypeOK
<1>9. CASE RecoveryRequests
  <2>1. [pc EXCEPT ![Recovery] = "idle"] \in [Actors -> Steps]
    BY DEF PcTypeOK
  <2>2. MaxAttempts \in 0 .. MaxAttempts
    BY BoundsAssumption
  <2> QED
    BY <1>9, <2>1, <2>2, RequestTypes DEF RecoveryRequests
<1> QED
  BY <1>1, <1>2, <1>3, <1>4, <1>5, <1>6, <1>7, <1>8, <1>9 DEF ResumeRecovery

\* The monitor-only switch and the link keep the types.
LEMMA ModeTypes ==
    ASSUME TypeOK, ModeTurnsOn \/ MonitorOnlyMode
    PROVE  TypeOK'
<1> USE ActorSorts, Stays, MethodTypes, Moves, StepNames DEF TypeOK, Goto
<1>1. CASE ModeTurnsOn
  <2>1. CoreTypeOK'
    BY <1>1 DEF ModeTurnsOn, CoreTypeOK
  <2> QED
    BY <1>1, <2>1, SpendTypes, EventNames DEF ModeTurnsOn, HistTypeOK
<1>2. CASE ModeCancels
  BY <1>2, CancelTypes DEF ModeCancels
<1>3. CASE ModeCloses
  BY <1>3 DEF ModeCloses
<1>4. CASE ModeUnpublishes
  BY <1>4 DEF ModeUnpublishes, CoreTypeOK
<1> QED
  BY <1>1, <1>2, <1>3, <1>4 DEF MonitorOnlyMode

\* The state after Start has the types.
LEMMA TypeInit == Init => TypeOK
<1> SUFFICES ASSUME Init PROVE TypeOK
  OBVIOUS
<1>1. ManagerTypeOK(Actors)
  BY DEF Init, ManagerInit, ManagerTypeOK, Handles
<1>2. CoreTypeOK
  <2>1. healthFailures \in 0 .. FailureThreshold - 1
    BY BoundsAssumption DEF Init
  <2> QED
    BY <2>1 DEF Init, CoreTypeOK
<1>3. LockTypeOK /\ LoopTypeOK
  BY BoundsAssumption DEF Init, LockTypeOK, LoopTypeOK
<1>4. PowerTypeOK
  BY DEF Init, PowerTypeOK, NoResume
<1>5. HistTypeOK
  BY BoundsAssumption DEF Init, HistTypeOK
<1>6. PcTypeOK
  BY StepNames DEF Init, PcTypeOK
<1> QED
  BY <1>1, <1>2, <1>3, <1>4, <1>5, <1>6 DEF TypeOK

\* Every step keeps the types.
LEMMA TypeStep == TypeOK /\ [Next]_vars => TypeOK'
<1> SUFFICES ASSUME TypeOK, [Next]_vars PROVE TypeOK'
  OBVIOUS
<1>1. CASE Startup
  <2>1. MaxAttempts \in 0 .. MaxAttempts
    BY BoundsAssumption
  <2>2. HistTypeOK'
    BY <1>1, SpendTypes, EventNames DEF Startup, TypeOK, HistTypeOK
  <2>3. PcTypeOK' /\ LoopTypeOK'
    BY <1>1, <2>1, RequestTypes DEF Startup, TypeOK, PcTypeOK
  <2> QED
    BY <1>1, <2>2, <2>3, Stays DEF Startup, TypeOK
<1>2. CASE LinkDrop
  <2>1. HistTypeOK'
    BY <1>2, SpendTypes, EventNames DEF LinkDrop, TypeOK, HistTypeOK
  <2> QED
    BY <1>2, <2>1, Stays, ActorSorts, MethodTypes DEF LinkDrop, TypeOK
<1>3. CASE LinkReturn
  BY <1>3, Stays, ActorSorts, MethodTypes DEF LinkReturn, TypeOK
<1>4. CASE UNCHANGED vars
  BY <1>4, Stays DEF vars, TypeOK
<1> QED
  BY <1>1, <1>2, <1>3, <1>4, LoopTypes, ClientTypes, LossTypes, PowerTypes, ResumeTypes,
     ModeTypes DEF Next, Environment, Quiet

\* Every variable keeps its type, whatever the actors, bounds and mixes of events.
THEOREM TypeCorrect == Spec => []TypeOK
<1>1. Init => TypeOK
  BY TypeInit
<1>2. TypeOK /\ [Next]_vars => TypeOK'
  BY TypeStep
<1> QED
  BY <1>1, <1>2, PTL DEF Spec

-----------------------------------------------------------------------------
(* One reconnect loop, and commits nobody can cancel.                      *)
(*                                                                         *)
(* OneReconnectLoop is inductive by itself.  CommitIsNotCancelled is not:  *)
(* it must be known that a loop holds reconnectMutex on every way from its *)
(* check to its deferred unlock, also where it gives the handle back.      *)

CommitOwned ==
    \A l \in Loops :
       /\ pc[l] \in {"finish", "publish", "query", "ready", "stale", "unpublish", "release"}
             => reconnectMutex = l
       /\ Committing(l) => l \notin cancelled

Orderly == OneReconnectLoop /\ CommitOwned

\* A step of an actor that is no reconnect loop leaves every loop where it is.
LEMMA OthersMove ==
    ASSUME TypeOK, Orderly, \A l \in Loops : pc'[l] = pc[l],
           UNCHANGED <<reconnectMutex, reconnectCancel, generation, cancelled>>
    PROVE  Orderly'
BY DEF Orderly, OneReconnectLoop, CommitOwned, Committing

\* Cancelling keeps the order where no loop is in its commit.
LEMMA CancelKeepsOrder ==
    ASSUME TypeOK, Orderly, \A l \in Loops : pc'[l] = pc[l], CancelReconnect,
           UNCHANGED <<reconnectMutex, reconnectCancel, generation>>
    PROVE  Orderly'
BY ActorSorts DEF Orderly, OneReconnectLoop, CommitOwned, Committing, CancelReconnect,
   ReconnectMutexFree, TypeOK, LoopTypeOK

\* A reconnect request keeps the order: it starts a loop only after the last has ended.
LEMMA RequestKeepsOrder ==
    ASSUME TypeOK, Orderly, NEW n, NEW moved \in [Actors -> Steps],
           \A l \in Loops : moved[l] = pc[l],
           RequestReconnect(n, moved), UNCHANGED reconnectMutex
    PROVE  Orderly'
<1>1. CASE UNCHANGED loopVars /\ pc' = moved
  BY <1>1, OthersMove DEF loopVars
<1>2. ASSUME NEW l \in Loops, ReconnectMutexFree, ~LoopStored, pc[l] = "idle",
             reconnectCancel' = l, generation' = l, UNCHANGED <<cancelled, attemptOk>>,
             pc' = [moved EXCEPT ![l] = "check"]
      PROVE  Orderly'
  <2>1. \A m \in Loops : pc[m] = "idle"
    BY <1>2, ActorSorts DEF LoopStored, Orderly, OneReconnectLoop
  <2>2. pc'[l] = "check" /\ \A m \in Loops : m # l => pc'[m] = "idle"
    BY <1>2, <2>1, ActorSorts
  <2> QED
    BY <1>2, <2>2 DEF Orderly, OneReconnectLoop, CommitOwned, Committing
<1> QED
  BY <1>1, <1>2 DEF RequestReconnect

\* A connect run by a loop keeps the loop current and owner of what it owns.
LEMMA ConnectKeepsOrder ==
    ASSUME TypeOK, Orderly, NEW a \in Connectors, Connect(a)
    PROVE  Orderly'
<1>1. pc \in [Actors -> Steps] /\ a \in Actors
  BY ActorSorts DEF TypeOK, PcTypeOK, Connectors
<1>2. UNCHANGED <<reconnectCancel, generation, cancelled>>
  BY DEF Connect, OpenAnswers, OpenBegins, OpenConnects, OpenGivesUp, Finish, FinishUnpublish,
         FinishPublish, QueryAnswers, QueryFails, SettingsReady, Release, loopVars
<1>3. CASE a \in Clients
  <2>1. \A l \in Loops : pc'[l] = pc[l]
    BY <1>1, <1>3, ActorSorts
       DEF Connect, OpenAnswers, OpenBegins, OpenConnects, OpenGivesUp, Outcome, Finish,
           FinishUnpublish, FinishPublish, QueryAnswers, QueryFails, SettingsReady, Release, Goto
  <2>2. UNCHANGED reconnectMutex
    BY <1>3, ActorSorts
       DEF Connect, OpenAnswers, OpenBegins, OpenConnects, OpenGivesUp, Finish, FinishUnpublish,
           FinishPublish, QueryAnswers, QueryFails, SettingsReady, Release, lockVars,
           TypeOK, LockTypeOK
  <2> QED
    BY <1>2, <2>1, <2>2, OthersMove
<1>4. CASE a \in Loops
  <2>1. /\ pc[a] # "idle"
        /\ \A l \in Loops : l # a => pc'[l] = pc[l]
    <3>1. pc[a] # "idle"
      BY DEF Connect, OpenAnswers, OpenBegins, OpenConnects, OpenGivesUp, Finish,
             FinishUnpublish, FinishPublish, QueryAnswers, QueryFails, SettingsReady,
             Release, Goto
    <3>2. \E to : pc' = [pc EXCEPT ![a] = to]
      BY <1>4
         DEF Connect, OpenAnswers, OpenBegins, OpenConnects, OpenGivesUp, Outcome, Finish,
             FinishUnpublish, FinishPublish, QueryAnswers, QueryFails, SettingsReady,
             Release, Goto
    <3> QED
      BY <1>1, <3>1, <3>2, ActorSorts
  <2>2. reconnectCancel = a /\ generation = a /\ \A l \in Loops : l # a => pc[l] = "idle"
    BY <1>4, <2>1 DEF Orderly, OneReconnectLoop
  <2>3. CASE pc'[a] \in {"opening", "capture", "exit"}
    BY <1>2, <1>4, <2>1, <2>2, <2>3 DEF Orderly, OneReconnectLoop, CommitOwned, Committing
  <2>4. CASE UNCHANGED reconnectMutex /\ pc[a] = "finish" /\ pc'[a] \in {"unpublish", "publish"}
    BY <1>2, <1>4, <2>1, <2>2, <2>4 DEF Orderly, OneReconnectLoop, CommitOwned, Committing
  <2>5. CASE UNCHANGED reconnectMutex /\ pc[a] = "publish" /\ pc'[a] = "query"
    BY <1>2, <1>4, <2>1, <2>2, <2>5 DEF Orderly, OneReconnectLoop, CommitOwned, Committing
  <2>6. CASE UNCHANGED reconnectMutex /\ pc[a] = "query" /\ pc'[a] = "ready"
    BY <1>2, <1>4, <2>1, <2>2, <2>6 DEF Orderly, OneReconnectLoop, CommitOwned, Committing
  <2>7. CASE UNCHANGED reconnectMutex /\ pc[a] \in {"unpublish", "query", "ready"}
             /\ pc'[a] = "release"
    BY <1>2, <1>4, <2>1, <2>2, <2>7 DEF Orderly, OneReconnectLoop, CommitOwned, Committing
  <2>8. CASE OpenAnswers(a) \/ OpenBegins(a) \/ OpenConnects(a) \/ OpenGivesUp(a)
    <3>1. pc'[a] \in {"opening", "capture"}
      BY <1>1, <1>4, <2>8, ActorSorts
         DEF OpenAnswers, OpenBegins, OpenConnects, OpenGivesUp, Outcome, Goto
    <3> QED
      BY <2>3, <3>1
  <2>9. CASE Release(a)
    BY <1>1, <1>4, <2>3, <2>9 DEF Release, Goto
  <2>10. CASE Finish(a)
    BY <1>1, <2>4, <2>10 DEF Finish, Goto, lockVars
  <2>11. CASE FinishPublish(a)
    BY <1>1, <2>5, <2>11 DEF FinishPublish, Goto, lockVars
  <2>12. CASE QueryAnswers(a)
    BY <1>1, <2>6, <2>12 DEF QueryAnswers, Goto, lockVars
  <2>13. CASE FinishUnpublish(a) \/ QueryFails(a) \/ SettingsReady(a)
    BY <1>1, <2>7, <2>13 DEF FinishUnpublish, QueryFails, SettingsReady, Goto, lockVars
  <2> QED
    BY <2>8, <2>9, <2>10, <2>11, <2>12, <2>13 DEF Connect
<1> QED
  BY <1>3, <1>4 DEF Connectors

\* Every action of a reconnect loop keeps the order.
LEMMA LoopKeepsOrder ==
    ASSUME TypeOK, Orderly, NEW l \in Loops, Loop(l)
    PROVE  Orderly'
<1>1. pc \in [Actors -> Steps] /\ l \in Actors
  BY ActorSorts DEF TypeOK, PcTypeOK
<1>2. CASE Connect(l)
  BY <1>2, ConnectKeepsOrder DEF Connectors
<1>3. CASE LoopExit(l)
  <2>1. pc[l] = "exit" /\ pc'[l] = "idle" /\ \A m \in Loops : m # l => pc'[m] = pc[m]
    BY <1>1, <1>3, ActorSorts DEF LoopExit, Goto
  <2>2. \A m \in Loops : pc'[m] = "idle"
    BY <2>1 DEF Orderly, OneReconnectLoop
  <2> QED
    BY <2>2 DEF Orderly, OneReconnectLoop, CommitOwned, Committing
<1>4. CASE ~Connect(l) /\ ~LoopExit(l)
  <2>1. pc[l] # "idle" /\ UNCHANGED <<reconnectCancel, generation, cancelled>>
    BY <1>4 DEF Loop, LoopCheck, LoopWakes, LoopAttempt, LoopCapture, LoopComplete,
                LoopDropsStale, Goto, loopVars
  <2>2. \A m \in Loops : m # l => pc[m] = "idle"
    BY <2>1 DEF Orderly, OneReconnectLoop
  <2>3. CASE /\ UNCHANGED reconnectMutex
             /\ pc' = [pc EXCEPT ![l] = "exit"] \/ pc' = [pc EXCEPT ![l] = "wait"]
                \/ pc' = [pc EXCEPT ![l] = "attempt"] \/ pc' = [pc EXCEPT ![l] = "open"]
                \/ pc' = [pc EXCEPT ![l] = "complete"] \/ pc' = [pc EXCEPT ![l] = "check"]
    BY <1>1, <2>1, <2>2, <2>3, ActorSorts DEF Orderly, OneReconnectLoop, CommitOwned, Committing
  <2>4. CASE LoopCheck(l) \/ LoopWakes(l) \/ LoopAttempt(l) \/ LoopCapture(l)
    BY <2>3, <2>4 DEF LoopCheck, LoopWakes, LoopAttempt, LoopCapture, Goto, lockVars
  <2>5. CASE LoopComplete(l)
    <3>1. CASE UNCHANGED reconnectMutex
      BY <2>3, <2>5, <3>1, ActorSorts DEF LoopComplete, Goto, ReconnectMutexFree
    <3>2. CASE /\ AttemptIsCurrent(l) /\ reconnectMutex' = l
               /\ pc' = [pc EXCEPT ![l] = "finish"]
      BY <1>1, <2>1, <2>2, <3>2, ActorSorts
         DEF Orderly, OneReconnectLoop, CommitOwned, Committing, AttemptIsCurrent
    <3>3. CASE reconnectMutex' = l /\ pc' = [pc EXCEPT ![l] = "stale"]
      BY <1>1, <2>1, <2>2, <3>3, ActorSorts
         DEF Orderly, OneReconnectLoop, CommitOwned, Committing
    <3> QED
      BY <2>5, <3>1, <3>2, <3>3 DEF LoopComplete, Goto
  <2>6. CASE LoopDropsStale(l)
    <3>1. pc' = [pc EXCEPT ![l] = "unpublish"] /\ pc[l] = "stale" /\ UNCHANGED reconnectMutex
      BY <2>6 DEF LoopDropsStale, Goto, lockVars
    <3> QED
      BY <1>1, <2>1, <2>2, <3>1, ActorSorts
         DEF Orderly, OneReconnectLoop, CommitOwned, Committing
  <2> QED
    BY <1>4, <2>4, <2>5, <2>6 DEF Loop
<1> QED
  BY <1>2, <1>3, <1>4

\* The steps of everyone else: a move, a cancellation or a request.
LEMMA ClientKeepsOrder ==
    ASSUME TypeOK, Orderly, NEW c \in Clients, ClientStarts(c) \/ ClientGoesOn(c)
    PROVE  Orderly'
<1> USE ActorSorts DEF Goto, TypeOK, PcTypeOK, lockVars, loopVars
<1>1. CASE ClientConnect(c)
  BY <1>1, CancelKeepsOrder DEF ClientConnect
<1>2. CASE ClientDisconnect(c)
  BY <1>2, CancelKeepsOrder DEF ClientDisconnect
<1>3. CASE ClientReconfigure(c)
  BY <1>3, CancelKeepsOrder DEF ClientReconfigure
<1>4. CASE Connect(c)
  BY <1>4, ConnectKeepsOrder DEF Connectors
<1>5. CASE ClientRefresh(c) \/ ClientLock(c) \/ ClientSwitch(c)
  BY <1>5, OthersMove DEF ClientRefresh, ClientLock, ClientSwitch
<1>6. CASE ClientUnpublish(c) \/ ClientClose(c) \/ ClientReconcile(c)
  BY <1>6, OthersMove DEF ClientUnpublish, ClientClose, ClientReconcile
<1> QED
  BY <1>1, <1>2, <1>3, <1>4, <1>5, <1>6 DEF ClientStarts, ClientGoesOn

\* Loss reports, health checks and arrivals keep the order.
LEMMA LossKeepsOrder ==
    ASSUME TypeOK, Orderly, \/ \E r \in Receivers : Receiver(r)
                            \/ HealthMonitor \/ Arrival
    PROVE  Orderly'
<1> USE ActorSorts DEF Goto, TypeOK, PcTypeOK, lockVars, loopVars
<1>1. ASSUME NEW r \in Receivers, ReceiverReports(r) PROVE Orderly'
  BY <1>1, OthersMove DEF ReceiverReports
<1>2. ASSUME NEW a \in Receivers \cup {Health}, LossPublished(a) PROVE Orderly'
  BY <1>2, OthersMove DEF LossPublished
<1>3. ASSUME NEW a \in Receivers \cup {Health}, LossRequest(a) PROVE Orderly'
  <2>1. [pc EXCEPT ![a] = "idle"] \in [Actors -> Steps]
    BY StepNames
  <2> QED
    BY <1>3, <2>1, RequestKeepsOrder DEF LossRequest
<1>4. CASE HealthCheck \/ HealthPasses \/ HealthFails \/ HealthCloses
  BY <1>4, OthersMove DEF HealthCheck, HealthPasses, HealthFails, HealthCloses
<1>5. CASE HealthRequests
  <2>1. [pc EXCEPT ![Health] = "idle"] \in [Actors -> Steps]
    BY StepNames
  <2> QED
    BY <1>5, <2>1, RequestKeepsOrder DEF HealthRequests
<1>6. CASE Arrival
  BY <1>6, RequestKeepsOrder DEF Arrival
<1> QED
  BY <1>1, <1>2, <1>3, <1>4, <1>5, <1>6 DEF Receiver, HealthMonitor

\* Suspend and resume keep the order: what they cancel is not in its commit.
LEMMA PowerKeepsOrder ==
    ASSUME TypeOK, Orderly,
           \/ SuspendBegins \/ PowerCallback \/ \E k \in Cleanups : Cleanup(k)
           \/ ResumeNotice \/ GapDetected \/ CooldownEnds \/ ResumeRecovery
    PROVE  Orderly'
<1> USE ActorSorts DEF Goto, TypeOK, PcTypeOK, lockVars, loopVars
<1>1. CASE SuspendBegins \/ SuspendReads
  BY <1>1, OthersMove DEF SuspendBegins, SuspendReads
<1>2. CASE SuspendHandsOver
  BY <1>2, OthersMove DEF SuspendHandsOver
<1>3. CASE \E k \in Cleanups : Cleanup(k)
  BY <1>3, OthersMove DEF Cleanup, CleanupChecks, CleanupCloses
<1>4. CASE ResumeNotice \/ GapDetected \/ CooldownEnds
  BY <1>4, OthersMove DEF ResumeNotice, GapDetected, CooldownEnds, TriggerRecovery
<1>5. CASE SuspendCancels \/ RecoveryCancels
  BY <1>5, CancelKeepsOrder DEF SuspendCancels, RecoveryCancels
<1>6. CASE RecoverySwaps \/ RecoveryReads \/ RecoveryCloses \/ RecoveryUnpublishes
  BY <1>6, OthersMove DEF RecoverySwaps, RecoveryReads, RecoveryCloses, RecoveryUnpublishes
<1>7. CASE RecoveryRequests
  <2>1. [pc EXCEPT ![Recovery] = "idle"] \in [Actors -> Steps]
    BY StepNames
  <2> QED
    BY <1>7, <2>1, RequestKeepsOrder DEF RecoveryRequests
<1> QED
  BY <1>1, <1>2, <1>3, <1>4, <1>5, <1>6, <1>7 DEF PowerCallback, ResumeRecovery

\* The monitor-only switch keeps the order.
LEMMA ModeKeepsOrder ==
    ASSUME TypeOK, Orderly, ModeTurnsOn \/ MonitorOnlyMode
    PROVE  Orderly'
<1> USE ActorSorts DEF Goto, TypeOK, PcTypeOK, lockVars, loopVars
<1>1. CASE ModeTurnsOn \/ ModeCloses \/ ModeUnpublishes
  BY <1>1, OthersMove DEF ModeTurnsOn, ModeCloses, ModeUnpublishes
<1>2. CASE ModeCancels
  BY <1>2, CancelKeepsOrder DEF ModeCancels
<1> QED
  BY <1>1, <1>2 DEF MonitorOnlyMode

\* Every step keeps the order.
LEMMA OrderStep == TypeOK /\ Orderly /\ [Next]_vars => Orderly'
<1> SUFFICES ASSUME TypeOK, Orderly, [Next]_vars PROVE Orderly'
  OBVIOUS
<1>1. CASE Startup
  BY <1>1, RequestKeepsOrder DEF Startup, TypeOK, PcTypeOK, lockVars
<1>2. CASE LinkDrop \/ LinkReturn
  BY <1>2, OthersMove DEF LinkDrop, LinkReturn, lockVars, loopVars
<1>3. CASE UNCHANGED vars
  BY <1>3, OthersMove DEF vars, lockVars, loopVars
<1> QED
  BY <1>1, <1>2, <1>3, LoopKeepsOrder, ClientKeepsOrder, LossKeepsOrder, PowerKeepsOrder,
     ModeKeepsOrder DEF Next, Environment, Quiet

\* After Start there is no reconnect loop.
LEMMA OrderInit == Init => Orderly
BY ActorSorts DEF Init, Orderly, OneReconnectLoop, CommitOwned, Committing

\* The inductive invariant of the reconnect loops (requestReconnect,
\* completeReconnectAttempt): at most one has not ended, and one that commits is
\* current and owns reconnectMutex.
THEOREM OrderHolds == Spec => []Orderly
<1>1. Init => Orderly
  BY OrderInit
<1>2. TypeOK /\ Orderly /\ [Next]_vars => Orderly'
  BY OrderStep
<1> QED
  BY <1>1, <1>2, TypeCorrect, PTL DEF Spec

\* At most one reconnect loop is alive: requestReconnect never starts one while
\* another, cancelled or not, has not reached its deferred end.
THEOREM SingleLoop == Spec => []OneReconnectLoop
<1>1. Orderly => OneReconnectLoop
  BY DEF Orderly
<1> QED
  BY <1>1, OrderHolds, PTL

\* A reconnect commit holds reconnectMutex throughout, and nothing cancels the
\* loop between the check of completeReconnectAttempt and the end of its commit.
THEOREM CommitsStand == Spec => []CommitIsNotCancelled
<1>1. Orderly => CommitIsNotCancelled
  BY DEF Orderly, CommitOwned, CommitIsNotCancelled, Committing
<1> QED
  BY <1>1, OrderHolds, PTL

-----------------------------------------------------------------------------
(* Whose handle is open.                                                   *)
(*                                                                         *)
(* An attempt that has been overtaken closes by the generation it has read *)
(* after its connect call.  That this is always the handle its call has    *)
(* opened or, for a compatibility transport, found open rests on           *)
(* connectMutex, which keeps others from opening between the call and the  *)
(* reading, and on every request having closed what was open before it     *)
(* connects.  Who was told last that the handle is open stands for its     *)
(* owner: for a native transport that is always the opener.  The switch to *)
(* monitor-only mode rests on the same facts: whoever opens a handle after *)
(* the switch has looked is known, and is on its way to close it.          *)

\* From disconnectForSwitch or the connect call up to the end of the call and,
\* for a loop, the reading of the generation, connectMutex is held.
MutexHeld ==
    \A a \in Connectors : pc[a] \in {"switch", "open", "opening", "capture"} => connectMutex = a

\* Whom a connect call has told last that the handle is open.
ToldLast == IF adoptedBy # NoOne THEN adoptedBy ELSE openedBy

\* The attempt of this loop has a handle it may close by its generation.
Vouches(l) ==
    \/ pc[l] = "capture" /\ attemptOk[l]
    \/ pc[l] = "complete" /\ attemptOk[l] /\ l \in genHolders
    \/ pc[l] = "stale" /\ l \in genHolders

\* Nothing is open during a connect call, nor when a request begins one, and
\* what a loop may close is what its own call has opened or found open.
OpenersKnown ==
    /\ mgrLock # NoOne => ~IsConnected
    /\ \A c \in Clients : pc[c] = "open" => ~IsConnected
    /\ \A l \in Loops : Vouches(l) /\ IsConnected => ToldLast = l

\* refreshMonitorOnlyRuntime has looked at the connection.
ModeLooked == monitorOnly /\ pc[Mode] \in {"unpublish", "idle"}

\* The handle is this actor's, and its next steps look at monitor-only mode.
WillLook(a) == ToldLast = a /\ (pc[a] = "finish" \/ (a \in Loops /\ Vouches(a)))

\* Where the switch is, and what it leaves: writes are blocked, only native
\* connect calls go on, and an open handle is one that somebody will close.
ModeInv ==
    /\ pc[Mode] \in {"idle", "cancel", "close", "unpublish"}
    /\ pc[Mode] # "idle" => monitorOnly
    /\ monitorOnly /\ pc[Mode] # "cancel" => writesBlocked
    /\ ModeLooked /\ mgrLock # NoOne => IsNative
    /\ ModeLooked /\ IsConnected => \E a \in Connectors : WillLook(a)

HandleInv == MutexHeld /\ OpenersKnown /\ ModeInv

\* The steps in which a connector matters to HandleInv.
Engaged == {"switch", "open", "opening", "capture", "complete", "stale", "finish"}

\* The four actors of which there is one are different from each other and from
\* all others.
LEMMA SingleSorts ==
    /\ Mode \in Actors /\ Mode \notin Connectors /\ Mode \notin Receivers /\ Mode \notin Cleanups
    /\ Power \notin Connectors /\ Recovery \notin Connectors /\ Health \notin Connectors
    /\ Power \notin Receivers /\ Recovery \notin Receivers
    /\ Power \notin Cleanups /\ Recovery \notin Cleanups /\ Health \notin Cleanups
    /\ Mode # Power /\ Mode # Recovery /\ Mode # Health
    /\ Power # Recovery /\ Power # Health /\ Recovery # Health
    /\ NoOne \notin Connectors /\ Connectors \subseteq Actors
<1>1. ASSUME NEW x, NEW y, NEW z PROVE Cardinality({x, y, z}) # 4
  <2>1. IsFiniteSet({x}) /\ Cardinality({x}) = 1
    BY FS_Singleton
  <2>2. IsFiniteSet({x} \cup {y}) /\ Cardinality({x} \cup {y}) \in {1, 2}
    BY <2>1, FS_AddElement
  <2>3. Cardinality(({x} \cup {y}) \cup {z}) \in {1, 2, 3}
    BY <2>2, FS_AddElement
  <2>4. ({x} \cup {y}) \cup {z} = {x, y, z}
    OBVIOUS
  <2> QED
    BY <2>3, <2>4
<1>2. Cardinality({Power, Recovery, Health, Mode}) = 4
  BY ActorsAssumption
<1>3. Mode # Power /\ Mode # Recovery /\ Mode # Health
  <2>1. ASSUME Mode \in {Power, Recovery, Health}
        PROVE  {Power, Recovery, Health, Mode} = {Power, Recovery, Health}
    BY <2>1
  <2> QED
    BY <1>1, <1>2, <2>1
<1>4. Power # Recovery /\ Power # Health
  <2>1. ASSUME Power \in {Recovery, Health}
        PROVE  {Power, Recovery, Health, Mode} = {Recovery, Health, Mode}
    BY <2>1
  <2> QED
    BY <1>1, <1>2, <2>1
<1>5. Recovery # Health
  <2>1. ASSUME Recovery = Health
        PROVE  {Power, Recovery, Health, Mode} = {Power, Health, Mode}
    BY <2>1
  <2> QED
    BY <1>1, <1>2, <2>1
<1> QED
  BY <1>3, <1>4, <1>5, ActorsAssumption DEF Connectors, Actors

\* A step that opens nothing, keeps the holders of connectMutex and leaves those
\* that matter where they are, keeps the invariant.
LEMMA BystandersKeep ==
    ASSUME TypeOK, HandleInv,
           \A a \in Connectors : pc'[a] = pc[a] \/ {pc[a], pc'[a]} \cap Engaged = {},
           \A a \in Connectors : connectMutex = a /\ pc[a] \in Engaged => connectMutex' = a,
           UNCHANGED <<attemptOk, transport, monitorOnly>>,
           pc'[Mode] = pc[Mode],
           writesBlocked => writesBlocked',
           mgrLock' \in {mgrLock, NoOne},
           handle' # "closed" =>
              /\ handle # "closed" /\ UNCHANGED <<openedBy, adoptedBy>>
              /\ \A l \in Loops : pc[l] \in Engaged => (l \in genHolders' <=> l \in genHolders)
    PROVE  HandleInv'
<1> USE DEF HandleInv, IsConnected, Engaged, Connectors
<1>1. MutexHeld'
  BY DEF MutexHeld
<1>2. OpenersKnown'
  <2>1. \A l \in Loops : Vouches(l)' /\ IsConnected' => Vouches(l)
    BY DEF Vouches
  <2> QED
    BY <2>1 DEF ToldLast, OpenersKnown
<1>3. ModeInv'
  <2>1. \A a \in Connectors : WillLook(a) /\ IsConnected' => WillLook(a)'
    BY DEF ToldLast, WillLook, Vouches
  <2>2. ModeLooked' <=> ModeLooked
    BY DEF ModeLooked
  <2>3. (ModeLooked /\ mgrLock # NoOne => IsNative)'
    BY <2>2 DEF ModeInv, IsNative
  <2>4. (ModeLooked /\ IsConnected => \E a \in Connectors : WillLook(a))'
    BY <2>1, <2>2 DEF ModeInv
  <2> QED
    BY <2>3, <2>4 DEF ModeInv
<1> QED
  BY <1>1, <1>2, <1>3

\* What the conditions of BystandersKeep say of the handle.
HandleKept ==
    /\ UNCHANGED <<transport, mgrLock>>
    /\ writesBlocked => writesBlocked'
    /\ handle' # "closed" =>
          handle # "closed" /\ UNCHANGED <<openedBy, adoptedBy, genHolders>>

\* Everything of the manager but a connect call and UnblockWrites keeps the
\* handle or closes it.
LEMMA MethodsKeepHandle ==
    ASSUME NEW a,
           \/ Disconnect \/ DisconnectIfCurrent(a) \/ StoreWritesBlocked
           \/ LinkDrops \/ LinkReturns \/ UNCHANGED managerVars
    PROVE  HandleKept
BY DEF HandleKept, Disconnect, DisconnectIfCurrent, StoreWritesBlocked, LinkDrops, LinkReturns,
       CloseHandle, managerVars

\* A step of somebody who neither connects nor switches, and that may start a
\* reconnect loop.
Bystands ==
    /\ HandleKept
    /\ \A a \in Connectors :
          pc'[a] = pc[a] \/ (a \in Loops /\ pc[a] = "idle" /\ pc'[a] = "check")
    /\ pc'[Mode] = pc[Mode]
    /\ UNCHANGED <<connectMutex, attemptOk, monitorOnly>>

\* Such a step keeps the invariant.
LEMMA OthersKeepHandle ==
    ASSUME TypeOK, HandleInv, Bystands
    PROVE  HandleInv'
BY BystandersKeep DEF Bystands, HandleKept, Engaged

\* A reconnect request of another actor.
LEMMA RequestBystands ==
    ASSUME NEW n, NEW moved \in [Actors -> Steps],
           \A a \in Connectors \cup {Mode} : moved[a] = pc[a],
           RequestReconnect(n, moved),
           UNCHANGED <<managerVars, coreVars, lockVars>>
    PROVE  Bystands
<1>1. HandleKept /\ UNCHANGED <<connectMutex, attemptOk, monitorOnly>>
  BY MethodsKeepHandle DEF RequestReconnect, loopVars, coreVars, lockVars
<1>2. CASE pc' = moved
  BY <1>1, <1>2 DEF Bystands
<1>3. ASSUME NEW l \in Loops, pc[l] = "idle", pc' = [moved EXCEPT ![l] = "check"]
      PROVE  Bystands
  <2>1. \A a \in Connectors :
           pc'[a] = pc[a] \/ (a \in Loops /\ pc[a] = "idle" /\ pc'[a] = "check")
    BY <1>3, SingleSorts
  <2>2. pc'[Mode] = pc[Mode]
    BY <1>3, SingleSorts DEF Connectors
  <2> QED
    BY <1>1, <2>1, <2>2 DEF Bystands
<1> QED
  BY <1>2, <1>3 DEF RequestReconnect

\* A move of an actor that is neither a connector nor the switch.
LEMMA OtherMoves ==
    ASSUME PcTypeOK, NEW b \in Actors, b \notin Connectors, b # Mode,
           NEW to, pc' = [pc EXCEPT ![b] = to]
    PROVE  \A a \in Connectors \cup {Mode} : pc'[a] = pc[a]
BY SingleSorts DEF PcTypeOK

\* The actors that neither connect nor switch.
LEMMA OtherSorts ==
    \A b \in Receivers \cup Cleanups \cup {Power, Recovery, Health} :
       b \in Actors /\ b \notin Connectors /\ b # Mode
BY SingleSorts, ActorsAssumption DEF Connectors, Actors

\* Their moves, when they keep the handle.
LEMMA OtherBystands ==
    ASSUME PcTypeOK, NEW b \in Receivers \cup Cleanups \cup {Power, Recovery, Health}, NEW to,
           pc' = [pc EXCEPT ![b] = to], HandleKept,
           UNCHANGED <<connectMutex, attemptOk, monitorOnly>>
    PROVE  Bystands
<1>1. \A a \in Connectors \cup {Mode} : pc'[a] = pc[a]
  BY OtherMoves, OtherSorts
<1> QED
  BY <1>1 DEF Bystands

\* A reconnect request with which such an actor comes to its end.
LEMMA LastRequest ==
    ASSUME PcTypeOK, NEW b \in Receivers \cup Cleanups \cup {Power, Recovery, Health},
           NEW n, RequestReconnect(n, [pc EXCEPT ![b] = "idle"]),
           UNCHANGED <<managerVars, coreVars, lockVars>>
    PROVE  Bystands
<1> DEFINE moved == [pc EXCEPT ![b] = "idle"]
<1>1. moved \in [Actors -> Steps] /\ \A a \in Connectors \cup {Mode} : moved[a] = pc[a]
  BY StepNames, OtherSorts, SingleSorts DEF PcTypeOK
<1> QED
  BY <1>1, RequestBystands

\* Lost handles, health checks and arrivals.
LEMMA LossBystands ==
    ASSUME TypeOK, \/ \E r \in Receivers : Receiver(r)
                   \/ HealthMonitor \/ Arrival \/ Startup
    PROVE  Bystands
<1>1. PcTypeOK
  BY DEF TypeOK
<1>2. ASSUME NEW a \in Receivers \cup {Health}, LossRequest(a) PROVE Bystands
  BY <1>1, <1>2, LastRequest DEF LossRequest
<1>3. CASE HealthRequests
  BY <1>1, <1>3, LastRequest DEF HealthRequests
<1>4. CASE Arrival \/ Startup
  BY <1>1, <1>4, RequestBystands DEF Arrival, Startup, PcTypeOK
<1>6. ASSUME NEW r \in Receivers, ReceiverReports(r) PROVE Bystands
  BY <1>1, <1>6, OtherBystands, MethodsKeepHandle
     DEF ReceiverReports, ReceiverGivesUp, Goto, coreVars, lockVars, loopVars
<1>7. ASSUME NEW a \in Receivers \cup {Health}, LossPublished(a) PROVE Bystands
  BY <1>1, <1>7, OtherBystands, MethodsKeepHandle DEF LossPublished, Goto, lockVars, loopVars
<1>8. CASE HealthCheck \/ HealthPasses \/ HealthFails \/ HealthCloses
  <2>1. HandleKept
    BY <1>8, MethodsKeepHandle DEF HealthCheck, HealthPasses, HealthFails, HealthCloses
  <2>2. \E to : pc' = [pc EXCEPT ![Health] = to]
    BY <1>8 DEF HealthCheck, HealthPasses, HealthFails, HealthCloses, Goto
  <2>3. UNCHANGED <<connectMutex, attemptOk, monitorOnly>>
    BY <1>8 DEF HealthCheck, HealthPasses, HealthFails, HealthCloses, coreVars, lockVars, loopVars
  <2> QED
    BY <1>1, <2>1, <2>2, <2>3, OtherBystands
<1> QED
  BY <1>2, <1>3, <1>4, <1>6, <1>7, <1>8 DEF Receiver, HealthMonitor

\* Suspend, resume and the link.
LEMMA PowerBystands ==
    ASSUME TypeOK,
           \/ SuspendBegins \/ PowerCallback \/ \E k \in Cleanups : Cleanup(k)
           \/ ResumeNotice \/ GapDetected \/ CooldownEnds \/ ResumeRecovery
           \/ LinkDrop \/ LinkReturn
    PROVE  Bystands
<1> USE DEF coreVars, lockVars, loopVars, powerVars
<1>1. PcTypeOK
  BY DEF TypeOK
<1>2. CASE RecoveryRequests
  BY <1>1, <1>2, LastRequest DEF RecoveryRequests
<1>4. CASE SuspendBegins \/ SuspendReads \/ SuspendCancels
  BY <1>1, <1>4, OtherBystands, MethodsKeepHandle
     DEF SuspendBegins, SuspendReads, SuspendCancels, CancelReconnect, Goto
<1>5. CASE SuspendHandsOver
  <2>1. \A a \in Connectors \cup {Mode} : pc'[a] = pc[a]
    BY <1>1, <1>5, OtherSorts, SingleSorts DEF SuspendHandsOver, PcTypeOK
  <2>2. HandleKept /\ UNCHANGED <<connectMutex, attemptOk, monitorOnly>>
    BY <1>5, MethodsKeepHandle DEF SuspendHandsOver
  <2> QED
    BY <2>1, <2>2 DEF Bystands
<1>6. ASSUME NEW k \in Cleanups, Cleanup(k) PROVE Bystands
  BY <1>1, <1>6, OtherBystands, MethodsKeepHandle DEF Cleanup, CleanupChecks, CleanupCloses, Goto
<1>7. CASE ResumeNotice \/ GapDetected
  <2>1. \A a \in Connectors \cup {Mode} : pc'[a] = pc[a]
    BY <1>1, <1>7, OtherSorts, OtherMoves DEF ResumeNotice, GapDetected, TriggerRecovery
  <2>2. HandleKept /\ UNCHANGED <<connectMutex, attemptOk, monitorOnly>>
    BY <1>7, MethodsKeepHandle DEF ResumeNotice, GapDetected
  <2> QED
    BY <2>1, <2>2 DEF Bystands
<1>8. CASE CooldownEnds \/ LinkDrop \/ LinkReturn
  <2>1. HandleKept /\ UNCHANGED <<connectMutex, attemptOk, monitorOnly, pc>>
    BY <1>8, MethodsKeepHandle DEF CooldownEnds, LinkDrop, LinkReturn
  <2> QED
    BY <2>1 DEF Bystands
<1>9. CASE RecoverySwaps \/ RecoveryCancels \/ RecoveryReads
  BY <1>1, <1>9, OtherBystands, MethodsKeepHandle
     DEF RecoverySwaps, RecoveryCancels, CancelReconnect, RecoveryReads, Goto
<1>10. CASE RecoveryCloses \/ RecoveryUnpublishes
  BY <1>1, <1>10, OtherBystands, MethodsKeepHandle DEF RecoveryCloses, RecoveryUnpublishes, Goto
<1> QED
  BY <1>2, <1>4, <1>5, <1>6, <1>7, <1>8, <1>9, <1>10 DEF PowerCallback, ResumeRecovery

\* The steps of the mode switch keep the invariant.
LEMMA ModeKeepsHandle ==
    ASSUME TypeOK, HandleInv, ModeTurnsOn \/ MonitorOnlyMode
    PROVE  HandleInv'
<1> USE DEF HandleInv, coreVars, lockVars, loopVars, powerVars, Goto
<1>1. /\ \A a \in Connectors : pc'[a] = pc[a]
      /\ pc \in [Actors -> Steps] /\ Mode \in Actors
      /\ UNCHANGED <<connectMutex, attemptOk, transport, mgrLock>>
      /\ handle' # "closed" => handle # "closed" /\ UNCHANGED <<openedBy, adoptedBy, genHolders>>
  <2>1. pc \in [Actors -> Steps] /\ Mode \in Actors
    BY SingleSorts DEF TypeOK, PcTypeOK
  <2>2. \E to : pc' = [pc EXCEPT ![Mode] = to]
    BY DEF ModeTurnsOn, MonitorOnlyMode, ModeCancels, ModeCloses, ModeUnpublishes
  <2>3. HandleKept /\ UNCHANGED <<connectMutex, attemptOk>>
    BY MethodsKeepHandle
       DEF ModeTurnsOn, MonitorOnlyMode, ModeCancels, CancelReconnect, ModeCloses, ModeUnpublishes
  <2> QED
    BY <2>1, <2>2, <2>3, SingleSorts DEF HandleKept
<1>2. MutexHeld'
  BY <1>1 DEF MutexHeld
<1>3. OpenersKnown'
  BY <1>1 DEF ToldLast, OpenersKnown, Vouches, IsConnected, Connectors
<1>4. \A a \in Connectors : WillLook(a) /\ IsConnected' => WillLook(a)'
  BY <1>1 DEF ToldLast, WillLook, Vouches, IsConnected
<1>5. CASE ModeTurnsOn
  <2>1. pc'[Mode] = "cancel" /\ monitorOnly'
    BY <1>1, <1>5 DEF ModeTurnsOn
  <2> QED
    BY <1>2, <1>3, <2>1 DEF ModeInv, ModeLooked
<1>6. CASE ModeCancels
  <2>1. pc[Mode] = "cancel" /\ pc'[Mode] = "close" /\ writesBlocked' /\ monitorOnly' = monitorOnly
    BY <1>1, <1>6 DEF ModeCancels, StoreWritesBlocked
  <2> QED
    BY <1>2, <1>3, <2>1 DEF ModeInv, ModeLooked
<1>7. CASE ModeCloses
  <2>1. /\ pc[Mode] = "close" /\ pc'[Mode] \in {"unpublish", "idle"}
        /\ UNCHANGED <<monitorOnly, writesBlocked>>
        /\ mgrLock' = NoOne /\ ~IsConnected'
    BY <1>1, <1>7 DEF ModeCloses, Disconnect, CloseHandle, ManagerFree, IsConnected, managerVars
  <2> QED
    BY <1>2, <1>3, <2>1 DEF ModeInv, ModeLooked
<1>8. CASE ModeUnpublishes
  <2>1. /\ pc[Mode] = "unpublish" /\ pc'[Mode] = "idle"
        /\ UNCHANGED <<monitorOnly, writesBlocked, mgrLock, transport, handle>>
    BY <1>1, <1>8 DEF ModeUnpublishes, managerVars
  <2> QED
    BY <1>2, <1>3, <1>4, <2>1 DEF ModeInv, ModeLooked, IsNative, IsConnected
<1> QED
  BY <1>5, <1>6, <1>7, <1>8 DEF MonitorOnlyMode

\* A move of one connector.
LEMMA ConnectorMoves ==
    ASSUME PcTypeOK, NEW a \in Connectors, NEW to, pc' = [pc EXCEPT ![a] = to]
    PROVE  /\ pc'[a] = to /\ pc'[Mode] = pc[Mode]
           /\ \A b \in Connectors : b # a => pc'[b] = pc[b]
BY SingleSorts DEF PcTypeOK

\* Only the holder of connectMutex is where it must be held.
LEMMA OneHolder ==
    ASSUME HandleInv, NEW a \in Connectors, pc[a] \in {"switch", "open", "opening", "capture"}
    PROVE  /\ connectMutex = a
           /\ \A b \in Connectors : b # a => pc[b] \notin {"switch", "open", "opening", "capture"}
BY DEF HandleInv, MutexHeld

\* The connect calls keep the invariant.
LEMMA OpensKeepHandle ==
    ASSUME TypeOK, Orderly, HandleInv, NEW a \in Connectors,
           OpenAnswers(a) \/ OpenBegins(a) \/ OpenConnects(a) \/ OpenGivesUp(a)
    PROVE  HandleInv'
<1> USE DEF HandleInv, coreVars, lockVars, loopVars, powerVars, Goto
<1>1. /\ pc[a] \in {"open", "opening"}
      /\ connectMutex = a
      /\ \A b \in Connectors : b # a => pc[b] \notin {"switch", "open", "opening", "capture"}
  BY OneHolder DEF OpenAnswers, OpenBegins, OpenConnects, OpenGivesUp
<1>2. /\ a \in Loops => pc'[a] \in {"opening", "capture"}
      /\ a \in Clients => pc'[a] \in {"opening", "finish", "release"}
      /\ pc'[Mode] = pc[Mode]
      /\ \A b \in Connectors : b # a => pc'[b] = pc[b]
  <2>1. PcTypeOK
    BY DEF TypeOK
  <2>2. \E to : /\ pc' = [pc EXCEPT ![a] = to]
                /\ a \in Loops => to \in {"opening", "capture"}
                /\ a \in Clients => to \in {"opening", "finish", "release"}
    BY ActorSorts
       DEF OpenAnswers, OpenBegins, OpenConnects, OpenGivesUp, Outcome, Connectors
  <2> QED
    BY <2>1, <2>2, ConnectorMoves
<1>3. UNCHANGED <<connectMutex, monitorOnly, transport, writesBlocked>>
  BY DEF OpenAnswers, OpenBegins, OpenConnects, OpenGivesUp, AdoptOpen, BeginOpen,
         OpenSucceeds, OpenFails, managerVars
<1>4. /\ \A l \in Loops : l # a => attemptOk'[l] = attemptOk[l]
      /\ a \in Loops => \A l \in Loops : l # a => pc[l] = "idle"
  <2>1. \A l \in Loops : l # a => attemptOk'[l] = attemptOk[l]
    BY DEF OpenAnswers, OpenBegins, OpenConnects, OpenGivesUp, Outcome, TypeOK, LoopTypeOK
  <2>2. a \in Loops => \A l \in Loops : l # a => pc[l] = "idle"
    BY <1>1 DEF Orderly, OneReconnectLoop
  <2> QED
    BY <2>1, <2>2
<1>5. MutexHeld'
  BY <1>1, <1>2, <1>3 DEF MutexHeld

<1>6. CASE OpenBegins(a)
  <2>1. /\ ~IsConnected' /\ mgrLock' = a
        /\ ModeLooked => IsNative
        /\ UNCHANGED <<monitorOnly, transport, writesBlocked>>
    BY <1>6 DEF OpenBegins, BeginOpen, CloseHandle, ConnectRefused, IsConnected, ModeLooked, ModeInv
  <2> QED
    BY <1>2, <1>5, <2>1 DEF OpenersKnown, ModeInv, ModeLooked, IsNative
<1>7. CASE OpenGivesUp(a)
  <2>1. ~IsConnected' /\ mgrLock' = NoOne /\ UNCHANGED <<monitorOnly, transport, writesBlocked>>
    BY <1>7, SingleSorts DEF OpenGivesUp, OpenFails, OpenersKnown, IsConnected
  <2> QED
    BY <1>2, <1>5, <2>1 DEF OpenersKnown, ModeInv, ModeLooked
<1>8. CASE OpenConnects(a)
  <2>1. /\ mgrLock = a /\ a # NoOne /\ mgrLock' = NoOne
        /\ ToldLast' = a /\ genHolders' = {}
    BY <1>8, SingleSorts DEF ToldLast, OpenConnects, OpenSucceeds
  <2>2. OpenersKnown'
    <3>1. \A c \in Clients : pc'[c] # "open"
      BY <1>1, <1>2, ActorSorts DEF Connectors
    <3>2. \A l \in Loops : l # a => ~Vouches(l)'
      BY <1>1, <1>2, <2>1 DEF Vouches, Connectors
    <3> QED
      BY <2>1, <3>1, <3>2 DEF OpenersKnown
  <2>3. ModeLooked => WillLook(a)'
    <3>1. ASSUME ModeLooked PROVE Outcome(a, TRUE)
      BY <1>8, <2>1, <3>1 DEF OpenConnects, ModeInv
    <3>2. ASSUME Outcome(a, TRUE) PROVE WillLook(a)'
      BY <1>1, <2>1, <3>2, SingleSorts
         DEF Outcome, WillLook, Vouches, Connectors, TypeOK, LoopTypeOK, PcTypeOK
    <3> QED
      BY <3>1, <3>2
  <2> QED
    BY <1>2, <1>3, <1>5, <2>1, <2>2, <2>3 DEF ModeInv, ModeLooked
<1>9. CASE OpenAnswers(a) /\ UNCHANGED managerVars /\ Outcome(a, FALSE)
  <2>1. pc[a] = "open"
    BY <1>9 DEF OpenAnswers
  <2>2. a \in Loops => ~attemptOk'[a] /\ pc'[a] = "capture"
    BY <1>2, <1>9, <2>1, SingleSorts DEF Outcome, TypeOK, LoopTypeOK, PcTypeOK
  <2>3. a \in Clients => pc'[a] = "release"
    BY <1>9, <2>1, ActorSorts DEF Outcome, TypeOK, PcTypeOK
  <2>4. \A b \in Connectors : b # a =>
           (WillLook(b) => WillLook(b)') /\ (b \in Loops => (Vouches(b)' => Vouches(b)))
    BY <1>2, <1>4, <1>9 DEF ToldLast, WillLook, Vouches, managerVars
  <2>5. ~WillLook(a) /\ (a \in Loops => ~Vouches(a)')
    BY <2>1, <2>2 DEF WillLook, Vouches
  <2>6. OpenersKnown'
    BY <1>2, <1>9, <2>2, <2>3, <2>4, <2>5
       DEF ToldLast, OpenersKnown, managerVars, IsConnected, Connectors
  <2>7. (ModeLooked /\ IsConnected => \E b \in Connectors : WillLook(b))'
    BY <1>2, <1>3, <1>9, <2>4, <2>5 DEF ModeInv, ModeLooked, managerVars, IsConnected
  <2> QED
    BY <1>2, <1>3, <1>5, <1>9, <2>6, <2>7 DEF ModeInv, ModeLooked, managerVars, IsNative
<1>10. CASE OpenAnswers(a) /\ AdoptOpen(a) /\ Outcome(a, TRUE)
  <2>1. /\ IsConnected /\ ToldLast' = a
        /\ UNCHANGED <<handle, mgrLock, genHolders>>
    BY <1>10, SingleSorts DEF ToldLast, AdoptOpen
  <2>2. a \in Loops
    BY <1>10, <2>1 DEF OpenAnswers, OpenersKnown, Connectors
  <2>3. WillLook(a)'
    BY <1>10, <2>1, <2>2, SingleSorts DEF Outcome, WillLook, Vouches, TypeOK, LoopTypeOK, PcTypeOK
  <2>4. \A l \in Loops : l # a => ~Vouches(l)'
    BY <1>2, <1>4, <2>2 DEF Vouches, Connectors
  <2>5. \A c \in Clients : pc'[c] # "open"
    BY <1>1, <1>2, <2>2, ActorSorts DEF Connectors
  <2>6. OpenersKnown'
    BY <1>10, <2>1, <2>4, <2>5 DEF OpenersKnown, AdoptOpen, ManagerFree
  <2> QED
    BY <1>2, <1>3, <1>5, <2>1, <2>3, <2>6 DEF ModeInv, ModeLooked, IsNative
<1> QED
  BY <1>6, <1>7, <1>8, <1>9, <1>10 DEF OpenAnswers

\* The rest of a connect keeps the invariant: Finish looks at monitor-only mode.
LEMMA ConnectKeepsHandle ==
    ASSUME TypeOK, Orderly, HandleInv, NEW a \in Connectors, Connect(a)
    PROVE  HandleInv'
<1> USE DEF coreVars, lockVars, loopVars, powerVars, Goto
<1>1. PcTypeOK
  BY DEF TypeOK
<1>2. CASE OpenAnswers(a) \/ OpenBegins(a) \/ OpenConnects(a) \/ OpenGivesUp(a)
  BY <1>2, OpensKeepHandle
<1>3. CASE Finish(a)
  <2>1. PICK to \in {"unpublish", "publish"} :
           /\ pc[a] = "finish" /\ pc' = [pc EXCEPT ![a] = to]
           /\ IF to = "unpublish" THEN monitorOnly /\ Disconnect ELSE ~monitorOnly /\ UnblockWrites
           /\ UNCHANGED <<coreVars, lockVars, loopVars>>
    BY <1>3 DEF Finish
  <2>2. /\ pc'[a] = to /\ pc'[Mode] = pc[Mode]
        /\ \A b \in Connectors : b # a => pc'[b] = pc[b]
    BY <1>1, <2>1, ConnectorMoves
  <2>3. MutexHeld'
    BY <2>1, <2>2 DEF HandleInv, MutexHeld
  <2>4. CASE monitorOnly /\ Disconnect
    <3>1. ~IsConnected' /\ UNCHANGED <<mgrLock, transport, writesBlocked, monitorOnly>>
      BY <2>1, <2>4 DEF Disconnect, CloseHandle, IsConnected
    <3> QED
      BY <2>2, <2>3, <3>1 DEF HandleInv, OpenersKnown, ModeInv, ModeLooked, IsNative
  <2>5. CASE ~monitorOnly /\ UnblockWrites
    <3>1. UNCHANGED <<mgrLock, transport, handle, genHolders, openedBy, adoptedBy, attemptOk, monitorOnly>>
      BY <2>1, <2>5 DEF UnblockWrites
    <3>2. \A l \in Loops : Vouches(l)' => Vouches(l)
      BY <2>1, <2>2, <3>1 DEF Vouches, Connectors
    <3>3. OpenersKnown'
      BY <2>1, <2>2, <3>1, <3>2 DEF ToldLast, HandleInv, OpenersKnown, IsConnected, Connectors
    <3> QED
      BY <2>2, <2>3, <2>5, <3>1, <3>3 DEF HandleInv, ModeInv, ModeLooked
  <2> QED
    BY <2>1, <2>4, <2>5
<1>4. ASSUME NEW to, pc[a] \notin Engaged, to \notin Engaged, pc' = [pc EXCEPT ![a] = to],
             UNCHANGED <<managerVars, attemptOk, monitorOnly>>,
             connectMutex' \in {connectMutex, IF connectMutex = a THEN NoOne ELSE connectMutex}
      PROVE  HandleInv'
  <2>1. /\ pc'[a] = to /\ pc'[Mode] = pc[Mode]
        /\ \A b \in Connectors : b # a => pc'[b] = pc[b]
    BY <1>1, <1>4, ConnectorMoves
  <2> QED
    BY <1>4, <2>1, BystandersKeep DEF managerVars
<1>5. CASE FinishUnpublish(a) \/ FinishPublish(a) \/ SettingsReady(a)
  BY <1>4, <1>5 DEF FinishUnpublish, FinishPublish, SettingsReady, Engaged
<1>6. CASE QueryAnswers(a) \/ QueryFails(a)
  BY <1>4, <1>6 DEF QueryAnswers, QueryFails, Engaged
<1>7. CASE Release(a)
  BY <1>4, <1>7 DEF Release, Engaged
<1> QED
  BY <1>2, <1>3, <1>5, <1>6, <1>7 DEF Connect

\* A connector that passes between steps that do not matter.
LEMMA PassingKeepsHandle ==
    ASSUME TypeOK, HandleInv, HandleKept, NEW a \in Connectors, NEW to,
           pc[a] \notin Engaged, to \notin Engaged, pc' = [pc EXCEPT ![a] = to],
           UNCHANGED <<connectMutex, attemptOk, monitorOnly>>
    PROVE  HandleInv'
<1>1. /\ pc'[a] = to /\ pc'[Mode] = pc[Mode]
      /\ \A b \in Connectors : b # a => pc'[b] = pc[b]
  BY ConnectorMoves DEF TypeOK
<1> QED
  BY <1>1, BystandersKeep DEF HandleKept

\* Every action of a request keeps the invariant.
LEMMA ClientKeepsHandle ==
    ASSUME TypeOK, Orderly, HandleInv, NEW c \in Clients, ClientStarts(c) \/ ClientGoesOn(c)
    PROVE  HandleInv'
<1> USE DEF coreVars, lockVars, loopVars, powerVars, Goto
<1>1. c \in Connectors /\ PcTypeOK
  BY DEF Connectors, TypeOK
<1>2. CASE ClientConnect(c) \/ ClientDisconnect(c) \/ ClientRefresh(c) \/ ClientReconfigure(c)
  <2>1. \E to : pc[c] \notin Engaged /\ to \notin Engaged /\ pc' = [pc EXCEPT ![c] = to]
    BY <1>2 DEF ClientConnect, ClientDisconnect, ClientRefresh, ClientReconfigure, Engaged
  <2>2. HandleKept /\ UNCHANGED <<connectMutex, attemptOk, monitorOnly>>
    BY <1>2, MethodsKeepHandle
       DEF ClientConnect, ClientDisconnect, ClientRefresh, ClientReconfigure, CancelReconnect
  <2> QED
    BY <1>1, <2>1, <2>2, PassingKeepsHandle
<1>3. CASE ClientUnpublish(c) \/ ClientClose(c) \/ ClientReconcile(c)
  <2>1. \E to : pc[c] \notin Engaged /\ to \notin Engaged /\ pc' = [pc EXCEPT ![c] = to]
    BY <1>3 DEF ClientUnpublish, ClientClose, ClientReconcile, Engaged
  <2>2. HandleKept /\ UNCHANGED <<connectMutex, attemptOk, monitorOnly>>
    BY <1>3, MethodsKeepHandle DEF ClientUnpublish, ClientClose, ClientReconcile
  <2> QED
    BY <1>1, <2>1, <2>2, PassingKeepsHandle
<1>4. CASE Connect(c)
  BY <1>1, <1>4, ConnectKeepsHandle
<1>5. CASE ClientLock(c)
  <2>1. PICK to \in {"release", "switch"} : pc[c] = "lock" /\ pc' = [pc EXCEPT ![c] = to]
    BY <1>5 DEF ClientLock
  <2>2. /\ pc'[c] = to /\ pc'[Mode] = pc[Mode]
        /\ \A b \in Connectors : b # c => pc'[b] = pc[b]
    BY <1>1, <2>1, ConnectorMoves
  <2>3. connectMutex = NoOne /\ connectMutex' = c
        /\ UNCHANGED <<managerVars, attemptOk, monitorOnly>>
    BY <1>5 DEF ClientLock
  <2>4. MutexHeld'
    BY <2>1, <2>2, <2>3, SingleSorts DEF HandleInv, MutexHeld
  <2>5. /\ \A l \in Loops : Vouches(l)' <=> Vouches(l)
        /\ \A b \in Connectors : WillLook(b) => WillLook(b)'
    BY <1>1, <2>1, <2>2, <2>3, ActorSorts DEF ToldLast, Vouches, WillLook, managerVars, Connectors
  <2>6. OpenersKnown'
    BY <2>1, <2>2, <2>3, <2>5 DEF ToldLast, HandleInv, OpenersKnown, managerVars, IsConnected, Connectors
  <2> QED
    BY <2>2, <2>3, <2>4, <2>5, <2>6
       DEF HandleInv, ModeInv, ModeLooked, managerVars, IsConnected, IsNative
<1>6. CASE ClientSwitch(c)
  <2>1. /\ pc'[c] = "open" /\ pc'[Mode] = pc[Mode] /\ pc[c] = "switch"
        /\ \A b \in Connectors : b # c => pc'[b] = pc[b]
    BY <1>1, <1>6, ConnectorMoves DEF ClientSwitch
  <2>2. /\ ~IsConnected'
        /\ UNCHANGED <<connectMutex, mgrLock, transport, writesBlocked, monitorOnly>>
    BY <1>6 DEF ClientSwitch, IsConnected, Disconnect, CloseHandle, managerVars
  <2>3. MutexHeld'
    BY <1>1, <2>1, <2>2 DEF HandleInv, MutexHeld
  <2> QED
    BY <2>1, <2>2, <2>3 DEF HandleInv, OpenersKnown, ModeInv, ModeLooked, IsNative
<1> QED
  BY <1>2, <1>3, <1>4, <1>5, <1>6 DEF ClientStarts, ClientGoesOn

\* Every action of a reconnect loop keeps the invariant.
LEMMA LoopKeepsHandle ==
    ASSUME TypeOK, Orderly, HandleInv, NEW l \in Loops, Loop(l)
    PROVE  HandleInv'
<1> USE DEF coreVars, lockVars, loopVars, powerVars, Goto
<1>1. l \in Connectors /\ PcTypeOK /\ l \notin Clients
  BY ActorSorts DEF Connectors, TypeOK
<1>2. CASE Connect(l)
  BY <1>1, <1>2, ConnectKeepsHandle
<1>3. CASE LoopCheck(l) \/ LoopWakes(l)
  <2>1. \E to : pc[l] \notin Engaged /\ to \notin Engaged /\ pc' = [pc EXCEPT ![l] = to]
    BY <1>3 DEF LoopCheck, LoopWakes, Engaged
  <2>2. HandleKept /\ UNCHANGED <<connectMutex, attemptOk, monitorOnly>>
    BY <1>3, MethodsKeepHandle DEF LoopCheck, LoopWakes
  <2> QED
    BY <1>1, <2>1, <2>2, PassingKeepsHandle
<1>4. CASE LoopExit(l)
  <2>1. /\ pc[l] = "exit" /\ pc'[l] = "idle" /\ pc'[Mode] = pc[Mode]
        /\ \A b \in Connectors : b # l => pc'[b] = pc[b]
    BY <1>1, <1>4, ConnectorMoves DEF LoopExit
  <2>2. /\ UNCHANGED <<connectMutex, attemptOk, transport, monitorOnly, handle, mgrLock,
                       writesBlocked, openedBy, adoptedBy>>
        /\ genHolders' = genHolders \ {l}
    BY <1>4 DEF LoopExit
  <2> QED
    BY <2>1, <2>2, BystandersKeep DEF Engaged
<1>5. ASSUME LoopAttempt(l) \/ LoopCapture(l) \/ LoopComplete(l) \/ LoopDropsStale(l)
      PROVE  HandleInv'
  <2>1. /\ pc[l] # "idle"
        /\ \A m \in Loops : m # l => pc[m] = "idle"
    BY <1>5 DEF LoopAttempt, LoopCapture, LoopComplete, LoopDropsStale, Orderly, OneReconnectLoop
  <2>2. PICK to : pc' = [pc EXCEPT ![l] = to]
    BY <1>5 DEF LoopAttempt, LoopCapture, LoopComplete, LoopDropsStale
  <2>3. /\ pc'[l] = to /\ pc'[Mode] = pc[Mode]
        /\ \A b \in Connectors : b # l => pc'[b] = pc[b]
        /\ \A c \in Clients : pc'[c] = pc[c]
    BY <1>1, <2>2, ConnectorMoves DEF Connectors
  <2>4. UNCHANGED <<transport, monitorOnly, writesBlocked, mgrLock>>
    BY <1>5 DEF LoopAttempt, LoopCapture, LoopComplete, LoopDropsStale, DisconnectIfCurrent,
                ReadGeneration, managerVars
  <2>5. \A m \in Loops : m # l => ~Vouches(m)'
    BY <2>1, <2>3, <1>1 DEF Vouches, Connectors
  <2>6. \A c \in Clients : ToldLast' = ToldLast => WillLook(c)' = WillLook(c)
    BY <2>3, ActorSorts DEF WillLook
  <2>7. ASSUME MutexHeld',
               IsConnected' => IsConnected /\ ToldLast' = ToldLast,
               Vouches(l)' /\ IsConnected' => ToldLast' = l,
               WillLook(l) /\ IsConnected' => WillLook(l)'
        PROVE  HandleInv'
    <3>1. OpenersKnown'
      BY <2>3, <2>4, <2>5, <2>7 DEF HandleInv, OpenersKnown
    <3>2. \A b \in Connectors : WillLook(b) /\ IsConnected' => WillLook(b)'
      BY <2>1, <2>6, <2>7 DEF Connectors, WillLook, Vouches
    <3> QED
      BY <2>3, <2>4, <2>7, <3>1, <3>2 DEF HandleInv, ModeInv, ModeLooked, IsNative
  <2>8. CASE LoopAttempt(l)
    <3>1. UNCHANGED managerVars /\ pc[l] = "attempt" /\ to \in {"complete", "open"}
      BY <1>1, <2>3, <2>8, ConnectorMoves DEF LoopAttempt
    <3>2. MutexHeld'
      <4>1. CASE to = "complete" /\ UNCHANGED connectMutex
        BY <2>3, <4>1 DEF HandleInv, MutexHeld
      <4>2. CASE connectMutex = NoOne /\ connectMutex' = l
        BY <2>3, <4>2, SingleSorts DEF HandleInv, MutexHeld
      <4> QED
        BY <1>1, <2>3, <2>8, <4>1, <4>2, ConnectorMoves DEF LoopAttempt
    <3>3. ~Vouches(l)'
      BY <1>1, <2>3, <2>8, <3>1, SingleSorts DEF LoopAttempt, Vouches, TypeOK, LoopTypeOK, PcTypeOK
    <3> QED
      BY <2>7, <3>1, <3>2, <3>3 DEF ToldLast, managerVars, IsConnected, WillLook, Vouches
  <2>9. CASE LoopCapture(l)
    <3>1. /\ pc[l] = "capture" /\ to = "complete"
          /\ UNCHANGED <<handle, openedBy, adoptedBy, attemptOk>>
          /\ genHolders' = genHolders \cup {l}
      BY <1>1, <2>3, <2>9, ConnectorMoves DEF LoopCapture, ReadGeneration
    <3>2. MutexHeld'
      BY <1>1, <2>3, <3>1, OneHolder DEF MutexHeld
    <3>3. Vouches(l)' => Vouches(l)
      BY <2>3, <3>1 DEF Vouches
    <3>4. WillLook(l) => WillLook(l)'
      BY <2>3, <3>1 DEF ToldLast, WillLook, Vouches
    <3> QED
      BY <2>7, <3>1, <3>2, <3>3, <3>4 DEF ToldLast, HandleInv, OpenersKnown, IsConnected
  <2>10. CASE LoopComplete(l)
    <3>1. /\ pc[l] = "complete" /\ to \in {"finish", "check", "stale", "exit"}
          /\ UNCHANGED <<managerVars, connectMutex>>
      BY <1>1, <2>3, <2>10, ConnectorMoves DEF LoopComplete
    <3>2. /\ to = "stale" => attemptOk[l]
          /\ to \in {"check", "exit"} => ~attemptOk[l] \/ ~IsConnected
      BY <1>1, <2>3, <2>10, ConnectorMoves DEF LoopComplete
    <3>3. MutexHeld'
      BY <2>3, <3>1 DEF HandleInv, MutexHeld
    <3>4. Vouches(l)' => Vouches(l)
      BY <2>3, <3>1, <3>2 DEF Vouches, managerVars
    <3>5. WillLook(l) /\ IsConnected => WillLook(l)'
      BY <2>3, <3>1, <3>2 DEF ToldLast, WillLook, Vouches, managerVars
    <3> QED
      BY <2>7, <3>1, <3>3, <3>4, <3>5 DEF ToldLast, HandleInv, OpenersKnown, IsConnected, managerVars
  <2>11. CASE LoopDropsStale(l)
    <3>1. /\ pc[l] = "stale" /\ to = "unpublish"
          /\ UNCHANGED connectMutex
          /\ IF l \in genHolders THEN ~IsConnected' ELSE UNCHANGED <<handle, openedBy, adoptedBy>>
      BY <1>1, <2>3, <2>11, ConnectorMoves
         DEF LoopDropsStale, DisconnectIfCurrent, CloseHandle, IsConnected
    <3>2. MutexHeld'
      BY <2>3, <3>1 DEF HandleInv, MutexHeld
    <3>3. ~Vouches(l)' /\ (WillLook(l) => l \in genHolders)
      BY <2>3, <3>1 DEF Vouches, WillLook
    <3> QED
      BY <2>7, <3>1, <3>2, <3>3 DEF ToldLast, IsConnected
  <2> QED
    BY <1>5, <2>8, <2>9, <2>10, <2>11
<1> QED
  BY <1>2, <1>3, <1>4, <1>5 DEF Loop

\* Every step keeps the invariant.
LEMMA HandleStep == TypeOK /\ Orderly /\ HandleInv /\ [Next]_vars => HandleInv'
<1> SUFFICES ASSUME TypeOK, Orderly, HandleInv, [Next]_vars PROVE HandleInv'
  OBVIOUS
<1>1. CASE UNCHANGED vars
  <2>1. HandleKept /\ UNCHANGED <<connectMutex, attemptOk, monitorOnly, pc>>
    BY <1>1, MethodsKeepHandle DEF vars, coreVars, lockVars, loopVars
  <2> QED
    BY <2>1, OthersKeepHandle DEF Bystands
<1> QED
  BY <1>1, LoopKeepsHandle, ClientKeepsHandle, LossBystands, PowerBystands, OthersKeepHandle,
     ModeKeepsHandle DEF Next, Environment, Quiet

\* At the start nothing is open and nobody connects.
LEMMA HandleInit == Init => HandleInv
BY SingleSorts DEF Init, ManagerInit, HandleInv, MutexHeld, OpenersKnown, Vouches, ModeInv,
   ModeLooked, IsConnected, Connectors

\* The inductive invariant of connectMutex and the connect calls
\* (reconnectDevice, ConnectDevice, refreshMonitorOnlyRuntime): who opened the
\* handle is known as long as anybody may close it for that reason.
THEOREM HandleHolds == Spec => []HandleInv
<1>1. TypeOK /\ Orderly /\ HandleInv /\ [Next]_vars => HandleInv'
  BY HandleStep
<1> QED
  BY <1>1, HandleInit, TypeCorrect, OrderHolds, PTL DEF Spec

\* completeReconnectAttempt: an attempt that was overtaken closes the handle it
\* opened itself, never one that somebody has opened since, for any number of
\* requests, losses and power events; and with a compatibility transport also one
\* that Manager.Connect reported to it as open, though another has opened it.
THEOREM StaleClosesOwn == Spec => StaleAttemptSparesOthers
<1> DEFINE Spares == \A l \in Loops : LoopDropsStale(l) /\ IsConnected /\ ~IsConnected'
                                      => openedBy = l \/ (~IsNative /\ adoptedBy = l)
<1>1. TypeOK /\ HandleInv /\ [Next]_vars => [Spares]_vars
  <2> SUFFICES ASSUME TypeOK, HandleInv, NEW l \in Loops,
                      LoopDropsStale(l), IsConnected, ~IsConnected'
               PROVE  openedBy = l \/ (~IsNative /\ adoptedBy = l)
    OBVIOUS
  <2>1. pc[l] = "stale" /\ l \in genHolders
    BY DEF LoopDropsStale, DisconnectIfCurrent, Goto, IsConnected
  <2>2. ToldLast = l
    BY <2>1 DEF HandleInv, OpenersKnown, Vouches
  <2>3. IsNative => adoptedBy = NoOne
    BY DEF TypeOK, ManagerTypeOK
  <2> QED
    BY <2>2, <2>3 DEF ToldLast
<1> QED
  BY <1>1, TypeCorrect, HandleHolds, PTL DEF Spec, StaleAttemptSparesOthers

\* refreshMonitorOnlyRuntime: once the switch to monitor-only mode is through and
\* no connect is under way any more, no handle is open, whoever won.
THEOREM MonitorOnlyStaysQuiet == Spec => []MonitorOnlyIsQuiet
<1>1. HandleInv => MonitorOnlyIsQuiet
  BY DEF HandleInv, ModeInv, ModeLooked, WillLook, Vouches, MonitorOnlyIsQuiet, Attempting,
         Committing, Connectors
<1> QED
  BY <1>1, HandleHolds, PTL

-----------------------------------------------------------------------------
(* A disconnect that holds, and a suspend that is quiet.                   *)
(*                                                                         *)
(* Both rest on who may still have the device open: a request or cleanup   *)
(* that is about to close it, or the one reconnect loop, which then finds  *)
(* its attempt overtaken.  What may lift a suppression is known too: a     *)
(* resume that had something to come back to, which a suspend never has    *)
(* after a disconnect.  Neither holds in every mix of events.  A recovery  *)
(* set off by a gap may overtake the suspend handler between its           *)
(* compare-and-swap and the store of wanted, and leave wanted behind; if   *)
(* that happens to the next suspend too, the disconnect is undone          *)
(* (MildBudget).  Connecting and refreshing do not look at suspended       *)
(* (CalmBudget).                                                           *)

\* A step that is none of suspend and resume.
PowerLeft ==
    /\ UNCHANGED <<suspended, wanted, suspendHolders, resume, asleep>>
    /\ \A b \in Cleanups \cup {Power, Recovery} : pc'[b] = pc[b]
    /\ budget'["suspend"] = budget["suspend"] /\ budget'["gap"] = budget["gap"]

\* A move, or a reconnect request, of somebody else leaves these actors alone.
LEMMA OthersStay ==
    ASSUME PcTypeOK, NEW b \in Actors, b \notin Cleanups \cup {Power, Recovery}, NEW to,
           pc' = [pc EXCEPT ![b] = to]
    PROVE  \A k \in Cleanups \cup {Power, Recovery} : pc'[k] = pc[k]
BY ActorSorts DEF PcTypeOK

\* The sorts as far as OthersStay needs them.
LEMMA StaySorts ==
    /\ Cleanups \cup {Power, Recovery} \subseteq Actors
    /\ \A b \in Connectors \cup Receivers \cup {Health, Mode} :
          b \in Actors /\ b \notin Cleanups \cup {Power, Recovery}
BY SingleSorts, ActorSorts, ActorsAssumption DEF Connectors

\* A reconnect request starts a loop at most.
LEMMA RequestLeaves ==
    ASSUME NEW n, NEW moved \in [Actors -> Steps], RequestReconnect(n, moved),
           \A k \in Cleanups \cup {Power, Recovery} : moved[k] = pc[k]
    PROVE  \A k \in Cleanups \cup {Power, Recovery} : pc'[k] = pc[k]
BY StaySorts DEF RequestReconnect, Connectors

\* Spending another event leaves the budgets of suspend and gap.
LEMMA OtherSpend ==
    ASSUME HistTypeOK, NEW e \in Events, e \notin {"suspend", "gap"}, Spend(e)
    PROVE  budget'["suspend"] = budget["suspend"] /\ budget'["gap"] = budget["gap"]
BY EventNames DEF HistTypeOK, Spend

\* Reconnect loops.
LEMMA LoopLeaves ==
    ASSUME TypeOK, NEW l \in Loops, Loop(l)
    PROVE  PowerLeft /\ UNCHANGED <<suppressed, userOff, budget>>
<1> USE DEF coreVars, powerVars, histVars, Goto
<1>1. PcTypeOK /\ l \in Connectors
  BY DEF TypeOK, Connectors
<1>2. UNCHANGED <<suspended, wanted, suspendHolders, resume, asleep, suppressed, userOff, budget>>
  <2>1. CASE Connect(l)
    BY <2>1 DEF Connect, OpenAnswers, OpenBegins, OpenConnects, OpenGivesUp, Finish,
       FinishUnpublish, FinishPublish, QueryAnswers, QueryFails, SettingsReady, Release
  <2>2. CASE ~Connect(l)
    BY <2>2 DEF Loop, LoopCheck, LoopWakes, LoopAttempt, LoopCapture, LoopComplete,
       LoopDropsStale, LoopExit
  <2> QED
    BY <2>1, <2>2
<1>3. \E to : pc' = [pc EXCEPT ![l] = to]
  <2>1. CASE Connect(l)
    BY <2>1 DEF Connect, OpenAnswers, OpenBegins, OpenConnects, OpenGivesUp, Outcome, Finish,
       FinishUnpublish, FinishPublish, QueryAnswers, QueryFails, SettingsReady, Release
  <2>2. CASE ~Connect(l)
    BY <2>2 DEF Loop, LoopCheck, LoopWakes, LoopAttempt, LoopCapture, LoopComplete,
       LoopDropsStale, LoopExit
  <2> QED
    BY <2>1, <2>2
<1> QED
  BY <1>1, <1>2, <1>3, OthersStay, StaySorts DEF PowerLeft

\* Requests.
LEMMA ClientLeaves ==
    ASSUME TypeOK, NEW c \in Clients, ClientStarts(c) \/ ClientGoesOn(c)
    PROVE  PowerLeft
<1> USE DEF coreVars, powerVars, histVars, Goto
<1>1. PcTypeOK /\ HistTypeOK /\ c \in Connectors
  BY DEF TypeOK, Connectors
<1>2. CASE ClientStarts(c)
  <2>1. UNCHANGED <<suspended, wanted, suspendHolders, resume, asleep>>
        /\ \E to : pc' = [pc EXCEPT ![c] = to]
    BY <1>2 DEF ClientStarts, ClientConnect, ClientDisconnect, ClientRefresh, ClientReconfigure
  <2>2. \E e \in {"connect", "disconnect", "refresh", "reconfigure"} : Spend(e)
    BY <1>2 DEF ClientStarts, ClientConnect, ClientDisconnect, ClientRefresh, ClientReconfigure
  <2>3. budget'["suspend"] = budget["suspend"] /\ budget'["gap"] = budget["gap"]
    BY <1>1, <2>2, OtherSpend, EventNames
  <2> QED
    BY <1>1, <2>1, <2>3, OthersStay, StaySorts DEF PowerLeft
<1>3. CASE ClientGoesOn(c)
  <2>1. UNCHANGED <<suspended, wanted, suspendHolders, resume, asleep, budget>>
        /\ \E to : pc' = [pc EXCEPT ![c] = to]
    <3>1. CASE Connect(c)
      BY <3>1, ActorSorts
         DEF Connect, OpenAnswers, OpenBegins, OpenConnects, OpenGivesUp, Outcome, Finish,
             FinishUnpublish, FinishPublish, QueryAnswers, QueryFails, SettingsReady, Release
    <3>2. CASE ~Connect(c)
      BY <1>3, <3>2 DEF ClientGoesOn, ClientLock, ClientSwitch, ClientUnpublish, ClientClose,
         ClientReconcile
    <3> QED
      BY <3>1, <3>2
  <2> QED
    BY <1>1, <2>1, OthersStay, StaySorts DEF PowerLeft
<1> QED
  BY <1>2, <1>3

\* Lost handles, health checks, arrivals, the mode switch and the link.
LEMMA RestLeaves ==
    ASSUME TypeOK, \/ \E r \in Receivers : Receiver(r)
                   \/ HealthMonitor \/ Arrival \/ Startup \/ ModeTurnsOn \/ MonitorOnlyMode
                   \/ LinkDrop \/ LinkReturn \/ UNCHANGED vars
    PROVE  PowerLeft /\ UNCHANGED <<suppressed, userOff>>
<1> USE DEF coreVars, powerVars, histVars, Goto
<1>1. PcTypeOK /\ HistTypeOK /\ pc \in [Actors -> Steps]
  BY DEF TypeOK, PcTypeOK
<1>2. ASSUME NEW b \in Receivers \cup {Health, Mode}, NEW to, pc' = [pc EXCEPT ![b] = to]
      PROVE  \A k \in Cleanups \cup {Power, Recovery} : pc'[k] = pc[k]
  BY <1>1, <1>2, OthersStay, StaySorts
<1>3. ASSUME NEW b \in Receivers \cup {Health}, NEW n, RequestReconnect(n, [pc EXCEPT ![b] = "idle"])
      PROVE  \A k \in Cleanups \cup {Power, Recovery} : pc'[k] = pc[k]
  <2> DEFINE moved == [pc EXCEPT ![b] = "idle"]
  <2>1. moved \in [Actors -> Steps] /\ \A k \in Cleanups \cup {Power, Recovery} : moved[k] = pc[k]
    BY <1>1, StepNames, StaySorts
  <2> QED
    BY <1>3, <2>1, RequestLeaves
<1>4. ASSUME NEW r \in Receivers, Receiver(r) PROVE PowerLeft /\ UNCHANGED <<suppressed, userOff>>
  <2>1. UNCHANGED <<suspended, wanted, suspendHolders, resume, asleep, budget, suppressed, userOff>>
    BY <1>4 DEF Receiver, ReceiverReports, LossPublished, LossRequest
  <2>2. \A k \in Cleanups \cup {Power, Recovery} : pc'[k] = pc[k]
    BY <1>2, <1>3, <1>4 DEF Receiver, ReceiverReports, LossPublished, LossRequest
  <2> QED
    BY <2>1, <2>2 DEF PowerLeft
<1>5. CASE HealthMonitor
  <2>1. UNCHANGED <<suspended, wanted, suspendHolders, resume, asleep, budget, suppressed, userOff>>
    BY <1>5 DEF HealthMonitor, HealthCheck, HealthRequests, HealthPasses, HealthFails,
                HealthCloses, LossPublished, LossRequest
  <2>2. \/ \E to : pc' = [pc EXCEPT ![Health] = to]
        \/ \E n : RequestReconnect(n, [pc EXCEPT ![Health] = "idle"])
    BY <1>5 DEF HealthMonitor, HealthCheck, HealthRequests, HealthPasses, HealthFails,
                HealthCloses, LossPublished, LossRequest
  <2>3. \A k \in Cleanups \cup {Power, Recovery} : pc'[k] = pc[k]
    BY <1>2, <1>3, <2>2
  <2> QED
    BY <2>1, <2>3 DEF PowerLeft
<1>6. CASE Arrival \/ Startup
  <2>1. UNCHANGED <<suspended, wanted, suspendHolders, resume, asleep, suppressed, userOff>>
        /\ budget'["suspend"] = budget["suspend"] /\ budget'["gap"] = budget["gap"]
    BY <1>1, <1>6, OtherSpend, EventNames DEF Arrival, Startup
  <2>2. \A k \in Cleanups \cup {Power, Recovery} : pc'[k] = pc[k]
    BY <1>1, <1>6, RequestLeaves DEF Arrival, Startup
  <2> QED
    BY <2>1, <2>2 DEF PowerLeft
<1>7. CASE ModeTurnsOn \/ MonitorOnlyMode
  <2>1. UNCHANGED <<suspended, wanted, suspendHolders, resume, asleep, suppressed, userOff>>
        /\ budget'["suspend"] = budget["suspend"] /\ budget'["gap"] = budget["gap"]
    BY <1>1, <1>7, OtherSpend, EventNames
       DEF ModeTurnsOn, MonitorOnlyMode, ModeCancels, ModeCloses, ModeUnpublishes
  <2>2. \E to : pc' = [pc EXCEPT ![Mode] = to]
    BY <1>7 DEF ModeTurnsOn, MonitorOnlyMode, ModeCancels, ModeCloses, ModeUnpublishes
  <2> QED
    BY <1>2, <2>1, <2>2 DEF PowerLeft
<1>8. CASE LinkDrop \/ LinkReturn \/ UNCHANGED vars
  BY <1>1, <1>8, OtherSpend, EventNames DEF LinkDrop, LinkReturn, vars, PowerLeft
<1> QED
  BY <1>4, <1>5, <1>6, <1>7, <1>8

\* The steps of suspend and resume.
PowerStep ==
    \/ SuspendBegins \/ PowerCallback \/ \E k \in Cleanups : Cleanup(k)
    \/ ResumeNotice \/ GapDetected \/ CooldownEnds \/ ResumeRecovery

\* There are no other steps.
LEMMA StepSorts ==
    ASSUME [Next]_vars
    PROVE  \/ \E l \in Loops : Loop(l)
           \/ \E c \in Clients : ClientStarts(c) \/ ClientGoesOn(c)
           \/ PowerStep
           \/ \E r \in Receivers : Receiver(r)
           \/ HealthMonitor \/ Arrival \/ Startup \/ ModeTurnsOn \/ MonitorOnlyMode
           \/ LinkDrop \/ LinkReturn \/ UNCHANGED vars
BY DEF Next, Environment, Quiet, PowerStep

\* A budget that runs out, and an order of suspend and resume that lets nothing
\* overtake the suspend handler: at most one suspend, or every resume announced.
MildBudget(b) == b["suspend"] \in {0, 1} \/ b["gap"] = 0

FewSuspends ==
    /\ budget["suspend"] \in {0, 1}
    /\ suspended \/ wanted \/ pc[Power] # "idle" => budget["suspend"] = 0

AnnouncedResumes ==
    /\ budget["gap"] = 0
    /\ asleep \/ wanted => suspended
    /\ pc[Power] # "idle" => asleep
    /\ pc[Recovery] = "resume" => suspended /\ ~asleep

\* What every action of suspend and resume does to this state.
LEMMA PowerMoves ==
    ASSUME TypeOK, PowerStep
    PROVE  /\ ~SuspendBegins => budget'["suspend"] = budget["suspend"]
           /\ ~GapDetected => budget'["gap"] = budget["gap"]
           /\ SuspendBegins \/ SuspendReads \/ SuspendCancels \/ SuspendHandsOver
                 => pc'[Recovery] = pc[Recovery]
           /\ SuspendBegins => pc'[Power] = "barrier"
           /\ SuspendReads => pc[Power] = "barrier" /\ pc'[Power] = "cancel"
           /\ SuspendCancels => pc[Power] = "cancel" /\ pc'[Power] = "unpublish"
           /\ SuspendHandsOver => pc[Power] = "unpublish" /\ pc'[Power] = "idle"
           /\ ResumeNotice \/ GapDetected \/ CooldownEnds \/ (\E k \in Cleanups : Cleanup(k))
              \/ ResumeRecovery => pc'[Power] = pc[Power]
           /\ CooldownEnds \/ (\E k \in Cleanups : Cleanup(k)) => pc'[Recovery] = pc[Recovery]
           /\ ResumeNotice \/ GapDetected =>
                 \/ pc'[Recovery] = pc[Recovery]
                 \/ pc[Recovery] = "idle" /\ pc'[Recovery] = "resume"
           /\ RecoverySwaps => pc[Recovery] = "resume" /\ pc'[Recovery] = "cancel"
           /\ RecoveryCancels => pc[Recovery] = "cancel" /\ pc'[Recovery] = "read"
           /\ RecoveryReads => pc[Recovery] = "read" /\ pc'[Recovery] \in {"close", "idle"}
           /\ RecoveryCloses \/ RecoveryUnpublishes \/ RecoveryRequests =>
                 /\ pc[Recovery] \in {"close", "unpublish", "request"}
                 /\ pc'[Recovery] \in {"unpublish", "request", "idle"}
<1> USE SingleSorts, ActorSorts DEF Goto, histVars, coreVars
<1>1. pc \in [Actors -> Steps] /\ HistTypeOK
  BY DEF TypeOK, PcTypeOK
<1>2. /\ ~SuspendBegins => budget'["suspend"] = budget["suspend"]
      /\ ~GapDetected => budget'["gap"] = budget["gap"]
  <2>1. CASE SuspendBegins
    BY <1>1, <2>1, EventNames DEF SuspendBegins, Spend, HistTypeOK
  <2>2. CASE GapDetected
    BY <1>1, <2>2, EventNames DEF GapDetected, Spend, HistTypeOK
  <2>3. CASE UNCHANGED budget
    BY <2>3
  <2> QED
    BY <2>1, <2>2, <2>3
       DEF PowerStep, PowerCallback, SuspendReads, SuspendCancels, SuspendHandsOver, Cleanup,
           CleanupChecks, CleanupCloses, ResumeNotice, CooldownEnds, ResumeRecovery,
           RecoverySwaps, RecoveryCancels, RecoveryReads, RecoveryCloses,
           RecoveryUnpublishes, RecoveryRequests
<1>3. ASSUME RecoveryRequests
      PROVE  pc[Recovery] = "request" /\ pc'[Recovery] = "idle" /\ pc'[Power] = pc[Power]
  <2> DEFINE moved == [pc EXCEPT ![Recovery] = "idle"]
  <2>1. moved[Recovery] = "idle" /\ moved[Power] = pc[Power]
    BY <1>1
  <2>2. pc'[Recovery] = moved[Recovery] /\ pc'[Power] = moved[Power]
    BY <1>1, <1>3 DEF RecoveryRequests, RequestReconnect, Connectors
  <2> QED
    BY <1>3, <2>1, <2>2 DEF RecoveryRequests
<1>4. ASSUME ResumeNotice \/ GapDetected
      PROVE  /\ pc'[Power] = pc[Power]
             /\ \/ pc'[Recovery] = pc[Recovery]
                \/ pc[Recovery] = "idle" /\ pc'[Recovery] = "resume"
  BY <1>1, <1>4 DEF ResumeNotice, GapDetected, TriggerRecovery
<1>5. ASSUME CooldownEnds \/ \E k \in Cleanups : Cleanup(k)
      PROVE  pc'[Power] = pc[Power] /\ pc'[Recovery] = pc[Recovery]
  BY <1>1, <1>5 DEF CooldownEnds, Cleanup, CleanupChecks, CleanupCloses
<1>6. /\ SuspendBegins => pc'[Power] = "barrier" /\ pc'[Recovery] = pc[Recovery]
      /\ SuspendReads => /\ pc[Power] = "barrier" /\ pc'[Power] = "cancel"
                         /\ pc'[Recovery] = pc[Recovery]
      /\ SuspendCancels => /\ pc[Power] = "cancel" /\ pc'[Power] = "unpublish"
                           /\ pc'[Recovery] = pc[Recovery]
      /\ SuspendHandsOver => /\ pc[Power] = "unpublish" /\ pc'[Power] = "idle"
                             /\ pc'[Recovery] = pc[Recovery]
  BY <1>1 DEF SuspendBegins, SuspendReads, SuspendCancels, SuspendHandsOver
<1>7. /\ RecoverySwaps => /\ pc[Recovery] = "resume" /\ pc'[Recovery] = "cancel"
                          /\ pc'[Power] = pc[Power]
      /\ RecoveryCancels => /\ pc[Recovery] = "cancel" /\ pc'[Recovery] = "read"
                            /\ pc'[Power] = pc[Power]
      /\ RecoveryReads => /\ pc[Recovery] = "read" /\ pc'[Recovery] \in {"close", "idle"}
                          /\ pc'[Power] = pc[Power]
      /\ RecoveryCloses => /\ pc[Recovery] = "close" /\ pc'[Recovery] = "unpublish"
                           /\ pc'[Power] = pc[Power]
      /\ RecoveryUnpublishes => /\ pc[Recovery] = "unpublish" /\ pc'[Recovery] = "request"
                                /\ pc'[Power] = pc[Power]
  BY <1>1 DEF RecoverySwaps, RecoveryCancels, RecoveryReads, RecoveryCloses, RecoveryUnpublishes
<1> QED
  BY <1>2, <1>3, <1>4, <1>5, <1>6, <1>7 DEF PowerStep, PowerCallback, ResumeRecovery

\* Every step keeps the number of suspends small.
LEMMA FewStep == TypeOK /\ FewSuspends /\ [Next]_vars => FewSuspends'
<1> SUFFICES ASSUME TypeOK, FewSuspends, [Next]_vars PROVE FewSuspends'
  OBVIOUS
<1>1. CASE PowerLeft
  BY <1>1 DEF PowerLeft, FewSuspends
<1>2. CASE SuspendBegins
  BY <1>2, EventNames DEF SuspendBegins, Spend, FewSuspends, TypeOK, HistTypeOK
<1>3. CASE PowerStep /\ ~SuspendBegins
  <2>1. budget'["suspend"] = budget["suspend"]
    BY <1>3, PowerMoves
  <2>2. suspended' \/ wanted' \/ pc'[Power] # "idle" => suspended \/ wanted \/ pc[Power] # "idle"
    <3> USE DEF coreVars
    <3>1. CASE SuspendReads \/ SuspendCancels \/ SuspendHandsOver
      BY <1>3, <3>1 DEF SuspendReads, SuspendCancels, SuspendHandsOver, Goto
    <3>2. CASE ~(SuspendReads \/ SuspendCancels \/ SuspendHandsOver)
      <4>1. pc'[Power] = pc[Power]
        BY <1>3, <3>2, PowerMoves DEF PowerStep, PowerCallback
      <4>2. ResumeRecovery => (suspended' => suspended) /\ (wanted' => wanted)
        BY DEF ResumeRecovery, RecoverySwaps, RecoveryCancels, RecoveryReads, RecoveryCloses,
           RecoveryUnpublishes, RecoveryRequests
      <4>3. ResumeNotice \/ GapDetected \/ CooldownEnds \/ (\E k \in Cleanups : Cleanup(k))
               => UNCHANGED <<suspended, wanted>>
        BY DEF ResumeNotice, GapDetected, CooldownEnds, Cleanup, CleanupChecks, CleanupCloses
      <4> QED
        BY <1>3, <3>2, <4>1, <4>2, <4>3 DEF PowerStep, PowerCallback
    <3> QED
      BY <3>1, <3>2
  <2> QED
    BY <2>1, <2>2 DEF FewSuspends
<1> QED
  BY <1>1, <1>2, <1>3, StepSorts, LoopLeaves, ClientLeaves, RestLeaves

\* Every step keeps the order of announced resumes.
LEMMA AnnouncedStep == TypeOK /\ AnnouncedResumes /\ [Next]_vars => AnnouncedResumes'
<1> SUFFICES ASSUME TypeOK, AnnouncedResumes, [Next]_vars PROVE AnnouncedResumes'
  OBVIOUS
<1>1. CASE PowerLeft
  BY <1>1 DEF PowerLeft, AnnouncedResumes
<1>2. ASSUME PowerStep PROVE AnnouncedResumes'
  <2> USE DEF AnnouncedResumes, coreVars, powerVars
  <2>1. ~GapDetected
    BY EventNames DEF GapDetected, Spend, TypeOK, HistTypeOK
  <2>2. CASE SuspendBegins
    BY <1>2, <2>1, <2>2, PowerMoves DEF SuspendBegins, Goto
  <2>3. CASE SuspendReads \/ SuspendCancels \/ SuspendHandsOver
    BY <1>2, <2>1, <2>3, PowerMoves DEF SuspendReads, SuspendCancels, SuspendHandsOver, Goto
  <2>4. CASE ResumeNotice
    BY <1>2, <2>1, <2>4, PowerMoves DEF ResumeNotice
  <2>5. CASE CooldownEnds \/ \E k \in Cleanups : Cleanup(k)
    <3>1. UNCHANGED <<suspended, wanted, asleep>>
      BY <2>5 DEF CooldownEnds, Cleanup, CleanupChecks, CleanupCloses
    <3> QED
      BY <1>2, <2>1, <2>5, <3>1, PowerMoves
  <2>6. CASE RecoverySwaps
    BY <1>2, <2>1, <2>6, PowerMoves DEF ResumeRecovery, RecoverySwaps, Goto
  <2>7. CASE RecoveryCancels \/ RecoveryReads
    BY <1>2, <2>1, <2>7, PowerMoves DEF ResumeRecovery, RecoveryCancels, RecoveryReads, Goto
  <2>8. CASE RecoveryCloses \/ RecoveryUnpublishes \/ RecoveryRequests
    <3>1. UNCHANGED <<suspended, wanted, asleep>>
      BY <2>8 DEF RecoveryCloses, RecoveryUnpublishes, RecoveryRequests
    <3>2. pc[Recovery] \in {"close", "unpublish", "request"} 
      BY <2>8 DEF RecoveryCloses, RecoveryUnpublishes, RecoveryRequests, Goto
    <3> QED
      BY <1>2, <2>1, <2>8, <3>1, <3>2, PowerMoves DEF ResumeRecovery
  <2> QED
    BY <1>2, <2>1, <2>2, <2>3, <2>4, <2>5, <2>6, <2>7, <2>8
       DEF PowerStep, PowerCallback, ResumeRecovery
<1> QED
  BY <1>1, <1>2, StepSorts, LoopLeaves, ClientLeaves, RestLeaves

\* No connect request overlaps a disconnect that is remembered.
UserAlone == userOff # "no" => \A c \in Clients : ~Connecting(c)

\* A remembered disconnect has suppressed reconnecting, and no resume, under way
\* or to come, has something to come back to.
DisconnectKept ==
    /\ pc[Recovery] \notin {"cancel", "read"} => ~resume.proactive
    /\ userOff = "awake" =>
          /\ suppressed
          /\ wanted => ~suspended /\ budget["suspend"] = 0
          /\ ~(resume.proactive /\ resume.wanted)

\* A reconnect attempt will find itself overtaken and close.
SomeoneVouches == \E l \in Loops : Vouches(l)

\* What is open after a disconnect is about to be closed.
HandleLet ==
    userOff = "awake" /\ IsConnected =>
       (\E c \in Clients : pc[c] \in {"manual", "close"}) \/ SomeoneVouches

DisconnectInv == UserAlone /\ DisconnectKept /\ HandleLet

\* A step of somebody else opens nothing and leaves the attempts as they are.
LEMMA BystandersVouch ==
    ASSUME HandleKept, UNCHANGED attemptOk,
           \A l \in Loops : pc'[l] = pc[l] \/ (pc[l] = "idle" /\ pc'[l] = "check")
    PROVE  IsConnected' => IsConnected /\ (SomeoneVouches => SomeoneVouches')
BY DEF HandleKept, IsConnected, SomeoneVouches, Vouches

\* Neither does a loop that may not commit: what it opens it may close again.
LEMMA LoopsVouch ==
    ASSUME TypeOK, Orderly, NEW l \in Loops, Loop(l), ~AttemptIsCurrent(l)
    PROVE  IsConnected' => SomeoneVouches' \/ (IsConnected /\ ~SomeoneVouches)
<1> USE DEF coreVars, lockVars, loopVars, Goto
<1>1. PcTypeOK /\ l \in Connectors /\ l \notin Clients /\ attemptOk \in [Loops -> BOOLEAN]
  BY ActorSorts DEF TypeOK, Connectors, LoopTypeOK
<1>2. /\ pc[l] # "idle"
      /\ ~Vouches(l) => ~SomeoneVouches
  <2>1. pc[l] # "idle"
    BY DEF Loop, LoopCheck, LoopWakes, LoopAttempt, LoopCapture, LoopComplete,
       LoopDropsStale, LoopExit, Connect, OpenAnswers, OpenBegins, OpenConnects, OpenGivesUp,
       Finish, FinishUnpublish, FinishPublish, QueryAnswers, QueryFails, SettingsReady, Release
  <2> QED
    BY <2>1 DEF Orderly, OneReconnectLoop, SomeoneVouches, Vouches
<1>3. CASE Connect(l)
  <2>1. ~Vouches(l)
    BY <1>3 DEF Connect, Vouches, OpenAnswers, OpenBegins, OpenConnects, OpenGivesUp,
       Finish, FinishUnpublish, FinishPublish, QueryAnswers, QueryFails, SettingsReady, Release
  <2>2. CASE OpenConnects(l) \/ (OpenAnswers(l) /\ AdoptOpen(l) /\ Outcome(l, TRUE))
    <3>1. Outcome(l, TRUE)
      BY <1>1, <2>2 DEF OpenConnects
    <3>2. Vouches(l)'
      BY <1>1, <3>1, SingleSorts DEF Outcome, Vouches, PcTypeOK
    <3> QED
      BY <3>2 DEF SomeoneVouches
  <2>3. CASE Finish(l)
    BY <1>2, <2>1, <2>3
       DEF Finish, Disconnect, CloseHandle, UnblockWrites, IsConnected
  <2>4. CASE OpenBegins(l)
    BY <2>4 DEF OpenBegins, BeginOpen, CloseHandle, IsConnected
  <2>5. CASE UNCHANGED handle
    BY <1>2, <2>1, <2>5 DEF IsConnected
  <2> QED
    BY <1>3, <2>2, <2>3, <2>4, <2>5
       DEF Connect, OpenAnswers, OpenGivesUp, OpenFails, FinishUnpublish, FinishPublish,
           QueryAnswers, QueryFails, SettingsReady, Release, managerVars
<1>4. CASE LoopDropsStale(l)
  BY <1>2, <1>4 DEF LoopDropsStale, DisconnectIfCurrent, CloseHandle, IsConnected, Vouches
<1>5. CASE LoopCapture(l) \/ LoopComplete(l)
  <2>1. PICK to : pc' = [pc EXCEPT ![l] = to]
    BY <1>5 DEF LoopCapture, LoopComplete
  <2>2. pc'[l] = to
    BY <1>1, <2>1, ConnectorMoves
  <2>3. Vouches(l) => Vouches(l)'
    <3>1. CASE LoopCapture(l)
      <4>1. pc[l] = "capture" /\ to = "complete" /\ genHolders' = genHolders \cup {l}
            /\ UNCHANGED attemptOk
        BY <1>1, <2>2, <3>1, ConnectorMoves DEF LoopCapture, ReadGeneration
      <4> QED
        BY <2>2, <4>1 DEF Vouches
    <3>2. CASE LoopComplete(l)
      <4>1. pc[l] = "complete" /\ (attemptOk[l] => to = "stale") /\ UNCHANGED genHolders
        BY <1>1, <2>2, <3>2, ConnectorMoves DEF LoopComplete, managerVars
      <4> QED
        BY <2>2, <4>1 DEF Vouches
    <3> QED
      BY <1>5, <3>1, <3>2
  <2>4. UNCHANGED handle
    BY <1>5 DEF LoopCapture, LoopComplete, ReadGeneration, managerVars
  <2> QED
    BY <1>2, <2>3, <2>4 DEF SomeoneVouches, IsConnected
<1>6. CASE LoopCheck(l) \/ LoopWakes(l) \/ LoopAttempt(l) \/ LoopExit(l)
  BY <1>2, <1>6
     DEF LoopCheck, LoopWakes, LoopAttempt, LoopExit, managerVars, IsConnected, Vouches
<1> QED
  BY <1>3, <1>4, <1>5, <1>6 DEF Loop

\* A step of anybody but loops and requests: nothing is opened, no connector
\* moves but a loop that is started, and connectMutex keeps its owner.
Spectates ==
    /\ HandleKept
    /\ \A a \in Connectors :
          pc'[a] = pc[a] \/ (a \in Loops /\ pc[a] = "idle" /\ pc'[a] = "check")
    /\ UNCHANGED <<connectMutex, attemptOk>>

\* All of them are such steps.
LEMMA OthersSpectate ==
    ASSUME TypeOK,
           \/ PowerStep \/ \E r \in Receivers : Receiver(r)
           \/ HealthMonitor \/ Arrival \/ Startup \/ ModeTurnsOn \/ MonitorOnlyMode
           \/ LinkDrop \/ LinkReturn \/ UNCHANGED vars
    PROVE  Spectates
<1>1. CASE Bystands
  BY <1>1 DEF Bystands, Spectates
<1>2. CASE ModeTurnsOn \/ MonitorOnlyMode
  <2> USE DEF coreVars, lockVars, loopVars, Goto
  <2>1. \E to : pc' = [pc EXCEPT ![Mode] = to]
    BY <1>2 DEF ModeTurnsOn, MonitorOnlyMode, ModeCancels, ModeCloses, ModeUnpublishes
  <2>2. HandleKept /\ UNCHANGED <<connectMutex, attemptOk>>
    BY <1>2, MethodsKeepHandle
       DEF ModeTurnsOn, MonitorOnlyMode, ModeCancels, CancelReconnect, ModeCloses, ModeUnpublishes
  <2> QED
    BY <2>1, <2>2, SingleSorts DEF Spectates, TypeOK, PcTypeOK
<1>3. CASE UNCHANGED vars
  BY <1>3, MethodsKeepHandle DEF vars, lockVars, loopVars, Spectates
<1> QED
  BY <1>1, <1>2, <1>3, LossBystands, PowerBystands DEF PowerStep

\* A loop leaves the requests alone, and takes connectMutex from none of them.
LEMMA LoopSpares ==
    ASSUME TypeOK, HandleInv, NEW l \in Loops, Loop(l)
    PROVE  \A c \in Clients : pc'[c] = pc[c] /\ (connectMutex' = c => connectMutex = c)
<1> USE DEF coreVars, lockVars, loopVars, Goto
<1>1. PcTypeOK /\ l \in Connectors /\ l \notin Clients /\ NoOne \notin Clients
      /\ Clients \subseteq Connectors
  BY ActorSorts DEF TypeOK, Connectors
<1>2. \E to : pc' = [pc EXCEPT ![l] = to]
  <2>1. CASE Connect(l)
    BY <2>1 DEF Connect, OpenAnswers, OpenBegins, OpenConnects, OpenGivesUp, Outcome, Finish,
       FinishUnpublish, FinishPublish, QueryAnswers, QueryFails, SettingsReady, Release
  <2>2. CASE ~Connect(l)
    BY <2>2 DEF Loop, LoopCheck, LoopWakes, LoopAttempt, LoopCapture, LoopComplete,
       LoopDropsStale, LoopExit
  <2> QED
    BY <2>1, <2>2
<1>3. connectMutex' \in {connectMutex, l, NoOne}
  <2>1. CASE Connect(l)
    BY <2>1 DEF Connect, OpenAnswers, OpenBegins, OpenConnects, OpenGivesUp, Finish,
       FinishUnpublish, FinishPublish, QueryAnswers, QueryFails, SettingsReady, Release
  <2>2. CASE ~Connect(l)
    BY <2>2 DEF Loop, LoopCheck, LoopWakes, LoopAttempt, LoopCapture, LoopComplete,
       LoopDropsStale, LoopExit
  <2> QED
    BY <2>1, <2>2
<1>4. \A c \in Clients : pc'[c] = pc[c]
  BY <1>1, <1>2, ConnectorMoves
<1> QED
  BY <1>1, <1>3, <1>4

\* Every step keeps remembered disconnects clear of connect requests.
LEMMA UserAloneStep == TypeOK /\ HandleInv /\ UserAlone /\ [Next]_vars => UserAlone'
<1> SUFFICES ASSUME TypeOK, HandleInv, UserAlone, [Next]_vars PROVE UserAlone'
  OBVIOUS
<1>1. ASSUME NEW l \in Loops, Loop(l) PROVE UserAlone'
  BY <1>1, LoopSpares, LoopLeaves DEF UserAlone, Connecting
<1>2. ASSUME Spectates, UNCHANGED userOff PROVE UserAlone'
  BY <1>2 DEF Spectates, UserAlone, Connecting, Connectors
<1>3. ASSUME NEW c \in Clients, ClientStarts(c) \/ ClientGoesOn(c) PROVE UserAlone'
  <2> USE DEF histVars, lockVars, Goto
  <2>1. PcTypeOK /\ c \in Connectors /\ Clients \subseteq Connectors
    BY DEF TypeOK, Connectors
  <2>2. CASE ClientConnect(c)
    BY <2>2 DEF ClientConnect, UserAlone
  <2>3. CASE userOff # "no" /\ UNCHANGED userOff
    <3>1. ~Connecting(c) /\ \A d \in Clients : ~Connecting(d)
      BY <2>3 DEF UserAlone
    <3>2. \/ ClientDisconnect(c) \/ ClientRefresh(c) \/ ClientReconfigure(c) \/ ClientUnpublish(c)
          \/ ClientClose(c) \/ ClientReconcile(c) \/ QueryAnswers(c) \/ QueryFails(c)
          \/ SettingsReady(c) \/ Release(c) \/ FinishUnpublish(c) \/ ClientConnect(c)
      BY <1>3, <3>1
         DEF ClientStarts, ClientGoesOn, Connect, Connecting, ClientLock, ClientSwitch,
             OpenAnswers, OpenBegins, OpenConnects, OpenGivesUp, Finish, FinishPublish
    <3>3. PICK to \in {"manual", "query", "reconcile", "close", "idle", "ready", "release", "exit"} :
             pc' = [pc EXCEPT ![c] = to]
      BY <2>2, <2>3, <3>2
         DEF ClientDisconnect, ClientRefresh, ClientReconfigure, ClientUnpublish, ClientClose,
             ClientReconcile, QueryAnswers, QueryFails, SettingsReady, Release,
             FinishUnpublish, ClientConnect
    <3>4. connectMutex' \in {connectMutex, NoOne}
      BY <3>2
         DEF ClientDisconnect, ClientRefresh, ClientReconfigure, ClientUnpublish, ClientClose,
             ClientReconcile, QueryAnswers, QueryFails, SettingsReady, Release,
             FinishUnpublish, ClientConnect
    <3>5. pc'[c] = to /\ \A d \in Clients : d # c => pc'[d] = pc[d]
      BY <2>1, <3>3, ConnectorMoves
    <3> QED
      BY <2>1, <3>1, <3>4, <3>5, SingleSorts DEF UserAlone, Connecting
  <2>4. CASE ClientDisconnect(c)
    <3>1. userOff' # "no" => \A d \in Clients : ~Connecting(d)
      BY <2>4 DEF ClientDisconnect
    <3>2. /\ pc'[c] = "manual" /\ \A d \in Clients : d # c => pc'[d] = pc[d]
          /\ UNCHANGED connectMutex
      BY <2>1, <2>4, ConnectorMoves DEF ClientDisconnect
    <3> QED
      BY <3>1, <3>2 DEF UserAlone, Connecting
  <2>5. CASE ~ClientConnect(c) /\ ~ClientDisconnect(c)
    <3>1. UNCHANGED userOff
      <4>1. CASE Connect(c)
        BY <4>1 DEF Connect, OpenAnswers, OpenBegins, OpenConnects, OpenGivesUp, Finish,
           FinishUnpublish, FinishPublish, QueryAnswers, QueryFails, SettingsReady, Release
      <4>2. CASE ~Connect(c)
        BY <1>3, <2>5, <4>2
           DEF ClientStarts, ClientGoesOn, ClientRefresh, ClientReconfigure, ClientLock,
               ClientSwitch, ClientUnpublish, ClientClose, ClientReconcile
      <4> QED
        BY <4>1, <4>2
    <3> QED
      BY <2>3, <3>1 DEF UserAlone
  <2> QED
    BY <2>2, <2>4, <2>5
<1>4. ASSUME PowerStep PROVE UNCHANGED userOff
  BY <1>4 DEF PowerStep, PowerCallback, ResumeRecovery, SuspendBegins, SuspendReads,
     SuspendCancels, SuspendHandsOver, Cleanup, CleanupChecks, CleanupCloses, ResumeNotice,
     GapDetected, CooldownEnds, RecoverySwaps, RecoveryCancels, RecoveryReads, RecoveryCloses,
     RecoveryUnpublishes, RecoveryRequests, histVars
<1> QED
  BY <1>1, <1>2, <1>3, <1>4, StepSorts, OthersSpectate, RestLeaves

\* What a request may do while a disconnect is remembered.
LEMMA ClientAfterDisconnect ==
    ASSUME TypeOK, UserAlone, NEW c \in Clients, ClientStarts(c) \/ ClientGoesOn(c),
           userOff' = "awake"
    PROVE  \/ ClientDisconnect(c)
           \/ /\ userOff = "awake"
              /\ \/ ClientRefresh(c) \/ ClientReconfigure(c) \/ ClientUnpublish(c)
                 \/ ClientClose(c) \/ ClientReconcile(c) \/ QueryAnswers(c) \/ QueryFails(c)
                 \/ SettingsReady(c) \/ Release(c) \/ FinishUnpublish(c)
<1> USE DEF histVars, Goto
<1>1. CASE ClientConnect(c)
  BY <1>1 DEF ClientConnect
<1>2. ASSUME ~ClientConnect(c), ~ClientDisconnect(c) PROVE UNCHANGED userOff
  <2>1. CASE Connect(c)
    BY <2>1 DEF Connect, OpenAnswers, OpenBegins, OpenConnects, OpenGivesUp, Finish,
       FinishUnpublish, FinishPublish, QueryAnswers, QueryFails, SettingsReady, Release
  <2>2. CASE ~Connect(c)
    BY <1>2, <2>2
       DEF ClientStarts, ClientGoesOn, ClientRefresh, ClientReconfigure, ClientLock,
           ClientSwitch, ClientUnpublish, ClientClose, ClientReconcile
  <2> QED
    BY <2>1, <2>2
<1>3. ASSUME ~ClientConnect(c), ~ClientDisconnect(c) PROVE userOff = "awake" /\ ~Connecting(c)
  BY <1>2, <1>3 DEF UserAlone
<1> QED
  BY <1>1, <1>3
     DEF ClientStarts, ClientGoesOn, Connect, Connecting, ClientLock, ClientSwitch,
         OpenAnswers, OpenBegins, OpenConnects, OpenGivesUp, Finish, FinishPublish

\* Suspend and resume keep a remembered disconnect, and forget no more.
LEMMA PowerKeepsDisconnect ==
    ASSUME TypeOK, DisconnectKept, PowerStep
    PROVE  DisconnectKept' /\ UNCHANGED userOff
<1> USE DEF coreVars, powerVars, histVars, DisconnectKept
<1>1. UNCHANGED userOff
  BY DEF PowerStep, PowerCallback, ResumeRecovery, SuspendBegins, SuspendReads,
     SuspendCancels, SuspendHandsOver, Cleanup, CleanupChecks, CleanupCloses, ResumeNotice,
     GapDetected, CooldownEnds, RecoverySwaps, RecoveryCancels, RecoveryReads, RecoveryCloses,
     RecoveryUnpublishes, RecoveryRequests
<1>2. CASE SuspendBegins
  <2>1. pc'[Recovery] = pc[Recovery] /\ budget["suspend"] # 0
    BY <1>2, PowerMoves, EventNames DEF SuspendBegins, Spend, TypeOK, HistTypeOK
  <2> QED
    BY <1>1, <1>2, <2>1 DEF SuspendBegins
<1>3. CASE SuspendReads \/ SuspendCancels \/ SuspendHandsOver
  <2>1. pc'[Recovery] = pc[Recovery]
    BY <1>3, PowerMoves
  <2>2. CASE SuspendReads
    <3>1. UNCHANGED <<suppressed, suspended, resume, budget>> /\ (suppressed => ~wanted')
      BY <2>2 DEF SuspendReads
    <3> QED
      BY <1>1, <2>1, <3>1
  <2>3. CASE SuspendCancels \/ SuspendHandsOver
    <3>1. UNCHANGED <<wanted, suspended, resume, budget>> /\ (suppressed => suppressed')
      BY <2>3 DEF SuspendCancels, SuspendHandsOver
    <3> QED
      BY <1>1, <2>1, <3>1
  <2> QED
    BY <1>3, <2>2, <2>3
<1>4. CASE CooldownEnds \/ \E k \in Cleanups : Cleanup(k)
  <2>1. UNCHANGED <<suppressed, suspended, wanted, resume, budget>>
    BY <1>4 DEF CooldownEnds, Cleanup, CleanupChecks, CleanupCloses
  <2>2. pc'[Recovery] = pc[Recovery]
    BY <1>4, PowerMoves
  <2> QED
    BY <1>1, <2>1, <2>2
<1>5. CASE ResumeNotice \/ GapDetected
  <2>1. \/ pc'[Recovery] = pc[Recovery]
        \/ pc[Recovery] = "idle" /\ pc'[Recovery] = "resume"
    BY <1>5, PowerMoves
  <2>2. UNCHANGED <<suppressed, suspended, wanted>>
    BY <1>5 DEF ResumeNotice, GapDetected
  <2>3. resume'.proactive = resume.proactive /\ resume'.wanted = resume.wanted
    BY <1>5 DEF ResumeNotice, GapDetected, TriggerRecovery, TypeOK, PowerTypeOK
  <2>4. budget'["suspend"] = budget["suspend"]
    BY <1>5, EventNames DEF ResumeNotice, GapDetected, Spend, TypeOK, HistTypeOK
  <2> QED
    BY <1>1, <2>1, <2>2, <2>3, <2>4
<1>6. CASE RecoverySwaps
  <2>1. pc'[Recovery] = "cancel"
    BY <1>6, PowerMoves
  <2> QED
    BY <1>1, <1>6, <2>1 DEF RecoverySwaps, TypeOK, PowerTypeOK
<1>7. CASE RecoveryCancels
  <2>1. pc'[Recovery] = "read"
    BY <1>7, PowerMoves
  <2>2. resume'.proactive = resume.proactive /\ resume'.wanted = resume.wanted
    BY <1>7 DEF RecoveryCancels, TypeOK, PowerTypeOK
  <2> QED
    BY <1>1, <1>7, <2>1, <2>2 DEF RecoveryCancels
<1>8. CASE RecoveryReads
  <2>1. /\ suppressed' = (suppressed /\ ~LiftsSuppression) /\ resume' = NoResume
        /\ UNCHANGED <<suspended, wanted, budget>>
    BY <1>8 DEF RecoveryReads
  <2> QED
    BY <1>1, <2>1 DEF LiftsSuppression, NoResume
<1>9. CASE RecoveryCloses \/ RecoveryUnpublishes \/ RecoveryRequests
  <2>1. pc[Recovery] \in {"close", "unpublish", "request"}
        /\ pc'[Recovery] \in {"unpublish", "request", "idle"}
    BY <1>9, PowerMoves
  <2>2. UNCHANGED <<suppressed, suspended, wanted, resume, budget>>
    BY <1>9 DEF RecoveryCloses, RecoveryUnpublishes, RecoveryRequests
  <2> QED
    BY <1>1, <2>1, <2>2
<1> QED
  BY <1>1, <1>2, <1>3, <1>4, <1>5, <1>6, <1>7, <1>8, <1>9
     DEF PowerStep, PowerCallback, ResumeRecovery

\* Every step keeps a remembered disconnect.
LEMMA KeptStep ==
    /\ TypeOK /\ UserAlone /\ DisconnectKept /\ (FewSuspends \/ AnnouncedResumes)
    /\ [Next]_vars
    => DisconnectKept'
<1> SUFFICES ASSUME TypeOK, UserAlone, DisconnectKept, FewSuspends \/ AnnouncedResumes,
                    [Next]_vars
             PROVE  DisconnectKept'
  OBVIOUS
<1>1. ASSUME PowerLeft, UNCHANGED <<suppressed, userOff>> PROVE DisconnectKept'
  BY <1>1 DEF PowerLeft, DisconnectKept
<1>2. ASSUME NEW c \in Clients, ClientStarts(c) \/ ClientGoesOn(c) PROVE DisconnectKept'
  <2>1. PowerLeft
    BY <1>2, ClientLeaves
  <2>2. CASE userOff' # "awake"
    BY <2>1, <2>2 DEF PowerLeft, DisconnectKept
  <2>3. CASE ClientDisconnect(c) /\ userOff' = "awake"
    <3>1. suppressed' /\ Awake
      BY <2>3 DEF ClientDisconnect
    <3>2. ~suspended /\ pc[Recovery] = "idle" /\ (wanted => budget["suspend"] = 0)
      BY <3>1 DEF Awake, FewSuspends, AnnouncedResumes
    <3> QED
      BY <2>1, <3>1, <3>2 DEF PowerLeft, DisconnectKept
  <2>4. ASSUME userOff' = "awake", userOff = "awake",
               \/ ClientRefresh(c) \/ ClientReconfigure(c) \/ ClientUnpublish(c)
               \/ ClientClose(c) \/ ClientReconcile(c) \/ QueryAnswers(c) \/ QueryFails(c)
               \/ SettingsReady(c) \/ Release(c) \/ FinishUnpublish(c)
        PROVE  DisconnectKept'
    <3>1. suppressed => suppressed'
      BY <2>4 DEF ClientRefresh, ClientReconfigure, ClientUnpublish, ClientClose,
         ClientReconcile, QueryAnswers, QueryFails, SettingsReady, Release, FinishUnpublish,
         coreVars
    <3> QED
      BY <2>1, <2>4, <3>1 DEF PowerLeft, DisconnectKept
  <2> QED
    BY <1>2, <2>2, <2>3, <2>4, ClientAfterDisconnect
<1> QED
  BY <1>1, <1>2, StepSorts, LoopLeaves, RestLeaves, PowerKeepsDisconnect

\* Every step keeps what is open after a disconnect about to be closed.
LEMMA LetStep ==
    /\ TypeOK /\ Orderly /\ HandleInv /\ UserAlone /\ DisconnectKept /\ HandleLet
    /\ [Next]_vars
    => HandleLet'
<1> SUFFICES ASSUME TypeOK, Orderly, HandleInv, UserAlone, DisconnectKept, HandleLet,
                    [Next]_vars, userOff' = "awake"
             PROVE  HandleLet'
  BY DEF HandleLet
<1>1. ASSUME NEW l \in Loops, Loop(l) PROVE HandleLet'
  <2>1. userOff = "awake" /\ ~AttemptIsCurrent(l)
    BY <1>1, LoopLeaves DEF DisconnectKept, AttemptIsCurrent
  <2>2. IsConnected' => SomeoneVouches' \/ (IsConnected /\ ~SomeoneVouches)
    BY <1>1, <2>1, LoopsVouch
  <2>3. \A c \in Clients : pc'[c] = pc[c]
    BY <1>1, LoopSpares
  <2> QED
    BY <2>1, <2>2, <2>3 DEF HandleLet
<1>2. ASSUME Spectates, UNCHANGED userOff PROVE HandleLet'
  <2>1. IsConnected' => IsConnected /\ (SomeoneVouches => SomeoneVouches')
    BY <1>2, BystandersVouch DEF Spectates, Connectors
  <2>2. \A c \in Clients : pc[c] \in {"manual", "close"} => pc'[c] = pc[c]
    BY <1>2 DEF Spectates, Connectors
  <2> QED
    BY <1>2, <2>1, <2>2 DEF HandleLet
<1>3. ASSUME NEW c \in Clients, ClientStarts(c) \/ ClientGoesOn(c) PROVE HandleLet'
  <2> USE DEF Goto
  <2>1. PcTypeOK /\ c \in Connectors /\ c \notin Loops /\ Clients \subseteq Connectors
        /\ Loops \subseteq Connectors
    BY ActorSorts DEF TypeOK, Connectors
  <2>2. CASE ClientDisconnect(c) \/ ClientUnpublish(c)
    <3>1. pc'[c] \in {"manual", "close"}
      BY <2>1, <2>2, ConnectorMoves DEF ClientDisconnect, ClientUnpublish
    <3> QED
      BY <3>1 DEF HandleLet
  <2>3. CASE ClientClose(c)
    BY <2>3 DEF ClientClose, Disconnect, CloseHandle, IsConnected, HandleLet
  <2>4. ASSUME userOff = "awake",
               \/ ClientRefresh(c) \/ ClientReconfigure(c)
               \/ ClientReconcile(c) \/ QueryAnswers(c) \/ QueryFails(c)
               \/ SettingsReady(c) \/ Release(c) \/ FinishUnpublish(c)
        PROVE  HandleLet'
    <3>1. HandleKept /\ UNCHANGED attemptOk
      BY <2>4, MethodsKeepHandle
         DEF ClientRefresh, ClientReconfigure, CancelReconnect, ClientReconcile, QueryAnswers,
             QueryFails, SettingsReady, Release, FinishUnpublish, loopVars
    <3>2. pc[c] \notin {"manual", "close"} /\ \E to : pc' = [pc EXCEPT ![c] = to]
      BY <2>4 DEF ClientRefresh, ClientReconfigure, ClientReconcile, QueryAnswers,
             QueryFails, SettingsReady, Release, FinishUnpublish
    <3>3. \A b \in Connectors : b # c => pc'[b] = pc[b]
      BY <2>1, <3>2, ConnectorMoves
    <3>4. IsConnected' => IsConnected /\ (SomeoneVouches => SomeoneVouches')
      BY <2>1, <3>1, <3>3, BystandersVouch
    <3> QED
      BY <2>1, <2>4, <3>2, <3>3, <3>4 DEF HandleLet
  <2> QED
    BY <1>3, <2>2, <2>3, <2>4, ClientAfterDisconnect
<1> QED
  BY <1>1, <1>2, <1>3, StepSorts, OthersSpectate, RestLeaves, PowerKeepsDisconnect

\* At the start nothing is remembered.
LEMMA DisconnectInit == Init => DisconnectInv
BY DEF Init, ManagerInit, DisconnectInv, UserAlone, DisconnectKept, HandleLet, NoResume

\* The mixes of events for which a remembered disconnect is safe from suspend
\* and resume.
LEMMA MildInit ==
    ASSUME \A b \in Budgets : MildBudget(b)
    PROVE  Init => FewSuspends \/ AnnouncedResumes
BY ActorSorts DEF Init, MildBudget, FewSuspends, AnnouncedResumes

\* DisconnectDevice: once the user has disconnected an awake machine, nothing but
\* a connect request brings the device back: no loop, health check, arrival, loss
\* report, configuration change, suspend or resume.  (In instances in which a
\* gap cannot come between two suspends: see the beginning of the section.)
THEOREM DisconnectStands ==
    ASSUME \A b \in Budgets : MildBudget(b)
    PROVE  Spec => []DisconnectHolds
<1>1. TypeOK /\ (FewSuspends \/ AnnouncedResumes) /\ [Next]_vars
        => (FewSuspends \/ AnnouncedResumes)'
  BY FewStep, AnnouncedStep
<1>2. Init => FewSuspends \/ AnnouncedResumes
  BY MildInit
<1>3. TypeOK /\ Orderly /\ HandleInv /\ (FewSuspends \/ AnnouncedResumes) /\ DisconnectInv
        /\ [Next]_vars => DisconnectInv'
  BY UserAloneStep, KeptStep, LetStep DEF DisconnectInv
<1>4. DisconnectInv => DisconnectHolds
  BY DEF DisconnectInv, DisconnectKept, HandleLet, DisconnectHolds, SomeoneVouches, Vouches,
         Attempting
<1> QED
  BY <1>1, <1>2, <1>3, <1>4, DisconnectInit, TypeCorrect, OrderHolds, HandleHolds, PTL DEF Spec

\* A budget that lets no request connect or refresh where there are suspends:
\* ConnectDevice and RefreshDeviceSettings do not look at suspended.
CalmBudget(b) == b["suspend"] = 0 \/ (b["connect"] = 0 /\ b["refresh"] = 0)

NeverSuspends == budget["suspend"] = 0 /\ ~suspended

NoConnects ==
    /\ budget["connect"] = 0 /\ budget["refresh"] = 0
    /\ \A c \in Clients : pc[c] \in {"idle", "manual", "close", "reconcile"}

\* A cleanup that is about to close the device: its suspend is still current.
ClosingSoon ==
    \E k \in Cleanups : pc[k] = "close" \/ (pc[k] = "check" /\ k \in suspendHolders)

\* From its compare-and-swap on the handler's generation is current; once it has
\* waited for a commit there is no other; when it is through, the core is not
\* connected and what is open is about to be closed.
SuspendLeaves ==
    /\ suspended /\ pc[Power] # "idle" => Power \in suspendHolders
    /\ suspended /\ pc[Power] \in {"unpublish", "idle"} => \A l \in Loops : ~Committing(l)
    /\ suspended /\ pc[Power] = "idle" => ~coreConnected
    /\ suspended /\ pc[Power] = "idle" /\ IsConnected => ClosingSoon \/ SomeoneVouches

\* No event comes more often than it may.
LEMMA BudgetsFall ==
    ASSUME TypeOK, [Next]_vars, NEW e \in Events, budget[e] = 0
    PROVE  budget'[e] = 0
<1> USE DEF histVars
<1>1. ASSUME NEW d \in Events, Spend(d) PROVE budget'[e] = 0
  BY <1>1 DEF Spend, TypeOK, HistTypeOK
<1>2. CASE UNCHANGED budget
  BY <1>2
<1>3. CASE \E l \in Loops : Loop(l)
  BY <1>2, <1>3, LoopLeaves
<1>4. ASSUME NEW c \in Clients, ClientStarts(c) PROVE budget'[e] = 0
  BY <1>1, <1>4, EventNames
     DEF ClientStarts, ClientConnect, ClientDisconnect, ClientRefresh, ClientReconfigure
<1>5. ASSUME NEW c \in Clients, ClientGoesOn(c) PROVE UNCHANGED budget
  <2>1. CASE Connect(c)
    BY <2>1 DEF Connect, OpenAnswers, OpenBegins, OpenConnects, OpenGivesUp, Finish,
       FinishUnpublish, FinishPublish, QueryAnswers, QueryFails, SettingsReady, Release
  <2>2. CASE ~Connect(c)
    BY <1>5, <2>2 DEF ClientGoesOn, ClientLock, ClientSwitch, ClientUnpublish, ClientClose,
       ClientReconcile
  <2> QED
    BY <2>1, <2>2
<1>6. ASSUME PowerStep PROVE budget'[e] = 0
  BY <1>1, <1>6, EventNames
     DEF PowerStep, PowerCallback, ResumeRecovery, SuspendBegins, SuspendReads,
         SuspendCancels, SuspendHandsOver, Cleanup, CleanupChecks, CleanupCloses, ResumeNotice,
         GapDetected, CooldownEnds, RecoverySwaps, RecoveryCancels, RecoveryReads,
         RecoveryCloses, RecoveryUnpublishes, RecoveryRequests
<1>7. ASSUME \/ \E r \in Receivers : Receiver(r)
             \/ HealthMonitor
      PROVE  UNCHANGED budget
  BY <1>7 DEF Receiver, ReceiverReports, HealthMonitor, HealthCheck, HealthRequests,
     HealthPasses, HealthFails, HealthCloses, LossPublished, LossRequest
<1>8. ASSUME Arrival \/ Startup \/ ModeTurnsOn \/ MonitorOnlyMode \/ LinkDrop \/ LinkReturn
             \/ UNCHANGED vars
      PROVE  budget'[e] = 0
  BY <1>1, <1>8, EventNames
     DEF Arrival, Startup, ModeTurnsOn, MonitorOnlyMode, ModeCancels, ModeCloses,
         ModeUnpublishes, LinkDrop, LinkReturn, vars
<1> QED
  BY <1>2, <1>3, <1>4, <1>5, <1>6, <1>7, <1>8, StepSorts

\* Without a connect or refresh a request only disconnects or reconciles.
LEMMA ClientWithoutConnect ==
    ASSUME TypeOK, NoConnects, NEW c \in Clients, ClientStarts(c) \/ ClientGoesOn(c)
    PROVE  /\ HandleKept /\ UNCHANGED attemptOk
           /\ coreConnected' => coreConnected
           /\ pc'[c] \in {"idle", "manual", "close", "reconcile"}
           /\ \A b \in Connectors : b # c => pc'[b] = pc[b]
<1> USE DEF Goto, coreVars, loopVars
<1>1. PcTypeOK /\ c \in Connectors
  BY DEF TypeOK, Connectors
<1>2. \/ ClientDisconnect(c) \/ ClientReconfigure(c) \/ ClientUnpublish(c) \/ ClientClose(c)
      \/ ClientReconcile(c)
  <2>1. ~ClientConnect(c) /\ ~ClientRefresh(c)
    BY EventNames DEF ClientConnect, ClientRefresh, Spend, NoConnects
  <2>2. ~Connect(c)
    BY DEF NoConnects, Connect, OpenAnswers, OpenBegins, OpenConnects, OpenGivesUp, Finish,
       FinishUnpublish, FinishPublish, QueryAnswers, QueryFails, SettingsReady, Release
  <2>3. ~ClientLock(c) /\ ~ClientSwitch(c)
    BY DEF NoConnects, ClientLock, ClientSwitch
  <2> QED
    BY <2>1, <2>2, <2>3 DEF ClientStarts, ClientGoesOn
<1>3. HandleKept /\ UNCHANGED attemptOk /\ (coreConnected' => coreConnected)
  BY <1>2, MethodsKeepHandle
     DEF ClientDisconnect, ClientReconfigure, CancelReconnect, ClientUnpublish, ClientClose,
         ClientReconcile
<1>4. PICK to \in {"idle", "manual", "close", "reconcile"} : pc' = [pc EXCEPT ![c] = to]
  BY <1>2 DEF ClientDisconnect, ClientReconfigure, ClientUnpublish, ClientClose, ClientReconcile
<1> QED
  BY <1>1, <1>3, <1>4, ConnectorMoves

\* Every step keeps requests from connecting.
LEMMA NoConnectsStep == TypeOK /\ HandleInv /\ NoConnects /\ [Next]_vars => NoConnects'
<1> SUFFICES ASSUME TypeOK, HandleInv, NoConnects, [Next]_vars PROVE NoConnects'
  OBVIOUS
<1>1. budget'["connect"] = 0 /\ budget'["refresh"] = 0
  BY BudgetsFall, EventNames DEF NoConnects
<1>2. CASE Spectates
  BY <1>1, <1>2, ActorSorts DEF Spectates, NoConnects, Connectors
<1>3. ASSUME NEW c \in Clients, ClientStarts(c) \/ ClientGoesOn(c) PROVE NoConnects'
  BY <1>1, <1>3, ClientWithoutConnect DEF NoConnects, Connectors
<1>4. ASSUME NEW l \in Loops, Loop(l) PROVE NoConnects'
  BY <1>1, <1>4, LoopSpares DEF NoConnects
<1> QED
  BY <1>2, <1>3, <1>4, StepSorts, OthersSpectate

\* A loop commits, or publishes, only if its attempt is current or it commits already.
LEMMA LoopCommits ==
    ASSUME TypeOK, NEW l \in Loops, Loop(l), ~AttemptIsCurrent(l), ~Committing(l)
    PROVE  /\ \A m \in Loops : Committing(m)' => Committing(m)
           /\ coreConnected' => coreConnected
<1> USE DEF Goto, coreVars, Committing
<1>1. PcTypeOK /\ l \in Connectors /\ Loops \subseteq Connectors
  BY DEF TypeOK, Connectors
<1>2. ASSUME NEW to, pc' = [pc EXCEPT ![l] = to], to \notin {"finish", "publish", "query", "ready"}
      PROVE  \A m \in Loops : Committing(m)' => Committing(m)
  <2>1. pc'[l] = to /\ \A b \in Connectors : b # l => pc'[b] = pc[b]
    BY <1>1, <1>2, ConnectorMoves
  <2> QED
    BY <1>1, <1>2, <2>1
<1>3. CASE Connect(l)
  <2>1. OpenAnswers(l) \/ OpenBegins(l) \/ OpenConnects(l) \/ OpenGivesUp(l)
        \/ FinishUnpublish(l) \/ Release(l)
    BY <1>3 DEF Connect, Finish, FinishPublish, QueryAnswers, QueryFails, SettingsReady
  <2>2. coreConnected' => coreConnected
    BY <2>1 DEF OpenAnswers, OpenBegins, OpenConnects, OpenGivesUp, FinishUnpublish, Release
  <2>3. \E to : /\ pc' = [pc EXCEPT ![l] = to]
                /\ to \notin {"finish", "publish", "query", "ready"}
    BY <2>1, ActorSorts DEF OpenAnswers, OpenBegins, OpenConnects, OpenGivesUp, Outcome,
       FinishUnpublish, Release
  <2> QED
    BY <1>2, <2>2, <2>3
<1>4. CASE ~Connect(l)
  <2>1. UNCHANGED coreConnected
    BY <1>4 DEF Loop, LoopCheck, LoopWakes, LoopAttempt, LoopCapture, LoopComplete,
       LoopDropsStale, LoopExit
  <2>2. \E to : /\ pc' = [pc EXCEPT ![l] = to]
                /\ to \notin {"finish", "publish", "query", "ready"}
    BY <1>4 DEF Loop, LoopCheck, LoopWakes, LoopAttempt, LoopCapture, LoopComplete,
       LoopDropsStale, LoopExit
  <2> QED
    BY <1>2, <2>1, <2>2
<1> QED
  BY <1>3, <1>4

\* Where the cleanups are after a step of suspend and resume.
LEMMA CleanupsStay ==
    ASSUME TypeOK, PowerStep, ~SuspendHandsOver, ~(\E k \in Cleanups : Cleanup(k))
    PROVE  \A k \in Cleanups : pc'[k] = pc[k]
<1> USE SingleSorts, ActorSorts DEF Goto
<1>1. pc \in [Actors -> Steps]
  BY DEF TypeOK, PcTypeOK
<1>2. CASE SuspendBegins \/ PowerCallback
  BY <1>1, <1>2 DEF SuspendBegins, PowerCallback, SuspendReads, SuspendCancels
<1>3. CASE ResumeNotice \/ GapDetected \/ CooldownEnds
  BY <1>1, <1>3 DEF ResumeNotice, GapDetected, TriggerRecovery, CooldownEnds
<1>4. CASE RecoveryRequests
  <2> DEFINE moved == [pc EXCEPT ![Recovery] = "idle"]
  <2>1. moved \in [Actors -> Steps] /\ \A k \in Cleanups : moved[k] = pc[k]
    BY <1>1, StepNames
  <2> QED
    BY <1>4, <2>1 DEF RecoveryRequests, RequestReconnect
<1>5. CASE ResumeRecovery /\ ~RecoveryRequests
  BY <1>1, <1>5 DEF ResumeRecovery, RecoverySwaps, RecoveryCancels, RecoveryReads,
     RecoveryCloses, RecoveryUnpublishes
<1> QED
  BY <1>2, <1>3, <1>4, <1>5 DEF PowerStep

\* Suspend and resume keep what the suspend handler leaves.
LEMMA PowerKeepsLeaves ==
    ASSUME TypeOK, Orderly, SuspendLeaves, PowerStep
    PROVE  SuspendLeaves'
<1> USE DEF coreVars, powerVars
<1>1. /\ IsConnected' => IsConnected /\ (SomeoneVouches => SomeoneVouches')
      /\ \A l \in Loops : Committing(l)' => Committing(l)
  <2>1. Spectates
    BY OthersSpectate
  <2> QED
    BY <2>1, BystandersVouch DEF Spectates, Connectors, Committing
<1>2. CASE SuspendBegins
  <2>1. pc'[Power] = "barrier" /\ suspendHolders' = {Power}
    BY <1>2, PowerMoves DEF SuspendBegins
  <2> QED
    BY <2>1 DEF SuspendLeaves
<1>3. CASE SuspendReads
  <2>1. pc[Power] = "barrier" /\ pc'[Power] = "cancel" /\ UNCHANGED <<suspended, suspendHolders>>
    BY <1>3, PowerMoves DEF SuspendReads
  <2> QED
    BY <2>1 DEF SuspendLeaves
<1>4. CASE SuspendCancels
  <2>1. /\ pc[Power] = "cancel" /\ pc'[Power] = "unpublish" /\ reconnectMutex = NoOne
        /\ UNCHANGED <<suspended, suspendHolders>>
    BY <1>4, PowerMoves DEF SuspendCancels, CancelReconnect, ReconnectMutexFree
  <2>2. \A l \in Loops : ~Committing(l)
    BY <2>1, ActorSorts DEF Orderly, CommitOwned, Committing
  <2> QED
    BY <1>1, <2>1, <2>2 DEF SuspendLeaves
<1>5. CASE SuspendHandsOver
  <2>1. /\ pc[Power] = "unpublish" /\ pc'[Power] = "idle"
        /\ UNCHANGED suspended /\ ~coreConnected'
    BY <1>5, PowerMoves DEF SuspendHandsOver
  <2>2. suspended => ClosingSoon'
    <3>1. PICK k \in Cleanups :
             /\ pc' = [pc EXCEPT ![k] = "check", ![Power] = "idle"]
             /\ suspendHolders' = IF Power \in suspendHolders
                                  THEN suspendHolders \cup {k} ELSE suspendHolders \ {k}
      BY <1>5 DEF SuspendHandsOver
    <3>2. pc'[k] = "check"
      BY <3>1, SingleSorts, ActorSorts DEF TypeOK, PcTypeOK
    <3>3. suspended => k \in suspendHolders'
      BY <2>1, <3>1 DEF SuspendLeaves
    <3> QED
      BY <3>2, <3>3 DEF ClosingSoon
  <2> QED
    BY <1>1, <2>1, <2>2 DEF SuspendLeaves
<1>6. ASSUME NEW k \in Cleanups, Cleanup(k) PROVE SuspendLeaves'
  <2>1. pc'[Power] = pc[Power] /\ UNCHANGED <<suspended, suspendHolders, coreConnected>>
    BY <1>6, PowerMoves DEF Cleanup, CleanupChecks, CleanupCloses
  <2>2. suspended /\ IsConnected' /\ ClosingSoon => ClosingSoon'
    <3>1. CASE CleanupCloses(k)
      BY <3>1 DEF CleanupCloses, Disconnect, CloseHandle, IsConnected
    <3>2. CASE CleanupChecks(k)
      <4>1. /\ pc[k] = "check"
            /\ pc'[k] = IF suspended /\ k \in suspendHolders THEN "close" ELSE "idle"
            /\ \A j \in Cleanups : j # k => pc'[j] = pc[j]
        BY <3>2, ActorSorts DEF CleanupChecks, Goto, TypeOK, PcTypeOK
      <4> QED
        BY <2>1, <4>1 DEF ClosingSoon
    <3> QED
      BY <1>6, <3>1, <3>2 DEF Cleanup
  <2> QED
    BY <1>1, <2>1, <2>2 DEF SuspendLeaves
<1>7. CASE RecoverySwaps
  BY <1>7 DEF RecoverySwaps, SuspendLeaves
<1>8. ASSUME UNCHANGED <<suspended, suspendHolders>>, coreConnected' => coreConnected,
             pc'[Power] = pc[Power], \A k \in Cleanups : pc'[k] = pc[k]
      PROVE  SuspendLeaves'
  BY <1>1, <1>8 DEF SuspendLeaves, ClosingSoon
<1>9. CASE /\ ResumeNotice \/ GapDetected \/ CooldownEnds \/ (ResumeRecovery /\ ~RecoverySwaps)
           /\ ~SuspendHandsOver /\ ~(\E k \in Cleanups : Cleanup(k))
  <2>1. pc'[Power] = pc[Power] /\ \A k \in Cleanups : pc'[k] = pc[k]
    BY <1>9, PowerMoves, CleanupsStay
  <2>2. CASE ResumeNotice \/ GapDetected \/ CooldownEnds
    BY <1>8, <2>1, <2>2 DEF ResumeNotice, GapDetected, CooldownEnds
  <2>3. CASE RecoveryCancels \/ RecoveryReads
    BY <1>8, <2>1, <2>3 DEF RecoveryCancels, RecoveryReads
  <2>4. CASE RecoveryCloses \/ RecoveryUnpublishes \/ RecoveryRequests
    BY <1>8, <2>1, <2>4 DEF RecoveryCloses, RecoveryUnpublishes, RecoveryRequests
  <2> QED
    BY <1>9, <2>2, <2>3, <2>4 DEF ResumeRecovery
<1> QED
  BY <1>2, <1>3, <1>4, <1>5, <1>6, <1>7, <1>9 DEF PowerStep, PowerCallback

\* Every step keeps what the suspend handler leaves.
LEMMA LeavesStep ==
    TypeOK /\ Orderly /\ HandleInv /\ NoConnects /\ SuspendLeaves /\ [Next]_vars
    => SuspendLeaves'
<1> SUFFICES ASSUME TypeOK, Orderly, HandleInv, NoConnects, SuspendLeaves, [Next]_vars
             PROVE  SuspendLeaves'
  OBVIOUS
<1>1. ASSUME PowerLeft, coreConnected' => coreConnected,
             IsConnected' => IsConnected /\ (SomeoneVouches => SomeoneVouches'),
             \A l \in Loops : Committing(l)' => Committing(l)
      PROVE  SuspendLeaves'
  BY <1>1 DEF PowerLeft, SuspendLeaves, ClosingSoon
<1>2. ASSUME NEW l \in Loops, Loop(l) PROVE SuspendLeaves'
  <2>1. PowerLeft
    BY <1>2, LoopLeaves
  <2>2. CASE ~suspended \/ pc[Power] \in {"barrier", "cancel"}
    BY <2>1, <2>2 DEF PowerLeft, SuspendLeaves
  <2>3. CASE suspended /\ pc[Power] \in {"unpublish", "idle"}
    <3>1. ~AttemptIsCurrent(l) /\ ~Committing(l)
      BY <2>3 DEF AttemptIsCurrent, SuspendLeaves
    <3>2. /\ \A m \in Loops : Committing(m)' => Committing(m)
          /\ coreConnected' => coreConnected
      BY <1>2, <3>1, LoopCommits
    <3>3. IsConnected' => SomeoneVouches' \/ (IsConnected /\ ~SomeoneVouches)
      BY <1>2, <3>1, LoopsVouch
    <3> QED
      BY <2>1, <3>2, <3>3 DEF PowerLeft, SuspendLeaves, ClosingSoon
  <2>4. CASE suspended /\ pc[Power] \notin {"unpublish", "idle"}
    BY <2>1, <2>4 DEF PowerLeft, SuspendLeaves
  <2> QED
    BY <2>2, <2>3, <2>4
<1>3. ASSUME NEW c \in Clients, ClientStarts(c) \/ ClientGoesOn(c) PROVE SuspendLeaves'
  <2>1. \A l \in Loops : pc'[l] = pc[l]
    BY <1>3, ClientWithoutConnect, ActorSorts DEF Connectors
  <2>2. IsConnected' => IsConnected /\ (SomeoneVouches => SomeoneVouches')
    BY <1>3, <2>1, ClientWithoutConnect, BystandersVouch
  <2> QED
    BY <1>1, <1>3, <2>1, <2>2, ClientWithoutConnect, ClientLeaves DEF Committing
<1>4. ASSUME \/ \E r \in Receivers : Receiver(r)
             \/ HealthMonitor \/ Arrival \/ Startup \/ ModeTurnsOn \/ MonitorOnlyMode
             \/ LinkDrop \/ LinkReturn \/ UNCHANGED vars
      PROVE  SuspendLeaves'
  <2>1. PowerLeft /\ Spectates
    BY <1>4, RestLeaves, OthersSpectate
  <2>2. IsConnected' => IsConnected /\ (SomeoneVouches => SomeoneVouches')
    BY <2>1, BystandersVouch DEF Spectates, Connectors
  <2>3. \A l \in Loops : Committing(l)' => Committing(l)
    BY <2>1 DEF Spectates, Connectors, Committing
  <2>4. coreConnected' => coreConnected
    BY <1>4 DEF Receiver, ReceiverReports, HealthMonitor, HealthCheck, HealthRequests,
       HealthPasses, HealthFails, HealthCloses, LossPublished, LossRequest, Arrival, Startup,
       ModeTurnsOn, MonitorOnlyMode, ModeCancels, ModeCloses, ModeUnpublishes, LinkDrop,
       LinkReturn, vars, coreVars
  <2> QED
    BY <1>1, <2>1, <2>2, <2>3, <2>4
<1> QED
  BY <1>2, <1>3, <1>4, StepSorts, PowerKeepsLeaves

\* Without a suspend the machine is never suspended.
LEMMA NeverStep == TypeOK /\ NeverSuspends /\ [Next]_vars => NeverSuspends'
<1> SUFFICES ASSUME TypeOK, NeverSuspends, [Next]_vars PROVE NeverSuspends'
  OBVIOUS
<1>1. budget'["suspend"] = 0
  BY BudgetsFall, EventNames DEF NeverSuspends
<1>2. CASE PowerLeft
  BY <1>1, <1>2 DEF PowerLeft, NeverSuspends
<1>3. ASSUME PowerStep PROVE NeverSuspends'
  <2>1. ~SuspendBegins
    BY DEF NeverSuspends, SuspendBegins, Spend
  <2>2. PowerCallback => UNCHANGED suspended
    BY DEF PowerCallback, SuspendReads, SuspendCancels, SuspendHandsOver, coreVars
  <2>3. ResumeRecovery => (suspended' => suspended)
    BY DEF ResumeRecovery, RecoverySwaps, RecoveryCancels, RecoveryReads, RecoveryCloses,
       RecoveryUnpublishes, RecoveryRequests, coreVars
  <2>4. ResumeNotice \/ GapDetected \/ CooldownEnds \/ (\E k \in Cleanups : Cleanup(k))
           => UNCHANGED suspended
    BY DEF ResumeNotice, GapDetected, CooldownEnds, Cleanup, CleanupChecks, CleanupCloses, coreVars
  <2> QED
    BY <1>1, <1>3, <2>1, <2>2, <2>3, <2>4 DEF PowerStep, NeverSuspends
<1> QED
  BY <1>2, <1>3, StepSorts, LoopLeaves, ClientLeaves, RestLeaves

\* onSystemSuspend: when the handler and its cleanup are through and the machine
\* is still suspended, the device is closed and the core knows it; only an attempt
\* in its connect call may hold a handle, and will close it.  (In instances in
\* which no request connects or refreshes beside a suspend.)
THEOREM SuspendStaysQuiet ==
    ASSUME \A b \in Budgets : CalmBudget(b)
    PROVE  Spec => []SuspendIsQuiet
<1> DEFINE Calm == NeverSuspends \/ (NoConnects /\ SuspendLeaves)
<1>1. Init => Calm
  <2>1. Init => (budget["suspend"] = 0 \/ (budget["connect"] = 0 /\ budget["refresh"] = 0))
    BY DEF Init, CalmBudget
  <2> QED
    BY <2>1, ActorSorts DEF Init, ManagerInit, NeverSuspends, NoConnects, SuspendLeaves
<1>2. TypeOK /\ Orderly /\ HandleInv /\ Calm /\ [Next]_vars => Calm'
  BY NeverStep, NoConnectsStep, LeavesStep
<1>3. Calm => SuspendIsQuiet
  BY DEF NeverSuspends, SuspendLeaves, SuspendIsQuiet, ClosingSoon, SomeoneVouches, Vouches,
         Attempting
<1> QED
  BY <1>1, <1>2, <1>3, TypeCorrect, OrderHolds, HandleHolds, PTL DEF Spec

\* DisconnectDevice, refreshMonitorOnlyRuntime and onSystemSuspend together, for
\* every mix of events for which both theorems above are stated.
THEOREM QuietStays ==
    ASSUME \A b \in Budgets : MildBudget(b) /\ CalmBudget(b)
    PROVE  Spec => []QuietWhenAskedTo
<1>1. DisconnectHolds /\ MonitorOnlyIsQuiet /\ SuspendIsQuiet => QuietWhenAskedTo
  BY DEF QuietWhenAskedTo
<1>2. (Spec => []DisconnectHolds) /\ (Spec => []SuspendIsQuiet)
  BY DisconnectStands, SuspendStaysQuiet
<1> QED
  BY <1>1, <1>2, MonitorOnlyStaysQuiet, PTL

=============================================================================
