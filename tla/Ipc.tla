-------------------------------- MODULE Ipc --------------------------------
(***************************************************************************)
(* The GUI's end of the pipe (ipc/ipc.go, Client) and what its calls do    *)
(* when a request fails (guiapp/ipc_client.go).  The GUI runs every call   *)
(* in a goroutine of its own; there is one connection at a time, with a    *)
(* generation, and per connection a goroutine that reads from it.  The     *)
(* watchdog (guiapp/ipc_watchdog.go) connects again when nobody does.      *)
(*                                                                         *)
(* The client is connected when conn # 0: connected and conn change        *)
(* together.  Links are numbered in the order they are dialled in.          *)
(***************************************************************************)
EXTENDS IpcServer

CONSTANTS
    Callers,  \* calls of sendRequestWithTimeout
    NoOne,    \* holds no mutex
    Scenarios \* which calls a behaviour makes and the mix of environment events it may contain

Events == {"broadcast", "timeout", "stall", "stop", "die", "watchdog"}

ASSUME RequestsAssumption == Requests = Callers \X {1, 2}
\* An event is told from a response, and from the steps of a read loop.
ASSUME BroadcastsAssumption ==
    Broadcasts \cap (Requests \cup {"off", "read", "handle", "retire", "close", "fail"}) = {}
Kinds == {"read", "write", "none"}

ASSUME ScenariosAssumption ==
    Scenarios \subseteq [calls : [Callers -> Kinds], events : [Events -> Nat]]

VARIABLES
    conn,         \* the link of the current connection, 0 if there is none
    generation,   \* of Client
    pending,      \* of Client: per request the generation it waits in, 0 if it does not
    result,       \* per request what its channel holds: "none", "response", "error"
    dialled,      \* per link the generation of its connection
    reader,       \* per link where its readLoop is, or the event it has read
    dispatching,  \* the link whose reader holds eventDispatchMutex, 0 if none
    at,           \* per call where it is
    attempt,      \* per call: 1, or 2 in the repetition of a read
    sentIn,       \* per call: the generation of its request, 0 before the first
    sentOn,       \* per call: the link of its request
    reconnecting, \* who holds ipcReconnectMutex
    status, kind, runs,  \* of Calls
    handled,      \* events the GUI has handled, with their links, in order
    budget        \* events still to come

clientVars == <<conn, generation, dialled, pending, result, reader, dispatching>>
callerVars == <<at, attempt, sentIn, sentOn, reconnecting>>
historyVars == <<status, kind, runs, handled>>
vars == <<linkVars, serverVars, handlerVars, todo, clientVars, callerVars, historyVars, budget>>

CallSteps == {"idle", "ensure", "send", "register", "write", "wait", "retire", "close",
              "fail", "stalled", "closeStalled", "failStalled",
              "recover", "closeOld", "failOld", "connect", "done"}

\* Every variable stays in its type.
TypeOK ==
    /\ ServerTypeOK
    /\ conn \in Links \cup {0} /\ generation \in Nat
    /\ pending \in [Requests -> Nat]
    /\ result \in [Requests -> {"none", "response", "error"}]
    /\ reader \in [Links -> {"off", "read", "handle", "retire", "close", "fail"} \cup Broadcasts]
    /\ dispatching \in Links \cup {0}
    /\ at \in [Callers -> CallSteps] /\ attempt \in [Callers -> {1, 2}]
    /\ dialled \in [Links -> Nat]
    /\ sentIn \in [Callers -> Nat] /\ sentOn \in [Callers -> Links \cup {0}]
    /\ reconnecting \in Callers \cup {NoOne}
    /\ status \in [Callers -> {"idle", "open", "ok", "failed"}]
    /\ kind \in [Callers -> Kinds] /\ runs \in [Callers -> 0..2]
    /\ handled \in Seq(Broadcasts \X Links)
    /\ budget \in [Events -> Nat]

Spend(event) ==
    /\ budget[event] > 0
    /\ budget' = [budget EXCEPT ![event] = @ - 1]

Request(c) == <<c, attempt[c]>>

-----------------------------------------------------------------------------
(* Retiring a connection, in the three steps of disconnectCurrent and      *)
(* CloseGeneration: forget it, close it, fail the requests that wait.      *)

\* Mutant: what is retired is the current connection, not the one that failed.
Retires_Current(g) ==
    /\ conn' = 0 /\ generation' = generation + 1

\* Only if it is still the current one.
Retires(g) ==
    IF generation = g
    THEN conn' = 0 /\ generation' = generation + 1
    ELSE UNCHANGED <<conn, generation>>

\* Where the procedure goes on: a generation somebody else has retired is closed by them.
AfterRetire(g, close, fail) == IF generation = g THEN close ELSE fail

Closes(k) == clientEnd' = [clientEnd EXCEPT ![k] = "closed"]

\* Mutant: it looks for those of the current generation.
FailPending_Current(g) ==
    /\ pending' = [r \in Requests |-> IF pending[r] = generation THEN 0 ELSE pending[r]]
    /\ result' = [r \in Requests |->
                     IF pending[r] = generation /\ g # 0 THEN "error" ELSE result[r]]

\* failPending.
FailPending(g) ==
    /\ pending' = [r \in Requests |-> IF pending[r] = g THEN 0 ELSE pending[r]]
    /\ result' = [r \in Requests |-> IF pending[r] = g /\ g # 0 THEN "error" ELSE result[r]]

\* Connect: a running core is dialled.
Dials ==
    \E k \in Links :
       /\ clientEnd[k] = "none" /\ \A j \in Links : j < k => clientEnd[j] # "none"
       /\ generation' = generation + 1 /\ conn' = k
       /\ dialled' = [dialled EXCEPT ![k] = generation + 1]
       /\ clientEnd' = [clientEnd EXCEPT ![k] = "open"]
       /\ serverEnd' = [serverEnd EXCEPT ![k] = "backlog"]
       /\ reader' = [reader EXCEPT ![k] = "read"]

\* An attempt to connect that changes nothing.
NotDialled == UNCHANGED <<conn, generation, dialled, reader, clientEnd, serverEnd, running, acceptor>>

\* connectIPCLocked: nothing to do, or EnsureCoreServiceRunning, which starts a core
\* when none is left, and Connect; a core that is going down lets it fail.
Connects(ok) ==
    \/ ok /\ conn # 0 /\ NotDialled
    \/ ok /\ conn = 0 /\ running /\ Dials /\ UNCHANGED <<running, acceptor>>
    \/ ok /\ conn = 0 /\ CoreIsGone /\ Dials /\ running' = TRUE /\ acceptor' = "accept"
    \/ ~ok /\ conn = 0 /\ ~running /\ ~CoreIsGone /\ NotDialled

-----------------------------------------------------------------------------
(* readLoop.                                                               *)

UnchangedByReader ==
    UNCHANGED <<up, serverEnd, serverVars, handlerVars, todo, dialled, callerVars, status, kind, runs, budget>>

\* A response goes to the request with its ID if that waits in this connection.
ReadsResponse(k) ==
    /\ reader[k] = "read" /\ clientEnd[k] = "open" /\ down[k] # <<>> /\ Head(down[k]) \in Requests
    /\ down' = [down EXCEPT ![k] = Tail(@)]
    /\ LET r == Head(down[k])
       IN  IF pending[r] = dialled[k]
           THEN /\ pending' = [pending EXCEPT ![r] = 0]
                /\ result' = [result EXCEPT ![r] = "response"]
           ELSE UNCHANGED <<pending, result>>
    /\ UNCHANGED <<conn, generation, reader, dispatching, clientEnd, handled>>
    /\ UnchangedByReader

ReadsEvent(k) ==
    /\ reader[k] = "read" /\ clientEnd[k] = "open" /\ down[k] # <<>> /\ Head(down[k]) \in Broadcasts
    /\ down' = [down EXCEPT ![k] = Tail(@)]
    /\ reader' = [reader EXCEPT ![k] = Head(down[k])]
    /\ UNCHANGED <<conn, generation, pending, result, dispatching, clientEnd, handled>>
    /\ UnchangedByReader

\* Mutant: an event that has been read is handled.
IsCurrent_Always(k) == TRUE

\* The connection of this reader is the current one.
IsCurrent(k) == conn = k /\ generation = dialled[k]

\* Under eventDispatchMutex an event of the current connection is handled; the
\* reader of another one ends.
Dispatches(k) ==
    /\ reader[k] \in Broadcasts /\ dispatching = 0
    /\ IF IsCurrent(k)
       THEN /\ dispatching' = k
            /\ reader' = [reader EXCEPT ![k] = "handle"]
            /\ handled' = Append(handled, <<reader[k], k>>)
       ELSE /\ reader' = [reader EXCEPT ![k] = "off"]
            /\ UNCHANGED <<dispatching, handled>>
    /\ UNCHANGED <<conn, generation, pending, result, clientEnd, down>>
    /\ UnchangedByReader

HandlerReturns(k) ==
    /\ reader[k] = "handle"
    /\ dispatching' = 0 /\ reader' = [reader EXCEPT ![k] = "read"]
    /\ UNCHANGED <<conn, generation, pending, result, clientEnd, down, handled>>
    /\ UnchangedByReader

\* The read fails: this end or the other is closed.
ReadFails(k) ==
    /\ reader[k] = "read"
    /\ clientEnd[k] = "closed" \/ serverEnd[k] = "closed"
    /\ reader' = [reader EXCEPT ![k] = "retire"]
    /\ UNCHANGED <<conn, generation, pending, result, dispatching, clientEnd, down, handled>>
    /\ UnchangedByReader

\* disconnectCurrent, by the reader.
ReaderRetires(k) ==
    /\ reader[k] = "retire"
    /\ Retires(dialled[k])
    /\ reader' = [reader EXCEPT ![k] = AfterRetire(dialled[k], "close", "fail")]
    /\ UNCHANGED <<pending, result, dispatching, clientEnd, down, handled>>
    /\ UnchangedByReader

ReaderCloses(k) ==
    /\ reader[k] = "close" /\ Closes(k)
    /\ reader' = [reader EXCEPT ![k] = "fail"]
    /\ UNCHANGED <<conn, generation, pending, result, dispatching, down, handled>>
    /\ UnchangedByReader

ReaderFails(k) ==
    /\ reader[k] = "fail" /\ FailPending(dialled[k])
    /\ reader' = [reader EXCEPT ![k] = "off"]
    /\ UNCHANGED <<conn, generation, dispatching, clientEnd, down, handled>>
    /\ UnchangedByReader

Reader(k) ==
    \/ ReadsResponse(k) \/ ReadsEvent(k) \/ Dispatches(k) \/ HandlerReturns(k)
    \/ ReadFails(k) \/ ReaderRetires(k) \/ ReaderCloses(k) \/ ReaderFails(k)

-----------------------------------------------------------------------------
(* sendRequestWithTimeout.                                                 *)

Moves(c, from, to) == at[c] = from /\ at' = [at EXCEPT ![c] = to]

Finishes(c, outcome) ==
    /\ at' = [at EXCEPT ![c] = "done"]
    /\ status' = [status EXCEPT ![c] = outcome]

UnchangedByCall ==
    UNCHANGED <<down, serverVars, handlerVars, todo, dialled, reader, dispatching, kind, runs, handled>>

\* IsConnected.
CallBegins(c) ==
    /\ kind[c] # "none" /\ Moves(c, "idle", IF conn # 0 THEN "send" ELSE "ensure")
    /\ status' = [status EXCEPT ![c] = "open"]
    /\ UNCHANGED <<up, clientEnd, serverEnd, conn, generation, pending, result>>
    /\ UNCHANGED <<attempt, sentIn, sentOn, reconnecting, budget>>
    /\ UnchangedByCall

\* ensureIPCConnected.
CallEnsures(c, ok) ==
    /\ at[c] = "ensure" /\ reconnecting = NoOne
    /\ Connects(ok)
    /\ IF ok THEN Moves(c, "ensure", "send") /\ UNCHANGED status ELSE Finishes(c, "failed")
    /\ UNCHANGED <<up, down, clients, serverReader, writer, respCh, writeCh, handlerVars, todo>>
    /\ UNCHANGED <<pending, result, dispatching, attempt, sentIn, sentOn, reconnecting>>
    /\ UNCHANGED <<kind, runs, handled, budget>>

\* Mutant: a call is repeated whatever it does.
MayRepeat_All(c) == attempt[c] = 1

\* ipcRequestRetryable, and only once.
MayRepeat(c) == kind[c] = "read" /\ attempt[c] = 1

\* An attempt has failed: the first is followed by a recovery of the connection.
AttemptFails(c) ==
    IF attempt[c] = 1
    THEN at' = [at EXCEPT ![c] = "recover"] /\ UNCHANGED status
    ELSE Finishes(c, "failed")

\* SendRequestWithTimeoutGeneration copies generation and connection.
CallSends(c) ==
    /\ at[c] = "send"
    /\ sentIn' = [sentIn EXCEPT ![c] = generation] /\ sentOn' = [sentOn EXCEPT ![c] = conn]
    /\ IF conn # 0 THEN Moves(c, "send", "register") /\ UNCHANGED status ELSE AttemptFails(c)
    /\ UNCHANGED <<up, clientEnd, serverEnd, conn, generation, pending, result>>
    /\ UNCHANGED <<attempt, reconnecting, budget>>
    /\ UnchangedByCall

CallRegisters(c) ==
    /\ Moves(c, "register", "write")
    /\ pending' = [pending EXCEPT ![Request(c)] = sentIn[c]]
    /\ UNCHANGED <<up, clientEnd, serverEnd, conn, generation, result>>
    /\ UNCHANGED <<attempt, sentIn, sentOn, reconnecting, status, budget>>
    /\ UnchangedByCall

Forgets(c) == pending' = [pending EXCEPT ![Request(c)] = 0]

\* The write succeeds, fails on a closed end, or runs into its deadline.
CallWrites(c) ==
    /\ at[c] = "write"
    /\ LET k == sentOn[c]
           intact == clientEnd[k] = "open" /\ serverEnd[k] # "closed"
       IN  \/ /\ intact
              /\ up' = [up EXCEPT ![k] = Append(@, Request(c))]
              /\ Moves(c, "write", "wait")
              /\ UNCHANGED <<pending, budget>>
           \/ /\ ~intact
              /\ Forgets(c) /\ Moves(c, "write", "retire")
              /\ UNCHANGED <<up, budget>>
           \/ /\ intact /\ Spend("stall")
              /\ Forgets(c) /\ Moves(c, "write", "stalled")
              /\ UNCHANGED up
    /\ UNCHANGED <<clientEnd, serverEnd, conn, generation, result>>
    /\ UNCHANGED <<attempt, sentIn, sentOn, reconnecting, status>>
    /\ UnchangedByCall

\* disconnectCurrent, by the call; after a write that timed out the call has failed.
CallRetires(c) ==
    /\ at[c] \in {"retire", "stalled"}
    /\ Retires(sentIn[c])
    /\ at' = [at EXCEPT ![c] =
                IF at[c] = "retire" THEN AfterRetire(sentIn[c], "close", "fail")
                ELSE AfterRetire(sentIn[c], "closeStalled", "failStalled")]
    /\ UNCHANGED <<up, clientEnd, serverEnd, pending, result>>
    /\ UNCHANGED <<attempt, sentIn, sentOn, reconnecting, status, budget>>
    /\ UnchangedByCall

CallCloses(c) ==
    /\ \/ Moves(c, "close", "fail")
       \/ Moves(c, "closeStalled", "failStalled")
       \/ Moves(c, "closeOld", "failOld")
    /\ Closes(sentOn[c])
    /\ UNCHANGED <<up, serverEnd, conn, generation, pending, result>>
    /\ UNCHANGED <<attempt, sentIn, sentOn, reconnecting, status, budget>>
    /\ UnchangedByCall

CallFails(c) ==
    /\ \/ at[c] = "fail" /\ AttemptFails(c)
       \/ at[c] = "failStalled" /\ Finishes(c, "failed")
       \/ Moves(c, "failOld", "connect") /\ UNCHANGED status
    /\ FailPending(sentIn[c])
    /\ UNCHANGED <<up, clientEnd, serverEnd, conn, generation>>
    /\ UNCHANGED <<attempt, sentIn, sentOn, reconnecting, budget>>
    /\ UnchangedByCall

\* The answer, the failure of the connection, or the timer; when more than one is
\* ready, any.  After a timeout the connection is kept and nothing is repeated: the
\* core may still be executing the request.
CallReturns(c) ==
    /\ at[c] = "wait"
    /\ \/ /\ result[Request(c)] = "response"
          /\ Finishes(c, "ok") /\ UNCHANGED <<pending, budget>>
       \/ /\ result[Request(c)] = "error"
          /\ AttemptFails(c) /\ UNCHANGED <<pending, budget>>
       \/ /\ Spend("timeout")
          /\ Forgets(c) /\ Finishes(c, "failed")
    /\ UNCHANGED <<up, clientEnd, serverEnd, conn, generation, result>>
    /\ UNCHANGED <<attempt, sentIn, sentOn, reconnecting>>
    /\ UnchangedByCall

\* recoverIPCConnection: CloseGeneration of the generation that failed, ...
CallRecovers(c) ==
    /\ at[c] = "recover" /\ reconnecting = NoOne
    /\ reconnecting' = c
    /\ Retires(sentIn[c])
    /\ at' = [at EXCEPT ![c] =
                IF generation = sentIn[c] /\ conn # 0 THEN "closeOld" ELSE "failOld"]
    /\ UNCHANGED <<up, clientEnd, serverEnd, pending, result>>
    /\ UNCHANGED <<attempt, sentIn, sentOn, status, budget>>
    /\ UnchangedByCall

\* ... then connectIPCLocked, and for a read the second attempt.
CallConnects(c, ok) ==
    /\ at[c] = "connect"
    /\ Connects(ok)
    /\ reconnecting' = NoOne
    /\ IF ok /\ MayRepeat(c)
       THEN /\ Moves(c, "connect", "send")
            /\ attempt' = [attempt EXCEPT ![c] = 2]
            /\ UNCHANGED status
       ELSE Finishes(c, "failed") /\ UNCHANGED attempt
    /\ UNCHANGED <<up, down, clients, serverReader, writer, respCh, writeCh, handlerVars, todo>>
    /\ UNCHANGED <<pending, result, dispatching, sentIn, sentOn, kind, runs, handled, budget>>

Call(c) ==
    \/ CallSends(c) \/ CallRegisters(c) \/ CallWrites(c)
    \/ CallRetires(c) \/ CallCloses(c) \/ CallFails(c) \/ CallReturns(c) \/ CallRecovers(c)
    \/ \E ok \in BOOLEAN : CallEnsures(c, ok) \/ CallConnects(c, ok)

\* A tick of the watchdog that finds no connection.
WatchdogConnects ==
    /\ Spend("watchdog")
    /\ conn = 0 /\ reconnecting = NoOne
    /\ \E ok \in BOOLEAN : Connects(ok)
    /\ UNCHANGED <<up, down, clients, serverReader, writer, respCh, writeCh, handlerVars, todo>>
    /\ UNCHANGED <<pending, result, dispatching, callerVars, historyVars>>

-----------------------------------------------------------------------------
(* The core's side, and the environment.                                   *)

UnchangedByServer == UNCHANGED <<clientVars, callerVars, status, kind, handled>>

ServerStep == Server /\ UnchangedByServer /\ UNCHANGED <<runs, budget>>

HandlerStep(r) ==
    /\ Handles(r)
    /\ runs' = [runs EXCEPT ![r[1]] = @ + 1]
    /\ UnchangedByServer /\ UNCHANGED budget

BroadcastStep(e) == Spend("broadcast") /\ BroadcastStarts(e) /\ UnchangedByServer /\ UNCHANGED runs

ServerStalls(k) == Spend("stall") /\ WriterTimesOut(k) /\ UnchangedByServer /\ UNCHANGED runs

CoreStops == Spend("stop") /\ Stops /\ UnchangedByServer /\ UNCHANGED runs

CoreDies == Spend("die") /\ Dies /\ UnchangedByServer /\ UNCHANGED runs

\* The GUI has just started.
Init ==
    /\ ServerInit
    /\ conn = 0 /\ generation = 0 /\ dialled = [k \in Links |-> 0]
    /\ pending = [r \in Requests |-> 0] /\ result = [r \in Requests |-> "none"]
    /\ reader = [k \in Links |-> "off"] /\ dispatching = 0
    /\ at = [c \in Callers |-> "idle"] /\ attempt = [c \in Callers |-> 1]
    /\ sentIn = [c \in Callers |-> 0] /\ sentOn = [c \in Callers |-> 0] /\ reconnecting = NoOne
    /\ status = [c \in Callers |-> "idle"] 
    /\ runs = [c \in Callers |-> 0]
    /\ handled = <<>>
    /\ \E scenario \in Scenarios : kind = scenario.calls /\ budget = scenario.events

Next ==
    \/ \E c \in Callers : CallBegins(c) \/ Call(c)
    \/ \E k \in Links : Reader(k) \/ ServerStalls(k)
    \/ \E r \in Requests : HandlerStep(r)
    \/ \E e \in Broadcasts : BroadcastStep(e)
    \/ ServerStep \/ WatchdogConnects \/ CoreStops \/ CoreDies

Spec == Init /\ [][Next]_vars

\* What the goroutines do of themselves, without a timer.
Gui == \/ \E c \in Callers : Call(c) /\ UNCHANGED budget
       \/ \E k \in Links : Reader(k)
Core == ServerStep \/ \E r \in Requests : HandlerStep(r)

\* Goroutines run, handlers end and pipes carry what was written, and no more is
\* assumed than that something moves while something can: no goroutine repeats itself
\* without a new message.  No timer is assumed to fire; the requests have to come
\* back without.
FairSpec == Spec /\ WF_vars(Gui \/ Core)

-----------------------------------------------------------------------------
(* Properties.                                                             *)

Abstract == INSTANCE Calls WITH status <- status, kind <- kind, runs <- runs

\* The calls keep what Calls promises: a write is executed at most once and a read
\* at most twice, whatever connections, cores and timers do, and a call that
\* succeeds has been executed ("not replayed, to avoid a repeated write",
\* sendRequestWithTimeout).
RefinesCalls == Abstract!CallsSpec

\* The client gives up a connection only when that one has failed: a read loop, a
\* write or a recovery that is late spares the connection made meanwhile.
HealthyIsKept ==
    [][conn # 0 /\ conn' = 0 =>
         \/ serverEnd[conn] = "closed"
         \/ \E c \in Callers : at[c] = "stalled" /\ sentOn[c] = conn]_vars

\* Events are handled one at a time, none twice, and none of an older connection
\* after one of a newer.
EventsInOrder ==
    /\ \A i, j \in 1..Len(handled) : i < j =>
          handled[i][2] <= handled[j][2] /\ handled[i][1] # handled[j][1]
    /\ \A k \in Links : reader[k] = "handle" => dispatching = k

\* A request that waits in a connection that is given up is failed at once: every call
\* returns although no timer fires.
CallsReturn == <>[](\A c \in Callers : status[c] # "open")

\* A core that stops leaves no client behind, not even one it was just accepting.
StopClosesAll ==
    <>[](~running => \A k \in Links : serverEnd[k] \in {"none", "closed"})
=============================================================================
