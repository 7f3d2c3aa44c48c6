----------------------------- MODULE IpcServer -----------------------------
(***************************************************************************)
(* The core's end of the named pipe (ipc/ipc.go, Server): the goroutine    *)
(* that accepts connections, per connection one that reads requests and    *)
(* one that writes, per request one that runs its handler, and the         *)
(* broadcasts of events.  Pipes are links: two queues and two ends.  Ipc   *)
(* has the other end.                                                      *)
(***************************************************************************)
EXTENDS Integers, Sequences, FiniteSets

CONSTANTS
    Requests,       \* what SendRequest may send; every one has an ID of its own
    Links,          \* the pipes that may be opened
    Broadcasts,     \* calls of BroadcastEvent, each in a goroutine of its own
    MaxConcurrent,  \* maxConcurrentRequestsPerClient
    QueueSize       \* clientWriteQueueSize and clientResponseQueueSize

ASSUME LinksAssumption == Links \subseteq Nat \ {0}
ASSUME ConcurrentAssumption == MaxConcurrent \in Nat \ {0} /\ QueueSize \in Nat \ {0}

VARIABLES
    up, down,        \* per link: what each end has sent and the other not yet read
    clientEnd,       \* per link: "none", "open", "closed"
    serverEnd,       \* per link: "none", "backlog", "accepted", "open", "closed"
    running,         \* of Server: a core serves requests
    acceptor,        \* acceptConnections: "accept", "off"
    clients,         \* of Server: the links that are registered
    serverReader,    \* handleClient per link: "off", "read", or "sem": a request waits for its place
    writer,          \* clientWriter per link: "off", "on"
    respCh, writeCh, \* per link
    handler,         \* per request: "none", "running", "respond", "done"
    handlerOn,       \* per request: the link it came from, 0 before
    todo             \* per broadcast: the clients it has still to serve, {0} before

linkVars == <<up, down, clientEnd, serverEnd>>
serverVars == <<running, acceptor, clients, serverReader, writer, respCh, writeCh>>
handlerVars == <<handler, handlerOn>>

ServerTypeOK ==
    /\ up \in [Links -> Seq(Requests)] /\ down \in [Links -> Seq(Requests \cup Broadcasts)]
    /\ clientEnd \in [Links -> {"none", "open", "closed"}]
    /\ serverEnd \in [Links -> {"none", "backlog", "accepted", "open", "closed"}]
    /\ running \in BOOLEAN /\ acceptor \in {"accept", "off"}
    /\ clients \subseteq Links
    /\ serverReader \in [Links -> {"off", "read", "sem"}]
    /\ writer \in [Links -> {"off", "on"}]
    /\ respCh \in [Links -> Seq(Requests)] /\ writeCh \in [Links -> Seq(Broadcasts)]
    /\ handler \in [Requests -> {"none", "running", "respond", "done"}]
    /\ handlerOn \in [Requests -> Links \cup {0}]
    /\ todo \in [Broadcasts -> (SUBSET Links) \cup {{0}}]
    /\ \A k \in Links : Len(respCh[k]) <= QueueSize /\ Len(writeCh[k]) <= QueueSize

ServerInit ==
    /\ up = [k \in Links |-> <<>>] /\ down = [k \in Links |-> <<>>]
    /\ clientEnd = [k \in Links |-> "none"] /\ serverEnd = [k \in Links |-> "none"]
    /\ running = TRUE /\ acceptor = "accept"
    /\ clients = {}
    /\ serverReader = [k \in Links |-> "off"] /\ writer = [k \in Links |-> "off"]
    /\ respCh = [k \in Links |-> <<>>] /\ writeCh = [k \in Links |-> <<>>]
    /\ handler = [r \in Requests |-> "none"] /\ handlerOn = [r \in Requests |-> 0]
    /\ todo = [e \in Broadcasts |-> {0}]

-----------------------------------------------------------------------------
(* Connections.                                                            *)

\* acceptConnections: Accept returns a link, and only then is it registered.
Accepts(k) ==
    /\ acceptor = "accept" /\ serverEnd[k] = "backlog"
    /\ \A j \in Links : serverEnd[j] # "accepted"
    /\ serverEnd' = [serverEnd EXCEPT ![k] = "accepted"]
    /\ UNCHANGED <<up, down, clientEnd, serverVars, handlerVars, todo>>

Registers(k) ==
    /\ serverEnd[k] = "accepted"
    /\ serverEnd' = [serverEnd EXCEPT ![k] = "open"]
    /\ clients' = clients \cup {k}
    /\ serverReader' = [serverReader EXCEPT ![k] = "read"]
    /\ writer' = [writer EXCEPT ![k] = "on"]
    /\ UNCHANGED <<up, down, clientEnd, running, acceptor, respCh, writeCh, handlerVars, todo>>

\* The loop ends when it finds the server stopped; the listener is closed, with the
\* links it has not accepted.
AcceptorEnds ==
    /\ acceptor = "accept" /\ ~running
    /\ \A k \in Links : serverEnd[k] # "accepted"
    /\ acceptor' = "off"
    /\ serverEnd' = [k \in Links |-> IF serverEnd[k] = "backlog" THEN "closed" ELSE serverEnd[k]]
    /\ UNCHANGED <<up, down, clientEnd, running, clients, serverReader, writer, respCh, writeCh>>
    /\ UNCHANGED <<handlerVars, todo>>

\* closeClient, once per client.
ClosesClients(links) ==
    /\ clients' = clients \ links
    /\ serverEnd' = [k \in Links |->
                       IF k \in links /\ serverEnd[k] = "open" THEN "closed" ELSE serverEnd[k]]

ClosesClient(k) == ClosesClients({k})

HasRoom(channel) == Len(channel) < QueueSize

-----------------------------------------------------------------------------
(* Requests.                                                               *)

\* Mutant: the loop does not look at running again.
ReaderEnds_IgnoresStop(k) ==
    /\ serverReader[k] # "off"
    /\ \/ serverEnd[k] = "closed"
       \/ serverReader[k] = "read" /\ clientEnd[k] = "closed"

\* handleClient returns: the server has stopped, its client is closed, or the
\* other end is (what it sent before may then be read or lost).
ReaderEnds(k) ==
    /\ serverReader[k] # "off"
    /\ \/ serverEnd[k] = "closed"
       \/ serverReader[k] = "read" /\ (clientEnd[k] = "closed" \/ ~running)

HandleClientReturns(k) ==
    /\ ReaderEnds(k)
    /\ serverReader' = [serverReader EXCEPT ![k] = "off"]
    /\ ClosesClient(k)
    /\ UNCHANGED <<up, down, clientEnd, running, acceptor, writer, respCh, writeCh>>
    /\ UNCHANGED <<handlerVars, todo>>

Active(k) == {r \in Requests : handlerOn[r] = k /\ handler[r] \in {"running", "respond"}}

\* A request is read and its handler started once there is a place in sem; until
\* then the loop waits and the request stays the first of the queue.
StartsHandler(k) ==
    /\ \/ serverReader[k] = "read" /\ serverEnd[k] = "open" /\ up[k] # <<>>
       \/ serverReader[k] = "sem"
    /\ Cardinality(Active(k)) < MaxConcurrent
    /\ LET r == Head(up[k])
       IN  /\ handler' = [handler EXCEPT ![r] = "running"]
           /\ handlerOn' = [handlerOn EXCEPT ![r] = k]
    /\ up' = [up EXCEPT ![k] = Tail(@)]
    /\ serverReader' = [serverReader EXCEPT ![k] = "read"]
    /\ UNCHANGED <<down, clientEnd, serverEnd, running, acceptor, clients, writer>>
    /\ UNCHANGED <<respCh, writeCh, todo>>

WaitsForSem(k) ==
    /\ serverReader[k] = "read" /\ serverEnd[k] = "open" /\ up[k] # <<>>
    /\ Cardinality(Active(k)) = MaxConcurrent
    /\ serverReader' = [serverReader EXCEPT ![k] = "sem"]
    /\ UNCHANGED <<linkVars, running, acceptor, clients, writer, respCh, writeCh>>
    /\ UNCHANGED <<handlerVars, todo>>

\* handleRequest: the response (after a panic as well) is queued, or dropped if the
\* client is closed, and the place in sem is free again.
Responds(r) ==
    LET k == handlerOn[r]
    IN  /\ \/ HasRoom(respCh[k]) /\ respCh' = [respCh EXCEPT ![k] = Append(@, r)]
           \/ serverEnd[k] = "closed" /\ UNCHANGED respCh
        /\ handler' = [handler EXCEPT ![r] = "done"]

\* invokeHandler; without room for the response its goroutine waits.
Handles(r) ==
    /\ handler[r] = "running"
    /\ \/ Responds(r)
       \/ /\ ~HasRoom(respCh[handlerOn[r]]) /\ serverEnd[handlerOn[r]] # "closed"
          /\ handler' = [handler EXCEPT ![r] = "respond"] /\ UNCHANGED respCh
    /\ UNCHANGED <<linkVars, running, acceptor, clients, serverReader, writer, writeCh>>
    /\ UNCHANGED <<handlerOn, todo>>

RespondsLater(r) ==
    /\ handler[r] = "respond" /\ Responds(r)
    /\ UNCHANGED <<linkVars, running, acceptor, clients, serverReader, writer, writeCh>>
    /\ UNCHANGED <<handlerOn, todo>>

-----------------------------------------------------------------------------
(* Answers and events.                                                     *)

\* writeToClient succeeds.
Writes(k, message) ==
    /\ clientEnd[k] = "open"
    /\ down' = [down EXCEPT ![k] = Append(@, message)]

\* clientWriter.  It prefers responses, but one that arrives while it falls through to
\* the second select may still come after an event: here it takes either.
WriterAnswers(k) ==
    /\ writer[k] = "on" /\ serverEnd[k] = "open" /\ respCh[k] # <<>>
    /\ Writes(k, Head(respCh[k]))
    /\ respCh' = [respCh EXCEPT ![k] = Tail(@)]
    /\ UNCHANGED <<up, clientEnd, serverEnd, running, acceptor, clients, serverReader, writer>>
    /\ UNCHANGED <<writeCh, handlerVars, todo>>

WriterSendsEvent(k) ==
    /\ writer[k] = "on" /\ serverEnd[k] = "open" /\ writeCh[k] # <<>>
    /\ Writes(k, Head(writeCh[k]))
    /\ writeCh' = [writeCh EXCEPT ![k] = Tail(@)]
    /\ UNCHANGED <<up, clientEnd, serverEnd, running, acceptor, clients, serverReader, writer>>
    /\ UNCHANGED <<respCh, handlerVars, todo>>

\* A write fails, and the client is closed with what was queued for it; or the
\* writer finds the client closed.
WriterGivesUp(k) ==
    /\ writer[k] = "on"
    /\ writer' = [writer EXCEPT ![k] = "off"]
    /\ ClosesClient(k)
    /\ UNCHANGED <<up, down, clientEnd, running, acceptor, serverReader, respCh, writeCh>>
    /\ UNCHANGED <<handlerVars, todo>>

WriterEnds(k) ==
    /\ \/ serverEnd[k] = "closed"
       \/ clientEnd[k] = "closed" /\ (respCh[k] # <<>> \/ writeCh[k] # <<>>)
    /\ WriterGivesUp(k)

\* The client does not read: the write runs into writeTimeout.
WriterTimesOut(k) ==
    /\ serverEnd[k] = "open" /\ clientEnd[k] = "open"
    /\ respCh[k] # <<>> \/ writeCh[k] # <<>>
    /\ WriterGivesUp(k)

\* BroadcastEvent, unless it is throttled: the clients are copied.
BroadcastStarts(e) ==
    /\ todo[e] = {0} /\ running
    /\ todo' = [todo EXCEPT ![e] = clients]
    /\ UNCHANGED <<linkVars, serverVars, handlerVars>>

\* The event is queued for a client, or dropped: a frequent one at once when there is
\* no room, a critical one after criticalEventEnqueueTimeout.
BroadcastQueues(e, k) ==
    /\ k \in todo[e] \ {0}
    /\ \/ HasRoom(writeCh[k]) /\ writeCh' = [writeCh EXCEPT ![k] = Append(@, e)]
       \/ (~HasRoom(writeCh[k]) \/ serverEnd[k] = "closed") /\ UNCHANGED writeCh
    /\ todo' = [todo EXCEPT ![e] = @ \ {k}]
    /\ UNCHANGED <<linkVars, running, acceptor, clients, serverReader, writer, respCh, handlerVars>>

-----------------------------------------------------------------------------
(* The end of a core, and a new one.                                       *)

\* Stop: no more requests are accepted, every registered client is closed.
Stops ==
    /\ running /\ running' = FALSE
    /\ ClosesClients(clients)
    /\ UNCHANGED <<up, down, clientEnd, acceptor, serverReader, writer, respCh, writeCh>>
    /\ UNCHANGED <<handlerVars, todo>>

\* The process dies; what it had read and not answered is lost.
Dies ==
    /\ running' = FALSE /\ acceptor' = "off" /\ clients' = {}
    /\ serverEnd' = [k \in Links |-> IF serverEnd[k] = "none" THEN "none" ELSE "closed"]
    /\ serverReader' = [k \in Links |-> "off"] /\ writer' = [k \in Links |-> "off"]
    /\ respCh' = [k \in Links |-> <<>>] /\ writeCh' = [k \in Links |-> <<>>]
    /\ handler' = [r \in Requests |-> IF handler[r] = "none" THEN "none" ELSE "done"]
    /\ todo' = [e \in Broadcasts |-> IF todo[e] = {0} THEN {0} ELSE {}]
    /\ UNCHANGED <<up, down, clientEnd, handlerOn>>

\* Nothing of the old core is left.
CoreIsGone ==
    /\ ~running /\ acceptor = "off"
    /\ \A k \in Links : serverEnd[k] \in {"none", "closed"} /\ serverReader[k] = "off"
    /\ \A r \in Requests : handler[r] \in {"none", "done"}

Server ==
    \/ \E k \in Links :
          \/ Accepts(k) \/ Registers(k) \/ HandleClientReturns(k)
          \/ StartsHandler(k) \/ WaitsForSem(k)
          \/ WriterAnswers(k) \/ WriterSendsEvent(k) \/ WriterEnds(k)
          \/ \E e \in Broadcasts : BroadcastQueues(e, k)
    \/ AcceptorEnds
    \/ \E r \in Requests : RespondsLater(r)
=============================================================================
