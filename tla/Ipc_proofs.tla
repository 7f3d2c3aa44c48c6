----------------------------- MODULE Ipc_proofs -----------------------------
(***************************************************************************)
(* Proofs about Ipc, for any number of calls, links and events, and any    *)
(* mixture of timers, stops and deaths: the steps of the pipe's two ends   *)
(* are steps of Calls, a connection is given up only when it has failed,   *)
(* and events are handled once and in the order of the connections.        *)
(***************************************************************************)
EXTENDS Ipc, TLAPS, SequenceTheorems

-----------------------------------------------------------------------------
(* The inductive invariant.                                                *)

Holds(s, x) == \E i \in 1..Len(s) : s[i] = x
DistinctIn(s, S) == \A i, j \in 1..Len(s) : s[i] = s[j] /\ s[i] \in S => i = j

\* A reader that waits for a place has read a request, and a request that is being
\* handled came over a link.
ServerKnows ==
    /\ \A k \in Links : serverReader[k] = "sem" => up[k] # <<>>
    /\ \A r \in Requests : handler[r] \in {"running", "respond"} => handlerOn[r] \in Links

\* A request is under way once, and before it is handled.
SentOnce ==
    /\ \A k \in Links, r \in Requests : Holds(up[k], r) => handler[r] = "none"
    /\ \A k \in Links : DistinctIn(up[k], Requests)
    /\ \A k, j \in Links, r \in Requests : Holds(up[k], r) /\ Holds(up[j], r) => k = j

Unsent == {"idle", "ensure", "send", "register", "write"}

\* The status of a call, and which call is in its second attempt.
CallKnown ==
    \A c \in Callers :
      /\ status[c] = "idle" <=> at[c] = "idle"
      /\ status[c] = "open" <=> at[c] \notin {"idle", "done"}
      /\ attempt[c] = 2 => kind[c] = "read" /\ at[c] \notin {"idle", "ensure"}

\* What is under way or handled has been sent by its call.
SentBefore(c, n) == n < attempt[c] \/ (n = attempt[c] /\ at[c] \notin Unsent)
SentByCall ==
    \A c \in Callers, n \in {1, 2} :
      handler[<<c, n>>] # "none" \/ (\E k \in Links : Holds(up[k], <<c, n>>)) => SentBefore(c, n)

\* A request runs at most once.
Times(r) == IF handler[r] \in {"respond", "done"} THEN 1 ELSE 0
RunsCounted == \A c \in Callers : runs[c] <= Times(<<c, 1>>) + Times(<<c, 2>>)

\* Whoever has a response, or is on the way to it, has run.
Answered ==
    \A r \in Requests :
      \/ handler[r] = "respond" \/ result[r] = "response"
      \/ \E k \in Links : Holds(respCh[k], r) \/ Holds(down[k], r)
      => runs[r[1]] > 0

Dialled(k) == clientEnd[k] # "none"

\* Links are dialled in order; the current connection is the newest and open.
LinksKnown ==
    /\ \A j, k \in Links : j < k /\ Dialled(k) => Dialled(j)
    /\ \A k \in Links : Dialled(k) =>
          dialled[k] \in 1..generation /\ (dialled[k] = generation => conn = k)
    /\ conn # 0 => clientEnd[conn] = "open" /\ dialled[conn] = generation
    /\ conn # 0 => \A k \in Links : Dialled(k) => k <= conn

\* A link that has not been dialled is empty.
FreshLinks ==
    \A k \in Links : ~Dialled(k) =>
       /\ serverEnd[k] = "none" /\ reader[k] = "off" /\ k \notin clients
       /\ writeCh[k] = <<>> /\ down[k] = <<>> /\ \A e \in Broadcasts : k \notin todo[e]

\* A call that has retired its connection, or found it retired.
Retired == {"close", "fail", "closeStalled", "failStalled", "closeOld", "failOld", "connect"}

\* A call whose request has a connection.
Sent == {"register", "write", "wait", "retire", "stalled"}

\* What a call knows of the connection of its request.
KnowsSent(c) ==
    /\ sentIn[c] <= generation
    /\ at[c] \in Sent => sentOn[c] # 0
    /\ sentOn[c] # 0 => Dialled(sentOn[c]) /\ sentIn[c] = dialled[sentOn[c]]
    /\ sentOn[c] = 0 => (sentIn[c] = generation => conn = 0)
    /\ at[c] \in Retired => sentIn[c] # generation
    /\ at[c] = "retire" /\ conn = sentOn[c] => serverEnd[conn] = "closed"
    /\ at[c] = "recover" => sentIn[c] # generation \/ conn = 0
SentKnown == \A c \in Callers : KnowsSent(c)

\* What a read loop knows of its connection.
KnowsEnd(k) ==
    /\ reader[k] = "retire" /\ conn = k => serverEnd[k] = "closed"
    /\ reader[k] \in {"close", "fail"} => conn # k
    /\ reader[k] = "handle" => dispatching = k
ReaderKnown == \A k \in Links : KnowsEnd(k)

\* A request waits in the generation it was sent in, and fails when that is over.
Unregistered == {"idle", "ensure", "send", "register"}
RegisteredBefore(c, n) == n < attempt[c] \/ (n = attempt[c] /\ at[c] \notin Unregistered)
KnowsPending(c, n) ==
    /\ pending[<<c, n>>] # 0 \/ result[<<c, n>>] # "none" => RegisteredBefore(c, n)
    /\ n = attempt[c] /\ pending[<<c, n>>] # 0 => pending[<<c, n>>] = sentIn[c]
    /\ n = attempt[c] /\ result[<<c, n>>] = "error" => sentIn[c] # generation
PendingKnown == \A c \in Callers, n \in {1, 2} : KnowsPending(c, n)

\* An event on its way to the handler over a link.
Comes(e, k) == k \in todo[e] \/ Holds(writeCh[k], e) \/ Holds(down[k], e) \/ reader[k] = e
HasHandled(e, k) == Holds(handled, <<e, k>>)

\* It is on its way once per link.
ComesOnce(e, k) ==
    /\ k \in todo[e] => ~Holds(writeCh[k], e) /\ ~Holds(down[k], e) /\ reader[k] # e
    /\ Holds(writeCh[k], e) => ~Holds(down[k], e) /\ reader[k] # e
    /\ Holds(down[k], e) => reader[k] # e
    /\ todo[e] = {0} => ~Comes(e, k) /\ ~HasHandled(e, k)
EventsOnce ==
    /\ \A k \in Links : DistinctIn(writeCh[k], Broadcasts) /\ DistinctIn(down[k], Broadcasts)
    /\ \A k \in Links, e \in Broadcasts : ComesOnce(e, k)

\* An event that was handled comes again over older links only.
EventsBehind ==
    \A k \in Links, e \in Broadcasts : HasHandled(e, k) =>
       Dialled(k) /\ \A j \in Links : Comes(e, j) => j < k

CallsInv == ServerKnows /\ SentOnce /\ CallKnown /\ SentByCall /\ RunsCounted /\ Answered
LinksInv == LinksKnown /\ FreshLinks /\ SentKnown /\ ReaderKnown /\ PendingKnown
EventsInv == EventsOnce /\ EventsBehind /\ EventsInOrder

IInv == TypeOK /\ CallsInv /\ LinksInv /\ EventsInv

-----------------------------------------------------------------------------
(* Queues.                                                                 *)

LEMMA Appended ==
    ASSUME NEW S, NEW s \in Seq(S), NEW x \in S
    PROVE  /\ Append(s, x) \in Seq(S) /\ Append(s, x) # <<>> /\ Len(Append(s, x)) = Len(s) + 1
           /\ \A y : Holds(Append(s, x), y) <=> Holds(s, y) \/ y = x
           /\ \A T : DistinctIn(s, T) /\ (x \in T => ~Holds(s, x)) => DistinctIn(Append(s, x), T)
<1>1. /\ Append(s, x) \in Seq(S) /\ Len(Append(s, x)) = Len(s) + 1 /\ Len(s) \in Nat
      /\ \A i \in 1..Len(s) : Append(s, x)[i] = s[i]
      /\ Append(s, x)[Len(s) + 1] = x
  BY AppendProperties, LenProperties
<1>2. 1..Len(Append(s, x)) = 1..Len(s) \cup {Len(s) + 1} /\ Append(s, x) # <<>>
  BY <1>1
<1>3. \A y : Holds(Append(s, x), y) <=> Holds(s, y) \/ y = x
  BY <1>1, <1>2 DEF Holds
<1>4. ASSUME NEW T, DistinctIn(s, T), x \in T => ~Holds(s, x)
      PROVE  DistinctIn(Append(s, x), T)
  BY <1>1, <1>2, <1>4 DEF DistinctIn, Holds
<1> QED
  BY <1>1, <1>2, <1>3, <1>4

LEMMA Taken ==
    ASSUME NEW S, NEW s \in Seq(S), s # <<>>
    PROVE  /\ Head(s) \in S /\ Tail(s) \in Seq(S) /\ Len(Tail(s)) = Len(s) - 1 /\ Len(s) \in Nat
           /\ Holds(s, Head(s))
           /\ \A y : Holds(Tail(s), y) => Holds(s, y)
           /\ \A T : DistinctIn(s, T) => DistinctIn(Tail(s), T)
           /\ \A T : DistinctIn(s, T) /\ Head(s) \in T => ~Holds(Tail(s), Head(s))
<1>1. /\ Head(s) \in S /\ Tail(s) \in Seq(S) /\ Len(s) \in Nat \ {0} /\ Head(s) = s[1]
      /\ Len(Tail(s)) = Len(s) - 1
      /\ \A i \in 1..Len(Tail(s)) : Tail(s)[i] = s[i + 1]
  BY HeadTailProperties, LenProperties, EmptySeq
<1>2. Holds(s, Head(s))
  BY <1>1 DEF Holds
<1>3. ASSUME NEW i \in 1..Len(Tail(s))
      PROVE  i + 1 \in 1..Len(s) /\ i + 1 # 1
  BY <1>1
<1>4. \A y : Holds(Tail(s), y) => Holds(s, y)
  BY <1>1, <1>3 DEF Holds
<1>5. ASSUME NEW T, DistinctIn(s, T)
      PROVE  DistinctIn(Tail(s), T)
  <2> SUFFICES ASSUME NEW i \in 1..Len(Tail(s)), NEW j \in 1..Len(Tail(s)),
                      Tail(s)[i] = Tail(s)[j], Tail(s)[i] \in T
               PROVE  i = j
    BY DEF DistinctIn
  <2>1. i + 1 = j + 1
    BY <1>1, <1>3, <1>5 DEF DistinctIn
  <2> QED
    BY <2>1
<1>6. ASSUME NEW T, DistinctIn(s, T), Head(s) \in T
      PROVE  ~Holds(Tail(s), Head(s))
  <2> SUFFICES ASSUME NEW i \in 1..Len(Tail(s)), Tail(s)[i] = Head(s)
               PROVE  FALSE
    BY DEF Holds
  <2>1. i + 1 \in 1..Len(s) /\ i + 1 # 1 /\ 1 \in 1..Len(s)
    BY <1>1, <1>3
  <2> QED
    BY <1>1, <1>6, <2>1 DEF DistinctIn
<1> QED
  BY <1>1, <1>2, <1>4, <1>5, <1>6

LEMMA EmptyHolds == ASSUME NEW x PROVE ~Holds(<<>>, x)
BY DEF Holds

LEMMA EmptyDistinct == ASSUME NEW S PROVE DistinctIn(<<>>, S)
BY DEF DistinctIn

-----------------------------------------------------------------------------
(* Types.                                                                  *)

\* Closing clients.
LEMMA ClientsClosed ==
    ASSUME ServerTypeOK, NEW links, ClosesClients(links)
    PROVE  /\ clients' \subseteq clients /\ clients' \subseteq Links
           /\ serverEnd' \in [Links -> {"none", "backlog", "accepted", "open", "closed"}]
           /\ \A k \in Links : serverEnd'[k] = serverEnd[k] \/ serverEnd'[k] = "closed"
           /\ \A k \in Links : serverEnd'[k] = "closed" => serverEnd[k] \in {"open", "closed"}
BY DEF ServerTypeOK, ClosesClients

\* The core's end keeps the types of its variables and of the queues.
LEMMA ServerKeepsTypes ==
    ASSUME ServerTypeOK, ServerKnows,
           \/ Server \/ Stops \/ Dies
           \/ \E k \in Links : WriterTimesOut(k)
           \/ \E r \in Requests : Handles(r)
           \/ \E e \in Broadcasts : BroadcastStarts(e)
    PROVE  ServerTypeOK'
<1> USE DEF linkVars, serverVars, handlerVars
<1>0. QueueSize \in Nat \ {0}
  BY ConcurrentAssumption
<1>q. /\ \A k \in Links : up[k] \in Seq(Requests) /\ down[k] \in Seq(Requests \cup Broadcasts)
                        /\ respCh[k] \in Seq(Requests) /\ writeCh[k] \in Seq(Broadcasts)
      /\ <<>> \in Seq(Requests) /\ <<>> \in Seq(Broadcasts) /\ Len(<<>>) = 0
  BY DEF ServerTypeOK
<1>1. ASSUME NEW k \in Links, Accepts(k) \/ Registers(k) \/ WaitsForSem(k)
      PROVE  ServerTypeOK'
  BY <1>1, ZenonT(60) DEF Accepts, Registers, WaitsForSem, ServerTypeOK
<1>2. CASE AcceptorEnds
  BY <1>2 DEF AcceptorEnds, ServerTypeOK
<1>3. ASSUME NEW k \in Links, HandleClientReturns(k)
      PROVE  ServerTypeOK'
  <2>1. ClosesClients({k})
    BY <1>3 DEF HandleClientReturns, ClosesClient
  <2> QED
    BY <1>3, <2>1, ClientsClosed DEF HandleClientReturns, ServerTypeOK
<1>4. ASSUME NEW k \in Links, StartsHandler(k)
      PROVE  ServerTypeOK'
  <2>1. up[k] # <<>>
    BY <1>4 DEF StartsHandler, ServerKnows
  <2>2. Head(up[k]) \in Requests /\ Tail(up[k]) \in Seq(Requests)
    BY <1>q, <2>1, Taken
  <2> QED
    BY <1>4, <2>2 DEF StartsHandler, ServerTypeOK
<1>5. ASSUME NEW k \in Links, WriterAnswers(k)
      PROVE  ServerTypeOK'
  <2>1. /\ Head(respCh[k]) \in Requests /\ Tail(respCh[k]) \in Seq(Requests)
        /\ Len(Tail(respCh[k])) = Len(respCh[k]) - 1 /\ Len(respCh[k]) \in Nat
    BY <1>q, <1>5, Taken DEF WriterAnswers
  <2>2. Append(down[k], Head(respCh[k])) \in Seq(Requests \cup Broadcasts)
    BY <1>q, <2>1, Appended
  <2>3. respCh' \in [Links -> Seq(Requests)] /\ \A j \in Links : Len(respCh'[j]) <= QueueSize
    BY <1>0, <1>5, <2>1 DEF WriterAnswers, ServerTypeOK
  <2> QED
    BY <1>5, <2>2, <2>3 DEF WriterAnswers, Writes, ServerTypeOK
<1>6. ASSUME NEW k \in Links, WriterSendsEvent(k)
      PROVE  ServerTypeOK'
  <2>1. /\ Head(writeCh[k]) \in Broadcasts /\ Tail(writeCh[k]) \in Seq(Broadcasts)
        /\ Len(Tail(writeCh[k])) = Len(writeCh[k]) - 1 /\ Len(writeCh[k]) \in Nat
    BY <1>q, <1>6, Taken DEF WriterSendsEvent
  <2>2. Append(down[k], Head(writeCh[k])) \in Seq(Requests \cup Broadcasts)
    BY <1>q, <2>1, Appended
  <2>3. writeCh' \in [Links -> Seq(Broadcasts)] /\ \A j \in Links : Len(writeCh'[j]) <= QueueSize
    BY <1>0, <1>6, <2>1 DEF WriterSendsEvent, ServerTypeOK
  <2> QED
    BY <1>6, <2>2, <2>3 DEF WriterSendsEvent, Writes, ServerTypeOK
<1>7. ASSUME NEW k \in Links, WriterEnds(k) \/ WriterTimesOut(k)
      PROVE  ServerTypeOK'
  <2>1. ClosesClients({k})
    BY <1>7 DEF WriterEnds, WriterTimesOut, WriterGivesUp, ClosesClient
  <2> QED
    BY <1>7, <2>1, ClientsClosed, ZenonT(60) DEF WriterEnds, WriterTimesOut, WriterGivesUp,
       ServerTypeOK
<1>8. ASSUME NEW k \in Links, NEW e \in Broadcasts, BroadcastQueues(e, k)
      PROVE  ServerTypeOK'
  <2>0. todo[e] # {0}
    BY <1>8 DEF BroadcastQueues
  <2>1. todo[e] \in SUBSET Links
    BY <2>0 DEF ServerTypeOK
  <2>2. todo' \in [Broadcasts -> (SUBSET Links) \cup {{0}}]
    BY <1>8, <2>1 DEF BroadcastQueues, ServerTypeOK
  <2>3. CASE HasRoom(writeCh[k]) /\ writeCh' = [writeCh EXCEPT ![k] = Append(@, e)]
    <3>1. /\ Append(writeCh[k], e) \in Seq(Broadcasts)
          /\ Len(Append(writeCh[k], e)) = Len(writeCh[k]) + 1 /\ Len(writeCh[k]) \in Nat
      BY <1>q, Appended, LenProperties
    <3>2. /\ writeCh' \in [Links -> Seq(Broadcasts)]
          /\ \A j \in Links : Len(writeCh'[j]) <= QueueSize
      BY <1>0, <2>3, <3>1 DEF HasRoom, ServerTypeOK
    <3> QED
      BY <1>8, <2>2, <3>2 DEF BroadcastQueues, ServerTypeOK
  <2>4. CASE UNCHANGED writeCh
    BY <1>8, <2>2, <2>4 DEF BroadcastQueues, ServerTypeOK
  <2> QED
    BY <1>8, <2>3, <2>4 DEF BroadcastQueues
<1>9. ASSUME NEW r \in Requests, Handles(r) \/ RespondsLater(r)
      PROVE  ServerTypeOK'
  <2>1. handlerOn[r] \in Links
    BY <1>9 DEF Handles, RespondsLater, ServerKnows
  <2>0. handler' = [handler EXCEPT ![r] = "done"] \/ handler' = [handler EXCEPT ![r] = "respond"]
    BY <1>9 DEF Handles, RespondsLater, Responds
  <2>2. handler' \in [Requests -> {"none", "running", "respond", "done"}]
    BY <2>0 DEF ServerTypeOK
  <2>3. /\ respCh' \in [Links -> Seq(Requests)]
        /\ \A j \in Links : Len(respCh'[j]) <= QueueSize
    <3>1. CASE UNCHANGED respCh
      BY <3>1 DEF ServerTypeOK
    <3>2. CASE /\ HasRoom(respCh[handlerOn[r]])
               /\ respCh' = [respCh EXCEPT ![handlerOn[r]] = Append(@, r)]
      <4> DEFINE k == handlerOn[r]
      <4>1. /\ Append(respCh[k], r) \in Seq(Requests)
            /\ Len(Append(respCh[k], r)) = Len(respCh[k]) + 1 /\ Len(respCh[k]) \in Nat
        BY <1>q, <2>1, Appended, LenProperties
      <4> QED
        BY <1>0, <2>1, <3>2, <4>1 DEF HasRoom, ServerTypeOK
    <3> QED
      BY <1>9, <3>1, <3>2 DEF Handles, RespondsLater, Responds
  <2> QED
    BY <1>9, <2>2, <2>3, ZenonT(60) DEF Handles, RespondsLater, ServerTypeOK
<1>10. ASSUME NEW e \in Broadcasts, BroadcastStarts(e)
       PROVE  ServerTypeOK'
  BY <1>10 DEF BroadcastStarts, ServerTypeOK
<1>11. CASE Stops
  <2>1. ClosesClients(clients)
    BY <1>11 DEF Stops
  <2> QED
    BY <1>11, <2>1, ClientsClosed DEF Stops, ServerTypeOK
<1>12. CASE Dies
  <2>1. respCh' \in [Links -> Seq(Requests)] /\ writeCh' \in [Links -> Seq(Broadcasts)]
        /\ \A k \in Links : Len(respCh'[k]) <= QueueSize /\ Len(writeCh'[k]) <= QueueSize
    BY <1>0, <1>q, <1>12 DEF Dies
  <2>2. todo' \in [Broadcasts -> (SUBSET Links) \cup {{0}}]
    <3>1. {0} \in (SUBSET Links) \cup {{0}} /\ {} \in (SUBSET Links) \cup {{0}}
      OBVIOUS
    <3>2. todo' = [e \in Broadcasts |-> IF todo[e] = {0} THEN {0} ELSE {}]
      BY <1>12 DEF Dies
    <3> QED
      BY <3>1, <3>2
  <2>3. handler' \in [Requests -> {"none", "running", "respond", "done"}]
    BY <1>12 DEF Dies
  <2> QED
    BY <1>12, <2>1, <2>2, <2>3 DEF Dies, ServerTypeOK
<1> QED
  BY <1>1, <1>2, <1>3, <1>4, <1>5, <1>6, <1>7, <1>8, <1>9, <1>10, <1>11, <1>12 DEF
     Server

\* Only the environment and the core's steps above touch what is the core's alone.
LEMMA ServerStays ==
    ASSUME ServerTypeOK,
           up' \in [Links -> Seq(Requests)], down' \in [Links -> Seq(Requests \cup Broadcasts)],
           clientEnd' \in [Links -> {"none", "open", "closed"}],
           serverEnd' \in [Links -> {"none", "backlog", "accepted", "open", "closed"}],
           running' \in BOOLEAN, acceptor' \in {"accept", "off"},
           UNCHANGED <<clients, serverReader, writer, respCh, writeCh, handler, handlerOn, todo>>
    PROVE  ServerTypeOK'
BY DEF ServerTypeOK

\* Dialling, or finding a connection.
LEMMA ConnectsHere ==
    ASSUME TypeOK, NEW ok \in BOOLEAN, Connects(ok)
    PROVE  \/ NotDialled /\ (ok => conn # 0) /\ (~ok => conn = 0)
           \/ ok /\ conn = 0 /\ Dials /\ running' \in BOOLEAN /\ acceptor' \in {"accept", "off"}
BY DEF Connects, TypeOK, ServerTypeOK

LEMMA DialsHere ==
    ASSUME TypeOK, Dials
    PROVE  \E k \in Links :
             /\ clientEnd[k] = "none" /\ (\A j \in Links : j < k => clientEnd[j] # "none")
             /\ generation' = generation + 1 /\ conn' = k
             /\ dialled' = [dialled EXCEPT ![k] = generation + 1]
             /\ clientEnd' = [clientEnd EXCEPT ![k] = "open"]
             /\ serverEnd' = [serverEnd EXCEPT ![k] = "backlog"]
             /\ reader' = [reader EXCEPT ![k] = "read"]
BY DEF Dials

Readers == {"off", "read", "handle", "retire", "close", "fail"} \cup Broadcasts

LEMMA DialsKeepsTypes ==
    ASSUME TypeOK, Dials
    PROVE  /\ conn' \in Links \cup {0} /\ generation' \in Nat /\ dialled' \in [Links -> Nat]
           /\ reader' \in [Links -> Readers]
           /\ clientEnd' \in [Links -> {"none", "open", "closed"}]
           /\ serverEnd' \in [Links -> {"none", "backlog", "accepted", "open", "closed"}]
<1>1. PICK k \in Links :
        /\ generation' = generation + 1 /\ conn' = k
        /\ dialled' = [dialled EXCEPT ![k] = generation + 1]
        /\ clientEnd' = [clientEnd EXCEPT ![k] = "open"]
        /\ serverEnd' = [serverEnd EXCEPT ![k] = "backlog"]
        /\ reader' = [reader EXCEPT ![k] = "read"]
  BY DialsHere
<1>2. conn' \in Links \cup {0} /\ generation' \in Nat /\ dialled' \in [Links -> Nat]
  BY <1>1 DEF TypeOK
<1>3. reader' \in [Links -> Readers]
  BY <1>1 DEF TypeOK, Readers
<1>4. /\ clientEnd' \in [Links -> {"none", "open", "closed"}]
      /\ serverEnd' \in [Links -> {"none", "backlog", "accepted", "open", "closed"}]
  BY <1>1 DEF TypeOK, ServerTypeOK
<1> QED
  BY <1>2, <1>3, <1>4

\* Retiring and failing requests.
LEMMA RetiresTypes ==
    ASSUME TypeOK, NEW g, Retires(g)
    PROVE  conn' \in Links \cup {0} /\ generation' \in Nat
BY DEF Retires, TypeOK

LEMMA FailPendingTypes ==
    ASSUME TypeOK, NEW g, FailPending(g)
    PROVE  /\ pending' \in [Requests -> Nat]
           /\ result' \in [Requests -> {"none", "response", "error"}]
BY DEF FailPending, TypeOK

\* The read loops keep the types.
LEMMA ReaderKeepsTypes ==
    ASSUME TypeOK, NEW k \in Links, Reader(k)
    PROVE  TypeOK'
<1> USE DEF linkVars, serverVars, handlerVars, callerVars, UnchangedByReader
<1>0. /\ down[k] \in Seq(Requests \cup Broadcasts) /\ ServerTypeOK
      /\ clientEnd \in [Links -> {"none", "open", "closed"}] /\ reader \in [Links -> Readers]
      /\ {"off", "read", "handle", "retire", "close", "fail"} \subseteq Readers
      /\ Broadcasts \subseteq Readers
  BY ZenonT(60) DEF TypeOK, ServerTypeOK, Readers
<1>1. ASSUME down' = [down EXCEPT ![k] = Tail(@)], down[k] # <<>>
      PROVE  down' \in [Links -> Seq(Requests \cup Broadcasts)]
  <2>1. Tail(down[k]) \in Seq(Requests \cup Broadcasts)
    BY <1>0, <1>1, Taken, ZenonT(60)
  <2>2. down \in [Links -> Seq(Requests \cup Broadcasts)]
    BY <1>0 DEF ServerTypeOK
  <2> QED
    BY <1>1, <2>1, <2>2
<1>2. ASSUME NEW to \in Readers, reader' = [reader EXCEPT ![k] = to]
      PROVE  reader' \in [Links -> Readers]
  BY <1>0, <1>2
<1>3. CASE ReadsResponse(k)
  <2>1. ServerTypeOK'
    BY <1>0, <1>1, <1>3, ServerStays DEF ReadsResponse, ServerTypeOK
  <2>2. /\ pending' \in [Requests -> Nat]
        /\ result' \in [Requests -> {"none", "response", "error"}]
    <3> DEFINE r == Head(down[k])
    <3>1. \/ UNCHANGED <<pending, result>>
          \/ /\ pending' = [pending EXCEPT ![r] = 0]
             /\ result' = [result EXCEPT ![r] = "response"]
      BY <1>3 DEF ReadsResponse
    <3>2. /\ pending \in [Requests -> Nat]
          /\ result \in [Requests -> {"none", "response", "error"}]
      BY DEF TypeOK
    <3> HIDE DEF r
    <3> QED
      BY <3>1, <3>2
  <2> QED
    BY <1>3, <2>1, <2>2 DEF ReadsResponse, TypeOK
<1>4. CASE ReadsEvent(k)
  <2>1. ServerTypeOK'
    BY <1>0, <1>1, <1>4, ServerStays DEF ReadsEvent, ServerTypeOK
  <2>2. reader' \in [Links -> Readers]
    BY <1>0, <1>2, <1>4 DEF ReadsEvent
  <2> QED
    BY <1>4, <2>1, <2>2 DEF ReadsEvent, TypeOK, Readers
<1>5. CASE Dispatches(k)
  <2>1. ServerTypeOK'
    BY <1>0, <1>5, ServerStays DEF Dispatches, ServerTypeOK
  <2>2. reader' \in [Links -> Readers] /\ dispatching' \in Links \cup {0}
    BY <1>0, <1>2, <1>5, SMTT(60) DEF Dispatches, TypeOK
  <2>3. handled' \in Seq(Broadcasts \X Links)
    <3>1. handled \in Seq(Broadcasts \X Links) /\ <<reader[k], k>> \in Broadcasts \X Links
      BY <1>5 DEF Dispatches, TypeOK
    <3>2. Append(handled, <<reader[k], k>>) \in Seq(Broadcasts \X Links)
      BY <3>1, Appended
    <3> QED
      BY <1>5, <3>1, <3>2 DEF Dispatches
  <2> QED
    BY <1>5, <2>1, <2>2, <2>3 DEF Dispatches, TypeOK, Readers
<1>6. CASE HandlerReturns(k) \/ ReadFails(k)
  <2>1. ServerTypeOK'
    BY <1>0, <1>6, ServerStays DEF HandlerReturns, ReadFails, ServerTypeOK
  <2>2. reader' \in [Links -> Readers] /\ dispatching' \in Links \cup {0}
    BY <1>0, <1>2, <1>6 DEF HandlerReturns, ReadFails, TypeOK
  <2> QED
    BY <1>6, <2>1, <2>2 DEF HandlerReturns, ReadFails, TypeOK, Readers
<1>7. CASE ReaderRetires(k)
  <2>1. ServerTypeOK'
    BY <1>0, <1>7, ServerStays DEF ReaderRetires, ServerTypeOK
  <2>2. reader' \in [Links -> Readers]
    BY <1>0, <1>2, <1>7 DEF ReaderRetires, AfterRetire
  <2>3. conn' \in Links \cup {0} /\ generation' \in Nat
    BY <1>7, RetiresTypes DEF ReaderRetires
  <2> QED
    BY <1>7, <2>1, <2>2, <2>3 DEF ReaderRetires, TypeOK, Readers
<1>8. CASE ReaderCloses(k)
  <2>1. ServerTypeOK'
    BY <1>0, <1>8, ServerStays DEF ReaderCloses, Closes, ServerTypeOK
  <2>2. reader' \in [Links -> Readers]
    BY <1>0, <1>2, <1>8 DEF ReaderCloses
  <2> QED
    BY <1>8, <2>1, <2>2 DEF ReaderCloses, TypeOK, Readers
<1>9. CASE ReaderFails(k)
  <2>1. ServerTypeOK'
    BY <1>0, <1>9, ServerStays DEF ReaderFails, ServerTypeOK
  <2>2. reader' \in [Links -> Readers]
    BY <1>0, <1>2, <1>9 DEF ReaderFails
  <2>3. /\ pending' \in [Requests -> Nat]
        /\ result' \in [Requests -> {"none", "response", "error"}]
    BY <1>9, FailPendingTypes DEF ReaderFails
  <2> QED
    BY <1>9, <2>1, <2>2, <2>3 DEF ReaderFails, TypeOK, Readers
<1> QED
  BY <1>3, <1>4, <1>5, <1>6, <1>7, <1>8, <1>9 DEF Reader

\* Where a call goes, and what becomes of it.
LEMMA CallMoves ==
    ASSUME TypeOK, NEW c \in Callers, CallBegins(c) \/ Call(c)
    PROVE  /\ at' \in [Callers -> CallSteps]
           /\ status' \in [Callers -> {"idle", "open", "ok", "failed"}]
           /\ budget' \in [Events -> Nat]
<1> USE DEF Moves, Finishes, AttemptFails, AfterRetire, CallSteps
<1>1. /\ at \in [Callers -> CallSteps] /\ budget \in [Events -> Nat]
      /\ status \in [Callers -> {"idle", "open", "ok", "failed"}]
  BY DEF TypeOK
<1>2. "stall" \in Events /\ "timeout" \in Events
  BY DEF Events
<1>3. CASE CallBegins(c) \/ CallSends(c) \/ CallRegisters(c)
  BY <1>1, <1>3 DEF CallBegins, CallSends, CallRegisters
<1>4. CASE CallWrites(c)
  BY <1>1, <1>2, <1>4 DEF CallWrites, Spend
<1>5. CASE CallRetires(c) \/ CallCloses(c)
  BY <1>1, <1>5 DEF CallRetires, CallCloses
<1>6. CASE CallFails(c)
  BY <1>1, <1>6 DEF CallFails
<1>7. CASE CallReturns(c)
  BY <1>1, <1>2, <1>7 DEF CallReturns, Spend
<1>8. CASE CallRecovers(c)
  BY <1>1, <1>8 DEF CallRecovers
<1>9. ASSUME NEW ok \in BOOLEAN, CallEnsures(c, ok) \/ CallConnects(c, ok)
      PROVE  /\ at' \in [Callers -> CallSteps]
             /\ status' \in [Callers -> {"idle", "open", "ok", "failed"}]
             /\ budget' \in [Events -> Nat]
  BY <1>1, <1>9 DEF CallEnsures, CallConnects
<1> QED
  BY <1>3, <1>4, <1>5, <1>6, <1>7, <1>8, <1>9 DEF Call

\* The calls keep the types.
LEMMA CallKeepsTypes ==
    ASSUME TypeOK, NEW c \in Callers, CallBegins(c) \/ Call(c)
    PROVE  TypeOK'
<1> USE DEF linkVars, serverVars, handlerVars, UnchangedByCall
<1>0. /\ ServerTypeOK /\ Request(c) \in Requests
      /\ sentIn[c] \in Nat /\ sentOn[c] \in Links \cup {0}
      /\ pending \in [Requests -> Nat] /\ result \in [Requests -> {"none", "response", "error"}]
  BY RequestsAssumption DEF TypeOK, Request
<1>1. /\ at' \in [Callers -> CallSteps]
      /\ status' \in [Callers -> {"idle", "open", "ok", "failed"}]
      /\ budget' \in [Events -> Nat]
  BY CallMoves
<1>2. ASSUME UNCHANGED <<down, clientEnd, serverEnd, running, acceptor, clients, serverReader,
                         writer, respCh, writeCh, handler, handlerOn, todo>>,
             up' \in [Links -> Seq(Requests)]
      PROVE  ServerTypeOK'
  BY <1>0, <1>2, ServerStays DEF ServerTypeOK
<1>3. ASSUME NEW g \in Nat, pending' = [pending EXCEPT ![Request(c)] = g]
      PROVE  pending' \in [Requests -> Nat]
  BY <1>0, <1>3
<1>4. CASE CallBegins(c)
  <2>1. ServerTypeOK'
    BY <1>0, <1>2, <1>4 DEF CallBegins, ServerTypeOK
  <2> QED
    BY <1>1, <1>4, <2>1 DEF CallBegins, TypeOK
<1>5. CASE CallSends(c)
  <2>1. ServerTypeOK'
    BY <1>0, <1>2, <1>5 DEF CallSends, ServerTypeOK
  <2>2. sentIn' \in [Callers -> Nat] /\ sentOn' \in [Callers -> Links \cup {0}]
    BY <1>5 DEF CallSends, TypeOK
  <2> QED
    BY <1>1, <1>5, <2>1, <2>2 DEF CallSends, TypeOK
<1>6. CASE CallRegisters(c)
  <2>1. ServerTypeOK'
    BY <1>0, <1>2, <1>6 DEF CallRegisters, ServerTypeOK
  <2>2. pending' \in [Requests -> Nat]
    BY <1>0, <1>3, <1>6 DEF CallRegisters
  <2> QED
    BY <1>1, <1>6, <2>1, <2>2 DEF CallRegisters, TypeOK
<1>7. CASE CallWrites(c)
  <2>1. up' \in [Links -> Seq(Requests)]
    <3>1. CASE UNCHANGED up
      BY <1>0, <3>1 DEF ServerTypeOK
    <3>2. CASE up' = [up EXCEPT ![sentOn[c]] = Append(@, Request(c))]
      <4>1. \A k \in Links : Append(up[k], Request(c)) \in Seq(Requests)
        BY <1>0, Appended DEF ServerTypeOK
      <4> QED
        BY <1>0, <3>2, <4>1, ZenonT(60) DEF ServerTypeOK
    <3> QED
      BY <1>7, <3>1, <3>2 DEF CallWrites
  <2>2. ServerTypeOK'
    BY <1>2, <1>7, <2>1 DEF CallWrites
  <2>3. pending' \in [Requests -> Nat]
    <3>1. UNCHANGED pending \/ pending' = [pending EXCEPT ![Request(c)] = 0]
      BY <1>7 DEF CallWrites, Forgets
    <3> QED
      BY <1>0, <1>3, <3>1
  <2> QED
    BY <1>1, <1>7, <2>2, <2>3 DEF CallWrites, TypeOK
<1>8. CASE CallRetires(c) \/ CallRecovers(c)
  <2>1. ServerTypeOK'
    BY <1>0, <1>2, <1>8, ZenonT(60) DEF CallRetires, CallRecovers, ServerTypeOK
  <2>2. conn' \in Links \cup {0} /\ generation' \in Nat
    BY <1>8, RetiresTypes DEF CallRetires, CallRecovers
  <2>3. reconnecting' \in Callers \cup {NoOne}
    BY <1>8 DEF CallRetires, CallRecovers, TypeOK
  <2> QED
    BY <1>1, <1>8, <2>1, <2>2, <2>3 DEF CallRetires, CallRecovers, TypeOK
<1>9. CASE CallCloses(c)
  <2>1. clientEnd' \in [Links -> {"none", "open", "closed"}]
    BY <1>0, <1>9 DEF CallCloses, Closes, ServerTypeOK
  <2>2. ServerTypeOK'
    BY <1>0, <1>9, <2>1, ServerStays DEF CallCloses, ServerTypeOK
  <2> QED
    BY <1>1, <1>9, <2>2 DEF CallCloses, TypeOK
<1>10. CASE CallFails(c)
  <2>1. ServerTypeOK'
    BY <1>0, <1>2, <1>10 DEF CallFails, ServerTypeOK
  <2>2. /\ pending' \in [Requests -> Nat]
        /\ result' \in [Requests -> {"none", "response", "error"}]
    BY <1>10, FailPendingTypes DEF CallFails
  <2> QED
    BY <1>1, <1>10, <2>1, <2>2 DEF CallFails, TypeOK
<1>11. CASE CallReturns(c)
  <2>1. ServerTypeOK'
    BY <1>0, <1>2, <1>11 DEF CallReturns, ServerTypeOK
  <2>2. pending' \in [Requests -> Nat]
    <3>1. UNCHANGED pending \/ pending' = [pending EXCEPT ![Request(c)] = 0]
      BY <1>11 DEF CallReturns, Forgets
    <3> QED
      BY <1>0, <1>3, <3>1
  <2> QED
    BY <1>1, <1>11, <2>1, <2>2 DEF CallReturns, TypeOK
<1>12. ASSUME NEW ok \in BOOLEAN, CallEnsures(c, ok) \/ CallConnects(c, ok)
       PROVE  TypeOK'
  <2>1. Connects(ok)
    BY <1>12 DEF CallEnsures, CallConnects
  <2>2. /\ conn' \in Links \cup {0} /\ generation' \in Nat /\ dialled' \in [Links -> Nat]
        /\ reader' \in [Links -> Readers]
        /\ clientEnd' \in [Links -> {"none", "open", "closed"}]
        /\ serverEnd' \in [Links -> {"none", "backlog", "accepted", "open", "closed"}]
        /\ running' \in BOOLEAN /\ acceptor' \in {"accept", "off"}
    <3>1. CASE NotDialled
      BY <3>1 DEF NotDialled, TypeOK, ServerTypeOK, Readers
    <3>2. CASE Dials /\ running' \in BOOLEAN /\ acceptor' \in {"accept", "off"}
      BY <3>2, DialsKeepsTypes
    <3> QED
      BY <2>1, <3>1, <3>2, ConnectsHere
  <2>3. ServerTypeOK'
    BY <1>0, <1>12, <2>2, ServerStays, ZenonT(60) DEF CallEnsures, CallConnects, ServerTypeOK
  <2>4. attempt' \in [Callers -> {1, 2}] /\ reconnecting' \in Callers \cup {NoOne}
    BY <1>12 DEF CallEnsures, CallConnects, TypeOK
  <2>5. UNCHANGED <<pending, result, dispatching, sentIn, sentOn, kind, runs, handled>>
    BY <1>12 DEF CallEnsures, CallConnects
  <2> QED
    BY <1>1, <2>2, <2>3, <2>4, <2>5 DEF TypeOK, Readers
<1> QED
  BY <1>4, <1>5, <1>6, <1>7, <1>8, <1>9, <1>10, <1>11, <1>12 DEF Call

LEMMA WatchdogKeepsTypes ==
    ASSUME TypeOK, WatchdogConnects
    PROVE  TypeOK'
<1>1. PICK ok \in BOOLEAN : Connects(ok)
  BY DEF WatchdogConnects
<1>2. /\ conn' \in Links \cup {0} /\ generation' \in Nat /\ dialled' \in [Links -> Nat]
      /\ reader' \in [Links -> Readers]
      /\ clientEnd' \in [Links -> {"none", "open", "closed"}]
      /\ serverEnd' \in [Links -> {"none", "backlog", "accepted", "open", "closed"}]
      /\ running' \in BOOLEAN /\ acceptor' \in {"accept", "off"}
  <2>1. CASE NotDialled
    BY <2>1 DEF NotDialled, TypeOK, ServerTypeOK, Readers
  <2>2. CASE Dials /\ running' \in BOOLEAN /\ acceptor' \in {"accept", "off"}
    BY <2>2, DialsKeepsTypes
  <2> QED
    BY <1>1, <2>1, <2>2, ConnectsHere
<1>3. ServerTypeOK'
  BY <1>2, ServerStays DEF WatchdogConnects, TypeOK, ServerTypeOK, handlerVars
<1>4. budget' \in [Events -> Nat]
  BY DEF WatchdogConnects, Spend, TypeOK, Events
<1>5. UNCHANGED <<pending, result, dispatching, at, attempt, sentIn, sentOn, reconnecting,
                  status, kind, runs, handled>>
  BY DEF WatchdogConnects, callerVars, historyVars
<1> QED
  BY <1>2, <1>3, <1>4, <1>5 DEF TypeOK, Readers

-----------------------------------------------------------------------------
(* The core's steps.                                                       *)

CoreSide ==
    \/ ServerStep \/ CoreStops \/ CoreDies
    \/ \E k \in Links : ServerStalls(k)
    \/ \E r \in Requests : HandlerStep(r)
    \/ \E e \in Broadcasts : BroadcastStep(e)

\* They leave alone what is the GUI's.
LEMMA CoreSpares ==
    ASSUME TypeOK, CoreSide
    PROVE  /\ UNCHANGED <<clientVars, callerVars, status, kind, handled, clientEnd>>
           /\ budget' \in [Events -> Nat]
<1>1. budget \in [Events -> Nat] /\ {"broadcast", "stall", "stop", "die"} \subseteq Events
  BY DEF TypeOK, Events
<1>2. CASE ServerStep
  BY <1>1, <1>2 DEF ServerStep, UnchangedByServer, Server, Accepts, Registers,
     AcceptorEnds,
     HandleClientReturns, StartsHandler, WaitsForSem, WriterAnswers, WriterSendsEvent, WriterEnds,
     WriterGivesUp, BroadcastQueues, RespondsLater, linkVars
<1>3. CASE CoreStops \/ CoreDies
  BY <1>1, <1>3 DEF CoreStops, CoreDies, Stops, Dies, UnchangedByServer, Spend
<1>4. ASSUME NEW k \in Links, ServerStalls(k)
      PROVE  /\ UNCHANGED <<clientVars, callerVars, status, kind, handled, clientEnd>>
             /\ budget' \in [Events -> Nat]
  BY <1>1, <1>4 DEF ServerStalls, WriterTimesOut, WriterGivesUp, UnchangedByServer,
     Spend
<1>5. ASSUME NEW r \in Requests, HandlerStep(r)
      PROVE  /\ UNCHANGED <<clientVars, callerVars, status, kind, handled, clientEnd>>
             /\ budget' \in [Events -> Nat]
  BY <1>1, <1>5 DEF HandlerStep, Handles, UnchangedByServer, linkVars
<1>6. ASSUME NEW e \in Broadcasts, BroadcastStep(e)
      PROVE  /\ UNCHANGED <<clientVars, callerVars, status, kind, handled, clientEnd>>
             /\ budget' \in [Events -> Nat]
  BY <1>1, <1>6 DEF BroadcastStep, BroadcastStarts, UnchangedByServer, linkVars, Spend
<1> QED
  BY <1>2, <1>3, <1>4, <1>5, <1>6 DEF CoreSide

\* What they do to requests, and to responses on their way.
Starts(k) ==
    /\ up[k] # <<>> /\ up' = [up EXCEPT ![k] = Tail(@)]
    /\ handler' = [handler EXCEPT ![Head(up[k])] = "running"]
    /\ handlerOn' = [handlerOn EXCEPT ![Head(up[k])] = k]
    /\ serverReader' = [serverReader EXCEPT ![k] = "read"]
    /\ UNCHANGED <<down, respCh, runs>>
Ends(r) ==
    /\ handler[r] \in {"running", "respond"}
    /\ handler' = [handler EXCEPT ![r] = "done"] \/ handler' = [handler EXCEPT ![r] = "respond"]
    /\ \/ respCh' = [respCh EXCEPT ![handlerOn[r]] = Append(@, r)]
       \/ UNCHANGED respCh
    /\ runs' = IF handler[r] = "running" THEN [runs EXCEPT ![r[1]] = @ + 1] ELSE runs
    /\ UNCHANGED <<up, down, handlerOn, serverReader>>
Answers(k) ==
    /\ respCh[k] # <<>> /\ respCh' = [respCh EXCEPT ![k] = Tail(@)]
    /\ down' = [down EXCEPT ![k] = Append(@, Head(respCh[k]))]
    /\ UNCHANGED <<up, handler, handlerOn, serverReader, runs>>
SendsEvent(k) ==
    /\ writeCh[k] # <<>>
    /\ down' = [down EXCEPT ![k] = Append(@, Head(writeCh[k]))]
    /\ UNCHANGED <<up, respCh, handler, handlerOn, serverReader, runs>>
Forgotten ==
    /\ handler' = [r \in Requests |-> IF handler[r] = "none" THEN "none" ELSE "done"]
    /\ serverReader' = [k \in Links |-> "off"] /\ respCh' = [k \in Links |-> <<>>]
    /\ UNCHANGED <<up, down, handlerOn, runs>>
Elsewhere ==
    /\ \A k \in Links : serverReader'[k] = "sem" => serverReader[k] = "sem" \/ up[k] # <<>>
    /\ UNCHANGED <<up, down, respCh, handler, handlerOn, runs>>

LEMMA CoreDoes ==
    ASSUME TypeOK, ServerKnows, CoreSide
    PROVE  \/ \E k \in Links : Starts(k) \/ Answers(k) \/ SendsEvent(k)
           \/ \E r \in Requests : Ends(r)
           \/ Forgotten \/ Elsewhere
<1> USE DEF linkVars, serverVars, handlerVars
<1>0. serverReader \in [Links -> {"off", "read", "sem"}]
  BY DEF TypeOK, ServerTypeOK
<1>1. CASE ServerStep
  <2>1. UNCHANGED runs
    BY <1>1 DEF ServerStep
  <2>2. ASSUME NEW k \in Links, StartsHandler(k)
        PROVE  Starts(k)
    BY <2>1, <2>2 DEF StartsHandler, ServerKnows, Starts
  <2>3. ASSUME NEW k \in Links, WriterAnswers(k)
        PROVE  Answers(k)
    BY <2>1, <2>3 DEF WriterAnswers, Writes, Answers
  <2>4. ASSUME NEW k \in Links, WriterSendsEvent(k)
        PROVE  SendsEvent(k)
    BY <2>1, <2>4 DEF WriterSendsEvent, Writes, SendsEvent
  <2>5. ASSUME NEW r \in Requests, RespondsLater(r)
        PROVE  Ends(r)
    BY <2>1, <2>5 DEF RespondsLater, Responds, Ends
  <2>6. ASSUME NEW k \in Links,
               \/ Accepts(k) \/ Registers(k) \/ HandleClientReturns(k) \/ WaitsForSem(k)
               \/ WriterEnds(k) \/ \E e \in Broadcasts : BroadcastQueues(e, k)
        PROVE  Elsewhere
    BY <1>0, <2>1, <2>6 DEF Accepts, Registers, HandleClientReturns, WaitsForSem,
       WriterEnds,
       WriterGivesUp, BroadcastQueues, Elsewhere
  <2>7. CASE AcceptorEnds
    BY <2>1, <2>7 DEF AcceptorEnds, Elsewhere
  <2> QED
    BY <1>1, <2>2, <2>3, <2>4, <2>5, <2>6, <2>7 DEF ServerStep, Server
<1>2. CASE CoreStops
  BY <1>2 DEF CoreStops, Stops, Elsewhere
<1>3. CASE CoreDies
  BY <1>3 DEF CoreDies, Dies, Forgotten
<1>4. ASSUME NEW k \in Links, ServerStalls(k)
      PROVE  Elsewhere
  BY <1>4 DEF ServerStalls, WriterTimesOut, WriterGivesUp, Elsewhere
<1>5. ASSUME NEW r \in Requests, HandlerStep(r)
      PROVE  Ends(r)
  BY <1>5 DEF HandlerStep, Handles, Responds, Ends
<1>6. ASSUME NEW e \in Broadcasts, BroadcastStep(e)
      PROVE  Elsewhere
  BY <1>6 DEF BroadcastStep, BroadcastStarts, Elsewhere
<1> QED
  BY <1>1, <1>2, <1>3, <1>4, <1>5, <1>6 DEF CoreSide

-----------------------------------------------------------------------------
(* Requests and calls.                                                     *)

\* What a queue holds after a step of the core.
LEMMA QueueTypes ==
    ASSUME TypeOK
    PROVE  \A k \in Links : /\ up[k] \in Seq(Requests) /\ respCh[k] \in Seq(Requests)
                            /\ down[k] \in Seq(Requests \cup Broadcasts)
                            /\ writeCh[k] \in Seq(Broadcasts)
BY DEF TypeOK, ServerTypeOK

LEMMA StartsKeepsCalls ==
    ASSUME TypeOK, CallsInv, NEW k \in Links, Starts(k),
           UNCHANGED <<at, attempt, status, kind, result>>
    PROVE  CallsInv'
<1> DEFINE q == Head(up[k])
<1>1. /\ q \in Requests /\ Holds(up[k], q) /\ ~Holds(Tail(up[k]), q)
      /\ DistinctIn(Tail(up[k]), Requests)
      /\ \A y : Holds(Tail(up[k]), y) => Holds(up[k], y)
  BY QueueTypes, Taken DEF Starts, CallsInv, SentOnce
<1>2. handler[q] = "none" /\ \A j \in Links : Holds(up[j], q) => j = k
  BY <1>1 DEF CallsInv, SentOnce
<1>3. /\ up' = [up EXCEPT ![k] = Tail(@)] /\ handler' = [handler EXCEPT ![q] = "running"]
      /\ handlerOn' = [handlerOn EXCEPT ![q] = k]
      /\ serverReader' = [serverReader EXCEPT ![k] = "read"]
      /\ UNCHANGED <<down, respCh, runs>>
  BY DEF Starts
<1>4. /\ up'[k] = Tail(up[k]) /\ \A j \in Links \ {k} : up'[j] = up[j]
      /\ handler'[q] = "running" /\ \A r \in Requests \ {q} : handler'[r] = handler[r]
      /\ handlerOn'[q] = k /\ \A r \in Requests \ {q} : handlerOn'[r] = handlerOn[r]
      /\ serverReader'[k] = "read"
      /\ \A j \in Links \ {k} : serverReader'[j] = serverReader[j]
  BY <1>1, <1>3 DEF TypeOK, ServerTypeOK
<1> HIDE DEF q
<1>5. \A j \in Links : \A y : Holds(up'[j], y) => Holds(up[j], y)
  BY <1>1, <1>4
<1>6. ServerKnows'
  BY <1>4 DEF CallsInv, ServerKnows
<1>7. SentOnce'
  <2>1. \A j \in Links, r \in Requests : Holds(up'[j], r) => r # q
    BY <1>1, <1>2, <1>4
  <2>2. \A j \in Links, r \in Requests : Holds(up'[j], r) => handler'[r] = "none"
    BY <1>4, <1>5, <2>1 DEF CallsInv, SentOnce
  <2>3. \A j \in Links : DistinctIn(up'[j], Requests)
    BY <1>1, <1>4 DEF CallsInv, SentOnce
  <2>4. \A i, j \in Links, r \in Requests : Holds(up'[i], r) /\ Holds(up'[j], r) => i = j
    BY <1>5 DEF CallsInv, SentOnce
  <2> QED
    BY <2>2, <2>3, <2>4 DEF SentOnce
<1>8. CallKnown'
  BY DEF CallsInv, CallKnown
<1>9. SentByCall'
  <2> SUFFICES ASSUME NEW c \in Callers, NEW n \in {1, 2},
                      handler'[<<c, n>>] # "none" \/ \E j \in Links : Holds(up'[j], <<c, n>>)
               PROVE  SentBefore(c, n)'
    BY DEF SentByCall
  <2>1. <<c, n>> \in Requests
    BY RequestsAssumption
  <2>2. handler[<<c, n>>] # "none" \/ \E j \in Links : Holds(up[j], <<c, n>>)
    BY <1>1, <1>4, <1>5, <2>1
  <2> QED
    BY <2>2 DEF CallsInv, SentByCall, SentBefore
<1>10. RunsCounted'
  <2>1. \A r \in Requests : Times(r)' = Times(r)
    BY <1>2, <1>4 DEF Times
  <2> QED
    BY <1>3, <2>1, RequestsAssumption DEF CallsInv, RunsCounted
<1>11. Answered'
  BY <1>3, <1>4 DEF CallsInv, Answered
<1> QED
  BY <1>6, <1>7, <1>8, <1>9, <1>10, <1>11 DEF CallsInv

\* A request that runs is counted once.
LEMMA EndsKeepsCalls ==
    ASSUME TypeOK, CallsInv, NEW r \in Requests, Ends(r),
           UNCHANGED <<at, attempt, status, kind, result>>
    PROVE  CallsInv' /\ runs' \in [Callers -> 0..2]
<1>1. PICK c \in Callers, n \in {1, 2} : r = <<c, n>>
  BY RequestsAssumption
<1>2. /\ handler[r] \in {"running", "respond"} /\ handler'[r] \in {"done", "respond"}
      /\ \A q \in Requests \ {r} : handler'[q] = handler[q]
      /\ UNCHANGED <<up, down, handlerOn, serverReader>> /\ handlerOn[r] \in Links
  BY DEF Ends, TypeOK, ServerTypeOK, CallsInv, ServerKnows
<1>3. ServerKnows'
  BY <1>2 DEF CallsInv, ServerKnows
<1>4. SentOnce'
  <2>1. \A q \in Requests : handler[q] = "none" => handler'[q] = "none"
    BY <1>2
  <2> QED
    BY <1>2, <2>1 DEF CallsInv, SentOnce
<1>5. CallKnown'
  BY DEF CallsInv, CallKnown
<1>6. SentByCall'
  <2>1. \A q \in Requests : handler'[q] # "none" => handler[q] # "none"
    BY <1>2
  <2> QED
    BY <1>2, <2>1, RequestsAssumption, ZenonT(60) DEF CallsInv, SentByCall, SentBefore
<1>7. /\ runs[c] \in Nat /\ runs \in [Callers -> 0..2]
      /\ \A q \in Requests : Times(q) \in {0, 1} /\ Times(q)' \in {0, 1}
      /\ \A q \in Requests \ {r} : Times(q)' = Times(q)
      /\ Times(r)' = 1 /\ (handler[r] = "running" => Times(r) = 0)
      /\ (handler[r] = "respond" => Times(r) = 1)
  <2>0. runs \in [Callers -> 0..2]
    BY DEF TypeOK
  <2>1. runs[c] \in Nat /\ runs \in [Callers -> 0..2]
    BY <2>0
  <2>2. \A q \in Requests : Times(q) \in {0, 1} /\ Times(q)' \in {0, 1}
    BY DEF Times
  <2>3. \A q \in Requests \ {r} : Times(q)' = Times(q)
    BY <1>2 DEF Times
  <2>4. /\ Times(r)' = 1 /\ (handler[r] = "running" => Times(r) = 0)
        /\ (handler[r] = "respond" => Times(r) = 1)
    BY <1>2 DEF Times
  <2> QED
    BY <2>1, <2>2, <2>3, <2>4
<1>8. /\ runs'[c] = IF handler[r] = "running" THEN runs[c] + 1 ELSE runs[c]
      /\ \A d \in Callers \ {c} : runs'[d] = runs[d]
      /\ DOMAIN runs' = Callers /\ runs' = [d \in Callers |-> runs'[d]]
  BY <1>1, <1>7 DEF Ends
<1>9. RunsCounted'
  <2>1. ASSUME NEW d \in Callers
        PROVE  runs'[d] <= Times(<<d, 1>>)' + Times(<<d, 2>>)'
    <3>1. <<d, 1>> \in Requests /\ <<d, 2>> \in Requests
      BY RequestsAssumption
    <3>2. runs[d] <= Times(<<d, 1>>) + Times(<<d, 2>>) /\ runs[d] \in Nat
      BY <1>7 DEF CallsInv, RunsCounted
    <3>3. CASE d # c
      BY <1>1, <1>7, <1>8, <3>1, <3>2, <3>3
    <3>4. CASE d = c
      <4>1. CASE n = 1
        <5>1. Times(<<d, 2>>)' = Times(<<d, 2>>)
          BY <1>1, <1>7, <3>1, <3>4, <4>1
        <5> QED
          BY <1>1, <1>2, <1>7, <1>8, <3>1, <3>2, <3>4, <4>1, <5>1
      <4>2. CASE n = 2
        <5>1. Times(<<d, 1>>)' = Times(<<d, 1>>)
          BY <1>1, <1>7, <3>1, <3>4, <4>2
        <5> QED
          BY <1>1, <1>2, <1>7, <1>8, <3>1, <3>2, <3>4, <4>2, <5>1
      <4> QED
        BY <4>1, <4>2
    <3> QED
      BY <3>3, <3>4
  <2> QED
    BY <2>1 DEF RunsCounted
<1>10. runs' \in [Callers -> 0..2]
  <2>1. ASSUME NEW d \in Callers
        PROVE  runs'[d] \in 0..2
    <3>1. runs'[d] \in Nat
      BY <1>7, <1>8
    <3>2. Times(<<d, 1>>)' \in {0, 1} /\ Times(<<d, 2>>)' \in {0, 1}
      BY <1>7, RequestsAssumption
    <3>3. runs'[d] <= Times(<<d, 1>>)' + Times(<<d, 2>>)'
      BY <1>9 DEF RunsCounted
    <3> QED
      BY <3>1, <3>2, <3>3
  <2> QED
    BY <1>8, <2>1
<1>11. Answered'
  <2>1. runs'[c] > 0
    <3>1. CASE handler[r] = "running"
      BY <1>7, <1>8, <3>1
    <3>2. CASE handler[r] = "respond"
      <4>1. runs[r[1]] > 0
        BY <3>2 DEF CallsInv, Answered
      <4> QED
        BY <1>1, <1>8, <3>2, <4>1
    <3> QED
      BY <1>2, <3>1, <3>2
  <2>2. \A d \in Callers : runs[d] > 0 => runs'[d] > 0
    BY <1>7, <1>8, <2>1
  <2>3. \A k \in Links, q \in Requests : Holds(respCh'[k], q) => q = r \/ Holds(respCh[k], q)
    <3>1. CASE UNCHANGED respCh
      BY <3>1
    <3>2. CASE respCh' = [respCh EXCEPT ![handlerOn[r]] = Append(@, r)]
      <4>1. \A q : Holds(Append(respCh[handlerOn[r]], r), q)
                     => q = r \/ Holds(respCh[handlerOn[r]], q)
        BY <1>2, QueueTypes, Appended
      <4> QED
        BY <1>2, <3>2, <4>1, ZenonT(60) DEF TypeOK, ServerTypeOK
    <3> QED
      BY <3>1, <3>2 DEF Ends
  <2> SUFFICES ASSUME NEW q \in Requests, q # r,
                      \/ handler'[q] = "respond" \/ result'[q] = "response"
                      \/ \E k \in Links : Holds(respCh'[k], q) \/ Holds(down'[k], q)
               PROVE  runs'[q[1]] > 0
    BY <1>1, <2>1 DEF Answered
  <2>4. runs[q[1]] > 0
    BY <1>2, <2>3 DEF CallsInv, Answered
  <2>5. q[1] \in Callers
    BY RequestsAssumption
  <2> QED
    BY <2>2, <2>4, <2>5
<1> QED
  BY <1>3, <1>4, <1>5, <1>6, <1>9, <1>10, <1>11 DEF CallsInv

\* A response or an event on its way out of the core.
LEMMA SendsKeepsCalls ==
    ASSUME TypeOK, CallsInv, NEW k \in Links, Answers(k) \/ SendsEvent(k),
           UNCHANGED <<at, attempt, status, kind, result>>
    PROVE  CallsInv'
<1>1. UNCHANGED <<up, handler, handlerOn, serverReader, runs>>
  BY DEF Answers, SendsEvent
<1>2. ServerKnows' /\ SentOnce' /\ CallKnown' /\ SentByCall' /\ RunsCounted'
  BY <1>1 DEF CallsInv, ServerKnows, SentOnce, CallKnown, SentByCall, SentBefore,
     RunsCounted, Times
<1>3. ASSUME NEW j \in Links, NEW q \in Requests, Holds(respCh'[j], q) \/ Holds(down'[j], q)
      PROVE  Holds(respCh[j], q) \/ Holds(down[j], q) \/ \E i \in Links : Holds(respCh[i], q)
  <2>1. CASE Answers(k)
    <3>1. /\ Head(respCh[k]) \in Requests \cup Broadcasts /\ Holds(respCh[k], Head(respCh[k]))
          /\ \A y : Holds(Tail(respCh[k]), y) => Holds(respCh[k], y)
      BY <2>1, QueueTypes, Taken DEF Answers
    <3>2. \A y : Holds(Append(down[k], Head(respCh[k])), y)
                   => Holds(down[k], y) \/ y = Head(respCh[k])
      BY <3>1, QueueTypes, Appended
    <3>3. /\ respCh'[j] = respCh[j] \/ (j = k /\ respCh'[j] = Tail(respCh[k]))
          /\ down'[j] = down[j] \/ (j = k /\ down'[j] = Append(down[k], Head(respCh[k])))
      BY <2>1 DEF Answers, TypeOK, ServerTypeOK
    <3> QED
      BY <1>3, <3>1, <3>2, <3>3
  <2>2. CASE SendsEvent(k)
    <3>1. /\ Head(writeCh[k]) \in Broadcasts
          /\ Head(writeCh[k]) \in Requests \cup Broadcasts
      BY <2>2, QueueTypes, Taken DEF SendsEvent
    <3>2. \A y : Holds(Append(down[k], Head(writeCh[k])), y)
                   => Holds(down[k], y) \/ y = Head(writeCh[k])
      BY <3>1, QueueTypes, Appended
    <3>3. /\ respCh'[j] = respCh[j]
          /\ down'[j] = down[j] \/ (j = k /\ down'[j] = Append(down[k], Head(writeCh[k])))
      BY <2>2 DEF SendsEvent, TypeOK, ServerTypeOK
    <3>4. q # Head(writeCh[k])
      BY <3>1, BroadcastsAssumption
    <3> QED
      BY <1>3, <3>2, <3>3, <3>4
  <2> QED
    BY <2>1, <2>2
<1>4. Answered'
  BY <1>1, <1>3 DEF CallsInv, Answered
<1> QED
  BY <1>2, <1>4 DEF CallsInv

\* The core dies, or does something else.
LEMMA OtherKeepsCalls ==
    ASSUME TypeOK, CallsInv, Forgotten \/ Elsewhere,
           UNCHANGED <<at, attempt, status, kind, result>>
    PROVE  CallsInv'
<1>1. CASE Forgotten
  <2>1. /\ \A r \in Requests : handler'[r] = IF handler[r] = "none" THEN "none" ELSE "done"
        /\ \A k \in Links : serverReader'[k] = "off" /\ respCh'[k] = <<>>
        /\ UNCHANGED <<up, down, handlerOn, runs>>
    BY <1>1 DEF Forgotten
  <2>2. ServerKnows' /\ SentOnce' /\ CallKnown'
    BY <2>1 DEF CallsInv, ServerKnows, SentOnce, CallKnown
  <2>3. SentByCall'
    BY <2>1, RequestsAssumption, ZenonT(60) DEF CallsInv, SentByCall, SentBefore
  <2>4. RunsCounted'
    <3>1. \A r \in Requests : /\ Times(r) \in {0, 1} /\ Times(r)' \in {0, 1}
                              /\ Times(r) <= Times(r)'
      BY <2>1 DEF Times
    <3>2. ASSUME NEW c \in Callers
          PROVE  runs'[c] <= Times(<<c, 1>>)' + Times(<<c, 2>>)'
      <4>1. <<c, 1>> \in Requests /\ <<c, 2>> \in Requests /\ runs[c] \in 0..2 /\ runs' = runs
        BY <2>1, RequestsAssumption DEF TypeOK
      <4>2. runs[c] <= Times(<<c, 1>>) + Times(<<c, 2>>)
        BY DEF CallsInv, RunsCounted
      <4> HIDE DEF Times
      <4> QED
        BY <3>1, <4>1, <4>2
    <3> QED
      BY <3>2 DEF RunsCounted
  <2>5. Answered'
    BY <2>1, EmptyHolds DEF CallsInv, Answered
  <2> QED
    BY <2>2, <2>3, <2>4, <2>5 DEF CallsInv
<1>2. CASE Elsewhere
  <2>1. ServerKnows'
    BY <1>2 DEF Elsewhere, CallsInv, ServerKnows
  <2>2. SentOnce' /\ CallKnown' /\ SentByCall' /\ RunsCounted' /\ Answered'
    BY <1>2 DEF Elsewhere, CallsInv, SentOnce, CallKnown, SentByCall, SentBefore,
       RunsCounted,
       Times, Answered
  <2> QED
    BY <2>1, <2>2 DEF CallsInv
<1> QED
  BY <1>1, <1>2

\* The types of a step of the core.
LEMMA CoreKeepsTypes ==
    ASSUME TypeOK, CallsInv, CoreSide
    PROVE  TypeOK' /\ CallsInv'
<1>1. /\ UNCHANGED <<clientVars, callerVars, status, kind, handled, clientEnd>>
      /\ budget' \in [Events -> Nat]
  BY CoreSpares
<1>2. UNCHANGED <<at, attempt, status, kind, result>>
  BY <1>1 DEF clientVars, callerVars
<1>3. ServerKnows
  BY DEF CallsInv
<1>4. ServerTypeOK'
  <2>1. ServerTypeOK
    BY DEF TypeOK
  <2> QED
    BY <1>3, <2>1, ServerKeepsTypes DEF CoreSide, ServerStep, CoreStops, CoreDies,
       ServerStalls,
       HandlerStep, BroadcastStep
<1>5. CallsInv' /\ runs' \in [Callers -> 0..2]
  <2>1. runs \in [Callers -> 0..2]
    BY DEF TypeOK
  <2>2. ASSUME NEW k \in Links, Starts(k)
        PROVE  CallsInv' /\ runs' \in [Callers -> 0..2]
    BY <1>2, <2>1, <2>2, StartsKeepsCalls DEF Starts
  <2>3. ASSUME NEW k \in Links, Answers(k) \/ SendsEvent(k)
        PROVE  CallsInv' /\ runs' \in [Callers -> 0..2]
    BY <1>2, <2>1, <2>3, SendsKeepsCalls DEF Answers, SendsEvent
  <2>4. ASSUME NEW r \in Requests, Ends(r)
        PROVE  CallsInv' /\ runs' \in [Callers -> 0..2]
    BY <1>2, <2>4, EndsKeepsCalls
  <2>5. CASE Forgotten \/ Elsewhere
    BY <1>2, <2>1, <2>5, OtherKeepsCalls DEF Forgotten, Elsewhere
  <2> QED
    BY <1>3, <2>2, <2>3, <2>4, <2>5, CoreDoes
<1>6. TypeOK'
  BY <1>1, <1>4, <1>5 DEF TypeOK, clientVars, callerVars
<1> QED
  BY <1>5, <1>6

\* Where responses are does not matter for the rest.
LEMMA AnsweredKeepsCalls ==
    ASSUME CallsInv, Answered',
           UNCHANGED <<up, handler, handlerOn, serverReader, runs, at, attempt, status, kind>>
    PROVE  CallsInv'
BY DEF CallsInv, ServerKnows, SentOnce, CallKnown, SentByCall, SentBefore, RunsCounted,
   Times

LEMMA FailedIsNoResponse ==
    ASSUME TypeOK, NEW g, FailPending(g)
    PROVE  \A r \in Requests : result'[r] = "response" => result[r] = "response"
BY DEF FailPending

\* The read loops.
LEMMA ReaderKeepsCalls ==
    ASSUME TypeOK, CallsInv, NEW k \in Links, Reader(k)
    PROVE  CallsInv'
<1> USE DEF serverVars, handlerVars, callerVars, UnchangedByReader
<1>1. UNCHANGED <<up, handler, handlerOn, serverReader, respCh, runs, at, attempt, status, kind>>
  BY DEF Reader, ReadsResponse, ReadsEvent, Dispatches, HandlerReturns, ReadFails,
     ReaderRetires,
     ReaderCloses, ReaderFails
<1>2. \/ UNCHANGED down
      \/ down[k] # <<>> /\ down' = [down EXCEPT ![k] = Tail(@)]
  BY DEF Reader, ReadsResponse, ReadsEvent, Dispatches, HandlerReturns, ReadFails,
     ReaderRetires,
     ReaderCloses, ReaderFails
<1>3. \A j \in Links : \A y : Holds(down'[j], y) => Holds(down[j], y)
  <2>1. CASE down[k] # <<>> /\ down' = [down EXCEPT ![k] = Tail(@)]
    <3>1. \A y : Holds(Tail(down[k]), y) => Holds(down[k], y)
      BY <2>1, QueueTypes, Taken
    <3> QED
      BY <2>1, <3>1 DEF TypeOK, ServerTypeOK
  <2> QED
    BY <1>2, <2>1
<1>4. \A r \in Requests : result'[r] = "response" => result[r] = "response" \/ Holds(down[k], r)
  <2>1. CASE ReadsResponse(k)
    <3>1. Holds(down[k], Head(down[k]))
      BY <2>1, QueueTypes, Taken DEF ReadsResponse
    <3>2. UNCHANGED result \/ result' = [result EXCEPT ![Head(down[k])] = "response"]
      BY <2>1 DEF ReadsResponse
    <3>3. result \in [Requests -> {"none", "response", "error"}]
      BY DEF TypeOK
    <3> QED
      BY <3>1, <3>2, <3>3
  <2>2. CASE ReaderFails(k)
    BY <2>2, FailedIsNoResponse DEF ReaderFails
  <2>3. CASE UNCHANGED result
    BY <2>3
  <2> QED
    BY <2>1, <2>2, <2>3 DEF Reader, ReadsEvent, Dispatches, HandlerReturns, ReadFails,
       ReaderRetires, ReaderCloses
<1>5. Answered'
  BY <1>1, <1>3, <1>4 DEF CallsInv, Answered
<1> QED
  BY <1>1, <1>5, AnsweredKeepsCalls

\* The steps of a call other than the write of its request.
LEMMA StepKeepsCalls ==
    ASSUME TypeOK, CallsInv, NEW c \in Callers, CallBegins(c) \/ Call(c), ~CallWrites(c)
    PROVE  CallsInv'
<1> USE DEF serverVars, handlerVars, UnchangedByCall
<1>1. /\ UNCHANGED <<up, down, handler, handlerOn, serverReader, respCh, runs, kind>>
      /\ \A r \in Requests : result'[r] = "response" => result[r] = "response"
  <2>1. UNCHANGED <<up, down, handler, handlerOn, serverReader, respCh, runs, kind>>
    BY DEF CallBegins, Call, CallEnsures, CallSends, CallRegisters, CallRetires,
       CallCloses,
       CallFails, CallReturns, CallRecovers, CallConnects
  <2>2. CASE CallFails(c)
    BY <2>1, <2>2, FailedIsNoResponse DEF CallFails
  <2>3. CASE UNCHANGED result
    BY <2>1, <2>3
  <2> QED
    BY <2>1, <2>2, <2>3 DEF CallBegins, Call, CallEnsures, CallSends, CallRegisters,
       CallRetires,
       CallCloses, CallReturns, CallRecovers, CallConnects
<1>2. /\ \A d \in Callers \ {c} : at'[d] = at[d] /\ status'[d] = status[d]
                                 /\ attempt'[d] = attempt[d]
      /\ \/ /\ at[c] = "idle" /\ at'[c] \in {"send", "ensure"} /\ status'[c] = "open"
            /\ attempt'[c] = attempt[c]
         \/ /\ at[c] \notin {"idle", "done"} /\ at'[c] \notin {"idle", "ensure", "done"}
            /\ status'[c] = status[c] /\ attempt'[c] = attempt[c]
            /\ at'[c] \in Unsent => at[c] \in Unsent
         \/ /\ at[c] \notin {"idle", "done"} /\ at'[c] = "done" /\ status'[c] \in {"ok", "failed"}
            /\ attempt'[c] = attempt[c]
         \/ /\ at[c] = "connect" /\ at'[c] = "send" /\ status'[c] = status[c]
            /\ MayRepeat(c) /\ attempt'[c] = 2
  <2>0. /\ at \in [Callers -> CallSteps] /\ attempt \in [Callers -> {1, 2}]
        /\ status \in [Callers -> {"idle", "open", "ok", "failed"}]
    BY DEF TypeOK
  <2> USE DEF Moves, Finishes, AttemptFails, AfterRetire, Unsent
  <2>1. CASE CallBegins(c) \/ CallSends(c) \/ CallRegisters(c)
    BY <2>0, <2>1 DEF CallBegins, CallSends, CallRegisters
  <2>2. CASE CallRetires(c) \/ CallCloses(c)
    BY <2>0, <2>2 DEF CallRetires, CallCloses
  <2>3. CASE CallFails(c) \/ CallReturns(c) \/ CallRecovers(c)
    BY <2>0, <2>3 DEF CallFails, CallReturns, CallRecovers
  <2>4. ASSUME NEW ok \in BOOLEAN, CallEnsures(c, ok)
        PROVE  \/ /\ at[c] = "ensure" /\ at' = [at EXCEPT ![c] = "send"]
                  /\ UNCHANGED <<status, attempt>>
               \/ at[c] = "ensure" /\ Finishes(c, "failed") /\ UNCHANGED attempt
    BY <2>4 DEF CallEnsures
  <2>5. ASSUME NEW ok \in BOOLEAN, CallConnects(c, ok)
        PROVE  \/ /\ at[c] = "connect" /\ at' = [at EXCEPT ![c] = "send"] /\ UNCHANGED status
                  /\ MayRepeat(c) /\ attempt' = [attempt EXCEPT ![c] = 2]
               \/ at[c] = "connect" /\ Finishes(c, "failed") /\ UNCHANGED attempt
    BY <2>5 DEF CallConnects
  <2>6. CASE \E ok \in BOOLEAN : CallEnsures(c, ok)
    BY <2>0, <2>4, <2>6
  <2>7. CASE \E ok \in BOOLEAN : CallConnects(c, ok)
    BY <2>0, <2>5, <2>7
  <2> QED
    BY <2>1, <2>2, <2>3, <2>6, <2>7 DEF Call
<1>3. /\ attempt[c] \in {1, 2}
      /\ status[c] = "idle" <=> at[c] = "idle"
      /\ status[c] = "open" <=> at[c] \notin {"idle", "done"}
      /\ attempt[c] = 2 => kind[c] = "read" /\ at[c] \notin {"idle", "ensure"}
  BY DEF CallsInv, CallKnown, TypeOK
<1>4. ServerKnows' /\ SentOnce' /\ RunsCounted'
  BY <1>1 DEF CallsInv, ServerKnows, SentOnce, RunsCounted, Times
<1>5. CallKnown'
  <2>1. ASSUME NEW d \in Callers \ {c}
        PROVE  /\ status'[d] = "idle" <=> at'[d] = "idle"
               /\ status'[d] = "open" <=> at'[d] \notin {"idle", "done"}
               /\ attempt'[d] = 2 => kind'[d] = "read" /\ at'[d] \notin {"idle", "ensure"}
    BY <1>1, <1>2 DEF CallsInv, CallKnown
  <2>2. /\ status'[c] = "idle" <=> at'[c] = "idle"
        /\ status'[c] = "open" <=> at'[c] \notin {"idle", "done"}
        /\ attempt'[c] = 2 => kind'[c] = "read" /\ at'[c] \notin {"idle", "ensure"}
    BY <1>1, <1>2, <1>3 DEF MayRepeat
  <2> QED
    BY <2>1, <2>2 DEF CallKnown
<1>6. SentByCall'
  <2>1. ASSUME NEW d \in Callers, NEW n \in {1, 2}, SentBefore(d, n)
        PROVE  SentBefore(d, n)'
    <3>1. CASE d # c
      BY <1>2, <2>1, <3>1 DEF SentBefore
    <3>2. CASE d = c
      BY <1>2, <1>3, <2>1, <3>2 DEF SentBefore, MayRepeat, Unsent
    <3> QED
      BY <3>1, <3>2
  <2> QED
    BY <1>1, <2>1 DEF CallsInv, SentByCall
<1>7. Answered'
  BY <1>1 DEF CallsInv, Answered
<1> QED
  BY <1>4, <1>5, <1>6, <1>7 DEF CallsInv

\* The write sends a request that was never sent.
LEMMA WriteKeepsCalls ==
    ASSUME TypeOK, CallsInv, NEW c \in Callers, CallWrites(c)
    PROVE  CallsInv'
<1> USE DEF serverVars, handlerVars, UnchangedByCall
<1> DEFINE r == Request(c)
<1>0. r \in Requests /\ r = <<c, attempt[c]>> /\ attempt[c] \in {1, 2}
        /\ at \in [Callers -> CallSteps]
  BY RequestsAssumption DEF TypeOK, Request
<1>1. UNCHANGED <<down, handler, handlerOn, serverReader, respCh, runs, kind, attempt, status,
                  result>>
  BY DEF CallWrites
<1>2. at[c] = "write" /\ \A d \in Callers \ {c} : at'[d] = at[d]
  BY <1>0 DEF CallWrites, Moves
<1>3. at'[c] \in {"wait", "retire", "stalled"}
  BY <1>0 DEF CallWrites, Moves
<1>4. handler[r] = "none" /\ \A k \in Links : ~Holds(up[k], r)
  <2>1. ~SentBefore(c, attempt[c])
    BY <1>0, <1>2 DEF SentBefore, Unsent
  <2> QED
    BY <1>0, <2>1 DEF CallsInv, SentByCall
<1>5. \/ UNCHANGED up
      \/ at'[c] = "wait" /\ up' = [up EXCEPT ![sentOn[c]] = Append(@, r)]
  BY <1>0 DEF CallWrites, Moves
<1> HIDE DEF r
<1>6. /\ RunsCounted' /\ Answered'
  BY <1>1 DEF CallsInv, RunsCounted, Times, Answered
<1>7. CallKnown'
  BY <1>1, <1>2, <1>3 DEF CallsInv, CallKnown
<1>8. ASSUME NEW d \in Callers, NEW n \in {1, 2}, SentBefore(d, n)
      PROVE  SentBefore(d, n)'
  BY <1>1, <1>2, <1>3, <1>8 DEF SentBefore, Unsent
<1>9. CASE UNCHANGED up
  BY <1>1, <1>6, <1>7, <1>8, <1>9 DEF CallsInv, ServerKnows, SentOnce, SentByCall
<1>10. CASE at'[c] = "wait" /\ up' = [up EXCEPT ![sentOn[c]] = Append(@, r)]
  <2> DEFINE k == sentOn[c]
  <2>1. \A j \in Links : j # k => up'[j] = up[j]
    BY <1>10 DEF TypeOK, ServerTypeOK
  <2>2. ASSUME k \in Links
        PROVE  /\ up'[k] = Append(up[k], r) /\ up'[k] # <<>> /\ DistinctIn(up'[k], Requests)
               /\ \A y : Holds(up'[k], y) <=> Holds(up[k], y) \/ y = r
    <3>1. up'[k] = Append(up[k], r)
      BY <1>10, <2>2 DEF TypeOK, ServerTypeOK
    <3>2. up[k] \in Seq(Requests) /\ DistinctIn(up[k], Requests)
      BY <2>2, QueueTypes DEF CallsInv, SentOnce
    <3>3. ~Holds(up[k], r)
      BY <1>4, <2>2
    <3> HIDE DEF k
    <3>4. /\ Append(up[k], r) # <<>> /\ DistinctIn(Append(up[k], r), Requests)
          /\ \A y : Holds(Append(up[k], r), y) <=> Holds(up[k], y) \/ y = r
      BY <1>0, <3>2, <3>3, Appended
    <3> QED
      BY <3>1, <3>4
  <2> HIDE DEF k
  <2>3. \A j \in Links : \A y : Holds(up'[j], y) => Holds(up[j], y) \/ (y = r /\ j = k)
    BY <2>1, <2>2
  <2>4. ServerKnows'
    BY <1>1, <2>1, <2>2 DEF CallsInv, ServerKnows
  <2>5. SentOnce'
    <3>1. \A j \in Links, q \in Requests : Holds(up'[j], q) => handler'[q] = "none"
      BY <1>1, <1>4, <2>3 DEF CallsInv, SentOnce
    <3>2. \A j \in Links : DistinctIn(up'[j], Requests)
      BY <2>1, <2>2 DEF CallsInv, SentOnce
    <3>3. \A i, j \in Links, q \in Requests : Holds(up'[i], q) /\ Holds(up'[j], q) => i = j
      BY <1>4, <2>3 DEF CallsInv, SentOnce
    <3> QED
      BY <3>1, <3>2, <3>3 DEF SentOnce
  <2>6. SentByCall'
    <3> SUFFICES ASSUME NEW d \in Callers, NEW n \in {1, 2},
                        handler'[<<d, n>>] # "none" \/ \E j \in Links : Holds(up'[j], <<d, n>>)
                 PROVE  SentBefore(d, n)'
      BY DEF SentByCall
    <3>1. CASE <<d, n>> = r
      BY <1>0, <1>1, <1>10, <3>1 DEF SentBefore, Unsent
    <3>2. CASE <<d, n>> # r
      <4>1. handler[<<d, n>>] # "none" \/ \E j \in Links : Holds(up[j], <<d, n>>)
        BY <1>1, <2>3, <3>2
      <4>2. SentBefore(d, n)
        BY <4>1 DEF CallsInv, SentByCall
      <4> QED
        BY <1>8, <4>2
    <3> QED
      BY <3>1, <3>2
  <2> QED
    BY <1>6, <1>7, <2>4, <2>5, <2>6 DEF CallsInv
<1> QED
  BY <1>5, <1>9, <1>10

LEMMA WatchdogKeepsCalls ==
    ASSUME TypeOK, CallsInv, WatchdogConnects
    PROVE  CallsInv'
BY DEF WatchdogConnects, handlerVars, callerVars, historyVars, CallsInv, ServerKnows,
   SentOnce,
   CallKnown, SentByCall, SentBefore, RunsCounted, Times, Answered

-----------------------------------------------------------------------------
(* Links and generations.                                                  *)

\* What the core's steps do to events, and to links.
Starting == \E e \in Broadcasts :
    /\ todo[e] = {0} /\ todo' = [todo EXCEPT ![e] = clients]
    /\ UNCHANGED <<writeCh, down>>
Queueing == \E e \in Broadcasts, k \in Links :
    /\ k \in todo[e] /\ todo' = [todo EXCEPT ![e] = @ \ {k}]
    /\ writeCh' = [writeCh EXCEPT ![k] = Append(@, e)] \/ UNCHANGED writeCh
    /\ UNCHANGED down
Sending == \E k \in Links :
    /\ writeCh[k] # <<>> /\ clientEnd[k] = "open"
    /\ writeCh' = [writeCh EXCEPT ![k] = Tail(@)]
    /\ down' = [down EXCEPT ![k] = Append(@, Head(writeCh[k]))]
    /\ UNCHANGED todo
Answering == \E k \in Links :
    /\ respCh[k] # <<>> /\ clientEnd[k] = "open"
    /\ down' = [down EXCEPT ![k] = Append(@, Head(respCh[k]))]
    /\ UNCHANGED <<writeCh, todo>>
Dying ==
    /\ writeCh' = [k \in Links |-> <<>>]
    /\ todo' = [e \in Broadcasts |-> IF todo[e] = {0} THEN {0} ELSE {}]
    /\ UNCHANGED down
Resting == UNCHANGED <<writeCh, down, todo>>
EventSteps == Starting \/ Queueing \/ Sending \/ Answering \/ Dying \/ Resting

LEMMA CoreEvents ==
    ASSUME TypeOK, CoreSide
    PROVE  EventSteps
<1> USE DEF linkVars, serverVars, handlerVars, EventSteps
<1>1. CASE ServerStep
  <2>1. ASSUME NEW k \in Links, WriterAnswers(k)
        PROVE  Answering
    BY <2>1 DEF WriterAnswers, Writes, Answering
  <2>2. ASSUME NEW k \in Links, WriterSendsEvent(k)
        PROVE  Sending
    BY <2>2 DEF WriterSendsEvent, Writes, Sending
  <2>3. ASSUME NEW k \in Links, NEW e \in Broadcasts, BroadcastQueues(e, k)
        PROVE  Queueing
    BY <2>3 DEF BroadcastQueues, Queueing
  <2>4. ASSUME NEW k \in Links,
               \/ Accepts(k) \/ Registers(k) \/ HandleClientReturns(k) \/ StartsHandler(k)
               \/ WaitsForSem(k) \/ WriterEnds(k)
        PROVE  Resting
    BY <2>4 DEF Accepts, Registers, HandleClientReturns, StartsHandler, WaitsForSem,
       WriterEnds,
       WriterGivesUp, Resting
  <2>5. CASE AcceptorEnds \/ \E r \in Requests : RespondsLater(r)
    BY <2>5 DEF AcceptorEnds, RespondsLater, Resting
  <2> QED
    BY <1>1, <2>1, <2>2, <2>3, <2>4, <2>5 DEF ServerStep, Server
<1>2. CASE CoreStops
  BY <1>2 DEF CoreStops, Stops, Resting
<1>3. CASE CoreDies
  BY <1>3 DEF CoreDies, Dies, Dying
<1>4. ASSUME NEW k \in Links, ServerStalls(k)
      PROVE  Resting
  BY <1>4 DEF ServerStalls, WriterTimesOut, WriterGivesUp, Resting
<1>5. ASSUME NEW r \in Requests, HandlerStep(r)
      PROVE  Resting
  BY <1>5 DEF HandlerStep, Handles, Resting
<1>6. ASSUME NEW e \in Broadcasts, BroadcastStep(e)
      PROVE  Starting
  BY <1>6 DEF BroadcastStep, BroadcastStarts, Starting
<1> QED
  BY <1>1, <1>2, <1>3, <1>4, <1>5, <1>6 DEF CoreSide

\* A link that is closed by the core stays so; one that is not there stays so.
LEMMA CoreEnds ==
    ASSUME TypeOK, CoreSide
    PROVE  \A k \in Links :
             /\ serverEnd[k] = "closed" => serverEnd'[k] = "closed"
             /\ serverEnd[k] = "none" => serverEnd'[k] = "none"
             /\ k \in clients' => k \in clients \/ serverEnd[k] = "accepted"
<1> USE DEF linkVars, serverVars, handlerVars
<1> DEFINE Fine(k) == /\ serverEnd[k] = "closed" => serverEnd'[k] = "closed"
                      /\ serverEnd[k] = "none" => serverEnd'[k] = "none"
                      /\ k \in clients' => k \in clients \/ serverEnd[k] = "accepted"
<1>0. serverEnd \in [Links -> {"none", "backlog", "accepted", "open", "closed"}]
  BY DEF TypeOK, ServerTypeOK
<1>c. ASSUME NEW links, ClosesClients(links)
      PROVE  \A k \in Links : Fine(k)
  BY <1>c DEF ClosesClients
<1>s. ASSUME UNCHANGED <<serverEnd, clients>>
      PROVE  \A k \in Links : Fine(k)
  BY <1>s
<1>1. CASE ServerStep
  <2>1. ASSUME NEW k \in Links, Accepts(k) \/ Registers(k)
        PROVE  \A j \in Links : Fine(j)
    BY <1>0, <2>1 DEF Accepts, Registers
  <2>2. ASSUME NEW k \in Links, HandleClientReturns(k) \/ WriterEnds(k)
        PROVE  \A j \in Links : Fine(j)
    BY <1>c, <2>2 DEF HandleClientReturns, WriterEnds, WriterGivesUp, ClosesClient
  <2>3. ASSUME NEW k \in Links,
               \/ StartsHandler(k) \/ WaitsForSem(k) \/ WriterAnswers(k) \/ WriterSendsEvent(k)
               \/ \E e \in Broadcasts : BroadcastQueues(e, k)
        PROVE  \A j \in Links : Fine(j)
    <3>1. UNCHANGED <<serverEnd, clients>>
      BY <2>3 DEF StartsHandler, WaitsForSem, WriterAnswers, WriterSendsEvent,
         BroadcastQueues
    <3> QED
      BY <1>s, <3>1
  <2>4. CASE AcceptorEnds
    BY <2>4 DEF AcceptorEnds
  <2>5. CASE \E r \in Requests : RespondsLater(r)
    BY <1>s, <2>5 DEF RespondsLater
  <2> QED
    BY <1>1, <2>1, <2>2, <2>3, <2>4, <2>5 DEF ServerStep, Server
<1>2. CASE CoreStops
  BY <1>2, <1>c DEF CoreStops, Stops
<1>3. CASE CoreDies
  BY <1>3 DEF CoreDies, Dies
<1>4. ASSUME NEW k \in Links, ServerStalls(k)
      PROVE  \A j \in Links : Fine(j)
  BY <1>4, <1>c DEF ServerStalls, WriterTimesOut, WriterGivesUp, ClosesClient
<1>5. ASSUME NEW r \in Requests, HandlerStep(r)
      PROVE  \A j \in Links : Fine(j)
  BY <1>5, <1>s DEF HandlerStep, Handles
<1>6. ASSUME NEW e \in Broadcasts, BroadcastStep(e)
      PROVE  \A j \in Links : Fine(j)
  BY <1>6, <1>s DEF BroadcastStep, BroadcastStarts
<1> QED
  BY <1>1, <1>2, <1>3, <1>4, <1>5, <1>6 DEF CoreSide

LEMMA CoreKeepsLinks ==
    ASSUME TypeOK, LinksInv, CoreSide
    PROVE  LinksInv'
<1>1. UNCHANGED <<clientEnd, conn, generation, dialled, pending, result, reader, dispatching,
                  at, attempt, sentIn, sentOn>>
  BY CoreSpares DEF clientVars, callerVars
<1>2. \A k \in Links :
        /\ serverEnd[k] = "closed" => serverEnd'[k] = "closed"
        /\ serverEnd[k] = "none" => serverEnd'[k] = "none"
        /\ k \in clients' => k \in clients \/ serverEnd[k] = "accepted"
  BY CoreEnds
<1>3. LinksKnown' /\ PendingKnown'
  BY <1>1 DEF LinksInv, LinksKnown, Dialled, PendingKnown, KnowsPending,
     RegisteredBefore
<1>4. ReaderKnown'
  BY <1>1, <1>2 DEF LinksInv, ReaderKnown, KnowsEnd
<1>5. SentKnown'
  <2>1. conn = 0 \/ conn \in Links
    BY DEF TypeOK
  <2> QED
    BY <1>1, <1>2, <2>1 DEF LinksInv, SentKnown, KnowsSent, Sent,
       Retired, Dialled
<1>6. FreshLinks'
  <2> SUFFICES ASSUME NEW k \in Links, ~Dialled(k)
               PROVE  /\ serverEnd'[k] = "none" /\ reader'[k] = "off" /\ k \notin clients'
                      /\ writeCh'[k] = <<>> /\ down'[k] = <<>>
                      /\ \A e \in Broadcasts : k \notin todo'[e]
    BY <1>1 DEF FreshLinks, Dialled
  <2>1. /\ serverEnd[k] = "none" /\ reader[k] = "off" /\ k \notin clients
        /\ writeCh[k] = <<>> /\ down[k] = <<>> /\ \A e \in Broadcasts : k \notin todo[e]
    BY DEF LinksInv, FreshLinks
  <2>2. clientEnd[k] # "open" /\ k # 0
    BY LinksAssumption DEF Dialled
  <2>3. /\ writeCh \in [Links -> Seq(Broadcasts)]
        /\ down \in [Links -> Seq(Requests \cup Broadcasts)]
        /\ todo \in [Broadcasts -> (SUBSET Links) \cup {{0}}]
    BY DEF TypeOK, ServerTypeOK
  <2>4. writeCh'[k] = <<>> /\ down'[k] = <<>> /\ \A e \in Broadcasts : k \notin todo'[e]
    <3>1. CASE Starting
      BY <2>1, <2>3, <3>1 DEF Starting
    <3>2. CASE Queueing
      BY <2>1, <2>3, <3>2 DEF Queueing
    <3>3. CASE Sending
      BY <2>1, <2>2, <2>3, <3>3 DEF Sending
    <3>4. CASE Answering
      BY <2>1, <2>2, <2>3, <3>4 DEF Answering
    <3>5. CASE Dying
      BY <2>1, <2>2, <3>5 DEF Dying
    <3>6. CASE Resting
      BY <2>1, <3>6 DEF Resting
    <3> QED
      BY <3>1, <3>2, <3>3, <3>4, <3>5, <3>6, CoreEvents DEF EventSteps
  <2> QED
    BY <1>1, <1>2, <2>1, <2>4
<1> QED
  BY <1>3, <1>4, <1>5, <1>6 DEF LinksInv

\* What the GUI's steps do to the connection.
Staying == UNCHANGED <<conn, generation, dialled, clientEnd, serverEnd>>
Retiring ==
    /\ conn' = 0 /\ generation' = generation + 1
    /\ UNCHANGED <<dialled, clientEnd, serverEnd>>
Closing ==
    /\ \E k \in Links : Dialled(k) /\ conn # k /\ Closes(k)
    /\ UNCHANGED <<conn, generation, dialled, serverEnd>>
Dialling == conn = 0 /\ Dials
ConnSteps == Staying \/ Retiring \/ Closing \/ Dialling

\* What is dialled stays so, and the current connection is never an old one again.
Onward ==
    /\ \/ generation' = generation /\ conn' = conn
       \/ generation' = generation + 1
    /\ \A k \in Links : Dialled(k) =>
          /\ Dialled(k)' /\ dialled'[k] = dialled[k] /\ serverEnd'[k] = serverEnd[k]
          /\ (conn' = k => conn = k)
    /\ \A k \in Links : ~Dialled(k)' => serverEnd'[k] = serverEnd[k]

LEMMA ConnOnward ==
    ASSUME TypeOK, LinksInv, ConnSteps
    PROVE  LinksKnown' /\ Onward
<1>1. /\ generation \in Nat /\ dialled \in [Links -> Nat] /\ conn \in Links \cup {0}
      /\ clientEnd \in [Links -> {"none", "open", "closed"}]
      /\ serverEnd \in [Links -> {"none", "backlog", "accepted", "open", "closed"}]
      /\ Links \subseteq Nat \ {0}
  BY LinksAssumption DEF TypeOK, ServerTypeOK
<1>2. /\ \A j, k \in Links : j < k /\ Dialled(k) => Dialled(j)
      /\ \A k \in Links : Dialled(k) =>
            dialled[k] \in 1..generation /\ (dialled[k] = generation => conn = k)
      /\ conn # 0 => clientEnd[conn] = "open" /\ dialled[conn] = generation
      /\ conn # 0 => \A k \in Links : Dialled(k) => k <= conn
  BY DEF LinksInv, LinksKnown
<1>3. CASE Staying
  BY <1>2, <1>3 DEF Staying, LinksKnown, Dialled, Onward
<1>4. CASE Retiring
  <2>1. \A k \in Links : Dialled(k)' <=> Dialled(k)
    BY <1>4 DEF Retiring, Dialled
  <2>2. \A k \in Links : Dialled(k) => /\ dialled'[k] \in 1..generation'
                                       /\ dialled'[k] # generation'
    BY <1>1, <1>2, <1>4 DEF Retiring
  <2>3. LinksKnown'
    BY <1>2, <1>4, <2>1, <2>2 DEF Retiring, LinksKnown
  <2>4. Onward
    BY <1>1, <1>4, <2>1 DEF Retiring, Onward
  <2> QED
    BY <2>3, <2>4
<1>5. CASE Closing
  <2>1. PICK k \in Links : Dialled(k) /\ conn # k /\ Closes(k)
    BY <1>5 DEF Closing
  <2>2. /\ \A j \in Links : j # k => clientEnd'[j] = clientEnd[j]
        /\ \A j \in Links : Dialled(j)' <=> Dialled(j)
        /\ UNCHANGED <<conn, generation, dialled, serverEnd>>
    BY <1>1, <1>5, <2>1 DEF Closing, Closes, Dialled
  <2>3. conn # 0 => clientEnd'[conn] = "open"
    BY <1>1, <1>2, <2>1, <2>2
  <2>4. LinksKnown'
    BY <1>2, <2>2, <2>3 DEF LinksKnown
  <2>5. Onward
    BY <2>2 DEF Onward
  <2> QED
    BY <2>4, <2>5
<1>6. CASE Dialling
  <2>1. PICK k \in Links :
          /\ clientEnd[k] = "none" /\ (\A j \in Links : j < k => clientEnd[j] # "none")
          /\ generation' = generation + 1 /\ conn' = k
          /\ dialled' = [dialled EXCEPT ![k] = generation + 1]
          /\ clientEnd' = [clientEnd EXCEPT ![k] = "open"]
          /\ serverEnd' = [serverEnd EXCEPT ![k] = "backlog"]
    BY <1>6, DialsHere DEF Dialling
  <2>2. /\ ~Dialled(k) /\ Dialled(k)' /\ dialled'[k] = generation + 1 /\ clientEnd'[k] = "open"
        /\ \A j \in Links : j # k =>
              /\ (Dialled(j)' <=> Dialled(j))
              /\ dialled'[j] = dialled[j] /\ serverEnd'[j] = serverEnd[j]
    BY <1>1, <2>1 DEF Dialled
  <2>3. \A j \in Links : Dialled(j) => j < k
    BY <1>1, <1>2, <2>2
  <2>4. \A i, j \in Links : i < j /\ Dialled(j)' => Dialled(i)'
    BY <1>2, <2>1, <2>2 DEF Dialled
  <2>5. \A j \in Links : Dialled(j)' => /\ dialled'[j] \in 1..generation'
                                        /\ (dialled'[j] = generation' => conn' = j)
    <3>1. ASSUME NEW j \in Links, Dialled(j)', j # k
          PROVE  dialled'[j] \in 1..generation' /\ dialled'[j] # generation'
      <4>1. dialled[j] \in 1..generation /\ dialled'[j] = dialled[j]
        BY <1>2, <2>2, <3>1
      <4> QED
        BY <1>1, <2>1, <4>1
    <3>2. dialled'[k] \in 1..generation'
      BY <1>1, <2>1, <2>2
    <3> QED
      BY <2>1, <3>1, <3>2
  <2>6. \A j \in Links : Dialled(j)' => j <= k
    BY <1>1, <2>2, <2>3
  <2>7. LinksKnown'
    BY <2>1, <2>2, <2>4, <2>5, <2>6 DEF LinksKnown
  <2>8. Onward
    BY <2>1, <2>2 DEF Onward
  <2> QED
    BY <2>7, <2>8
<1> QED
  BY <1>3, <1>4, <1>5, <1>6 DEF ConnSteps

\* What a call knows stays true while it makes no new request.
LEMMA KnowsSentOnward ==
    ASSUME TypeOK, LinksInv, Onward, NEW c \in Callers,
           sentIn'[c] = sentIn[c], sentOn'[c] = sentOn[c],
           at'[c] \in Sent => at[c] \in Sent,
           at'[c] \in Retired => at[c] \in Retired \/ sentIn[c] # generation',
           at'[c] = "retire" => at[c] = "retire" \/ conn # sentOn[c] \/ serverEnd[conn] = "closed",
           at'[c] = "recover" => at[c] = "recover" \/ sentIn[c] # generation'
    PROVE  KnowsSent(c)'
<1>1. /\ generation \in Nat /\ sentIn[c] \in Nat /\ sentOn[c] \in Links \cup {0}
      /\ conn \in Links \cup {0} /\ 0 \notin Links
  BY LinksAssumption DEF TypeOK
<1>2. KnowsSent(c)
  BY DEF LinksInv, SentKnown
<1>3. sentIn[c] <= generation' /\ (sentIn[c] = generation' => generation' = generation)
  BY <1>1, <1>2 DEF Onward, KnowsSent
<1>4. sentIn[c] = generation' => conn' = conn
  BY <1>1, <1>2, <1>3 DEF Onward, KnowsSent
<1>5. sentOn[c] # 0 => /\ Dialled(sentOn[c])' /\ sentIn[c] = dialled'[sentOn[c]]
                       /\ (conn' = sentOn[c] => conn = sentOn[c])
                       /\ serverEnd'[sentOn[c]] = serverEnd[sentOn[c]]
  BY <1>1, <1>2 DEF Onward, KnowsSent
<1>6. at'[c] = "retire" => sentOn[c] # 0
  BY <1>2 DEF KnowsSent, Sent
<1>7. /\ at'[c] \in Sent => sentOn[c] # 0
      /\ sentOn[c] = 0 => (sentIn[c] = generation' => conn' = 0)
      /\ at'[c] \in Retired => sentIn[c] # generation'
      /\ at'[c] = "recover" => sentIn[c] # generation' \/ conn' = 0
  BY <1>2, <1>3, <1>4 DEF KnowsSent
<1>8. at'[c] = "retire" /\ conn' = sentOn[c] => serverEnd'[conn'] = "closed"
  BY <1>2, <1>5, <1>6 DEF KnowsSent
<1> QED
  BY <1>3, <1>5, <1>7, <1>8 DEF KnowsSent, Dialled

LEMMA KnowsEndOnward ==
    ASSUME LinksInv, Onward, NEW k \in Links, reader'[k] = reader[k],
           reader[k] = "handle" => dispatching' = dispatching
    PROVE  KnowsEnd(k)'
<1>1. reader[k] # "off" => Dialled(k)
  BY DEF LinksInv, FreshLinks
<1>2. KnowsEnd(k)
  BY DEF LinksInv, ReaderKnown
<1> QED
  BY <1>1, <1>2 DEF KnowsEnd, Onward

LEMMA FreshOnward ==
    ASSUME LinksInv, Onward, UNCHANGED <<clients, writeCh, todo>>,
           \A k \in Links : ~Dialled(k)' => reader'[k] = reader[k] /\ down'[k] = down[k]
    PROVE  FreshLinks'
BY DEF LinksInv, FreshLinks, Onward

\* What is known of the requests of a call stays true, as long as they are only taken out
\* of pending.
LEMMA KnowsPendingOnward ==
    ASSUME TypeOK, LinksInv, Onward, NEW c \in Callers, NEW n \in {1, 2},
           at[c] \notin Unregistered => at'[c] \notin Unregistered,
           attempt'[c] = attempt[c], sentIn'[c] = sentIn[c],
           pending'[<<c, n>>] \in {0, pending[<<c, n>>]},
           \/ result'[<<c, n>>] = result[<<c, n>>]
           \/ result'[<<c, n>>] = "response" /\ pending[<<c, n>>] # 0
           \/ /\ result'[<<c, n>>] = "error" /\ pending[<<c, n>>] # 0
              /\ pending[<<c, n>>] # generation
    PROVE  KnowsPending(c, n)'
<1>1. generation \in Nat /\ sentIn[c] \in Nat
  BY DEF TypeOK
<1>2. KnowsPending(c, n) /\ sentIn[c] <= generation
  BY DEF LinksInv, SentKnown, KnowsSent, PendingKnown
<1>3. RegisteredBefore(c, n) => RegisteredBefore(c, n)'
  BY DEF RegisteredBefore
<1>4. sentIn[c] # generation => sentIn[c] # generation'
  BY <1>1, <1>2 DEF Onward
<1> QED
  BY <1>2, <1>3, <1>4 DEF KnowsPending

\* The read loops.
LEMMA ReaderKeepsLinks ==
    ASSUME TypeOK, LinksInv, NEW k \in Links, Reader(k)
    PROVE  LinksInv'
<1> USE DEF serverVars, handlerVars, callerVars, UnchangedByReader
<1>0. /\ generation \in Nat /\ conn \in Links \cup {0} /\ 0 \notin Links
      /\ dialled \in [Links -> Nat] /\ reader \in [Links -> Readers]
      /\ clientEnd \in [Links -> {"none", "open", "closed"}]
      /\ down \in [Links -> Seq(Requests \cup Broadcasts)]
      /\ pending \in [Requests -> Nat] /\ result \in [Requests -> {"none", "response", "error"}]
  BY LinksAssumption DEF TypeOK, ServerTypeOK, Readers
<1>1. /\ reader[k] # "off" /\ \A j \in Links : j # k => reader'[j] = reader[j] /\ down'[j] = down[j]
      /\ UNCHANGED <<clients, writeCh, todo, at, attempt, sentIn, sentOn, dialled>>
  <2>1. UNCHANGED <<clients, writeCh, todo, at, attempt, sentIn, sentOn, dialled>>
    BY DEF Reader, ReadsResponse, ReadsEvent, Dispatches, HandlerReturns, ReadFails,
       ReaderRetires, ReaderCloses, ReaderFails
  <2>2. \A j \in Links : j # k => down'[j] = down[j]
    BY <1>0 DEF Reader, ReadsResponse, ReadsEvent, Dispatches, HandlerReturns,
       ReadFails,
       ReaderRetires, ReaderCloses, ReaderFails
  <2>3. \A j \in Links : j # k => reader'[j] = reader[j]
    BY <1>0 DEF Reader, ReadsResponse, ReadsEvent, Dispatches, HandlerReturns,
       ReadFails,
       ReaderRetires, ReaderCloses, ReaderFails
  <2>4. reader[k] # "off"
    BY BroadcastsAssumption DEF Reader, ReadsResponse, ReadsEvent, Dispatches,
       HandlerReturns,
       ReadFails, ReaderRetires, ReaderCloses, ReaderFails
  <2> QED
    BY <2>1, <2>2, <2>3, <2>4
<1>2. /\ Dialled(k) /\ dialled[k] \in 1..generation /\ (dialled[k] = generation => conn = k)
      /\ (conn # 0 => clientEnd[conn] = "open" /\ dialled[conn] = generation)
  BY <1>1 DEF LinksInv, FreshLinks, LinksKnown
<1>3. KnowsEnd(k)
  BY DEF LinksInv, ReaderKnown
<1>4. ConnSteps
  <2>1. CASE ReaderRetires(k)
    BY <2>1 DEF ReaderRetires, Retires, ConnSteps, Retiring, Staying
  <2>2. CASE ReaderCloses(k)
    BY <1>2, <1>3, <2>2 DEF ReaderCloses, KnowsEnd, ConnSteps, Closing
  <2>3. CASE UNCHANGED <<conn, generation, clientEnd>>
    BY <1>1, <2>3 DEF ConnSteps, Staying, Reader, ReadsResponse, ReadsEvent, Dispatches,
       HandlerReturns, ReadFails, ReaderRetires, ReaderCloses, ReaderFails
  <2> QED
    BY <2>1, <2>2, <2>3 DEF Reader, ReadsResponse, ReadsEvent, Dispatches,
       HandlerReturns,
       ReadFails, ReaderFails
<1>5. LinksKnown' /\ Onward
  BY <1>4, ConnOnward
<1>6. FreshLinks'
  BY <1>1, <1>2, <1>5, FreshOnward DEF Onward
<1>7. SentKnown'
  BY <1>1, <1>5, KnowsSentOnward DEF SentKnown
<1>8. ReaderKnown'
  <2>1. ASSUME NEW j \in Links, j # k, reader[j] = "handle"
        PROVE  dispatching' = dispatching
    <3>1. dispatching = j
      BY <2>1 DEF LinksInv, ReaderKnown, KnowsEnd
    <3>2. CASE Dispatches(k)
      BY <1>0, <3>1, <3>2 DEF Dispatches
    <3>3. CASE HandlerReturns(k)
      BY <1>3, <2>1, <3>1, <3>3 DEF HandlerReturns, KnowsEnd
    <3> QED
      BY <3>2, <3>3 DEF Reader, ReadsResponse, ReadsEvent, ReadFails, ReaderRetires,
         ReaderCloses,
         ReaderFails
  <2>2. ASSUME NEW j \in Links, j # k
        PROVE  KnowsEnd(j)'
    BY <1>1, <1>5, <2>1, <2>2, KnowsEndOnward
  <2>3. KnowsEnd(k)'
    <3>1. CASE ReadsResponse(k)
      BY <3>1 DEF ReadsResponse, KnowsEnd
    <3>2. CASE ReadsEvent(k)
      <4>1. reader'[k] \in Broadcasts
        BY <1>0, <3>2 DEF ReadsEvent
      <4> QED
        BY <4>1, BroadcastsAssumption DEF KnowsEnd
    <3>3. CASE Dispatches(k)
      <4>1. reader'[k] = "off" \/ (reader'[k] = "handle" /\ dispatching' = k)
        BY <1>0, <3>3 DEF Dispatches
      <4> QED
        BY <4>1 DEF KnowsEnd
    <3>4. CASE HandlerReturns(k)
      <4>1. reader'[k] = "read"
        BY <1>0, <3>4 DEF HandlerReturns
      <4> QED
        BY <4>1 DEF KnowsEnd
    <3>5. CASE ReadFails(k)
      <4>1. /\ reader'[k] = "retire" /\ UNCHANGED <<conn, serverEnd>>
            /\ clientEnd[k] = "closed" \/ serverEnd[k] = "closed"
        BY <1>0, <3>5 DEF ReadFails
      <4>2. conn = k => clientEnd[k] = "open"
        BY <1>0, <1>2
      <4> QED
        BY <4>1, <4>2 DEF KnowsEnd
    <3>6. CASE ReaderRetires(k)
      <4>1. /\ reader'[k] \in {"close", "fail"}
            /\ \/ generation = dialled[k] /\ conn' = 0
               \/ generation # dialled[k] /\ conn' = conn
        BY <1>0, <3>6 DEF ReaderRetires, Retires, AfterRetire
      <4>2. conn' # k
        BY <1>0, <1>2, <4>1
      <4> QED
        BY <4>1, <4>2 DEF KnowsEnd
    <3>7. CASE ReaderCloses(k)
      <4>1. reader'[k] = "fail" /\ conn' = conn /\ reader[k] = "close"
        BY <1>0, <3>7 DEF ReaderCloses
      <4> QED
        BY <1>3, <4>1 DEF KnowsEnd
    <3>8. CASE ReaderFails(k)
      <4>1. reader'[k] = "off"
        BY <1>0, <3>8 DEF ReaderFails
      <4> QED
        BY <4>1 DEF KnowsEnd
    <3> QED
      BY <3>1, <3>2, <3>3, <3>4, <3>5, <3>6, <3>7, <3>8 DEF Reader
  <2> QED
    BY <2>2, <2>3 DEF ReaderKnown
<1>9. PendingKnown'
  <2> SUFFICES ASSUME NEW c \in Callers, NEW n \in {1, 2}
               PROVE  KnowsPending(c, n)'
    BY DEF PendingKnown
  <2> DEFINE r == <<c, n>>
  <2>0. r \in Requests
    BY RequestsAssumption
  <2> HIDE DEF r
  <2>1. /\ pending'[r] \in {0, pending[r]}
        /\ \/ result'[r] = result[r]
           \/ result'[r] = "response" /\ pending[r] # 0
           \/ /\ result'[r] = "error" /\ pending[r] # 0 /\ pending[r] # generation
    <3>1. CASE ReadsResponse(k)
      <4> DEFINE q == Head(down[k])
      <4>1. \/ UNCHANGED <<pending, result>>
            \/ /\ pending[q] = dialled[k] /\ q \in Requests
               /\ pending' = [pending EXCEPT ![q] = 0]
               /\ result' = [result EXCEPT ![q] = "response"]
        BY <3>1 DEF ReadsResponse
      <4>2. dialled[k] # 0
        BY <1>2
      <4> HIDE DEF q
      <4> QED
        BY <1>0, <2>0, <4>1, <4>2
    <3>2. CASE ReaderFails(k)
      <4>1. dialled[k] # generation /\ dialled[k] # 0
        BY <1>2, <1>3, <3>2 DEF ReaderFails, KnowsEnd
      <4>2. /\ pending'[r] = IF pending[r] = dialled[k] THEN 0 ELSE pending[r]
            /\ result'[r] = IF pending[r] = dialled[k] /\ dialled[k] # 0 THEN "error" ELSE result[r]
        BY <2>0, <3>2 DEF ReaderFails, FailPending
      <4> QED
        BY <4>1, <4>2
    <3>3. CASE UNCHANGED <<pending, result>>
      BY <3>3
    <3> QED
      BY <3>1, <3>2, <3>3 DEF Reader, ReadsEvent, Dispatches, HandlerReturns, ReadFails,
         ReaderRetires, ReaderCloses
  <2> QED
    BY <1>1, <1>5, <2>1, KnowsPendingOnward DEF r
<1> QED
  BY <1>5, <1>6, <1>7, <1>8, <1>9 DEF LinksInv

\* The calls: what they do to the connection.
LEMMA CallConn ==
    ASSUME TypeOK, LinksInv, NEW c \in Callers, CallBegins(c) \/ Call(c)
    PROVE  /\ ConnSteps /\ UNCHANGED <<clients, writeCh, todo, down, dispatching>>
           /\ \A k \in Links :
                 reader'[k] = reader[k] \/ (reader'[k] = "read" /\ Dialled(k)')
<1> USE DEF serverVars, handlerVars, UnchangedByCall, ConnSteps
<1>1. ASSUME UNCHANGED <<conn, generation, dialled, clientEnd, serverEnd>>
      PROVE  ConnSteps
  BY <1>1 DEF Staying
<1>2. ASSUME NEW g, Retires(g), UNCHANGED <<dialled, clientEnd, serverEnd>>
      PROVE  ConnSteps
  BY <1>2 DEF Retires, Retiring, Staying
<1>3. UNCHANGED <<clients, writeCh, todo, down, dispatching>>
  BY DEF CallBegins, Call, CallEnsures, CallSends, CallRegisters, CallWrites,
     CallRetires,
     CallCloses, CallFails, CallReturns, CallRecovers, CallConnects
<1>4. CASE CallBegins(c) \/ CallSends(c) \/ CallRegisters(c)
  BY <1>1, <1>3, <1>4 DEF CallBegins, CallSends, CallRegisters
<1>5. CASE CallWrites(c) \/ CallFails(c) \/ CallReturns(c)
  BY <1>1, <1>3, <1>5 DEF CallWrites, CallFails, CallReturns
<1>6. CASE CallRetires(c) \/ CallRecovers(c)
  BY <1>2, <1>3, <1>6 DEF CallRetires, CallRecovers
<1>7. CASE CallCloses(c)
  <2>1. at[c] \in Retired /\ Closes(sentOn[c]) /\ UNCHANGED <<conn, generation, dialled, serverEnd>>
        /\ UNCHANGED reader
    BY <1>7 DEF CallCloses, Moves, Retired
  <2>2. KnowsSent(c) /\ sentOn[c] \in Links \cup {0} /\ 0 \notin Links
    BY LinksAssumption DEF LinksInv, SentKnown, TypeOK
  <2>3. CASE sentOn[c] = 0
    <3>1. clientEnd' = clientEnd
      BY <2>1, <2>2, <2>3 DEF Closes, TypeOK, ServerTypeOK
    <3> QED
      BY <1>1, <1>3, <2>1, <3>1
  <2>4. CASE sentOn[c] # 0
    <3>1. conn # 0 => dialled[conn] = generation
      BY DEF LinksInv, LinksKnown
    <3>2. Dialled(sentOn[c]) /\ conn # sentOn[c]
      BY <2>1, <2>2, <2>4, <3>1 DEF KnowsSent
    <3> QED
      BY <1>3, <2>1, <2>2, <2>4, <3>2 DEF Closing
  <2> QED
    BY <2>3, <2>4
<1>8. ASSUME NEW ok \in BOOLEAN, CallEnsures(c, ok) \/ CallConnects(c, ok)
      PROVE  /\ ConnSteps /\ UNCHANGED <<clients, writeCh, todo, down, dispatching>>
             /\ \A k \in Links :
                   reader'[k] = reader[k] \/ (reader'[k] = "read" /\ Dialled(k)')
  <2>1. Connects(ok)
    BY <1>8 DEF CallEnsures, CallConnects
  <2>2. CASE NotDialled
    BY <1>1, <1>3, <2>2 DEF NotDialled
  <2>3. CASE conn = 0 /\ Dials
    <3>0. PICK k \in Links : /\ clientEnd' = [clientEnd EXCEPT ![k] = "open"]
                             /\ reader' = [reader EXCEPT ![k] = "read"]
      BY <2>3, DialsHere
    <3>1. \A j \in Links : reader'[j] = reader[j] \/ (reader'[j] = "read" /\ Dialled(j)')
      BY <3>0 DEF TypeOK, ServerTypeOK, Dialled
    <3> QED
      BY <1>3, <2>3, <3>1 DEF Dialling
  <2> QED
    BY <2>1, <2>2, <2>3, ConnectsHere
<1> QED
  BY <1>4, <1>5, <1>6, <1>7, <1>8 DEF Call

\* Where a call that keeps its request goes.
LEMMA CallSentMoves ==
    ASSUME TypeOK, LinksInv, NEW c \in Callers, CallBegins(c) \/ Call(c), ~CallSends(c)
    PROVE  /\ sentIn'[c] = sentIn[c] /\ sentOn'[c] = sentOn[c]
           /\ at'[c] \in Sent => at[c] \in Sent
           /\ at'[c] \in Retired => at[c] \in Retired \/ sentIn[c] # generation'
           /\ at'[c] = "retire"
                => at[c] = "retire" \/ conn # sentOn[c] \/ serverEnd[conn] = "closed"
           /\ at'[c] = "recover" => at[c] = "recover" \/ sentIn[c] # generation'
<1> USE DEF UnchangedByCall, Moves, Finishes, AttemptFails, Sent, Retired
<1>1. /\ at \in [Callers -> CallSteps] /\ attempt[c] \in {1, 2} /\ generation \in Nat
      /\ Request(c) \in Requests /\ conn \in Links \cup {0} /\ 0 \notin Links
      /\ clientEnd \in [Links -> {"none", "open", "closed"}]
  BY RequestsAssumption, LinksAssumption DEF TypeOK, ServerTypeOK, Request
<1>2. KnowsSent(c) /\ KnowsPending(c, attempt[c])
      /\ (conn # 0 => clientEnd[conn] = "open" /\ dialled[conn] = generation)
  BY <1>1 DEF LinksInv, SentKnown, PendingKnown, LinksKnown
<1>3. sentIn' = sentIn /\ sentOn' = sentOn
  BY DEF CallBegins, Call, CallEnsures, CallRegisters, CallWrites, CallRetires,
     CallCloses,
     CallFails, CallReturns, CallRecovers, CallConnects
<1> DEFINE Goal == /\ at'[c] \in Sent => at[c] \in Sent
                   /\ at'[c] \in Retired => at[c] \in Retired \/ sentIn[c] # generation'
                   /\ at'[c] = "retire"
                        => at[c] = "retire" \/ conn # sentOn[c] \/ serverEnd[conn] = "closed"
                   /\ at'[c] = "recover" => at[c] = "recover" \/ sentIn[c] # generation'
<1>4. ASSUME CallBegins(c) \/ CallRegisters(c)
      PROVE  Goal
  BY <1>1, <1>4 DEF CallBegins, CallRegisters
<1>5. ASSUME CallWrites(c)
      PROVE  Goal
  <2>1. /\ at[c] = "write" /\ at'[c] \in {"wait", "retire", "stalled"}
        /\ at'[c] = "retire" =>
              clientEnd[sentOn[c]] # "open" \/ serverEnd[sentOn[c]] = "closed"
    BY <1>1, <1>5 DEF CallWrites
  <2>2. sentOn[c] # 0
    BY <1>2, <2>1 DEF KnowsSent
  <2>3. at'[c] = "retire" => conn # sentOn[c] \/ serverEnd[conn] = "closed"
    BY <1>2, <2>1, <2>2
  <2> QED
    BY <2>1, <2>3
<1>6. ASSUME CallRetires(c)
      PROVE  Goal
  <2>1. /\ at'[c] \in {"close", "fail", "closeStalled", "failStalled"}
        /\ generation = sentIn[c] => generation' = generation + 1
        /\ generation # sentIn[c] => generation' = generation
    BY <1>1, <1>6 DEF CallRetires, Retires, AfterRetire
  <2> QED
    BY <1>1, <2>1
<1>7. ASSUME CallCloses(c)
      PROVE  Goal
  BY <1>1, <1>7 DEF CallCloses
<1>8. ASSUME CallFails(c)
      PROVE  Goal
  <2>1. at[c] \in Retired /\ at'[c] \in {"recover", "done", "connect"} /\ UNCHANGED generation
    BY <1>1, <1>8 DEF CallFails
  <2> QED
    BY <1>2, <2>1 DEF KnowsSent
<1>9. ASSUME CallReturns(c)
      PROVE  Goal
  <2>1. /\ at'[c] \in {"recover", "done"} /\ UNCHANGED generation
        /\ at'[c] = "recover" => result[<<c, attempt[c]>>] = "error"
    BY <1>1, <1>9 DEF CallReturns, Request
  <2> QED
    BY <1>2, <2>1 DEF KnowsPending
<1>10. ASSUME CallRecovers(c)
       PROVE  Goal
  <2>1. /\ at'[c] \in {"closeOld", "failOld"}
        /\ generation = sentIn[c] => generation' = generation + 1
        /\ generation # sentIn[c] => generation' = generation
    BY <1>1, <1>10 DEF CallRecovers, Retires
  <2> QED
    BY <1>1, <2>1
<1>11. ASSUME NEW ok \in BOOLEAN, CallEnsures(c, ok) \/ CallConnects(c, ok)
       PROVE  Goal
  <2>1. at'[c] \in {"send", "done"}
    BY <1>1, <1>11 DEF CallEnsures, CallConnects
  <2> QED
    BY <2>1
<1> QED
  BY <1>3, <1>4, <1>5, <1>6, <1>7, <1>8, <1>9, <1>10, <1>11 DEF Call

\* What the steps of a call do to the requests that wait.
LEMMA CallPendingMoves ==
    ASSUME TypeOK, LinksInv, NEW c \in Callers, CallBegins(c) \/ Call(c), NEW r \in Requests,
           CallRegisters(c) => r # Request(c)
    PROVE  /\ pending'[r] \in {0, pending[r]}
           /\ \/ result'[r] = result[r]
              \/ result'[r] = "error" /\ pending[r] # 0 /\ pending[r] # generation
<1> USE DEF UnchangedByCall
<1>1. Request(c) \in Requests /\ pending \in [Requests -> Nat] /\ KnowsSent(c)
  BY RequestsAssumption DEF TypeOK, Request, LinksInv, SentKnown
<1>2. CASE CallFails(c)
  <2>1. sentIn[c] # generation
    BY <1>1, <1>2 DEF CallFails, Moves, KnowsSent, Retired
  <2>2. /\ pending'[r] = IF pending[r] = sentIn[c] THEN 0 ELSE pending[r]
        /\ result'[r] = IF pending[r] = sentIn[c] /\ sentIn[c] # 0 THEN "error" ELSE result[r]
    BY <1>2 DEF CallFails, FailPending
  <2> QED
    BY <2>1, <2>2
<1>3. CASE CallRegisters(c)
  BY <1>1, <1>3 DEF CallRegisters
<1>4. CASE CallWrites(c) \/ CallReturns(c)
  <2>1. UNCHANGED result /\ (UNCHANGED pending \/ pending' = [pending EXCEPT ![Request(c)] = 0])
    BY <1>4 DEF CallWrites, CallReturns, Forgets
  <2> QED
    BY <1>1, <2>1
<1>5. CASE UNCHANGED <<pending, result>>
  BY <1>5
<1> QED
  BY <1>2, <1>3, <1>4, <1>5 DEF CallBegins, Call, CallEnsures, CallSends, CallRetires,
     CallCloses,
     CallRecovers, CallConnects

\* The requests of the call that moves.
LEMMA CallKnowsPending ==
    ASSUME TypeOK, LinksInv, Onward, NEW c \in Callers, CallBegins(c) \/ Call(c), NEW n \in {1, 2}
    PROVE  KnowsPending(c, n)'
<1> USE DEF UnchangedByCall
<1>1. /\ Request(c) = <<c, attempt[c]>> /\ attempt[c] \in {1, 2} /\ <<c, n>> \in Requests
      /\ at \in [Callers -> CallSteps] /\ attempt \in [Callers -> {1, 2}]
      /\ pending \in [Requests -> Nat] /\ sentIn \in [Callers -> Nat]
  BY RequestsAssumption DEF TypeOK, Request
<1>2. KnowsPending(c, n)
  BY DEF LinksInv, PendingKnown
<1>3. CASE CallSends(c)
  <2>1. /\ at[c] = "send" /\ UNCHANGED <<attempt, pending, result>>
    BY <1>3 DEF CallSends
  <2>2. n = attempt[c] => pending[<<c, n>>] = 0 /\ result[<<c, n>>] = "none"
    BY <1>1, <1>2, <2>1 DEF KnowsPending, RegisteredBefore, Unregistered
  <2>3. n # attempt[c] => RegisteredBefore(c, n)' = RegisteredBefore(c, n)
    BY <2>1 DEF RegisteredBefore
  <2> QED
    BY <1>2, <2>1, <2>2, <2>3 DEF KnowsPending
<1>4. CASE CallRegisters(c)
  <2>1. /\ at[c] = "register" /\ at'[c] = "write"
        /\ UNCHANGED <<attempt, sentIn, result, generation>>
        /\ pending' = [pending EXCEPT ![<<c, attempt[c]>>] = sentIn[c]]
    BY <1>1, <1>4 DEF CallRegisters, Moves
  <2>2. CASE n = attempt[c]
    BY <1>1, <1>2, <2>1, <2>2 DEF KnowsPending, RegisteredBefore, Unregistered
  <2>3. CASE n # attempt[c]
    BY <1>1, <1>2, <2>1, <2>3 DEF KnowsPending, RegisteredBefore, Unregistered
  <2> QED
    BY <2>2, <2>3
<1>5. CASE attempt'[c] # attempt[c]
  <2>1. attempt[c] = 1 /\ attempt'[c] = 2 /\ UNCHANGED <<pending, result>>
    BY <1>1, <1>5 DEF CallBegins, Call, CallEnsures, CallSends, CallRegisters,
       CallWrites,
       CallRetires, CallCloses, CallFails, CallReturns, CallRecovers, CallConnects, MayRepeat
  <2>2. n = 2 => pending[<<c, n>>] = 0 /\ result[<<c, n>>] = "none"
    BY <1>2, <2>1 DEF KnowsPending, RegisteredBefore
  <2>3. n = 1 => RegisteredBefore(c, n)'
    BY <2>1 DEF RegisteredBefore
  <2> QED
    BY <2>1, <2>2, <2>3 DEF KnowsPending
<1>6. CASE ~CallSends(c) /\ ~CallRegisters(c) /\ attempt'[c] = attempt[c]
  <2>1. at[c] \notin Unregistered => at'[c] \notin Unregistered
    <3> USE DEF Moves, Finishes, AttemptFails, AfterRetire, Unregistered
    <3>1. CASE CallBegins(c) \/ CallWrites(c) \/ CallRetires(c)
      BY <1>1, <3>1 DEF CallBegins, CallWrites, CallRetires
    <3>2. CASE CallCloses(c) \/ CallFails(c)
      BY <1>1, <3>2 DEF CallCloses, CallFails
    <3>3. CASE CallReturns(c) \/ CallRecovers(c)
      BY <1>1, <3>3 DEF CallReturns, CallRecovers
    <3>4. ASSUME NEW ok \in BOOLEAN, CallEnsures(c, ok)
          PROVE  at[c] \in Unregistered
      BY <3>4 DEF CallEnsures
    <3>5. ASSUME NEW ok \in BOOLEAN, CallConnects(c, ok)
          PROVE  at'[c] = "done"
      <4>1. ok /\ MayRepeat(c) => attempt'[c] = 2 /\ attempt[c] = 1
        BY <1>1, <3>5 DEF CallConnects, MayRepeat
      <4>2. ~(ok /\ MayRepeat(c))
        BY <1>6, <4>1
      <4> QED
        BY <1>1, <3>5, <4>2 DEF CallConnects
    <3> QED
      BY <1>6, <3>1, <3>2, <3>3, <3>4, <3>5 DEF Call
  <2>2. sentIn'[c] = sentIn[c]
    BY <1>6, CallSentMoves
  <2>3. /\ pending'[<<c, n>>] \in {0, pending[<<c, n>>]}
        /\ \/ result'[<<c, n>>] = result[<<c, n>>]
           \/ /\ result'[<<c, n>>] = "error" /\ pending[<<c, n>>] # 0
              /\ pending[<<c, n>>] # generation
    BY <1>1, <1>6, CallPendingMoves
  <2> QED
    BY <1>6, <2>1, <2>2, <2>3, KnowsPendingOnward
<1> QED
  BY <1>3, <1>4, <1>5, <1>6

LEMMA CallKeepsLinks ==
    ASSUME TypeOK, LinksInv, NEW c \in Callers, CallBegins(c) \/ Call(c)
    PROVE  LinksInv'
<1> USE DEF UnchangedByCall
<1>0. /\ ConnSteps /\ UNCHANGED <<clients, writeCh, todo, down, dispatching>>
      /\ \A k \in Links : reader'[k] = reader[k] \/ (reader'[k] = "read" /\ Dialled(k)')
  BY CallConn
<1>1. LinksKnown' /\ Onward
  BY <1>0, ConnOnward
<1>2. FreshLinks'
  BY <1>0, <1>1, FreshOnward
<1>3. ReaderKnown'
  <2> SUFFICES ASSUME NEW k \in Links
               PROVE  KnowsEnd(k)'
    BY DEF ReaderKnown
  <2>1. CASE reader'[k] = reader[k]
    BY <1>0, <1>1, <2>1, KnowsEndOnward
  <2>2. CASE reader'[k] = "read"
    BY <2>2 DEF KnowsEnd
  <2> QED
    BY <1>0, <2>1, <2>2
<1>4. \A d \in Callers \ {c} : /\ at'[d] = at[d] /\ attempt'[d] = attempt[d]
                               /\ sentIn'[d] = sentIn[d] /\ sentOn'[d] = sentOn[d]
  <2>0. /\ at \in [Callers -> CallSteps] /\ attempt \in [Callers -> {1, 2}]
        /\ sentIn \in [Callers -> Nat] /\ sentOn \in [Callers -> Links \cup {0}]
    BY DEF TypeOK
  <2> USE DEF Moves, Finishes, AttemptFails
  <2>1. CASE CallBegins(c) \/ CallSends(c) \/ CallRegisters(c) \/ CallWrites(c)
    BY <2>0, <2>1 DEF CallBegins, CallSends, CallRegisters, CallWrites
  <2>2. CASE CallRetires(c) \/ CallCloses(c) \/ CallFails(c)
    BY <2>0, <2>2 DEF CallRetires, CallCloses, CallFails
  <2>3. CASE CallReturns(c) \/ CallRecovers(c)
    BY <2>0, <2>3 DEF CallReturns, CallRecovers
  <2>4. ASSUME NEW ok \in BOOLEAN, CallEnsures(c, ok) \/ CallConnects(c, ok),
               NEW d \in Callers \ {c}
        PROVE  /\ at'[d] = at[d] /\ attempt'[d] = attempt[d]
               /\ sentIn'[d] = sentIn[d] /\ sentOn'[d] = sentOn[d]
    BY <2>0, <2>4 DEF CallEnsures, CallConnects
  <2> QED
    BY <2>1, <2>2, <2>3, <2>4 DEF Call
<1>5. SentKnown'
  <2> SUFFICES ASSUME NEW d \in Callers
               PROVE  KnowsSent(d)'
    BY DEF SentKnown
  <2>1. CASE d # c
    BY <1>1, <1>4, <2>1, KnowsSentOnward
  <2>2. CASE d = c /\ ~CallSends(c)
    BY <1>1, <2>2, CallSentMoves, KnowsSentOnward
  <2>3. CASE d = c /\ CallSends(c)
    <3>1. /\ sentIn'[c] = generation /\ sentOn'[c] = conn
          /\ UNCHANGED <<conn, generation, clientEnd, dialled>>
      BY <2>3 DEF CallSends, TypeOK
    <3>2. /\ at'[c] \in {"register", "recover", "done"} /\ (at'[c] = "register" => conn # 0)
          /\ (at'[c] = "recover" => conn = 0)
      BY <2>3 DEF CallSends, Moves, AttemptFails, Finishes, TypeOK
    <3>3. conn # 0 => clientEnd[conn] = "open" /\ dialled[conn] = generation
      BY DEF LinksInv, LinksKnown
    <3>4. generation \in Nat
      BY DEF TypeOK
    <3> QED
      BY <2>3, <3>1, <3>2, <3>3, <3>4 DEF KnowsSent, Dialled, Sent, Retired
  <2> QED
    BY <2>1, <2>2, <2>3
<1>6. PendingKnown'
  <2> SUFFICES ASSUME NEW d \in Callers, NEW n \in {1, 2}
               PROVE  KnowsPending(d, n)'
    BY DEF PendingKnown
  <2>1. CASE d # c
    <3>1. <<d, n>> \in Requests /\ <<d, n>> # Request(c)
      BY <2>1, RequestsAssumption DEF Request
    <3>2. /\ pending'[<<d, n>>] \in {0, pending[<<d, n>>]}
          /\ \/ result'[<<d, n>>] = result[<<d, n>>]
             \/ /\ result'[<<d, n>>] = "error" /\ pending[<<d, n>>] # 0
                /\ pending[<<d, n>>] # generation
      BY <3>1, CallPendingMoves
    <3> QED
      BY <1>1, <1>4, <2>1, <3>2, KnowsPendingOnward
  <2>2. CASE d = c
    BY <1>1, <2>2, CallKnowsPending
  <2> QED
    BY <2>1, <2>2
<1> QED
  BY <1>1, <1>2, <1>3, <1>5, <1>6 DEF LinksInv

LEMMA WatchdogKeepsLinks ==
    ASSUME TypeOK, LinksInv, WatchdogConnects
    PROVE  LinksInv'
<1>1. PICK ok \in BOOLEAN : Connects(ok)
  BY DEF WatchdogConnects
<1>2. UNCHANGED <<clients, writeCh, todo, down, dispatching, pending, result,
                  at, attempt, sentIn, sentOn>>
  BY DEF WatchdogConnects, callerVars
<1>3. ConnSteps /\ \A k \in Links : reader'[k] = reader[k] \/ (reader'[k] = "read" /\ Dialled(k)')
  <2>1. CASE NotDialled
    BY <2>1 DEF NotDialled, ConnSteps, Staying
  <2>2. CASE conn = 0 /\ Dials
    <3>0. PICK k \in Links : /\ clientEnd' = [clientEnd EXCEPT ![k] = "open"]
                             /\ reader' = [reader EXCEPT ![k] = "read"]
      BY <2>2, DialsHere
    <3>1. \A j \in Links : reader'[j] = reader[j] \/ (reader'[j] = "read" /\ Dialled(j)')
      BY <3>0 DEF TypeOK, ServerTypeOK, Dialled
    <3> QED
      BY <2>2, <3>1 DEF ConnSteps, Dialling
  <2> QED
    BY <1>1, <2>1, <2>2, ConnectsHere
<1>4. LinksKnown' /\ Onward
  BY <1>3, ConnOnward
<1>5. FreshLinks'
  BY <1>2, <1>3, <1>4, FreshOnward
<1>6. ReaderKnown'
  <2> SUFFICES ASSUME NEW k \in Links
               PROVE  KnowsEnd(k)'
    BY DEF ReaderKnown
  <2>1. CASE reader'[k] = reader[k]
    BY <1>2, <1>4, <2>1, KnowsEndOnward
  <2>2. CASE reader'[k] = "read"
    BY <2>2 DEF KnowsEnd
  <2> QED
    BY <1>3, <2>1, <2>2
<1>7. SentKnown'
  BY <1>2, <1>4, KnowsSentOnward DEF SentKnown
<1>8. PendingKnown'
  BY <1>2, <1>4, KnowsPendingOnward DEF PendingKnown
<1> QED
  BY <1>4, <1>5, <1>6, <1>7, <1>8 DEF LinksInv

-----------------------------------------------------------------------------
(* Events.                                                                 *)

\* Where no event comes that did not come before, and none has been handled.
LEMMA EventsPass ==
    ASSUME EventsInv, ReaderKnown', handled' = handled,
           \A k \in Links : Dialled(k) => Dialled(k)',
           \A k \in Links : DistinctIn(writeCh'[k], Broadcasts) /\ DistinctIn(down'[k], Broadcasts),
           \A e \in Broadcasts, k \in Links : ComesOnce(e, k)',
           \A e \in Broadcasts, j, k \in Links :
              HasHandled(e, k) /\ Comes(e, j)' => Comes(e, j)
    PROVE  EventsInv'
<1>1. \A e, k : HasHandled(e, k)' <=> HasHandled(e, k)
  BY DEF HasHandled
<1>2. EventsOnce'
  BY DEF EventsOnce
<1>3. EventsBehind'
  BY <1>1 DEF EventsInv, EventsBehind
<1>4. EventsInOrder'
  BY DEF EventsInv, EventsInOrder, ReaderKnown, KnowsEnd
<1> QED
  BY <1>2, <1>3, <1>4 DEF EventsInv

\* A queue and a link, in a step of the core.
LEMMA CoreKeepsEvents ==
    ASSUME TypeOK, LinksInv, EventsInv, CoreSide
    PROVE  EventsInv'
<1>1. UNCHANGED <<clientEnd, reader, dispatching, handled>>
  BY CoreSpares DEF clientVars
<1>2. /\ writeCh \in [Links -> Seq(Broadcasts)] /\ down \in [Links -> Seq(Requests \cup Broadcasts)]
      /\ respCh \in [Links -> Seq(Requests)]
      /\ todo \in [Broadcasts -> (SUBSET Links) \cup {{0}}] /\ 0 \notin Links
      /\ clients \subseteq Links
  BY LinksAssumption DEF TypeOK, ServerTypeOK
<1>3. ReaderKnown'
  BY CoreKeepsLinks DEF LinksInv
<1>4. /\ \A k \in Links : DistinctIn(writeCh[k], Broadcasts) /\ DistinctIn(down[k], Broadcasts)
      /\ \A k \in Links, e \in Broadcasts : ComesOnce(e, k)
  BY DEF EventsInv, EventsOnce
<1>5. \A k \in Links : Dialled(k) => Dialled(k)'
  BY <1>1 DEF Dialled
<1>6. \A e, k : HasHandled(e, k)' <=> HasHandled(e, k)
  BY <1>1 DEF HasHandled
<1> DEFINE Distinct(k) == DistinctIn(writeCh'[k], Broadcasts) /\ DistinctIn(down'[k], Broadcasts)
           Older(e, k) == HasHandled(e, k) => \A j \in Links : Comes(e, j)' => Comes(e, j)
<1>7. ASSUME EventSteps
      PROVE  \A k \in Links, e \in Broadcasts : Distinct(k) /\ ComesOnce(e, k)' /\ Older(e, k)
  <2> USE <1>1
  <2>1. CASE Resting
    <3>1. ASSUME NEW k \in Links, NEW e \in Broadcasts
          PROVE  Distinct(k) /\ ComesOnce(e, k)' /\ Older(e, k)
      BY <1>4, <1>6, <2>1 DEF Resting, ComesOnce, Comes
    <3> QED
      BY <3>1
  <2>2. CASE Starting
    <3>1. PICK f \in Broadcasts : todo[f] = {0} /\ todo' = [todo EXCEPT ![f] = clients]
      BY <2>2 DEF Starting
    <3>2. UNCHANGED <<writeCh, down>>
      BY <2>2 DEF Starting
    <3>3. todo'[f] # {0} /\ \A e \in Broadcasts : e # f => todo'[e] = todo[e]
      BY <1>2, <3>1
    <3>4. ASSUME NEW k \in Links, NEW e \in Broadcasts, e # f
          PROVE  Distinct(k) /\ ComesOnce(e, k)' /\ Older(e, k)
      BY <1>4, <1>6, <3>2, <3>3, <3>4 DEF ComesOnce, Comes
    <3>5. ASSUME NEW k \in Links
          PROVE  Distinct(k) /\ ComesOnce(f, k)' /\ Older(f, k)
      BY <1>4, <1>6, <3>1, <3>2, <3>3 DEF ComesOnce, Comes
    <3> QED
      BY <3>4, <3>5
  <2>3. CASE Queueing
    <3>1. PICK f \in Broadcasts, j \in Links :
            /\ j \in todo[f] /\ todo' = [todo EXCEPT ![f] = @ \ {j}]
            /\ writeCh' = [writeCh EXCEPT ![j] = Append(@, f)] \/ UNCHANGED writeCh
            /\ UNCHANGED down
      BY <2>3 DEF Queueing
    <3>2. /\ ~Holds(writeCh[j], f) /\ ~Holds(down[j], f) /\ reader[j] # f
      BY <1>4, <3>1 DEF ComesOnce
    <3>3. /\ Append(writeCh[j], f) \in Seq(Broadcasts)
          /\ \A y : Holds(Append(writeCh[j], f), y) <=> Holds(writeCh[j], y) \/ y = f
          /\ DistinctIn(Append(writeCh[j], f), Broadcasts)
      BY <1>2, <1>4, <3>2, Appended
    <3>4. /\ todo'[f] # {0} /\ todo[f] # {0} /\ j \notin todo'[f]
          /\ todo'[f] \subseteq todo[f] /\ \A e \in Broadcasts : e # f => todo'[e] = todo[e]
      BY <1>2, <3>1
    <3>5. /\ \A k \in Links : k # j => writeCh'[k] = writeCh[k]
          /\ writeCh'[j] = writeCh[j] \/ writeCh'[j] = Append(writeCh[j], f)
      BY <1>2, <3>1
    <3>6. ASSUME NEW k \in Links, NEW e \in Broadcasts, Holds(writeCh'[k], e)
          PROVE  Holds(writeCh[k], e) \/ (k = j /\ e = f)
      BY <3>3, <3>5, <3>6
    <3>7. ASSUME NEW k \in Links, NEW e \in Broadcasts
          PROVE  Distinct(k) /\ ComesOnce(e, k)' /\ Older(e, k)
      <4>1. Distinct(k)
        BY <1>4, <3>1, <3>3, <3>5
      <4>2. ASSUME NEW i \in Links, Comes(e, i)'
            PROVE  Comes(e, i)
        BY <3>1, <3>4, <3>6, <4>2 DEF Comes
      <4>3. ComesOnce(e, k)'
        <5>1. CASE e = f /\ k = j
          BY <3>1, <3>2, <3>4, <5>1 DEF ComesOnce
        <5>2. CASE ~(e = f /\ k = j)
          <6>1. /\ k \in todo'[e] => k \in todo[e]
                /\ Holds(writeCh'[k], e) => Holds(writeCh[k], e)
                /\ todo'[e] = {0} => todo[e] = {0}
            BY <3>4, <3>6, <5>2
          <6> QED
            BY <1>4, <1>6, <3>1, <4>2, <6>1 DEF ComesOnce
        <5> QED
          BY <5>1, <5>2
      <4> QED
        BY <4>1, <4>2, <4>3
    <3> QED
      BY <3>7
  <2>4. CASE Sending
    <3>1. PICK j \in Links :
            /\ writeCh[j] # <<>> /\ writeCh' = [writeCh EXCEPT ![j] = Tail(@)]
            /\ down' = [down EXCEPT ![j] = Append(@, Head(writeCh[j]))]
            /\ UNCHANGED todo
      BY <2>4 DEF Sending
    <3> DEFINE f == Head(writeCh[j])
    <3>2. /\ f \in Broadcasts /\ Tail(writeCh[j]) \in Seq(Broadcasts) /\ Holds(writeCh[j], f)
          /\ \A y : Holds(Tail(writeCh[j]), y) => Holds(writeCh[j], y)
          /\ DistinctIn(Tail(writeCh[j]), Broadcasts) /\ ~Holds(Tail(writeCh[j]), f)
      BY <1>2, <1>4, <3>1, Taken
    <3>3. down' = [down EXCEPT ![j] = Append(@, f)]
      BY <3>1
    <3> HIDE DEF f
    <3>4. ~Holds(down[j], f) /\ reader[j] # f /\ j \notin todo[f]
      BY <1>4, <3>2 DEF ComesOnce
    <3>5. /\ \A y : Holds(Append(down[j], f), y) <=> Holds(down[j], y) \/ y = f
          /\ DistinctIn(Append(down[j], f), Broadcasts)
      <4>1. f \in Requests \cup Broadcasts /\ down[j] \in Seq(Requests \cup Broadcasts)
            /\ DistinctIn(down[j], Broadcasts)
        BY <1>2, <1>4, <3>2
      <4> QED
        BY <3>4, <4>1, Appended
    <3>6. /\ \A k \in Links : k # j => writeCh'[k] = writeCh[k] /\ down'[k] = down[k]
          /\ writeCh'[j] = Tail(writeCh[j]) /\ down'[j] = Append(down[j], f)
      BY <1>2, <3>1, <3>3
    <3>7. ASSUME NEW k \in Links, NEW e \in Broadcasts
          PROVE  /\ Holds(writeCh'[k], e) => Holds(writeCh[k], e) /\ ~(k = j /\ e = f)
                 /\ Holds(down'[k], e) => Holds(down[k], e) \/ (k = j /\ e = f)
      BY <3>2, <3>5, <3>6
    <3>8. ASSUME NEW k \in Links, NEW e \in Broadcasts
          PROVE  Distinct(k) /\ ComesOnce(e, k)' /\ Older(e, k)
      <4>1. Distinct(k)
        BY <1>4, <3>2, <3>5, <3>6
      <4>2. ASSUME NEW i \in Links, Comes(e, i)'
            PROVE  Comes(e, i)
        BY <3>1, <3>2, <3>7, <4>2 DEF Comes
      <4>3. ComesOnce(e, k)'
        <5>1. CASE e = f /\ k = j
          BY <1>4, <1>6, <3>1, <3>2, <3>4, <3>7, <5>1 DEF ComesOnce, Comes
        <5>2. CASE ~(e = f /\ k = j)
          BY <1>4, <1>6, <3>1, <3>7, <4>2, <5>2 DEF ComesOnce
        <5> QED
          BY <5>1, <5>2
      <4> QED
        BY <4>1, <4>2, <4>3
    <3> QED
      BY <3>8
  <2>5. CASE Answering
    <3>1. PICK j \in Links :
            /\ respCh[j] # <<>> /\ down' = [down EXCEPT ![j] = Append(@, Head(respCh[j]))]
            /\ UNCHANGED <<writeCh, todo>>
      BY <2>5 DEF Answering
    <3> DEFINE q == Head(respCh[j])
    <3>2. q \in Requests /\ q \notin Broadcasts
      BY <1>2, <3>1, Taken, BroadcastsAssumption
    <3>3. down' = [down EXCEPT ![j] = Append(@, q)]
      BY <3>1
    <3> HIDE DEF q
    <3>4. /\ \A y : Holds(Append(down[j], q), y) <=> Holds(down[j], y) \/ y = q
          /\ DistinctIn(Append(down[j], q), Broadcasts)
      <4>1. q \in Requests \cup Broadcasts /\ down[j] \in Seq(Requests \cup Broadcasts)
            /\ DistinctIn(down[j], Broadcasts)
        BY <1>2, <1>4, <3>2
      <4> QED
        BY <3>2, <4>1, Appended
    <3>5. /\ \A k \in Links : k # j => down'[k] = down[k]
          /\ down'[j] = Append(down[j], q)
      BY <1>2, <3>3
    <3>6. ASSUME NEW k \in Links, NEW e \in Broadcasts
          PROVE  Holds(down'[k], e) <=> Holds(down[k], e)
      BY <3>2, <3>4, <3>5
    <3>7. ASSUME NEW k \in Links, NEW e \in Broadcasts
          PROVE  Distinct(k) /\ ComesOnce(e, k)' /\ Older(e, k)
      <4>1. Distinct(k)
        BY <1>4, <3>1, <3>4, <3>5
      <4>2. \A i \in Links : Comes(e, i)' <=> Comes(e, i)
        BY <3>1, <3>6 DEF Comes
      <4>3. ComesOnce(e, k)'
        BY <1>4, <1>6, <3>1, <3>6, <4>2 DEF ComesOnce
      <4> QED
        BY <4>1, <4>2, <4>3
    <3> QED
      BY <3>7
  <2>6. CASE Dying
    <3>1. /\ \A k \in Links : writeCh'[k] = <<>> /\ down'[k] = down[k]
          /\ \A e \in Broadcasts : todo'[e] = IF todo[e] = {0} THEN {0} ELSE {}
      BY <2>6 DEF Dying
    <3>2. ASSUME NEW k \in Links, NEW e \in Broadcasts
          PROVE  Distinct(k) /\ ComesOnce(e, k)' /\ Older(e, k)
      <4>1. Distinct(k)
        BY <1>4, <3>1, EmptyDistinct
      <4>2. \A i \in Links : /\ ~Holds(writeCh'[i], e) /\ i \notin todo'[e]
                             /\ (todo'[e] = {0} => todo[e] = {0})
        BY <1>2, <3>1, EmptyHolds
      <4>3. \A i \in Links : Comes(e, i)' => Comes(e, i)
        BY <3>1, <4>2 DEF Comes
      <4>4. ComesOnce(e, k)'
        BY <1>4, <1>6, <3>1, <4>2, <4>3 DEF ComesOnce
      <4> QED
        BY <4>1, <4>3, <4>4
    <3> QED
      BY <3>2
  <2> QED
    BY <1>7, <2>1, <2>2, <2>3, <2>4, <2>5, <2>6 DEF EventSteps
<1>8. \A k \in Links, e \in Broadcasts : Distinct(k) /\ ComesOnce(e, k)' /\ Older(e, k)
  BY <1>7, CoreEvents
<1>9. /\ \A k \in Links : DistinctIn(writeCh'[k], Broadcasts) /\ DistinctIn(down'[k], Broadcasts)
      /\ \A e \in Broadcasts, k \in Links : ComesOnce(e, k)'
      /\ \A e \in Broadcasts, j, k \in Links : HasHandled(e, k) /\ Comes(e, j)' => Comes(e, j)
  <2>1. CASE Broadcasts # {}
    BY <1>8, <2>1
  <2>2. CASE Broadcasts = {}
    BY <2>2 DEF DistinctIn
  <2> QED
    BY <2>1, <2>2
<1> QED
  BY <1>1, <1>3, <1>5, <1>9, EventsPass

\* A step that moves no event, except that readers stop being on the way to a handler.
LEMMA EventsRest ==
    ASSUME EventsInv, ReaderKnown', UNCHANGED <<handled, writeCh, todo>>,
           \A k \in Links : Dialled(k) => Dialled(k)',
           \A k \in Links : DistinctIn(down'[k], Broadcasts),
           \A k \in Links, e \in Broadcasts :
              /\ reader'[k] = e => reader[k] = e
              /\ Holds(down'[k], e) => Holds(down[k], e)
    PROVE  EventsInv'
<1>1. \A e, k : HasHandled(e, k)' <=> HasHandled(e, k)
  BY DEF HasHandled
<1>2. \A k \in Links, e \in Broadcasts : Comes(e, k)' => Comes(e, k)
  BY DEF Comes
<1>3. \A k \in Links, e \in Broadcasts : ComesOnce(e, k)'
  BY <1>1, <1>2 DEF EventsInv, EventsOnce, ComesOnce
<1>4. \A k \in Links : DistinctIn(writeCh'[k], Broadcasts)
  BY DEF EventsInv, EventsOnce
<1> QED
  BY <1>2, <1>3, <1>4, EventsPass

LEMMA CallKeepsEvents ==
    ASSUME TypeOK, LinksInv, EventsInv, NEW c \in Callers, CallBegins(c) \/ Call(c)
    PROVE  EventsInv'
<1>1. /\ UNCHANGED <<writeCh, todo, down>>
      /\ \A k \in Links : reader'[k] = reader[k] \/ reader'[k] = "read"
  BY CallConn
<1>2. ReaderKnown' /\ Onward
  BY CallConn, ConnOnward, CallKeepsLinks DEF LinksInv
<1>3. handled' = handled
  BY DEF CallBegins, Call, CallEnsures, CallSends, CallRegisters, CallWrites,
     CallRetires,
     CallCloses, CallFails, CallReturns, CallRecovers, CallConnects, UnchangedByCall
<1>4. "read" \notin Broadcasts
  BY BroadcastsAssumption
<1>5. \A k \in Links : DistinctIn(down'[k], Broadcasts)
  BY <1>1 DEF EventsInv, EventsOnce
<1> QED
  BY <1>1, <1>2, <1>3, <1>4, <1>5, EventsRest DEF Onward

LEMMA WatchdogKeepsEvents ==
    ASSUME TypeOK, LinksInv, EventsInv, WatchdogConnects
    PROVE  EventsInv'
<1>1. PICK ok \in BOOLEAN : Connects(ok)
  BY DEF WatchdogConnects
<1>2. UNCHANGED <<writeCh, todo, down, handled>>
  BY DEF WatchdogConnects, historyVars
<1>3. /\ \A k \in Links : Dialled(k) => Dialled(k)'
      /\ \A k \in Links : reader'[k] = reader[k] \/ reader'[k] = "read"
  <2>1. CASE NotDialled
    BY <2>1 DEF NotDialled, Dialled
  <2>2. CASE Dials
    <3>0. PICK k \in Links : /\ clientEnd' = [clientEnd EXCEPT ![k] = "open"]
                             /\ reader' = [reader EXCEPT ![k] = "read"]
      BY <2>2, DialsHere
    <3> QED
      BY <3>0 DEF TypeOK, ServerTypeOK, Dialled
  <2> QED
    BY <1>1, <2>1, <2>2, ConnectsHere
<1>4. "read" \notin Broadcasts /\ ReaderKnown'
  BY BroadcastsAssumption, WatchdogKeepsLinks DEF LinksInv
<1>5. \A k \in Links : DistinctIn(down'[k], Broadcasts)
  BY <1>2 DEF EventsInv, EventsOnce
<1> QED
  BY <1>2, <1>3, <1>4, <1>5, EventsRest

\* An event leaves the queue for the handler.
LEMMA ReadKeepsEvents ==
    ASSUME TypeOK, LinksInv, EventsInv, NEW k \in Links, ReadsEvent(k), ReaderKnown', Onward
    PROVE  EventsInv'
<1> DEFINE f == Head(down[k])
<1>1. /\ f \in Broadcasts /\ Tail(down[k]) \in Seq(Requests \cup Broadcasts) /\ Holds(down[k], f)
      /\ \A y : Holds(Tail(down[k]), y) => Holds(down[k], y)
      /\ DistinctIn(Tail(down[k]), Broadcasts) /\ ~Holds(Tail(down[k]), f)
  <2>1. /\ down[k] \in Seq(Requests \cup Broadcasts) /\ DistinctIn(down[k], Broadcasts)
        /\ f \in Broadcasts /\ down[k] # <<>>
    BY DEF TypeOK, ServerTypeOK, EventsInv, EventsOnce, ReadsEvent
  <2> QED
    BY <2>1, Taken
<1>2. /\ reader[k] = "read" /\ down' = [down EXCEPT ![k] = Tail(@)]
      /\ reader' = [reader EXCEPT ![k] = f] /\ UNCHANGED <<handled, writeCh, todo>>
  BY DEF ReadsEvent, UnchangedByReader, serverVars
<1> HIDE DEF f
<1>3. /\ \A j \in Links : j # k => reader'[j] = reader[j] /\ down'[j] = down[j]
      /\ reader'[k] = f /\ down'[k] = Tail(down[k])
  BY <1>2 DEF TypeOK, ServerTypeOK
<1>4. \A e, j : HasHandled(e, j)' <=> HasHandled(e, j)
  BY <1>2 DEF HasHandled
<1>5. \A j \in Links : DistinctIn(writeCh'[j], Broadcasts) /\ DistinctIn(down'[j], Broadcasts)
  BY <1>1, <1>2, <1>3 DEF EventsInv, EventsOnce
<1>6. ASSUME NEW j \in Links, NEW e \in Broadcasts, Comes(e, j)'
      PROVE  Comes(e, j)
  BY <1>1, <1>2, <1>3, <1>6 DEF Comes
<1>7. ASSUME NEW j \in Links, NEW e \in Broadcasts
      PROVE  ComesOnce(e, j)'
  <2>1. ComesOnce(e, j) /\ "read" \notin Broadcasts
    BY BroadcastsAssumption DEF EventsInv, EventsOnce
  <2>2. CASE j = k /\ e = f
    BY <1>1, <1>2, <1>3, <1>4, <1>6, <2>1, <2>2 DEF ComesOnce
  <2>3. CASE j = k /\ e # f
    BY <1>1, <1>2, <1>3, <1>4, <1>6, <2>1, <2>3 DEF ComesOnce
  <2>4. CASE j # k
    BY <1>2, <1>3, <1>4, <1>6, <2>1, <2>4 DEF ComesOnce
  <2> QED
    BY <2>2, <2>3, <2>4
<1> QED
  BY <1>2, <1>5, <1>6, <1>7, EventsPass DEF Onward

\* An event is handled: it has not been handled before, and the link is the newest.
LEMMA DispatchKeepsEvents ==
    ASSUME TypeOK, LinksInv, EventsInv, NEW k \in Links, Dispatches(k), IsCurrent(k), ReaderKnown'
    PROVE  EventsInv'
<1> DEFINE f == reader[k]
<1>1. /\ f \in Broadcasts /\ conn = k /\ reader' = [reader EXCEPT ![k] = "handle"]
      /\ handled' = Append(handled, <<f, k>>)
      /\ UNCHANGED <<writeCh, todo, down, clientEnd>>
  BY DEF Dispatches, IsCurrent, UnchangedByReader, serverVars
<1>2. reader[k] = f
  OBVIOUS
<1> HIDE DEF f
<1>3. /\ handled \in Seq(Broadcasts \X Links) /\ <<f, k>> \in Broadcasts \X Links
      /\ k # 0 /\ Links \subseteq Nat
      /\ reader'[k] = "handle" /\ \A j \in Links : j # k => reader'[j] = reader[j]
      /\ "handle" \notin Broadcasts
  BY <1>1, LinksAssumption, BroadcastsAssumption DEF TypeOK
<1>4. /\ Dialled(k) /\ (\A j \in Links : Dialled(j) => j <= k)
      /\ \A j \in Links : Dialled(j)' <=> Dialled(j)
  BY <1>1, <1>3 DEF LinksInv, LinksKnown, Dialled
<1>5. \A j \in Links, e \in Broadcasts : HasHandled(e, j)' <=> HasHandled(e, j) \/ (e = f /\ j = k)
  <2>1. \A y : Holds(Append(handled, <<f, k>>), y) <=> Holds(handled, y) \/ y = <<f, k>>
    BY <1>3, Appended
  <2> QED
    BY <1>1, <2>1 DEF HasHandled
<1>6. \A j \in Links : ~HasHandled(f, j)
  <2>1. ASSUME NEW j \in Links, HasHandled(f, j)
        PROVE  FALSE
    <3>1. Comes(f, k)
      BY <1>2 DEF Comes
    <3>2. Dialled(j) /\ k < j
      BY <1>1, <2>1, <3>1 DEF EventsInv, EventsBehind
    <3> QED
      BY <1>3, <1>4, <3>2
  <2> QED
    BY <2>1
<1>7. /\ k \notin todo[f] /\ ~Holds(writeCh[k], f) /\ ~Holds(down[k], f) /\ todo[f] # {0}
  <2>1. ComesOnce(f, k)
    BY <1>1 DEF EventsInv, EventsOnce
  <2> QED
    BY <1>2, <2>1 DEF ComesOnce, Comes
<1>8. \A j \in Links, e \in Broadcasts : Comes(e, j)' => Comes(e, j) /\ ~(e = f /\ j = k)
  BY <1>1, <1>3, <1>7 DEF Comes
<1>9. EventsOnce'
  <2>1. ASSUME NEW j \in Links, NEW e \in Broadcasts
        PROVE  ComesOnce(e, j)'
    <3>1. ComesOnce(e, j)
      BY DEF EventsInv, EventsOnce
    <3>2. reader'[j] = e => reader[j] = e
      BY <1>3
    <3> QED
      BY <1>1, <1>5, <1>7, <1>8, <3>1, <3>2 DEF ComesOnce
  <2>2. \A j \in Links : DistinctIn(writeCh'[j], Broadcasts) /\ DistinctIn(down'[j], Broadcasts)
    BY <1>1 DEF EventsInv, EventsOnce
  <2> QED
    BY <2>1, <2>2 DEF EventsOnce
<1>10. EventsBehind'
  <2>1. ASSUME NEW j \in Links, NEW e \in Broadcasts, HasHandled(e, j)',
               NEW i \in Links, Comes(e, i)'
        PROVE  i < j
    <3>1. Comes(e, i) /\ ~(e = f /\ i = k)
      BY <1>8, <2>1
    <3>2. CASE HasHandled(e, j)
      BY <3>1, <3>2 DEF EventsInv, EventsBehind
    <3>3. CASE e = f /\ j = k
      <4>1. "off" \notin Broadcasts
        BY BroadcastsAssumption
      <4>2. Dialled(i)
        BY <3>1, <4>1, EmptyHolds DEF Comes, LinksInv, FreshLinks
      <4> QED
        BY <1>3, <1>4, <3>1, <3>3, <4>2
    <3> QED
      BY <1>5, <2>1, <3>2, <3>3
  <2>2. ASSUME NEW j \in Links, NEW e \in Broadcasts, HasHandled(e, j)'
        PROVE  Dialled(j)'
    BY <1>4, <1>5, <2>2 DEF EventsInv, EventsBehind
  <2> QED
    BY <2>1, <2>2 DEF EventsBehind
<1>11. EventsInOrder'
  <2>1. /\ Len(handled) \in Nat /\ Len(handled') = Len(handled) + 1
        /\ handled'[Len(handled) + 1] = <<f, k>>
        /\ \A i \in 1..Len(handled) : handled'[i] = handled[i] /\ handled[i] \in Broadcasts \X Links
    BY <1>1, <1>3, AppendProperties, LenProperties, ElementOfSeq
  <2>2. ASSUME NEW i \in 1..Len(handled)
        PROVE  handled[i][2] <= k /\ handled[i][1] # f
    <3>1. handled[i] = <<handled[i][1], handled[i][2]>> /\ handled[i][1] \in Broadcasts
          /\ handled[i][2] \in Links
      BY <2>1
    <3>2. HasHandled(handled[i][1], handled[i][2])
      BY <3>1 DEF HasHandled, Holds
    <3>3. Dialled(handled[i][2])
      BY <3>1, <3>2 DEF EventsInv, EventsBehind
    <3> QED
      BY <1>4, <1>6, <3>1, <3>2, <3>3
  <2>3. ASSUME NEW i \in 1..Len(handled'), NEW j \in 1..Len(handled'), i < j
        PROVE  handled'[i][2] <= handled'[j][2] /\ handled'[i][1] # handled'[j][1]
    <3>1. CASE j = Len(handled) + 1
      <4>1. i \in 1..Len(handled)
        BY <2>1, <2>3, <3>1
      <4> QED
        BY <2>1, <2>2, <3>1, <4>1
    <3>2. CASE j # Len(handled) + 1
      <4>1. i \in 1..Len(handled) /\ j \in 1..Len(handled)
        BY <2>1, <2>3, <3>2
      <4> QED
        BY <2>1, <2>3, <4>1 DEF EventsInv, EventsInOrder
    <3> QED
      BY <3>1, <3>2
  <2>4. \A j \in Links : reader'[j] = "handle" => dispatching' = j
    BY DEF ReaderKnown, KnowsEnd
  <2> QED
    BY <2>3, <2>4 DEF EventsInOrder
<1> QED
  BY <1>9, <1>10, <1>11 DEF EventsInv

LEMMA ReaderKeepsEvents ==
    ASSUME TypeOK, LinksInv, EventsInv, NEW k \in Links, Reader(k)
    PROVE  EventsInv'
<1> USE DEF serverVars, UnchangedByReader
<1>1. ReaderKnown'
  BY ReaderKeepsLinks DEF LinksInv
<1>2. \A j \in Links : Dialled(j) => Dialled(j)'
  <2>1. UNCHANGED clientEnd \/ Closes(k)
    BY DEF Reader, ReadsResponse, ReadsEvent, Dispatches, HandlerReturns, ReadFails,
       ReaderRetires, ReaderCloses, ReaderFails
  <2> QED
    BY <2>1 DEF Closes, Dialled, TypeOK, ServerTypeOK
<1>3. /\ reader \in [Links -> Readers] /\ down[k] \in Seq(Requests \cup Broadcasts)
      /\ down \in [Links -> Seq(Requests \cup Broadcasts)]
      /\ \A j \in Links : DistinctIn(down[j], Broadcasts)
      /\ Broadcasts \cap {"off", "read", "handle", "retire", "close", "fail"} = {}
  BY BroadcastsAssumption, ZenonT(60) DEF TypeOK, ServerTypeOK, Readers, EventsInv, EventsOnce
<1>4. CASE ReadsResponse(k)
  <2>1. /\ down[k] # <<>> /\ down' = [down EXCEPT ![k] = Tail(@)]
        /\ UNCHANGED <<reader, handled, writeCh, todo>>
    BY <1>4 DEF ReadsResponse
  <2>2. /\ \A y : Holds(Tail(down[k]), y) => Holds(down[k], y)
        /\ DistinctIn(Tail(down[k]), Broadcasts)
    BY <1>3, <2>1, Taken
  <2>3. \A j \in Links : DistinctIn(down'[j], Broadcasts)
                         /\ \A e : Holds(down'[j], e) => Holds(down[j], e)
    BY <1>3, <2>1, <2>2
  <2> QED
    BY <1>1, <1>2, <2>1, <2>3, EventsRest
<1>5. CASE ReadsEvent(k)
  <2>1. Onward
    BY <1>5 DEF ReadsEvent, Onward, Dialled
  <2> QED
    BY <1>1, <1>5, <2>1, ReadKeepsEvents
<1>6. CASE Dispatches(k) /\ IsCurrent(k)
  BY <1>1, <1>6, DispatchKeepsEvents
<1>7. CASE \/ Dispatches(k) /\ ~IsCurrent(k)
           \/ HandlerReturns(k) \/ ReadFails(k) \/ ReaderRetires(k) \/ ReaderCloses(k)
           \/ ReaderFails(k)
  <2>1. UNCHANGED <<handled, writeCh, todo, down>>
    BY <1>7 DEF Dispatches, HandlerReturns, ReadFails, ReaderRetires, ReaderCloses,
       ReaderFails
  <2>2. \/ reader' = [reader EXCEPT ![k] = "off"] \/ reader' = [reader EXCEPT ![k] = "read"]
        \/ reader' = [reader EXCEPT ![k] = "retire"] \/ reader' = [reader EXCEPT ![k] = "close"]
        \/ reader' = [reader EXCEPT ![k] = "fail"]
    BY <1>7 DEF Dispatches, HandlerReturns, ReadFails, ReaderRetires, ReaderCloses,
       ReaderFails,
       AfterRetire
  <2>3. \A j \in Links, e \in Broadcasts : reader'[j] = e => reader[j] = e
    BY <1>3, <2>2
  <2> QED
    BY <1>1, <1>2, <1>3, <2>1, <2>3, EventsRest
<1> QED
  BY <1>4, <1>5, <1>6, <1>7 DEF Reader

-----------------------------------------------------------------------------
(* The invariant.                                                          *)

LEMMA InitIInv == Init => IInv
<1> SUFFICES ASSUME Init
             PROVE  IInv
  OBVIOUS
<1> USE DEF Init, ServerInit
<1>0. /\ <<>> \in Seq(Requests) /\ <<>> \in Seq(Requests \cup Broadcasts)
      /\ <<>> \in Seq(Broadcasts) /\ <<>> \in Seq(Broadcasts \X Links) /\ Len(<<>>) = 0 /\ QueueSize \in Nat \ {0}
      /\ {0} \in (SUBSET Links) \cup {{0}}
  BY ConcurrentAssumption
<1>1. ServerTypeOK
  BY <1>0 DEF ServerTypeOK
<1>2. kind \in [Callers -> Kinds] /\ budget \in [Events -> Nat]
  BY ScenariosAssumption
<1>3. /\ reader \in [Links -> {"off", "read", "handle", "retire", "close", "fail"} \cup Broadcasts]
      /\ at \in [Callers -> CallSteps] /\ runs \in [Callers -> 0..2]
  BY DEF CallSteps
<1>4. TypeOK
  BY <1>0, <1>1, <1>2, <1>3 DEF TypeOK
<1>5. ServerKnows /\ SentOnce /\ CallKnown
  BY EmptyHolds, EmptyDistinct DEF ServerKnows, SentOnce, CallKnown
<1>6. SentByCall /\ Answered
  BY RequestsAssumption, EmptyHolds DEF SentByCall, Answered
<1>7. RunsCounted
  BY RequestsAssumption DEF RunsCounted, Times
<1>8. LinksKnown
  BY DEF LinksKnown, Dialled
<1>9. FreshLinks
  BY LinksAssumption DEF FreshLinks
<1>10. SentKnown /\ ReaderKnown
  BY DEF SentKnown, KnowsSent, Sent, Retired, ReaderKnown, KnowsEnd
<1>11. PendingKnown
  BY RequestsAssumption DEF PendingKnown, KnowsPending
<1>12. EventsOnce /\ EventsBehind
  BY LinksAssumption, BroadcastsAssumption, EmptyHolds, EmptyDistinct
     DEF EventsOnce, EventsBehind, ComesOnce, Comes, HasHandled
<1>13. EventsInOrder
  BY DEF EventsInOrder
<1> QED
  BY <1>4, <1>5, <1>6, <1>7, <1>8, <1>9, <1>10, <1>11, <1>12, <1>13
     DEF IInv, CallsInv, LinksInv, EventsInv

LEMMA NextKeepsIInv == IInv /\ [Next]_vars => IInv'
<1> SUFFICES ASSUME IInv, [Next]_vars
             PROVE  IInv'
  OBVIOUS
<1>0. TypeOK /\ CallsInv /\ LinksInv /\ EventsInv
  BY DEF IInv
<1>1. ASSUME NEW c \in Callers, CallBegins(c) \/ Call(c)
      PROVE  IInv'
  <2>1. CallsInv'
    BY <1>0, <1>1, WriteKeepsCalls, StepKeepsCalls
  <2> QED
    BY <1>0, <1>1, <2>1, CallKeepsTypes, CallKeepsLinks, CallKeepsEvents DEF IInv
<1>2. ASSUME NEW k \in Links, Reader(k)
      PROVE  IInv'
  BY <1>0, <1>2, ReaderKeepsTypes, ReaderKeepsCalls, ReaderKeepsLinks,
     ReaderKeepsEvents DEF IInv
<1>3. CASE CoreSide
  BY <1>0, <1>3, CoreKeepsTypes, CoreKeepsLinks, CoreKeepsEvents DEF IInv
<1>4. CASE WatchdogConnects
  BY <1>0, <1>4, WatchdogKeepsTypes, WatchdogKeepsCalls, WatchdogKeepsLinks,
     WatchdogKeepsEvents
     DEF IInv
<1>5. CASE UNCHANGED vars
  <2> USE <1>5 DEF vars, linkVars, serverVars, handlerVars, clientVars, callerVars, historyVars
  <2>1. TypeOK'
    BY <1>0 DEF TypeOK, ServerTypeOK
  <2>2. CallsInv'
    BY <1>0 DEF CallsInv, ServerKnows, SentOnce, CallKnown, SentByCall, SentBefore,
       RunsCounted,
       Times, Answered
  <2>3. LinksInv'
    BY <1>0 DEF LinksInv, LinksKnown, Dialled, FreshLinks, SentKnown, KnowsSent,
       ReaderKnown,
       KnowsEnd, PendingKnown, KnowsPending, RegisteredBefore
  <2>4. EventsInv'
    BY <1>0 DEF EventsInv, EventsOnce, ComesOnce, Comes, HasHandled, EventsBehind,
       Dialled,
       EventsInOrder
  <2> QED
    BY <2>1, <2>2, <2>3, <2>4 DEF IInv
<1> QED
  BY <1>1, <1>2, <1>3, <1>4, <1>5 DEF Next, CoreSide

\* The inductive invariant holds whatever happens to the pipe, the core and the timers.
THEOREM InvariantHolds == Spec => []IInv
<1>1. Init => IInv
  BY InitIInv
<1>2. IInv /\ [Next]_vars => IInv'
  BY NextKeepsIInv
<1> QED
  BY <1>1, <1>2, PTL DEF Spec

\* Every variable of both ends keeps its type, and the core's queues their bounds.
THEOREM TypeCorrect == Spec => []TypeOK
<1>1. IInv => TypeOK
  BY DEF IInv
<1> QED
  BY <1>1, InvariantHolds, PTL

\* Events are handled one at a time, none twice and none of an older connection after
\* one of a newer, however readers, writers and reconnections interleave.
THEOREM EventsInOrderHolds == Spec => []EventsInOrder
<1>1. IInv => EventsInOrder
  BY DEF IInv, EventsInv
<1> QED
  BY <1>1, InvariantHolds, PTL

\* disconnectCurrent, of a read loop, a call or a recovery that is late, spares the
\* connection made meanwhile: only one that has failed, or stalled a write, is given up.
THEOREM HealthyIsKeptHolds == Spec => HealthyIsKept
<1> DEFINE Failed == \/ serverEnd[conn] = "closed"
                     \/ \E c \in Callers : at[c] = "stalled" /\ sentOn[c] = conn
<1>1. ASSUME IInv, Next, conn # 0, conn' = 0
      PROVE  Failed
  <2>0. /\ TypeOK /\ LinksInv /\ 0 \notin Links /\ dialled[conn] = generation
        /\ \A k \in Links : Dialled(k) /\ dialled[k] = generation => conn = k
    BY <1>1, LinksAssumption DEF IInv, LinksInv, LinksKnown
  <2>1. ASSUME NEW k \in Links, Reader(k)
        PROVE  Failed
    <3>1. reader[k] = "retire" /\ generation = dialled[k]
      BY <1>1, <2>1 DEF Reader, ReadsResponse, ReadsEvent, Dispatches, HandlerReturns,
         ReadFails,
         ReaderRetires, ReaderCloses, ReaderFails, Retires
    <3>2. Dialled(k) /\ KnowsEnd(k)
      BY <2>0, <3>1 DEF LinksInv, FreshLinks, ReaderKnown
    <3> QED
      BY <2>0, <3>1, <3>2 DEF KnowsEnd
  <2>2. ASSUME NEW c \in Callers, CallBegins(c) \/ Call(c)
        PROVE  Failed
    <3>0. KnowsSent(c) /\ sentOn[c] \in Links \cup {0}
      BY <2>0 DEF LinksInv, SentKnown, TypeOK
    <3>1. CASE CallRetires(c)
      <4>1. at[c] \in {"retire", "stalled"} /\ generation = sentIn[c]
        BY <1>1, <3>1 DEF CallRetires, Retires
      <4>2. sentOn[c] # 0 /\ Dialled(sentOn[c]) /\ sentIn[c] = dialled[sentOn[c]]
        BY <3>0, <4>1 DEF KnowsSent, Sent
      <4>3. conn = sentOn[c]
        BY <2>0, <3>0, <4>1, <4>2
      <4> QED
        BY <3>0, <4>1, <4>3 DEF KnowsSent
    <3>2. CASE CallRecovers(c)
      BY <1>1, <3>0, <3>2 DEF CallRecovers, Retires, KnowsSent
    <3>3. ASSUME NEW ok \in BOOLEAN, CallEnsures(c, ok) \/ CallConnects(c, ok)
          PROVE  FALSE
      <4>1. Connects(ok)
        BY <3>3 DEF CallEnsures, CallConnects
      <4> QED
        BY <1>1, <2>0, <4>1, ConnectsHere DEF NotDialled
    <3> QED
      BY <1>1, <2>2, <3>1, <3>2, <3>3 DEF Call, CallBegins, CallSends, CallRegisters,
         CallWrites,
         CallCloses, CallFails, CallReturns
  <2>3. CASE CoreSide
    BY <1>1, <2>0, <2>3, CoreSpares DEF clientVars
  <2>4. CASE WatchdogConnects
    BY <1>1, <2>4 DEF WatchdogConnects
  <2> QED
    BY <1>1, <2>1, <2>2, <2>3, <2>4 DEF Next, CoreSide
<1>2. IInv /\ [Next]_vars => [conn # 0 /\ conn' = 0 => Failed]_vars
  BY <1>1
<1> QED
  BY <1>2, InvariantHolds, PTL DEF Spec, HealthyIsKept

-----------------------------------------------------------------------------
(* The refinement.                                                         *)

\* A handler runs a request of a call that has begun, and that the kind of the call
\* still allows to run.
LEMMA HandlerExecutes ==
    ASSUME TypeOK, CallsInv, NEW r \in Requests, HandlerStep(r)
    PROVE  r[1] \in Callers /\ Abstract!IsExecuted(r[1])
<1>1. PICK c \in Callers, n \in {1, 2} : r = <<c, n>>
  BY RequestsAssumption
<1>2. /\ handler[r] = "running" /\ runs' = [runs EXCEPT ![c] = @ + 1] /\ UNCHANGED <<status, kind>>
  BY <1>1 DEF HandlerStep, Handles, UnchangedByServer
<1>3. /\ attempt[c] \in {1, 2} /\ runs[c] \in 0..2
      /\ status[c] = "idle" <=> at[c] = "idle"
      /\ attempt[c] = 2 => kind[c] = "read" /\ at[c] \notin {"idle", "ensure"}
      /\ runs[c] <= Times(<<c, 1>>) + Times(<<c, 2>>)
  BY DEF TypeOK, CallsInv, CallKnown, RunsCounted
<1>4. SentBefore(c, n)
  BY <1>1, <1>2 DEF CallsInv, SentByCall
<1>5. status[c] # "idle"
  BY <1>3, <1>4 DEF SentBefore, Unsent
<1>6. Times(<<c, 1>>) \in {0, 1} /\ Times(<<c, 2>>) \in {0, 1} /\ Times(<<c, n>>) = 0
  BY <1>1, <1>2 DEF Times
<1>7. CASE kind[c] = "read"
  <2>1. runs[c] < 2
    BY <1>3, <1>6
  <2> QED
    BY <1>1, <1>2, <1>5, <1>7, <2>1 DEF Abstract!IsExecuted, Abstract!MostRuns
<1>8. CASE kind[c] # "read"
  <2>1. n = 1
    BY <1>3, <1>4, <1>8 DEF SentBefore
  <2>2. handler[<<c, 2>>] = "none"
    BY <1>3, <1>8 DEF CallsInv, SentByCall, SentBefore
  <2>3. Times(<<c, 2>>) = 0
    BY <2>2 DEF Times
  <2>4. runs[c] < 1
    BY <1>3, <1>6, <2>1, <2>3
  <2> QED
    BY <1>1, <1>2, <1>5, <1>8, <2>4 DEF Abstract!IsExecuted, Abstract!MostRuns
<1> QED
  BY <1>7, <1>8

\* A call begins, succeeds after its request has run, fails, or goes on.
LEMMA CallImplements ==
    ASSUME TypeOK, CallsInv, NEW c \in Callers, CallBegins(c) \/ Call(c)
    PROVE  \/ Abstract!Begins(c) \/ Abstract!Succeeds(c) \/ Abstract!Fails(c)
           \/ UNCHANGED <<status, kind, runs>>
<1> USE DEF UnchangedByCall, Moves, AttemptFails, Finishes
<1>1. /\ status[c] = "idle" <=> at[c] = "idle"
      /\ status[c] = "open" <=> at[c] \notin {"idle", "done"}
  BY DEF CallsInv, CallKnown
<1>2. UNCHANGED <<kind, runs>>
  BY DEF CallBegins, Call, CallEnsures, CallSends, CallRegisters, CallWrites,
     CallRetires,
     CallCloses, CallFails, CallReturns, CallRecovers, CallConnects
<1>3. ASSUME at[c] \notin {"idle", "done"}, status' = [status EXCEPT ![c] = "failed"]
      PROVE  Abstract!Fails(c)
  BY <1>1, <1>2, <1>3 DEF Abstract!Fails
<1>4. CASE CallBegins(c)
  BY <1>1, <1>2, <1>4 DEF CallBegins, Abstract!Begins
<1>5. CASE CallSends(c) \/ CallFails(c)
  BY <1>2, <1>3, <1>5 DEF CallSends, CallFails
<1>6. CASE CallReturns(c)
  <2>1. CASE result[Request(c)] = "response" /\ Finishes(c, "ok")
    <3>1. Request(c) \in Requests /\ Request(c)[1] = c
      BY RequestsAssumption DEF Request, TypeOK
    <3>2. runs[c] > 0
      BY <2>1, <3>1 DEF CallsInv, Answered
    <3> QED
      BY <1>1, <1>2, <1>6, <2>1, <3>2 DEF CallReturns, Abstract!Succeeds
  <2> QED
    BY <1>2, <1>3, <1>6, <2>1 DEF CallReturns
<1>7. ASSUME NEW ok \in BOOLEAN, CallEnsures(c, ok) \/ CallConnects(c, ok)
      PROVE  Abstract!Fails(c) \/ UNCHANGED <<status, kind, runs>>
  BY <1>2, <1>3, <1>7 DEF CallEnsures, CallConnects
<1>8. CASE CallRegisters(c) \/ CallWrites(c) \/ CallRetires(c) \/ CallCloses(c) \/ CallRecovers(c)
  BY <1>2, <1>8 DEF CallRegisters, CallWrites, CallRetires, CallCloses, CallRecovers
<1> QED
  BY <1>4, <1>5, <1>6, <1>7, <1>8 DEF Call

\* sendRequestWithTimeout over the pipe does what Calls promises: a write is executed at
\* most once and a read at most twice, whatever connections, cores and timers do, and a
\* call that succeeds has been executed.
THEOREM Implements == Spec => RefinesCalls
<1>1. Init => Abstract!CallsInit
  BY ScenariosAssumption DEF Init, Abstract!CallsInit, Kinds, Abstract!Kinds
<1>2. ASSUME IInv, Next
      PROVE  Abstract!CallsNext \/ UNCHANGED <<status, kind, runs>>
  <2>0. TypeOK /\ CallsInv
    BY <1>2 DEF IInv
  <2>1. ASSUME NEW c \in Callers, CallBegins(c) \/ Call(c)
        PROVE  Abstract!CallsNext \/ UNCHANGED <<status, kind, runs>>
    BY <2>0, <2>1, CallImplements DEF Abstract!CallsNext
  <2>2. ASSUME NEW k \in Links, Reader(k)
        PROVE  UNCHANGED <<status, kind, runs>>
    BY <2>2 DEF Reader, ReadsResponse, ReadsEvent, Dispatches, HandlerReturns,
       ReadFails,
       ReaderRetires, ReaderCloses, ReaderFails, UnchangedByReader
  <2>3. ASSUME NEW r \in Requests, HandlerStep(r)
        PROVE  Abstract!CallsNext
    BY <2>0, <2>3, HandlerExecutes DEF Abstract!CallsNext
  <2>4. CASE WatchdogConnects
    BY <2>4 DEF WatchdogConnects, historyVars
  <2>5. CASE \/ ServerStep \/ CoreStops \/ CoreDies
             \/ \E k \in Links : ServerStalls(k)
             \/ \E e \in Broadcasts : BroadcastStep(e)
    BY <2>5 DEF ServerStep, CoreStops, CoreDies, ServerStalls, BroadcastStep,
       UnchangedByServer
  <2> QED
    BY <1>2, <2>1, <2>2, <2>3, <2>4, <2>5 DEF Next
<1>3. IInv /\ [Next]_vars => [Abstract!CallsNext]_(Abstract!callVars)
  <2>1. UNCHANGED vars => UNCHANGED <<status, kind, runs>>
    BY DEF vars, historyVars
  <2> QED
    BY <1>2, <2>1 DEF Abstract!callVars
<1> QED
  BY <1>1, <1>3, InvariantHolds, PTL DEF Spec, RefinesCalls, Abstract!CallsSpec

=============================================================================
