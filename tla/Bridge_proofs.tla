---------------------------- MODULE Bridge_proofs ----------------------------
(***************************************************************************)
(* Proofs about Bridge, for any number of callers, helper processes and    *)
(* faults: the types, no helper process that lives on unreachable but one   *)
(* that another has been published over, and every answer used is the      *)
(* answer to the command that was sent.                                    *)
(***************************************************************************)
EXTENDS Bridge, TLAPS

-----------------------------------------------------------------------------
(* The inductive invariant.                                                *)

\* The start goroutine has a process from the spawn to its end of the
\* handshake or of the publication, and only then.
StarterHasProc == starter.proc # NoProc <=> starter.pc \in {"handshake", "publish"}

\* A caller waits with m.mutex held exactly when it is the mutex's holder.
Waits(c) == call[c].pc \in {"reading", "exiting", "reap"}
MutexHeld == \A c \in Callers : Waits(c) <=> mu = c

\* The command a caller waits for an answer to.
SentBy(c) == <<c, call[c].bit, IF At(c, "reading") THEN "Read" ELSE "Exit">>

\* Nothing is under way on the pipes of p.
Silent(p) == helper[p].in = <<>> /\ helper[p].out = <<>>

\* On the pipes of p is the command of a caller that waits, or its answer.
Carries(p, c) ==
  /\ p = cmd /\ (At(c, "reading") \/ At(c, "exiting"))
  /\ \/ helper[p].in = <<SentBy(c)>> /\ helper[p].out = <<>>
     \/ helper[p].in = <<>> /\ helper[p].out = <<SentBy(c)>>

Pipes == \A p \in Procs : Silent(p) \/ \E c \in Callers : Carries(p, c)

\* While a caller waits for an answer there is a helper to answer.
HelperKnown ==
  \A c \in Callers : At(c, "reading") \/ At(c, "exiting") => cmd # NoProc

\* A command and its answer, from the lock to the use of what was read.
Exchange == MutexHeld /\ HelperKnown /\ Pipes /\ AnswerMatches

IInv == TypeOK /\ Exchange /\ StarterHasProc /\ NoOrphan

-----------------------------------------------------------------------------
(* Types.                                                                  *)

Labels == {"idle", "ensure", "begin", "wait", "check", "send", "reading",
           "trip", "record", "stop", "exiting", "reap", "done"}
SomeProc == Procs \cup {NoProc}
SomeAnswer == {NoAnswer} \cup Command
CallTypes == [Callers -> [pc : Labels, bit : {0, 1}, proc : SomeProc, got : SomeAnswer]]
HelperTypes == [Procs -> [life : {"alive", "dead", "gone"},
                          in : Seq(Command), out : Seq(Command), lost : BOOLEAN]]

\* The types of the callers and of the helpers, in the names above.
LEMMA CallType == ASSUME TypeOK PROVE call \in CallTypes
BY DEF TypeOK, CallTypes, SomeProc, SomeAnswer, Labels

LEMMA HelperType == ASSUME TypeOK PROVE helper \in HelperTypes
BY DEF TypeOK, HelperTypes

\* A caller's record after an update of three of its fields.
LEMMA UpdatedCall ==
    ASSUME NEW f \in CallTypes, NEW c \in Callers, NEW label \in Labels,
           NEW p \in SomeProc, NEW answer \in SomeAnswer
    PROVE  [f EXCEPT ![c].pc = label, ![c].proc = p, ![c].got = answer] \in CallTypes
BY ZenonT(60) DEF CallTypes, SomeProc, SomeAnswer

\* A caller that goes on, and perhaps starts the recovery, has a type.
LEMMA GoesType ==
    ASSUME TypeOK, NEW c \in Callers, NEW label \in Labels
    PROVE  /\ Goes(c, label) \in CallTypes
           /\ [Goes(c, label) EXCEPT ![Recovery].pc = "stop"] \in CallTypes
<1>1. call \in CallTypes
  BY CallType
<1>2. Goes(c, label) \in CallTypes
  BY <1>1, ZenonT(60) DEF Goes, CallTypes, SomeProc, SomeAnswer
<1>3. Recovery \in Callers /\ "stop" \in Labels
  BY DEF Callers, Labels
<1>4. ASSUME NEW f \in CallTypes
      PROVE  [f EXCEPT ![Recovery].pc = "stop"] \in CallTypes
  BY <1>3 DEF CallTypes, SomeProc, SomeAnswer
<1> QED
  BY <1>2, <1>4

\* The count of failures and the flag, in the form the steps below use.
LEMMA CountersType ==
    ASSUME TypeOK
    PROVE  failed \in {0, 1} /\ recent \in BOOLEAN
BY DEF TypeOK, RestartThreshold

\* What a read answers to the monitor has a type.
LEMMA ReadEndsType ==
    ASSUME TypeOK, NEW c \in Callers, NEW result, ReadEnds(c, result)
    PROVE  call' \in CallTypes /\ failed' \in {0, 1} /\ recent' \in BOOLEAN
<1>1. "done" \in Labels /\ "idle" \in Labels
  BY DEF Labels
<1>2. failed \in {0, 1} /\ recent \in BOOLEAN
  BY CountersType
<1>3. Goes(c, "done") \in CallTypes /\ Goes(c, "idle") \in CallTypes
        /\ [Goes(c, "idle") EXCEPT ![Recovery].pc = "stop"] \in CallTypes
  BY <1>1, GoesType
<1>4. call' \in CallTypes
  BY <1>3 DEF ReadEnds
<1>5. failed' = failed \/ failed' = 0 \/ failed' = RestartThreshold - 1
  BY DEF ReadEnds
<1>6. recent' = recent \/ recent' = TRUE
  BY DEF ReadEnds
<1>7. failed' \in {0, 1}
  BY <1>2, <1>5 DEF RestartThreshold
<1>8. recent' \in BOOLEAN
  BY <1>2, <1>6
<1> QED
  BY <1>4, <1>7, <1>8

\* A helper that is given up is one of the states of a helper.
LEMMA KilledType ==
    ASSUME TypeOK, NEW p
    PROVE  Killed(p) \in HelperTypes
<1>1. <<>> \in Seq(Command)
  OBVIOUS
<1> QED
  BY <1>1 DEF TypeOK, Killed, NoHelper, HelperTypes

\* So is one that is lost.
LEMMA LostType ==
    ASSUME TypeOK, NEW p
    PROVE  Lost(p) \in HelperTypes
BY HelperType DEF Lost, HelperTypes

\* A command that is written is one of the sequences of commands.
LEMMA AsksType ==
    ASSUME TypeOK, NEW c \in Callers, NEW sort \in {"Read", "Exit"},
           NEW label \in Labels, Asks(c, sort, label)
    PROVE  call' \in CallTypes /\ helper' \in HelperTypes
<1>1. 1 - call[c].bit \in {0, 1}
  BY SMTT(60) DEF TypeOK
<1>2. <<c, 1 - call[c].bit, sort>> \in Command
  BY <1>1 DEF Command
<1>3. call' \in CallTypes
  <2>1. call \in CallTypes
    BY CallType
  <2>2. ASSUME NEW b \in {0, 1}
        PROVE  [call EXCEPT ![c].pc = label, ![c].bit = b, ![c].got = NoAnswer] \in CallTypes
    BY <2>1, ZenonT(60) DEF CallTypes, SomeProc, SomeAnswer
  <2> QED
    BY <1>1, <2>2 DEF Asks
<1>4. helper' \in HelperTypes
  <2>1. helper \in HelperTypes
    BY HelperType
  <2>2. cmd \in Procs => helper[cmd].in \in Seq(Command)
    BY <2>1 DEF HelperTypes
  <2>3. ASSUME NEW command \in Command, cmd \in Procs
        PROVE  /\ Append(helper[cmd].in, command) \in Seq(Command)
               /\ <<>> \in Seq(Command)
    BY <2>2, <2>3
  <2>4. ASSUME NEW s \in Seq(Command), NEW t \in Seq(Command)
        PROVE  [helper EXCEPT ![cmd].out = t, ![cmd].in = s] \in HelperTypes
    BY <2>1 DEF HelperTypes
  <2> QED
    BY <1>2, <2>1, <2>3, <2>4 DEF Asks, HelperTypes
<1> QED
  BY <1>3, <1>4

\* A fault counts up to its bound, or nothing is counted.
LEMMA FaultsType ==
    ASSUME TypeOK, Faulty \/ faults' = faults
    PROVE  faults' \in 0..MaxFaults
BY FaultAssumption DEF TypeOK, Faulty

\* The reads of callers, up to the command, keep the types.
LEMMA ReadsKeepTypes ==
    ASSUME TypeOK, NEW c \in Callers,
           ReadBegins(c) \/ RequestBegins(c) \/ Healthy(c) \/ BeginStartAsync(c)
             \/ WaitTimesOut(c) \/ Trips(c) \/ Records(c)
    PROVE  TypeOK'
<1> USE DEF Labels
<1>1. CASE ReadBegins(c)
  <2>1. call' \in CallTypes /\ failed' \in {0, 1} /\ recent' \in BOOLEAN
    BY <1>1, ReadEndsType, GoesType, CountersType DEF ReadBegins
  <2> QED
    BY <1>1, <2>1 DEF ReadBegins, TypeOK, RestartThreshold, CallTypes, SomeProc,
       SomeAnswer
<1>2. CASE RequestBegins(c)
  <2>1. call' \in CallTypes
    BY <1>2, GoesType DEF RequestBegins
  <2> QED
    BY <1>2, <2>1 DEF RequestBegins, TypeOK, CallTypes, SomeProc, SomeAnswer
<1>3. CASE Healthy(c)
  <2>1. call' \in CallTypes
    BY <1>3, GoesType DEF Healthy
  <2>2. helper' \in HelperTypes
    BY <1>3, KilledType DEF Healthy, TypeOK, HelperTypes
  <2> QED
    BY <1>3, <2>1, <2>2 DEF Healthy, TypeOK, CallTypes, SomeProc, SomeAnswer,
       HelperTypes, States
<1>4. CASE BeginStartAsync(c)
  <2>1. call' \in CallTypes /\ failed' \in {0, 1} /\ recent' \in BOOLEAN
    BY <1>4, ReadEndsType, GoesType, CountersType DEF BeginStartAsync
  <2>2. /\ starting' \in BOOLEAN /\ starting' <=> starter'.pc # "none"
        /\ starter' \in [pc : {"none", "spawn", "handshake", "fail", "publish", "end"},
                        proc : Procs \cup {NoProc}]
    <3>1. CASE starting
      BY <1>4, <3>1 DEF BeginStartAsync, TypeOK
    <3>2. CASE ~starting
      BY <1>4, <3>2 DEF BeginStartAsync
    <3> QED
      BY <3>1, <3>2
  <2>3. state' \in States
    BY <1>4 DEF BeginStartAsync, MarksStarting, TypeOK, States
  <2> QED
    BY <1>4, <2>1, <2>2, <2>3 DEF BeginStartAsync, TypeOK, RestartThreshold, CallTypes,
       SomeProc, SomeAnswer
<1>5. CASE WaitTimesOut(c)
  <2>1. call' \in CallTypes
    BY <1>5, GoesType DEF WaitTimesOut
  <2> QED
    BY <1>5, <2>1, FaultsType DEF WaitTimesOut, TypeOK, CallTypes, SomeProc, SomeAnswer
<1>6. CASE Trips(c)
  <2>1. call' \in CallTypes /\ failed' \in {0, 1} /\ recent' \in BOOLEAN
    BY <1>6, ReadEndsType DEF Trips
  <2> QED
    BY <1>6, <2>1 DEF Trips, TypeOK, RestartThreshold, CallTypes, SomeProc, SomeAnswer
<1>7. CASE Records(c)
  <2>1. call' \in CallTypes /\ failed' \in {0, 1} /\ recent' \in BOOLEAN
    BY <1>7, ReadEndsType, GoesType, CountersType DEF Records
  <2>2. cooling' \in BOOLEAN
    BY <1>7 DEF Records, TypeOK
  <2> QED
    BY <1>7, <2>1, <2>2, FaultsType DEF Records, TypeOK, RestartThreshold, CallTypes,
       SomeProc, SomeAnswer
<1> QED
  BY <1>1, <1>2, <1>3, <1>4, <1>5, <1>6, <1>7

\* The commands and the stops keep the types: an answer is read from a
\* helper there is.
LEMMA CommandsKeepTypes ==
    ASSUME TypeOK, HelperKnown, NEW c \in Callers,
           SendCommand(c) \/ ReadsAnswer(c) \/ CommandFails(c) \/ StopBegins(c)
             \/ ExitAnswered(c) \/ ExitFails(c) \/ Reaps(c)
    PROVE  TypeOK'
<1> USE DEF Labels
<1>0. ASSUME At(c, "reading") \/ At(c, "exiting")
      PROVE  cmd \in Procs /\ helper[cmd].out \in Seq(Command)
  BY <1>0 DEF HelperKnown, TypeOK
<1>1. CASE SendCommand(c)
  <2>1. call' \in CallTypes /\ helper' \in HelperTypes
    BY <1>1, GoesType, KilledType, AsksType, CallType, HelperType DEF SendCommand,
       FailBridge
  <2>2. state' \in States /\ cmd' \in Procs \cup {NoProc} /\ mu' \in Callers \cup {Nobody}
    BY <1>1 DEF SendCommand, FailBridge, TypeOK, States
  <2>3. UNCHANGED <<wish, startMu, starting, starter, cooling, recent, failed, faults>>
    BY <1>1 DEF SendCommand
  <2> QED
    BY <2>1, <2>2, <2>3 DEF TypeOK, CallTypes, SomeProc, SomeAnswer, HelperTypes
<1>2. CASE ReadsAnswer(c)
  <2>1. /\ cmd \in Procs /\ Head(helper[cmd].out) \in Command
        /\ Tail(helper[cmd].out) \in Seq(Command)
    BY <1>0, <1>2 DEF ReadsAnswer
  <2>2. helper' \in HelperTypes
    <3>1. ASSUME NEW s \in Seq(Command)
          PROVE  [helper EXCEPT ![cmd].out = s] \in HelperTypes
      BY HelperType DEF HelperTypes
    <3> QED
      BY <1>2, <2>1, <3>1 DEF ReadsAnswer
  <2>3. call' \in CallTypes
    <3>1. ASSUME NEW answer \in Command
          PROVE  [call EXCEPT ![c].pc = "record", ![c].got = answer] \in CallTypes
      BY CallType, ZenonT(60) DEF CallTypes, SomeProc, SomeAnswer
    <3> QED
      BY <1>2, <2>1, <3>1 DEF ReadsAnswer
  <2> QED
    BY <1>2, <2>2, <2>3 DEF ReadsAnswer, TypeOK, CallTypes, SomeProc, SomeAnswer,
       HelperTypes, States
<1>3. CASE CommandFails(c)
  <2>1. call' \in CallTypes /\ helper' \in HelperTypes
    BY <1>3, GoesType, KilledType DEF CommandFails, FailBridge
  <2>2. faults' \in 0..MaxFaults
    BY <1>3, FaultsType DEF CommandFails
  <2> QED
    BY <1>3, <2>1, <2>2 DEF CommandFails, FailBridge, TypeOK, CallTypes, SomeProc,
       SomeAnswer, HelperTypes, States
<1>4. CASE StopBegins(c)
  <2>1. AfterStop(c) \in Labels
    BY DEF AfterStop
  <2>2. call' \in CallTypes /\ helper' \in HelperTypes
    BY <1>4, <2>1, GoesType, KilledType, AsksType, HelperType DEF StopBegins
  <2> QED
    BY <1>4, <2>2, ZenonT(60) DEF StopBegins, TypeOK, CallTypes, SomeProc, SomeAnswer, HelperTypes,
       States
<1>5. CASE ExitAnswered(c)
  <2>1. cmd \in Procs /\ Head(helper[cmd].out) \in Command /\ <<>> \in Seq(Command)
    BY <1>0, <1>5 DEF ExitAnswered
  <2>2. helper' \in HelperTypes
    BY <1>5, <2>1, HelperType DEF ExitAnswered, HelperTypes
  <2>3. call' \in CallTypes
    <3>1. call' = [call EXCEPT ![c].pc = "reap", ![c].proc = cmd,
                               ![c].got = Head(helper[cmd].out)]
      BY <1>5 DEF ExitAnswered
    <3>2. "reap" \in Labels /\ cmd \in SomeProc /\ Head(helper[cmd].out) \in SomeAnswer
      BY <2>1 DEF SomeProc, SomeAnswer
    <3> HIDE DEF Labels
    <3> QED
      BY <3>1, <3>2, CallType, UpdatedCall
  <2> QED
    BY <1>5, <2>2, <2>3 DEF ExitAnswered, TypeOK, CallTypes, SomeProc, SomeAnswer,
       HelperTypes, States
<1>6. ASSUME Finishes(c)
      PROVE  /\ call' \in CallTypes /\ state' \in States
             /\ mu' \in Callers \cup {Nobody} /\ startMu' \in Callers \cup {Nobody}
  <2>1. AfterStop(c) \in Labels
    BY DEF AfterStop
  <2>2. call' \in CallTypes
    <3>1. call' = [call EXCEPT ![c].pc = AfterStop(c), ![c].proc = NoProc,
                               ![c].got = NoAnswer]
      BY <1>6 DEF Finishes
    <3>2. NoProc \in SomeProc /\ NoAnswer \in SomeAnswer
      BY DEF SomeProc, SomeAnswer
    <3> HIDE DEF Labels
    <3> QED
      BY <2>1, <3>1, <3>2, CallType, UpdatedCall
  <2> QED
    BY <1>6, <2>2 DEF Finishes, States
<1>7. CASE ExitFails(c) \/ Reaps(c)
  <2>1. helper' \in HelperTypes
    BY <1>7, KilledType DEF ExitFails, Reaps
  <2>2. faults' \in 0..MaxFaults
    BY <1>7, FaultsType DEF ExitFails, Reaps
  <2> QED
    BY <1>6, <1>7, <2>1, <2>2, SMTT(60) DEF ExitFails, Reaps, TypeOK, CallTypes, SomeProc,
       SomeAnswer, HelperTypes
<1> QED
  BY <1>1, <1>2, <1>3, <1>4, <1>5, <1>7

\* The start goroutine takes a process that is free.
LEMMA FreeProcess ==
    ASSUME Spawns
    PROVE  \E p \in Procs :
             /\ helper[p].life = "gone"
             /\ helper' = [helper EXCEPT ![p] = NewHelper]
             /\ starter' = [pc |-> "handshake", proc |-> p]
<1> DEFINE p == CHOOSE q \in Procs : helper[q].life = "gone"
<1>1. p \in Procs /\ helper[p].life = "gone"
  BY DEF Spawns
<1> QED
  BY <1>1 DEF Spawns

\* The start goroutine keeps the types.
LEMMA StarterKeepsTypes ==
    ASSUME TypeOK, StarterStep
    PROVE  TypeOK'
<1> USE DEF StarterKeeps, StarterAt, StarterGoes
<1>1. CASE Spawns
  <2>1. PICK p \in Procs :
          /\ helper' = [helper EXCEPT ![p] = NewHelper]
          /\ starter' = [pc |-> "handshake", proc |-> p]
    BY <1>1, FreeProcess
  <2>2. <<>> \in Seq(Command)
    OBVIOUS
  <2>3. helper' \in HelperTypes
    BY <2>1, <2>2 DEF NewHelper, TypeOK, HelperTypes
  <2> QED
    BY <1>1, <2>1, <2>3, SMTT(60) DEF Spawns, TypeOK, HelperTypes
<1>2. CASE SpawnFails \/ HandshakeDone
  <2>1. faults' \in 0..MaxFaults
    BY <1>2, FaultsType DEF SpawnFails, HandshakeDone
  <2> QED
    BY <1>2, <2>1 DEF SpawnFails, HandshakeDone, TypeOK
<1>3. CASE HandshakeFails
  <2>1. helper' \in HelperTypes /\ faults' \in 0..MaxFaults
    BY <1>3, KilledType, FaultsType DEF HandshakeFails
  <2> QED
    BY <1>3, <2>1 DEF HandshakeFails, TypeOK, HelperTypes
<1>4. CASE SetFailed
  BY <1>4 DEF SetFailed, TypeOK, States
<1>5. CASE PublishesHelper
  <2>1. helper' \in HelperTypes
    BY <1>5, KilledType, LostType DEF PublishesHelper
  <2> QED
    BY <1>5, <2>1 DEF PublishesHelper, TypeOK, HelperTypes, States
<1>6. CASE StarterEnds
  <2>1. call' \in CallTypes
    <3>1. ASSUME NEW c \in Callers
          PROVE  [call[c] EXCEPT !.pc = "check"] \in [pc : Labels, bit : {0, 1},
                   proc : SomeProc, got : SomeAnswer]
      BY CallType DEF CallTypes, SomeProc, SomeAnswer, Labels
    <3> QED
      BY <1>6, <3>1, CallType DEF StarterEnds, Wakes, CallTypes, SomeProc, SomeAnswer
  <2> QED
    BY <1>6, <2>1 DEF StarterEnds, TypeOK, CallTypes, SomeProc, SomeAnswer, Labels
<1> QED
  BY <1>1, <1>2, <1>3, <1>4, <1>5, <1>6 DEF StarterStep

\* The timers keep the types.
LEMMA TimersKeepTypes ==
    ASSUME TypeOK, CooldownEnds \/ RecoveryIsPast \/ UpdateIsStale
    PROVE  TypeOK'
<1>1. CASE CooldownEnds
  BY <1>1 DEF CooldownEnds, TypeOK
<1>2. CASE RecoveryIsPast
  BY <1>2, FaultsType, ZenonT(60) DEF RecoveryIsPast, TypeOK
<1>3. CASE UpdateIsStale
  <2>1. Recovery \in Callers /\ "stop" \in Labels
    BY DEF Callers, Labels
  <2>2. call' \in CallTypes
    BY <1>3, <2>1, GoesType DEF UpdateIsStale
  <2> QED
    BY <1>3, <2>2, FaultsType DEF UpdateIsStale, TypeOK, CallTypes, SomeProc,
       SomeAnswer, Labels
<1> QED
  BY <1>1, <1>2, <1>3

\* The helper process keeps the types.
LEMMA HelpersKeepTypes ==
    ASSUME TypeOK, NEW p \in Procs, HelperAnswers(p) \/ HelperDies(p) \/ LostEnds(p)
    PROVE  TypeOK'
<1> USE DEF HelperKeeps
<1>1. CASE HelperAnswers(p)
  <2>1. helper[p].in \in Seq(Command) /\ helper[p].out \in Seq(Command)
    BY DEF TypeOK
  <2>2. Head(helper[p].in) \in Command /\ Tail(helper[p].in) \in Seq(Command)
    BY <1>1, <2>1 DEF HelperAnswers
  <2>3. Append(helper[p].out, Head(helper[p].in)) \in Seq(Command)
    BY <2>1, <2>2
  <2>4. helper' \in HelperTypes
    <3>1. ASSUME NEW s \in Seq(Command), NEW t \in Seq(Command),
                 NEW l \in {"alive", "dead", "gone"}
          PROVE  [helper EXCEPT ![p].in = s, ![p].out = t, ![p].life = l] \in HelperTypes
      BY HelperType, ZenonT(60) DEF HelperTypes
    <3>2. PICK l \in {"alive", "dead", "gone"} :
            helper' = [helper EXCEPT ![p].in = Tail(helper[p].in),
                         ![p].out = Append(helper[p].out, Head(helper[p].in)), ![p].life = l]
      BY <1>1, HelperType DEF HelperAnswers, HelperTypes
    <3> QED
      BY <2>2, <2>3, <3>1, <3>2
  <2> QED
    BY <1>1, <2>4, ZenonT(60) DEF HelperAnswers, TypeOK, HelperTypes
<1>2. CASE HelperDies(p)
  <2>1. <<>> \in Seq(Command)
    OBVIOUS
  <2>2. helper' \in HelperTypes
    BY <1>2, <2>1, HelperType, ZenonT(60) DEF HelperDies, HelperTypes
  <2> QED
    BY <1>2, <2>2, FaultsType, SMTT(60) DEF HelperDies, TypeOK, HelperTypes
<1>3. CASE LostEnds(p)
  <2>1. helper' \in HelperTypes
    BY <1>3, KilledType DEF LostEnds
  <2> QED
    BY <1>3, <2>1 DEF LostEnds, TypeOK, HelperTypes
<1> QED
  BY <1>1, <1>2, <1>3, SMTT(60)

-----------------------------------------------------------------------------
(* The exchange.  Most steps are quiet: who waits for an answer, and who   *)
(* uses one, stays as it is, and nobody begins to.                         *)

Quiet == \A d \in Callers :
           \/ call'[d] = call[d]
           \/ ~Waits(d) /\ ~Waits(d)' /\ call'[d].pc # "record"

\* What Goes does to the caller that goes on and to the others.
LEMMA GoesOne ==
    ASSUME TypeOK, NEW c \in Callers, NEW label
    PROVE  /\ Goes(c, label)[c].pc = label
           /\ \A d \in Callers \ {c} : Goes(c, label)[d] = call[d]
           /\ DOMAIN Goes(c, label) = Callers
BY CallType DEF CallTypes, Goes

\* A caller that neither waits nor is to wait goes on quietly.
LEMMA GoesQuietly ==
    ASSUME TypeOK, NEW c \in Callers, ~Waits(c),
           NEW label \in Labels \ {"reading", "exiting", "reap", "record"},
           call' = Goes(c, label)
    PROVE  Quiet
BY GoesOne DEF Quiet, Waits

\* So does the end of a read, which may start the recovery.
LEMMA ReadEndsQuietly ==
    ASSUME TypeOK, NEW c \in Callers, ~Waits(c), NEW result, ReadEnds(c, result)
    PROVE  Quiet
<1>1. "done" \in Labels /\ "idle" \in Labels
  BY DEF Labels
<1>2. CASE call' = Goes(c, "done") \/ call' = Goes(c, "idle")
  BY <1>1, <1>2, GoesQuietly
<1>3. CASE /\ At(Recovery, "idle")
           /\ call' = [Goes(c, "idle") EXCEPT ![Recovery].pc = "stop"]
  <2>1. call'[Recovery].pc = "stop"
    BY <1>3, GoesOne DEF Callers
  <2>2. \A d \in Callers \ {Recovery} : call'[d] = Goes(c, "idle")[d]
    BY <1>3, GoesOne
  <2>3. Goes(c, "idle")[c].pc = "idle" /\ \A d \in Callers \ {c} : Goes(c, "idle")[d] = call[d]
    BY GoesOne
  <2> QED
    BY <1>3, <2>1, <2>2, <2>3 DEF Quiet, Waits, At
<1> QED
  BY <1>2, <1>3 DEF ReadEnds

\* While the mutex is free nothing is under way on any pipe.
LEMMA FreeIsSilent ==
    ASSUME MutexHeld, Pipes, MuFree
    PROVE  /\ \A c \in Callers : ~Waits(c)
           /\ \A p \in Procs : Silent(p)
BY NobodyAssumption DEF MutexHeld, Pipes, Carries, MuFree, Waits, At, Callers

\* A quiet step that changes no pipe but to empty it, and the manager's
\* helper only while the mutex is free, leaves the exchange as it should be.
LEMMA QuietKeepsExchange ==
    ASSUME TypeOK, Exchange, Quiet, mu' = mu, cmd' = cmd \/ MuFree,
           \A p \in Procs : helper'[p] = helper[p] \/ Silent(p)'
    PROVE  Exchange'
<1>1. MutexHeld'
  BY DEF Exchange, MutexHeld, Quiet, Waits
<1>2. HelperKnown'
  <2>1. CASE cmd' = cmd
    BY <2>1 DEF Exchange, HelperKnown, Quiet, Waits, At
  <2>2. CASE MuFree
    BY <2>2, FreeIsSilent DEF Exchange, HelperKnown, Quiet, Waits, At
  <2> QED
    BY <2>1, <2>2
<1>3. Pipes'
  <2>1. SUFFICES ASSUME NEW p \in Procs, ~Silent(p)'
                 PROVE  \E c \in Callers : Carries(p, c)'
    BY DEF Pipes
  <2>2. helper'[p] = helper[p] /\ ~Silent(p)
    BY <2>1 DEF Silent
  <2>3. PICK c \in Callers : Carries(p, c)
    BY <2>2 DEF Exchange, Pipes
  <2>4. cmd' = cmd
    BY <2>2, FreeIsSilent DEF Exchange
  <2>5. call'[c] = call[c]
    BY <2>3 DEF Carries, Quiet, Waits, At
  <2> QED
    BY <2>2, <2>3, <2>4, <2>5 DEF Carries, At, SentBy
<1>4. AnswerMatches'
  BY DEF Exchange, AnswerMatches, Quiet, Waits, At
<1> QED
  BY <1>1, <1>2, <1>3, <1>4 DEF Exchange

\* A helper that is given up has empty pipes, the others are as they were.
LEMMA KilledIsSilent ==
    ASSUME TypeOK, NEW q, helper' = Killed(q)
    PROVE  \A p \in Procs : /\ p = q => Silent(p)' /\ ~Alive(p)'
                            /\ p # q => helper'[p] = helper[p]
<1> SUFFICES ASSUME NEW p \in Procs
             PROVE  /\ p = q => Silent(p)' /\ ~Alive(p)'
                    /\ p # q => helper'[p] = helper[p]
  OBVIOUS
<1>1. helper \in HelperTypes
  BY HelperType
<1>2. CASE q = NoProc
  BY <1>2, ProcAssumption DEF Killed
<1>3. CASE q # NoProc
  <2>1. helper' = [helper EXCEPT ![q] = NoHelper]
    BY <1>3 DEF Killed
  <2>2. p = q => helper'[p] = NoHelper
    BY <1>1, <2>1 DEF HelperTypes
  <2>3. p # q => helper'[p] = helper[p]
    BY <1>1, <2>1 DEF HelperTypes
  <2> QED
    BY <2>2, <2>3 DEF NoHelper, Silent, Alive
<1> QED
  BY <1>2, <1>3

\* In the form the quiet steps need.
LEMMA KilledOrKept ==
    ASSUME TypeOK, NEW q, helper' = helper \/ helper' = Killed(q)
    PROVE  \A p \in Procs : helper'[p] = helper[p] \/ Silent(p)'
<1>1. CASE helper' = helper
  BY <1>1
<1>2. CASE helper' = Killed(q)
  BY <1>2, KilledIsSilent
<1> QED
  BY <1>1, <1>2

\* These steps of the callers are quiet.
LEMMA CallersAreQuiet ==
    ASSUME TypeOK, NEW c \in Callers,
           ReadBegins(c) \/ RequestBegins(c) \/ Healthy(c) \/ BeginStartAsync(c)
             \/ WaitTimesOut(c) \/ Trips(c) \/ Records(c)
    PROVE  Quiet
<1>1. CASE ReadBegins(c)
  <2>1. ~Waits(c)
    BY <1>1 DEF ReadBegins, Waits, At
  <2> QED
    BY <1>1, <2>1, ReadEndsQuietly, GoesQuietly DEF ReadBegins, Labels
<1>2. CASE RequestBegins(c)
  <2>1. ~Waits(c)
    BY <1>2 DEF RequestBegins, Waits, At
  <2> QED
    BY <1>2, <2>1, GoesQuietly DEF RequestBegins, Labels
<1>3. CASE Healthy(c)
  <2>1. ~Waits(c)
    BY <1>3 DEF Healthy, Waits
  <2> QED
    BY <1>3, <2>1, GoesQuietly DEF Healthy, Labels
<1>4. CASE BeginStartAsync(c)
  <2>1. ~Waits(c)
    BY <1>4 DEF BeginStartAsync, Waits, At
  <2> QED
    BY <1>4, <2>1, ReadEndsQuietly, GoesQuietly DEF BeginStartAsync, Labels
<1>5. CASE WaitTimesOut(c)
  <2>1. ~Waits(c)
    BY <1>5 DEF WaitTimesOut, Waits, At
  <2> QED
    BY <1>5, <2>1, GoesQuietly DEF WaitTimesOut, Labels
<1>6. CASE Trips(c)
  <2>1. ~Waits(c)
    BY <1>6 DEF Trips, Waits, At
  <2> QED
    BY <1>6, <2>1, ReadEndsQuietly DEF Trips
<1>7. CASE Records(c)
  <2>1. ~Waits(c)
    BY <1>7 DEF Records, Waits, At
  <2> QED
    BY <1>7, <2>1, ReadEndsQuietly, GoesQuietly DEF Records, Labels
<1> QED
  BY <1>1, <1>2, <1>3, <1>4, <1>5, <1>6, <1>7

LEMMA CallersKeepExchange ==
    ASSUME TypeOK, Exchange, NEW c \in Callers,
           ReadBegins(c) \/ RequestBegins(c) \/ Healthy(c) \/ BeginStartAsync(c)
             \/ WaitTimesOut(c) \/ Trips(c) \/ Records(c)
    PROVE  Exchange'
<1>1. Quiet
  BY CallersAreQuiet
<1>2. CASE Healthy(c)
  <2>1. helper' = helper \/ helper' = Killed(cmd)
    BY <1>2 DEF Healthy
  <2> QED
    BY <1>1, <1>2, <2>1, KilledOrKept, QuietKeepsExchange DEF Healthy
<1>3. CASE ~Healthy(c)
  BY <1>1, <1>3, QuietKeepsExchange DEF ReadBegins, RequestBegins, BeginStartAsync,
     WaitTimesOut, Trips, Records
<1> QED
  BY <1>2, <1>3

\* The start goroutine, the timers and a helper that dies, or that is lost and ends.
LEMMA OthersKeepExchange ==
    ASSUME TypeOK, Exchange,
           StarterStep \/ CooldownEnds \/ RecoveryIsPast \/ UpdateIsStale
             \/ \E p \in Procs : HelperDies(p) \/ LostEnds(p)
    PROVE  Exchange'
<1> USE DEF StarterKeeps
<1>0. ASSUME call' = call
      PROVE  Quiet
  BY <1>0 DEF Quiet
<1>1. CASE Spawns
  <2>1. \A p \in Procs : helper'[p] = helper[p] \/ Silent(p)'
    BY <1>1, FreeProcess, HelperType DEF HelperTypes, NewHelper, Silent
  <2> QED
    BY <1>0, <1>1, <2>1, QuietKeepsExchange DEF Spawns
<1>2. CASE SpawnFails \/ HandshakeDone \/ SetFailed
  BY <1>0, <1>2, QuietKeepsExchange DEF SpawnFails, HandshakeDone, SetFailed
<1>3. CASE HandshakeFails
  <2>1. \A p \in Procs : helper'[p] = helper[p] \/ Silent(p)'
    <3>1. helper' = helper \/ helper' = Killed(starter.proc)
      BY <1>3 DEF HandshakeFails
    <3> QED
      BY <3>1, KilledOrKept
  <2> QED
    BY <1>0, <1>3, <2>1, QuietKeepsExchange DEF HandshakeFails
<1>4. CASE PublishesHelper
  <2>1. \A p \in Procs : helper'[p] = helper[p] \/ Silent(p)'
    <3>1. helper' = Lost(cmd) \/ helper' = Killed(starter.proc)
      BY <1>4 DEF PublishesHelper
    <3>2. ASSUME helper' = Lost(cmd) PROVE \A p \in Procs : Silent(p)'
      <4>1. \A p \in Procs : Silent(p)
        BY <1>4, FreeIsSilent DEF PublishesHelper, Exchange
      <4> QED
        BY <3>2, <4>1, HelperType DEF Lost, Silent, HelperTypes
    <3> QED
      BY <3>1, <3>2, KilledOrKept
  <2> QED
    BY <1>0, <1>4, <2>1, QuietKeepsExchange DEF PublishesHelper
<1>5. CASE StarterEnds
  <2>1. Quiet
    BY <1>5, CallType DEF StarterEnds, Wakes, Quiet, Waits, At, CallTypes
  <2> QED
    BY <1>5, <2>1, QuietKeepsExchange DEF StarterEnds
<1>6. CASE CooldownEnds \/ RecoveryIsPast
  BY <1>0, <1>6, QuietKeepsExchange DEF CooldownEnds, RecoveryIsPast
<1>7. CASE UpdateIsStale
  <2>1. Recovery \in Callers /\ ~Waits(Recovery)
    BY <1>7 DEF UpdateIsStale, Callers, Waits, At
  <2>2. Quiet
    BY <1>7, <2>1, GoesQuietly DEF UpdateIsStale, Labels
  <2> QED
    BY <1>7, <2>2, QuietKeepsExchange DEF UpdateIsStale
<1>8. ASSUME NEW p \in Procs, HelperDies(p)
      PROVE  Exchange'
  <2>1. \A q \in Procs \ {p} : helper'[q] = helper[q]
    BY <1>8, HelperType DEF HelperDies, HelperTypes
  <2>2. helper'[p].in = <<>> /\ helper'[p].out = helper[p].out
    BY <1>8, HelperType DEF HelperDies, HelperTypes
  <2>3. /\ mu' = mu /\ cmd' = cmd /\ call' = call
    BY <1>8 DEF HelperDies, HelperKeeps
  <2>4. \A c : Carries(p, c) => Carries(p, c)' \/ Silent(p)'
    BY <2>2, <2>3 DEF Carries, Silent, At, SentBy
  <2>5. Pipes'
    BY <2>1, <2>2, <2>3, <2>4 DEF Exchange, Pipes, Carries, Silent, At, SentBy
  <2> QED
    BY <2>3, <2>5 DEF Exchange, MutexHeld, HelperKnown, AnswerMatches, Waits, At
<1>9. ASSUME NEW p \in Procs, LostEnds(p)
      PROVE  Exchange'
  <2>1. \A q \in Procs : helper'[q] = helper[q] \/ Silent(q)'
    BY <1>9, KilledOrKept DEF LostEnds
  <2>2. /\ mu' = mu /\ cmd' = cmd /\ call' = call
    BY <1>9 DEF LostEnds, HelperKeeps
  <2> QED
    BY <1>0, <2>1, <2>2, QuietKeepsExchange
<1> QED
  BY <1>1, <1>2, <1>3, <1>4, <1>5, <1>6, <1>7, <1>8, <1>9 DEF StarterStep

\* A sequence of one command.
LEMMA OneCommand ==
    ASSUME NEW S, NEW e \in S
    PROVE  /\ Append(<<>>, e) = <<e>> /\ <<e>> # <<>>
           /\ Head(<<e>>) = e /\ Tail(<<e>>) = <<>>
OBVIOUS

\* A command that is sent while the mutex is free is alone on the pipes.
LEMMA AsksKeepsExchange ==
    ASSUME TypeOK, Exchange, MuFree, NEW c \in Callers, NEW sort, NEW label,
           \/ label = "reading" /\ sort = "Read"
           \/ label = "exiting" /\ sort = "Exit",
           Asks(c, sort, label), mu' = c, cmd' = cmd, cmd \in Procs
    PROVE  Exchange'
<1> DEFINE sent == <<c, 1 - call[c].bit, sort>>
<1>1. \A d \in Callers : ~Waits(d)
  BY FreeIsSilent DEF Exchange
<1>2. \A p \in Procs : Silent(p)
  BY FreeIsSilent DEF Exchange
<1>3. \A d \in Callers \ {c} : call'[d] = call[d]
  BY CallType DEF Asks, CallTypes
<1>4. call'[c].pc = label /\ call'[c].bit = 1 - call[c].bit
  BY CallType DEF Asks, CallTypes
<1>5. \A p \in Procs \ {cmd} : helper'[p] = helper[p]
  BY HelperType DEF Asks, HelperTypes
<1>6. helper'[cmd].in = <<sent>> /\ helper'[cmd].out = <<>>
  <2>1. helper'[cmd].in = Append(helper[cmd].in, sent) /\ helper'[cmd].out = <<>>
    BY HelperType DEF Asks, HelperTypes
  <2>2. helper[cmd].in = <<>>
    BY <1>2 DEF Silent
  <2> QED
    BY <2>1, <2>2, OneCommand
<1>7. MutexHeld'
  BY <1>1, <1>3, <1>4 DEF MutexHeld, Waits
<1>8. HelperKnown'
  BY ProcAssumption DEF HelperKnown
<1>9. Pipes'
  <2>1. SentBy(c)' = sent
    BY <1>4 DEF SentBy, At
  <2>2. Carries(cmd, c)'
    BY <1>4, <1>6, <2>1 DEF Carries, At
  <2> QED
    BY <1>2, <1>5, <2>2 DEF Pipes, Silent
<1>10. AnswerMatches'
  BY <1>3, <1>4 DEF Exchange, AnswerMatches, At
<1> QED
  BY <1>7, <1>8, <1>9, <1>10 DEF Exchange

\* The caller that waits for an answer is the only one that waits, and the
\* answer it gets is the one to its command.
LEMMA AnswerRead ==
    ASSUME TypeOK, Exchange, NEW c \in Callers, At(c, "reading") \/ At(c, "exiting")
    PROVE  /\ cmd \in Procs /\ mu = c
           /\ \A d \in Callers \ {c} : ~Waits(d)
           /\ \A p \in Procs \ {cmd} : Silent(p)
           /\ Silent(cmd) \/ Carries(cmd, c)
<1>1. cmd \in Procs
  BY DEF Exchange, HelperKnown, TypeOK
<1>2. mu = c /\ \A d \in Callers \ {c} : ~Waits(d)
  BY DEF Exchange, MutexHeld, Waits, At
<1>3. \A p \in Procs : Silent(p) \/ Carries(p, c)
  BY <1>2 DEF Exchange, Pipes, Carries, Waits, At
<1> QED
  BY <1>1, <1>2, <1>3 DEF Carries

\* When nobody waits any more the pipes are silent.
LEMMA NobodyWaits ==
    ASSUME \A d \in Callers : ~Waits(d)', mu' = Nobody,
           \A p \in Procs : Silent(p)', AnswerMatches'
    PROVE  Exchange'
<1>1. MutexHeld'
  BY NobodyAssumption DEF MutexHeld, Callers
<1>2. HelperKnown' /\ Pipes'
  BY DEF HelperKnown, Pipes, Waits, At
<1> QED
  BY <1>1, <1>2 DEF Exchange

\* The commands and the stops.
LEMMA CommandsKeepExchange ==
    ASSUME TypeOK, Exchange, NEW c \in Callers,
           SendCommand(c) \/ ReadsAnswer(c) \/ CommandFails(c) \/ StopBegins(c)
             \/ ExitAnswered(c) \/ ExitFails(c) \/ Reaps(c)
    PROVE  Exchange'
<1>1. CASE SendCommand(c)
  <2>1. ~Waits(c)
    BY <1>1 DEF SendCommand, Waits, At
  <2>2. CASE call' = Goes(c, "trip") /\ mu' = mu
    <3>1. Quiet
      BY <2>1, <2>2, GoesQuietly DEF Labels
    <3>2. helper' = helper \/ helper' = Killed(cmd)
      BY <1>1, <2>2, NobodyAssumption DEF SendCommand, FailBridge, MuFree, Callers
    <3> QED
      BY <1>1, <2>2, <3>1, <3>2, KilledOrKept, QuietKeepsExchange DEF SendCommand
  <2>3. CASE /\ cmd # NoProc /\ Asks(c, "Read", "reading") /\ mu' = c
             /\ cmd' = cmd
    <3>1. cmd \in Procs /\ MuFree
      BY <1>1, <2>3 DEF TypeOK, SendCommand
    <3> QED
      BY <2>3, <3>1, AsksKeepsExchange
  <2> QED
    BY <1>1, <2>2, <2>3 DEF SendCommand, FailBridge
<1>2. CASE ReadsAnswer(c)
  <2>1. At(c, "reading") /\ cmd \in Procs
    BY <1>2, AnswerRead DEF ReadsAnswer
  <2>2. /\ helper[cmd].in = <<>> /\ helper[cmd].out = <<SentBy(c)>>
    BY <1>2, <2>1, AnswerRead DEF ReadsAnswer, Silent, Carries
  <2>3. SentBy(c) = <<c, call[c].bit, "Read">>
    BY <2>1 DEF SentBy
  <2>4. /\ call'[c].pc = "record" /\ call'[c].bit = call[c].bit
        /\ call'[c].got = <<c, call[c].bit, "Read">>
    BY <1>2, <2>2, <2>3, CallType, OneCommand DEF ReadsAnswer, CallTypes
  <2>5. \A d \in Callers \ {c} : call'[d] = call[d] /\ ~Waits(d)
    BY <1>2, <2>1, CallType, AnswerRead DEF ReadsAnswer, CallTypes
  <2>6. \A p \in Procs : Silent(p)'
    <3>1. Tail(helper[cmd].out) = <<>>
      BY <2>2, OneCommand
    <3>2. helper'[cmd].in = <<>> /\ helper'[cmd].out = <<>>
      BY <1>2, <2>1, <2>2, <3>1, HelperType DEF ReadsAnswer, HelperTypes
    <3>3. \A p \in Procs \ {cmd} : helper'[p] = helper[p] /\ Silent(p)
      BY <1>2, <2>1, AnswerRead, HelperType DEF ReadsAnswer, HelperTypes
    <3> QED
      BY <3>2, <3>3 DEF Silent
  <2>7. \A d \in Callers : ~Waits(d)'
    BY <2>4, <2>5 DEF Waits
  <2>8. AnswerMatches'
    BY <2>4, <2>5 DEF Exchange, AnswerMatches, At
  <2> QED
    BY <1>2, <2>6, <2>7, <2>8, NobodyWaits DEF ReadsAnswer
<1>3. ASSUME At(c, "reading") \/ At(c, "exiting") \/ At(c, "reap"),
             NEW q, helper' = Killed(q), q = cmd \/ At(c, "reap"), mu' = Nobody,
             \A d \in Callers \ {c} : call'[d] = call[d],
             call'[c].pc \in {"trip", "ensure", "done"}
      PROVE  Exchange'
  <2>1. \A d \in Callers \ {c} : ~Waits(d)
    BY <1>3 DEF Exchange, MutexHeld, Waits, At
  <2>2. \A d \in Callers : ~Waits(d)' /\ (d # c => call'[d] = call[d])
    BY <1>3, <2>1 DEF Waits
  <2>3. \A p \in Procs : Silent(p)'
    <3>1. \A p \in Procs : p = q \/ Silent(p)
      BY <1>3, <2>1 DEF Exchange, Pipes, Carries, Waits, At
    <3>2. \A p \in Procs : Silent(p)' \/ (p # q /\ helper'[p] = helper[p])
      BY <1>3, KilledIsSilent
    <3> QED
      BY <3>1, <3>2 DEF Silent
  <2>4. AnswerMatches'
    BY <1>3, <2>2 DEF Exchange, AnswerMatches, At
  <2> QED
    BY <1>3, <2>2, <2>3, <2>4, NobodyWaits
<1>4. CASE CommandFails(c)
  <2>1. call'[c].pc = "trip" /\ \A d \in Callers \ {c} : call'[d] = call[d]
    BY <1>4, GoesOne DEF CommandFails
  <2> QED
    BY <1>3, <1>4, <2>1 DEF CommandFails, FailBridge
<1>5. CASE StopBegins(c)
  <2>1. ~Waits(c)
    BY <1>5 DEF StopBegins, Waits, At
  <2>2. CASE call' = Goes(c, AfterStop(c)) /\ mu' = mu
    <3>1. Quiet
      BY <2>1, <2>2, GoesQuietly DEF Labels, AfterStop
    <3>2. (helper' = helper \/ helper' = Killed(cmd)) /\ MuFree
      BY <1>5, <2>2, NobodyAssumption DEF StopBegins, MuFree, Callers
    <3> QED
      BY <2>2, <3>1, <3>2, KilledOrKept, QuietKeepsExchange
  <2>3. CASE /\ cmd # NoProc /\ Asks(c, "Exit", "exiting") /\ mu' = c
             /\ cmd' = cmd
    <3>1. cmd \in Procs /\ MuFree
      BY <1>5, <2>3 DEF TypeOK, StopBegins
    <3> QED
      BY <2>3, <3>1, AsksKeepsExchange
  <2> QED
    BY <1>5, <2>2, <2>3 DEF StopBegins
<1>6. CASE ExitAnswered(c)
  <2>1. At(c, "exiting") /\ cmd \in Procs /\ mu = c
    BY <1>6, AnswerRead DEF ExitAnswered
  <2>2. /\ helper[cmd].in = <<>> /\ helper[cmd].out = <<SentBy(c)>>
    BY <1>6, <2>1, AnswerRead DEF ExitAnswered, Silent, Carries
  <2>3. SentBy(c) = <<c, call[c].bit, "Exit">>
    BY <2>1 DEF SentBy, At
  <2>4. /\ call'[c].pc = "reap" /\ call'[c].bit = call[c].bit
        /\ call'[c].got = <<c, call[c].bit, "Exit">>
    BY <1>6, <2>2, <2>3, CallType, OneCommand DEF ExitAnswered, CallTypes
  <2>5. \A d \in Callers \ {c} : call'[d] = call[d] /\ ~Waits(d)
    BY <1>6, <2>1, CallType, AnswerRead DEF ExitAnswered, CallTypes
  <2>6. \A p \in Procs : Silent(p)'
    <3>1. helper'[cmd].in = <<>> /\ helper'[cmd].out = <<>>
      BY <1>6, <2>1, <2>2, HelperType DEF ExitAnswered, HelperTypes
    <3>2. \A p \in Procs \ {cmd} : helper'[p] = helper[p] /\ Silent(p)
      BY <1>6, <2>1, AnswerRead, HelperType DEF ExitAnswered, HelperTypes
    <3> QED
      BY <3>1, <3>2 DEF Silent
  <2>7. MutexHeld'
    BY <1>6, <2>1, <2>4, <2>5 DEF ExitAnswered, MutexHeld, Waits
  <2>8. HelperKnown' /\ Pipes'
    BY <2>4, <2>5, <2>6 DEF HelperKnown, Pipes, Waits, At
  <2>9. AnswerMatches'
    BY <2>4, <2>5 DEF Exchange, AnswerMatches, At
  <2> QED
    BY <2>7, <2>8, <2>9 DEF Exchange
<1>7. ASSUME Finishes(c)
      PROVE  /\ mu' = Nobody /\ call'[c].pc \in {"ensure", "done"}
             /\ \A d \in Callers \ {c} : call'[d] = call[d]
  BY <1>7, CallType DEF Finishes, AfterStop, CallTypes
<1>8. CASE ExitFails(c)
  BY <1>3, <1>7, <1>8 DEF ExitFails
<1>9. CASE Reaps(c)
  BY <1>3, <1>7, <1>9 DEF Reaps
<1> QED
  BY <1>1, <1>2, <1>4, <1>5, <1>6, <1>8, <1>9

\* The helper answers the command it was sent.
LEMMA AnswersKeepExchange ==
    ASSUME TypeOK, Exchange, NEW p \in Procs, HelperAnswers(p)
    PROVE  Exchange'
<1>1. /\ mu' = mu /\ cmd' = cmd /\ call' = call
  BY DEF HelperAnswers, HelperKeeps
<1>2. \A q \in Procs \ {p} : helper'[q] = helper[q]
  BY HelperType DEF HelperAnswers, HelperTypes
<1>3. PICK c \in Callers :
        /\ p = cmd /\ (At(c, "reading") \/ At(c, "exiting"))
        /\ helper[p].in = <<SentBy(c)>> /\ helper[p].out = <<>>
  BY DEF HelperAnswers, Exchange, Pipes, Silent, Carries
<1>4. helper'[p].in = <<>> /\ helper'[p].out = <<SentBy(c)>>
  <2>1. /\ helper'[p].in = Tail(helper[p].in)
        /\ helper'[p].out = Append(helper[p].out, Head(helper[p].in))
    BY HelperType DEF HelperAnswers, HelperTypes
  <2> QED
    BY <1>3, <2>1, OneCommand
<1>5. Carries(p, c)'
  BY <1>1, <1>3, <1>4 DEF Carries, At, SentBy
<1>6. Pipes'
  BY <1>1, <1>2, <1>5 DEF Exchange, Pipes, Silent, Carries, At, SentBy
<1> QED
  BY <1>1, <1>6 DEF Exchange, MutexHeld, HelperKnown, AnswerMatches, Waits, At

-----------------------------------------------------------------------------
(* The helpers.                                                            *)

\* The start goroutine has its process from the spawn on.
LEMMA NextKeepsStarter ==
    ASSUME TypeOK, StarterHasProc, [Next]_vars
    PROVE  StarterHasProc'
<1> USE ProcAssumption DEF StarterHasProc
<1>1. CASE starter' = starter
  BY <1>1
<1>2. CASE StarterStep
  <2>1. CASE Spawns
    BY <2>1, FreeProcess
  <2>2. CASE ~Spawns
    BY <1>2, <2>2 DEF StarterStep, SpawnFails, HandshakeDone, HandshakeFails, SetFailed,
       PublishesHelper, StarterEnds, StarterAt, StarterGoes, TypeOK
  <2> QED
    BY <2>1, <2>2
<1>3. ASSUME NEW c \in Callers, BeginStartAsync(c)
      PROVE  StarterHasProc'
  BY <1>1, <1>3 DEF BeginStartAsync
<1>4. ASSUME NEW c \in Callers, CallerStep(c), ~BeginStartAsync(c)
      PROVE  starter' = starter
  BY <1>4 DEF CallerStep, ReadBegins, RequestBegins, Healthy, WaitTimesOut, SendCommand,
     ReadsAnswer, CommandFails, Trips, Records, StopBegins, ExitAnswered, ExitFails, Reaps
<1>5. CASE CooldownEnds \/ RecoveryIsPast \/ UpdateIsStale \/ UNCHANGED vars
  BY <1>1, <1>5 DEF CooldownEnds, RecoveryIsPast, UpdateIsStale, vars
<1>6. ASSUME NEW p \in Procs, HelperAnswers(p) \/ HelperDies(p) \/ LostEnds(p)
      PROVE  starter' = starter
  BY <1>6 DEF HelperAnswers, HelperDies, LostEnds, HelperKeeps
<1> QED
  BY <1>1, <1>2, <1>3, <1>4, <1>5, <1>6 DEF Next

\* A helper that lives, and that no other has been published over.
Ours(p) == Alive(p) /\ ~helper[p].lost

\* A helper that is kept lives on only if it lived; one that is given up
\* does not.
LEMMA KilledIsDead ==
    ASSUME TypeOK, NEW q, helper' = helper \/ helper' = Killed(q)
    PROVE  \A p \in Procs : /\ Ours(p)' => Ours(p)
                            /\ helper' = Killed(q) /\ p = q => ~Ours(p)'
<1>1. CASE helper' = helper /\ helper' # Killed(q)
  BY <1>1 DEF Alive, Ours
<1>2. CASE helper' = Killed(q)
  BY <1>2, KilledIsSilent DEF Alive, Ours
<1> QED
  BY <1>1, <1>2

\* What keeps every helper that lives in reach: no helper begins to be ours,
\* the manager and the start goroutine let go only of one that has ended or
\* pass it on, and a stop goes on waiting for its own.
LEMMA InReach ==
    ASSUME NoOrphan,
           \A p \in Procs : Ours(p)' => Ours(p),
           \A p \in Procs : p = cmd => cmd' = p \/ ~Ours(p)',
           \A p \in Procs : p = starter.proc =>
             starter'.proc = p \/ cmd' = p \/ ~Ours(p)',
           \A d \in Callers : At(d, "reap") => call'[d] = call[d]
    PROVE  NoOrphan'
BY DEF NoOrphan, Ours, At

\* A command that is written leaves the lives of the helpers alone.
LEMMA AsksKeepsLife ==
    ASSUME TypeOK, NEW c, NEW sort, NEW label, Asks(c, sort, label)
    PROVE  \A p \in Procs : /\ helper'[p].life = helper[p].life
                            /\ helper'[p].lost = helper[p].lost
<1> TAKE p \in Procs
<1>1. CASE cmd = p
  <2>1. helper'[p].life = helper[p].life /\ helper'[p].lost = helper[p].lost
    BY <1>1, HelperType DEF Asks, HelperTypes
  <2> QED
    BY <2>1
<1>2. CASE cmd # p
  BY <1>2, HelperType DEF Asks, HelperTypes
<1> QED
  BY <1>1, <1>2

\* The callers' steps.
LEMMA CallersKeepReach ==
    ASSUME TypeOK, Exchange, StarterHasProc, NoOrphan, NEW c \in Callers, CallerStep(c)
    PROVE  NoOrphan'
<1>1. CASE \/ ReadBegins(c) \/ RequestBegins(c) \/ Healthy(c) \/ BeginStartAsync(c)
           \/ WaitTimesOut(c) \/ Trips(c) \/ Records(c)
  <2>1. \A d \in Callers : At(d, "reap") => call'[d] = call[d]
    BY <1>1, CallersAreQuiet DEF Quiet, Waits, At
  <2>2. CASE Healthy(c)
    <3>1. (helper' = helper /\ cmd' = cmd) \/ (helper' = Killed(cmd) /\ cmd' = NoProc)
      BY <2>2 DEF Healthy
    <3>2. starter' = starter
      BY <2>2 DEF Healthy
    <3> QED
      BY <2>1, <3>1, <3>2, KilledIsDead, InReach
  <2>3. CASE ~Healthy(c)
    <3>1. helper' = helper /\ cmd' = cmd
      BY <1>1, <2>3 DEF ReadBegins, RequestBegins, BeginStartAsync, WaitTimesOut,
         Trips, Records
    <3>2. starter' = starter \/ starter.proc = NoProc
      BY <1>1, <2>3 DEF ReadBegins, RequestBegins, BeginStartAsync, WaitTimesOut, Trips,
         Records, StarterHasProc, TypeOK
    <3> QED
      BY <2>1, <3>1, <3>2, ProcAssumption, InReach DEF Alive, Ours
  <2> QED
    BY <2>2, <2>3
<1>2. CASE SendCommand(c) \/ CommandFails(c) \/ StopBegins(c) \/ ReadsAnswer(c)
  <2>1. \A d \in Callers \ {c} : call'[d] = call[d]
    BY <1>2, GoesOne, CallType DEF SendCommand, CommandFails, StopBegins, ReadsAnswer,
       Asks,
       CallTypes
  <2>2. ~At(c, "reap")
    BY <1>2 DEF SendCommand, CommandFails, StopBegins, ReadsAnswer, At
  <2>3. starter' = starter
    BY <1>2 DEF SendCommand, CommandFails, StopBegins, ReadsAnswer
  <2>4. CASE helper' = Killed(cmd) /\ cmd' = NoProc
    BY <2>1, <2>2, <2>3, <2>4, KilledIsDead, InReach
  <2>5. CASE /\ cmd' = cmd
             /\ \/ helper' = helper \/ Asks(c, "Read", "reading") \/ Asks(c, "Exit", "exiting")
                \/ helper' = [helper EXCEPT ![cmd].out = Tail(@)]
    <3>1. \A p \in Procs : Ours(p)' => Ours(p)
      <4>1. CASE helper' = helper
        BY <4>1 DEF Alive, Ours
      <4>2. CASE Asks(c, "Read", "reading") \/ Asks(c, "Exit", "exiting")
        BY <4>2, AsksKeepsLife DEF Alive, Ours
      <4>3. CASE helper' = [helper EXCEPT ![cmd].out = Tail(@)]
        BY <4>3, HelperType DEF HelperTypes, Alive, Ours
      <4> QED
        BY <2>5, <4>1, <4>2, <4>3
    <3> QED
      BY <2>1, <2>2, <2>3, <2>5, <3>1, InReach
  <2> QED
    BY <1>2, <2>4, <2>5, SMTT(60) DEF SendCommand, CommandFails, StopBegins, ReadsAnswer,
       FailBridge
<1>3. CASE ExitAnswered(c)
  <2>1. \A d \in Callers \ {c} : call'[d] = call[d]
    BY <1>3, CallType DEF ExitAnswered, CallTypes
  <2>2. call'[c].pc = "reap" /\ call'[c].proc = cmd /\ ~At(c, "reap")
    BY <1>3, CallType DEF ExitAnswered, CallTypes, At
  <2>3. \A p \in Procs : Ours(p)' => Ours(p)
    BY <1>3, HelperType DEF ExitAnswered, HelperTypes, Alive, Ours
  <2>4. starter' = starter
    BY <1>3 DEF ExitAnswered
  <2> QED
    BY <2>1, <2>2, <2>3, <2>4 DEF NoOrphan, Ours, At
<1>4. CASE ExitFails(c)
  <2>1. \A d \in Callers \ {c} : call'[d] = call[d]
    BY <1>4, CallType DEF ExitFails, Finishes, CallTypes
  <2>2. ~At(c, "reap")
    BY <1>4 DEF ExitFails, At
  <2> QED
    BY <1>4, <2>1, <2>2, KilledIsDead, InReach DEF ExitFails
<1>5. CASE Reaps(c)
  <2>1. \A d \in Callers \ {c} : call'[d] = call[d]
    BY <1>5, CallType DEF Reaps, Finishes, CallTypes
  <2>2. \A p \in Procs : Ours(p)' => Ours(p) /\ p # call[c].proc
    BY <1>5, KilledIsDead DEF Reaps
  <2>3. starter' = starter /\ cmd' = cmd
    BY <1>5 DEF Reaps
  <2> QED
    BY <2>1, <2>2, <2>3 DEF NoOrphan, Ours, At
<1> QED
  BY <1>1, <1>2, <1>3, <1>4, <1>5 DEF CallerStep

\* The start goroutine's steps: a new helper is its own until it is handed
\* to the manager or given up.
LEMMA StarterKeepsReach ==
    ASSUME TypeOK, StarterHasProc, NoOrphan, StarterStep
    PROVE  NoOrphan'
<1> USE DEF StarterAt, StarterGoes
<1>1. CASE Spawns
  <2>1. PICK p \in Procs : /\ helper' = [helper EXCEPT ![p] = NewHelper]
                           /\ starter' = [pc |-> "handshake", proc |-> p]
    BY <1>1, FreeProcess
  <2>2. \A q \in Procs \ {p} : helper'[q] = helper[q]
    BY <2>1
  <2>3. starter.proc = NoProc /\ cmd' = cmd /\ call' = call
    BY <1>1 DEF Spawns, StarterHasProc
  <2>4. starter'.proc = p
    BY <2>1
  <2> QED
    BY <2>2, <2>3, <2>4, ProcAssumption DEF NoOrphan, Alive, Ours, At
<1>2. CASE SpawnFails \/ HandshakeDone \/ SetFailed \/ StarterEnds
  <2>1. \A d \in Callers : At(d, "reap") => call'[d] = call[d]
    BY <1>2, CallType DEF SpawnFails, HandshakeDone, SetFailed, StarterEnds, Wakes, At,
       CallTypes
  <2>2. starter'.proc = starter.proc /\ cmd' = cmd /\ helper' = helper
    BY <1>2 DEF SpawnFails, HandshakeDone, SetFailed, StarterEnds, TypeOK
  <2> QED
    BY <2>1, <2>2, InReach DEF Alive, Ours
<1>3. CASE HandshakeFails
  BY <1>3, KilledIsDead, InReach DEF HandshakeFails
<1>4. CASE PublishesHelper
  <2>1. CASE helper' = Killed(starter.proc) /\ cmd' = cmd
    BY <1>4, <2>1, KilledIsDead, InReach DEF PublishesHelper
  <2>2. CASE helper' = Lost(cmd) /\ cmd' = starter.proc
    <3>1. \A p \in Procs : (Ours(p)' => Ours(p)) /\ (p = cmd => ~Ours(p)')
      BY <2>2, HelperType, ProcAssumption DEF Lost, Ours, Alive, HelperTypes
    <3> QED
      BY <1>4, <2>2, <3>1, InReach DEF PublishesHelper
  <2> QED
    BY <1>4, <2>1, <2>2 DEF PublishesHelper
<1> QED
  BY <1>1, <1>2, <1>3, <1>4 DEF StarterStep

\* The helpers' own steps, and the timers.
LEMMA OthersKeepReach ==
    ASSUME TypeOK, NoOrphan,
           \/ CooldownEnds \/ RecoveryIsPast \/ UpdateIsStale \/ UNCHANGED vars
           \/ \E p \in Procs : HelperAnswers(p) \/ HelperDies(p) \/ LostEnds(p)
    PROVE  NoOrphan'
<1>1. CASE UpdateIsStale
  <2>1. \A d \in Callers : At(d, "reap") => call'[d] = call[d]
    <3>1. Recovery \in Callers /\ ~At(Recovery, "reap") /\ call' = Goes(Recovery, "stop")
      BY <1>1 DEF UpdateIsStale, At, Callers
    <3>2. \A d \in Callers \ {Recovery} : call'[d] = call[d]
      BY <3>1, GoesOne
    <3> QED
      BY <3>1, <3>2
  <2>2. cmd' = cmd /\ starter' = starter /\ helper' = helper
    BY <1>1 DEF UpdateIsStale
  <2> QED
    BY <2>1, <2>2, InReach DEF Alive, Ours
<1>2. CASE CooldownEnds \/ RecoveryIsPast \/ UNCHANGED vars
  <2>1. cmd' = cmd /\ starter' = starter /\ helper' = helper /\ call' = call
    BY <1>2 DEF CooldownEnds, RecoveryIsPast, vars
  <2> QED
    BY <2>1, InReach DEF Alive, Ours
<1>3. ASSUME NEW p \in Procs, HelperAnswers(p) \/ HelperDies(p)
      PROVE  NoOrphan'
  <2>1. cmd' = cmd /\ starter' = starter /\ call' = call
    BY <1>3, ZenonT(60) DEF HelperAnswers, HelperDies, HelperKeeps
  <2>2. Alive(p) /\ \A q \in Procs \ {p} : helper'[q] = helper[q]
    BY <1>3, HelperType, ZenonT(60) DEF HelperAnswers, HelperDies, HelperTypes
  <2>3. helper'[p].lost = helper[p].lost
    <3>1. helper \in HelperTypes
      BY HelperType
    <3>2. ASSUME NEW i, NEW o, NEW l
          PROVE  [helper EXCEPT ![p].in = i, ![p].out = o, ![p].life = l][p].lost = helper[p].lost
      BY <3>1, ZenonT(60) DEF HelperTypes
    <3>3. CASE HelperAnswers(p)
      <4>1. PICK i, o, l : helper' = [helper EXCEPT ![p].in = i, ![p].out = o, ![p].life = l]
        BY <3>1, <3>3, ZenonT(60) DEF HelperAnswers, HelperTypes
      <4>2. [helper EXCEPT ![p].in = i, ![p].out = o, ![p].life = l][p].lost = helper[p].lost
        BY <3>2
      <4> DEFINE answered == [helper EXCEPT ![p].in = i, ![p].out = o, ![p].life = l]
      <4>3. helper' = answered /\ answered[p].lost = helper[p].lost
        BY <4>1, <4>2
      <4> HIDE DEF answered
      <4> QED
        BY <4>3
    <3>4. CASE HelperDies(p)
      BY <3>1, <3>4, ZenonT(60) DEF HelperDies, HelperTypes
    <3> QED
      BY <1>3, <3>3, <3>4
  <2> QED
    BY <2>1, <2>2, <2>3, InReach, SMTT(60) DEF Alive, Ours
<1>4. ASSUME NEW p \in Procs, LostEnds(p)
      PROVE  NoOrphan'
  BY <1>4, KilledIsDead, InReach DEF LostEnds, HelperKeeps
<1> QED
  BY <1>1, <1>2, <1>3, <1>4

-----------------------------------------------------------------------------
(* The theorems.                                                           *)

\* At the start nothing runs.
LEMMA InitIInv == Init => IInv
<1> SUFFICES ASSUME Init PROVE IInv
  OBVIOUS
<1>1. TypeOK
  <2>1. <<>> \in Seq(Command)
    OBVIOUS
  <2>2. helper \in HelperTypes
    BY <2>1 DEF Init, HelperTypes, NoHelper
  <2> QED
    <3>1. call \in CallTypes
      BY DEF Init, CallTypes, Labels, SomeProc, SomeAnswer
    <3>2. wish \in [Clients -> {"read", "pawnio", "stop"}]
      BY WishAssumption DEF Init
    <3>3. failed \in 0..RestartThreshold - 1 /\ faults \in 0..MaxFaults
      BY FaultAssumption DEF Init, RestartThreshold
    <3> QED
      BY <2>2, <3>1, <3>2, <3>3 DEF Init, TypeOK, HelperTypes, States, CallTypes,
         Labels,
         SomeProc, SomeAnswer
<1>2. Exchange
  BY NobodyAssumption DEF Init, Exchange, MutexHeld, HelperKnown, Pipes, Silent,
     NoHelper,
     AnswerMatches, Waits, At, Callers
<1>3. StarterHasProc /\ NoOrphan
  BY DEF Init, StarterHasProc, NoOrphan, Alive, NoHelper
<1> QED
  BY <1>1, <1>2, <1>3 DEF IInv

\* Every step keeps the invariant.
LEMMA NextKeepsIInv == IInv /\ [Next]_vars => IInv'
<1> SUFFICES ASSUME IInv, [Next]_vars PROVE IInv'
  OBVIOUS
<1>1. TypeOK /\ Exchange /\ HelperKnown /\ StarterHasProc /\ NoOrphan
  BY DEF IInv, Exchange
<1>2. TypeOK'
  <2>1. ASSUME NEW c \in Callers, CallerStep(c)
        PROVE  TypeOK'
    BY <1>1, <2>1, ReadsKeepTypes, CommandsKeepTypes DEF CallerStep
  <2>2. CASE UNCHANGED vars
    BY <1>1, <2>2 DEF vars, TypeOK
  <2> QED
    BY <1>1, <2>1, <2>2, StarterKeepsTypes, TimersKeepTypes, HelpersKeepTypes DEF Next
<1>3. Exchange'
  <2>1. ASSUME NEW c \in Callers, CallerStep(c)
        PROVE  Exchange'
    BY <1>1, <2>1, CallersKeepExchange, CommandsKeepExchange DEF CallerStep
  <2>2. CASE UNCHANGED vars
    BY <1>1, <2>2, QuietKeepsExchange DEF vars, Quiet
  <2> QED
    BY <1>1, <2>1, <2>2, OthersKeepExchange, AnswersKeepExchange DEF Next
<1>4. StarterHasProc'
  BY <1>1, NextKeepsStarter
<1>5. NoOrphan'
  BY <1>1, CallersKeepReach, StarterKeepsReach, OthersKeepReach DEF Next
<1> QED
  BY <1>2, <1>3, <1>4, <1>5 DEF IInv

\* The parts of the invariant hold in every reachable state.
THEOREM InvariantHolds == Spec => []IInv
  BY InitIInv, NextKeepsIInv, PTL DEF Spec

\* The state of the manager, of its helpers and of its callers is always of
\* the expected types (bridge.go).
THEOREM TypeCorrect == Spec => []TypeOK
<1>1. IInv => TypeOK
  BY DEF IInv
<1> QED
  BY <1>1, InvariantHolds, PTL

\* A helper process that lives is one somebody can still reach, the manager,
\* the start goroutine, or the stop that waits for it, or one that a second start
\* has published its own over: whatever else gives a helper up also ends it
\* (failBridgeUnsafe, startStdio and Stop in bridge.go).
THEOREM NoOrphanHolds == Spec => []NoOrphan
<1>1. IInv => NoOrphan
  BY DEF IInv
<1> QED
  BY <1>1, InvariantHolds, PTL

\* The answer a caller uses is always the one to its own last command
\* (SendCommand in bridge.go).
THEOREM AnswerMatchesHolds == Spec => []AnswerMatches
<1>1. IInv => AnswerMatches
  BY DEF IInv, Exchange
<1> QED
  BY <1>1, InvariantHolds, PTL

\* m.mutex keeps the commands apart: never do two callers wait for an answer
\* of the helper, or for its end, at a time (bridge.go).
THEOREM OneCommandAtATime ==
    Spec => [](\A c, d \in Callers : Waits(c) /\ Waits(d) => c = d)
<1>1. IInv => \A c, d \in Callers : Waits(c) /\ Waits(d) => c = d
  BY DEF IInv, Exchange, MutexHeld
<1> QED
  BY <1>1, InvariantHolds, PTL

=============================================================================
