----------------------------- MODULE Wifi_proofs -----------------------------
(* Proofs about Wifi, for any number of callers, heartbeat loops, addresses, *)
(* scanners and candidates: the types, the data the manager shows, the write *)
(* barrier, the automatic control and the scan that is cancelled.            *)
EXTENDS Wifi, SequenceTheorems, TLAPS

-----------------------------------------------------------------------------
(* The inductive invariant of the manager.                                   *)

\* The labels of a flow that holds m.mutex across a request, of one that has
\* begun an operation, and of one that has passed both looks at the barrier.
Holding == {"begin", "check", "state", "probe", "post", "posted", "read", "tune"}
Operating == Holding \ {"begin", "tune"}
Committed == Operating \ {"check"}
Within(f, labels) == flow[f].pc \in labels

\* The health monitor refreshes and disconnects, nothing else.
Checking == {"idle", "type", "snap", "ask", "failed", "store", "show", "cancel", "close"}
HealthKnown ==
    Within(Health, Checking) /\ (~At(Health, "idle") => flow[Health].kind = "health")

\* A speed write sends its request at most Attempts times.
TriesOf(f) ==
    /\ flow[f].kind = "set" /\ ~Within(f, {"post", "posted", "read"}) => flow[f].tries = 0
    /\ At(f, "post") => flow[f].tries < Attempts

\* One flow at a time is in a request; the operation under way is its own,
\* and a speed write has its connection until it has stored what it read.
HolderOf(f) ==
    /\ Within(f, Holding) => holder = f
    /\ Within(f, Operating) => op.flow = f
    /\ flow[f].kind = "set" /\ Within(f, {"begin", "check"}) => connected
    /\ Within(f, {"post", "posted", "read"}) => connected

TriesBounded == \A f \in Callers : TriesOf(f)
HolderKnown == \A f \in Callers : HolderOf(f)

\* What a refresh or a connect has read waits to be told.
Carrying == {"probe", "store", "show"}
ReadingKnown ==
    \A f \in Callers : Within(f, Carrying) => \E i \in DOMAIN readings : readings[i].by = f

\* A request that passed both looks at the barrier and finds it up is about
\* to be cancelled, or is cancelled and waited for.
AboutToCancel == \E g \in Flows : At(g, "hush")
CancelledByBarrier == op.cancelled /\ \E g \in Flows : At(g, "seal")
BarrierKnown ==
    blocked /\ (\E f \in Callers : Within(f, Committed)) => AboutToCancel \/ CancelledByBarrier

\* While nobody turned the knob, software rules from the first speed write
\* on, and the states read say so in the order they were read.
ModesInOrder ==
    ~turned =>
        /\ \A i, j \in DOMAIN readings :
               i < j /\ readings[i].mode = "software" => readings[j].mode = "software"
        /\ \A i \in DOMAIN readings : readings[i].mode = "software" => ctrl.mode = "software"
        /\ lastMode = "software" =>
               /\ ctrl.mode = "software"
               /\ \A i \in DOMAIN readings : readings[i].late \/ readings[i].mode = "software"

FlowsInv == HealthKnown /\ TriesBounded /\ HolderKnown
ReadingsInv == ReadingKnown /\ ModesInOrder /\ AutoStays
IInv == TypeOK /\ FlowsInv /\ ReadingsInv /\ BarrierKnown /\ OwnData

-----------------------------------------------------------------------------
(* Lemmas about sequences, the labels and the places of a sequence of        *)
(* readings from which one is taken.                                         *)

\* A sequence without its element at i: what stood behind it has moved up.
Was(i, j) == IF j < i THEN j ELSE j + 1

TakenFrom(s, i, rest) ==
    /\ Len(rest) = Len(s) - 1
    /\ \A j \in 1..Len(s) - 1 : Was(i, j) \in DOMAIN s \ {i} /\ rest[j] = s[Was(i, j)]
    /\ \A k \in DOMAIN s \ {i} : \E j \in 1..Len(s) - 1 : Was(i, j) = k

LEMMA Removed ==
    ASSUME NEW S, NEW s \in Seq(S), NEW i \in DOMAIN s
    PROVE  RemoveAt(s, i) \in Seq(S) /\ TakenFrom(s, i, RemoveAt(s, i))
<1> DEFINE a == SubSeq(s, 1, i - 1)
           b == SubSeq(s, i + 1, Len(s))
<1>1. Len(s) \in Nat /\ i \in 1..Len(s) /\ \A j \in 1..Len(s) : s[j] \in S
  OBVIOUS
<1>2. /\ a \in Seq(S) /\ Len(a) = i - 1 /\ \A j \in 1..i - 1 : a[j] = s[j]
  BY <1>1, SubSeqProperties, SMT
<1>3. /\ b \in Seq(S) /\ Len(b) = Len(s) - i
      /\ \A j \in 1..Len(s) - i : b[j] = s[i + j]
  <2>1. /\ b \in Seq(S)
        /\ Len(b) = IF i + 1 <= Len(s) THEN Len(s) - (i + 1) + 1 ELSE 0
        /\ \A j \in 1..Len(s) - (i + 1) + 1 : b[j] = s[(i + 1) + j - 1]
    BY <1>1, SubSeqProperties
  <2>2. QED
    BY <1>1, <2>1, SMT
<1>4. RemoveAt(s, i) = a \o b
  BY DEF RemoveAt
<1> HIDE DEF a, b
<1>5. /\ a \o b \in Seq(S) /\ Len(a \o b) = Len(s) - 1
      /\ \A j \in 1..Len(s) - 1 : (a \o b)[j] = s[Was(i, j)]
  BY <1>1, <1>2, <1>3, SMTT(60) DEF Was
<1>6. \A j \in 1..Len(s) - 1 : Was(i, j) \in DOMAIN s \ {i}
  BY <1>1 DEF Was
<1>7. \A k \in DOMAIN s \ {i} : \E j \in 1..Len(s) - 1 : Was(i, j) = k
  <2>1. TAKE k \in DOMAIN s \ {i}
  <2>2. CASE k < i
    <3>1. k \in 1..Len(s) - 1 /\ Was(i, k) = k
      BY <1>1, <2>2 DEF Was
    <3>2. QED
      BY <3>1
  <2>3. CASE k > i
    <3>1. k - 1 \in 1..Len(s) - 1 /\ Was(i, k - 1) = k
      BY <1>1, <2>3 DEF Was
    <3>2. QED
      BY <3>1
  <2>4. QED
    BY <1>1, <2>2, <2>3
<1>8. QED
  BY <1>4, <1>5, <1>6, <1>7 DEF TakenFrom

LEMMA FlowGrows ==
    ASSUME NEW g \in Nat, NEW h \in Nat, g <= h
    PROVE  Flow(g) \subseteq Flow(h) /\ Loop(g) \subseteq Loop(h)
<1>1. 0..g \subseteq 0..h
  OBVIOUS
<1>2. QED
  BY <1>1 DEF Flow, Loop

-----------------------------------------------------------------------------
(* What is read, and what is told to the core.                               *)

LEMMA ToldReadings ==
    ASSUME TypeOK, NEW i \in DOMAIN readings, Told(i)
    PROVE  /\ readings' \in Seq(Reading) /\ lastMode' \in {"manual", "software"}
           /\ auto' \in BOOLEAN /\ slip' \in BOOLEAN /\ fresh' \in BOOLEAN
           /\ \A j \in DOMAIN readings' :
                  /\ Was(i, j) \in DOMAIN readings \ {i}
                  /\ readings'[j].by = readings[Was(i, j)].by
                  /\ readings'[j].mode = readings[Was(i, j)].mode
                  /\ readings'[j].late <=> (Was(i, j) < i \/ readings[Was(i, j)].late)
           /\ \A k \in DOMAIN readings \ {i} :
                  \E j \in DOMAIN readings' : readings'[j].by = readings[k].by
<1>1. /\ readings \in Seq(Reading) /\ auto \in BOOLEAN /\ slip \in BOOLEAN
      /\ readings[i] \in Reading
  BY DEF TypeOK
<1>2. /\ Later(i) \in Seq(Reading) /\ Len(Later(i)) = Len(readings)
      /\ DOMAIN Later(i) = DOMAIN readings
      /\ \A j \in DOMAIN readings :
             /\ Later(i)[j].by = readings[j].by /\ Later(i)[j].mode = readings[j].mode
             /\ Later(i)[j].late <=> (j < i \/ readings[j].late)
  <2>1. \A j \in DOMAIN readings : readings[j] \in Reading
    BY <1>1
  <2>2. /\ Later(i) = [j \in DOMAIN readings |->
              IF j < i THEN [readings[j] EXCEPT !.late = TRUE] ELSE readings[j]]
    BY DEF Later
  <2>3. \A j \in DOMAIN readings :
          /\ Later(i)[j] \in Reading
          /\ Later(i)[j].by = readings[j].by /\ Later(i)[j].mode = readings[j].mode
          /\ Later(i)[j].late <=> (j < i \/ readings[j].late)
    <3>1. TAKE j \in DOMAIN readings
    <3>2. CASE j < i
      <4>1. Later(i)[j] = [readings[j] EXCEPT !.late = TRUE]
        BY <2>2, <3>2
      <4>2. QED
        BY <2>1, <3>1, <3>2, <4>1 DEF Reading
    <3>3. CASE ~(j < i)
      <4>1. Later(i)[j] = readings[j]
        BY <2>2, <3>3
      <4>2. QED
        BY <2>1, <3>1, <3>3, <4>1 DEF Reading
    <3>4. QED
      BY <3>2, <3>3
  <2>4. Later(i) \in [1..Len(readings) -> Reading] /\ Len(readings) \in Nat
        /\ DOMAIN readings = 1..Len(readings)
    BY <1>1, <2>2, <2>3
  <2>5. QED
    BY <2>3, <2>4
<1>3. readings' = RemoveAt(Later(i), i)
  BY DEF Told
<1>4. /\ readings' \in Seq(Reading) /\ Len(readings') = Len(readings) - 1
      /\ \A j \in 1..Len(readings) - 1 :
             /\ Was(i, j) \in DOMAIN readings \ {i}
             /\ readings'[j] = Later(i)[Was(i, j)]
      /\ \A k \in DOMAIN readings \ {i} : \E j \in 1..Len(readings) - 1 : Was(i, j) = k
  <2> DEFINE s == Later(i)
  <2>1. s \in Seq(Reading) /\ i \in DOMAIN s /\ Len(s) = Len(readings)
        /\ DOMAIN s = DOMAIN readings /\ readings' = RemoveAt(s, i)
    BY <1>2, <1>3
  <2> HIDE DEF s
  <2>2. readings' \in Seq(Reading) /\ TakenFrom(s, i, readings')
    BY <2>1, Removed
  <2>3. /\ readings' \in Seq(Reading) /\ Len(readings') = Len(readings) - 1
        /\ \A j \in 1..Len(readings) - 1 :
               Was(i, j) \in DOMAIN readings \ {i} /\ readings'[j] = s[Was(i, j)]
        /\ \A k \in DOMAIN readings \ {i} : \E j \in 1..Len(readings) - 1 : Was(i, j) = k
    BY <2>1, <2>2 DEF TakenFrom
  <2>4. QED
    BY <2>3 DEF s
<1>5. DOMAIN readings' = 1..Len(readings) - 1
  BY <1>1, <1>4
<1>6. \A k \in DOMAIN readings \ {i} :
        \E j \in DOMAIN readings' : readings'[j].by = readings[k].by
  <2>1. TAKE k \in DOMAIN readings \ {i}
  <2>2. PICK j \in DOMAIN readings' : Was(i, j) = k
    BY <1>4, <1>5
  <2>3. readings'[j].by = readings[k].by
    BY <1>2, <1>4, <1>5, <2>2
  <2>4. QED
    BY <2>3
<1>7. \A j \in DOMAIN readings' :
        /\ Was(i, j) \in DOMAIN readings \ {i}
        /\ readings'[j].by = readings[Was(i, j)].by
        /\ readings'[j].mode = readings[Was(i, j)].mode
        /\ readings'[j].late <=> (Was(i, j) < i \/ readings[Was(i, j)].late)
  BY <1>2, <1>4, <1>5
<1>8. /\ lastMode' \in {"manual", "software"} /\ auto' \in BOOLEAN /\ slip' \in BOOLEAN
      /\ fresh' \in BOOLEAN
  BY <1>1 DEF Told, Reading
<1>9. QED
  BY <1>4, <1>6, <1>7, <1>8

\* An update that is told keeps the order of the states and takes the
\* automatic control only from someone who turned the knob, or in a slip.
LEMMA ToldKeepsModes ==
    ASSUME TypeOK, ReadingsInv, NEW i \in DOMAIN readings, Told(i), UNCHANGED <<ctrl, turned>>
    PROVE  ModesInOrder' /\ AutoStays'
<1>1. /\ lastMode' = readings[i].mode
      /\ auto' = (auto /\ ~(readings[i].mode = "manual" /\ lastMode = "software"))
      /\ slip' = (slip \/ readings[i].late)
  BY DEF Told
<1>2. AutoStays'
  <2>1. CASE turned
    BY <2>1 DEF AutoStays
  <2>2. CASE ~turned /\ readings[i].mode = "manual" /\ lastMode = "software"
    <3>1. readings[i].late
      BY <2>2 DEF ReadingsInv, ModesInOrder
    <3>2. QED
      BY <1>1, <3>1 DEF AutoStays
  <2>3. CASE ~(readings[i].mode = "manual" /\ lastMode = "software")
    BY <1>1, <2>3 DEF ReadingsInv, AutoStays, TypeOK
  <2>4. QED
    BY <2>1, <2>2, <2>3
<1>3. ModesInOrder'
  <2>1. SUFFICES ASSUME ~turned PROVE ModesInOrder'
    BY DEF ModesInOrder
  <2>2. \A j \in DOMAIN readings' :
          /\ Was(i, j) \in DOMAIN readings \ {i}
          /\ readings'[j].mode = readings[Was(i, j)].mode
          /\ readings'[j].late <=> (Was(i, j) < i \/ readings[Was(i, j)].late)
    BY ToldReadings
  <2>3. /\ \A j, k \in DOMAIN readings :
             j < k /\ readings[j].mode = "software" => readings[k].mode = "software"
        /\ \A j \in DOMAIN readings : readings[j].mode = "software" => ctrl.mode = "software"
    BY <2>1 DEF ReadingsInv, ModesInOrder
  <2>4. /\ DOMAIN readings \subseteq Nat /\ DOMAIN readings' \subseteq Nat
    BY ToldReadings DEF TypeOK
  <2>5. \A j, k \in DOMAIN readings' : j < k => Was(i, j) < Was(i, k)
    BY <2>4 DEF Was
  <2>6. \A j, k \in DOMAIN readings' :
          j < k /\ readings'[j].mode = "software" => readings'[k].mode = "software"
    BY <2>2, <2>3, <2>5
  <2>7. \A j \in DOMAIN readings' : readings'[j].mode = "software" => ctrl'.mode = "software"
    BY <2>2, <2>3
  <2>8. lastMode' = "software" =>
          /\ ctrl'.mode = "software"
          /\ \A j \in DOMAIN readings' : readings'[j].late \/ readings'[j].mode = "software"
    <3>1. \A j \in DOMAIN readings' : Was(i, j) < i \/ i < Was(i, j)
      BY <2>2, <2>4
    <3>2. QED
      BY <1>1, <2>2, <2>3, <3>1
  <2>9. QED
    BY <2>6, <2>7, <2>8 DEF ModesInOrder
<1>4. QED
  BY <1>2, <1>3

\* The updates of the others still wait.
LEMMA ToldKeepsReadings ==
    ASSUME TypeOK, ReadingKnown, NEW i \in DOMAIN readings, Told(i), NEW f \in Callers,
           Within(f, Carrying), readings[i].by # f
    PROVE  \E j \in DOMAIN readings' : readings'[j].by = f
<1>1. PICK k \in DOMAIN readings : readings[k].by = f
  BY DEF ReadingKnown
<1>2. PICK j \in DOMAIN readings' : readings'[j].by = readings[k].by
  BY <1>1, ToldReadings
<1>3. QED
  BY <1>1, <1>2

\* A refresh that outlived its connection drops what it read.
LEMMA ForgetsReadings ==
    ASSUME TypeOK, ReadingsInv, NEW g \in Callers, Within(g, {"store"}), Forgets(g),
           UNCHANGED <<ctrl, turned, lastMode>>
    PROVE  /\ readings' \in Seq(Reading) /\ ModesInOrder'
           /\ \A f \in Callers \ {g} : Within(f, Carrying) =>
                  \E j \in DOMAIN readings' : readings'[j].by = f
<1> DEFINE i == Mine(g)
<1>1. i \in DOMAIN readings /\ readings[i].by = g
  BY DEF ReadingsInv, ReadingKnown, Within, Carrying, Mine
<1>2. readings' = RemoveAt(readings, i) /\ readings \in Seq(Reading)
  BY DEF Forgets, TypeOK
<1> HIDE DEF i
<1>3. /\ readings' \in Seq(Reading) /\ Len(readings') = Len(readings) - 1
      /\ \A j \in 1..Len(readings) - 1 :
             Was(i, j) \in DOMAIN readings \ {i} /\ readings'[j] = readings[Was(i, j)]
      /\ \A k \in DOMAIN readings \ {i} : \E j \in 1..Len(readings) - 1 : Was(i, j) = k
  <2>1. readings' \in Seq(Reading) /\ TakenFrom(readings, i, readings')
    BY <1>1, <1>2, Removed
  <2>2. QED
    BY <2>1 DEF TakenFrom
<1>4. /\ DOMAIN readings' = 1..Len(readings) - 1
      /\ DOMAIN readings \subseteq Nat /\ DOMAIN readings' \subseteq Nat
  BY <1>2, <1>3
<1>5. \A f \in Callers \ {g} : Within(f, Carrying) =>
        \E j \in DOMAIN readings' : readings'[j].by = f
  <2>1. TAKE f \in Callers \ {g}
  <2>2. HAVE Within(f, Carrying)
  <2>3. PICK k \in DOMAIN readings : readings[k].by = f
    BY <2>2 DEF ReadingsInv, ReadingKnown
  <2>4. k \in DOMAIN readings \ {i}
    BY <1>1, <2>1, <2>3
  <2>5. PICK j \in DOMAIN readings' : Was(i, j) = k
    BY <1>3, <1>4, <2>4
  <2>6. readings'[j].by = f
    BY <1>3, <1>4, <2>3, <2>5
  <2>7. QED
    BY <2>6
<1>6. \A j, k \in DOMAIN readings' : j < k => Was(i, j) < Was(i, k)
  BY <1>1, <1>4 DEF Was
<1>7. ModesInOrder'
  <2>1. SUFFICES ASSUME ~turned PROVE ModesInOrder'
    BY DEF ModesInOrder
  <2>2. \A j \in DOMAIN readings' :
          Was(i, j) \in DOMAIN readings /\ readings'[j] = readings[Was(i, j)]
    BY <1>3, <1>4
  <2>3. /\ \A j, k \in DOMAIN readings :
             j < k /\ readings[j].mode = "software" => readings[k].mode = "software"
        /\ \A j \in DOMAIN readings : readings[j].mode = "software" => ctrl.mode = "software"
        /\ lastMode = "software" =>
             /\ ctrl.mode = "software"
             /\ \A j \in DOMAIN readings : readings[j].late \/ readings[j].mode = "software"
    BY <2>1 DEF ReadingsInv, ModesInOrder
  <2>4. \A j, k \in DOMAIN readings' :
          j < k /\ readings'[j].mode = "software" => readings'[k].mode = "software"
    BY <1>6, <2>2, <2>3
  <2>5. /\ \A j \in DOMAIN readings' : readings'[j].mode = "software" => ctrl'.mode = "software"
        /\ lastMode' = "software" =>
             /\ ctrl'.mode = "software"
             /\ \A j \in DOMAIN readings' :
                    readings'[j].late \/ readings'[j].mode = "software"
    BY <2>2, <2>3
  <2>6. QED
    BY <2>4, <2>5 DEF ModesInOrder
<1>8. QED
  BY <1>3, <1>5, <1>7

-----------------------------------------------------------------------------
(* A step of one flow: the others stay, and it goes to one of some labels,   *)
(* or ends.                                                                  *)

Moved(f, labels, tries) ==
    /\ flow' \in [Callers -> Flow(gen')]
    /\ \A g \in Callers \ {f} : flow'[g] = flow[g]
    /\ flow'[f].pc \in labels
    /\ flow'[f] = Idle \/ (flow'[f].kind = flow[f].kind /\ flow'[f].tries = tries)
Stays(f, labels) == Moved(f, labels, flow[f].tries)

LEMMA IdleIsFlow == ASSUME TypeOK PROVE Idle \in Flow(gen)
BY PlaceAssumption, NumberAssumption DEF TypeOK, Idle, Flow, Labels

LEMMA Sets ==
    ASSUME TypeOK, NEW f \in Callers, NEW w \in Flow(gen'), flow' = [flow EXCEPT ![f] = w],
           gen' \in {gen, gen + 1}, NEW labels, w.pc \in labels, NEW tries,
           w = Idle \/ (w.kind = flow[f].kind /\ w.tries = tries)
    PROVE  Moved(f, labels, tries)
<1>1. flow \in [Callers -> Flow(gen')]
  BY FlowGrows DEF TypeOK
<1>2. flow' \in [Callers -> Flow(gen')] /\ flow'[f] = w
      /\ \A g \in Callers \ {f} : flow'[g] = flow[g]
  BY <1>1
<1>3. QED
  BY <1>2 DEF Moved

LEMMA GoesStays ==
    ASSUME TypeOK, NEW f \in Callers, NEW label \in Labels, flow' = Goes(f, label),
           gen' \in {gen, gen + 1}, NEW labels, label \in labels
    PROVE  /\ Stays(f, labels) /\ flow'[f].pc = label
           /\ flow'[f].kind = flow[f].kind /\ flow'[f].tries = flow[f].tries
<1> DEFINE w == [flow[f] EXCEPT !.pc = label]
<1>1. flow[f] \in Flow(gen') /\ flow[f] \in Flow(gen)
  BY FlowGrows DEF TypeOK
<1>2. /\ w \in Flow(gen') /\ w.pc = label /\ w.kind = flow[f].kind /\ w.tries = flow[f].tries
  BY <1>1 DEF Flow
<1>3. flow' = [flow EXCEPT ![f] = w] /\ flow'[f] = w
  BY DEF Goes, TypeOK
<1> HIDE DEF w
<1>4. Moved(f, labels, flow[f].tries)
  BY <1>2, <1>3, Sets
<1>5. QED
  BY <1>2, <1>3, <1>4 DEF Stays

LEMMA MovesThere ==
    ASSUME TypeOK, NEW f \in Callers
    PROVE  /\ \A label : flow' = Goes(f, label) =>
                /\ flow'[f].pc = label /\ flow'[f].kind = flow[f].kind
                /\ flow'[f].tries = flow[f].tries
           /\ flow' = Ends(f) => flow'[f] = Idle /\ flow'[f].pc = "idle"
<1>1. f \in DOMAIN flow /\ flow[f] \in Flow(gen)
  BY DEF TypeOK
<1>2. ASSUME NEW label, flow' = Goes(f, label)
      PROVE  /\ flow'[f].pc = label /\ flow'[f].kind = flow[f].kind
             /\ flow'[f].tries = flow[f].tries
  <2>1. flow'[f] = [flow[f] EXCEPT !.pc = label]
    BY <1>1, <1>2 DEF Goes
  <2>2. QED
    BY <1>1, <2>1 DEF Flow
<1>3. ASSUME flow' = Ends(f) PROVE flow'[f] = Idle /\ flow'[f].pc = "idle"
  BY <1>1, <1>3 DEF Ends, Idle
<1>4. QED
  BY <1>2, <1>3

LEMMA EndsStays ==
    ASSUME TypeOK, NEW f \in Callers, flow' = Ends(f), gen' \in {gen, gen + 1},
           NEW labels, "idle" \in labels
    PROVE  Stays(f, labels) /\ flow'[f] = Idle
<1>1. Idle \in Flow(gen') /\ Idle.pc = "idle"
  BY IdleIsFlow, FlowGrows DEF TypeOK, Idle
<1>2. Moved(f, labels, flow[f].tries)
  BY <1>1, Sets DEF Ends
<1>3. QED
  BY <1>2 DEF Stays, Ends, TypeOK

\* Who is in a request, and how often a write was sent: a step of one flow
\* changes what holds of that flow, and takes and gives the mutex itself.
LEMMA FlowsKept ==
    ASSUME TypeOK, FlowsInv, NEW f \in Callers, NEW labels, NEW tries, Moved(f, labels, tries),
           f # Health \/ (labels \subseteq Checking), ~At(f, "idle"),
           HolderOf(f)', TriesOf(f)',
           \/ holder \in {Nobody, f}
           \/ holder' = holder /\ op'.flow = op.flow /\ connected' = connected
    PROVE  FlowsInv'
<1>1. HealthKnown'
  <2>1. CASE f = Health
    <3>1. flow'[f].pc \in Checking /\ (flow'[f] = Idle \/ flow'[f].kind = flow[f].kind)
      BY <2>1 DEF Moved
    <3>2. QED
      BY <2>1, <3>1 DEF FlowsInv, HealthKnown, Within, At, Checking, Idle
  <2>2. CASE f # Health
    BY <2>2 DEF FlowsInv, HealthKnown, Moved, Within, At, Callers
  <2>3. QED
    BY <2>1, <2>2
<1>2. TriesBounded'
  BY DEF FlowsInv, TriesBounded, TriesOf, Moved, Within, At
<1>3. HolderKnown'
  <2>1. SUFFICES ASSUME NEW g \in Callers, g # f PROVE HolderOf(g)'
    BY DEF HolderKnown
  <2>2. flow'[g] = flow[g] /\ HolderOf(g)
    BY <2>1 DEF Moved, FlowsInv, HolderKnown
  <2>3. CASE holder \in {Nobody, f}
    <3>1. ~Within(g, Holding)
      BY <2>1, <2>2, <2>3, CallerAssumption DEF HolderOf, Callers
    <3>2. QED
      BY <2>2, <3>1 DEF HolderOf, Within, Holding, Operating
  <2>4. CASE holder' = holder /\ op'.flow = op.flow /\ connected' = connected
    BY <2>2, <2>4 DEF HolderOf, Within
  <2>5. QED
    BY <2>3, <2>4
<1>4. QED
  BY <1>1, <1>2, <1>3 DEF FlowsInv

\* What waits to be told, where nothing is read or told.
LEMMA ReadingsKept ==
    ASSUME ReadingsInv, NEW f \in Callers, NEW labels, NEW tries, Moved(f, labels, tries),
           labels \cap Carrying = {} \/ Within(f, Carrying),
           UNCHANGED <<readings, lastMode, auto, slip, turned>>,
           ctrl'.mode = ctrl.mode \/ ctrl'.mode = "software"
    PROVE  ReadingsInv'
<1>1. ReadingKnown'
  <2>1. SUFFICES ASSUME NEW g \in Callers, Within(g, Carrying)'
                 PROVE  \E i \in DOMAIN readings' : readings'[i].by = g
    BY DEF ReadingKnown
  <2>2. Within(g, Carrying)
    BY <2>1 DEF Moved, Within
  <2>3. QED
    BY <2>1, <2>2 DEF ReadingsInv, ReadingKnown
<1>2. ModesInOrder' /\ AutoStays'
  BY DEF ReadingsInv, ModesInOrder, AutoStays
<1>3. QED
  BY <1>1, <1>2 DEF ReadingsInv

\* The barrier: the step of a flow that does not raise it, where nobody has
\* passed it afterwards, or who has passed it had done so before.
LEMMA BarrierFree ==
    ASSUME FlowsInv, NEW f \in Callers, NEW labels, NEW tries, Moved(f, labels, tries),
           holder \in {Nobody, f}, labels \cap Committed = {}
    PROVE  BarrierKnown'
<1>1. SUFFICES ASSUME NEW g \in Callers, Within(g, Committed)' PROVE FALSE
  BY DEF BarrierKnown
<1>2. g # f /\ Within(g, Committed)
  BY <1>1 DEF Moved, Within
<1>3. holder = g
  BY <1>2 DEF FlowsInv, HolderKnown, HolderOf, Within, Committed, Operating
<1>4. QED
  BY <1>2, <1>3, CallerAssumption DEF Callers

LEMMA BarrierKept ==
    ASSUME BarrierKnown, NEW f \in Callers, NEW labels, NEW tries, Moved(f, labels, tries),
           labels \cap Committed = {} \/ Within(f, Committed), ~Within(f, {"hush", "seal"}),
           blocked' => blocked, op'.cancelled = op.cancelled \/ op'.cancelled = TRUE
    PROVE  BarrierKnown'
<1>1. SUFFICES ASSUME blocked', NEW g \in Callers, Within(g, Committed)'
               PROVE  AboutToCancel' \/ CancelledByBarrier'
  BY DEF BarrierKnown
<1>2. Within(g, Committed)
  BY <1>1 DEF Moved, Within
<1>3. AboutToCancel \/ CancelledByBarrier
  BY <1>1, <1>2 DEF BarrierKnown
<1>4. \A h \in Flows : At(h, "hush") \/ At(h, "seal") => flow'[h] = flow[h]
  BY DEF Moved, Within, At, Callers
<1>5. QED
  BY <1>3, <1>4 DEF AboutToCancel, CancelledByBarrier, At

\* The rest of the types.
OtherTypes ==
    /\ ctrl \in [at : Endpoints \cup {Away}, mode : {"manual", "software"}]
    /\ saved \in Endpoints /\ gate \in Flows \cup {Nobody}
    /\ holder \in Flows \cup {Nobody} /\ op \in [flow : Flows \cup {Nobody}, cancelled : BOOLEAN]
    /\ blocked \in BOOLEAN /\ connected \in BOOLEAN /\ at \in Endpoints
    /\ gen \in Nat \ {0} /\ fanData \in 0..gen
    /\ loop \in Loops \cup {NoLoop} /\ misses \in 0..MissThreshold
    /\ loops \in [Loops -> Loop(gen)]
    /\ failed \in 0..HealthThreshold - 1 /\ fresh \in BOOLEAN
    /\ readings \in Seq(Reading)
    /\ lastMode \in {"none", "manual", "software"} /\ auto \in BOOLEAN
    /\ turned \in BOOLEAN /\ slip \in BOOLEAN

LEMMA TypesSplit == TypeOK <=> OtherTypes /\ flow \in [Callers -> Flow(gen)]
BY DEF TypeOK, OtherTypes

\* A step that neither takes m.mutex for a request nor reads the controller.
LEMMA QuietStep ==
    ASSUME IInv, NEW f \in Callers, NEW labels, NEW tries, Moved(f, labels, tries),
           f # Health \/ (labels \subseteq Checking), ~Within(f, {"idle", "hush", "seal"}),
           labels \cap (Holding \cup Carrying) = {}, TriesOf(f)', OtherTypes', OwnData',
           UNCHANGED <<ctrl, turned, readings, lastMode, auto, slip, holder>>,
           op'.flow = op.flow, op'.cancelled = op.cancelled \/ op'.cancelled = TRUE,
           blocked' => blocked, holder = Nobody \/ connected' = connected
    PROVE  IInv'
<1>1. TypeOK /\ FlowsInv /\ ReadingsInv /\ BarrierKnown
  BY DEF IInv
<1>2. ~Within(f, {"hush", "seal"}) /\ ~At(f, "idle") /\ flow'[f].pc \notin Holding
      /\ labels \cap Carrying = {} /\ labels \cap Committed = {}
  BY DEF Within, At, Moved, Committed, Operating
<1>3. HolderOf(f)'
  BY <1>2 DEF HolderOf, Within, Holding, Operating
<1>4. FlowsInv'
  BY <1>1, <1>2, <1>3, FlowsKept
<1>5. ReadingsInv'
  BY <1>1, <1>2, ReadingsKept
<1>6. BarrierKnown'
  BY <1>1, <1>2, BarrierKept
<1>7. TypeOK'
  BY TypesSplit DEF Moved, TypeOK, OtherTypes
<1>8. QED
  BY <1>4, <1>5, <1>6, <1>7 DEF IInv

-----------------------------------------------------------------------------
(* The steps.                                                                *)

\* What holds of the flow whose step it is.
LEMMA Mover ==
    ASSUME IInv, NEW f \in Callers
    PROVE  /\ TypeOK /\ OtherTypes /\ FlowsInv /\ ReadingsInv /\ BarrierKnown /\ OwnData
           /\ flow[f] \in Flow(gen) /\ gen \in Nat \ {0} /\ HolderOf(f) /\ TriesOf(f)
           /\ Callers = Flows \cup {Health} /\ Nobody \notin Callers
           /\ (f \in Flows <=> f # Health)
           /\ f = Health => flow[f].pc \in Checking
BY TypesSplit, CallerAssumption
   DEF IInv, TypeOK, FlowsInv, HolderKnown, TriesBounded, HealthKnown, Within, Callers

\* Connecting, but for the operation itself.
LEMMA ConnectsKeep ==
    ASSUME IInv, NEW f \in Callers,
           \/ Gate(f) \/ Leave(f) \/ Configure(f) \/ Unconnected(f) \/ Result(f)
           \/ Finish(f) \/ Unblock(f)
    PROVE  IInv'
<1> USE DEF manager, core, told, world, locks
<1>0. /\ TypeOK /\ OtherTypes /\ FlowsInv /\ OwnData /\ f \in Flows
      /\ flow[f] \in Flow(gen) /\ gen \in Nat \ {0} /\ HolderOf(f) /\ TriesOf(f)
      /\ f # Health /\ ~Within(f, {"idle", "hush", "seal"})
      /\ Nobody \notin Callers
  BY Mover DEF Checking, Within, At, Gate, Leave, Configure, Unconnected, Result, Finish,
                  Unblock
<1>2. CASE Gate(f)
  <2>1. Moved(f, {"leave", "configure"}, flow[f].tries)
    <3> DEFINE w == [flow[f] EXCEPT
                       !.pc = IF flow[f].kind = "switch" THEN "leave" ELSE "configure",
                       !.at = IF flow[f].kind = "switch" THEN @ ELSE saved]
    <3>1. w \in Flow(gen') /\ w.pc \in {"leave", "configure"}
          /\ w.kind = flow[f].kind /\ w.tries = flow[f].tries
      BY <1>0, <1>2, ZenonT(60) DEF Gate, OtherTypes, Flow, Labels
    <3>2. flow' = [flow EXCEPT ![f] = w] /\ gen' = gen
      BY <1>0, <1>2 DEF Gate, TypeOK
    <3> HIDE DEF w
    <3>3. QED
      BY <1>0, <3>1, <3>2, Sets
  <2>2. OtherTypes' /\ OwnData'
    BY <1>0, <1>2 DEF Gate, OtherTypes, OwnData
  <2>3. TriesOf(f)'
    BY <1>0, <1>2, <2>1 DEF Gate, Moved, TriesOf, Within, At, Idle
  <2>4. QED
    BY <1>0, <1>2, <2>1, <2>2, <2>3, QuietStep DEF Gate, Holding, Carrying
<1>3. CASE Leave(f)
  <2>1. Moved(f, {"cancel", "configure"}, flow[f].tries)
    BY <1>0, <1>3, GoesStays DEF Leave, Labels, Stays
  <2>2. OtherTypes' /\ OwnData'
    BY <1>0, <1>3 DEF Leave, OtherTypes, OwnData
  <2>3. TriesOf(f)'
    BY <1>0, <1>3, <2>1 DEF Leave, Moved, TriesOf, Within, At, Idle
  <2>4. QED
    BY <1>0, <1>3, <2>1, <2>2, <2>3, QuietStep DEF Leave, Holding, Carrying
<1>4. CASE Configure(f)
  <2>1. gen' \in {gen, gen + 1} /\ (connected => gen' = gen)
    BY <1>4 DEF Configure
  <2>2. Moved(f, {"enter", "idle"}, flow[f].tries)
    BY <1>0, <1>4, <2>1, GoesStays, EndsStays DEF Configure, Labels, Stays
  <2>3. OtherTypes' /\ OwnData'
    <3>1. at' \in Endpoints /\ gate' \in Flows \cup {Nobody}
      BY <1>0, <1>4 DEF Configure, OtherTypes, Flow
    <3>2. gen' \in Nat \ {0} /\ fanData' \in 0..gen' /\ loops' \in [Loops -> Loop(gen')]
      BY <1>0, <1>4, <2>1, FlowGrows DEF Configure, OtherTypes
    <3>3. QED
      BY <1>0, <1>4, <2>1, <3>1, <3>2 DEF Configure, OtherTypes, OwnData
  <2>4. TriesOf(f)'
    BY <1>0, <1>4, <2>2 DEF Configure, Moved, TriesOf, Within, At, Idle
  <2>5. QED
    BY <1>0, <1>4, <2>2, <2>3, <2>4, QuietStep DEF Configure, Holding, Carrying
<1>5. CASE Unconnected(f)
  <2>1. PICK tries \in {flow[f].tries, 1} :
          /\ Moved(f, {"restore", "idle", "configure"}, tries)
          /\ tries = flow[f].tries \/ flow[f].kind # "set"
    <3>1. CASE flow' = Goes(f, "restore") \/ flow' = Ends(f)
      BY <1>0, <1>5, <3>1, GoesStays, EndsStays, ZenonT(60) DEF Unconnected, Labels, Stays
    <3>2. CASE /\ flow[f].kind = "reconnect" /\ ctrl.at \in Endpoints
               /\ flow' = [flow EXCEPT ![f].pc = "configure", ![f].at = ctrl.at,
                                       ![f].tries = 1]
      <4> DEFINE w == [flow[f] EXCEPT !.pc = "configure", !.at = ctrl.at, !.tries = 1]
      <4>0. gen' = gen /\ "configure" \in Labels /\ 1 \in 0..Attempts
        BY <1>5, NumberAssumption DEF Unconnected, Labels
      <4>1. w \in Flow(gen') /\ w.pc = "configure" /\ w.kind = flow[f].kind /\ w.tries = 1
        BY <1>0, <3>2, <4>0 DEF Flow
      <4>2. flow' = [flow EXCEPT ![f] = w] /\ gen' = gen
        BY <1>0, <1>5, <3>2 DEF Unconnected, TypeOK
      <4> HIDE DEF w
      <4>3. Moved(f, {"restore", "idle", "configure"}, 1)
        BY <1>0, <4>1, <4>2, Sets
      <4>4. QED
        BY <3>2, <4>3
    <3>3. QED
      BY <1>5, <3>1, <3>2, SMTT(60) DEF Unconnected
  <2>2. OtherTypes' /\ OwnData'
    BY <1>0, <1>5 DEF Unconnected, OtherTypes, OwnData
  <2>3. TriesOf(f)'
    BY <1>0, <1>5, <2>1 DEF Unconnected, Moved, TriesOf, Within, At, Idle
  <2>4. QED
    BY <1>0, <1>5, <2>1, <2>2, <2>3, QuietStep DEF Unconnected, Holding, Carrying
<1>6. CASE Result(f)
  <2>1. Moved(f, {"finish", "cancel", "idle"}, flow[f].tries)
    <3>1. CASE flow' = Goes(f, "finish") \/ flow' = Ends(f)
      BY <1>0, <1>6, <3>1, GoesStays, EndsStays DEF Result, Labels, Stays
    <3>2. ASSUME NEW label \in {"finish", "cancel"},
                 flow' = [flow EXCEPT ![f].pc = label, ![f].gen = gen]
          PROVE  Moved(f, {"finish", "cancel", "idle"}, flow[f].tries)
      <4> DEFINE w == [flow[f] EXCEPT !.pc = label, !.gen = gen]
      <4>0. gen' = gen /\ label \in Labels /\ gen \in 0..gen
        BY <1>0, <1>6, <3>2 DEF Result, Labels
      <4>1. w \in Flow(gen') /\ w.pc = label /\ w.kind = flow[f].kind
            /\ w.tries = flow[f].tries
        BY <1>0, <4>0 DEF Flow
      <4>2. flow' = [flow EXCEPT ![f] = w] /\ gen' = gen
        BY <1>0, <1>6, <3>2 DEF Result, TypeOK
      <4> HIDE DEF w
      <4>3. QED
        BY <1>0, <4>1, <4>2, Sets
    <3>3. QED
      BY <1>6, <3>1, <3>2, SMTT(60) DEF Result
  <2>2. OtherTypes' /\ OwnData'
    BY <1>0, <1>6 DEF Result, OtherTypes, OwnData, Flow
  <2>3. TriesOf(f)'
    BY <1>0, <1>6, <2>1 DEF Result, Moved, TriesOf, Within, At, Idle
  <2>4. QED
    BY <1>0, <1>6, <2>1, <2>2, <2>3, QuietStep DEF Result, Holding, Carrying
<1>7. CASE Unblock(f)
  <2>1. Moved(f, {"idle"}, flow[f].tries)
    BY <1>0, <1>7, EndsStays DEF Unblock, Stays
  <2>2. OtherTypes' /\ OwnData'
    <3>1. gate' \in Flows \cup {Nobody} /\ blocked' = FALSE
      BY <1>0, <1>7 DEF Unblock, OtherTypes
    <3>2. UNCHANGED <<manager, saved, failed, fresh, told, world, holder, op>>
      BY <1>7 DEF Unblock
    <3>3. OwnData' /\ blocked' \in BOOLEAN
      BY <1>0, <3>1, <3>2 DEF OwnData
    <3>4. QED
      BY <1>0, <3>1, <3>2, <3>3 DEF OtherTypes
  <2>3. TriesOf(f)'
    BY <1>0, <1>7, <2>1 DEF Unblock, Moved, TriesOf, Within, At, Idle
  <2>4. QED
    BY <1>0, <1>7, <2>1, <2>2, <2>3, QuietStep DEF Unblock, Holding, Carrying
<1>8. CASE Finish(f)
  <2>1. Moved(f, {"unblock", "dismiss"}, flow[f].tries)
    BY <1>0, <1>8, GoesStays DEF Finish, Labels, Stays
  <2>2. OtherTypes' /\ OwnData'
    BY <1>0, <1>8 DEF Finish, OtherTypes, OwnData
  <2>3. TriesOf(f)'
    BY <1>0, <1>8, <2>1 DEF Finish, Moved, TriesOf, Within, At, Idle
  <2>4. QED
    BY <1>0, <1>8, <2>1, <2>2, <2>3, QuietStep DEF Finish, Holding, Carrying
<1>9. QED
  BY <1>2, <1>3, <1>4, <1>5, <1>6, <1>7, <1>8

\* What is read waits behind what was read before.
LEMMA ReadsKeep ==
    ASSUME TypeOK, ReadingsInv, NEW b \in Callers \cup {Nobody}, Reads(b),
           UNCHANGED <<ctrl, turned, lastMode, auto, slip>>,
           NEW f \in Callers, NEW labels, NEW tries, Moved(f, labels, tries),
           labels \cap Carrying = {} \/ b = f
    PROVE  readings' \in Seq(Reading) /\ ReadingsInv'
<1> DEFINE x == [by |-> b, mode |-> ctrl.mode, late |-> FALSE]
<1>1. x \in Reading /\ x.by = b /\ x.mode = ctrl.mode /\ readings \in Seq(Reading)
      /\ readings' = Append(readings, x)
  BY DEF TypeOK, Reading, Reads
<1> HIDE DEF x
<1>2. /\ readings' \in Seq(Reading) /\ Len(readings) \in Nat
      /\ DOMAIN readings = 1..Len(readings) /\ DOMAIN readings' = 1..Len(readings) + 1
      /\ \A j \in DOMAIN readings : readings'[j] = readings[j]
      /\ readings'[Len(readings) + 1] = x
  BY <1>1
<1>3. ReadingKnown'
  <2>1. SUFFICES ASSUME NEW g \in Callers, Within(g, Carrying)'
                 PROVE  \E i \in DOMAIN readings' : readings'[i].by = g
    BY DEF ReadingKnown
  <2>2. CASE g = f
    <3>1. b = f
      BY <2>1, <2>2 DEF Moved, Within
    <3>2. QED
      BY <1>1, <1>2, <2>2, <3>1
  <2>3. CASE g # f
    <3>1. Within(g, Carrying)
      BY <2>1, <2>3 DEF Moved, Within
    <3>2. PICK i \in DOMAIN readings : readings[i].by = g
      BY <3>1 DEF ReadingsInv, ReadingKnown
    <3>3. QED
      BY <1>2, <3>2
  <2>4. QED
    BY <2>2, <2>3
<1>4. ModesInOrder'
  <2>1. SUFFICES ASSUME ~turned PROVE ModesInOrder'
    BY DEF ModesInOrder
  <2>2. /\ \A j, k \in DOMAIN readings :
             j < k /\ readings[j].mode = "software" => readings[k].mode = "software"
        /\ \A j \in DOMAIN readings : readings[j].mode = "software" => ctrl.mode = "software"
        /\ lastMode = "software" =>
             /\ ctrl.mode = "software"
             /\ \A j \in DOMAIN readings : readings[j].late \/ readings[j].mode = "software"
    BY <2>1 DEF ReadingsInv, ModesInOrder
  <2>3. \A j \in DOMAIN readings' : j \in DOMAIN readings \/ j = Len(readings) + 1
    BY <1>2
  <2>4. \A j, k \in DOMAIN readings' : j < k => j \in DOMAIN readings
    BY <1>2
  <2>5. \A j, k \in DOMAIN readings' :
          j < k /\ readings'[j].mode = "software" => readings'[k].mode = "software"
    BY <1>1, <1>2, <2>2, <2>3, <2>4
  <2>6. /\ \A j \in DOMAIN readings' : readings'[j].mode = "software" => ctrl'.mode = "software"
        /\ lastMode' = "software" =>
             /\ ctrl'.mode = "software"
             /\ \A j \in DOMAIN readings' :
                    readings'[j].late \/ readings'[j].mode = "software"
    BY <1>1, <1>2, <2>2, <2>3
  <2>7. QED
    BY <2>5, <2>6 DEF ModesInOrder
<1>5. AutoStays'
  BY DEF ReadingsInv, AutoStays
<1>6. QED
  BY <1>2, <1>3, <1>4, <1>5 DEF ReadingsInv

\* A connect hands the state it read to a goroutine.
LEMMA HandsOver ==
    ASSUME TypeOK, ReadingsInv, NEW f \in Callers, Within(f, Carrying),
           readings' = [readings EXCEPT ![Mine(f)].by = Nobody],
           UNCHANGED <<ctrl, turned, lastMode, auto, slip>>,
           NEW labels, NEW tries, Moved(f, labels, tries), labels \cap Carrying = {}
    PROVE  readings' \in Seq(Reading) /\ ReadingsInv'
<1> DEFINE m == Mine(f)
<1>1. m \in DOMAIN readings /\ readings[m].by = f
  BY DEF ReadingsInv, ReadingKnown, Mine
<1>2. readings \in Seq(Reading) /\ readings' = [readings EXCEPT ![m].by = Nobody]
  BY DEF TypeOK
<1> HIDE DEF m
<1>3. /\ Len(readings) \in Nat /\ DOMAIN readings = 1..Len(readings)
      /\ \A j \in DOMAIN readings : readings[j] \in Reading
  BY <1>2
<1>4. /\ DOMAIN readings' = DOMAIN readings
      /\ \A j \in DOMAIN readings :
           /\ readings'[j] \in Reading /\ readings'[j].mode = readings[j].mode
           /\ readings'[j].late = readings[j].late
           /\ j # m => readings'[j].by = readings[j].by
  <2>1. [readings[m] EXCEPT !.by = Nobody] \in Reading
    BY <1>1, <1>3 DEF Reading
  <2>2. \A j \in DOMAIN readings :
          readings'[j] = IF j = m THEN [readings[m] EXCEPT !.by = Nobody] ELSE readings[j]
    BY <1>1, <1>2
  <2>3. [readings[m] EXCEPT !.by = Nobody].mode = readings[m].mode
        /\ [readings[m] EXCEPT !.by = Nobody].late = readings[m].late
    BY <1>1, <1>3 DEF Reading
  <2>4. DOMAIN readings' = DOMAIN readings
    BY <1>2
  <2>5. QED
    BY <1>3, <2>1, <2>2, <2>3, <2>4
<1>5. readings' \in Seq(Reading)
  <2>1. readings' \in [1..Len(readings) -> Reading]
    BY <1>2, <1>3, <1>4
  <2>2. QED
    BY <1>3, <2>1
<1>6. ReadingKnown'
  <2>1. SUFFICES ASSUME NEW g \in Callers, Within(g, Carrying)'
                 PROVE  \E i \in DOMAIN readings' : readings'[i].by = g
    BY DEF ReadingKnown
  <2>2. g # f /\ Within(g, Carrying)
    BY <2>1 DEF Moved, Within
  <2>3. PICK i \in DOMAIN readings : readings[i].by = g
    BY <2>2 DEF ReadingsInv, ReadingKnown
  <2>4. QED
    BY <1>1, <1>4, <2>2, <2>3
<1>7. ModesInOrder' /\ AutoStays'
  BY <1>4 DEF ReadingsInv, ModesInOrder, AutoStays
<1>8. QED
  BY <1>5, <1>6, <1>7 DEF ReadingsInv

\* A step of the flow in a request, or of the one that takes the mutex.
LEMMA RequestStep ==
    ASSUME IInv, NEW f \in Flows, NEW labels, NEW tries, Moved(f, labels, tries),
           ~At(f, "idle"), holder \in {Nobody, f}, HolderOf(f)', TriesOf(f)',
           ReadingsInv', BarrierKnown', OtherTypes', OwnData'
    PROVE  IInv'
<1>1. TypeOK /\ FlowsInv /\ f \in Callers /\ f # Health
  BY CallerAssumption DEF IInv, Callers
<1>2. FlowsInv'
  BY <1>1, FlowsKept
<1>3. TypeOK'
  BY DEF Moved, TypeOK, OtherTypes
<1>4. QED
  BY <1>2, <1>3 DEF IInv

\* Taking m.mutex, the first look at the barrier, and operationControl.begin.
LEMMA EntersKeep ==
    ASSUME IInv, NEW f \in Callers, Enter(f) \/ Begin(f) \/ Option(f) \/ Tune(f)
    PROVE  IInv'
<1> USE DEF manager, core, told, world, locks
<1>0. /\ TypeOK /\ OtherTypes /\ FlowsInv /\ ReadingsInv /\ BarrierKnown /\ OwnData
      /\ f \in Flows /\ HolderOf(f) /\ TriesOf(f) /\ ~At(f, "idle")
      /\ gen' \in {gen, gen + 1} /\ Nobody \notin Callers
  BY Mover DEF Checking, At, Enter, Begin, Option, Tune
<1>1. holder \in {Nobody, f}
  BY <1>0 DEF Enter, Begin, Option, Tune, MutexFree, HolderOf, Within, Holding, At
<1>2. CASE Enter(f)
  <2>1. Moved(f, {"begin", "idle", "unconnected", "result"}, flow[f].tries)
    BY <1>0, <1>2, GoesStays, EndsStays DEF Enter, Labels, Stays
  <2>2. OtherTypes' /\ OwnData'
    BY <1>0, <1>2 DEF Enter, OtherTypes, OwnData
  <2>3. HolderOf(f)'
    <3>1. flow'[f].pc = "begin" => holder' = f /\ (flow[f].kind = "set" => connected)
      <4>1. CASE /\ flow' = Goes(f, "begin") /\ holder' = f
                 /\ connected = (flow[f].kind = "set")
        BY <4>1
      <4>2. CASE \/ flow' = Ends(f)
                 \/ \E label \in {"unconnected", "result"} : flow' = Goes(f, label)
        BY <1>0, <4>2, MovesThere DEF Callers
      <4>3. QED
        BY <1>2, <4>1, <4>2 DEF Enter
    <3>2. connected' = connected /\ (flow'[f] = Idle \/ flow'[f].kind = flow[f].kind)
      BY <1>2, <2>1 DEF Enter, Moved
    <3>3. QED
      BY <2>1, <3>1, <3>2 DEF HolderOf, Moved, Within, Holding, Operating, Idle
  <2>4. TriesOf(f)'
    BY <1>0, <1>2, <2>1 DEF Enter, Moved, TriesOf, Within, At, Idle
  <2>5. ReadingsInv'
    BY <1>0, <1>2, <2>1, ReadingsKept DEF Enter, Carrying
  <2>6. BarrierKnown'
    BY <1>0, <1>1, <2>1, BarrierFree DEF Committed, Operating, Holding
  <2>7. QED
    BY <1>0, <1>1, <2>1, <2>2, <2>3, <2>4, <2>5, <2>6, RequestStep
<1>3. CASE Begin(f)
  <2>1. Moved(f, {"check"}, flow[f].tries) /\ flow'[f].pc = "check"
        /\ flow'[f].kind = flow[f].kind
    BY <1>0, <1>3, GoesStays DEF Begin, Labels, Stays
  <2>2. OtherTypes' /\ OwnData'
    BY <1>0, <1>3 DEF Begin, OtherTypes, OwnData
  <2>3. HolderOf(f)'
    BY <1>0, <1>3, <2>1 DEF Begin, HolderOf, Within, At, Holding, Operating
  <2>4. TriesOf(f)'
    BY <1>0, <1>3, <2>1 DEF Begin, Moved, TriesOf, Within, At, Idle
  <2>5. ReadingsInv'
    BY <1>0, <1>3, <2>1, ReadingsKept DEF Begin, Carrying
  <2>6. BarrierKnown'
    BY <1>0, <1>1, <2>1, BarrierFree DEF Committed, Operating, Holding
  <2>7. QED
    BY <1>0, <1>1, <2>1, <2>2, <2>3, <2>4, <2>5, <2>6, RequestStep
<1>4. CASE Option(f)
  <2>1. Moved(f, {"tune", "idle"}, flow[f].tries)
    BY <1>0, <1>4, GoesStays, EndsStays DEF Option, Labels, Stays
  <2>2. OtherTypes' /\ OwnData'
    BY <1>0, <1>4 DEF Option, OtherTypes, OwnData
  <2>3. HolderOf(f)'
    <3>1. flow'[f].pc = "tune" => holder' = f
      BY <1>0, <1>4, MovesThere DEF Option, Callers
    <3>2. QED
      BY <2>1, <3>1 DEF HolderOf, Moved, Within, Holding, Operating
  <2>4. TriesOf(f)'
    BY <1>0, <1>4, <2>1 DEF Option, Moved, TriesOf, Within, At, Idle
  <2>5. ReadingsInv'
    BY <1>0, <1>4, <2>1, ReadingsKept DEF Option, Carrying
  <2>6. BarrierKnown'
    BY <1>0, <1>1, <2>1, BarrierFree DEF Committed, Operating, Holding
  <2>7. QED
    BY <1>0, <1>1, <2>1, <2>2, <2>3, <2>4, <2>5, <2>6, RequestStep
<1>5. CASE Tune(f)
  <2>1. Moved(f, {"idle"}, flow[f].tries)
    BY <1>0, <1>5, EndsStays DEF Tune, Stays
  <2>2. OtherTypes' /\ OwnData'
    BY <1>0, <1>5 DEF Tune, OtherTypes, OwnData
  <2>3. HolderOf(f)'
    BY <2>1 DEF HolderOf, Moved, Within, Holding, Operating
  <2>4. TriesOf(f)'
    BY <1>0, <1>5, <2>1 DEF Tune, Moved, TriesOf, Within, At, Idle
  <2>5. ReadingsInv'
    BY <1>0, <1>5, <2>1, ReadingsKept DEF Tune, Carrying
  <2>6. BarrierKnown'
    BY <1>0, <1>1, <2>1, BarrierFree DEF Committed, Operating, Holding
  <2>7. QED
    BY <1>0, <1>1, <2>1, <2>2, <2>3, <2>4, <2>5, <2>6, RequestStep
<1>6. QED
  BY <1>2, <1>3, <1>4, <1>5

\* The operation of a connect, and of a speed write.
LEMMA OperationsKeep ==
    ASSUME IInv, NEW f \in Callers,
           \/ Check(f) \/ State(f) \/ Publish(f) \/ Post(f) \/ Posted(f) \/ ReadBack(f)
    PROVE  IInv'
<1> USE DEF manager, core, told, world, locks
<1>0. /\ TypeOK /\ OtherTypes /\ FlowsInv /\ ReadingsInv /\ BarrierKnown /\ OwnData
      /\ f \in Flows /\ HolderOf(f) /\ TriesOf(f) /\ ~At(f, "idle")
      /\ gen' \in {gen, gen + 1} /\ gen' = gen /\ Nobody \notin Callers
      /\ ~Within(f, {"hush", "seal"}) /\ flow[f] \in Flow(gen) /\ gen \in Nat
  BY Mover DEF Checking, At, Within, Check, State, Publish, Post, Posted, ReadBack
<1>1. holder = f /\ op.flow = f
  BY <1>0 DEF Check, State, Publish, Post, Posted, ReadBack, HolderOf, Within, Holding,
     Operating, At
<1>2. CASE Check(f)
  <2>1. CASE ~blocked
    <3>1. Moved(f, {"post", "state"}, flow[f].tries)
          /\ UNCHANGED <<holder, op, connected, blocked>>
      BY <1>0, <1>2, <2>1, GoesStays, ZenonT(60) DEF Check, Labels, Stays
    <3>2. OtherTypes' /\ OwnData'
      BY <1>0, <1>2, <2>1 DEF Check, OtherTypes, OwnData
    <3>3. HolderOf(f)' /\ TriesOf(f)'
      <4>1. flow'[f].pc = "post" => flow[f].kind = "set"
        BY <1>0, <1>2, <2>1, MovesThere DEF Check, Callers
      <4>2. flow'[f].pc = "post" => connected /\ flow[f].tries = 0
        BY <1>0, <1>2, <4>1 DEF Check, HolderOf, TriesOf, At, Within
      <4>3. HolderOf(f)'
        BY <1>1, <3>1, <4>2 DEF HolderOf, Moved, Within, Holding, Operating, Idle
      <4>4. TriesOf(f)'
        BY <1>0, <1>2, <3>1, <4>2, NumberAssumption
           DEF Check, TriesOf, Moved, Within, At, Idle
      <4>5. QED
        BY <4>3, <4>4
    <3>4. ReadingsInv'
      BY <1>0, <1>2, <3>1, ReadingsKept DEF Check, Carrying
    <3>5. BarrierKnown'
      BY <2>1, <3>1 DEF BarrierKnown
    <3>6. QED
      BY <1>0, <1>1, <3>1, <3>2, <3>3, <3>4, <3>5, RequestStep, SMTT(60)
  <2>2. CASE blocked
    <3>1. Moved(f, {"idle", "unconnected"}, flow[f].tries)
      BY <1>0, <1>2, <2>2, GoesStays, EndsStays DEF Check, Labels, Stays
    <3>2. OtherTypes' /\ OwnData'
      <4>1. /\ holder' = Nobody /\ op' = NoOperation
            /\ UNCHANGED <<manager, core, told, world, blocked>>
        BY <1>2, <2>2 DEF Check, Releases
      <4>2. OwnData' /\ op' \in [flow : Flows \cup {Nobody}, cancelled : BOOLEAN]
        BY <1>0, <4>1 DEF OwnData, NoOperation
      <4>3. QED
        BY <1>0, <4>1, <4>2 DEF OtherTypes
    <3>3. HolderOf(f)' /\ TriesOf(f)'
      BY <1>0, <1>2, <3>1
         DEF Check, HolderOf, TriesOf, Moved, Within, Holding, Operating, At, Idle
    <3>4. ReadingsInv'
      BY <1>0, <1>2, <3>1, ReadingsKept DEF Check, Carrying
    <3>5. BarrierKnown'
      BY <1>0, <1>1, <3>1, BarrierFree DEF Committed, Operating, Holding
    <3>6. QED
      BY <1>0, <1>1, <3>1, <3>2, <3>3, <3>4, <3>5, RequestStep
  <2>3. QED
    BY <2>1, <2>2
<1>3. CASE State(f)
  <2>1. CASE Reads(f) /\ flow' = Goes(f, "probe") /\ UNCHANGED <<holder, op>>
    <3>1. Moved(f, {"probe"}, flow[f].tries)
      BY <1>0, <1>3, <2>1, GoesStays DEF Labels, Stays
    <3>2. readings' \in Seq(Reading) /\ ReadingsInv'
      BY <1>0, <1>3, <2>1, <3>1, ReadsKeep DEF State
    <3>3. OtherTypes' /\ OwnData'
      BY <1>0, <1>3, <2>1, <3>2 DEF State, OtherTypes, OwnData
    <3>4. HolderOf(f)' /\ TriesOf(f)'
      BY <1>0, <1>1, <1>3, <2>1, <3>1
         DEF State, HolderOf, TriesOf, Moved, Within, Holding, Operating, At, Idle
    <3>5. BarrierKnown'
      BY <1>0, <1>3, <2>1, <3>1, BarrierKept
         DEF State, Committed, Operating, Holding, Within, At
    <3>6. QED
      BY <1>0, <1>1, <3>1, <3>2, <3>3, <3>4, <3>5, RequestStep
  <2>2. CASE Releases /\ flow' = Goes(f, "unconnected") /\ UNCHANGED readings
    <3>1. Moved(f, {"unconnected"}, flow[f].tries)
      BY <1>0, <1>3, <2>2, GoesStays DEF Labels, Stays
    <3>2. OtherTypes' /\ OwnData'
      BY <1>0, <1>3, <2>2 DEF State, OtherTypes, OwnData, Releases, NoOperation
    <3>3. HolderOf(f)' /\ TriesOf(f)'
      BY <1>0, <1>3, <3>1
         DEF State, HolderOf, TriesOf, Moved, Within, Holding, Operating, At, Idle
    <3>4. ReadingsInv'
      BY <1>0, <1>3, <2>2, <3>1, ReadingsKept DEF State, Carrying
    <3>5. BarrierKnown'
      BY <1>0, <1>1, <3>1, BarrierFree DEF Committed, Operating, Holding
    <3>6. QED
      BY <1>0, <1>1, <3>1, <3>2, <3>3, <3>4, <3>5, RequestStep
  <2>3. QED
    BY <1>3, <2>1, <2>2 DEF State
<1>4. CASE Publish(f)
  <2>1. Moved(f, {"result"}, flow[f].tries)
    BY <1>0, <1>4, GoesStays DEF Publish, Labels, Stays
  <2>2. readings' \in Seq(Reading) /\ ReadingsInv'
    BY <1>0, <1>4, <2>1, HandsOver DEF Publish, Carrying, Within, At
  <2>3. OtherTypes' /\ OwnData'
    <3>1. loop' \in Loops \cup {NoLoop} /\ loops' \in [Loops -> Loop(gen)]
      <4>1. CASE UNCHANGED <<loop, loops>>
        BY <1>0, <4>1 DEF OtherTypes
      <4>2. CASE /\ \E l \in Loops : loops[l].pc = "ended"
                 /\ loop' = FreeLoop
                 /\ loops' = [loops EXCEPT ![FreeLoop] =
                                [pc |-> "post", at |-> at, gen |-> 0]]
        <5>1. FreeLoop \in Loops
          BY <4>2 DEF FreeLoop
        <5>2. [pc |-> "post", at |-> at, gen |-> 0] \in Loop(gen)
          BY <1>0 DEF OtherTypes, Loop
        <5>3. QED
          BY <1>0, <4>2, <5>1, <5>2 DEF OtherTypes
      <4>3. QED
        BY <1>4, <4>1, <4>2 DEF Publish
    <3>2. /\ connected' = TRUE /\ fanData' = gen /\ holder' = Nobody /\ op' = NoOperation
          /\ UNCHANGED <<at, gen, misses, core, lastMode, auto, slip, world, blocked>>
      BY <1>4 DEF Publish, Releases
    <3>3. OwnData' /\ connected' \in BOOLEAN /\ fanData' \in 0..gen'
          /\ op' \in [flow : Flows \cup {Nobody}, cancelled : BOOLEAN]
      BY <1>0, <3>2 DEF OwnData, NoOperation
    <3>4. QED
      BY <1>0, <2>2, <3>1, <3>2, <3>3 DEF OtherTypes
  <2>4. HolderOf(f)' /\ TriesOf(f)'
    BY <1>0, <1>4, <2>1
       DEF Publish, HolderOf, TriesOf, Moved, Within, Holding, Operating, At, Idle
  <2>5. BarrierKnown'
    BY <1>0, <1>1, <2>1, BarrierFree DEF Committed, Operating, Holding
  <2>6. QED
    BY <1>0, <1>1, <2>1, <2>2, <2>3, <2>4, <2>5, RequestStep
<1>5. CASE Post(f)
  <2>1. CASE Releases /\ flow' = Ends(f)
    <3>1. Moved(f, {"idle"}, flow[f].tries)
      BY <1>0, <2>1, EndsStays DEF Stays
    <3>2. OtherTypes' /\ OwnData'
      BY <1>0, <1>5, <2>1 DEF Post, OtherTypes, OwnData, Releases, NoOperation
    <3>3. HolderOf(f)' /\ TriesOf(f)'
      BY <1>0, <2>1, MovesThere
         DEF HolderOf, TriesOf, Within, Holding, Operating, At, Idle, Callers
    <3>4. ReadingsInv'
      BY <1>0, <1>5, <3>1, ReadingsKept DEF Post, Carrying
    <3>5. BarrierKnown'
      BY <1>0, <1>1, <3>1, BarrierFree DEF Committed, Operating, Holding
    <3>6. QED
      BY <1>0, <1>1, <3>1, <3>2, <3>3, <3>4, <3>5, RequestStep
  <2>2. CASE /\ flow' = [flow EXCEPT ![f].pc = "posted", ![f].tries = @ + 1]
             /\ UNCHANGED <<holder, op>>
    <3> DEFINE w == [flow[f] EXCEPT !.pc = "posted", !.tries = @ + 1]
               t == flow[f].tries + 1
    <3>1. /\ t \in 0..Attempts /\ "posted" \in Labels
          /\ At(f, "post") /\ connected
      BY <1>0, <1>5, NumberAssumption DEF Post, TriesOf, HolderOf, Flow, Labels, At, Within
    <3>2. w \in Flow(gen') /\ w.pc = "posted" /\ w.kind = flow[f].kind /\ w.tries = t
      BY <1>0, <3>1 DEF Flow
    <3>3. flow' = [flow EXCEPT ![f] = w] /\ flow'[f] = w
      BY <1>0, <2>2 DEF TypeOK
    <3> HIDE DEF w, t
    <3>4. Moved(f, {"posted"}, t)
      BY <1>0, <3>2, <3>3, Sets
    <3>5. OtherTypes' /\ OwnData'
      BY <1>0, <1>5, <2>2 DEF Post, OtherTypes, OwnData
    <3>6. HolderOf(f)' /\ TriesOf(f)'
      BY <1>1, <1>5, <2>2, <3>1, <3>2, <3>3
         DEF Post, HolderOf, TriesOf, Within, Holding, Operating, At
    <3>7. ReadingsInv'
      BY <1>0, <1>5, <3>4, ReadingsKept DEF Post, Carrying
    <3>8. BarrierKnown'
      BY <1>0, <1>5, <2>2, <3>1, <3>4, BarrierKept
         DEF Post, Committed, Operating, Holding, Within, At
    <3>9. QED
      BY <1>0, <1>1, <3>4, <3>5, <3>6, <3>7, <3>8, RequestStep
  <2>3. QED
    BY <1>5, <2>1, <2>2 DEF Post
<1>6. CASE Posted(f)
  <2>1. ctrl' \in [at : Endpoints \cup {Away}, mode : {"manual", "software"}]
        /\ (ctrl'.mode = ctrl.mode \/ ctrl'.mode = "software")
    BY <1>0, <1>6 DEF Posted, OtherTypes
  <2>2. CASE /\ UNCHANGED <<holder, op>>
             /\ \/ flow' = Goes(f, "read")
                \/ flow' = Goes(f, "post") /\ flow[f].tries < Attempts
    <3>1. Moved(f, {"read", "post"}, flow[f].tries)
      BY <1>0, <2>2, GoesStays DEF Labels, Stays
    <3>2. OtherTypes' /\ OwnData'
      BY <1>0, <1>6, <2>1, <2>2 DEF Posted, OtherTypes, OwnData
    <3>3. HolderOf(f)' /\ TriesOf(f)'
      <4>1. connected /\ connected' = connected
        BY <1>0, <1>6 DEF Posted, HolderOf, Within, At
      <4>2. /\ flow'[f].pc \in {"read", "post"} /\ flow'[f].tries = flow[f].tries
            /\ flow'[f].pc = "post" => flow[f].tries < Attempts
        BY <1>0, <2>2, MovesThere DEF Callers
      <4>3. QED
        BY <1>1, <2>2, <4>1, <4>2 DEF HolderOf, TriesOf, Within, Holding, Operating, At
    <3>4. ReadingsInv'
      BY <1>0, <1>6, <2>1, <3>1, ReadingsKept DEF Posted, Carrying
    <3>5. BarrierKnown'
      BY <1>0, <1>6, <2>2, <3>1, BarrierKept
         DEF Posted, Committed, Operating, Holding, Within, At
    <3>6. QED
      BY <1>0, <1>1, <3>1, <3>2, <3>3, <3>4, <3>5, RequestStep
  <2>3. CASE Releases /\ flow' = Ends(f)
    <3>1. Moved(f, {"idle"}, flow[f].tries)
      BY <1>0, <2>3, EndsStays DEF Stays
    <3>2. OtherTypes' /\ OwnData'
      BY <1>0, <1>6, <2>1, <2>3 DEF Posted, OtherTypes, OwnData, Releases, NoOperation
    <3>3. HolderOf(f)' /\ TriesOf(f)'
      BY <1>0, <2>3, MovesThere
         DEF HolderOf, TriesOf, Within, Holding, Operating, At, Idle, Callers
    <3>4. ReadingsInv'
      BY <1>0, <1>6, <2>1, <3>1, ReadingsKept DEF Posted, Carrying
    <3>5. BarrierKnown'
      BY <1>0, <1>1, <3>1, BarrierFree DEF Committed, Operating, Holding
    <3>6. QED
      BY <1>0, <1>1, <3>1, <3>2, <3>3, <3>4, <3>5, RequestStep
  <2>4. QED
    BY <1>6, <2>2, <2>3 DEF Posted
<1>7. CASE ReadBack(f)
  <2>1. Moved(f, {"idle"}, flow[f].tries)
    BY <1>0, <1>7, EndsStays DEF ReadBack, Stays
  <2>2. readings' \in Seq(Reading) /\ ReadingsInv'
    <3>1. CASE Reads(Nobody)
      BY <1>0, <1>7, <2>1, <3>1, ReadsKeep DEF ReadBack, Carrying
    <3>2. CASE UNCHANGED readings
      BY <1>0, <1>7, <2>1, <3>2, ReadingsKept DEF ReadBack, Carrying, OtherTypes
    <3>3. QED
      BY <1>7, <3>1, <3>2 DEF ReadBack
  <2>3. OtherTypes' /\ OwnData'
    <3>1. connected
      BY <1>0, <1>7 DEF ReadBack, HolderOf, Within, At
    <3>2. fanData' = gen
      BY <1>0, <1>7, <3>1 DEF ReadBack, OwnData
    <3>3. QED
      BY <1>0, <1>7, <2>2, <3>1, <3>2
         DEF ReadBack, OtherTypes, OwnData, Releases, NoOperation
  <2>4. HolderOf(f)' /\ TriesOf(f)'
    BY <1>0, <1>7, MovesThere
       DEF ReadBack, HolderOf, TriesOf, Within, Holding, Operating, At, Idle, Callers
  <2>5. BarrierKnown'
    BY <1>0, <1>1, <2>1, BarrierFree DEF Committed, Operating, Holding
  <2>6. QED
    BY <1>0, <1>1, <2>1, <2>2, <2>3, <2>4, <2>5, RequestStep
<1>8. QED
  BY <1>2, <1>3, <1>4, <1>5, <1>6, <1>7

\* A disconnect, and the barrier with what it waits for.
LEMMA DisconnectsKeep ==
    ASSUME IInv, NEW f \in Callers, Disconnects(f)
    PROVE  IInv'
<1> USE DEF manager, core, told, world, locks
<1>0. /\ TypeOK /\ OtherTypes /\ FlowsInv /\ ReadingsInv /\ BarrierKnown /\ OwnData
      /\ HolderOf(f) /\ TriesOf(f) /\ flow[f] \in Flow(gen) /\ gen \in Nat \ {0}
      /\ ~At(f, "idle") /\ Callers = Flows \cup {Health} /\ Nobody \notin Callers
      /\ f = Health => flow[f].pc \in Checking
  BY Mover DEF Disconnects, Cancel, Close, Block, Hush, Seal, At
<1>1. CancelActive => /\ op' \in [flow : Flows \cup {Nobody}, cancelled : BOOLEAN]
                      /\ op'.flow = op.flow
                      /\ op'.cancelled = op.cancelled \/ op'.cancelled = TRUE
                      /\ op.flow # Nobody => op'.cancelled = TRUE
  BY <1>0 DEF CancelActive, OtherTypes
<1>2. CASE Cancel(f)
  <2>1. Moved(f, IF f = Health THEN {"close"} ELSE {"close", "part"}, flow[f].tries)
    BY <1>0, <1>2, GoesStays DEF Cancel, Labels, Stays, Checking, At
  <2>2. OtherTypes' /\ OwnData'
    <3>1. /\ op' \in [flow : Flows \cup {Nobody}, cancelled : BOOLEAN]
          /\ UNCHANGED <<manager, core, told, world, holder, blocked>>
      BY <1>1, <1>2 DEF Cancel
    <3>2. QED
      BY <1>0, <3>1 DEF OtherTypes, OwnData
  <2>3. TriesOf(f)'
    BY <1>0, <1>2, <2>1 DEF Cancel, Moved, TriesOf, Within, At, Idle
  <2>4. QED
    BY <1>0, <1>1, <1>2, <2>1, <2>2, <2>3, QuietStep
       DEF Cancel, Holding, Carrying, Checking, Within, At
<1>3. CASE Close(f)
  <2>1. /\ gen' \in {gen, gen + 1}
        /\ connected' => connected /\ gen' = gen
        /\ \/ UNCHANGED <<connected, fanData, loop, misses>>
           \/ Closes
        /\ ~connected => UNCHANGED <<connected, fanData, loop, misses>>
        /\ UNCHANGED <<at, loops, saved, failed, fresh, told, world, locks>>
        /\ gate' \in Flows \cup {Nobody}
    BY <1>0, <1>3 DEF Close, DisconnectsLocked, Closes, OtherTypes
  <2>2. Moved(f, IF f = Health THEN {"idle"} ELSE {"idle", "configure"}, flow[f].tries)
    <3>1. CASE f = Health
      <4>1. flow[f].kind = "health"
        BY <1>0, <1>3, <3>1 DEF Close, FlowsInv, HealthKnown, At
      <4>2. flow' = Ends(f)
        BY <1>3, <4>1 DEF Close
      <4>3. QED
        BY <1>0, <2>1, <3>1, <4>2, EndsStays DEF Stays
    <3>2. CASE f # Health
      <4>1. flow' = Goes(f, "configure") \/ flow' = Ends(f)
        BY <1>3 DEF Close
      <4>2. Moved(f, {"idle", "configure"}, flow[f].tries)
        BY <1>0, <2>1, <4>1, GoesStays, EndsStays DEF Labels, Stays
      <4>3. QED
        BY <3>2, <4>2
    <3>3. QED
      BY <3>1, <3>2
  <2>3. OtherTypes' /\ OwnData'
    <3>1. gen' \in Nat \ {0} /\ fanData' \in 0..gen' /\ loops' \in [Loops -> Loop(gen')]
      BY <1>0, <2>1, FlowGrows DEF Closes, None, OtherTypes
    <3>2. connected' \in BOOLEAN /\ loop' \in Loops \cup {NoLoop}
          /\ misses' \in 0..MissThreshold
      <4>1. CASE UNCHANGED <<connected, fanData, loop, misses>>
        BY <1>0, <4>1 DEF OtherTypes
      <4>2. CASE Closes
        <5>1. 0 \in 0..MissThreshold
          BY NumberAssumption
        <5>2. QED
          BY <4>2, <5>1 DEF Closes
      <4>3. QED
        BY <2>1, <4>1, <4>2
    <3>3. OwnData'
      BY <1>0, <2>1 DEF Closes, OwnData
    <3>4. QED
      BY <1>0, <2>1, <3>1, <3>2, <3>3 DEF OtherTypes
  <2>4. TriesOf(f)'
    BY <1>0, <1>3, <2>2 DEF Close, Moved, TriesOf, Within, At, Idle
  <2>5. holder = Nobody
    BY <1>3 DEF Close, MutexFree
  <2>6. QED
    BY <1>0, <1>3, <2>1, <2>2, <2>3, <2>4, <2>5, QuietStep
       DEF Close, Holding, Carrying, Checking, Within, At
<1>4. ASSUME f \in Flows, NEW labels \in {{"hush"}, {"seal"}, {"cancel"}},
             Moved(f, labels, flow[f].tries), Within(f, {"block", "hush", "seal"}),
             UNCHANGED <<manager, core, told, world, holder>>, OtherTypes', BarrierKnown',
             op'.flow = op.flow
      PROVE  IInv'
  <2>1. f # Health /\ labels \cap (Holding \cup Carrying) = {}
    BY <1>0, <1>4, CallerAssumption DEF Holding, Carrying
  <2>2. HolderOf(f)' /\ TriesOf(f)'
    BY <1>0, <1>4, <2>1 DEF HolderOf, TriesOf, Moved, Within, At, Holding, Operating, Idle
  <2>3. FlowsInv'
    BY <1>0, <1>4, <2>1, <2>2, FlowsKept
  <2>4. ReadingsInv'
    BY <1>0, <1>4, <2>1, ReadingsKept
  <2>5. OwnData' /\ TypeOK'
    BY <1>0, <1>4, TypesSplit DEF OwnData, Moved, TypeOK, OtherTypes
  <2>6. QED
    BY <1>4, <2>3, <2>4, <2>5 DEF IInv
<1>5. CASE Block(f)
  <2>1. f \in Flows
    BY <1>0, <1>5 DEF Block, At, Checking
  <2>2. Moved(f, {"hush"}, flow[f].tries) /\ flow'[f].pc = "hush"
    BY <1>0, <1>5, GoesStays DEF Block, Labels, Stays
  <2>3. OtherTypes' /\ UNCHANGED <<manager, core, told, world, holder, op>>
    BY <1>0, <1>5 DEF Block, OtherTypes
  <2>4. BarrierKnown'
    BY <2>1, <2>2 DEF BarrierKnown, AboutToCancel, At
  <2>5. Within(f, {"block", "hush", "seal"})
    BY <1>5 DEF Block, At, Within
  <2>6. QED
    BY <1>4, <2>1, <2>2, <2>3, <2>4, <2>5
<1>6. CASE Hush(f)
  <2>1. f \in Flows
    BY <1>0, <1>6 DEF Hush, At, Checking
  <2>2. Moved(f, {"seal"}, flow[f].tries) /\ flow'[f].pc = "seal"
    BY <1>0, <1>6, GoesStays DEF Hush, Labels, Stays
  <2>3. UNCHANGED <<manager, core, told, world, holder, blocked>> /\ CancelActive
    BY <1>6 DEF Hush
  <2>4. OtherTypes'
    BY <1>0, <1>1, <2>3 DEF OtherTypes
  <2>5. BarrierKnown'
    <3>1. SUFFICES ASSUME NEW g \in Callers, Within(g, Committed)'
                   PROVE  CancelledByBarrier'
      BY DEF BarrierKnown
    <3>2. Within(g, Committed)
      BY <2>2, <3>1 DEF Moved, Within, Committed, Operating, Holding
    <3>3. op.flow = g
      BY <1>0, <3>2 DEF FlowsInv, HolderKnown, HolderOf, Within, Committed
    <3>4. op'.cancelled = TRUE
      BY <1>0, <1>1, <2>3, <3>3
    <3>5. QED
      BY <2>1, <2>2, <3>4 DEF CancelledByBarrier, At
  <2>6. Within(f, {"block", "hush", "seal"})
    BY <1>6 DEF Hush, At, Within
  <2>7. QED
    BY <1>1, <1>4, <2>1, <2>2, <2>3, <2>4, <2>5, <2>6
<1>7. CASE Seal(f)
  <2>1. f \in Flows
    BY <1>0, <1>7 DEF Seal, At, Checking
  <2>2. Moved(f, {"cancel"}, flow[f].tries)
    BY <1>0, <1>7, GoesStays DEF Seal, Labels, Stays
  <2>3. UNCHANGED <<manager, core, told, world, locks>> /\ holder = Nobody
    BY <1>7 DEF Seal, MutexFree
  <2>4. OtherTypes'
    BY <1>0, <2>3 DEF OtherTypes
  <2>5. BarrierKnown'
    BY <1>0, <2>2, <2>3, BarrierFree DEF Committed, Operating, Holding
  <2>6. Within(f, {"block", "hush", "seal"})
    BY <1>7 DEF Seal, At, Within
  <2>7. QED
    BY <1>4, <2>1, <2>2, <2>3, <2>4, <2>5, <2>6
<1>8. QED
  BY <1>2, <1>3, <1>5, <1>6, <1>7 DEF Disconnects

\* How a refresh ends: one that failed may be the health check's last straw.
LEMMA RefreshEnds ==
    ASSUME TypeOK, NEW f \in Callers, Healthy(f) \/ Unhealthy(f), gen' = gen
    PROVE  /\ Moved(f, {"idle", "cancel"}, flow[f].tries)
           /\ Healthy(f) => Moved(f, {"idle"}, flow[f].tries)
           /\ failed' \in 0..HealthThreshold - 1
<1>1. failed \in 0..HealthThreshold - 1 /\ gen \in Nat
  BY DEF TypeOK
<1>2. failed' \in 0..HealthThreshold - 1
  BY <1>1, NumberAssumption DEF Healthy, Unhealthy
<1>3. flow' = Ends(f) => Moved(f, {"idle"}, flow[f].tries)
                         /\ Moved(f, {"idle", "cancel"}, flow[f].tries)
  BY <1>1, EndsStays DEF Stays
<1>4. ASSUME flow' = [flow EXCEPT ![f].pc = "cancel", ![f].gen = 0]
      PROVE  Moved(f, {"idle", "cancel"}, flow[f].tries)
  <2> DEFINE w == [flow[f] EXCEPT !.pc = "cancel", !.gen = 0]
  <2>1. flow[f] \in Flow(gen) /\ "cancel" \in Labels /\ 0 \in 0..gen
    BY <1>1 DEF TypeOK, Labels
  <2>2. w \in Flow(gen') /\ w.pc = "cancel" /\ w.kind = flow[f].kind
        /\ w.tries = flow[f].tries
    BY <2>1 DEF Flow
  <2>3. flow' = [flow EXCEPT ![f] = w]
    BY <1>4 DEF TypeOK
  <2> HIDE DEF w
  <2>4. QED
    BY <2>2, <2>3, Sets
<1>5. QED
  BY <1>2, <1>3, <1>4 DEF Healthy, Unhealthy

\* A step of a flow outside the requests that reads, tells or drops what it
\* read.
LEMMA ReadingStep ==
    ASSUME IInv, NEW f \in Callers, NEW labels, Moved(f, labels, flow[f].tries),
           f # Health \/ (labels \subseteq Checking),
           Within(f, {"type", "snap", "ask", "failed", "store", "show"}),
           labels \cap Holding = {}, UNCHANGED <<locks, connected>>,
           OtherTypes', OwnData', ReadingsInv'
    PROVE  IInv'
<1>1. TypeOK /\ FlowsInv /\ BarrierKnown /\ TriesOf(f)
  BY Mover DEF IInv
<1>2. /\ ~Within(f, {"hush", "seal"}) /\ ~At(f, "idle") /\ flow'[f].pc \notin Holding
      /\ labels \cap Committed = {} /\ UNCHANGED <<holder, op, blocked, connected>>
  BY DEF Within, At, Moved, Committed, Operating, locks
<1>3. HolderOf(f)'
  BY <1>2 DEF HolderOf, Within, Holding, Operating
<1>4. TriesOf(f)'
  <2>1. flow'[f] = Idle \/ (flow'[f].kind = flow[f].kind /\ flow'[f].tries = flow[f].tries)
    BY DEF Moved
  <2>2. QED
    BY <1>1, <1>2, <2>1 DEF TriesOf, Within, At, Holding, Idle
<1>5. FlowsInv'
  BY <1>1, <1>2, <1>3, <1>4, FlowsKept
<1>6. BarrierKnown'
  BY <1>1, <1>2, BarrierKept
<1>7. TypeOK'
  BY TypesSplit DEF Moved, TypeOK, OtherTypes
<1>8. QED
  BY <1>5, <1>6, <1>7 DEF IInv

\* A refresh, for the overview and for the health check.
LEMMA RefreshesKeep ==
    ASSUME IInv, NEW f \in Callers, Refreshes(f)
    PROVE  IInv'
<1> USE DEF manager, core, told, world, locks
<1>0. /\ TypeOK /\ OtherTypes /\ ReadingsInv /\ OwnData
      /\ flow[f] \in Flow(gen) /\ gen \in Nat \ {0} /\ gen' = gen
      /\ Within(f, {"type", "snap", "ask", "failed", "store", "show"})
  BY Mover DEF Refreshes, DeviceType, Snap, Ask, AskFailed, Store, Show, At, Within
<1>1. ASSUME NEW labels \in {{"snap"}, {"ask"}, {"idle"}, {"idle", "cancel"}},
             Moved(f, labels, flow[f].tries), failed' \in 0..HealthThreshold - 1,
             UNCHANGED <<manager, saved, gate, fresh, told, world, locks>>
      PROVE  IInv'
  <2>1. /\ labels \subseteq Checking /\ labels \cap Holding = {}
        /\ labels \cap Carrying = {}
    BY <1>1 DEF Checking, Holding, Carrying
  <2>2. OtherTypes' /\ OwnData'
    BY <1>0, <1>1 DEF OtherTypes, OwnData
  <2>3. ReadingsInv'
    BY <1>0, <1>1, <2>1, ReadingsKept
  <2>4. QED
    BY <1>0, <1>1, <2>1, <2>2, <2>3, ReadingStep
<1>2. CASE DeviceType(f)
  <2>1. CASE flow' = Goes(f, "snap") /\ failed' = failed
    <3>1. Moved(f, {"snap"}, flow[f].tries)
      BY <1>0, <2>1, GoesStays DEF Labels, Stays
    <3>2. QED
      BY <1>0, <1>1, <1>2, <2>1, <3>1 DEF DeviceType, OtherTypes
  <2>2. CASE Healthy(f)
    BY <1>0, <1>1, <1>2, <2>2, RefreshEnds DEF DeviceType
  <2>3. QED
    BY <1>2, <2>1, <2>2 DEF DeviceType
<1>3. CASE Snap(f)
  <2>1. CASE /\ flow' = [flow EXCEPT ![f].pc = "ask", ![f].gen = gen, ![f].at = at]
             /\ failed' = failed
    <3> DEFINE w == [flow[f] EXCEPT !.pc = "ask", !.gen = gen, !.at = at]
    <3>1. gen \in 0..gen /\ at \in Endpoints /\ "ask" \in Labels
      BY <1>0 DEF OtherTypes, Labels
    <3>2. w \in Flow(gen') /\ w.pc = "ask" /\ w.kind = flow[f].kind
          /\ w.tries = flow[f].tries
      BY <1>0, <3>1 DEF Flow
    <3>3. flow' = [flow EXCEPT ![f] = w]
      BY <2>1 DEF TypeOK
    <3> HIDE DEF w
    <3>4. Moved(f, {"ask"}, flow[f].tries)
      BY <1>0, <3>2, <3>3, Sets
    <3>5. QED
      BY <1>0, <1>1, <1>3, <2>1, <3>4 DEF Snap, OtherTypes
  <2>2. CASE Unhealthy(f)
    BY <1>0, <1>1, <1>3, <2>2, RefreshEnds DEF Snap
  <2>3. QED
    BY <1>3, <2>1, <2>2 DEF Snap
<1>4. CASE Ask(f)
  <2>1. Moved(f, {"store", "failed"}, flow[f].tries)
    BY <1>0, <1>4, GoesStays DEF Ask, Labels, Stays
  <2>2. readings' \in Seq(Reading) /\ ReadingsInv'
    <3>1. CASE Reads(f)
      BY <1>0, <1>4, <2>1, <3>1, ReadsKeep DEF Ask
    <3>2. CASE flow' = Goes(f, "failed") /\ UNCHANGED readings
      <4>1. Moved(f, {"failed"}, flow[f].tries)
        BY <1>0, <3>2, GoesStays DEF Labels, Stays
      <4>2. QED
        BY <1>0, <1>4, <3>2, <4>1, ReadingsKept DEF Ask, Carrying, OtherTypes
    <3>3. QED
      BY <1>4, <3>1, <3>2 DEF Ask
  <2>3. OtherTypes' /\ OwnData'
    BY <1>0, <1>4, <2>2 DEF Ask, OtherTypes, OwnData
  <2>4. QED
    BY <1>0, <1>4, <2>1, <2>2, <2>3, ReadingStep DEF Ask, Checking, Holding
<1>5. CASE AskFailed(f)
  BY <1>0, <1>1, <1>5, RefreshEnds DEF AskFailed
<1>6. CASE Store(f)
  <2>1. CASE Forgets(f) /\ Healthy(f) /\ UNCHANGED fanData
    <3>1. Moved(f, {"idle"}, flow[f].tries) /\ failed' \in 0..HealthThreshold - 1
      BY <1>0, <2>1, RefreshEnds
    <3>2. /\ Within(f, {"store"})
          /\ UNCHANGED <<manager, saved, gate, fresh, lastMode, auto, slip, world, locks>>
      BY <1>6, <2>1 DEF Store, Within, At
    <3>3. /\ readings' \in Seq(Reading) /\ ModesInOrder'
          /\ \A g \in Callers \ {f} : Within(g, Carrying) =>
                 \E j \in DOMAIN readings' : readings'[j].by = g
      BY <1>0, <2>1, <3>2, ForgetsReadings
    <3>4. ReadingKnown'
      <4>1. SUFFICES ASSUME NEW g \in Callers, Within(g, Carrying)'
                     PROVE  \E j \in DOMAIN readings' : readings'[j].by = g
        BY DEF ReadingKnown
      <4>2. g # f /\ Within(g, Carrying)
        BY <3>1, <4>1 DEF Moved, Within, Carrying
      <4>3. QED
        BY <3>3, <4>2
    <3>5. ReadingsInv'
      BY <1>0, <3>2, <3>3, <3>4 DEF ReadingsInv, AutoStays
    <3>6. OtherTypes' /\ OwnData'
      BY <1>0, <3>1, <3>2, <3>3 DEF OtherTypes, OwnData
    <3>7. QED
      BY <1>0, <3>1, <3>2, <3>5, <3>6, ReadingStep DEF Checking, Holding
  <2>2. CASE /\ ~Stale(f) /\ fanData' = flow[f].gen /\ flow' = Goes(f, "show")
             /\ UNCHANGED <<readings, failed>>
    <3>1. Moved(f, {"show"}, flow[f].tries)
      BY <1>0, <2>2, GoesStays DEF Labels, Stays
    <3>2. /\ Within(f, {"store"}) /\ fanData' = gen /\ connected
          /\ UNCHANGED <<connected, at, gen, loop, misses, loops, core, told, world, locks>>
      BY <1>6, <2>2 DEF Store, Stale, Within, At
    <3>3. OtherTypes' /\ OwnData'
      BY <1>0, <3>2 DEF OtherTypes, OwnData
    <3>4. ReadingsInv'
      BY <1>0, <3>1, <3>2, ReadingsKept DEF Within, Carrying
    <3>5. QED
      BY <1>0, <3>1, <3>2, <3>3, <3>4, ReadingStep DEF Checking, Holding
  <2>3. QED
    BY <1>6, <2>1, <2>2 DEF Store
<1>7. CASE Show(f)
  <2> DEFINE i == Mine(f)
  <2>1. i \in DOMAIN readings /\ readings[i].by = f
    BY <1>0, <1>7 DEF Show, At, ReadingsInv, ReadingKnown, Within, Carrying, Mine
  <2>2. /\ Told(i) /\ Healthy(f)
        /\ UNCHANGED <<manager, saved, gate, world, locks>>
    BY <1>7 DEF Show
  <2> HIDE DEF i
  <2>3. Moved(f, {"idle"}, flow[f].tries) /\ failed' \in 0..HealthThreshold - 1
    BY <1>0, <2>2, RefreshEnds
  <2>4. ModesInOrder' /\ AutoStays'
    BY <1>0, <2>1, <2>2, ToldKeepsModes
  <2>5. ReadingKnown'
    <3>1. SUFFICES ASSUME NEW g \in Callers, Within(g, Carrying)'
                   PROVE  \E j \in DOMAIN readings' : readings'[j].by = g
      BY DEF ReadingKnown
    <3>2. g # f /\ Within(g, Carrying)
      BY <2>3, <3>1 DEF Moved, Within, Carrying
    <3>3. QED
      BY <1>0, <2>1, <2>2, <3>2, ToldKeepsReadings DEF ReadingsInv
  <2>6. /\ readings' \in Seq(Reading) /\ lastMode' \in {"manual", "software"}
        /\ auto' \in BOOLEAN /\ slip' \in BOOLEAN /\ fresh' \in BOOLEAN
    BY <1>0, <2>1, <2>2, ToldReadings
  <2>7. OtherTypes' /\ OwnData'
    BY <1>0, <2>2, <2>3, <2>6 DEF OtherTypes, OwnData
  <2>8. QED
    BY <1>0, <2>2, <2>3, <2>4, <2>5, <2>7, ReadingStep DEF ReadingsInv, Checking, Holding
<1>8. QED
  BY <1>2, <1>3, <1>4, <1>5, <1>6, <1>7 DEF Refreshes

\* Steps that no flow makes: the heartbeats, the controller and its owner.
LEMMA StillKeeps ==
    ASSUME IInv, flow' = flow, gen' \in {gen, gen + 1}, holder' = holder, blocked' = blocked,
           op'.flow = op.flow, op'.cancelled = op.cancelled \/ op'.cancelled = TRUE,
           connected' = connected \/ holder = Nobody, OtherTypes', OwnData', ReadingsInv'
    PROVE  IInv'
<1>1. TypeOK /\ FlowsInv /\ BarrierKnown
  BY DEF IInv
<1>2. TypeOK'
  <2>1. flow \in [Callers -> Flow(gen')]
    BY <1>1, FlowGrows DEF TypeOK
  <2>2. QED
    BY <2>1 DEF TypeOK, OtherTypes
<1>3. HolderKnown'
  <2>1. SUFFICES ASSUME NEW f \in Callers PROVE HolderOf(f)'
    BY DEF HolderKnown
  <2>2. HolderOf(f)
    BY <1>1 DEF FlowsInv, HolderKnown
  <2>3. CASE connected' = connected
    BY <2>2, <2>3 DEF HolderOf, Within
  <2>4. CASE holder = Nobody
    <3>1. ~Within(f, Holding)
      BY <2>2, <2>4, CallerAssumption DEF HolderOf, Callers
    <3>2. QED
      BY <3>1 DEF HolderOf, Within, Holding, Operating
  <2>5. QED
    BY <2>3, <2>4
<1>4. FlowsInv'
  BY <1>1, <1>3 DEF FlowsInv, HealthKnown, TriesBounded, TriesOf, Within, At
<1>5. BarrierKnown'
  BY <1>1 DEF BarrierKnown, AboutToCancel, CancelledByBarrier, Within, At
<1>6. QED
  BY <1>2, <1>4, <1>5 DEF IInv

\* A call begins: the flow is outside the requests and has read nothing.
LEMMA Starts ==
    ASSUME IInv, NEW f \in Callers, At(f, "idle"), NEW w \in Flow(gen), w.tries = 0,
           w.pc \notin Holding \cup Carrying,
           f = Health => w.pc \in Checking /\ w.kind = "health",
           flow' = [flow EXCEPT ![f] = w], OtherTypes',
           UNCHANGED <<manager, told, ctrl, turned, locks>>
    PROVE  IInv'
<1> USE DEF manager, told, locks
<1>1. TypeOK /\ FlowsInv /\ ReadingsInv /\ BarrierKnown /\ OwnData
  BY DEF IInv
<1>2. flow' \in [Callers -> Flow(gen)] /\ flow'[f] = w
      /\ \A g \in Callers \ {f} : flow'[g] = flow[g]
  BY <1>1 DEF TypeOK
<1>3. TypeOK' /\ OwnData'
  BY <1>1, <1>2 DEF TypeOK, OtherTypes, OwnData
<1>4. \A g \in Callers :
        Within(g, Holding)' \/ Within(g, Carrying)' => g # f /\ flow'[g] = flow[g]
  BY <1>2 DEF Within
<1>5. HealthKnown'
  BY <1>1, <1>2 DEF FlowsInv, HealthKnown, Within, At, Callers
<1>6. TriesBounded'
  <2>1. SUFFICES ASSUME NEW g \in Callers PROVE TriesOf(g)'
    BY DEF TriesBounded
  <2>2. CASE g = f
    BY <1>2, <2>2 DEF TriesOf, At, Within, Holding
  <2>3. CASE g # f
    BY <1>1, <1>2, <2>3 DEF FlowsInv, TriesBounded, TriesOf, At, Within
  <2>4. QED
    BY <2>2, <2>3
<1>7. HolderKnown'
  <2>1. SUFFICES ASSUME NEW g \in Callers PROVE HolderOf(g)'
    BY DEF HolderKnown
  <2>2. CASE g = f
    BY <1>2, <2>2 DEF HolderOf, Within, Holding, Operating
  <2>3. CASE g # f
    BY <1>1, <1>2, <2>3 DEF FlowsInv, HolderKnown, HolderOf, Within
  <2>4. QED
    BY <2>2, <2>3
<1>8. ReadingsInv'
  <2>1. ReadingKnown'
    <3>1. SUFFICES ASSUME NEW g \in Callers, Within(g, Carrying)'
                   PROVE  \E i \in DOMAIN readings' : readings'[i].by = g
      BY DEF ReadingKnown
    <3>2. Within(g, Carrying)
      BY <1>4, <3>1 DEF Within
    <3>3. QED
      BY <1>1, <3>2 DEF ReadingsInv, ReadingKnown
  <2>2. QED
    BY <1>1, <2>1 DEF ReadingsInv, ModesInOrder, AutoStays
<1>9. BarrierKnown'
  <2>1. SUFFICES ASSUME blocked, NEW g \in Callers, Within(g, Committed)'
                 PROVE  AboutToCancel' \/ CancelledByBarrier'
    BY DEF BarrierKnown
  <2>2. Within(g, Committed)
    BY <1>4, <2>1 DEF Within, Committed, Operating
  <2>3. AboutToCancel \/ CancelledByBarrier
    BY <1>1, <2>1, <2>2 DEF BarrierKnown
  <2>4. \A h \in Flows : At(h, "hush") \/ At(h, "seal") => flow'[h] = flow[h]
    BY <1>2 DEF At, Callers
  <2>5. QED
    BY <2>3, <2>4 DEF AboutToCancel, CancelledByBarrier, At
<1>10. QED
  BY <1>3, <1>5, <1>6, <1>7, <1>8, <1>9 DEF IInv, FlowsInv

\* A heartbeat loop, whichever connection it was started for.
LEMMA BeatsKeep ==
    ASSUME IInv, NEW l \in Loops, Beats(l)
    PROVE  IInv'
<1> USE DEF core, told, world
<1>0. /\ TypeOK /\ OtherTypes /\ ReadingsInv /\ OwnData
      /\ gen \in Nat \ {0} /\ loops[l] \in Loop(gen) /\ loops \in [Loops -> Loop(gen)]
  BY TypesSplit DEF IInv, OtherTypes
<1>1. flow' = flow /\ holder' = holder /\ blocked' = blocked /\ gen' \in {gen, gen + 1}
      /\ UNCHANGED <<at, core, told, world>>
  BY DEF Beats, HeartbeatPost, HeartbeatReport, HeartbeatCancel, HeartbeatClose,
         HeartbeatTick, locks
<1>2. ReadingsInv'
  BY <1>0, <1>1 DEF ReadingsInv, ReadingKnown, ModesInOrder, AutoStays, Within
<1>3. \A label \in {"ended", "post", "beat", "miss", "cancel", "close", "tick"} :
        Beat(l, label) => loops' \in [Loops -> Loop(gen)]
  BY <1>0 DEF Beat, Loop
<1>4. ASSUME loops' \in [Loops -> Loop(gen)], misses' \in 0..MissThreshold,
             UNCHANGED <<connected, gen, fanData, loop, op>>
      PROVE  IInv'
  <2>1. OtherTypes' /\ OwnData'
    BY <1>0, <1>1, <1>4 DEF OtherTypes, OwnData
  <2>2. QED
    BY <1>1, <1>2, <1>4, <2>1, StillKeeps
<1>5. CASE HeartbeatPost(l) \/ HeartbeatTick(l)
  <2>1. UNCHANGED <<connected, gen, fanData, loop, op, misses>>
    BY <1>5 DEF HeartbeatPost, HeartbeatTick, locks
  <2>2. loops' \in [Loops -> Loop(gen)]
    BY <1>3, <1>5 DEF HeartbeatPost, HeartbeatTick
  <2>3. QED
    BY <1>0, <1>4, <2>1, <2>2 DEF OtherTypes
<1>6. CASE HeartbeatReport(l)
  <2>1. UNCHANGED <<connected, gen, fanData, loop, op>>
    BY <1>6 DEF HeartbeatReport, locks
  <2>2. misses' \in 0..MissThreshold
    BY <1>0, <1>6, NumberAssumption DEF HeartbeatReport, OtherTypes
  <2>3. loops' \in [Loops -> Loop(gen)]
    <3>1. CASE Beat(l, "tick")
      BY <1>3, <3>1
    <3>2. CASE loops' = [loops EXCEPT ![l].pc = "cancel", ![l].gen = gen]
      <4>1. gen \in 0..gen
        BY <1>0
      <4>2. [loops[l] EXCEPT !.pc = "cancel", !.gen = gen] \in Loop(gen)
        BY <1>0, <4>1 DEF Loop
      <4>3. loops' = [loops EXCEPT ![l] = [loops[l] EXCEPT !.pc = "cancel", !.gen = gen]]
        BY <1>0, <3>2
      <4>4. QED
        BY <1>0, <4>2, <4>3
    <3>3. QED
      BY <1>6, <3>1, <3>2 DEF HeartbeatReport
  <2>4. QED
    BY <1>4, <2>1, <2>2, <2>3
<1>7. CASE HeartbeatCancel(l)
  <2>1. UNCHANGED <<connected, gen, fanData, loop, misses>>
        /\ loops' \in [Loops -> Loop(gen)]
    BY <1>3, <1>7 DEF HeartbeatCancel
  <2>2. /\ op' \in [flow : Flows \cup {Nobody}, cancelled : BOOLEAN]
        /\ op'.flow = op.flow
        /\ op'.cancelled = op.cancelled \/ op'.cancelled = TRUE
    BY <1>0, <1>7 DEF HeartbeatCancel, CancelActive, OtherTypes
  <2>3. OtherTypes' /\ OwnData' /\ connected' = connected
    BY <1>0, <1>1, <2>1, <2>2 DEF OtherTypes, OwnData
  <2>4. holder' = holder /\ blocked' = blocked /\ flow' = flow /\ gen' \in {gen, gen + 1}
    BY <1>1
  <2>5. QED
    BY <1>2, <2>2, <2>3, <2>4, StillKeeps
<1>8. CASE HeartbeatClose(l)
  <2>1. /\ loops' \in [Loops -> Loop(gen)] /\ op' = op /\ holder = Nobody
        /\ gen' = gen \/ ~connected'
        /\ \/ UNCHANGED <<connected, fanData, loop, misses>>
           \/ Closes
        /\ ~connected => UNCHANGED <<connected, fanData, loop, misses>>
    <3>1. loops' \in [Loops -> Loop(gen)]
      BY <1>3, <1>8 DEF HeartbeatClose
    <3>2. QED
      BY <1>8, <3>1 DEF HeartbeatClose, Closes, MutexFree, locks
  <2>2. loops' \in [Loops -> Loop(gen')] /\ fanData' \in 0..gen' /\ gen' \in Nat \ {0}
    <3>1. CASE UNCHANGED fanData
      BY <1>0, <1>1, <2>1, <3>1, FlowGrows DEF OtherTypes
    <3>2. CASE Closes
      BY <1>0, <1>1, <2>1, <3>2, FlowGrows DEF Closes, None
    <3>3. QED
      BY <2>1, <3>1, <3>2
  <2>3. connected' \in BOOLEAN /\ loop' \in Loops \cup {NoLoop}
        /\ misses' \in 0..MissThreshold
    <3>1. CASE UNCHANGED <<connected, fanData, loop, misses>>
      BY <1>0, <3>1 DEF OtherTypes
    <3>2. CASE Closes
      <4>1. 0 \in 0..MissThreshold
        BY NumberAssumption
      <4>2. QED
        BY <3>2, <4>1 DEF Closes
    <3>3. QED
      BY <2>1, <3>1, <3>2
  <2>4. OtherTypes'
    BY <1>0, <1>1, <2>1, <2>2, <2>3 DEF OtherTypes
  <2>5. OwnData'
    BY <1>0, <1>1, <2>1 DEF OwnData, Closes
  <2>6. QED
    BY <1>0, <1>1, <1>2, <2>1, <2>4, <2>5, StillKeeps DEF OtherTypes
<1>9. QED
  BY <1>5, <1>6, <1>7, <1>8 DEF Beats

LEMMA BeginsKeep == ASSUME IInv, NEW f \in Flows, Begins(f) PROVE IInv'
<1>0. TypeOK /\ OtherTypes /\ gen \in Nat \ {0}
  BY TypesSplit DEF IInv, OtherTypes
<1>1. PICK kind \in Kinds, place \in Endpoints :
        flow' = [flow EXCEPT ![f] = [Idle EXCEPT !.pc = First(kind), !.kind = kind,
                                                 !.at = place]]
  BY Zenon DEF Begins
<1> DEFINE w == [Idle EXCEPT !.pc = First(kind), !.kind = kind, !.at = place]
<1>2. First(kind) \in {"enter", "gate", "type", "cancel", "option", "block", "unblock"}
  BY DEF First, Kinds
<1>3. w \in Flow(gen) /\ w.tries = 0 /\ w.pc = First(kind)
  BY <1>0, <1>2, IdleIsFlow DEF Flow, Labels, Idle
<1>4. flow' = [flow EXCEPT ![f] = w]
  BY <1>1
<1> HIDE DEF w
<1>5. w.pc \notin Holding \cup Carrying
  BY <1>2, <1>3 DEF Holding, Carrying
<1>6. /\ At(f, "idle") /\ f \in Callers /\ f # Health
      /\ UNCHANGED <<manager, core, told, ctrl, turned, locks>>
  BY CallerAssumption DEF Begins, Callers
<1>7. OtherTypes'
  BY <1>0, <1>6 DEF OtherTypes, manager, core, told, locks
<1>8. QED
  BY <1>3, <1>4, <1>5, <1>6, <1>7, Starts

\* The controller, its owner, the health monitor's clock and the updates of
\* the goroutines.
LEMMA EventsKeep ==
    ASSUME IInv, Moves \/ KnobTurned \/ HealthTick \/ Update
    PROVE  IInv'
<1> USE DEF manager, core, told, locks
<1>0. TypeOK /\ OtherTypes /\ FlowsInv /\ ReadingsInv /\ OwnData /\ gen \in Nat \ {0}
  BY TypesSplit DEF IInv, OtherTypes
<1>1. CASE Moves
  <2>1. /\ ctrl' \in [at : Endpoints \cup {Away}, mode : {"manual", "software"}]
        /\ ctrl'.mode = ctrl.mode
        /\ UNCHANGED <<manager, core, told, turned, locks, flow>>
    BY <1>0, <1>1 DEF Moves, OtherTypes
  <2>2. OtherTypes' /\ OwnData'
    BY <1>0, <2>1 DEF OtherTypes, OwnData
  <2>3. ReadingsInv'
    BY <1>0, <2>1 DEF ReadingsInv, ReadingKnown, ModesInOrder, AutoStays, Within
  <2>4. QED
    BY <2>1, <2>2, <2>3, StillKeeps
<1>2. CASE KnobTurned
  <2>1. /\ ctrl' \in [at : Endpoints \cup {Away}, mode : {"manual", "software"}]
        /\ turned' = TRUE
        /\ UNCHANGED <<manager, core, told, locks, flow>>
    BY <1>0, <1>2 DEF KnobTurned, OtherTypes
  <2>2. OtherTypes' /\ OwnData'
    BY <1>0, <2>1 DEF OtherTypes, OwnData
  <2>3. ReadingsInv'
    BY <1>0, <2>1 DEF ReadingsInv, ReadingKnown, ModesInOrder, AutoStays, Within
  <2>4. QED
    BY <2>1, <2>2, <2>3, StillKeeps
<1>3. CASE HealthTick
  <2>1. UNCHANGED <<manager, saved, gate, told, world, locks>>
    BY <1>3 DEF HealthTick
  <2>2. OtherTypes'
    <3>1. 0 \in 0..HealthThreshold - 1
      BY NumberAssumption
    <3>2. failed' \in 0..HealthThreshold - 1 /\ fresh' \in BOOLEAN
      BY <1>0, <1>3, <3>1 DEF HealthTick, OtherTypes
    <3>3. QED
      BY <1>0, <2>1, <3>2 DEF OtherTypes, world
  <2>3. CASE flow' = flow
    <3>1. OwnData' /\ ReadingsInv'
      BY <1>0, <2>1, <2>3
         DEF OwnData, ReadingsInv, ReadingKnown, ModesInOrder, AutoStays, Within, world
    <3>2. QED
      BY <2>1, <2>2, <2>3, <3>1, StillKeeps
  <2>4. CASE flow' = [flow EXCEPT ![Health] = [Idle EXCEPT !.pc = "type", !.kind = "health"]]
    <3> DEFINE w == [Idle EXCEPT !.pc = "type", !.kind = "health"]
    <3>1. /\ w \in Flow(gen) /\ w.tries = 0 /\ w.pc = "type" /\ w.kind = "health"
      BY <1>0, IdleIsFlow DEF Flow, Labels, Idle
    <3>2. flow' = [flow EXCEPT ![Health] = w] /\ At(Health, "idle") /\ Health \in Callers
      BY <1>3, <2>4 DEF HealthTick, Callers
    <3> HIDE DEF w
    <3>3. w.pc \notin Holding \cup Carrying /\ w.pc \in Checking
      BY <3>1 DEF Holding, Carrying, Checking
    <3>4. QED
      BY <2>1, <2>2, <3>1, <3>2, <3>3, Starts DEF world
  <2>5. QED
    BY <1>3, <2>3, <2>4 DEF HealthTick
<1>4. CASE Update
  <2>1. PICK i \in DOMAIN readings : readings[i].by = Nobody /\ Told(i)
    BY <1>4 DEF Update
  <2>2. UNCHANGED <<manager, saved, gate, failed, world, locks, flow>>
    BY <1>4 DEF Update
  <2>3. /\ readings' \in Seq(Reading) /\ lastMode' \in {"manual", "software"}
        /\ auto' \in BOOLEAN /\ slip' \in BOOLEAN /\ fresh' \in BOOLEAN
    BY <1>0, <2>1, ToldReadings
  <2>4. ModesInOrder' /\ AutoStays'
    BY <1>0, <2>1, <2>2, ToldKeepsModes DEF world
  <2>5. ReadingKnown'
    <3>1. SUFFICES ASSUME NEW g \in Callers, Within(g, Carrying)'
                   PROVE  \E j \in DOMAIN readings' : readings'[j].by = g
      BY DEF ReadingKnown
    <3>2. g # Nobody /\ Within(g, Carrying)
      BY <2>2, <3>1, CallerAssumption DEF Within, Callers
    <3>3. QED
      BY <1>0, <2>1, <3>2, ToldKeepsReadings DEF ReadingsInv
  <2>6. OtherTypes' /\ OwnData'
    BY <1>0, <2>2, <2>3 DEF OtherTypes, OwnData, world
  <2>7. QED
    BY <2>2, <2>4, <2>5, <2>6, StillKeeps DEF ReadingsInv
<1>5. QED
  BY <1>1, <1>2, <1>3, <1>4

LEMMA NextKeeps == ASSUME IInv, Next PROVE IInv'
<1>1. ASSUME NEW f \in Callers, Runs(f) PROVE IInv'
  <2>1. CASE Connects(f)
    BY <2>1, ConnectsKeep, OperationsKeep DEF Connects
  <2>2. CASE Writes(f)
    BY <2>2, EntersKeep, OperationsKeep DEF Writes
  <2>3. QED
    BY <1>1, <2>1, <2>2, DisconnectsKeep, RefreshesKeep DEF Runs
<1>2. QED
  BY <1>1, EventsKeep, BeginsKeep, BeatsKeep DEF Next

-----------------------------------------------------------------------------
(* The scans leave the manager alone, but for the barrier that the switch to *)
(* the monitor-only mode raises.                                             *)

LEMMA OthersKeep == ASSUME IInv, UNCHANGED others PROVE IInv'
<1> USE DEF others, manager, core, told, locks
<1>1. TypeOK' /\ OwnData'
  BY DEF IInv, TypeOK, OwnData
<1>2. HealthKnown' /\ TriesBounded' /\ HolderKnown'
  BY DEF IInv, FlowsInv, HealthKnown, TriesBounded, TriesOf, HolderKnown, HolderOf, Within, At
<1>3. ReadingsInv'
  BY DEF IInv, ReadingsInv, ReadingKnown, ModesInOrder, AutoStays, Within
<1>4. BarrierKnown'
  BY DEF IInv, BarrierKnown, AboutToCancel, CancelledByBarrier, Within, At
<1>5. QED
  BY <1>1, <1>2, <1>3, <1>4 DEF IInv, FlowsInv

\* The steps of the scan that are the scan's alone.
ScanMoves ==
    \/ \E s \in Scanners : AsksForScan(s) \/ ScanSteps(s) \/ TimeIsUp(s)
    \/ \E c \in Candidates : WorkerSteps(c)
    \/ UserControls \/ MonitorOnlyOn

LEMMA ScansLeaveManager == ASSUME ScanMoves PROVE UNCHANGED others
BY DEF ScanMoves, AsksForScan, ScanSteps, TimeIsUp, WorkerSteps, UserControls, MonitorOnlyOn,
       Claim, ResetControl, Offer, BreaksOff, PhaseEnds, Answer, Take, WorkerWaits, Probe,
       others, vars, world

LEMMA SwitchKeeps == ASSUME IInv, SwitchCancelsScan PROVE IInv'
<1> DEFINE w == [Idle EXCEPT !.pc = "block", !.kind = "block"]
           f == FreeFlow
<1>1. TypeOK /\ OtherTypes /\ gen \in Nat \ {0}
  BY TypesSplit DEF IInv, OtherTypes
<1>2. f \in Flows /\ At(f, "idle") /\ f \in Callers /\ f # Health
  BY CallerAssumption DEF SwitchCancelsScan, FreeFlow, Callers
<1>3. w \in Flow(gen) /\ w.tries = 0 /\ w.pc = "block"
  BY <1>1, IdleIsFlow DEF Flow, Labels, Kinds, Idle
<1>4. /\ flow' = [flow EXCEPT ![f] = w]
      /\ UNCHANGED <<manager, core, told, world, locks>>
  BY DEF SwitchCancelsScan
<1> HIDE DEF w, f
<1>5. w.pc \notin Holding \cup Carrying
  BY <1>3 DEF Holding, Carrying
<1>6. OtherTypes'
  BY <1>1, <1>4 DEF OtherTypes, manager, core, told, world, locks
<1>7. QED
  BY <1>2, <1>3, <1>4, <1>5, <1>6, Starts DEF world

LEMMA InitIInv == ASSUME WifiInit PROVE IInv
<1>1. Init
  BY DEF WifiInit
<1>2. \A f \in Callers : flow[f] = Idle
  BY <1>1 DEF Init
<1>3. TypeOK
  <2>1. 1 \in Nat \ {0} /\ 0 \in 0..1 /\ 0 \in 0..MissThreshold
        /\ 0 \in 0..HealthThreshold - 1 /\ 0 \in 0..Attempts
    BY NumberAssumption
  <2>2. Idle \in Flow(1) /\ NoLoopYet \in Loop(1)
    BY <2>1, PlaceAssumption DEF Idle, NoLoopYet, Flow, Loop, Labels
  <2>3. flow \in [Callers -> Flow(gen)] /\ loops \in [Loops -> Loop(gen)]
    BY <1>1, <2>2 DEF Init
  <2>4. OtherTypes
    <3>1. /\ ctrl \in [at : Endpoints \cup {Away}, mode : {"manual", "software"}]
          /\ op \in [flow : Flows \cup {Nobody}, cancelled : BOOLEAN]
      BY <1>1, PlaceAssumption DEF Init, NoOperation
    <3>2. gen \in Nat \ {0} /\ fanData \in 0..gen /\ misses \in 0..MissThreshold
          /\ failed \in 0..HealthThreshold - 1 /\ readings \in Seq(Reading)
      BY <1>1, <2>1 DEF Init, None
    <3>3. QED
      BY <1>1, <2>3, <3>1, <3>2, PlaceAssumption DEF Init, OtherTypes
  <2>5. QED
    BY <2>3, <2>4, TypesSplit
<1>4. FlowsInv
  BY <1>2 DEF FlowsInv, HealthKnown, TriesBounded, TriesOf, HolderKnown, HolderOf, Within, At,
              Holding, Operating, Checking, Idle, Callers
<1>5. ReadingsInv
  BY <1>1, <1>2 DEF Init, ReadingsInv, ReadingKnown, ModesInOrder, AutoStays, Within, Carrying,
                    Idle
<1>6. BarrierKnown /\ OwnData
  BY <1>1 DEF Init, BarrierKnown, OwnData
<1>7. QED
  BY <1>3, <1>4, <1>5, <1>6 DEF IInv

LEMMA StepIInv == ASSUME IInv, [WifiNext]_wifiVars PROVE IInv'
<1>1. CASE Manager
  BY <1>1, NextKeeps DEF Manager
<1>2. CASE ScanMoves
  BY <1>2, ScansLeaveManager, OthersKeep
<1>3. CASE SwitchCancelsScan
  BY <1>3, SwitchKeeps
<1>4. CASE UNCHANGED wifiVars
  BY <1>4, OthersKeep DEF wifiVars, vars, others, world
<1>5. QED
  BY <1>1, <1>2, <1>3, <1>4 DEF WifiNext, ScanMoves

-----------------------------------------------------------------------------
(* What a step of another flow leaves alone.                                 *)

LEMMA OthersStay ==
    ASSUME TypeOK, NEW g \in Callers, Runs(g), NEW f \in Callers \ {g}
    PROVE  flow'[f] = flow[f]
<1>1. flow \in [Callers -> Flow(gen)]
  BY DEF TypeOK
<1>2. CASE Connects(g)
  BY <1>1, <1>2 DEF Connects, Gate, Leave, Configure, State, Publish, Unconnected, Result, Finish,
                    Unblock, Goes, Ends
<1>3. CASE Writes(g)
  BY <1>1, <1>3 DEF Writes, Enter, Begin, Check, Post, Posted, ReadBack, Option, Tune, Goes, Ends
<1>4. CASE Disconnects(g)
  BY <1>1, <1>4 DEF Disconnects, Cancel, Close, Block, Hush, Seal, Goes, Ends
<1>5. CASE Refreshes(g)
  BY <1>1, <1>5 DEF Refreshes, DeviceType, Snap, Ask, AskFailed, Store, Show, Healthy, Unhealthy,
                    Goes, Ends
<1>6. QED
  BY <1>2, <1>3, <1>4, <1>5 DEF Runs

\* A request of a speed write is sent by the write itself, if it has not been
\* cancelled.
LEMMA PostSends ==
    ASSUME TypeOK, NEW f \in Callers, Runs(f), At(f, "post"), flow'[f].pc = "posted"
    PROVE  ~Cancelled(f)
<1>1. Post(f)
  BY DEF Runs, Connects, Writes, Disconnects, Refreshes, Gate, Leave, Configure, State, Publish,
         Unconnected, Result, Finish, Unblock, Enter, Begin, Check, Posted, ReadBack, Option, Tune,
         Cancel, Close, Block, Hush, Seal, DeviceType, Snap, Ask, AskFailed, Store, Show, At
<1>2. flow' = Ends(f) => flow'[f].pc = "idle"
  BY MovesThere
<1>3. QED
  BY <1>1, <1>2 DEF Post

\* A connection is published by a connect that has probed its controller.
LEMMA PublishConnects ==
    ASSUME NEW f \in Callers, Runs(f), connected', ~connected
    PROVE  At(f, "probe")
<1> USE DEF manager
<1>1. CASE Connects(f)
  BY <1>1 DEF Connects, Gate, Leave, Configure, State, Publish, Unconnected, Result, Finish, Unblock
<1>2. CASE Writes(f)
  BY <1>2 DEF Writes, Enter, Begin, Check, Post, Posted, ReadBack, Option, Tune
<1>3. CASE Disconnects(f)
  BY <1>3 DEF Disconnects, Cancel, Close, Block, Hush, Seal, DisconnectsLocked, Closes
<1>4. CASE Refreshes(f)
  BY <1>4 DEF Refreshes, DeviceType, Snap, Ask, AskFailed, Store, Show
<1>5. QED
  BY <1>1, <1>2, <1>3, <1>4 DEF Runs

\* Nobody else does either.
LEMMA OthersSendNothing ==
    ASSUME TypeOK, \/ Moves \/ KnobTurned \/ HealthTick \/ Update
                   \/ \E l \in Loops : Beats(l)
                   \/ \E f \in Flows : Begins(f)
                   \/ ScanMoves \/ SwitchCancelsScan \/ UNCHANGED wifiVars
    PROVE  /\ \A f \in Flows : ~At(f, "idle") => flow'[f] = flow[f]
           /\ connected' => connected
<1> USE DEF manager
<1>0. flow \in [Callers -> Flow(gen)] /\ Flows \subseteq Callers
  BY DEF TypeOK, Callers
<1>1. CASE Moves \/ KnobTurned \/ Update
  BY <1>1 DEF Moves, KnobTurned, Update
<1>2. CASE HealthTick
  BY <1>0, <1>2, CallerAssumption DEF HealthTick
<1>3. ASSUME NEW l \in Loops, Beats(l) PROVE flow' = flow /\ (connected' => connected)
  BY <1>3 DEF Beats, HeartbeatPost, HeartbeatReport, HeartbeatCancel, HeartbeatClose,
              HeartbeatTick, Closes
<1>4. ASSUME NEW g \in Flows, Begins(g)
      PROVE  /\ \A f \in Flows : ~At(f, "idle") => flow'[f] = flow[f]
             /\ connected' => connected
  <2>1. At(g, "idle") /\ UNCHANGED manager /\ \E w : flow' = [flow EXCEPT ![g] = w]
    BY <1>4, Zenon DEF Begins
  <2>2. QED
    BY <1>0, <2>1 DEF At
<1>5. CASE ScanMoves \/ UNCHANGED wifiVars
  BY <1>5, ScansLeaveManager DEF others, wifiVars, vars
<1>6. CASE SwitchCancelsScan
  <2>1. FreeFlow \in Flows /\ At(FreeFlow, "idle")
    BY <1>6 DEF SwitchCancelsScan, FreeFlow
  <2>2. UNCHANGED manager /\ \E w : flow' = [flow EXCEPT ![FreeFlow] = w]
    BY <1>6, Zenon DEF SwitchCancelsScan
  <2>3. QED
    BY <1>0, <2>1, <2>2 DEF At
<1>7. QED
  BY <1>1, <1>2, <1>3, <1>4, <1>5, <1>6

LEMMA StepBlockStops ==
    ASSUME IInv, [WifiNext]_wifiVars
    PROVE  /\ Sealed /\ blocked' =>
                  \A f \in Flows : ~(At(f, "post") /\ flow'[f].pc = "posted")
           /\ Sealed /\ connected' /\ ~connected => \E f \in Flows : At(f, "seal")
<1>1. TypeOK /\ BarrierKnown /\ HolderKnown /\ Flows \subseteq Callers
  BY DEF IInv, FlowsInv, Callers
<1>2. \A f \in Callers : Sealed /\ Within(f, Committed) => CancelledByBarrier
  BY <1>1 DEF Sealed, BarrierKnown, AboutToCancel, At
<1>3. CASE \E g \in Callers : Runs(g)
  <2>1. PICK g \in Callers : Runs(g)
    BY <1>3
  <2>2. ASSUME Sealed, NEW f \in Flows, At(f, "post"), flow'[f].pc = "posted" PROVE FALSE
    <3>1. f = g
      BY <1>1, <2>1, <2>2, OthersStay DEF At
    <3>2. ~Cancelled(f)
      BY <1>1, <2>1, <2>2, <3>1, PostSends
    <3>3. op.cancelled /\ op.flow = f
      BY <1>1, <1>2, <2>2
         DEF HolderKnown, HolderOf, CancelledByBarrier, Within, At, Committed, Operating, Holding
    <3>4. QED
      BY <3>2, <3>3 DEF Cancelled
  <2>3. ASSUME Sealed, connected', ~connected PROVE \E f \in Flows : At(f, "seal")
    <3>1. Within(g, Committed)
      BY <2>1, <2>3, PublishConnects DEF Within, At, Committed, Operating, Holding
    <3>2. QED
      BY <1>2, <2>3, <3>1 DEF CancelledByBarrier
  <2>4. QED
    BY <2>2, <2>3
<1>4. CASE \/ Moves \/ KnobTurned \/ HealthTick \/ Update
           \/ \E l \in Loops : Beats(l)
           \/ \E f \in Flows : Begins(f)
           \/ ScanMoves \/ SwitchCancelsScan \/ UNCHANGED wifiVars
  <2>1. /\ \A f \in Flows : ~At(f, "idle") => flow'[f] = flow[f]
        /\ connected' => connected
    BY <1>1, <1>4, OthersSendNothing
  <2>2. QED
    BY <2>1 DEF At
<1>5. QED
  BY <1>3, <1>4 DEF WifiNext, Manager, Next, ScanMoves

-----------------------------------------------------------------------------
(* The scan that the user cancelled: until its answer, or until the next     *)
(* scan has the control, the control stays cancelled.                        *)

ScanInv ==
    /\ control \in [paused : BOOLEAN, canceled : BOOLEAN]
    /\ candidate \in [Candidates -> {"todo", "given", "passed", "dropped", "hit", "miss"}]
    /\ stopped => control.canceled

LEMMA InitScanInv == ASSUME WifiInit PROVE ScanInv
BY DEF WifiInit, ScanInv, NoControl

\* The steps that touch neither the control nor the candidates.
LEMMA QuietScan ==
    ASSUME \/ Manager \/ MonitorOnlyOn \/ UNCHANGED wifiVars
           \/ \E s \in Scanners : \/ AsksForScan(s) \/ TimeIsUp(s) \/ Claim(s) \/ Offer(s)
                                  \/ PhaseEnds(s) \/ Answer(s)
    PROVE  UNCHANGED <<control, candidate>> /\ (stopped' => stopped)
BY DEF Manager, MonitorOnlyOn, AsksForScan, TimeIsUp, Claim, Offer, PhaseEnds, Answer,
       wifiVars, scanVars

LEMMA StepScan ==
    ASSUME ScanInv, [WifiNext]_wifiVars
    PROVE  /\ ScanInv'
           /\ stopped => \A c \in Candidates : candidate[c] = "given" => candidate'[c] # "passed"
<1>1. CASE \/ Manager \/ MonitorOnlyOn \/ UNCHANGED wifiVars
           \/ \E s \in Scanners : \/ AsksForScan(s) \/ TimeIsUp(s) \/ Claim(s) \/ Offer(s)
                                  \/ PhaseEnds(s) \/ Answer(s)
  BY <1>1, QuietScan DEF ScanInv
<1>2. ASSUME NEW s \in Scanners, ResetControl(s)
      PROVE  ScanInv' /\ \A c \in Candidates : candidate'[c] # "passed"
  BY <1>2 DEF ResetControl, ScanInv, NoControl
<1>3. ASSUME NEW s \in Scanners, NEW c \in Candidates, Take(s, c)
      PROVE  /\ ScanInv'
             /\ \A d \in Candidates : candidate[d] = "given" => candidate'[d] # "passed"
  BY <1>3 DEF Take, ScanInv
<1>4. ASSUME NEW s \in Scanners, BreaksOff(s)
      PROVE  /\ ScanInv'
             /\ \A d \in Candidates : candidate[d] = "given" => candidate'[d] # "passed"
  BY <1>4 DEF BreaksOff, ScanInv
<1>5. ASSUME NEW c \in Candidates, Probe(c)
      PROVE  /\ ScanInv'
             /\ \A d \in Candidates : candidate[d] = "given" => candidate'[d] # "passed"
  BY <1>5 DEF Probe, ScanInv
<1>6. ASSUME NEW c \in Candidates, WorkerWaits(c)
      PROVE  /\ ScanInv'
             /\ stopped => \A d \in Candidates :
                               candidate[d] = "given" => candidate'[d] # "passed"
  <2>1. stopped => ~Passes
    BY DEF ScanInv, Passes
  <2>2. QED
    BY <1>6, <2>1 DEF WorkerWaits, ScanInv
<1>7. CASE UserControls \/ SwitchCancelsScan
  <2>1. UNCHANGED candidate
    BY <1>7 DEF UserControls, SwitchCancelsScan
  <2>2. control' \in [paused : BOOLEAN, canceled : BOOLEAN] /\ (stopped' => control'.canceled)
    <3>1. CASE Cancels
      BY <3>1 DEF Cancels
    <3>2. ASSUME NEW p \in BOOLEAN, stopped' = stopped,
                 control' = IF control.canceled THEN control ELSE [control EXCEPT !.paused = p]
          PROVE  control' \in [paused : BOOLEAN, canceled : BOOLEAN]
                 /\ (stopped' => control'.canceled)
      BY <3>2 DEF ScanInv
    <3>3. QED
      BY <1>7, <3>1, <3>2 DEF UserControls, SwitchCancelsScan
  <2>3. QED
    BY <2>1, <2>2 DEF ScanInv
<1>8. QED
  BY <1>1, <1>2, <1>3, <1>4, <1>5, <1>6, <1>7 DEF WifiNext, ScanSteps, WorkerSteps

\* One scan at a time has a claim, and while one has, running says so: the
\* control is reset for a scan only when no other is still under way.
ScanLabels == {"idle", "claim", "reset", "common", "expanded", "answer"}
Claims(s) == scanner[s] \in {"reset", "common", "expanded", "answer"}
OneScan ==
    /\ scanner \in [Scanners -> ScanLabels]
    /\ \A s \in Scanners : Claims(s) => running
    /\ \A s, t \in Scanners : Claims(s) /\ Claims(t) => s = t

LEMMA InitOneScan == ASSUME WifiInit PROVE OneScan
BY DEF WifiInit, OneScan, Claims, ScanLabels

\* The steps of a scan that has its claim, and keeps it.
LEMMA ScanGoesOn ==
    ASSUME OneScan, NEW s \in Scanners, NEW label \in ScanLabels, Steps(s, label),
           Claims(s) \/ label \in {"idle", "claim"}, running' = running
    PROVE  OneScan'
BY DEF OneScan, Steps, Claims

LEMMA StepOneScan == ASSUME OneScan, [WifiNext]_wifiVars PROVE OneScan'
<1>1. CASE UNCHANGED <<scanner, running>>
  BY <1>1 DEF OneScan, Claims
<1>2. CASE Manager \/ MonitorOnlyOn \/ UserControls \/ SwitchCancelsScan \/ UNCHANGED wifiVars
  BY <1>1, <1>2 DEF Manager, MonitorOnlyOn, UserControls, SwitchCancelsScan, wifiVars, scanVars
<1>3. ASSUME NEW c \in Candidates, WorkerSteps(c) PROVE OneScan'
  BY <1>1, <1>3 DEF WorkerSteps, WorkerWaits, Probe
<1>4. ASSUME NEW s \in Scanners, AsksForScan(s) \/ ResetControl(s) \/ PhaseEnds(s)
      PROVE  OneScan'
  <2>1. CASE AsksForScan(s)
    BY <2>1, ScanGoesOn DEF AsksForScan, ScanLabels
  <2>2. CASE ResetControl(s)
    BY <2>2, ScanGoesOn DEF ResetControl, ScanLabels, Claims, Scans
  <2>3. CASE PhaseEnds(s)
    BY <2>3, ScanGoesOn DEF PhaseEnds, ScanLabels, Claims, Scanning
  <2>4. QED
    BY <1>4, <2>1, <2>2, <2>3
<1>5. ASSUME NEW s \in Scanners, Claim(s) PROVE OneScan'
  <2>1. running' = TRUE /\ Steps(s, IF running THEN "idle" ELSE "reset")
    BY <1>5 DEF Claim
  <2>2. CASE running
    <3>1. \A t \in Scanners : Claims(t)' => t # s /\ Claims(t)
      BY <2>1, <2>2 DEF OneScan, Claims, Steps
    <3>2. scanner' \in [Scanners -> ScanLabels]
      BY <2>1, <2>2 DEF OneScan, ScanLabels, Steps
    <3>3. QED
      BY <2>1, <3>1, <3>2 DEF OneScan
  <2>3. CASE ~running
    <3>1. \A t \in Scanners : Claims(t)' => t = s
      BY <2>1, <2>3 DEF OneScan, Claims, Steps
    <3>2. scanner' \in [Scanners -> ScanLabels]
      BY <2>1, <2>3 DEF OneScan, ScanLabels, Steps
    <3>3. QED
      BY <2>1, <3>1, <3>2 DEF OneScan
  <2>4. QED
    BY <2>2, <2>3
<1>6. ASSUME NEW s \in Scanners, Answer(s) PROVE OneScan'
  <2>1. Claims(s) /\ Steps(s, "idle")
    BY <1>6 DEF Answer, Scans, Claims
  <2>2. \A t \in Scanners : ~Claims(t)'
    BY <2>1 DEF OneScan, Claims, Steps
  <2>3. scanner' \in [Scanners -> ScanLabels]
    BY <2>1 DEF OneScan, ScanLabels, Steps
  <2>4. QED
    BY <2>2, <2>3 DEF OneScan
<1>7. ASSUME NEW s \in Scanners,
             \/ TimeIsUp(s) \/ Offer(s) \/ BreaksOff(s)
             \/ \E c \in Candidates : Take(s, c)
      PROVE  OneScan'
  BY <1>1, <1>7 DEF TimeIsUp, Offer, BreaksOff, Take
<1>8. QED
  BY <1>2, <1>3, <1>4, <1>5, <1>6, <1>7 DEF WifiNext, ScanSteps

-----------------------------------------------------------------------------
(* The theorems.                                                             *)

\* The invariant of the manager: one flow at a time is in a request, with the
\* operation and the connection that are its own; what was read waits to be
\* told in its order; and a request the barrier found is on its way out.
THEOREM InvariantHolds == WifiSpec => []IInv
<1>1. WifiInit => IInv
  BY InitIInv
<1>2. IInv /\ [WifiNext]_wifiVars => IInv'
  BY StepIInv
<1>3. QED
  BY <1>1, <1>2, PTL DEF WifiSpec

\* Every variable of the manager has its type: no generation of a call or a
\* loop lies ahead of connectionGen, no label but those of the handlers.
THEOREM TypeCorrect == WifiSpec => []TypeOK
<1>1. IInv => TypeOK
  BY DEF IInv
<1>2. QED
  BY <1>1, InvariantHolds, PTL

\* What the manager shows as the controller's state was read in the
\* connection that stands: a refresh that outlived its connection stores
\* nothing (manager_wifi.go, GetCurrentFanData after a reconnect).
THEOREM OwnDataHolds == WifiSpec => []OwnData
<1>1. IInv => OwnData
  BY DEF IInv
<1>2. QED
  BY <1>1, InvariantHolds, PTL

\* Only someone who turned the knob, or an update told after a later one,
\* turns the automatic control off (onFanDataUpdate).
THEOREM AutoStaysHolds == WifiSpec => []AutoStays
<1>1. IInv => AutoStays
  BY DEF IInv, ReadingsInv
<1>2. QED
  BY <1>1, InvariantHolds, PTL

\* BlockWrites keeps its promise for every number of callers: no speed
\* request leaves between its cancelling and UnblockWrites, and no connection
\* is published once it has returned (write_barrier.go, operation_control.go).
THEOREM BarrierHolds == WifiSpec => BlockStopsWrites
<1> DEFINE A == /\ Sealed /\ blocked' =>
                       \A f \in Flows : ~(At(f, "post") /\ flow'[f].pc = "posted")
                /\ Sealed /\ connected' /\ ~connected => \E f \in Flows : At(f, "seal")
<1>1. IInv /\ [WifiNext]_wifiVars => [A]_vars
  BY StepBlockStops
<1>2. QED
  BY <1>1, InvariantHolds, PTL DEF WifiSpec, BlockStopsWrites

\* A scan the user cancelled asks no further candidate: what a refused second
\* scan does in between leaves the control alone (ScanWiFiDevices, Wait).
THEOREM CancelledScanStops == WifiSpec => ScanStops
<1> DEFINE A == stopped => \A c \in Candidates :
                              candidate[c] = "given" => candidate'[c] # "passed"
<1>1. WifiInit => ScanInv
  BY InitScanInv
<1>2. ScanInv /\ [WifiNext]_wifiVars => ScanInv'
  BY StepScan
<1>3. ScanInv /\ [WifiNext]_wifiVars => [A]_wifiVars
  BY StepScan
<1>4. QED
  BY <1>1, <1>2, <1>3, PTL DEF WifiSpec, ScanStops

\* ScanWiFiDevices lets one scan at a time have the control (wifiScanRunning),
\* for any number of goroutines that ask.
THEOREM OneScanAtATime == WifiSpec => []OneScan
<1>1. WifiInit => OneScan
  BY InitOneScan
<1>2. OneScan /\ [WifiNext]_wifiVars => OneScan'
  BY StepOneScan
<1>3. QED
  BY <1>1, <1>2, PTL DEF WifiSpec
=============================================================================
