----------------------------- MODULE Wire_proofs -----------------------------
(***************************************************************************)
(* Proofs about Wire for any callers, slots, blocks, faults and mixes of   *)
(* calls: one caller is on the bus at a time, every frame under way or     *)
(* remembered is one its slot may have, an upload has sent what its step   *)
(* says, and a value is read back only after it was carried out.           *)
(***************************************************************************)
EXTENDS Wire, SequenceTheorems, TLAPS

(* The bus: who exchanges frames is the first ticket, and each caller has  *)
(* at most one, drawn for what it is waiting for or doing.                 *)
OnBus == {"declare", "send", "wait", "upSend", "upMeta", "upFlow"}
Ticketed == OnBus \cup {"queued", "upQueued"}
BusInv ==
  /\ wire \in Seq(Callers)
  /\ \A c \in Callers : call[c].pc \in OnBus => Inside(c)
  /\ \A i \in 1..Len(wire) : call[wire[i]].pc \in Ticketed
  /\ \A i, j \in 1..Len(wire) : wire[i] = wire[j] => i = j

(* A frame that names a slot has values this slot may have: nobody has to  *)
(* know where it is or which step of whom it belongs to.                   *)
Light == {"GetRgb", "SetRgb"}
Wanted(s, n) == {0} \cup {wish[c].val : c \in {d \in Callers : Asked(d, s, n)}}
Good == {f \in Frame :
  /\ f.cmd \in Light => f.slot \in Slots /\ \A n \in 1..2 : f.val[n] \in Wanted(f.slot, n)
  /\ f.cmd = "Block" => f.slot \in 1..Blocks
  /\ f.cmd # "none" => f.by \in Callers}
LateOf(k) == {f \in Good : f.cmd \in Queries /\ LateKey(f) = k}

LinkInv ==
  /\ await \in Commands \cup {"none"} /\ flow \in Seq(Params) /\ flowing \in BOOLEAN
  /\ resp \in Seq(Good) /\ toDevice \in Seq(Good) /\ fromDevice \in Seq(Good)
  /\ late \in [LateKeys -> Seq(Good)]
  /\ \A k \in LateKeys : late[k] \in Seq(LateOf(k)) /\ Len(late[k]) <= LateQueueCap
  /\ reader \in [route : {"none", "resp", "late"}, frame : Good]
  /\ reader.route = "late" => reader.frame.cmd \in Queries
  /\ device \in [sw : Values, mode : [Slots -> Params],
                 stored : SUBSET (Callers \X (1..Blocks)), took : SUBSET Callers]
  /\ \A s \in Slots, n \in 1..2 : device.mode[s][n] \in Wanted(s, n)
  /\ faults \in 0..MaxFaults

Remembers == {NoFrame} \cup {f \in Good : f.cmd \in Light}
CallRecords ==
  [pc : Labels, step : 0..Blocks + 3, frame : Good, got : Good, acked : BOOLEAN,
   resends : 0..MaxResends, missed : BOOLEAN, result : Results]
Exchanging == {"queued", "declare", "send", "wait", "answered"}
(* Where a call is tells what it has sent and received. *)
CallKnown(c) ==
  /\ call[c].pc \in Exchanging \ {"answered"} => call[c].got = NoFrame
  /\ call[c].got # NoFrame => call[c].got.cmd = call[c].frame.cmd
  /\ call[c].pc \in Exchanging => call[c].frame.cmd \in Commands \ {"Block"}
  /\ call[c].pc \in Exchanging /\ Lighting(c) => call[c].frame.cmd \in Light
  /\ call[c].pc \in {"idle", "prepare", "upQueued", "upMeta"} => call[c].step = 0
  /\ call[c].pc = "upSend" => call[c].step \in 0..Blocks + 1
  /\ call[c].pc = "upFlow" => call[c].step \in 1..Blocks
CallsInv ==
  /\ wish \in [Callers -> Wishes]
  /\ mutex \in Callers \cup {Nobody} /\ uploading \in Callers \cup {Nobody}
  /\ cache \in [Slots -> Remembers]
  /\ call \in [Callers -> CallRecords]
  /\ \A c \in Callers : CallKnown(c)

IInv == BusInv /\ LinkInv /\ CallsInv

(* The upload that runs is the registered one.  As long as none has failed *)
(* or missed an answer, only its last block is under way, or the answer.   *)
UploadLabels == {"prepare", "upQueued", "upSend", "upMeta", "upFlow"}
Clean == \A c \in Callers : ~call[c].missed /\ call[c].result # "failed"
Sent(c, n) == {c} \X (1..n) \subseteq device.stored
Expects(c, n) == call[c].pc = "upFlow" /\ call[c].step = n
BlockAt(i) == toDevice[i].cmd = "Block"
FlowAt(i) == fromDevice[i].cmd = "Flow"
NoBlock == \A i \in 1..Len(toDevice) : ~BlockAt(i)
NoFlow == \A i \in 1..Len(fromDevice) : ~FlowAt(i)
OneUnderWay ==
  /\ \A i, j \in 1..Len(toDevice) : BlockAt(i) /\ BlockAt(j) => i = j
  /\ \A i, j \in 1..Len(fromDevice) : FlowAt(i) /\ FlowAt(j) => i = j
  /\ Len(flow) <= 1
  /\ NoBlock \/ NoFlow
  /\ flow = <<>> \/ (NoBlock /\ NoFlow)
OfItsUpload ==
  /\ \A i \in 1..Len(toDevice) : BlockAt(i) => Expects(toDevice[i].by, toDevice[i].slot)
  /\ \A i \in 1..Len(fromDevice) : FlowAt(i) =>
       /\ call[fromDevice[i].by].pc = "upFlow"
       /\ fromDevice[i].val = Accepted => Sent(fromDevice[i].by, call[fromDevice[i].by].step)
  /\ flow # <<>> => \E c \in Callers :
       call[c].pc = "upFlow" /\ (flow[1] = Accepted => Sent(c, call[c].step))
SentSoFar ==
  \A c \in Callers :
    /\ call[c].pc \in {"upSend", "upFlow"} => Sent(c, call[c].step - 1)
    /\ call[c].result = "ok" => Sent(c, Blocks)
UploadInv ==
  /\ \A c \in Callers : call[c].pc \in UploadLabels => uploading = c
  /\ \A c \in Callers : call[c].pc # "done" => call[c].result = "none"
  /\ Clean => OneUnderWay /\ OfItsUpload /\ SentSoFar

-----------------------------------------------------------------------------
(* Sequences.                                                              *)

LEMMA Appended ==
  ASSUME NEW S, NEW s \in Seq(S), NEW x \in S
  PROVE  /\ Append(s, x) \in Seq(S) /\ Append(s, x) # <<>> /\ Len(Append(s, x)) = Len(s) + 1
         /\ Len(s) \in Nat /\ \A i \in 1..Len(s) : Append(s, x)[i] = s[i] /\ s[i] \in S
         /\ Append(s, x)[Len(s) + 1] = x
         /\ 1..Len(Append(s, x)) = 1..Len(s) \cup {Len(s) + 1}
<1>1. /\ Append(s, x) \in Seq(S) /\ Len(Append(s, x)) = Len(s) + 1 /\ Len(s) \in Nat
      /\ Append(s, x) # <<>>
      /\ \A i \in 1..Len(s) : Append(s, x)[i] = s[i]
      /\ Append(s, x)[Len(s) + 1] = x
  BY AppendProperties, LenProperties
<1>2. 1..Len(Append(s, x)) = 1..Len(s) \cup {Len(s) + 1}
  BY <1>1
<1>3. \A i \in 1..Len(s) : s[i] \in S
  BY ElementOfSeq
<1> QED
  BY <1>1, <1>2, <1>3

LEMMA Taken ==
  ASSUME NEW S, NEW s \in Seq(S), s # <<>>
  PROVE  /\ Head(s) \in S /\ Tail(s) \in Seq(S) /\ Len(Tail(s)) = Len(s) - 1
         /\ Len(s) \in Nat \ {0} /\ Head(s) = s[1]
         /\ \A i \in 1..Len(Tail(s)) : Tail(s)[i] = s[i + 1] /\ i + 1 \in 1..Len(s)
<1>1. /\ Head(s) \in S /\ Tail(s) \in Seq(S) /\ Len(s) \in Nat \ {0} /\ Head(s) = s[1]
      /\ Len(Tail(s)) = Len(s) - 1
      /\ \A i \in 1..Len(Tail(s)) : Tail(s)[i] = s[i + 1]
  BY HeadTailProperties, LenProperties, EmptySeq
<1>2. ASSUME NEW i \in 1..Len(Tail(s)) PROVE i + 1 \in 1..Len(s)
  BY <1>1
<1> QED
  BY <1>1, <1>2

-----------------------------------------------------------------------------
(* The bus.                                                                *)

\* A caller without a ticket draws one.
LEMMA TicketDrawn ==
  ASSUME BusInv, call \in [Callers -> CallRecords], NEW c \in Callers,
         call[c].pc \notin Ticketed, wire' = Append(wire, c),
         call' \in [Callers -> CallRecords],
         call'[c].pc \in {"queued", "upQueued"},
         \A d \in Callers \ {c} : call'[d] = call[d]
  PROVE  BusInv'
<1>1. /\ wire' \in Seq(Callers) /\ wire' # <<>> /\ Len(wire') = Len(wire) + 1
      /\ Len(wire) \in Nat /\ \A i \in 1..Len(wire) : wire'[i] = wire[i] /\ wire[i] \in Callers
      /\ wire'[Len(wire) + 1] = c /\ 1..Len(wire') = 1..Len(wire) \cup {Len(wire) + 1}
  BY Appended DEF BusInv
<1>2. \A i \in 1..Len(wire) : wire[i] # c
  BY DEF BusInv
<1>3. ASSUME NEW d \in Callers, call'[d].pc \in OnBus PROVE Inside(d)'
  <2>1. d # c /\ wire # <<>> /\ Head(wire) = d
    BY <1>3 DEF OnBus, BusInv, Inside
  <2> QED
    BY <1>1, <2>1, HeadTailAppend DEF BusInv, Inside
<1>4. \A i \in 1..Len(wire') : call'[wire'[i]].pc \in Ticketed
  BY <1>1, <1>2 DEF BusInv, Ticketed
<1>5. \A i, j \in 1..Len(wire') : wire'[i] = wire'[j] => i = j
  BY <1>1, <1>2 DEF BusInv
<1> QED
  BY <1>1, <1>3, <1>4, <1>5 DEF BusInv

\* Who is inside leaves the bus.
LEMMA BusLeft ==
  ASSUME BusInv, call \in [Callers -> CallRecords], NEW c \in Callers, Inside(c),
         wire' = Tail(wire), call'[c].pc \notin OnBus,
         \A d \in Callers \ {c} : call'[d] = call[d]
  PROVE  BusInv'
<1>1. /\ wire' \in Seq(Callers) /\ Len(wire') = Len(wire) - 1
      /\ Len(wire) \in Nat \ {0} /\ wire[1] = c
      /\ \A i \in 1..Len(wire') : wire'[i] = wire[i + 1] /\ i + 1 \in 1..Len(wire)
  BY Taken DEF BusInv, Inside
<1>2. \A i \in 1..Len(wire') : wire'[i] # c /\ wire'[i] \in Callers
  <2> SUFFICES ASSUME NEW i \in 1..Len(wire') PROVE wire'[i] # c /\ wire'[i] \in Callers
    OBVIOUS
  <2>1. 1 \in 1..Len(wire) /\ i + 1 # 1
    BY <1>1
  <2> QED
    BY <1>1, <2>1, ElementOfSeq DEF BusInv
<1>3. \A d \in Callers : call'[d].pc \notin OnBus
  <2> SUFFICES ASSUME NEW d \in Callers \ {c}, call[d].pc \in OnBus PROVE FALSE
    OBVIOUS
  <2> QED
    BY DEF BusInv, Inside
<1>4. \A i \in 1..Len(wire') : call'[wire'[i]].pc \in Ticketed
  BY <1>1, <1>2 DEF BusInv
<1>5. \A i, j \in 1..Len(wire') : wire'[i] = wire'[j] => i = j
  <2> SUFFICES ASSUME NEW i \in 1..Len(wire'), NEW j \in 1..Len(wire'), wire'[i] = wire'[j]
               PROVE  i = j
    OBVIOUS
  <2>1. i + 1 = j + 1
    BY <1>1 DEF BusInv
  <2> QED
    BY <2>1
<1> QED
  BY <1>1, <1>3, <1>4, <1>5 DEF BusInv

\* Steps of a caller that keeps its ticket and its turn.
LEMMA BusKept ==
  ASSUME BusInv, NEW c \in Callers, wire' = wire,
         call'[c].pc \in OnBus => Inside(c),
         call[c].pc \in Ticketed => call'[c].pc \in Ticketed,
         \A d \in Callers \ {c} : call'[d] = call[d]
  PROVE  BusInv'
<1>1. \A d \in Callers : call'[d].pc \in OnBus => Inside(d)'
  BY DEF BusInv, Inside
<1>2. ASSUME NEW i \in 1..Len(wire) PROVE call'[wire[i]].pc \in Ticketed
  <2>1. wire \in Seq(Callers)
    BY DEF BusInv
  <2>2. wire[i] \in Callers
    BY <2>1, ElementOfSeq
  <2>3. call[wire[i]].pc \in Ticketed
    BY Zenon DEF BusInv
  <2> QED
    BY <2>2, <2>3
<1> QED
  BY <1>1, <1>2 DEF BusInv

\* A restore leaves the bus after its write and queues again for the read.
LEMMA TicketRedrawn ==
  ASSUME BusInv, call \in [Callers -> CallRecords], NEW c \in Callers, Inside(c),
         wire' = Append(Tail(wire), c), call[c].pc = "queued", call'[c].pc = "queued",
         \A d \in Callers \ {c} : call'[d] = call[d]
  PROVE  BusInv'
<1>1. /\ Tail(wire) \in Seq(Callers) /\ Len(Tail(wire)) = Len(wire) - 1
      /\ Len(wire) \in Nat \ {0} /\ wire[1] = c
      /\ \A i \in 1..Len(Tail(wire)) : Tail(wire)[i] = wire[i + 1] /\ i + 1 \in 1..Len(wire)
  BY Taken DEF BusInv, Inside
<1>2. /\ wire' \in Seq(Callers) /\ wire' # <<>> /\ Len(wire') = Len(wire)
      /\ \A i \in 1..Len(wire) - 1 : wire'[i] = wire[i + 1]
      /\ wire'[Len(wire)] = c /\ 1..Len(wire') = 1..(Len(wire) - 1) \cup {Len(wire)}
  BY <1>1, Appended
<1>3. \A i \in 1..Len(wire) - 1 : wire'[i] # c /\ wire'[i] \in Callers
  <2> SUFFICES ASSUME NEW i \in 1..Len(wire) - 1 PROVE wire'[i] # c /\ wire'[i] \in Callers
    OBVIOUS
  <2>1. 1 \in 1..Len(wire) /\ i + 1 # 1 /\ i + 1 \in 1..Len(wire)
    BY <1>1
  <2> QED
    BY <1>1, <1>2, <2>1, ElementOfSeq DEF BusInv
<1>4. \A d \in Callers : call'[d].pc \notin OnBus
  <2> SUFFICES ASSUME NEW d \in Callers \ {c}, call[d].pc \in OnBus PROVE FALSE
    BY DEF OnBus
  <2> QED
    BY DEF BusInv, Inside
<1>5. \A i \in 1..Len(wire') : call'[wire'[i]].pc \in Ticketed
  <2>1. \A i \in 1..Len(wire) - 1 : call'[wire'[i]].pc \in Ticketed
    BY <1>1, <1>2, <1>3 DEF BusInv
  <2>2. call'[wire'[Len(wire)]].pc \in Ticketed
    BY <1>2 DEF Ticketed
  <2> QED
    BY <1>2, <2>1, <2>2, Zenon
<1>6. \A i, j \in 1..Len(wire') : wire'[i] = wire'[j] => i = j
  <2>1. ASSUME NEW i \in 1..Len(wire) - 1, NEW j \in 1..Len(wire) - 1, wire'[i] = wire'[j]
        PROVE  i = j
    <3>1. wire[i + 1] = wire[j + 1] /\ i + 1 \in 1..Len(wire) /\ j + 1 \in 1..Len(wire)
      BY <1>1, <1>2, <2>1
    <3>2. i + 1 = j + 1
      BY <3>1 DEF BusInv
    <3> QED
      BY <3>2
  <2> SUFFICES ASSUME NEW i \in 1..Len(wire'), NEW j \in 1..Len(wire'), wire'[i] = wire'[j]
               PROVE  i = j
    OBVIOUS
  <2>2. i \in 1..(Len(wire) - 1) \cup {Len(wire)} /\ j \in 1..(Len(wire) - 1) \cup {Len(wire)}
    BY <1>2, Zenon
  <2> QED
    BY <1>2, <1>3, <2>1, <2>2, Zenon
<1> QED
  BY <1>2, <1>4, <1>5, <1>6 DEF BusInv

-----------------------------------------------------------------------------
(* The link.                                                               *)

\* What a frame may hold depends on what the callers wish, which never changes.
LEMMA SameWish ==
  ASSUME UNCHANGED wish
  PROVE  /\ Good' = Good /\ Remembers' = Remembers /\ CallRecords' = CallRecords
         /\ \A s, n : Wanted(s, n)' = Wanted(s, n)
         /\ \A k : LateOf(k)' = LateOf(k)
         /\ \A c : Lighting(c)' = Lighting(c)
<1>1. \A s, n : Wanted(s, n)' = Wanted(s, n)
  BY DEF Wanted, Asked, Is
<1>2. Good' = Good
  BY <1>1 DEF Good
<1> QED
  BY <1>1, <1>2 DEF Remembers, CallRecords, LateOf, Lighting

\* No frame is a good frame.
LEMMA NoFrameIsGood == NoFrame \in Good /\ NoFrame \in Remembers
<1>1. NoFrame \in Frame
  BY DEF NoFrame, Frame, Params, Values
<1> QED
  BY <1>1 DEF Good, Remembers, NoFrame, Light

\* A good frame leaves a cooler that is in order so.
LEMMA AppliedIsGood ==
  ASSUME LinkInv, NEW f \in Good
  PROVE  /\ Applied(f) \in [sw : Values, mode : [Slots -> Params],
                            stored : SUBSET (Callers \X (1..Blocks)), took : SUBSET Callers]
         /\ \A s \in Slots, n \in 1..2 : Applied(f).mode[s][n] \in Wanted(s, n)
<1> DEFINE Coolers == [sw : Values, mode : [Slots -> Params],
                       stored : SUBSET (Callers \X (1..Blocks)), took : SUBSET Callers]
<1>0. device \in Coolers /\ f \in Frame
      /\ \A s \in Slots, n \in 1..2 : device.mode[s][n] \in Wanted(s, n)
  BY DEF LinkInv, Good
<1>1. f.val \in Params /\ f.val[1] \in Values
  BY <1>0 DEF Frame, Params
<1>2. ASSUME f.cmd = "SetRgb"
      PROVE  /\ Applied(f) = [device EXCEPT !.mode[f.slot] = f.val, !.took = @ \cup {f.by}]
             /\ f.slot \in Slots /\ f.by \in Callers
             /\ \A n \in 1..2 : f.val[n] \in Wanted(f.slot, n)
  BY <1>2 DEF Applied, Good, Light
<1>3. Applied(f) \in Coolers
  <2>1. CASE f.cmd = "SetSwitch"
    <3>1. Applied(f) = [device EXCEPT !.sw = f.val[1], !.took = @ \cup {f.by}] /\ f.by \in Callers
      BY <2>1 DEF Applied, Good
    <3> QED
      BY <1>0, <1>1, <3>1
  <2>2. CASE f.cmd = "SetRgb"
    <3>1. [device.mode EXCEPT ![f.slot] = f.val] \in [Slots -> Params]
      BY <1>0, <1>1
    <3>2. Applied(f) = [device EXCEPT !.mode = [device.mode EXCEPT ![f.slot] = f.val],
                                      !.took = device.took \cup {f.by}]
      BY <1>0, <1>2, <2>2
    <3>3. device.took \cup {f.by} \in SUBSET Callers
      BY <1>0, <1>2, <2>2
    <3> QED
      BY <1>0, <3>1, <3>2, <3>3
  <2>3. CASE f.cmd = "Block"
    <3>1. Applied(f) = [device EXCEPT !.stored = @ \cup {<<f.by, f.slot>>}]
          /\ f.by \in Callers /\ f.slot \in 1..Blocks
      BY <2>3 DEF Applied, Good
    <3> QED
      BY <1>0, <3>1
  <2>4. CASE f.cmd \notin {"SetSwitch", "SetRgb", "Block"}
    BY <1>0, <2>4 DEF Applied
  <2> QED
    BY <2>1, <2>2, <2>3, <2>4
<1>4. ASSUME NEW s \in Slots, NEW n \in 1..2 PROVE Applied(f).mode[s][n] \in Wanted(s, n)
  <2>1. CASE f.cmd = "SetRgb"
    <3>1. Applied(f).mode = [device.mode EXCEPT ![f.slot] = f.val]
      BY <1>0, <1>2, <2>1
    <3> QED
      BY <1>0, <1>2, <2>1, <3>1
  <2>2. CASE f.cmd # "SetRgb"
    <3>1. Applied(f).mode = device.mode
      BY <1>0, <2>2 DEF Applied
    <3> QED
      BY <1>0, <3>1
  <2> QED
    BY <2>1, <2>2
<1> QED
  BY <1>3, <1>4

\* A cooler that is in order answers good frames with good frames.
LEMMA AnswersAreGood ==
  ASSUME LinkInv, NEW f \in Good
  PROVE  /\ \/ Answers(f) = <<>>
            \/ \E g \in Good : Answers(f) = <<g>> /\ (f.cmd # "Block" => g.cmd # "Flow")
         /\ \A v \in {Accepted, Rejected} :
              f.cmd = "Block" => [f EXCEPT !.cmd = "Flow", !.slot = 0, !.val = v] \in Good
<1>0. /\ f \in Frame /\ device.sw \in Values /\ \A s \in Slots : device.mode[s] \in Params
      /\ \A s \in Slots, n \in 1..2 : device.mode[s][n] \in Wanted(s, n)
  BY DEF LinkInv, Good
<1>1. \A v \in Params : f.cmd = "Block" => [f EXCEPT !.cmd = "Flow", !.slot = 0, !.val = v] \in Good
  BY <1>0 DEF Good, Frame, Light, Commands, Queries
<1>2. Accepted \in Params /\ Rejected \in Params
  BY DEF Accepted, Rejected, Params, Values
<1>3. \/ Answers(f) = <<>>
      \/ \E g \in Good : Answers(f) = <<g>> /\ (f.cmd # "Block" => g.cmd # "Flow")
  <2>1. CASE f.cmd \in {"SetSwitch", "SetRgb", "SetPos", "Meta"}
    BY <2>1 DEF Answers
  <2>2. CASE f.cmd = "GetSwitch"
    <3>1. Answers(f) = <<[f EXCEPT !.val = <<device.sw, 0>>]>>
      BY <2>2 DEF Answers
    <3>2. [f EXCEPT !.val = <<device.sw, 0>>] \in Good
      BY <1>0, <2>2 DEF Good, Frame, Light, Params, Values
    <3>3. [f EXCEPT !.val = <<device.sw, 0>>].cmd = f.cmd
      BY <1>0 DEF Frame
    <3> QED
      BY <2>2, <3>1, <3>2, <3>3
  <2>3. CASE f.cmd = "GetRgb"
    <3>1. Answers(f) = <<[f EXCEPT !.val = device.mode[f.slot]]>>
      BY <2>3 DEF Answers
    <3>2. [f EXCEPT !.val = device.mode[f.slot]] \in Good
      BY <1>0, <2>3 DEF Good, Frame, Light
    <3>3. [f EXCEPT !.val = device.mode[f.slot]].cmd = f.cmd
      BY <1>0 DEF Frame
    <3> QED
      BY <2>3, <3>1, <3>2, <3>3
  <2>4. CASE f.cmd = "Block"
    <3>1. Answers(f) = <<[f EXCEPT !.cmd = "Flow", !.slot = 0, !.val = Accepted]>>
      BY <2>4 DEF Answers
    <3> QED
      BY <1>1, <1>2, <2>4, <3>1
  <2>5. CASE f.cmd \notin {"SetSwitch", "SetRgb", "SetPos", "Meta", "GetSwitch", "GetRgb", "Block"}
    BY <2>5 DEF Answers
  <2> QED
    BY <2>1, <2>2, <2>3, <2>4, <2>5
<1> QED
  BY <1>1, <1>2, <1>3

\* A full queue takes an answer in place of its oldest one.
LEMMA LatePushed ==
  ASSUME NEW S, NEW q \in Seq(S), NEW f \in S, Len(q) <= LateQueueCap
  PROVE  LatePush(q, f) \in Seq(S) /\ Len(LatePush(q, f)) <= LateQueueCap
<1>1. Len(q) \in Nat /\ LateQueueCap \in Nat \ {0}
  BY LenProperties, BoundAssumption
<1>2. CASE Len(q) >= LateQueueCap
  <2>1. q # <<>>
    BY <1>1, <1>2, EmptySeq
  <2>2. Tail(q) \in Seq(S) /\ Len(Tail(q)) = Len(q) - 1
    BY <2>1, Taken
  <2>3. LatePush(q, f) = Append(Tail(q), f)
    BY <1>2 DEF LatePush
  <2> QED
    BY <1>1, <2>2, <2>3, Appended
<1>3. CASE ~(Len(q) >= LateQueueCap)
  <2>1. LatePush(q, f) = Append(q, f)
    BY <1>3 DEF LatePush
  <2> QED
    BY <1>1, <1>3, <2>1, Appended
<1> QED
  BY <1>2, <1>3

\* A slot is not the key of the answers without one.
LEMMA LateKeyType ==
  ASSUME NEW f \in Good, f.cmd \in Queries
  PROVE  /\ LateKey(f) \in LateKeys /\ f \in LateOf(LateKey(f))
         /\ \A g \in LateOf(LateKey(f)) : g \in Good /\ g.cmd = f.cmd
BY SlotAssumption DEF LateOf, LateKey, LateKeys, Good, Light, Queries

\* What the cooler does with the first of its frames.
LEMMA GetsKeepsLink ==
  ASSUME LinkInv, UNCHANGED wish, NEW result, NEW answers, DeviceGets(result, answers),
         result \in [sw : Values, mode : [Slots -> Params],
                     stored : SUBSET (Callers \X (1..Blocks)), took : SUBSET Callers],
         \A s \in Slots, n \in 1..2 : result.mode[s][n] \in Wanted(s, n),
         answers = <<>> \/ \E g \in Good : answers = <<g>>,
         faults' \in 0..MaxFaults
  PROVE  LinkInv'
<1>1. Tail(toDevice) \in Seq(Good)
  BY Taken DEF LinkInv, DeviceGets
<1>2. answers \in Seq(Good)
  <2>1. \A g \in Good : <<g>> \in Seq(Good)
    OBVIOUS
  <2> QED
    BY <2>1, EmptySeq
<1>3. fromDevice \o answers \in Seq(Good)
  BY <1>2, ConcatProperties DEF LinkInv
<1>4. device' = result
  BY DEF DeviceGets
<1>5. Good' = Good /\ (\A k : LateOf(k)' = LateOf(k)) /\ \A s, n : Wanted(s, n)' = Wanted(s, n)
  BY SameWish
<1> QED
  BY <1>1, <1>3, <1>4, <1>5 DEF LinkInv, DeviceGets

\* The reader and the cooler hand on good frames.
LEMMA LinkKeepsLink ==
  ASSUME LinkInv, UNCHANGED wish, LinkSteps \/ LinkFaults
  PROVE  LinkInv'
<1>0. Good' = Good /\ (\A k : LateOf(k)' = LateOf(k)) /\ \A s, n : Wanted(s, n)' = Wanted(s, n)
  BY SameWish
<1>f. faults' = faults \/ Faulty => faults' \in 0..MaxFaults
  BY BoundAssumption DEF LinkInv, Faulty
<1>1. CASE ReaderReads
  <2>1. fromDevice # <<>> /\ fromDevice \in Seq(Good) /\ flow \in Seq(Params)
    BY <1>1 DEF ReaderReads, LinkInv
  <2>2. Head(fromDevice) \in Good /\ Tail(fromDevice) \in Seq(Good)
    BY <2>1, Taken
  <2>3. flow' \in Seq(Params)
    <3>1. Head(fromDevice).val \in Params
      BY <2>2 DEF Good, Frame
    <3>2. Append(flow, Head(fromDevice).val) \in Seq(Params)
      BY <2>1, <3>1, Appended
    <3> QED
      BY <1>1, <2>1, <3>2 DEF ReaderReads
  <2>4. reader' \in [route : {"none", "resp", "late"}, frame : Good]
        /\ (reader'.route = "late" => reader'.frame.cmd \in Queries)
    BY <1>1, <2>2, NoFrameIsGood DEF ReaderReads
  <2> QED
    BY <1>0, <1>1, <2>2, <2>3, <2>4 DEF ReaderReads, LinkInv
<1>2. CASE ReaderDelivers
  <2>1. reader.frame \in Good /\ reader.route \in {"resp", "late"}
    BY <1>2 DEF ReaderDelivers, LinkInv
  <2>2. CASE reader.route = "resp"
    <3>1. resp' = Append(resp, reader.frame) /\ late' = late /\ resp \in Seq(Good)
      BY <1>2, <2>2 DEF ReaderDelivers, LinkInv
    <3>2. resp' \in Seq(Good)
      BY <2>1, <3>1, Appended
    <3> QED
      BY <1>0, <1>2, <3>1, <3>2, NoFrameIsGood DEF ReaderDelivers, LinkInv
  <2>3. CASE reader.route = "late"
    <3> DEFINE f == reader.frame
               k == LateKey(f)
    <3>1. f \in Good /\ k \in LateKeys /\ f \in LateOf(k)
      BY <2>1, <2>3, LateKeyType DEF LinkInv
    <3>2. /\ late[k] \in Seq(Good) /\ late[k] \in Seq(LateOf(k))
          /\ Len(late[k]) <= LateQueueCap
      BY <3>1 DEF LinkInv
    <3>3. /\ LatePush(late[k], f) \in Seq(Good) /\ LatePush(late[k], f) \in Seq(LateOf(k))
          /\ Len(LatePush(late[k], f)) <= LateQueueCap
      BY <3>1, <3>2, LatePushed
    <3>4. late' = [late EXCEPT ![k] = LatePush(late[k], f)] /\ resp' = resp
      BY <1>2, <2>3 DEF ReaderDelivers
    <3>5. /\ late' \in [LateKeys -> Seq(Good)]
          /\ \A j \in LateKeys : late'[j] \in Seq(LateOf(j)) /\ Len(late'[j]) <= LateQueueCap
      BY <3>1, <3>3, <3>4 DEF LinkInv
    <3> QED
      BY <1>0, <1>2, <3>4, <3>5, NoFrameIsGood DEF ReaderDelivers, LinkInv
  <2> QED
    BY <2>1, <2>2, <2>3
<1>3. CASE DeviceAnswers \/ CommandIsLost \/ AnswerIsLost \/ BlockIsRejected
  <2> DEFINE f == Head(toDevice)
  <2>1. toDevice # <<>>
    BY <1>3 DEF DeviceAnswers, CommandIsLost, AnswerIsLost, BlockIsRejected, DeviceGets
  <2>2. f \in Good
    BY <2>1, Taken DEF LinkInv
  <2>3. \/ DeviceGets(Applied(f), Answers(f)) \/ DeviceGets(device, <<>>)
        \/ DeviceGets(Applied(f), <<>>)
        \/ /\ f.cmd = "Block"
           /\ DeviceGets(device, <<[f EXCEPT !.cmd = "Flow", !.slot = 0, !.val = Rejected]>>)
    BY <1>3 DEF DeviceAnswers, CommandIsLost, AnswerIsLost, BlockIsRejected
  <2>4. faults' \in 0..MaxFaults
    BY <1>3, <1>f DEF DeviceAnswers, CommandIsLost, AnswerIsLost, BlockIsRejected
  <2>5. \A s \in Slots, n \in 1..2 : device.mode[s][n] \in Wanted(s, n)
    BY DEF LinkInv
  <2>6. device \in [sw : Values, mode : [Slots -> Params],
                    stored : SUBSET (Callers \X (1..Blocks)), took : SUBSET Callers]
    BY DEF LinkInv
  <2>7. CASE DeviceGets(Applied(f), Answers(f))
    BY <2>2, <2>4, <2>7, AppliedIsGood, AnswersAreGood, GetsKeepsLink
  <2>8. CASE DeviceGets(device, <<>>)
    BY <2>4, <2>5, <2>6, <2>8, GetsKeepsLink
  <2>9. CASE DeviceGets(Applied(f), <<>>)
    BY <2>2, <2>4, <2>9, AppliedIsGood, AnswersAreGood, GetsKeepsLink
  <2>10. CASE /\ f.cmd = "Block"
              /\ DeviceGets(device, <<[f EXCEPT !.cmd = "Flow", !.slot = 0, !.val = Rejected]>>)
    BY <2>2, <2>4, <2>5, <2>6, <2>10, AppliedIsGood, AnswersAreGood, GetsKeepsLink
  <2> QED
    BY <2>3, <2>7, <2>8, <2>9, <2>10
<1> QED
  BY <1>1, <1>2, <1>3 DEF LinkSteps, LinkFaults

\* A caller touches the link from outside: what it queues, takes and awaits.
LEMMA LinkTouched ==
  ASSUME LinkInv, UNCHANGED <<wish, device, reader, fromDevice>>,
         await' \in Commands \cup {"none"}, flow' \in Seq(Params), flowing' \in BOOLEAN,
         resp' \in Seq(Good), toDevice' \in Seq(Good), faults' \in 0..MaxFaults,
         late' \in [LateKeys -> Seq(Good)],
         \A k \in LateKeys : late'[k] \in Seq(LateOf(k)) /\ Len(late'[k]) <= LateQueueCap
  PROVE  LinkInv'
<1>1. Good' = Good /\ (\A k : LateOf(k)' = LateOf(k)) /\ \A s, n : Wanted(s, n)' = Wanted(s, n)
  BY SameWish
<1> QED
  BY <1>1 DEF LinkInv

-----------------------------------------------------------------------------
(* The callers.                                                            *)

\* What a step of a caller has to respect.
LEMMA CallsKept ==
  ASSUME CallsInv, UNCHANGED wish, NEW c \in Callers,
         mutex' \in Callers \cup {Nobody}, uploading' \in Callers \cup {Nobody},
         cache' \in [Slots -> Remembers], call' \in [Callers -> CallRecords],
         \A d \in Callers \ {c} : call'[d] = call[d], CallKnown(c)'
  PROVE  CallsInv'
<1>1. \A d \in Callers : CallKnown(d)'
  <2> SUFFICES ASSUME NEW d \in Callers \ {c} PROVE CallKnown(d)'
    OBVIOUS
  <2>1. call'[d] = call[d] /\ CallKnown(d) /\ Lighting(d)' = Lighting(d)
    BY SameWish DEF CallsInv
  <2> QED
    BY <2>1 DEF CallKnown
<1>2. Remembers' = Remembers /\ CallRecords' = CallRecords
  BY SameWish
<1> QED
  BY <1>1, <1>2 DEF CallsInv

\* A caller goes to another place and keeps the rest.
LEMMA Moved ==
  ASSUME CallsInv, NEW c \in Callers, NEW label \in Labels, Goes(c, label)
  PROVE  /\ call' \in [Callers -> CallRecords]
         /\ \A d \in Callers \ {c} : call'[d] = call[d]
         /\ call'[c].pc = label /\ call'[c].step = call[c].step
         /\ call'[c].frame = call[c].frame /\ call'[c].got = call[c].got
         /\ call'[c].missed = call[c].missed /\ call'[c].result = call[c].result
BY DEF CallsInv, Goes, CallRecords

\* The frames a caller writes.
LEMMA FrameIsGood ==
  ASSUME NEW c \in Callers, NEW cmd \in Commands, NEW slot \in {0} \cup Slots \cup 1..Blocks,
         NEW val \in Params,
         cmd \in Light => slot \in Slots /\ \A n \in 1..2 : val[n] \in Wanted(slot, n),
         cmd = "Block" => slot \in 1..Blocks
  PROVE  FrameOf(c, cmd, slot, val) \in Good /\ FrameOf(c, cmd, slot, val).cmd = cmd
BY DEF FrameOf, Good, Frame

Begins(c, n, f) == \E acked \in BOOLEAN : BeginExchange(c, n, f, acked)

\* An exchange begins: the caller has a frame to send and no answer.
LEMMA ExchangeBegins ==
  ASSUME IInv, NEW c \in Callers, NEW n \in 1..3, NEW f \in Good,
         f.cmd \in Commands \ {"Block"}, Lighting(c) => f.cmd \in Light,
         call[c].pc \in {"idle", "answered"},
         Begins(c, n, f), Between, cache' \in [Slots -> Remembers]
  PROVE  IInv'
<1>0. PICK acked \in BOOLEAN : BeginExchange(c, n, f, acked)
  BY DEF Begins
<1>1. /\ call' \in [Callers -> CallRecords]
      /\ \A d \in Callers \ {c} : call'[d] = call[d]
      /\ call'[c].pc = "queued" /\ call'[c].step = n /\ call'[c].frame = f
      /\ call'[c].got = NoFrame
  <2>1. call \in [Callers -> CallRecords]
    BY DEF IInv, CallsInv
  <2>2. n \in 0..Blocks + 3 /\ "queued" \in Labels /\ NoFrame \in Good
    BY NoFrameIsGood, SlotAssumption DEF Labels
  <2>3. [call[c] EXCEPT !.pc = "queued", !.step = n, !.frame = f, !.got = NoFrame,
                        !.acked = acked] \in CallRecords
    BY <1>0, <2>1, <2>2 DEF CallRecords
  <2>4. call' = [call EXCEPT ![c] = [call[c] EXCEPT !.pc = "queued", !.step = n, !.frame = f,
                                                    !.got = NoFrame, !.acked = acked]]
    BY <1>0, <2>1 DEF BeginExchange
  <2>5. call'[c] = [call[c] EXCEPT !.pc = "queued", !.step = n, !.frame = f, !.got = NoFrame,
                                   !.acked = acked]
    BY <2>1, <2>4
  <2> QED
    BY <2>1, <2>2, <2>3, <2>4, <2>5 DEF CallRecords
<1>2. CallKnown(c)'
  BY <1>1, SameWish DEF CallKnown, Exchanging, Between
<1>3. CallsInv'
  BY <1>1, <1>2, CallsKept, <1>0 DEF IInv, CallsInv, Between, BeginExchange
<1>4. BusInv'
  BY <1>1, TicketDrawn, <1>0 DEF IInv, CallsInv, BeginExchange, Ticketed, OnBus
<1>5. LinkInv'
  BY LinkTouched DEF IInv, LinkInv, Between, deviceVars
<1> QED
  BY <1>3, <1>4, <1>5 DEF IInv

\* A call ends.
LEMMA CallEnds ==
  ASSUME IInv, NEW c \in Callers, NEW result \in Results, call[c].pc = "answered",
         mutex' \in Callers \cup {Nobody}, wire' = wire,
         call' = [call EXCEPT ![c].pc = "done", ![c].result = result],
         Between, cache' \in [Slots -> Remembers]
  PROVE  IInv'
<1>1. /\ call' \in [Callers -> CallRecords]
      /\ \A d \in Callers \ {c} : call'[d] = call[d]
      /\ call'[c].pc = "done" /\ call'[c].got = call[c].got /\ call'[c].frame = call[c].frame
  <2>1. call \in [Callers -> CallRecords] /\ "done" \in Labels
    BY DEF IInv, CallsInv, Labels
  <2> QED
    BY <2>1 DEF CallRecords
<1>2. CallKnown(c)'
  BY <1>1, SameWish DEF CallKnown, Exchanging, Between, IInv, CallsInv
<1>3. CallsInv'
  BY <1>1, <1>2, CallsKept DEF IInv, CallsInv, Between
<1>4. BusInv'
  BY <1>1, BusKept DEF IInv, Ticketed, OnBus
<1>5. LinkInv'
  BY LinkTouched DEF IInv, LinkInv, Between, deviceVars
<1> QED
  BY <1>3, <1>4, <1>5 DEF IInv

\* What is remembered after a read is a block of some slot, and a block that
\* names the slot it was read for has values of this slot.
LEMMA BlocksRemembered ==
  ASSUME IInv, NEW c \in Callers, call[c].pc = "answered", Lighting(c)
  PROVE  /\ wish[c].slot \in Slots
         /\ Remembered(c) \in [Slots -> Remembers]
         /\ BlockRead(c) \in Good /\ BlockRead(c).val \in Params
         /\ OfOwnSlot(c) => \A n \in 1..2 : BlockRead(c).val[n] \in Wanted(wish[c].slot, n)
<1>1. wish[c].slot \in Slots /\ wish[c].slot # 0
  BY SlotAssumption DEF IInv, CallsInv, Wishes, Lighting
<1>2. call[c].got \in Remembers
  <2>1. call[c].got \in Good /\ (call[c].got # NoFrame => call[c].got.cmd \in Light)
    BY DEF IInv, CallsInv, CallRecords, CallKnown, Exchanging
  <2> QED
    BY <2>1, NoFrameIsGood DEF Remembers
<1>3. Remembered(c) \in [Slots -> Remembers]
  BY <1>2 DEF IInv, CallsInv, Remembered
<1>4. BlockRead(c) \in Remembers
  BY <1>1, <1>3 DEF BlockRead
<1>5. BlockRead(c) \in Good /\ BlockRead(c).val \in Params
  <2>1. BlockRead(c) \in Good
    BY <1>4, NoFrameIsGood DEF Remembers
  <2> QED
    BY <2>1 DEF Good, Frame
<1>6. ASSUME OfOwnSlot(c), NEW n \in 1..2 PROVE BlockRead(c).val[n] \in Wanted(wish[c].slot, n)
  <2>1. BlockRead(c) # NoFrame
    BY <1>1, <1>6 DEF OfOwnSlot, NoFrame
  <2>2. BlockRead(c).cmd \in Light
    BY <1>4, <2>1 DEF Remembers
  <2> QED
    BY <1>5, <1>6, <2>2 DEF OfOwnSlot, Good
<1> QED
  BY <1>1, <1>3, <1>5, <1>6

\* The steps that begin an exchange or end a call.
LEMMA TurnsKeep ==
  ASSUME IInv, NEW c \in Callers,
         \/ SwitchBegins(c) \/ SwitchWrote(c) \/ SwitchEnds(c)
         \/ LightingBegins(c) \/ EditReads(c) \/ EditWrote(c) \/ EditEnds(c)
         \/ SelectReads(c) \/ SelectEnds(c) \/ ReadEnds(c)
         \/ RestoreBegins(c) \/ RestoreEnds(c) \/ PosBegins(c) \/ PosEnds(c)
  PROVE  IInv'
<1> USE DEF At, Answered
<1>w. /\ wish[c].val \in Values /\ <<0, 0>> \in Params /\ <<wish[c].val, 0>> \in Params
      /\ <<wish[c].val, wish[c].val>> \in Params /\ cache \in [Slots -> Remembers]
      /\ wish[c].field \in 1..2
      /\ (Lighting(c) => wish[c].slot \in Slots)
  BY DEF IInv, CallsInv, Wishes, Lighting, Params, Values
<1>z. \A s, n : 0 \in Wanted(s, n)
  BY DEF Wanted
<1>a. ASSUME NEW slot \in Slots
      PROVE  /\ FrameOf(c, "GetRgb", slot, <<0, 0>>) \in Good
             /\ FrameOf(c, "GetRgb", slot, <<0, 0>>).cmd = "GetRgb"
  <2>1. \A n \in 1..2 : <<0, 0>>[n] \in Wanted(slot, n)
    BY <1>z
  <2> QED
    BY <1>w, <2>1, FrameIsGood DEF Commands, Queries
<1>b. ASSUME NEW slot \in Slots, NEW val \in Params, \A n \in 1..2 : val[n] \in Wanted(slot, n)
      PROVE  FrameOf(c, "SetRgb", slot, val) \in Good /\ FrameOf(c, "SetRgb", slot, val).cmd = "SetRgb"
  BY <1>b, FrameIsGood DEF Commands
<1>c. /\ FrameOf(c, "SetSwitch", 0, <<wish[c].val, 0>>) \in Good
      /\ FrameOf(c, "SetSwitch", 0, <<wish[c].val, 0>>).cmd = "SetSwitch"
      /\ FrameOf(c, "GetSwitch", 0, <<0, 0>>) \in Good
      /\ FrameOf(c, "GetSwitch", 0, <<0, 0>>).cmd = "GetSwitch"
      /\ FrameOf(c, "SetPos", 0, <<0, 0>>) \in Good
      /\ FrameOf(c, "SetPos", 0, <<0, 0>>).cmd = "SetPos"
  BY <1>w, FrameIsGood, ZenonT(60) DEF Commands, Queries, Light
<1>d. {"GetRgb", "SetRgb", "GetSwitch", "SetSwitch", "SetPos"} \subseteq Commands \ {"Block"}
      /\ Light = {"GetRgb", "SetRgb"}
  BY DEF Commands, Queries, Light
<1>g. Got(c) \in BOOLEAN
  BY DEF Got
<1>m. Nobody \in Callers \cup {Nobody} /\ Nobody' = Nobody
  OBVIOUS
<1>r. \A r \in {"none", "confirmed", "acked", "read", "ok", "failed"} : r \in Results
  BY DEF Results
<1>1. CASE SwitchBegins(c)
  <2>b. Begins(c, 1, FrameOf(c, "SetSwitch", 0, <<wish[c].val, 0>>))
    BY <1>1, <1>g, Zenon DEF SwitchBegins, Begins
  <2> QED
    BY <1>1, <2>b, <1>w, <1>c, <1>d, ExchangeBegins DEF SwitchBegins, Is, Lighting, LightingKinds
<1>2. CASE SwitchWrote(c)
  <2>b. Begins(c, 2, FrameOf(c, "GetSwitch", 0, <<0, 0>>))
    BY <1>2, <1>g, Zenon DEF SwitchWrote, Begins
  <2> QED
    BY <1>2, <2>b, <1>w, <1>c, <1>d, ExchangeBegins DEF SwitchWrote, Is, Lighting, LightingKinds
<1>3. CASE SwitchEnds(c)
  <2>1. SwitchVerdict(c) \in Results
    BY <1>r DEF SwitchVerdict
  <2>2. mutex' \in Callers \cup {Nobody}
    BY <1>3 DEF SwitchEnds, IInv, CallsInv
  <2> QED
    BY <1>3, <1>w, <2>1, <2>2, CallEnds DEF SwitchEnds
<1>4. CASE LightingBegins(c)
  <2>b. Begins(c, 1, FrameOf(c, "GetRgb", wish[c].slot, <<0, 0>>))
    BY <1>4, <1>g, Zenon DEF LightingBegins, Begins
  <2> QED
    BY <1>4, <2>b, <1>w, <1>a, <1>d, ExchangeBegins DEF LightingBegins
<1>5. CASE EditReads(c)
  <2> DEFINE block == BlockRead(c)
             val == [block.val EXCEPT ![wish[c].field] = wish[c].val]
  <2>1. Lighting(c)
    BY <1>5 DEF EditReads, Is, Lighting, LightingKinds
  <2>2. /\ wish[c].slot \in Slots /\ cache' \in [Slots -> Remembers] /\ block.val \in Params
        /\ OfOwnSlot(c) => \A n \in 1..2 : block.val[n] \in Wanted(wish[c].slot, n)
    BY <1>5, <2>1, BlocksRemembered DEF EditReads
  <2>3. CASE ~OfOwnSlot(c)
    BY <1>5, <1>r, <2>2, <2>3, CallEnds DEF EditReads, Ends
  <2>4. CASE OfOwnSlot(c)
    <3>1. val \in Params
      BY <1>w, <2>2 DEF Params
    <3>2. wish[c].val \in Wanted(wish[c].slot, wish[c].field)
      BY <1>5 DEF EditReads, Wanted, Asked
    <3>3. \A n \in 1..2 : val[n] \in Wanted(wish[c].slot, n)
      BY <1>w, <2>2, <2>4, <3>2 DEF Params
    <3>4. block.slot = wish[c].slot
      BY <2>4 DEF OfOwnSlot
    <3>5. Begins(c, 2, FrameOf(c, "SetRgb", wish[c].slot, val))
      BY <1>5, <2>4, <3>4, Zenon DEF EditReads, Begins
    <3> HIDE DEF val
    <3>6. /\ FrameOf(c, "SetRgb", wish[c].slot, val) \in Good
          /\ FrameOf(c, "SetRgb", wish[c].slot, val).cmd = "SetRgb"
      BY <1>b, <2>2, <3>1, <3>3
    <3> QED
      BY <1>5, <1>d, <2>2, <3>5, <3>6, ExchangeBegins DEF EditReads
  <2> QED
    BY <2>3, <2>4
<1>6. CASE EditWrote(c)
  <2>b. Begins(c, 3, FrameOf(c, "GetRgb", wish[c].slot, <<0, 0>>))
    BY <1>6, <1>g, Zenon DEF EditWrote, Begins
  <2> QED
    BY <1>6, <2>b, <1>w, <1>a, <1>d, ExchangeBegins DEF EditWrote, Is, Lighting, LightingKinds
<1>7. CASE EditEnds(c)
  <2>1. Lighting(c)
    BY <1>7 DEF EditEnds, Is, Lighting, LightingKinds
  <2> QED
    BY <1>7, <1>r, <2>1, BlocksRemembered, CallEnds DEF EditEnds, Ends
<1>8. CASE SelectReads(c)
  <2> DEFINE block == BlockRead(c)
  <2>1. Lighting(c)
    BY <1>8 DEF SelectReads, Is, Lighting, LightingKinds
  <2>2. /\ wish[c].slot \in Slots /\ cache' \in [Slots -> Remembers] /\ block.val \in Params
        /\ OfOwnSlot(c) => \A n \in 1..2 : block.val[n] \in Wanted(wish[c].slot, n)
    BY <1>8, <2>1, BlocksRemembered DEF SelectReads
  <2>3. CASE ~OfOwnSlot(c)
    BY <1>8, <1>r, <2>2, <2>3, CallEnds DEF SelectReads, Ends
  <2>4. CASE OfOwnSlot(c)
    <3>1. block.slot = wish[c].slot
      BY <2>4 DEF OfOwnSlot
    <3>2. Begins(c, 2, FrameOf(c, "SetRgb", wish[c].slot, block.val))
      BY <1>8, <2>4, <3>1, Zenon DEF SelectReads, Begins
    <3> QED
      BY <1>8, <1>b, <1>d, <2>2, <2>4, <3>2, ExchangeBegins DEF SelectReads
  <2> QED
    BY <2>3, <2>4
<1>9. CASE SelectEnds(c)
  <2>1. Lighting(c)
    BY <1>9 DEF SelectEnds, Is, Lighting, LightingKinds
  <2>2. call[c].frame \in Remembers
    BY <1>9, <2>1 DEF SelectEnds, IInv, CallsInv, CallRecords, CallKnown, Exchanging, Remembers
  <2>3. cache' \in [Slots -> Remembers]
    BY <1>9, <1>w, <2>2 DEF SelectEnds
  <2> QED
    BY <1>9, <1>r, <2>3, CallEnds DEF SelectEnds, Ends
<1>10. CASE ReadEnds(c) \/ PosEnds(c)
  BY <1>10, <1>w, <1>r, CallEnds DEF ReadEnds, PosEnds, Ends
<1>11. CASE RestoreBegins(c)
  <2>1. Lighting(c)
    BY <1>11 DEF RestoreBegins, Is, Lighting, LightingKinds
  <2>2. \A n \in 1..2 : <<wish[c].val, wish[c].val>>[n] \in Wanted(wish[c].slot, n)
    BY <1>11 DEF RestoreBegins, Wanted, Asked
  <2>b. Begins(c, 1, FrameOf(c, "SetRgb", wish[c].slot, <<wish[c].val, wish[c].val>>))
    BY <1>11, Zenon DEF RestoreBegins, Begins
  <2> QED
    BY <1>11, <1>w, <1>b, <1>d, <2>1, <2>2, <2>b, ExchangeBegins DEF RestoreBegins
<1>12. CASE RestoreEnds(c)
  <2>1. Lighting(c)
    BY <1>12 DEF RestoreEnds, Is, Lighting, LightingKinds
  <2> QED
    BY <1>12, <1>r, <2>1, BlocksRemembered, CallEnds DEF RestoreEnds, Ends
<1>13. CASE PosBegins(c)
  <2>b. Begins(c, 1, FrameOf(c, "SetPos", 0, <<0, 0>>))
    BY <1>13, <1>g, Zenon DEF PosBegins, Begins
  <2> QED
    BY <1>13, <2>b, <1>w, <1>c, <1>d, ExchangeBegins DEF PosBegins, Is, Lighting, LightingKinds
<1> QED
  BY <1>1, <1>2, <1>3, <1>4, <1>5, <1>6, <1>7, <1>8, <1>9, <1>10, <1>11, <1>12, <1>13

\* The steps of an exchange on the bus, and the one frame sent without one.
LEMMA ExchangeKeeps ==
  ASSUME IInv, NEW c \in Callers,
         \/ Enters(c) \/ Declares(c) \/ Sends(c) \/ SendFails(c) \/ TakesAnswer(c) \/ TimesOut(c)
         \/ RestoreWrites(c) \/ RestoreFails(c) \/ PushesInfo(c)
  PROVE  IInv'
<1> DEFINE f == call[c].frame
<1>c. CallsInv /\ LinkInv /\ BusInv /\ CallKnown(c)
  BY DEF IInv, CallsInv
<1>t. /\ call \in [Callers -> CallRecords] /\ f \in Good /\ cache \in [Slots -> Remembers]
      /\ mutex \in Callers \cup {Nobody} /\ uploading \in Callers \cup {Nobody}
      /\ wire \in Seq(Callers) /\ resp \in Seq(Good) /\ toDevice \in Seq(Good)
      /\ flow \in Seq(Params) /\ flowing \in BOOLEAN /\ await \in Commands \cup {"none"}
      /\ late \in [LateKeys -> Seq(Good)] /\ faults \in 0..MaxFaults
      /\ \A k \in LateKeys : late[k] \in Seq(LateOf(k)) /\ Len(late[k]) <= LateQueueCap
      /\ <<>> \in Seq(Good)
  BY EmptySeq DEF IInv, CallsInv, LinkInv, BusInv, CallRecords
<1>f. Faulty => faults' \in 0..MaxFaults
  BY <1>t, BoundAssumption DEF Faulty
<1>l. {"done", "send", "wait", "declare", "answered"} \subseteq Labels /\ "failed" \in Results
  BY DEF Labels, Results
<1>1. CASE Enters(c)
  <2> DEFINE q == IF f.cmd \in Queries THEN late[LateKey(f)] ELSE <<>>
  <2>0. /\ call[c].pc = "queued" /\ Inside(c) /\ resp' = <<>>
        /\ UNCHANGED <<wish, device, reader, fromDevice, flow, flowing, await, toDevice, faults,
                       cache, uploading>>
    BY <1>1 DEF Enters, At, deviceVars
  <2>1. PICK expired \in 0..Len(q) :
          IF expired < Len(q)
          THEN /\ late' = [late EXCEPT ![LateKey(f)] = SubSeq(q, expired + 2, Len(q))]
               /\ wire' = Released /\ mutex' = Nobody
               /\ call' = [call EXCEPT ![c].pc = "answered", ![c].got = q[expired + 1]]
          ELSE /\ late' = IF q = <<>> THEN late ELSE [late EXCEPT ![LateKey(f)] = <<>>]
               /\ Goes(c, "declare") /\ UNCHANGED <<wire, mutex>>
    BY <1>1 DEF Enters
  <2>2. CASE expired < Len(q)
    <3>1. f.cmd \in Queries /\ q = late[LateKey(f)]
      BY <2>1, <2>2, EmptySeq
    <3>2. /\ LateKey(f) \in LateKeys /\ q \in Seq(Good) /\ q \in Seq(LateOf(LateKey(f)))
          /\ Len(q) <= LateQueueCap /\ Len(q) \in Nat
          /\ \A g \in LateOf(LateKey(f)) : g \in Good /\ g.cmd = f.cmd
      BY <1>t, <3>1, LateKeyType, LenProperties
    <3> HIDE DEF q
    <3>3. expired + 1 \in 1..Len(q) /\ expired + 2 \in Int /\ Len(q) \in Int /\ expired \in Nat
      BY <2>1, <2>2, <3>2
    <3>4. \A i \in expired + 2 .. Len(q) : q[i] \in Good /\ q[i] \in LateOf(LateKey(f))
      BY <3>2, <3>3, ElementOfSeq
    <3>5. /\ SubSeq(q, expired + 2, Len(q)) \in Seq(Good)
          /\ SubSeq(q, expired + 2, Len(q)) \in Seq(LateOf(LateKey(f)))
          /\ Len(SubSeq(q, expired + 2, Len(q)))
               = IF expired + 2 <= Len(q) THEN Len(q) - (expired + 2) + 1 ELSE 0
      BY <3>3, <3>4, SubSeqProperties
    <3>6. q[expired + 1] \in Good /\ q[expired + 1].cmd = f.cmd
      BY <3>2, <3>3, ElementOfSeq
    <3>7. late' = [late EXCEPT ![LateKey(f)] = SubSeq(q, expired + 2, Len(q))]
          /\ wire' = Tail(wire) /\ mutex' = Nobody
          /\ call' = [call EXCEPT ![c].pc = "answered", ![c].got = q[expired + 1]]
      BY <2>1, <2>2 DEF Released
    <3>8. Len(SubSeq(q, expired + 2, Len(q))) <= LateQueueCap
      BY <3>2, <3>3, <3>5, BoundAssumption
    <3>9. /\ late' \in [LateKeys -> Seq(Good)]
          /\ \A k \in LateKeys : late'[k] \in Seq(LateOf(k)) /\ Len(late'[k]) <= LateQueueCap
      BY <1>t, <3>2, <3>5, <3>7, <3>8
    <3>10. /\ call' \in [Callers -> CallRecords]
           /\ \A d \in Callers \ {c} : call'[d] = call[d]
           /\ call'[c].pc = "answered" /\ call'[c].got = q[expired + 1] /\ call'[c].frame = f
      BY <1>t, <1>l, <3>6, <3>7, ZenonT(60) DEF CallRecords
    <3>11. CallKnown(c)'
      BY <1>c, <2>0, <3>6, <3>10, SameWish DEF CallKnown, Exchanging
    <3>12. LinkInv'
      BY <1>c, <1>t, <2>0, <3>9, LinkTouched
    <3>13. CallsInv'
      BY <1>c, <1>t, <2>0, <3>7, <3>10, <3>11, CallsKept
    <3>14. BusInv'
      BY <1>c, <1>t, <2>0, <3>7, <3>10, BusLeft DEF OnBus
    <3> QED
      BY <3>12, <3>13, <3>14 DEF IInv
  <2>3. CASE ~(expired < Len(q))
    <3>1. /\ late' = (IF q = <<>> THEN late ELSE [late EXCEPT ![LateKey(f)] = <<>>])
          /\ Goes(c, "declare") /\ UNCHANGED <<wire, mutex>>
      BY <2>1, <2>3
    <3>2. /\ late' \in [LateKeys -> Seq(Good)]
          /\ \A k \in LateKeys : late'[k] \in Seq(LateOf(k)) /\ Len(late'[k]) <= LateQueueCap
      <4>1. CASE q = <<>>
        BY <1>t, <3>1, <4>1
      <4>2. CASE q # <<>>
        <5>1. LateKey(f) \in LateKeys
          BY <1>t, <4>2, LateKeyType
        <5>2. late' = [late EXCEPT ![LateKey(f)] = <<>>]
          BY <3>1, <4>2
        <5>3. \A S : <<>> \in Seq(S) /\ Len(<<>>) = 0
          BY EmptySeq
        <5>4. 0 <= LateQueueCap
          BY BoundAssumption
        <5> QED
          BY <1>t, <5>1, <5>2, <5>3, <5>4
      <4> QED
        BY <4>1, <4>2
    <3>3. /\ call' \in [Callers -> CallRecords]
          /\ \A d \in Callers \ {c} : call'[d] = call[d]
          /\ call'[c].pc = "declare" /\ call'[c].got = call[c].got /\ call'[c].frame = f
      BY <1>c, <1>l, <3>1, Moved
    <3>4. CallKnown(c)'
      BY <1>c, <2>0, <3>3, SameWish DEF CallKnown, Exchanging
    <3>5. LinkInv'
      BY <1>c, <1>t, <2>0, <3>2, LinkTouched
    <3>6. CallsInv'
      BY <1>c, <1>t, <2>0, <3>1, <3>3, <3>4, CallsKept
    <3>7. BusInv'
      BY <1>c, <1>t, <2>0, <3>1, <3>3, BusKept DEF Ticketed, OnBus
    <3> QED
      BY <3>5, <3>6, <3>7 DEF IInv
  <2> QED
    BY <2>2, <2>3
<1>2. CASE Declares(c)
  <2>1. /\ call' \in [Callers -> CallRecords]
        /\ \A d \in Callers \ {c} : call'[d] = call[d]
        /\ call'[c].pc = "send" /\ call'[c].got = call[c].got /\ call'[c].frame = f
        /\ call[c].pc = "declare"
    BY <1>2, <1>c, <1>l, Moved DEF Declares, At
  <2>2. CallKnown(c)'
    BY <1>2, <1>c, <2>1, SameWish DEF CallKnown, Exchanging, Declares
  <2>3. LinkInv'
    BY <1>2, <1>c, <1>t, <2>1, LinkTouched DEF Declares, deviceVars, CallKnown, Exchanging
  <2>4. CallsInv'
    BY <1>2, <1>c, <1>t, <2>1, <2>2, CallsKept DEF Declares
  <2>5. BusInv'
    BY <1>2, <1>c, <2>1, BusKept DEF Declares, BusInv, Ticketed, OnBus
  <2> QED
    BY <2>3, <2>4, <2>5 DEF IInv
<1>3. CASE Sends(c)
  <2>1. /\ call' \in [Callers -> CallRecords]
        /\ \A d \in Callers \ {c} : call'[d] = call[d]
        /\ call'[c].pc = "wait" /\ call'[c].got = call[c].got /\ call'[c].frame = f
        /\ call[c].pc = "send"
    BY <1>3, <1>c, <1>l, Moved DEF Sends, At
  <2>2. CallKnown(c)'
    BY <1>3, <1>c, <2>1, SameWish DEF CallKnown, Exchanging, Sends
  <2>3. toDevice' \in Seq(Good)
    BY <1>3, <1>t, Appended DEF Sends
  <2>4. LinkInv'
    BY <1>3, <1>c, <1>t, <2>3, LinkTouched DEF Sends, deviceVars
  <2>5. CallsInv'
    BY <1>3, <1>c, <1>t, <2>1, <2>2, CallsKept DEF Sends
  <2>6. BusInv'
    BY <1>3, <1>c, <2>1, BusKept DEF Sends, BusInv, Ticketed, OnBus
  <2> QED
    BY <2>4, <2>5, <2>6 DEF IInv
<1>4. CASE SendFails(c) \/ TimesOut(c)
  <2>1. /\ call[c].pc \in {"send", "wait"} /\ Goes(c, "answered") /\ EndExchange(c)
        /\ UNCHANGED <<wish, device, reader, fromDevice, flow, flowing, resp, late, toDevice,
                       cache, uploading>>
        /\ mutex' \in Callers \cup {Nobody} /\ faults' \in 0..MaxFaults
    BY <1>4, <1>t, <1>f DEF SendFails, TimesOut, At, deviceVars
  <2>2. /\ call' \in [Callers -> CallRecords]
        /\ \A d \in Callers \ {c} : call'[d] = call[d]
        /\ call'[c].pc = "answered" /\ call'[c].got = call[c].got /\ call'[c].frame = f
    BY <1>c, <1>l, <2>1, Moved
  <2>3. CallKnown(c)'
    BY <1>c, <2>1, <2>2, SameWish DEF CallKnown, Exchanging
  <2>4. LinkInv'
    BY <1>c, <1>t, <2>1, LinkTouched DEF EndExchange
  <2>5. CallsInv'
    BY <1>c, <1>t, <2>1, <2>2, <2>3, CallsKept
  <2>6. Inside(c)
    BY <1>c, <2>1 DEF BusInv, OnBus
  <2>7. BusInv'
    BY <1>c, <1>t, <2>1, <2>2, <2>6, BusLeft DEF EndExchange, Released, OnBus
  <2> QED
    BY <2>4, <2>5, <2>7 DEF IInv
<1>5. CASE TakesAnswer(c)
  <2>1. /\ call[c].pc = "wait" /\ resp # <<>> /\ resp' = Tail(resp)
        /\ UNCHANGED <<wish, device, reader, fromDevice, flow, flowing, late, toDevice, faults,
                       mutex, cache, uploading>>
    BY <1>5 DEF TakesAnswer, At, deviceVars
  <2>2. Tail(resp) \in Seq(Good) /\ Head(resp) \in Good
    BY <1>t, <2>1, Taken
  <2>3. Inside(c)
    BY <1>c, <2>1 DEF BusInv, OnBus
  <2>4. CASE Head(resp).cmd = f.cmd
    <3>1. EndExchange(c) /\ call' = [call EXCEPT ![c].pc = "answered", ![c].got = Head(resp)]
      BY <1>5, <2>4 DEF TakesAnswer
    <3>2. /\ call' \in [Callers -> CallRecords]
          /\ \A d \in Callers \ {c} : call'[d] = call[d]
          /\ call'[c].pc = "answered" /\ call'[c].got = Head(resp) /\ call'[c].frame = f
      BY <1>t, <1>l, <2>2, <3>1 DEF CallRecords
    <3>3. CallKnown(c)'
      BY <1>c, <2>1, <2>4, <3>2, SameWish DEF CallKnown, Exchanging
    <3>4. LinkInv'
      BY <1>c, <1>t, <2>1, <2>2, <3>1, LinkTouched DEF EndExchange
    <3>5. CallsInv'
      BY <1>c, <1>t, <2>1, <3>2, <3>3, CallsKept
    <3>6. BusInv'
      BY <1>c, <1>t, <2>3, <3>1, <3>2, BusLeft DEF EndExchange, Released, OnBus
    <3> QED
      BY <3>4, <3>5, <3>6 DEF IInv
  <2>5. CASE Head(resp).cmd # f.cmd
    <3>1. UNCHANGED <<await, wire, call>>
      BY <1>5, <2>5 DEF TakesAnswer
    <3>2. LinkInv'
      BY <1>c, <1>t, <2>1, <2>2, <3>1, LinkTouched
    <3>3. CallKnown(c)'
      BY <1>c, <2>1, <3>1, SameWish DEF CallKnown
    <3>4. CallsInv'
      BY <1>c, <1>t, <2>1, <3>1, <3>3, CallsKept
    <3>5. BusInv'
      BY <1>c, <3>1 DEF BusInv, Inside
    <3> QED
      BY <3>2, <3>4, <3>5 DEF IInv
  <2> QED
    BY <2>4, <2>5
<1>6. CASE RestoreWrites(c)
  <2> DEFINE g == FrameOf(c, "GetRgb", wish[c].slot, <<0, 0>>)
  <2>1. /\ call[c].pc = "queued" /\ Inside(c) /\ Lighting(c)
        /\ toDevice' = Append(toDevice, f) /\ wire' = Append(Tail(wire), c)
        /\ call' = [call EXCEPT ![c].step = 2, ![c].frame = g]
        /\ UNCHANGED <<wish, device, reader, fromDevice, flow, flowing, await, resp, late, faults,
                       mutex, cache, uploading>>
    BY <1>6 DEF RestoreWrites, WritesOnly, At, Is, Lighting, LightingKinds, Released, deviceVars
  <2>2. toDevice' \in Seq(Good)
    BY <1>t, <2>1, Appended
  <2>3. wish[c].slot \in Slots
    BY <1>c, <2>1 DEF CallsInv, Wishes, Lighting
  <2>4. g \in Good /\ g.cmd = "GetRgb"
    <3>1. \A n \in 1..2 : <<0, 0>>[n] \in Wanted(wish[c].slot, n)
      BY DEF Wanted
    <3>2. <<0, 0>> \in Params /\ "GetRgb" \in Commands
      BY DEF Commands, Queries, Params, Values
    <3> QED
      BY <2>3, <3>1, <3>2, FrameIsGood
  <2> HIDE DEF g
  <2>5. /\ call' \in [Callers -> CallRecords]
        /\ \A d \in Callers \ {c} : call'[d] = call[d]
        /\ call'[c].pc = "queued" /\ call'[c].got = call[c].got /\ call'[c].frame = g
    <3>1. 2 \in 0..Blocks + 3
      BY SlotAssumption
    <3> QED
      BY <1>t, <2>1, <2>4, <3>1, ZenonT(60) DEF CallRecords
  <2>6. CallKnown(c)'
    BY <1>c, <2>1, <2>4, <2>5, SameWish DEF CallKnown, Exchanging, Light, Commands, Queries
  <2>7. LinkInv'
    BY <1>c, <1>t, <2>1, <2>2, LinkTouched
  <2>8. CallsInv'
    BY <1>c, <1>t, <2>1, <2>5, <2>6, CallsKept
  <2>9. BusInv'
    BY <1>c, <1>t, <2>1, <2>5, TicketRedrawn
  <2> QED
    BY <2>7, <2>8, <2>9 DEF IInv
<1>7. CASE RestoreFails(c)
  <2>1. /\ Inside(c) /\ wire' = Tail(wire) /\ mutex' = Nobody /\ faults' \in 0..MaxFaults
        /\ call' = [call EXCEPT ![c].pc = "done", ![c].result = "failed"]
        /\ UNCHANGED <<wish, device, reader, fromDevice, flow, flowing, await, resp, late, toDevice,
                       cache, uploading>>
    BY <1>7, <1>f DEF RestoreFails, Released, deviceVars
  <2>2. /\ call' \in [Callers -> CallRecords]
        /\ \A d \in Callers \ {c} : call'[d] = call[d]
        /\ call'[c].pc = "done" /\ call'[c].got = call[c].got /\ call'[c].frame = f
    BY <1>t, <1>l, <2>1, ZenonT(60) DEF CallRecords
  <2>3. CallKnown(c)'
    BY <1>c, <2>1, <2>2, SameWish DEF CallKnown, Exchanging
  <2>4. LinkInv'
    BY <1>c, <1>t, <2>1, LinkTouched
  <2>5. CallsInv'
    BY <1>c, <1>t, <2>1, <2>2, <2>3, CallsKept
  <2>6. BusInv'
    BY <1>c, <1>t, <2>1, <2>2, BusLeft DEF OnBus
  <2> QED
    BY <2>4, <2>5, <2>6 DEF IInv
<1>8. CASE PushesInfo(c)
  <2>1. /\ call' \in [Callers -> CallRecords]
        /\ \A d \in Callers \ {c} : call'[d] = call[d]
        /\ call'[c].pc = "done" /\ call'[c].got = call[c].got /\ call'[c].frame = f
        /\ call[c].pc = "idle"
    BY <1>8, <1>c, <1>l, Moved DEF PushesInfo, At
  <2>2. CallKnown(c)'
    BY <1>8, <1>c, <2>1, SameWish DEF CallKnown, Exchanging, PushesInfo
  <2>3. toDevice' \in Seq(Good)
    <3>1. FrameOf(c, "Info", 0, <<0, 0>>) \in Good
      BY FrameIsGood DEF Commands, Params, Values, Light
    <3> QED
      BY <1>8, <1>t, <3>1, Appended DEF PushesInfo
  <2>4. LinkInv'
    BY <1>8, <1>c, <1>t, <2>3, LinkTouched DEF PushesInfo, deviceVars
  <2>5. CallsInv'
    BY <1>8, <1>c, <1>t, <2>1, <2>2, CallsKept DEF PushesInfo
  <2>6. BusInv'
    BY <1>8, <1>c, <2>1, BusKept DEF PushesInfo, Ticketed, OnBus
  <2> QED
    BY <2>4, <2>5, <2>6 DEF IInv
<1> QED
  BY <1>1, <1>2, <1>3, <1>4, <1>5, <1>6, <1>7, <1>8

\* An upload that goes on to its next frame, sends one again or gives up.
LEMMA UploadMoves ==
  ASSUME IInv, NEW c \in Callers, NEW missed \in BOOLEAN, call[c].pc \in {"upMeta", "upFlow"},
         UploadGoesOn(c, missed) \/ UploadRepeats(c, missed),
         call[c].pc = "upMeta" => UploadGoesOn(c, missed)
  PROVE  /\ call' \in [Callers -> CallRecords]
         /\ \A d \in Callers \ {c} : call'[d] = call[d]
         /\ call'[c].got = call[c].got /\ call'[c].frame = call[c].frame
         /\ call'[c].pc \in {"upSend", "done"}
         /\ call'[c].pc = "upSend" => call'[c].step \in 0..Blocks + 1
<1>1. call \in [Callers -> CallRecords] /\ call[c].step \in 0..Blocks
      /\ call[c].step \in 0..Blocks + 1
  BY SlotAssumption DEF IInv, CallsInv, CallKnown
<1>2. CASE UploadGoesOn(c, missed)
  <2>1. call[c].step + 1 \in 0..Blocks + 1 /\ call[c].step + 1 \in 0..Blocks + 3
    BY <1>1, SlotAssumption
  <2>2. 0 \in 0..MaxResends /\ "upSend" \in Labels /\ (call[c].missed \/ missed) \in BOOLEAN
    BY ResendAssumption DEF Labels
  <2>3. call' = [call EXCEPT ![c] = [call[c] EXCEPT !.pc = "upSend", !.step = call[c].step + 1,
                               !.resends = 0, !.missed = (call[c].missed \/ missed)]]
    BY <1>1, <1>2 DEF UploadGoesOn
  <2> QED
    BY <1>1, <2>1, <2>2, <2>3, ZenonT(60) DEF CallRecords
<1>3. CASE UploadRepeats(c, missed) /\ call[c].pc = "upFlow"
  <2>1. {"upSend", "done"} \subseteq Labels /\ "failed" \in Results
        /\ (call[c].missed \/ missed) \in BOOLEAN /\ call[c].resends \in 0..MaxResends
    BY <1>1 DEF Labels, Results, CallRecords
  <2>2. CASE call[c].resends < MaxResends
    <3>1. call' = [call EXCEPT ![c] = [call[c] EXCEPT !.pc = "upSend",
                     !.resends = call[c].resends + 1, !.missed = (call[c].missed \/ missed)]]
      BY <1>1, <1>3, <2>2 DEF UploadRepeats
    <3>2. call[c].resends + 1 \in 0..MaxResends
      BY <2>1, <2>2, ResendAssumption
    <3> QED
      BY <1>1, <2>1, <3>1, <3>2, ZenonT(60) DEF CallRecords
  <2>3. CASE ~(call[c].resends < MaxResends)
    <3>1. call' = [call EXCEPT ![c].pc = "done", ![c].result = "failed"]
      BY <1>3, <2>3 DEF UploadRepeats
    <3> QED
      BY <1>1, <2>1, <3>1, ZenonT(60) DEF CallRecords
  <2> QED
    BY <2>2, <2>3
<1> QED
  BY <1>2, <1>3

\* The steps of an upload.
LEMMA UploadKeeps ==
  ASSUME IInv, NEW c \in Callers, Uploads(c) \/ UploadBreaksOff(c)
  PROVE  IInv'
<1> DEFINE f == call[c].frame
<1>c. CallsInv /\ LinkInv /\ BusInv /\ CallKnown(c)
  BY DEF IInv, CallsInv
<1>t. /\ call \in [Callers -> CallRecords] /\ cache \in [Slots -> Remembers]
      /\ mutex \in Callers \cup {Nobody} /\ uploading \in Callers \cup {Nobody}
      /\ wire \in Seq(Callers) /\ resp \in Seq(Good) /\ toDevice \in Seq(Good)
      /\ flow \in Seq(Params) /\ flowing \in BOOLEAN /\ await \in Commands \cup {"none"}
      /\ late \in [LateKeys -> Seq(Good)] /\ faults \in 0..MaxFaults
      /\ \A k \in LateKeys : late[k] \in Seq(LateOf(k)) /\ Len(late[k]) <= LateQueueCap
      /\ <<>> \in Seq(Good) /\ <<>> \in Seq(Params)
  BY EmptySeq DEF IInv, CallsInv, LinkInv, BusInv
<1>f. Faulty => faults' \in 0..MaxFaults
  BY <1>t, BoundAssumption DEF Faulty
<1>l. /\ {"done", "prepare", "upQueued", "upSend", "upMeta", "upFlow"} \subseteq Labels
      /\ {"refused", "ok", "failed"} \subseteq Results
  BY DEF Labels, Results
<1>k. ASSUME /\ call' \in [Callers -> CallRecords] /\ UNCHANGED <<wish, cache, mutex>>
             /\ \A d \in Callers \ {c} : call'[d] = call[d]
             /\ call'[c].got = call[c].got /\ call'[c].frame = call[c].frame
             /\ uploading' \in Callers \cup {Nobody} /\ call'[c].pc \notin Exchanging \cup {"idle"}
             /\ call'[c].pc \in {"prepare", "upQueued", "upMeta"} => call'[c].step = 0
             /\ call'[c].pc = "upSend" => call'[c].step \in 0..Blocks + 1
             /\ call'[c].pc = "upFlow" => call'[c].step \in 1..Blocks
      PROVE  CallsInv'
  <2>1. CallKnown(c)'
    BY <1>c, <1>k, SameWish DEF CallKnown, Exchanging
  <2> QED
    BY <1>c, <1>t, <1>k, <2>1, CallsKept
\* The way out.
<1>o. ASSUME /\ call[c].pc \in {"upSend", "upMeta", "upFlow"}
             /\ call'[c].pc = "done" /\ call' \in [Callers -> CallRecords]
             /\ \A d \in Callers \ {c} : call'[d] = call[d]
             /\ wire' = Released
      PROVE  BusInv'
  <2>1. Inside(c)
    BY <1>c, <1>o DEF BusInv, OnBus
  <2> QED
    BY <1>c, <1>t, <1>o, <2>1, BusLeft DEF OnBus, Released
<1>e. ASSUME NEW r \in {"ok", "failed"}, call' = [call EXCEPT ![c].pc = "done", ![c].result = r]
      PROVE  /\ call' \in [Callers -> CallRecords]
             /\ \A d \in Callers \ {c} : call'[d] = call[d]
             /\ call'[c].pc = "done" /\ call'[c].got = call[c].got /\ call'[c].frame = f
  BY <1>e, <1>t, <1>l, ZenonT(60) DEF CallRecords
<1>1. CASE UploadBegins(c)
  <2>1. call[c].pc = "idle" /\ call[c].step = 0
    BY <1>1, <1>c DEF UploadBegins, At, CallKnown
  <2>2. /\ call' \in [Callers -> CallRecords]
        /\ \A d \in Callers \ {c} : call'[d] = call[d]
        /\ call'[c].pc \in {"prepare", "done"} /\ call'[c].step = 0
        /\ call'[c].got = call[c].got /\ call'[c].frame = f
        /\ uploading' \in Callers \cup {Nobody}
    <3>1. CASE uploading = Nobody
      BY <1>1, <1>c, <1>l, <2>1, <3>1, Moved DEF UploadBegins
    <3>2. CASE uploading # Nobody
      <4>1. call' = [call EXCEPT ![c].pc = "done", ![c].result = "refused"] /\ uploading' = uploading
        BY <1>1, <3>2 DEF UploadBegins
      <4>2. "refused" \in Results /\ "done" \in Labels
        BY DEF Results, Labels
      <4>3. /\ call' \in [Callers -> CallRecords]
            /\ \A d \in Callers \ {c} : call'[d] = call[d]
            /\ call'[c].pc = "done" /\ call'[c].step = call[c].step
            /\ call'[c].got = call[c].got /\ call'[c].frame = f
        BY <1>t, <4>1, <4>2, ZenonT(60) DEF CallRecords
      <4> QED
        BY <1>t, <2>1, <4>1, <4>3
    <3> QED
      BY <3>1, <3>2
  <2>3. CallsInv'
    BY <1>1, <1>k, <2>2 DEF UploadBegins, Exchanging
  <2>4. BusInv'
    BY <1>1, <1>c, <2>1, <2>2, BusKept DEF UploadBegins, linkVars, Ticketed, OnBus
  <2>5. LinkInv'
    BY <1>1, <1>c, <1>t, LinkTouched DEF UploadBegins, linkVars
  <2> QED
    BY <2>3, <2>4, <2>5 DEF IInv
<1>2. CASE UploadPrepares(c)
  <2>1. /\ call' \in [Callers -> CallRecords]
        /\ \A d \in Callers \ {c} : call'[d] = call[d]
        /\ call'[c].pc = "upQueued" /\ call'[c].step = 0 /\ call[c].pc = "prepare"
        /\ call'[c].got = call[c].got /\ call'[c].frame = f
    BY <1>2, <1>c, <1>l, Moved DEF UploadPrepares, At, CallKnown
  <2>2. CallsInv'
    BY <1>2, <1>k, <1>t, <2>1 DEF UploadPrepares, Exchanging
  <2>3. BusInv'
    BY <1>2, <1>c, <1>t, <2>1, TicketDrawn DEF UploadPrepares, Ticketed, OnBus
  <2>4. LinkInv'
    BY <1>2, <1>c, <1>t, LinkTouched DEF UploadPrepares, deviceVars
  <2> QED
    BY <2>2, <2>3, <2>4 DEF IInv
<1>3. CASE UploadEnters(c)
  <2>1. /\ call' \in [Callers -> CallRecords]
        /\ \A d \in Callers \ {c} : call'[d] = call[d]
        /\ call'[c].pc = "upSend" /\ call'[c].step = 0 /\ call[c].pc = "upQueued"
        /\ call'[c].got = call[c].got /\ call'[c].frame = f
    BY <1>3, <1>c, <1>l, Moved DEF UploadEnters, At, CallKnown
  <2>2. CallsInv'
    <3>1. 0 \in 0..Blocks + 1
      BY SlotAssumption
    <3> QED
      BY <1>3, <1>k, <1>t, <2>1, <3>1 DEF UploadEnters, Exchanging
  <2>3. BusInv'
    BY <1>3, <1>c, <2>1, BusKept DEF UploadEnters, Ticketed, OnBus
  <2>4. LinkInv'
    BY <1>3, <1>c, <1>t, LinkTouched DEF UploadEnters, Commands
  <2> QED
    BY <2>2, <2>3, <2>4 DEF IInv
<1>4. CASE UploadSends(c)
  <2> DEFINE n == call[c].step
  <2>1. call[c].pc = "upSend" /\ n \in 0..Blocks + 1 /\ toDevice' = Append(toDevice, UploadFrame(c))
        /\ UNCHANGED <<resp, late, reader, fromDevice, device, faults, wish, mutex, cache>>
    BY <1>4, <1>c DEF UploadSends, At, CallKnown
  <2>2. UploadFrame(c) \in Good
    <3>0. /\ {"Meta", "Commit", "Block"} \subseteq Commands
          /\ "Meta" \notin Light /\ "Commit" \notin Light /\ "Block" \notin Light
          /\ <<0, 0>> \in Params
      BY DEF Commands, Light, Params, Values
    <3>1. CASE n = 0
      <4>1. n \notin 1..Blocks
        BY <3>1
      <4>2. UploadFrame(c) = FrameOf(c, "Meta", 0, <<0, 0>>)
        BY <3>1, <4>1 DEF UploadFrame
      <4> QED
        BY <3>0, <4>2, FrameIsGood
    <3>2. CASE n > Blocks
      <4>1. n # 0 /\ n \notin 1..Blocks
        BY <2>1, <3>2, SlotAssumption
      <4>2. UploadFrame(c) = FrameOf(c, "Commit", 0, <<0, 0>>)
        BY <3>2, <4>1 DEF UploadFrame
      <4> QED
        BY <3>0, <4>2, FrameIsGood
    <3>3. CASE n \in 1..Blocks
      <4>1. n # 0 /\ ~(n > Blocks)
        BY <3>3, SlotAssumption
      <4>2. UploadFrame(c) = FrameOf(c, "Block", n, <<0, 0>>)
        BY <3>3, <4>1 DEF UploadFrame
      <4> QED
        BY <3>0, <3>3, <4>2, FrameIsGood
    <3> QED
      BY <2>1, <3>1, <3>2, <3>3, SlotAssumption
  <2>3. toDevice' \in Seq(Good)
    BY <1>t, <2>1, <2>2, Appended
  <2>4. CASE n > Blocks
    <3>1. UploadEnds(c, "ok")
      BY <1>4, <2>4 DEF UploadSends
    <3>2. /\ call' \in [Callers -> CallRecords]
          /\ \A d \in Callers \ {c} : call'[d] = call[d]
          /\ call'[c].pc = "done" /\ call'[c].got = call[c].got /\ call'[c].frame = f
      BY <1>e, <3>1 DEF UploadEnds
    <3>3. CallsInv'
      BY <1>k, <2>1, <3>1, <3>2 DEF UploadEnds, Exchanging
    <3>4. BusInv'
      BY <1>o, <2>1, <3>1, <3>2 DEF UploadEnds
    <3>5. LinkInv'
      BY <1>c, <1>t, <2>1, <2>3, <3>1, LinkTouched DEF UploadEnds
    <3> QED
      BY <3>3, <3>4, <3>5 DEF IInv
  <2>5. CASE ~(n > Blocks)
    <3>1. /\ Goes(c, IF n = 0 THEN "upMeta" ELSE "upFlow")
          /\ UNCHANGED <<flow, flowing, await, wire, uploading>>
      BY <1>4, <2>5 DEF UploadSends
    <3>2. /\ call' \in [Callers -> CallRecords]
          /\ \A d \in Callers \ {c} : call'[d] = call[d]
          /\ call'[c].pc = (IF n = 0 THEN "upMeta" ELSE "upFlow") /\ call'[c].step = n
          /\ call'[c].got = call[c].got /\ call'[c].frame = f
      BY <1>c, <1>l, <3>1, Moved
    <3>3. CallsInv'
      <4>1. n # 0 => n \in 1..Blocks
        BY <2>1, <2>5, SlotAssumption
      <4> QED
        BY <1>k, <1>t, <2>1, <3>1, <3>2, <4>1 DEF Exchanging
    <3>4. BusInv'
      BY <1>c, <2>1, <3>1, <3>2, BusKept DEF BusInv, Ticketed, OnBus
    <3>5. LinkInv'
      BY <1>c, <1>t, <2>1, <2>3, <3>1, LinkTouched
    <3> QED
      BY <3>3, <3>4, <3>5 DEF IInv
  <2> QED
    BY <2>4, <2>5
<1>5. CASE UploadBreaksOff(c)
  <2>1. /\ call[c].pc \in {"upSend", "upMeta", "upFlow"} /\ UploadEnds(c, "failed")
        /\ UNCHANGED <<resp, late, reader, toDevice, fromDevice, device, wish, mutex, cache>>
        /\ faults' \in 0..MaxFaults
    BY <1>5, <1>f DEF UploadBreaksOff
  <2>2. /\ call' \in [Callers -> CallRecords]
        /\ \A d \in Callers \ {c} : call'[d] = call[d]
        /\ call'[c].pc = "done" /\ call'[c].got = call[c].got /\ call'[c].frame = f
    BY <1>e, <2>1 DEF UploadEnds
  <2>3. CallsInv'
    BY <1>k, <2>1, <2>2 DEF UploadEnds, Exchanging
  <2>4. BusInv'
    BY <1>o, <2>1, <2>2 DEF UploadEnds
  <2>5. LinkInv'
    BY <1>c, <1>t, <2>1, LinkTouched DEF UploadEnds
  <2> QED
    BY <2>3, <2>4, <2>5 DEF IInv

<1>6. ASSUME NEW missed \in BOOLEAN, call[c].pc \in {"upMeta", "upFlow"},
             UploadGoesOn(c, missed) \/ UploadRepeats(c, missed),
             call[c].pc = "upMeta" => UploadGoesOn(c, missed),
             UploadRepeats(c, missed) \/ UNCHANGED <<flowing, await, wire, uploading>>,
             UNCHANGED <<late, reader, toDevice, fromDevice, device, wish, mutex, cache>>,
             resp' \in Seq(Good), flow' \in Seq(Params), faults' \in 0..MaxFaults
      PROVE  IInv'
  <2>1. /\ call' \in [Callers -> CallRecords]
        /\ \A d \in Callers \ {c} : call'[d] = call[d]
        /\ call'[c].got = call[c].got /\ call'[c].frame = f
        /\ call'[c].pc \in {"upSend", "done"}
        /\ call'[c].pc = "upSend" => call'[c].step \in 0..Blocks + 1
    BY <1>6, UploadMoves
  <2>2. \/ UNCHANGED <<flowing, await, wire, uploading>> /\ call'[c].pc = "upSend"
        \/ /\ flowing' = FALSE /\ await' = "none" /\ wire' = Released /\ uploading' = Nobody
           /\ call'[c].pc = "done"
    <3>1. CASE UploadRepeats(c, missed) /\ ~(call[c].resends < MaxResends)
      BY <1>t, <3>1 DEF UploadRepeats, CallRecords
    <3>2. CASE UploadRepeats(c, missed) /\ call[c].resends < MaxResends
      BY <1>t, <3>2 DEF UploadRepeats, CallRecords
    <3>3. CASE UploadGoesOn(c, missed) /\ UNCHANGED <<flowing, await, wire, uploading>>
      BY <1>t, <3>3 DEF UploadGoesOn, CallRecords
    <3> QED
      BY <1>6, <3>1, <3>2, <3>3
  <2>3. CallsInv'
    BY <1>k, <1>t, <1>6, <2>1, <2>2 DEF Exchanging
  <2>4. BusInv'
    <3>1. CASE UNCHANGED wire /\ call'[c].pc = "upSend"
      <4>1. Inside(c)
        BY <1>c, <1>6 DEF BusInv, OnBus
      <4> QED
        BY <1>c, <2>1, <3>1, <4>1, BusKept DEF Ticketed, OnBus
    <3>2. CASE wire' = Released /\ call'[c].pc = "done"
      BY <1>o, <1>6, <2>1, <3>2
    <3> QED
      BY <2>2, <3>1, <3>2
  <2>5. LinkInv'
    BY <1>c, <1>t, <1>6, <2>2, LinkTouched
  <2> QED
    BY <2>3, <2>4, <2>5 DEF IInv
<1>7. CASE UploadMetaDone(c)
  <2>1. resp' \in Seq(Good)
    BY <1>7, <1>t, Taken DEF UploadMetaDone
  <2>2. faults' \in 0..MaxFaults
    BY <1>7, <1>t, <1>f DEF UploadMetaDone
  <2>3. UploadGoesOn(c, FALSE) /\ call[c].pc = "upMeta"
    BY <1>7, Zenon DEF UploadMetaDone, At
  <2> QED
    BY <1>7, <1>t, <1>6, <2>1, <2>2, <2>3 DEF UploadMetaDone, deviceVars
<1>8. CASE UploadFlow(c)
  <2>1. flow' \in Seq(Params)
    BY <1>8, <1>t, Taken DEF UploadFlow
  <2> QED
    BY <1>8, <1>t, <1>6, <2>1 DEF UploadFlow, At
<1>9. CASE UploadFlowMissed(c)
  <2>1. faults' \in 0..MaxFaults
    BY <1>9, <1>t, <1>f DEF UploadFlowMissed
  <2> QED
    BY <1>9, <1>t, <1>6, <2>1 DEF UploadFlowMissed, At
<1> QED
  BY <1>1, <1>2, <1>3, <1>4, <1>5, <1>7, <1>8, <1>9 DEF Uploads

-----------------------------------------------------------------------------
(* Every step keeps the invariant.                                         *)

LEMMA InvStarts == Init => IInv
<1> SUFFICES ASSUME Init PROVE IInv
  OBVIOUS
<1>e. \A S : <<>> \in Seq(S) /\ Len(<<>>) = 0
  BY EmptySeq
<1>1. BusInv
  BY <1>e DEF Init, LinkInit, BusInv, OnBus
<1>2. LinkInv
  <2>1. \A k \in LateKeys : late[k] \in Seq(LateOf(k)) /\ Len(late[k]) <= LateQueueCap
    BY <1>e, BoundAssumption DEF Init, LinkInit
  <2>2. device \in [sw : Values, mode : [Slots -> Params],
                    stored : SUBSET (Callers \X (1..Blocks)), took : SUBSET Callers]
        /\ \A s \in Slots, n \in 1..2 : device.mode[s][n] = 0
    BY DEF Init, LinkInit, Values, Params
  <2>3. \A s \in Slots, n \in 1..2 : device.mode[s][n] \in Wanted(s, n)
    BY <2>2 DEF Wanted
  <2>4. late \in [LateKeys -> Seq(Good)]
    BY <1>e DEF Init, LinkInit
  <2>5. reader \in [route : {"none", "resp", "late"}, frame : Good] /\ reader.route # "late"
    BY NoFrameIsGood DEF Init, LinkInit
  <2>6. await \in Commands \cup {"none"} /\ flow \in Seq(Params) /\ flowing \in BOOLEAN
        /\ resp \in Seq(Good) /\ toDevice \in Seq(Good) /\ fromDevice \in Seq(Good)
    BY <1>e DEF Init, LinkInit
  <2>7. faults \in 0..MaxFaults
    BY BoundAssumption DEF Init, LinkInit
  <2> QED
    BY <2>1, <2>2, <2>3, <2>4, <2>5, <2>6, <2>7 DEF LinkInv
<1>3. CallsInv
  <2>1. wish \in [Callers -> Wishes]
    BY MixesAssumption DEF Init
  <2>2. call \in [Callers -> CallRecords]
    BY NoFrameIsGood, SlotAssumption, ResendAssumption DEF Init, CallRecords, Labels, Results
  <2>3. \A c \in Callers : CallKnown(c)
    BY DEF Init, CallKnown, Exchanging
  <2> QED
    BY <2>1, <2>2, <2>3, NoFrameIsGood DEF Init, CallsInv
<1> QED
  BY <1>1, <1>2, <1>3 DEF IInv

LEMMA StepKeepsInv == IInv /\ [Next]_vars => IInv'
<1> SUFFICES ASSUME IInv, [Next]_vars PROVE IInv'
  OBVIOUS
<1>1. CASE Link \/ Losses
  <2>1. (LinkSteps \/ LinkFaults) /\ UNCHANGED <<wish, mutex, cache, uploading, call>>
    BY <1>1 DEF Link, Losses
  <2>2. LinkInv'
    BY <2>1, LinkKeepsLink DEF IInv
  <2>3. wire' = wire
    BY <2>1 DEF LinkSteps, LinkFaults, ReaderReads, ReaderDelivers, DeviceAnswers,
       CommandIsLost, AnswerIsLost, BlockIsRejected, DeviceGets
  <2>4. BusInv'
    BY <2>1, <2>3 DEF IInv, BusInv, Inside
  <2>5. CallsInv'
    BY <2>1, SameWish DEF IInv, CallsInv, CallKnown
  <2> QED
    BY <2>2, <2>4, <2>5 DEF IInv
<1>2. ASSUME NEW c \in Callers, Exchanges(c) \/ Uploads(c) \/ Breaks(c) PROVE IInv'
  BY <1>2, TurnsKeep, ExchangeKeeps, UploadKeeps DEF Exchanges, Breaks
<1>3. CASE UNCHANGED vars
  <2>1. Good' = Good /\ Remembers' = Remembers /\ CallRecords' = CallRecords
        /\ (\A k : LateOf(k)' = LateOf(k)) /\ \A s, n : Wanted(s, n)' = Wanted(s, n)
        /\ \A c : Lighting(c)' = Lighting(c)
    BY <1>3, SameWish DEF vars
  <2>2. LinkInv'
    BY <1>3, <2>1 DEF vars, linkVars, IInv, LinkInv
  <2>3. BusInv'
    BY <1>3 DEF vars, linkVars, IInv, BusInv, Inside
  <2>4. CallsInv'
    BY <1>3, <2>1 DEF vars, IInv, CallsInv, CallKnown
  <2> QED
    BY <2>2, <2>3, <2>4 DEF IInv
<1> QED
  BY <1>1, <1>2, <1>3 DEF Next, Progress

\* The invariant holds throughout.
THEOREM WireOrder == Spec => []IInv
BY InvStarts, StepKeepsInv, PTL DEF Spec

\* Every variable of the wire keeps its type, for any callers, wishes, slots,
\* blocks and faults.
THEOREM TypeCorrect == Spec => []TypeOK
<1>1. IInv => TypeOK
  <2> SUFFICES ASSUME IInv PROVE TypeOK
    OBVIOUS
  <2>1. \A s : s \in Seq(Good) => s \in Seq(Frame)
    <3> SUFFICES ASSUME NEW s \in Seq(Good) PROVE s \in Seq(Frame)
      OBVIOUS
    <3>1. Len(s) \in Nat /\ DOMAIN s = 1..Len(s) /\ \A i \in 1..Len(s) : s[i] \in Good
      BY LenProperties, ElementOfSeq
    <3>2. Good \subseteq Frame
      BY DEF Good
    <3> QED
      BY <3>1, <3>2, IsASeq
  <2>2. LinkTypeOK
    BY <2>1 DEF IInv, BusInv, LinkInv, LinkTypeOK, Good
  <2>3. cache \in [Slots -> Frame]
    BY NoFrameIsGood DEF IInv, CallsInv, Remembers, Good
  <2>4. call \in [Callers ->
       [pc : Labels, step : 0..Blocks + 3, frame : Frame, got : Frame, acked : BOOLEAN,
        resends : 0..MaxResends, missed : BOOLEAN, result : Results]]
    BY DEF IInv, CallsInv, CallRecords, Good
  <2> QED
    BY <2>2, <2>3, <2>4 DEF IInv, CallsInv, TypeOK
<1> QED
  BY <1>1, WireOrder, PTL

\* At most one caller is on the bus: an exchange between its first look at the
\* late answers and its end, or an upload with all its frames.
OneOnTheBus ==
  \A c, d \in Callers : call[c].pc \in OnBus /\ call[d].pc \in OnBus => c = d

\* Tickets hand the bus to one caller at a time, whatever breaks off in between.
THEOREM BusIsExclusive == Spec => []OneOnTheBus
<1>1. IInv => OneOnTheBus
  BY DEF IInv, BusInv, OneOnTheBus, Inside
<1> QED
  BY <1>1, WireOrder, PTL

\* No lighting field of the cooler ever has a value nobody asked for this field
\* of this slot: read-modify-write under late answers, lost frames and blocks
\* remembered for another slot writes no block where it does not belong.
THEOREM SlotsStayApart == Spec => []SlotsApart
<1>1. IInv => SlotsApart
  BY DEF IInv, LinkInv, SlotsApart, Wanted
<1> QED
  BY <1>1, WireOrder, PTL

-----------------------------------------------------------------------------
(* The upload.  As long as no upload has failed or missed an answer, what  *)
(* is under way belongs to the one that waits for it.                      *)

\* Frames that count name a caller.
LEMMA FramesNamed ==
  ASSUME IInv
  PROVE  /\ toDevice \in Seq(Good) /\ fromDevice \in Seq(Good)
         /\ \A i \in 1..Len(toDevice) : toDevice[i] \in Good
         /\ \A i \in 1..Len(fromDevice) : fromDevice[i] \in Good
         /\ \A f \in Good : f.cmd \in {"Block", "Flow"} => f.by \in Callers
BY ElementOfSeq DEF IInv, LinkInv, Good

\* An upload that does not wait for an answer has nothing under way, and no
\* other one runs.
LEMMA QuietBetween ==
  ASSUME IInv, UploadInv, Clean, NEW c \in Callers, call[c].pc \in UploadLabels \ {"upFlow"}
  PROVE  NoBlock /\ NoFlow /\ flow = <<>>
<1>1. \A d \in Callers : call[d].pc # "upFlow"
  <2> SUFFICES ASSUME NEW d \in Callers, call[d].pc = "upFlow" PROVE FALSE
    OBVIOUS
  <2>1. uploading = d /\ uploading = c
    BY DEF UploadInv, UploadLabels
  <2> QED
    BY <2>1
<1>2. OfItsUpload
  BY DEF UploadInv
<1>3. NoBlock
  BY <1>1, <1>2, FramesNamed DEF NoBlock, BlockAt, OfItsUpload, Expects
<1>4. NoFlow
  BY <1>1, <1>2, FramesNamed DEF NoFlow, FlowAt, OfItsUpload
<1>5. flow = <<>>
  BY <1>1, <1>2 DEF OfItsUpload
<1> QED
  BY <1>3, <1>4, <1>5

\* A step of a caller that waits for no answer leaves what is under way alone.
LEMMA SameUnderWay ==
  ASSUME IInv, UploadInv, Clean, NEW c \in Callers, call[c].pc # "upFlow",
         UNCHANGED <<toDevice, fromDevice, device, flow>>,
         \A d \in Callers \ {c} : call'[d] = call[d]
  PROVE  OneUnderWay' /\ OfItsUpload'
<1>1. OneUnderWay /\ OfItsUpload
  BY DEF UploadInv
<1>2. OneUnderWay'
  BY <1>1 DEF OneUnderWay, BlockAt, FlowAt, NoBlock, NoFlow
<1>3. ASSUME NEW i \in 1..Len(toDevice), BlockAt(i) PROVE Expects(toDevice[i].by, toDevice[i].slot)'
  <2>1. toDevice[i].by \in Callers \ {c}
    BY <1>1, <1>3, FramesNamed DEF BlockAt, OfItsUpload, Expects
  <2> QED
    BY <1>1, <1>3, <2>1 DEF OfItsUpload, Expects
<1>4. ASSUME NEW i \in 1..Len(fromDevice), FlowAt(i)
      PROVE  /\ call'[fromDevice[i].by].pc = "upFlow"
             /\ fromDevice[i].val = Accepted =>
                  Sent(fromDevice[i].by, call'[fromDevice[i].by].step)
  <2>1. fromDevice[i].by \in Callers \ {c}
    BY <1>1, <1>4, FramesNamed DEF FlowAt, OfItsUpload
  <2> QED
    BY <1>1, <1>4, <2>1 DEF OfItsUpload
<1>5. ASSUME flow # <<>>
      PROVE  \E d \in Callers :
               call'[d].pc = "upFlow" /\ (flow[1] = Accepted => Sent(d, call'[d].step))
  BY <1>1, <1>5 DEF OfItsUpload
<1> QED
  BY <1>2, <1>3, <1>4, <1>5 DEF OfItsUpload, BlockAt, FlowAt, Sent, Expects

\* A frame that is no block goes to the cooler beside what is under way.
LEMMA OtherFrameSent ==
  ASSUME IInv, UploadInv, Clean, NEW c \in Callers, call[c].pc # "upFlow",
         NEW f \in Good, f.cmd # "Block", toDevice' = Append(toDevice, f),
         UNCHANGED <<fromDevice, device, flow>>,
         \A d \in Callers \ {c} : call'[d] = call[d]
  PROVE  OneUnderWay' /\ OfItsUpload'
<1>1. OneUnderWay /\ OfItsUpload
  BY DEF UploadInv
<1>2. /\ \A i \in 1..Len(toDevice) : toDevice'[i] = toDevice[i]
      /\ toDevice'[Len(toDevice) + 1] = f
      /\ 1..Len(toDevice') = 1..Len(toDevice) \cup {Len(toDevice) + 1}
  BY Appended, FramesNamed
<1>3. \A i \in 1..Len(toDevice') : BlockAt(i)' => i \in 1..Len(toDevice) /\ BlockAt(i)
  BY <1>2 DEF BlockAt
<1>4. OneUnderWay'
  BY <1>1, <1>2, <1>3 DEF OneUnderWay, FlowAt, NoBlock, NoFlow
<1>5. ASSUME NEW i \in 1..Len(toDevice'), BlockAt(i)'
      PROVE  Expects(toDevice[i].by, toDevice[i].slot)'
  <2>1. i \in 1..Len(toDevice) /\ BlockAt(i) /\ toDevice'[i] = toDevice[i]
    BY <1>2, <1>3, <1>5
  <2>2. toDevice[i].by \in Callers \ {c}
    BY <1>1, <2>1, FramesNamed DEF BlockAt, OfItsUpload, Expects
  <2> QED
    BY <1>1, <2>1, <2>2 DEF OfItsUpload, Expects
<1>6. ASSUME NEW i \in 1..Len(fromDevice), FlowAt(i)
      PROVE  /\ call'[fromDevice[i].by].pc = "upFlow"
             /\ fromDevice[i].val = Accepted =>
                  Sent(fromDevice[i].by, call'[fromDevice[i].by].step)
  <2>1. fromDevice[i].by \in Callers \ {c}
    BY <1>1, <1>6, FramesNamed DEF FlowAt, OfItsUpload
  <2> QED
    BY <1>1, <1>6, <2>1 DEF OfItsUpload
<1>7. ASSUME flow # <<>>
      PROVE  \E d \in Callers :
               call'[d].pc = "upFlow" /\ (flow[1] = Accepted => Sent(d, call'[d].step))
  BY <1>1, <1>7 DEF OfItsUpload
<1> QED
  BY <1>4, <1>5, <1>6, <1>7 DEF OfItsUpload, FlowAt, Sent

\* The steps of calls that are no upload.
LEMMA OthersKeepUpload ==
  ASSUME IInv, UploadInv, NEW c \in Callers,
         call[c].pc \notin UploadLabels \cup {"done"}, call'[c].pc \notin UploadLabels,
         call' \in [Callers -> CallRecords], \A d \in Callers \ {c} : call'[d] = call[d],
         call'[c].missed = call[c].missed, call'[c].result # "ok",
         call'[c].pc # "done" => call'[c].result = call[c].result,
         UNCHANGED <<fromDevice, device, flow, uploading>>,
         toDevice' = toDevice
           \/ \E f \in Good : f.cmd # "Block" /\ toDevice' = Append(toDevice, f)
  PROVE  UploadInv'
<1>1. \A d \in Callers : /\ call'[d].pc \in UploadLabels => uploading' = d
                         /\ call'[d].pc # "done" => call'[d].result = "none"
  BY DEF UploadInv
<1>2. ASSUME Clean' PROVE OneUnderWay' /\ OfItsUpload' /\ SentSoFar'
  <2>1. Clean
    <3>1. call[c].result # "failed" /\ ~call[c].missed
      BY <1>2 DEF UploadInv, Clean
    <3> QED
      BY <1>2, <3>1 DEF Clean
  <2>2. OneUnderWay' /\ OfItsUpload'
    BY <2>1, SameUnderWay, OtherFrameSent DEF UploadLabels
  <2>3. SentSoFar'
    BY <2>1 DEF UploadInv, SentSoFar, Sent, UploadLabels
  <2> QED
    BY <2>2, <2>3
<1> QED
  BY <1>1, <1>2 DEF UploadInv

\* They are.
LEMMA ExchangesAreOthers ==
  ASSUME IInv, UploadInv, NEW c \in Callers, Exchanges(c) \/ SendFails(c) \/ RestoreFails(c)
  PROVE  UploadInv'
<1>t. /\ call \in [Callers -> CallRecords] /\ call[c].frame \in Good
      /\ call[c].pc \in Exchanging => call[c].frame.cmd # "Block"
  BY DEF IInv, CallsInv, CallRecords, CallKnown
<1>0. IInv' /\ call' \in [Callers -> CallRecords]
  <2>1. IInv'
    BY TurnsKeep, ExchangeKeeps DEF Exchanges
  <2>2. UNCHANGED wish
    BY DEF Exchanges, Enters, Declares, Sends, SendFails, TakesAnswer, TimesOut, SwitchBegins,
       SwitchWrote, SwitchEnds, LightingBegins, EditReads, EditWrote, EditEnds, SelectReads,
       SelectEnds, ReadEnds, RestoreBegins, RestoreWrites, RestoreFails, RestoreEnds, PosBegins,
       PosEnds, PushesInfo, Between
  <2> QED
    BY <2>1, <2>2, SameWish DEF IInv, CallsInv
<1>k. ASSUME /\ call[c].pc \in {"idle"} \cup Exchanging /\ call'[c].pc \in {"done"} \cup Exchanging
             /\ \A d \in Callers \ {c} : call'[d] = call[d]
             /\ call'[c].missed = call[c].missed
             /\ \/ call'[c].result = call[c].result
                \/ call'[c].pc = "done" /\ call'[c].result # "ok"
             /\ UNCHANGED <<fromDevice, device, flow, uploading>>
             /\ toDevice' = toDevice
                  \/ \E f \in Good : f.cmd # "Block" /\ toDevice' = Append(toDevice, f)
      PROVE  UploadInv'
  <2>1. call[c].result = "none"
    BY <1>k DEF UploadInv, Exchanging
  <2> QED
    BY <1>0, <1>k, <2>1, OthersKeepUpload DEF Exchanging, UploadLabels
<1> USE DEF At, deviceVars, Answered, Between, Exchanging
<1>1. CASE \/ SwitchBegins(c) \/ SwitchWrote(c) \/ LightingBegins(c) \/ EditWrote(c)
           \/ RestoreBegins(c) \/ PosBegins(c)
  BY <1>t, <1>k, <1>1 DEF BeginExchange, SwitchBegins, SwitchWrote, LightingBegins, EditWrote,
     RestoreBegins, PosBegins, CallRecords
<1>2. CASE EditReads(c) \/ SelectReads(c)
  BY <1>t, <1>k, <1>2 DEF BeginExchange, Ends, EditReads, SelectReads, CallRecords
<1>3. CASE EditEnds(c) \/ SelectEnds(c) \/ ReadEnds(c) \/ RestoreEnds(c) \/ PosEnds(c)
  BY <1>t, <1>k, <1>3 DEF Ends, EditEnds, SelectEnds, ReadEnds, RestoreEnds, PosEnds, CallRecords
<1>4. CASE SwitchEnds(c) \/ RestoreFails(c)
  BY <1>t, <1>k, <1>4 DEF SwitchEnds, SwitchVerdict, RestoreFails, CallRecords
<1>5. CASE Enters(c)
  BY <1>t, <1>k, <1>5 DEF Enters, Goes, CallRecords
<1>6. CASE Declares(c) \/ SendFails(c) \/ TimesOut(c)
  BY <1>t, <1>k, <1>6 DEF Declares, SendFails, TimesOut, Goes, CallRecords
<1>7. CASE Sends(c)
  BY <1>t, <1>k, <1>7 DEF Sends, Goes, CallRecords
<1>8. CASE TakesAnswer(c)
  BY <1>t, <1>k, <1>8 DEF TakesAnswer, CallRecords
<1>9. CASE RestoreWrites(c)
  BY <1>t, <1>k, <1>9 DEF RestoreWrites, CallRecords
<1>10. CASE PushesInfo(c)
  <2>1. FrameOf(c, "Info", 0, <<0, 0>>) \in Good /\ FrameOf(c, "Info", 0, <<0, 0>>).cmd = "Info"
    BY FrameIsGood DEF Commands, Params, Values, Light
  <2> QED
    BY <1>t, <1>k, <1>10, <2>1 DEF PushesInfo, Goes, CallRecords
<1> QED
  BY <1>1, <1>2, <1>3, <1>4, <1>5, <1>6, <1>7, <1>8, <1>9, <1>10 DEF Exchanges

\* The cooler takes the first frame; only a block is answered with a flow
\* answer, to the caller it came from, and a block it accepts it has stored.
LEMMA GetsKeepsUpload ==
  ASSUME IInv, UploadInv, NEW result, NEW answers, DeviceGets(result, answers),
         UNCHANGED <<call, uploading>>,
         device.stored \subseteq result.stored,
         \/ answers = <<>>
         \/ \E g \in Good :
              /\ answers = <<g>>
              /\ g.cmd = "Flow" =>
                   /\ Head(toDevice).cmd = "Block" /\ g.by = Head(toDevice).by
                   /\ g.val = Accepted =>
                        <<Head(toDevice).by, Head(toDevice).slot>> \in result.stored
  PROVE  UploadInv'
<1> DEFINE f == Head(toDevice)
<1>1. SUFFICES ASSUME Clean, OneUnderWay, OfItsUpload, SentSoFar
               PROVE  OneUnderWay' /\ OfItsUpload' /\ SentSoFar'
  BY DEF UploadInv, Clean
<1>2. /\ toDevice # <<>> /\ toDevice' = Tail(toDevice) /\ device' = result
      /\ fromDevice' = fromDevice \o answers /\ flow' = flow
  BY DEF DeviceGets
<1>3. /\ f = toDevice[1] /\ f \in Good /\ 1 \in 1..Len(toDevice)
      /\ \A i \in 1..Len(toDevice') : toDevice'[i] = toDevice[i + 1] /\ i + 1 \in 1..Len(toDevice)
  BY <1>2, Taken, FramesNamed
<1>4. ASSUME NEW i \in 1..Len(toDevice'), BlockAt(i)'
      PROVE  i + 1 \in 1..Len(toDevice) /\ BlockAt(i + 1) /\ i + 1 # 1
  BY <1>3, <1>4 DEF BlockAt
<1>5. SentSoFar'
  BY <1>1, <1>2 DEF SentSoFar, Sent
<1>6. \A i, j \in 1..Len(toDevice') : BlockAt(i)' /\ BlockAt(j)' => i = j
  <2> SUFFICES ASSUME NEW i \in 1..Len(toDevice'), NEW j \in 1..Len(toDevice'),
                      BlockAt(i)', BlockAt(j)'
               PROVE  i = j
    OBVIOUS
  <2>1. i + 1 = j + 1
    BY <1>1, <1>4 DEF OneUnderWay
  <2> QED
    BY <2>1
<1>7. ASSUME NEW i \in 1..Len(toDevice'), BlockAt(i)'
      PROVE  Expects(toDevice[i + 1].by, toDevice[i + 1].slot) /\ toDevice'[i] = toDevice[i + 1]
  BY <1>1, <1>3, <1>4, <1>7 DEF OfItsUpload
<1>8. (\A i \in 1..Len(toDevice) : ~BlockAt(i)) => \A i \in 1..Len(toDevice') : ~BlockAt(i)'
  BY <1>4
<1>9. flow # <<>> => \E c \in Callers :
        /\ call[c].pc = "upFlow"
        /\ flow[1] = Accepted => {c} \X (1..call[c].step) \subseteq result.stored
  BY <1>1, <1>2 DEF OfItsUpload, Sent
<1>10. \A i \in 1..Len(fromDevice) : FlowAt(i) =>
         /\ call[fromDevice[i].by].pc = "upFlow"
         /\ fromDevice[i].val = Accepted =>
              {fromDevice[i].by} \X (1..call[fromDevice[i].by].step) \subseteq result.stored
  BY <1>1 DEF OfItsUpload, Sent
<1>11. CASE fromDevice' = fromDevice
  <2>1. OneUnderWay'
    BY <1>1, <1>2, <1>6, <1>8, <1>11 DEF OneUnderWay, FlowAt, NoBlock, NoFlow
  <2>2. OfItsUpload'
    BY <1>2, <1>7, <1>9, <1>10, <1>11 DEF OfItsUpload, FlowAt, Expects, Sent
  <2> QED
    BY <1>5, <2>1, <2>2
<1>12. CASE \E g \in Good :
              /\ answers = <<g>>
              /\ g.cmd = "Flow" =>
                   /\ Head(toDevice).cmd = "Block" /\ g.by = Head(toDevice).by
                   /\ g.val = Accepted =>
                        <<Head(toDevice).by, Head(toDevice).slot>> \in result.stored
  <2>1. PICK g \in Good :
              /\ answers = <<g>>
              /\ g.cmd = "Flow" => /\ f.cmd = "Block" /\ g.by = f.by
                                   /\ g.val = Accepted => <<f.by, f.slot>> \in result.stored
    BY <1>12
  <2>2. fromDevice' = Append(fromDevice, g)
    BY <1>2, <2>1, FramesNamed, AppendIsConcat
  <2>3. /\ \A i \in 1..Len(fromDevice) : fromDevice'[i] = fromDevice[i]
        /\ fromDevice'[Len(fromDevice) + 1] = g /\ Len(fromDevice) \in Nat
        /\ 1..Len(fromDevice') = 1..Len(fromDevice) \cup {Len(fromDevice) + 1}
    BY <2>2, FramesNamed, Appended
  <2>4. CASE g.cmd # "Flow"
    <3>1. \A i \in 1..Len(fromDevice') : FlowAt(i)' => i \in 1..Len(fromDevice) /\ FlowAt(i)
      BY <2>3, <2>4 DEF FlowAt
    <3>2. OneUnderWay'
      BY <1>1, <1>2, <1>6, <1>8, <3>1 DEF OneUnderWay, NoBlock, NoFlow
    <3>3. OfItsUpload'
      BY <1>2, <1>7, <1>9, <1>10, <2>3, <3>1 DEF OfItsUpload, Expects, Sent
    <3> QED
      BY <1>5, <3>2, <3>3
  <2>5. CASE g.cmd = "Flow"
    <3>1. f.cmd = "Block" /\ BlockAt(1)
      BY <1>3, <2>1, <2>5 DEF BlockAt
    <3>2. NoFlow /\ flow = <<>> /\ \A i \in 1..Len(toDevice) : BlockAt(i) => i = 1
      BY <1>1, <1>3, <3>1 DEF OneUnderWay, NoBlock
    <3>3. \A i \in 1..Len(toDevice') : ~BlockAt(i)'
      BY <1>4, <3>2
    <3>4. \A i \in 1..Len(fromDevice') : FlowAt(i)' => i = Len(fromDevice) + 1
      BY <2>3, <3>2 DEF FlowAt, NoFlow
    <3>5. OneUnderWay'
      BY <1>1, <1>2, <3>2, <3>3, <3>4 DEF OneUnderWay, NoBlock
    <3>6. f.by \in Callers /\ Expects(f.by, f.slot)
      BY <1>1, <1>3, <3>1, FramesNamed DEF OfItsUpload
    <3>7. Sent(f.by, f.slot - 1) /\ f.slot \in 1..Blocks
      BY <1>1, <1>3, <3>1, <3>6 DEF SentSoFar, Expects, Good
    <3>8. g.val = Accepted => {f.by} \X (1..f.slot) \subseteq result.stored
      <4> SUFFICES ASSUME g.val = Accepted, NEW n \in 1..f.slot PROVE <<f.by, n>> \in result.stored
        OBVIOUS
      <4>1. n = f.slot \/ n \in 1..f.slot - 1
        BY <3>7
      <4> QED
        BY <2>1, <2>5, <3>7, <4>1 DEF Sent
    <3>9. OfItsUpload'
      BY <1>2, <2>1, <2>3, <2>5, <3>2, <3>3, <3>4, <3>6, <3>8 DEF OfItsUpload, Expects, Sent
    <3> QED
      BY <1>5, <3>5, <3>9
  <2> QED
    BY <2>4, <2>5
<1>13. CASE answers = <<>>
  <2>1. fromDevice' = fromDevice
    BY <1>2, <1>13, FramesNamed, ConcatEmptySeq
  <2> QED
    BY <1>11, <2>1
<1> QED
  BY <1>12, <1>13

\* The reader puts a flow answer where the upload takes it, or drops it.
LEMMA ReaderKeepsUpload ==
  ASSUME IInv, UploadInv, ReaderReads, UNCHANGED <<call, uploading>>
  PROVE  UploadInv'
<1> DEFINE f == Head(fromDevice)
<1>1. SUFFICES ASSUME Clean, OneUnderWay, OfItsUpload, SentSoFar
               PROVE  OneUnderWay' /\ OfItsUpload' /\ SentSoFar'
  BY DEF UploadInv, Clean
<1>2. /\ fromDevice # <<>> /\ fromDevice' = Tail(fromDevice) /\ toDevice' = toDevice
      /\ device' = device
      /\ flow' = IF f.cmd = "Flow" /\ flowing THEN Append(flow, f.val) ELSE flow
  BY DEF ReaderReads
<1>3. /\ f = fromDevice[1] /\ f \in Good /\ 1 \in 1..Len(fromDevice)
      /\ \A i \in 1..Len(fromDevice') :
           fromDevice'[i] = fromDevice[i + 1] /\ i + 1 \in 1..Len(fromDevice)
  BY <1>2, Taken, FramesNamed
<1>4. ASSUME NEW i \in 1..Len(fromDevice'), FlowAt(i)'
      PROVE  i + 1 \in 1..Len(fromDevice) /\ FlowAt(i + 1) /\ i + 1 # 1
  BY <1>3, <1>4 DEF FlowAt
<1>5. SentSoFar'
  BY <1>1, <1>2 DEF SentSoFar, Sent
<1>6. \A i, j \in 1..Len(fromDevice') : FlowAt(i)' /\ FlowAt(j)' => i = j
  <2> SUFFICES ASSUME NEW i \in 1..Len(fromDevice'), NEW j \in 1..Len(fromDevice'),
                      FlowAt(i)', FlowAt(j)'
               PROVE  i = j
    OBVIOUS
  <2>1. i + 1 = j + 1
    BY <1>1, <1>4 DEF OneUnderWay
  <2> QED
    BY <2>1
<1>7. (\A i \in 1..Len(fromDevice) : ~FlowAt(i)) => \A i \in 1..Len(fromDevice') : ~FlowAt(i)'
  BY <1>4
<1>8. ASSUME NEW i \in 1..Len(fromDevice'), FlowAt(i)'
      PROVE  /\ fromDevice'[i] = fromDevice[i + 1]
             /\ call[fromDevice[i + 1].by].pc = "upFlow"
             /\ fromDevice[i + 1].val = Accepted =>
                  Sent(fromDevice[i + 1].by, call[fromDevice[i + 1].by].step)
  BY <1>1, <1>3, <1>4, <1>8 DEF OfItsUpload
<1>9. \A i \in 1..Len(toDevice) : BlockAt(i) => Expects(toDevice[i].by, toDevice[i].slot)
  BY <1>1 DEF OfItsUpload
<1>10. CASE flow' = flow
  <2>1. OneUnderWay'
    BY <1>1, <1>2, <1>6, <1>7, <1>10 DEF OneUnderWay, BlockAt, NoBlock, NoFlow
  <2>2. flow # <<>> => \E c \in Callers :
          call[c].pc = "upFlow" /\ (flow[1] = Accepted => Sent(c, call[c].step))
    BY <1>1 DEF OfItsUpload
  <2>3. OfItsUpload'
    BY <1>2, <1>8, <1>9, <1>10, <2>2 DEF OfItsUpload, BlockAt, Expects, Sent
  <2> QED
    BY <1>5, <2>1, <2>3
<1>11. CASE f.cmd = "Flow" /\ flowing
  <2>1. FlowAt(1)
    BY <1>3, <1>11 DEF FlowAt
  <2>2. NoBlock /\ flow = <<>> /\ \A i \in 1..Len(fromDevice) : FlowAt(i) => i = 1
    BY <1>1, <1>3, <2>1 DEF OneUnderWay, NoFlow
  <2>3. flow' = <<f.val>>
    BY <1>2, <1>11, <2>2
  <2>4. \A i \in 1..Len(fromDevice') : ~FlowAt(i)'
    BY <1>4, <2>2
  <2>5. Len(flow') = 1 /\ flow'[1] = f.val
    BY <2>3
  <2>6. OneUnderWay'
    BY <1>1, <1>2, <2>2, <2>4, <2>5 DEF OneUnderWay, NoBlock, NoFlow, BlockAt
  <2>7. f.by \in Callers /\ call[f.by].pc = "upFlow"
        /\ (f.val = Accepted => Sent(f.by, call[f.by].step))
    BY <1>1, <1>3, <2>1, FramesNamed DEF OfItsUpload, FlowAt
  <2>8. OfItsUpload'
    BY <1>2, <1>9, <2>4, <2>5, <2>7 DEF OfItsUpload, BlockAt, Expects, Sent
  <2> QED
    BY <1>5, <2>6, <2>8
<1> QED
  BY <1>2, <1>10, <1>11

\* So do the other steps of the link.
LEMMA LinkKeepsUpload ==
  ASSUME IInv, UploadInv, LinkSteps \/ LinkFaults, UNCHANGED <<call, uploading>>
  PROVE  UploadInv'
<1>1. CASE ReaderReads
  BY <1>1, ReaderKeepsUpload
<1>2. CASE ReaderDelivers
  <2>1. UNCHANGED <<toDevice, fromDevice, device, flow>>
    BY <1>2 DEF ReaderDelivers
  <2> QED
    BY <2>1 DEF UploadInv, Clean, OneUnderWay, OfItsUpload, SentSoFar, BlockAt, FlowAt, NoBlock,
       NoFlow, Expects, Sent
<1>3. CASE DeviceAnswers \/ CommandIsLost \/ AnswerIsLost \/ BlockIsRejected
  <2> DEFINE f == Head(toDevice)
  <2>1. toDevice # <<>>
    BY <1>3 DEF DeviceAnswers, CommandIsLost, AnswerIsLost, BlockIsRejected, DeviceGets
  <2>2. f \in Good /\ LinkInv
    BY <2>1, Taken DEF IInv, LinkInv
  <2>3. \/ DeviceGets(Applied(f), Answers(f)) \/ DeviceGets(device, <<>>)
        \/ DeviceGets(Applied(f), <<>>)
        \/ /\ f.cmd = "Block"
           /\ DeviceGets(device, <<[f EXCEPT !.cmd = "Flow", !.slot = 0, !.val = Rejected]>>)
    BY <1>3 DEF DeviceAnswers, CommandIsLost, AnswerIsLost, BlockIsRejected
  <2>4. device.stored \subseteq Applied(f).stored
        /\ (f.cmd = "Block" => <<f.by, f.slot>> \in Applied(f).stored)
    <3>1. device \in [sw : Values, mode : [Slots -> Params],
                      stored : SUBSET (Callers \X (1..Blocks)), took : SUBSET Callers]
      BY <2>2 DEF LinkInv
    <3>2. CASE f.cmd = "Block"
      <4>1. Applied(f) = [device EXCEPT !.stored = @ \cup {<<f.by, f.slot>>}]
        BY <3>2 DEF Applied
      <4> QED
        BY <3>1, <4>1
    <3>3. CASE f.cmd # "Block"
      <4>1. Applied(f).stored = device.stored
        BY <3>1, <3>3 DEF Applied
      <4> QED
        BY <3>3, <4>1
    <3> QED
      BY <3>2, <3>3
  <2>5. CASE DeviceGets(Applied(f), Answers(f))
    <3>1. CASE f.cmd = "Block"
      <4> DEFINE g == [f EXCEPT !.cmd = "Flow", !.slot = 0, !.val = Accepted]
      <4>1. Answers(f) = <<g>>
        BY <3>1 DEF Answers
      <4>2. g.by = f.by
        BY <2>2 DEF Good, Frame
      <4>3. Accepted \in Params
        BY DEF Accepted, Params, Values
      <4>4. g \in Good
        BY <2>2, <3>1, <4>3 DEF Good, Frame, Light, Commands, Queries
      <4> QED
        BY <2>4, <2>5, <3>1, <4>1, <4>2, <4>4, GetsKeepsUpload
    <3>2. CASE f.cmd # "Block"
      <4>1. Answers(f) = <<>> \/ \E g \in Good : Answers(f) = <<g>> /\ g.cmd # "Flow"
        BY <2>2, <3>2, AnswersAreGood
      <4> QED
        BY <2>4, <2>5, <4>1, GetsKeepsUpload
    <3> QED
      BY <3>1, <3>2
  <2>6. CASE DeviceGets(device, <<>>) \/ DeviceGets(Applied(f), <<>>)
    BY <2>4, <2>6, GetsKeepsUpload
  <2>7. CASE /\ f.cmd = "Block"
             /\ DeviceGets(device, <<[f EXCEPT !.cmd = "Flow", !.slot = 0, !.val = Rejected]>>)
    <3> DEFINE g == [f EXCEPT !.cmd = "Flow", !.slot = 0, !.val = Rejected]
    <3>1. g \in Good
      BY <2>2, <2>7, AnswersAreGood
    <3>2. g.by = f.by /\ g.val # Accepted
      BY <2>2 DEF Good, Frame, Accepted, Rejected
    <3> QED
      BY <2>7, <3>1, <3>2, GetsKeepsUpload
  <2> QED
    BY <2>3, <2>5, <2>6, <2>7
<1> QED
  BY <1>1, <1>2, <1>3 DEF LinkSteps, LinkFaults

\* The cooler gets a block of the upload that sends, when nothing is under way.
LEMMA BlockSent ==
  ASSUME IInv, NoBlock, NoFlow, flow = <<>>, NEW c \in Callers, NEW f \in Good,
         f.cmd = "Block", f.by = c, toDevice' = Append(toDevice, f),
         UNCHANGED <<fromDevice, flow>>,
         call'[c].pc = "upFlow", call'[c].step = f.slot
  PROVE  OneUnderWay' /\ OfItsUpload'
<1>1. /\ \A i \in 1..Len(toDevice) : toDevice'[i] = toDevice[i]
      /\ toDevice'[Len(toDevice) + 1] = f
      /\ 1..Len(toDevice') = 1..Len(toDevice) \cup {Len(toDevice) + 1}
  BY Appended, FramesNamed
<1>2. \A i \in 1..Len(toDevice') : BlockAt(i)' => i = Len(toDevice) + 1
  BY <1>1 DEF BlockAt, NoBlock
<1>3. \A i \in 1..Len(fromDevice') : ~FlowAt(i)'
  BY DEF NoFlow, FlowAt
<1>4. Len(flow') <= 1 /\ flow' = <<>>
  OBVIOUS
<1>5. OneUnderWay'
  BY <1>2, <1>3, <1>4 DEF OneUnderWay, NoFlow
<1>6. OfItsUpload'
  BY <1>1, <1>2, <1>3, <1>4 DEF OfItsUpload, Expects
<1> QED
  BY <1>5, <1>6

\* The steps of an upload.
LEMMA UploadsKeepUpload ==
  ASSUME IInv, UploadInv, NEW c \in Callers, Uploads(c) \/ UploadBreaksOff(c)
  PROVE  UploadInv'
<1>t. /\ call \in [Callers -> CallRecords] /\ CallKnown(c) /\ toDevice \in Seq(Good)
      /\ flow \in Seq(Params) /\ uploading \in Callers \cup {Nobody}
      /\ Blocks \in Nat \ {0}
  BY SlotAssumption DEF IInv, CallsInv, LinkInv
<1>p. /\ \A d \in Callers : call[d].pc \in UploadLabels => uploading = d
      /\ \A d \in Callers : call[d].pc # "done" => call[d].result = "none"
      /\ Clean => OneUnderWay /\ OfItsUpload /\ SentSoFar
  BY DEF UploadInv
\* What a step does to the registration and to the results.
<1>a. ASSUME \A d \in Callers \ {c} : call'[d] = call[d],
             call'[c].pc # "done" => call'[c].result = "none",
             \/ uploading' = uploading /\ call'[c].pc = "done"
             \/ uploading \in {c, Nobody} /\ uploading' = c
             \/ uploading = c /\ call'[c].pc = "done"
      PROVE  \A d \in Callers : /\ call'[d].pc \in UploadLabels => uploading' = d
                                /\ call'[d].pc # "done" => call'[d].result = "none"
  BY <1>a, <1>p, CallerAssumption DEF UploadLabels
<1>b. ASSUME \A d \in Callers \ {c} : call'[d] = call[d],
             call[c].pc # "done", call[c].missed => call'[c].missed, Clean'
      PROVE  Clean /\ OneUnderWay /\ OfItsUpload /\ SentSoFar
  <2>1. call[c].result # "failed" /\ ~call[c].missed
    BY <1>b, <1>p DEF Clean
  <2> QED
    BY <1>b, <1>p, <2>1 DEF Clean
<1>s. ASSUME \A d \in Callers \ {c} : call'[d] = call[d], device' = device, SentSoFar,
             call'[c].pc \in {"upSend", "upFlow"} =>
               {c} \X (1..(call'[c].step - 1)) \subseteq device.stored,
             call'[c].result = "ok" => Sent(c, Blocks)
      PROVE  SentSoFar'
  BY <1>s DEF SentSoFar, Sent
<1>u. ASSUME call[c].pc \in UploadLabels PROVE uploading = c /\ call[c].result = "none"
  BY <1>u, <1>p DEF UploadLabels
<1> USE DEF At
<1>1. CASE UploadBegins(c)
  <2>1. /\ \A d \in Callers \ {c} : call'[d] = call[d]
        /\ call[c].pc = "idle" /\ call'[c].missed = call[c].missed
        /\ UNCHANGED <<toDevice, fromDevice, device, flow>>
        /\ \/ /\ uploading = Nobody /\ uploading' = c
              /\ call'[c].pc = "prepare" /\ call'[c].result = call[c].result
           \/ uploading' = uploading /\ call'[c].pc = "done" /\ call'[c].result = "refused"
    BY <1>t, <1>1 DEF UploadBegins, Goes, linkVars, CallRecords
  <2>2. call[c].result = "none"
    BY <1>p, <2>1
  <2>3. ASSUME Clean' PROVE OneUnderWay' /\ OfItsUpload' /\ SentSoFar'
    <3>1. Clean /\ SentSoFar
      BY <1>b, <2>1, <2>3
    <3>2. OneUnderWay' /\ OfItsUpload'
      BY <2>1, <3>1, SameUnderWay
    <3> QED
      BY <1>s, <2>1, <2>2, <3>1, <3>2
  <2>4. \A d \in Callers : /\ call'[d].pc \in UploadLabels => uploading' = d
                           /\ call'[d].pc # "done" => call'[d].result = "none"
    BY <1>a, <2>1, <2>2
  <2> QED
    BY <2>3, <2>4 DEF UploadInv
\* Before its first frame and after it.
<1>2. CASE UploadPrepares(c) \/ UploadEnters(c) \/ UploadMetaDone(c)
  <2>1. /\ \A d \in Callers \ {c} : call'[d] = call[d]
        /\ call[c].pc \in {"prepare", "upQueued", "upMeta"}
        /\ call'[c].missed = call[c].missed /\ call'[c].result = call[c].result
        /\ call'[c].pc \in {"upQueued", "upSend"}
        /\ call'[c].pc = "upSend" => call'[c].step \in {0, 1}
        /\ UNCHANGED <<toDevice, fromDevice, device, uploading>>
        /\ flow' = flow \/ flow' = <<>>
    <3>1. CASE UploadPrepares(c)
      BY <1>t, <3>1 DEF UploadPrepares, Goes, deviceVars, CallRecords
    <3>2. CASE UploadEnters(c)
      BY <1>t, <3>2 DEF UploadEnters, Goes, CallRecords, CallKnown
    <3>3. CASE UploadMetaDone(c)
      <4>1. call' = [call EXCEPT ![c] = [call[c] EXCEPT !.pc = "upSend",
                       !.step = call[c].step + 1, !.resends = 0,
                       !.missed = (call[c].missed \/ FALSE)]]
        BY <1>t, <3>3 DEF UploadMetaDone, UploadGoesOn
      <4>2. call[c].step = 0 /\ call[c].missed \in BOOLEAN
        BY <1>t, <3>3 DEF UploadMetaDone, CallKnown, CallRecords
      <4>3. /\ \A d \in Callers \ {c} : call'[d] = call[d]
            /\ call'[c].result = call[c].result
            /\ call'[c].pc = "upSend" /\ call'[c].step = 1
            /\ call'[c].missed = (call[c].missed \/ FALSE)
        BY <1>t, <4>1, <4>2 DEF CallRecords
      <4>4. (call[c].missed \/ FALSE) = call[c].missed
        BY <4>2
      <4> QED
        BY <3>3, <4>3, <4>4 DEF UploadMetaDone, deviceVars
    <3> QED
      BY <1>2, <3>1, <3>2, <3>3
  <2>2. uploading = c /\ call[c].result = "none"
    BY <1>u, <2>1 DEF UploadLabels
  <2>3. ASSUME Clean' PROVE OneUnderWay' /\ OfItsUpload' /\ SentSoFar'
    <3>1. Clean /\ SentSoFar
      BY <1>b, <2>1, <2>3
    <3>2. flow' = flow
      BY <2>1, <3>1, QuietBetween DEF UploadLabels
    <3>3. OneUnderWay' /\ OfItsUpload'
      BY <2>1, <3>1, <3>2, SameUnderWay
    <3>4. call'[c].pc \in {"upSend", "upFlow"} =>
            {c} \X (1..(call'[c].step - 1)) \subseteq device.stored
      BY <2>1
    <3> QED
      BY <1>s, <2>1, <2>2, <3>1, <3>3, <3>4
  <2>4. \A d \in Callers : /\ call'[d].pc \in UploadLabels => uploading' = d
                           /\ call'[d].pc # "done" => call'[d].result = "none"
    BY <1>a, <2>1, <2>2
  <2> QED
    BY <2>3, <2>4 DEF UploadInv
<1>3. CASE UploadSends(c)
  <2> DEFINE n == call[c].step
             f == UploadFrame(c)
  <2>1. /\ call[c].pc = "upSend" /\ n \in 0..Blocks + 1 /\ toDevice' = Append(toDevice, f)
        /\ UNCHANGED <<fromDevice, device>>
    BY <1>t, <1>3 DEF UploadSends, CallKnown
  <2>2. uploading = c /\ call[c].result = "none"
    BY <1>u, <2>1 DEF UploadLabels
  <2>3. f = FrameOf(c, IF n = 0 THEN "Meta" ELSE IF n > Blocks THEN "Commit" ELSE "Block",
                    IF n \in 1..Blocks THEN n ELSE 0, <<0, 0>>)
    BY DEF UploadFrame
  <2>4. CASE n \in 1..Blocks
    <3>1. /\ f = FrameOf(c, "Block", n, <<0, 0>>) /\ ~(n > Blocks) /\ n # 0
      BY <1>t, <2>3, <2>4
    <3>2. f \in Good /\ f.cmd = "Block" /\ f.by = c /\ f.slot = n
      <4>1. "Block" \in Commands /\ "Block" \notin Light /\ <<0, 0>> \in Params
        BY DEF Commands, Params, Values, Light
      <4>2. FrameOf(c, "Block", n, <<0, 0>>) \in Good
        BY <2>4, <4>1, FrameIsGood
      <4>3. f.cmd = "Block" /\ f.by = c /\ f.slot = n
        BY <3>1 DEF FrameOf
      <4> QED
        BY <3>1, <4>2, <4>3
    <3>3. /\ \A d \in Callers \ {c} : call'[d] = call[d]
          /\ call'[c].missed = call[c].missed /\ call'[c].result = call[c].result
          /\ call'[c].pc = "upFlow" /\ call'[c].step = n
          /\ flow' = flow /\ uploading' = uploading
      BY <1>t, <1>3, <3>1 DEF UploadSends, Goes, CallRecords
    <3>4. ASSUME Clean' PROVE OneUnderWay' /\ OfItsUpload' /\ SentSoFar'
      <4>1. Clean /\ SentSoFar
        BY <1>b, <2>1, <3>3, <3>4
      <4>2. NoBlock /\ NoFlow /\ flow = <<>>
        BY <2>1, <4>1, QuietBetween DEF UploadLabels
      <4>3. OneUnderWay' /\ OfItsUpload'
        BY <2>1, <3>2, <3>3, <4>2, BlockSent
      <4>4. {c} \X (1..(n - 1)) \subseteq device.stored
        BY <2>1, <4>1 DEF SentSoFar, Sent
      <4> QED
        BY <1>s, <2>1, <2>2, <3>3, <4>1, <4>3, <4>4
    <3>5. \A d \in Callers : /\ call'[d].pc \in UploadLabels => uploading' = d
                             /\ call'[d].pc # "done" => call'[d].result = "none"
      BY <1>a, <2>2, <3>3
    <3> QED
      BY <3>4, <3>5 DEF UploadInv
  <2>5. CASE n = 0
    <3>1. f = FrameOf(c, "Meta", 0, <<0, 0>>) /\ ~(n > Blocks)
      BY <1>t, <2>3, <2>5
    <3>2. f \in Good /\ f.cmd # "Block"
      BY <3>1, FrameIsGood DEF Commands, Params, Values, Light, FrameOf
    <3>3. /\ \A d \in Callers \ {c} : call'[d] = call[d]
          /\ call'[c].missed = call[c].missed /\ call'[c].result = call[c].result
          /\ call'[c].pc = "upMeta" /\ flow' = flow /\ uploading' = uploading
      BY <1>t, <1>3, <2>5, <3>1 DEF UploadSends, Goes, CallRecords
    <3>4. ASSUME Clean' PROVE OneUnderWay' /\ OfItsUpload' /\ SentSoFar'
      <4>1. Clean /\ SentSoFar
        BY <1>b, <2>1, <3>3, <3>4
      <4>2. OneUnderWay' /\ OfItsUpload'
        BY <2>1, <3>2, <3>3, <4>1, OtherFrameSent
      <4> QED
        BY <1>s, <2>1, <2>2, <3>3, <4>1, <4>2
    <3>5. \A d \in Callers : /\ call'[d].pc \in UploadLabels => uploading' = d
                             /\ call'[d].pc # "done" => call'[d].result = "none"
      BY <1>a, <2>2, <3>3
    <3> QED
      BY <3>4, <3>5 DEF UploadInv
  <2>6. CASE n = Blocks + 1
    <3>1. f = FrameOf(c, "Commit", 0, <<0, 0>>) /\ n > Blocks
      BY <1>t, <2>3, <2>6
    <3>2. f \in Good /\ f.cmd # "Block"
      BY <3>1, FrameIsGood DEF Commands, Params, Values, Light, FrameOf
    <3>3. /\ \A d \in Callers \ {c} : call'[d] = call[d]
          /\ call'[c].missed = call[c].missed /\ call'[c].pc = "done"
          /\ flow' = <<>> /\ uploading' = Nobody
      BY <1>t, <1>3, <3>1 DEF UploadSends, UploadEnds, CallRecords
    <3>4. ASSUME Clean' PROVE OneUnderWay' /\ OfItsUpload' /\ SentSoFar'
      <4>1. Clean /\ SentSoFar
        BY <1>b, <2>1, <3>3, <3>4
      <4>2. flow = <<>>
        BY <2>1, <4>1, QuietBetween DEF UploadLabels
      <4>3. OneUnderWay' /\ OfItsUpload'
        BY <2>1, <3>2, <3>3, <4>1, <4>2, OtherFrameSent
      <4>4. n - 1 = Blocks
        BY <1>t, <2>6
      <4>5. Sent(c, Blocks)
        BY <2>1, <4>1, <4>4 DEF SentSoFar
      <4> QED
        BY <1>s, <2>1, <3>3, <4>1, <4>3, <4>5
    <3>5. \A d \in Callers : /\ call'[d].pc \in UploadLabels => uploading' = d
                             /\ call'[d].pc # "done" => call'[d].result = "none"
      BY <1>a, <2>2, <3>3
    <3> QED
      BY <3>4, <3>5 DEF UploadInv
  <2> QED
    BY <1>t, <2>1, <2>4, <2>5, <2>6
<1>4. CASE UploadFlow(c)
  <2>1. /\ call[c].pc = "upFlow" /\ call[c].step \in 1..Blocks /\ flow # <<>>
        /\ flow' = Tail(flow) /\ UNCHANGED <<toDevice, fromDevice, device>>
        /\ Head(flow) = flow[1]
    <3>1. /\ call[c].pc = "upFlow" /\ flow # <<>> /\ flow' = Tail(flow)
          /\ UNCHANGED <<toDevice, fromDevice, device>>
      BY <1>4 DEF UploadFlow
    <3> QED
      BY <1>t, <3>1, Taken DEF CallKnown
  <2>2. uploading = c /\ call[c].result = "none"
    BY <1>u, <2>1 DEF UploadLabels
  <2>3. call[c].missed \in BOOLEAN /\ call[c].step \in Nat
    BY <1>t DEF CallRecords
  <2>4. /\ \A d \in Callers \ {c} : call'[d] = call[d]
        /\ call[c].missed => call'[c].missed
        /\ \/ /\ call'[c].pc = "upSend" /\ call'[c].step = call[c].step + 1
              /\ Head(flow) = Accepted
              /\ uploading' = uploading /\ call'[c].result = call[c].result
           \/ /\ call'[c].pc = "upSend" /\ call'[c].step = call[c].step
              /\ uploading' = uploading /\ call'[c].result = call[c].result
           \/ call'[c].pc = "done" /\ call'[c].result = "failed"
    <3>1. CASE Head(flow) = Accepted
      <4>1. UploadGoesOn(c, FALSE) /\ uploading' = uploading
        BY <1>4, <3>1 DEF UploadFlow
      <4>2. call' = [call EXCEPT ![c] = [call[c] EXCEPT !.pc = "upSend",
                       !.step = call[c].step + 1, !.resends = 0,
                       !.missed = (call[c].missed \/ FALSE)]]
        BY <1>t, <4>1 DEF UploadGoesOn
      <4>3. /\ \A d \in Callers \ {c} : call'[d] = call[d]
            /\ call'[c].result = call[c].result
            /\ call'[c].pc = "upSend" /\ call'[c].step = call[c].step + 1
            /\ call'[c].missed = (call[c].missed \/ FALSE)
        BY <1>t, <4>2 DEF CallRecords
      <4>4. call[c].missed => (call[c].missed \/ FALSE)
        OBVIOUS
      <4> QED
        BY <3>1, <4>1, <4>3, <4>4
    <3>2. CASE Head(flow) # Accepted
      <4>1. UploadRepeats(c, FALSE)
        BY <1>4, <3>2 DEF UploadFlow
      <4>2. CASE call[c].resends < MaxResends
        <5>1. /\ uploading' = uploading
              /\ call' = [call EXCEPT ![c] = [call[c] EXCEPT !.pc = "upSend",
                   !.resends = call[c].resends + 1, !.missed = (call[c].missed \/ FALSE)]]
          BY <1>t, <4>1, <4>2 DEF UploadRepeats
        <5>2. /\ \A d \in Callers \ {c} : call'[d] = call[d]
              /\ call'[c].result = call[c].result
              /\ call'[c].pc = "upSend" /\ call'[c].step = call[c].step
              /\ call'[c].missed = (call[c].missed \/ FALSE)
          BY <1>t, <5>1 DEF CallRecords
        <5>3. call[c].missed => (call[c].missed \/ FALSE)
          OBVIOUS
        <5> QED
          BY <5>1, <5>2, <5>3
      <4>3. CASE ~(call[c].resends < MaxResends)
        BY <1>t, <4>1, <4>3 DEF UploadRepeats, CallRecords
      <4> QED
        BY <4>2, <4>3
    <3> QED
      BY <3>1, <3>2
  <2>5. ASSUME Clean' PROVE OneUnderWay' /\ OfItsUpload' /\ SentSoFar'
    <3>1. Clean /\ OneUnderWay /\ OfItsUpload /\ SentSoFar
      BY <1>b, <2>1, <2>4, <2>5
    <3>2. NoBlock /\ NoFlow /\ Len(flow) <= 1
      BY <2>1, <3>1 DEF OneUnderWay
    <3>3. flow' = <<>>
      <4>1. flow' \in Seq(Params) /\ Len(flow') = Len(flow) - 1 /\ Len(flow) \in Nat \ {0}
        BY <1>t, <2>1, Taken
      <4> QED
        BY <3>2, <4>1, EmptySeq
    <3>4. \A i \in 1..Len(toDevice') : ~BlockAt(i)'
      BY <2>1, <3>2 DEF NoBlock, BlockAt
    <3>5. \A i \in 1..Len(fromDevice') : ~FlowAt(i)'
      BY <2>1, <3>2 DEF NoFlow, FlowAt
    <3>6. Len(flow') <= 1
      BY <3>3
    <3>7. OneUnderWay' /\ OfItsUpload'
      BY <3>3, <3>4, <3>5, <3>6 DEF OneUnderWay, OfItsUpload, NoBlock
    <3>8. Sent(c, call[c].step - 1) /\ (Head(flow) = Accepted => Sent(c, call[c].step))
      <4>1. PICK d \in Callers :
              call[d].pc = "upFlow" /\ (flow[1] = Accepted => Sent(d, call[d].step))
        BY <2>1, <3>1 DEF OfItsUpload
      <4>2. d = c
        BY <1>p, <2>2, <4>1 DEF UploadLabels
      <4> QED
        BY <2>1, <3>1, <4>1, <4>2 DEF SentSoFar
    <3>9. call'[c].result # "failed"
      BY <2>5 DEF Clean
    <3>10. \/ call'[c].step = call[c].step /\ call'[c].pc = "upSend"
           \/ call'[c].step = call[c].step + 1 /\ Head(flow) = Accepted
      BY <2>4, <3>9
    <3>11. {c} \X (1..(call'[c].step - 1)) \subseteq device.stored
      <4>1. CASE call'[c].step = call[c].step
        BY <3>8, <4>1 DEF Sent
      <4>2. CASE call'[c].step = call[c].step + 1 /\ Head(flow) = Accepted
        <5>1. call'[c].step - 1 = call[c].step
          BY <2>3, <4>2
        <5> QED
          BY <3>8, <4>2, <5>1 DEF Sent
      <4> QED
        BY <3>10, <4>1, <4>2
    <3>12. call'[c].result # "ok"
      BY <2>2, <2>4, <3>9
    <3> QED
      BY <1>s, <2>1, <2>4, <3>1, <3>7, <3>11, <3>12
  <2>6. \A d \in Callers : /\ call'[d].pc \in UploadLabels => uploading' = d
                           /\ call'[d].pc # "done" => call'[d].result = "none"
    BY <1>a, <2>2, <2>4
  <2> QED
    BY <2>5, <2>6 DEF UploadInv
\* The ways to miss an answer or to fail.
<1>5. CASE UploadFlowMissed(c) \/ UploadBreaksOff(c)
  <2>1. uploading = c /\ call[c].result = "none"
    BY <1>u, <1>5 DEF UploadFlowMissed, UploadBreaksOff, UploadLabels
  <2>2. /\ \A d \in Callers \ {c} : call'[d] = call[d]
        /\ \/ /\ call'[c].pc = "upSend" /\ call'[c].result = call[c].result
              /\ uploading' = uploading /\ call'[c].missed
           \/ call'[c].pc = "done" /\ call'[c].result = "failed"
    <3>1. CASE UploadBreaksOff(c)
      BY <1>t, <3>1 DEF UploadBreaksOff, UploadEnds, CallRecords
    <3>2. CASE UploadFlowMissed(c) /\ UploadGoesOn(c, TRUE) /\ uploading' = uploading
      <4>1. call' = [call EXCEPT ![c] = [call[c] EXCEPT !.pc = "upSend",
                       !.step = call[c].step + 1, !.resends = 0,
                       !.missed = (call[c].missed \/ TRUE)]]
        BY <1>t, <3>2 DEF UploadGoesOn
      <4>2. /\ \A d \in Callers \ {c} : call'[d] = call[d]
            /\ call'[c].result = call[c].result /\ call'[c].pc = "upSend"
            /\ call'[c].missed = (call[c].missed \/ TRUE)
        BY <1>t, <4>1 DEF CallRecords
      <4>3. call[c].missed \/ TRUE
        OBVIOUS
      <4> QED
        BY <3>2, <4>2, <4>3
    <3>3. CASE UploadFlowMissed(c) /\ UploadRepeats(c, TRUE)
      <4>1. CASE call[c].resends < MaxResends
        <5>1. /\ uploading' = uploading
              /\ call' = [call EXCEPT ![c] = [call[c] EXCEPT !.pc = "upSend",
                   !.resends = call[c].resends + 1, !.missed = (call[c].missed \/ TRUE)]]
          BY <1>t, <3>3, <4>1 DEF UploadRepeats
        <5>2. /\ \A d \in Callers \ {c} : call'[d] = call[d]
              /\ call'[c].result = call[c].result /\ call'[c].pc = "upSend"
              /\ call'[c].missed = (call[c].missed \/ TRUE)
          BY <1>t, <5>1 DEF CallRecords
        <5>3. call[c].missed \/ TRUE
          OBVIOUS
        <5> QED
          BY <5>1, <5>2, <5>3
      <4>2. CASE ~(call[c].resends < MaxResends)
        BY <1>t, <3>3, <4>2 DEF UploadRepeats, CallRecords
      <4> QED
        BY <4>1, <4>2
    <3> QED
      BY <1>5, <3>1, <3>2, <3>3 DEF UploadFlowMissed
  <2>3. ~Clean'
    BY <2>2 DEF Clean
  <2>4. \A d \in Callers : /\ call'[d].pc \in UploadLabels => uploading' = d
                           /\ call'[d].pc # "done" => call'[d].result = "none"
    BY <1>a, <2>1, <2>2
  <2> QED
    BY <2>3, <2>4 DEF UploadInv
<1> QED
  BY <1>1, <1>2, <1>3, <1>4, <1>5 DEF Uploads

LEMMA UploadStarts == Init => UploadInv
<1> SUFFICES ASSUME Init PROVE UploadInv
  OBVIOUS
<1>1. /\ toDevice = <<>> /\ fromDevice = <<>> /\ flow = <<>>
      /\ \A c \in Callers : call[c].pc = "idle" /\ call[c].result = "none"
  BY DEF Init, LinkInit
<1>2. Len(toDevice) = 0 /\ Len(fromDevice) = 0 /\ Len(flow) <= 1
  BY <1>1
<1>3. OneUnderWay /\ OfItsUpload /\ SentSoFar
  BY <1>1, <1>2 DEF OneUnderWay, OfItsUpload, SentSoFar, NoBlock
<1> QED
  BY <1>1, <1>3 DEF UploadInv, UploadLabels

LEMMA StepKeepsUpload == IInv /\ UploadInv /\ [Next]_vars => UploadInv'
<1> SUFFICES ASSUME IInv, UploadInv, [Next]_vars PROVE UploadInv'
  OBVIOUS
<1>1. CASE Link \/ Losses
  BY <1>1, LinkKeepsUpload DEF Link, Losses
<1>2. CASE \E c \in Callers : Exchanges(c) \/ SendFails(c) \/ RestoreFails(c)
  BY <1>2, ExchangesAreOthers
<1>3. CASE \E c \in Callers : Uploads(c) \/ UploadBreaksOff(c)
  BY <1>3, UploadsKeepUpload
<1>4. CASE UNCHANGED vars
  BY <1>4 DEF vars, linkVars, UploadInv, Clean, OneUnderWay, OfItsUpload, SentSoFar, BlockAt,
     FlowAt, NoBlock, NoFlow, Expects, Sent
<1> QED
  BY <1>1, <1>2, <1>3, <1>4 DEF Next, Progress, Breaks

\* Uploads are whole.
THEOREM UploadOrder == Spec => []UploadInv
BY WireOrder, UploadStarts, StepKeepsUpload, PTL DEF Spec

\* When no upload has missed a flow answer or was broken off, one that succeeds
\* has put every block on the cooler, also those the cooler rejected first.
THEOREM UploadsAreWhole == Spec => []RejectedIsResent
<1>1. UploadInv => RejectedIsResent
  BY DEF UploadInv, Clean, SentSoFar, Sent, RejectedIsResent
<1> QED
  BY <1>1, UploadOrder, PTL

-----------------------------------------------------------------------------
(* What the cooler has carried out, and what it is said to have carried out. *)

(* What the cooler has carried out, for who asked for it; values read from *)
(* it, or written back as they were read, are among these.                 *)
SwitchDone == {0} \cup {wish[c].val : c \in {d \in device.took : Is(d, "switch")}}
FieldDone(s, n) == {0} \cup {wish[c].val : c \in {d \in device.took : Asked(d, s, n)}}
Seen(f) == \A n \in 1..2 : f.val[n] \in FieldDone(f.slot, n)
Right == {f \in Frame :
  /\ f.cmd = "GetSwitch" => f.val[1] \in SwitchDone
  /\ f.cmd = "GetRgb" => Seen(f)
  /\ f.cmd = "SetSwitch" => (Is(f.by, "switch") /\ f.val[1] = wish[f.by].val)
  /\ f.cmd = "SetRgb" => \A n \in 1..2 :
       \/ f.val[n] \in FieldDone(f.slot, n)
       \/ (Asked(f.by, f.slot, n) /\ f.val[n] = wish[f.by].val)}
LinkTold ==
  /\ resp \in Seq(Right) /\ toDevice \in Seq(Right) /\ fromDevice \in Seq(Right)
  /\ late \in [LateKeys -> Seq(Right)] /\ reader.frame \in Right
  /\ device.sw \in SwitchDone
  /\ \A s \in Slots, n \in 1..2 : device.mode[s][n] \in FieldDone(s, n)
(* The steps at which a caller decides by what it has read. *)
Reads(c, n) ==
  \/ (Is(c, "edit") /\ n \in {1, 3}) \/ (Is(c, "select") /\ n = 1)
  \/ (Is(c, "restore") /\ n = 2)
HasIt(c) ==
  \/ (Is(c, "switch") /\ wish[c].val \in SwitchDone)
  \/ \E n \in 1..2 : Asked(c, wish[c].slot, n) /\ wish[c].val \in FieldDone(wish[c].slot, n)
CallTold(c) ==
  /\ call[c].frame \in Right /\ call[c].got \in Right
  /\ call[c].pc \in Exchanging =>
       /\ call[c].frame.by = c
       /\ (Is(c, "switch") /\ call[c].step = 2) => call[c].frame.cmd = "GetSwitch"
       /\ Reads(c, call[c].step) => call[c].frame.cmd = "GetRgb"
  /\ call[c].result = "confirmed" => HasIt(c)
ToldInv == LinkTold /\ (\A s \in Slots : Seen(cache[s])) /\ \A c \in Callers : CallTold(c)

\* The cooler never takes anything back: what was right stays so.
LEMMA RightStays ==
  ASSUME UNCHANGED wish, device.took \subseteq device'.took
  PROVE  /\ SwitchDone \subseteq SwitchDone'
         /\ \A s, n : FieldDone(s, n) \subseteq FieldDone(s, n)'
         /\ \A f : Seen(f) => Seen(f)'
         /\ Right \subseteq Right'
         /\ \A c : HasIt(c) => HasIt(c)'
<1>1. SwitchDone \subseteq SwitchDone'
  BY DEF SwitchDone, Is
<1>2. \A s, n : FieldDone(s, n) \subseteq FieldDone(s, n)'
  BY DEF FieldDone, Asked, Is
<1>3. \A f : Seen(f) => Seen(f)'
  BY <1>2 DEF Seen
<1>4. Right \subseteq Right'
  <2> SUFFICES ASSUME NEW f \in Right PROVE f \in Right'
    OBVIOUS
  <2>1. Is(f.by, "switch")' = Is(f.by, "switch")
        /\ \A n : Asked(f.by, f.slot, n)' = Asked(f.by, f.slot, n)
    BY DEF Is, Asked
  <2> QED
    BY <1>1, <1>2, <1>3, <2>1 DEF Right
<1>5. ASSUME NEW c, HasIt(c) PROVE HasIt(c)'
  BY <1>1, <1>2, <1>5 DEF HasIt, Asked, Is
<1> QED
  BY <1>1, <1>2, <1>3, <1>4, <1>5

\* While the cooler and the wishes stay as they are, so does what is right.
LEMMA RightIsFixed ==
  ASSUME UNCHANGED <<wish, device>>
  PROVE  /\ SwitchDone' = SwitchDone /\ Right' = Right
         /\ \A s, n : FieldDone(s, n)' = FieldDone(s, n)
         /\ \A f : Seen(f)' = Seen(f)
         /\ \A c : HasIt(c)' = HasIt(c)
<1>1. \A c : Is(c, "switch")' = Is(c, "switch") /\ \A s, n : Asked(c, s, n)' = Asked(c, s, n)
  BY DEF Is, Asked
<1>2. SwitchDone' = SwitchDone
  BY DEF SwitchDone, Is
<1>3. \A s, n : FieldDone(s, n)' = FieldDone(s, n)
  BY DEF FieldDone, Asked, Is
<1>4. \A f : Seen(f)' = Seen(f)
  BY <1>3 DEF Seen
<1>5. Right' = Right
  BY <1>1, <1>2, <1>3, <1>4 DEF Right
<1>6. \A c : HasIt(c)' = HasIt(c)
  BY <1>1, <1>2, <1>3 DEF HasIt
<1> QED
  BY <1>2, <1>3, <1>4, <1>5, <1>6

LEMMA SeqGrows ==
  ASSUME NEW S, NEW T, S \subseteq T, NEW s \in Seq(S)
  PROVE  s \in Seq(T)
<1>1. Len(s) \in Nat /\ \A i \in 1..Len(s) : s[i] \in T
  BY LenProperties, ElementOfSeq
<1>2. s = [i \in 1..Len(s) |-> s[i]]
  BY SeqDef
<1> QED
  BY <1>1, <1>2, IsASeq

\* A caller touches the link from outside.
LEMMA CallerTells ==
  ASSUME ToldInv, NEW c \in Callers, UNCHANGED <<wish, device, reader, fromDevice>>,
         resp' \in Seq(Right), toDevice' \in Seq(Right), late' \in [LateKeys -> Seq(Right)],
         \A s \in Slots : Seen(cache'[s]),
         \A d \in Callers \ {c} : call'[d] = call[d], CallTold(c)'
  PROVE  ToldInv'
<1>1. /\ SwitchDone' = SwitchDone /\ Right' = Right
      /\ \A s, n : FieldDone(s, n)' = FieldDone(s, n)
      /\ \A f : Seen(f)' = Seen(f)
      /\ \A d : HasIt(d)' = HasIt(d)
  BY RightIsFixed
<1>2. LinkTold'
  BY <1>1 DEF ToldInv, LinkTold
<1>3. \A s \in Slots : Seen(cache[s])'
  BY <1>1 DEF Seen
<1>4. ASSUME NEW d \in Callers PROVE CallTold(d)'
  <2>1. CASE d = c
    BY <2>1
  <2>2. CASE d # c
    <3>1. call'[d] = call[d] /\ CallTold(d)
      BY <2>2 DEF ToldInv
    <3> QED
      BY <1>1, <3>1 DEF CallTold, Reads, Is
  <2> QED
    BY <2>1, <2>2
<1> QED
  BY <1>2, <1>3, <1>4 DEF ToldInv

\* The cooler takes the first frame.
LEMMA GetsTells ==
  ASSUME IInv, ToldInv, UNCHANGED <<wish, cache, call>>,
         NEW result, NEW answers, DeviceGets(result, answers),
         device.took \subseteq result.took, result.sw \in SwitchDone',
         \A s \in Slots, n \in 1..2 : result.mode[s][n] \in FieldDone(s, n)',
         answers = <<>> \/ \E g \in Right' : answers = <<g>>
  PROVE  ToldInv'
<1>1. /\ device' = result /\ toDevice # <<>> /\ toDevice' = Tail(toDevice)
      /\ fromDevice' = fromDevice \o answers /\ UNCHANGED <<resp, late, reader>>
  BY DEF DeviceGets
<1>2. /\ Right \subseteq Right' /\ \A f : Seen(f) => Seen(f)'
      /\ \A c : HasIt(c) => HasIt(c)'
  BY <1>1, RightStays
<1>3. /\ resp \in Seq(Right) /\ toDevice \in Seq(Right) /\ fromDevice \in Seq(Right)
      /\ late \in [LateKeys -> Seq(Right)] /\ reader.frame \in Right
  BY DEF ToldInv, LinkTold
<1>4. resp' \in Seq(Right') /\ toDevice' \in Seq(Right') /\ fromDevice \in Seq(Right')
  BY <1>1, <1>2, <1>3, SeqGrows, Taken
<1>5. late' \in [LateKeys -> Seq(Right')]
  BY <1>1, <1>2, <1>3, SeqGrows
<1>6. fromDevice' \in Seq(Right')
  <2>1. \A g \in Right' : <<g>> \in Seq(Right')
    OBVIOUS
  <2>2. answers \in Seq(Right')
    BY <2>1, EmptySeq
  <2> QED
    BY <1>1, <1>4, <2>2, ConcatProperties
<1>7. LinkTold'
  BY <1>1, <1>2, <1>3, <1>4, <1>5, <1>6 DEF LinkTold
<1>8. \A s \in Slots : Seen(cache[s])'
  <2>1. \A s \in Slots : Seen(cache[s])
    BY DEF ToldInv
  <2> QED
    BY <1>2, <2>1 DEF Seen
<1>9. ASSUME NEW c \in Callers PROVE CallTold(c)'
  <2>1. CallTold(c)
    BY DEF ToldInv
  <2> QED
    BY <1>2, <2>1 DEF CallTold, Reads, Is
<1> QED
  BY <1>7, <1>8, <1>9 DEF ToldInv

\* What the cooler carries out was asked for by the caller its frame belongs to.
LEMMA AppliedTells ==
  ASSUME IInv, ToldInv, UNCHANGED wish, NEW f \in Good, f \in Right, device' = Applied(f)
  PROVE  /\ device.took \subseteq device'.took /\ device'.sw \in SwitchDone'
         /\ \A s \in Slots, n \in 1..2 : device'.mode[s][n] \in FieldDone(s, n)'
         /\ Answers(f) = <<>> \/ \E g \in Right' : Answers(f) = <<g>>
<1>0. /\ device \in [sw : Values, mode : [Slots -> Params],
                     stored : SUBSET (Callers \X (1..Blocks)), took : SUBSET Callers]
      /\ device.sw \in SwitchDone /\ f \in Frame
      /\ \A s \in Slots, n \in 1..2 : device.mode[s][n] \in FieldDone(s, n)
  BY DEF IInv, LinkInv, ToldInv, LinkTold, Good
<1>1. ASSUME f.cmd = "SetSwitch"
      PROVE  /\ device' = [device EXCEPT !.sw = f.val[1], !.took = device.took \cup {f.by}]
             /\ Is(f.by, "switch") /\ f.val[1] = wish[f.by].val
  BY <1>1 DEF Applied, Right
<1>2. ASSUME f.cmd = "SetRgb"
      PROVE  /\ device' = [device EXCEPT !.mode = [device.mode EXCEPT ![f.slot] = f.val],
                                         !.took = device.took \cup {f.by}]
             /\ f.slot \in Slots
             /\ \A n \in 1..2 : \/ f.val[n] \in FieldDone(f.slot, n)
                                \/ Asked(f.by, f.slot, n) /\ f.val[n] = wish[f.by].val
  <2>1. Applied(f) = [device EXCEPT !.mode[f.slot] = f.val, !.took = @ \cup {f.by}]
    BY <1>2 DEF Applied
  <2>2. f.slot \in Slots
    BY <1>2 DEF Good, Light
  <2>3. \A n \in 1..2 : \/ f.val[n] \in FieldDone(f.slot, n)
                        \/ Asked(f.by, f.slot, n) /\ f.val[n] = wish[f.by].val
    BY <1>2 DEF Right
  <2> QED
    BY <1>0, <2>1, <2>2, <2>3
<1>3. ASSUME f.cmd \notin {"SetSwitch", "SetRgb"}
      PROVE  device'.sw = device.sw /\ device'.mode = device.mode /\ device'.took = device.took
  BY <1>0, <1>3 DEF Applied
<1>4. /\ device.took \subseteq device'.took
      /\ f.cmd \in {"SetSwitch", "SetRgb"} => f.by \in device'.took
  <2>1. CASE f.cmd = "SetSwitch"
    BY <1>0, <1>1, <2>1
  <2>2. CASE f.cmd = "SetRgb"
    BY <1>0, <1>2, <2>2
  <2> QED
    BY <1>3, <2>1, <2>2
<1>5. /\ SwitchDone \subseteq SwitchDone' /\ Right \subseteq Right'
      /\ \A s, n : FieldDone(s, n) \subseteq FieldDone(s, n)'
  BY <1>4, RightStays
<1>6. device'.sw \in SwitchDone'
  <2>1. CASE f.cmd = "SetSwitch"
    <3>1. device'.sw = wish[f.by].val
      BY <1>0, <1>1, <2>1
    <3>2. Is(f.by, "switch")' /\ wish' = wish
      BY <1>1, <2>1 DEF Is
    <3> QED
      BY <1>4, <2>1, <3>1, <3>2 DEF SwitchDone
  <2>2. CASE f.cmd # "SetSwitch"
    <3>1. device'.sw = device.sw
      BY <1>0, <1>2, <1>3, <2>2
    <3> QED
      BY <1>0, <1>5, <3>1
  <2> QED
    BY <2>1, <2>2
<1>7. ASSUME NEW s \in Slots, NEW n \in 1..2 PROVE device'.mode[s][n] \in FieldDone(s, n)'
  <2>1. CASE f.cmd = "SetRgb" /\ s = f.slot
    <3>1. device'.mode[s] = f.val
      BY <1>0, <1>2, <2>1
    <3>2. CASE f.val[n] \in FieldDone(f.slot, n)
      BY <1>5, <2>1, <3>1, <3>2
    <3>3. CASE Asked(f.by, f.slot, n) /\ f.val[n] = wish[f.by].val
      <4>1. Asked(f.by, f.slot, n)' /\ f.val[n] = wish'[f.by].val
        BY <3>3 DEF Asked, Is
      <4> QED
        BY <1>4, <2>1, <3>1, <4>1 DEF FieldDone
    <3> QED
      BY <1>2, <2>1, <3>2, <3>3
  <2>2. CASE ~(f.cmd = "SetRgb" /\ s = f.slot)
    <3>1. device'.mode[s] = device.mode[s]
      <4>1. CASE f.cmd = "SetRgb"
        BY <1>0, <1>2, <2>2, <4>1
      <4>2. CASE f.cmd # "SetRgb"
        BY <1>0, <1>1, <1>3, <4>2
      <4> QED
        BY <4>1, <4>2
    <3> QED
      BY <1>0, <1>5, <3>1
  <2> QED
    BY <2>1, <2>2
<1>8. Answers(f) = <<>> \/ \E g \in Right' : Answers(f) = <<g>>
  <2>1. CASE f.cmd \in {"SetSwitch", "SetRgb", "SetPos", "Meta"}
    BY <1>5, <2>1 DEF Answers
  <2>2. CASE f.cmd = "GetSwitch"
    <3> DEFINE g == [f EXCEPT !.val = <<device.sw, 0>>]
    <3>1. Answers(f) = <<g>>
      BY <2>2 DEF Answers
    <3>2. g \in Frame /\ g.cmd = "GetSwitch" /\ g.val[1] = device.sw
      BY <1>0, <2>2 DEF Frame, Params, Values
    <3> HIDE DEF g
    <3> QED
      BY <1>0, <1>5, <3>1, <3>2 DEF Right
  <2>3. CASE f.cmd = "GetRgb"
    <3> DEFINE g == [f EXCEPT !.val = device.mode[f.slot]]
    <3>1. Answers(f) = <<g>>
      BY <2>3 DEF Answers
    <3>2. f.slot \in Slots
      BY <2>3 DEF Good, Light
    <3>3. g \in Frame /\ g.cmd = "GetRgb" /\ g.val = device.mode[f.slot] /\ g.slot = f.slot
      BY <1>0, <2>3, <3>2 DEF Frame
    <3> HIDE DEF g
    <3>4. Seen(g)
      BY <1>0, <3>2, <3>3 DEF Seen
    <3>5. g \in Right
      BY <3>3, <3>4 DEF Right
    <3> QED
      BY <1>5, <3>1, <3>5
  <2>4. CASE f.cmd = "Block"
    <3> DEFINE g == [f EXCEPT !.cmd = "Flow", !.slot = 0, !.val = Accepted]
    <3>1. Answers(f) = <<g>>
      BY <2>4 DEF Answers
    <3>2. g \in Good /\ g.cmd = "Flow"
      BY <1>0, <2>4, AnswersAreGood DEF Frame, IInv
    <3> HIDE DEF g
    <3>3. g \in Right'
      BY <3>2 DEF Good, Right
    <3> QED
      BY <3>1, <3>3
  <2>5. CASE f.cmd \notin {"SetSwitch", "SetRgb", "SetPos", "Meta", "GetSwitch", "GetRgb", "Block"}
    BY <2>5 DEF Answers
  <2> QED
    BY <2>1, <2>2, <2>3, <2>4, <2>5
<1> QED
  BY <1>4, <1>6, <1>7, <1>8

\* The reader and the cooler.
LEMMA LinkTells ==
  ASSUME IInv, ToldInv, UNCHANGED <<wish, cache, call>>, LinkSteps \/ LinkFaults
  PROVE  ToldInv'
<1>0. /\ resp \in Seq(Right) /\ toDevice \in Seq(Right) /\ fromDevice \in Seq(Right)
      /\ late \in [LateKeys -> Seq(Right)] /\ reader.frame \in Right
      /\ device.sw \in SwitchDone
      /\ \A s \in Slots, n \in 1..2 : device.mode[s][n] \in FieldDone(s, n)
      /\ NoFrame \in Right
  <2>1. NoFrame \in Frame
    BY DEF NoFrame, Frame, Params, Values
  <2> QED
    BY <2>1 DEF ToldInv, LinkTold, Right, NoFrame
<1>r. ASSUME UNCHANGED <<device, toDevice>>, resp' \in Seq(Right), fromDevice' \in Seq(Right),
             late' \in [LateKeys -> Seq(Right)], reader'.frame \in Right
      PROVE  ToldInv'
  <2>1. /\ SwitchDone' = SwitchDone /\ Right' = Right
        /\ \A s, n : FieldDone(s, n)' = FieldDone(s, n)
        /\ \A f : Seen(f)' = Seen(f)
        /\ \A d : HasIt(d)' = HasIt(d)
    BY <1>r, RightIsFixed
  <2>2. LinkTold'
    BY <1>0, <1>r, <2>1 DEF LinkTold
  <2>3. \A s \in Slots : Seen(cache[s])'
    BY <2>1 DEF ToldInv, Seen
  <2>4. \A c \in Callers : CallTold(c)'
    BY <2>1 DEF ToldInv, CallTold, Reads, Is
  <2> QED
    BY <2>2, <2>3, <2>4 DEF ToldInv
<1>1. CASE ReaderReads
  <2>1. Head(fromDevice) \in Right /\ Tail(fromDevice) \in Seq(Right)
    BY <1>0, <1>1, Taken DEF ReaderReads
  <2> QED
    BY <1>0, <1>1, <1>r, <2>1 DEF ReaderReads
<1>2. CASE ReaderDelivers
  <2>1. CASE reader.route = "resp"
    <3>1. Append(resp, reader.frame) \in Seq(Right)
      BY <1>0, Appended
    <3> QED
      BY <1>0, <1>2, <1>r, <2>1, <3>1 DEF ReaderDelivers
  <2>2. CASE reader.route # "resp"
    <3> DEFINE k == LateKey(reader.frame)
    <3>1. reader.frame \in Good /\ reader.frame.cmd \in Queries
      BY <1>2, <2>2 DEF IInv, LinkInv, ReaderDelivers
    <3>2. k \in LateKeys
      BY <3>1, LateKeyType
    <3>3. late[k] \in Seq(Right) /\ Len(late[k]) <= LateQueueCap
      BY <1>0, <3>2 DEF IInv, LinkInv
    <3>4. LatePush(late[k], reader.frame) \in Seq(Right)
      BY <1>0, <3>3, LatePushed
    <3>5. late' = [late EXCEPT ![k] = LatePush(late[k], reader.frame)]
      BY <1>2, <2>2 DEF ReaderDelivers
    <3> HIDE DEF k
    <3>6. late' \in [LateKeys -> Seq(Right)]
      BY <1>0, <3>4, <3>5
    <3> QED
      BY <1>0, <1>2, <1>r, <2>2, <3>6 DEF ReaderDelivers
  <2> QED
    BY <2>1, <2>2
<1>3. CASE DeviceAnswers \/ CommandIsLost \/ AnswerIsLost \/ BlockIsRejected
  <2> DEFINE f == Head(toDevice)
             g == [f EXCEPT !.cmd = "Flow", !.slot = 0, !.val = Rejected]
  <2>1. toDevice # <<>>
    BY <1>3 DEF DeviceAnswers, CommandIsLost, AnswerIsLost, BlockIsRejected, DeviceGets
  <2>2. f \in Good /\ f \in Right /\ LinkInv /\ f \in Frame
    BY <1>0, <2>1, Taken DEF IInv, LinkInv, Good
  <2>3. \/ DeviceGets(Applied(f), Answers(f)) \/ DeviceGets(device, <<>>)
        \/ DeviceGets(Applied(f), <<>>)
        \/ f.cmd = "Block" /\ DeviceGets(device, <<g>>)
    BY <1>3 DEF DeviceAnswers, CommandIsLost, AnswerIsLost, BlockIsRejected
  <2>4. CASE DeviceGets(device, <<>>)
    <3>1. device' = device
      BY <2>4 DEF DeviceGets
    <3>2. /\ SwitchDone \subseteq SwitchDone'
          /\ \A s, n : FieldDone(s, n) \subseteq FieldDone(s, n)'
      BY <3>1, RightStays
    <3> QED
      BY <1>0, <2>4, <3>2, GetsTells
  <2>5. CASE f.cmd = "Block" /\ DeviceGets(device, <<g>>)
    <3>1. device' = device
      BY <2>5 DEF DeviceGets
    <3>2. /\ SwitchDone \subseteq SwitchDone'
          /\ \A s, n : FieldDone(s, n) \subseteq FieldDone(s, n)'
      BY <3>1, RightStays
    <3>3. g \in Good /\ g.cmd = "Flow"
      BY <2>2, <2>5, AnswersAreGood DEF Frame
    <3> HIDE DEF g
    <3>4. g \in Right'
      BY <3>3 DEF Good, Right
    <3> QED
      BY <1>0, <2>5, <3>2, <3>4, GetsTells
  <2>6. CASE DeviceGets(Applied(f), Answers(f)) \/ DeviceGets(Applied(f), <<>>)
    <3>1. device' = Applied(f) /\ toDevice' = Tail(toDevice)
      BY <2>6 DEF DeviceGets
    <3>2. /\ device.took \subseteq Applied(f).took /\ Applied(f).sw \in SwitchDone'
          /\ \A s \in Slots, n \in 1..2 : Applied(f).mode[s][n] \in FieldDone(s, n)'
          /\ Answers(f) = <<>> \/ \E r \in Right' : Answers(f) = <<r>>
      BY <2>2, <3>1, AppliedTells
    <3> QED
      BY <2>6, <3>2, GetsTells
  <2> QED
    BY <2>3, <2>4, <2>5, <2>6
<1> QED
  BY <1>1, <1>2, <1>3 DEF LinkSteps, LinkFaults

-----------------------------------------------------------------------------
(* The callers.                                                            *)

\* Frames with nothing to be right about, and those that ask for a value.
LEMMA FrameIsRight ==
  ASSUME NEW f \in Frame
  PROVE  /\ f.cmd \notin {"GetSwitch", "GetRgb", "SetSwitch", "SetRgb"} => f \in Right
         /\ f.cmd \in {"GetSwitch", "GetRgb"} /\ f.val = <<0, 0>> => f \in Right
<1>1. 0 \in SwitchDone /\ \A s, n : 0 \in FieldDone(s, n)
  BY DEF SwitchDone, FieldDone
<1>2. f.val = <<0, 0>> => f.val[1] \in SwitchDone /\ Seen(f)
  BY <1>1 DEF Seen
<1> QED
  BY <1>2 DEF Right

\* The frames a caller writes are its own.
LEMMA FrameIsOwn ==
  ASSUME NEW c \in Callers, NEW cmd \in Commands, NEW slot \in {0} \cup Slots \cup 1..Blocks,
         NEW val \in Params
  PROVE  /\ FrameOf(c, cmd, slot, val) \in Frame /\ FrameOf(c, cmd, slot, val).cmd = cmd
         /\ FrameOf(c, cmd, slot, val).slot = slot /\ FrameOf(c, cmd, slot, val).val = val
         /\ FrameOf(c, cmd, slot, val).by = c
BY DEF FrameOf, Frame

\* What a caller remembers of its read.
LEMMA BlocksTold ==
  ASSUME IInv, ToldInv, NEW c \in Callers, call[c].pc = "answered", Lighting(c),
         Reads(c, call[c].step)
  PROVE  /\ \A s \in Slots : Seen(Remembered(c)[s])
         /\ OfOwnSlot(c) => \A n \in 1..2 : BlockRead(c).val[n] \in FieldDone(wish[c].slot, n)
<1>1. wish[c].slot \in Slots /\ cache \in [Slots -> Remembers]
  BY BlocksRemembered DEF IInv, CallsInv
<1>2. Got(c) => Seen(call[c].got)
  BY DEF Got, IInv, CallsInv, CallKnown, ToldInv, CallTold, Exchanging, Right
<1>3. \A s \in Slots : Seen(cache[s])
  BY DEF ToldInv
<1>4. \A s \in Slots : Seen(Remembered(c)[s])
  BY <1>1, <1>2, <1>3 DEF Remembered
<1>5. Seen(BlockRead(c))
  BY <1>1, <1>4 DEF BlockRead
<1> QED
  BY <1>4, <1>5 DEF Seen, OfOwnSlot

\* An exchange begins with a right frame of the caller.
LEMMA BeginTells ==
  ASSUME IInv, ToldInv, NEW c \in Callers, NEW n \in 1..3, NEW f \in Right, f.by = c,
         Is(c, "switch") /\ n = 2 => f.cmd = "GetSwitch",
         Reads(c, n) => f.cmd = "GetRgb",
         Begins(c, n, f), Between, \A s \in Slots : Seen(cache'[s])
  PROVE  ToldInv'
<1>0. PICK acked \in BOOLEAN : BeginExchange(c, n, f, acked)
  BY DEF Begins
<1>1. NoFrame \in Right /\ call \in [Callers -> CallRecords]
  <2>1. NoFrame \in Frame /\ NoFrame.cmd = "none"
    BY NoFrameIsGood DEF Good, NoFrame
  <2> QED
    BY <2>1, FrameIsRight DEF IInv, CallsInv
<1>2. /\ \A d \in Callers \ {c} : call'[d] = call[d]
      /\ call'[c].step = n /\ call'[c].frame = f /\ call'[c].got = NoFrame
      /\ call'[c].result = call[c].result
  BY <1>0, <1>1 DEF BeginExchange, CallRecords
<1>3. CallTold(c)'
  <2>1. HasIt(c)' = HasIt(c) /\ Right' = Right
    BY RightIsFixed DEF Between, deviceVars
  <2> QED
    BY <1>1, <1>2, <2>1 DEF CallTold, ToldInv, Reads, Is, Between
<1> QED
  BY <1>2, <1>3, CallerTells DEF Between, deviceVars, ToldInv, LinkTold

Closes(c, result) ==
  /\ call' = [call EXCEPT ![c].pc = "done", ![c].result = result]
  /\ result # "confirmed" \/ HasIt(c)

\* A call ends, confirmed only if the cooler has what was wished.
LEMMA EndTells ==
  ASSUME IInv, ToldInv, NEW c \in Callers, NEW result, Closes(c, result), Between,
         \A s \in Slots : Seen(cache'[s])
  PROVE  ToldInv'
<1>1. /\ \A d \in Callers \ {c} : call'[d] = call[d]
      /\ call'[c].pc = "done" /\ call'[c].result = result
      /\ call'[c].frame = call[c].frame /\ call'[c].got = call[c].got
  BY DEF IInv, CallsInv, CallRecords, Closes
<1>2. CallTold(c)'
  <2>1. HasIt(c)' = HasIt(c) /\ Right' = Right
    BY RightIsFixed DEF Between, deviceVars
  <2> QED
    BY <1>1, <2>1 DEF CallTold, ToldInv, Exchanging, Closes
<1> QED
  BY <1>1, <1>2, CallerTells DEF Between, deviceVars, ToldInv, LinkTold

\* The steps that begin an exchange or end a call.
LEMMA TurnsTell ==
  ASSUME IInv, ToldInv, NEW c \in Callers,
         \/ SwitchBegins(c) \/ SwitchWrote(c) \/ SwitchEnds(c)
         \/ LightingBegins(c) \/ EditReads(c) \/ EditWrote(c) \/ EditEnds(c)
         \/ SelectReads(c) \/ SelectEnds(c) \/ ReadEnds(c)
         \/ RestoreBegins(c) \/ RestoreEnds(c) \/ PosBegins(c) \/ PosEnds(c)
  PROVE  ToldInv'
<1>w. /\ wish[c].val \in Values /\ <<0, 0>> \in Params /\ <<wish[c].val, 0>> \in Params
      /\ <<wish[c].val, wish[c].val>> \in Params /\ wish[c].field \in 1..2
      /\ (Lighting(c) => wish[c].slot \in Slots)
  BY DEF IInv, CallsInv, Wishes, Lighting, Params, Values
<1>q. {"GetRgb", "SetRgb", "GetSwitch", "SetSwitch", "SetPos"} \subseteq Commands
  BY DEF Commands, Queries
<1>a. ASSUME NEW slot \in Slots
      PROVE  /\ FrameOf(c, "GetRgb", slot, <<0, 0>>) \in Right
             /\ FrameOf(c, "GetRgb", slot, <<0, 0>>).cmd = "GetRgb"
             /\ FrameOf(c, "GetRgb", slot, <<0, 0>>).by = c
  <2>1. "GetRgb" \in Commands /\ slot \in {0} \cup Slots \cup 1..Blocks
    BY <1>q
  <2>2. /\ FrameOf(c, "GetRgb", slot, <<0, 0>>) \in Frame
        /\ FrameOf(c, "GetRgb", slot, <<0, 0>>).cmd = "GetRgb"
        /\ FrameOf(c, "GetRgb", slot, <<0, 0>>).val = <<0, 0>>
        /\ FrameOf(c, "GetRgb", slot, <<0, 0>>).by = c
    BY <1>w, <2>1 DEF FrameOf, Frame
  <2> QED
    BY <2>2, FrameIsRight
<1>b. ASSUME NEW slot \in Slots, NEW val \in Params,
             \A n \in 1..2 : \/ val[n] \in FieldDone(slot, n)
                             \/ Asked(c, slot, n) /\ val[n] = wish[c].val
      PROVE  FrameOf(c, "SetRgb", slot, val) \in Right /\ FrameOf(c, "SetRgb", slot, val).by = c
  <2>1. "SetRgb" \in Commands /\ slot \in {0} \cup Slots \cup 1..Blocks
    BY <1>q
  <2>2. /\ FrameOf(c, "SetRgb", slot, val) \in Frame
        /\ FrameOf(c, "SetRgb", slot, val).cmd = "SetRgb"
        /\ FrameOf(c, "SetRgb", slot, val).slot = slot
        /\ FrameOf(c, "SetRgb", slot, val).val = val
        /\ FrameOf(c, "SetRgb", slot, val).by = c
    BY <2>1 DEF FrameOf, Frame
  <2>3. PICK f \in Frame : /\ f = FrameOf(c, "SetRgb", slot, val)
                          /\ f.cmd = "SetRgb" /\ f.slot = slot /\ f.val = val /\ f.by = c
    BY <2>2, Zenon
  <2>4. \A n \in 1..2 : \/ f.val[n] \in FieldDone(f.slot, n)
                        \/ (Asked(f.by, f.slot, n) /\ f.val[n] = wish[f.by].val)
    BY <1>b, <2>3, Zenon
  <2>5. f \in Right
    BY <2>3, <2>4 DEF Right
  <2> QED
    BY <2>3, <2>5
<1>g. Got(c) \in BOOLEAN /\ \A s \in Slots : Seen(cache[s])
  BY DEF Got, ToldInv
<1> USE DEF At, Answered
<1>1. CASE SwitchBegins(c)
  <2> DEFINE f == FrameOf(c, "SetSwitch", 0, <<wish[c].val, 0>>)
  <2>1. /\ f \in Frame /\ f.cmd = "SetSwitch" /\ f.val = <<wish[c].val, 0>> /\ f.by = c
    BY <1>w, <1>q, FrameIsOwn
  <2>2. Is(c, "switch") /\ Begins(c, 1, f) /\ Between /\ cache' = cache
    BY <1>1, Zenon DEF SwitchBegins, Begins
  <2> HIDE DEF f
  <2>3. f \in Right
    BY <2>1, <2>2 DEF Right
  <2> QED
    BY <1>g, <2>1, <2>2, <2>3, BeginTells DEF Reads, Is
<1>2. CASE SwitchWrote(c)
  <2> DEFINE f == FrameOf(c, "GetSwitch", 0, <<0, 0>>)
  <2>1. /\ f \in Frame /\ f.cmd = "GetSwitch" /\ f.val = <<0, 0>> /\ f.by = c
    BY <1>w, <1>q, FrameIsOwn
  <2>2. Is(c, "switch") /\ Begins(c, 2, f) /\ Between /\ cache' = cache
    BY <1>2, <1>g, Zenon DEF SwitchWrote, Begins
  <2> HIDE DEF f
  <2>3. f \in Right
    BY <2>1, FrameIsRight
  <2> QED
    BY <1>g, <2>1, <2>2, <2>3, BeginTells DEF Reads, Is
<1>3. CASE SwitchEnds(c)
  <2>1. /\ call[c].pc = "answered" /\ Is(c, "switch") /\ call[c].step = 2 /\ Between /\ cache' = cache
        /\ call' = [call EXCEPT ![c].pc = "done", ![c].result = SwitchVerdict(c)]
    BY <1>3 DEF SwitchEnds
  <2>2. Got(c) => call[c].got.val[1] \in SwitchDone
    BY <2>1 DEF Got, IInv, CallsInv, CallKnown, ToldInv, CallTold, Exchanging, Right
  <2>3. Closes(c, SwitchVerdict(c))
    BY <2>1, <2>2 DEF SwitchVerdict, HasIt, Closes
  <2> QED
    BY <1>g, <2>1, <2>3, EndTells
<1>4. CASE LightingBegins(c)
  <2>1. Lighting(c) /\ Begins(c, 1, FrameOf(c, "GetRgb", wish[c].slot, <<0, 0>>))
        /\ Between /\ cache' = cache
    BY <1>4, <1>g, Zenon DEF LightingBegins, Begins
  <2> QED
    BY <1>w, <1>a, <1>g, <2>1, BeginTells DEF Is, Lighting, LightingKinds
<1>5. CASE EditReads(c)
  <2> DEFINE block == BlockRead(c)
             val == [block.val EXCEPT ![wish[c].field] = wish[c].val]
  <2>1. Lighting(c) /\ Is(c, "edit") /\ Reads(c, call[c].step) /\ Between
        /\ call[c].pc = "answered"
    BY <1>5 DEF EditReads, Is, Lighting, LightingKinds, Reads
  <2>2. /\ wish[c].slot \in Slots /\ block.val \in Params /\ \A s \in Slots : Seen(cache'[s])
        /\ OfOwnSlot(c) => \A n \in 1..2 : block.val[n] \in FieldDone(wish[c].slot, n)
    BY <1>5, <2>1, BlocksRemembered, BlocksTold DEF EditReads
  <2>3. CASE ~OfOwnSlot(c)
    <3>1. Closes(c, "failed")
      BY <1>5, <2>3 DEF EditReads, Ends, Closes
    <3> QED
      BY <2>1, <2>2, <3>1, EndTells
  <2>4. CASE OfOwnSlot(c)
    <3>1. val \in Params
      BY <1>w, <2>2 DEF Params
    <3>2. Asked(c, wish[c].slot, wish[c].field)
      BY <2>1 DEF Asked
    <3>3. \A n \in 1..2 : \/ val[n] \in FieldDone(wish[c].slot, n)
                          \/ Asked(c, wish[c].slot, n) /\ val[n] = wish[c].val
      BY <1>w, <2>2, <2>4, <3>2 DEF Params
    <3>4. block.slot = wish[c].slot
      BY <2>4 DEF OfOwnSlot
    <3>5. Begins(c, 2, FrameOf(c, "SetRgb", wish[c].slot, val))
      BY <1>5, <2>4, <3>4, Zenon DEF EditReads, Begins
    <3> HIDE DEF val
    <3>6. /\ FrameOf(c, "SetRgb", wish[c].slot, val) \in Right
          /\ FrameOf(c, "SetRgb", wish[c].slot, val).by = c
      BY <1>b, <2>2, <3>1, <3>3
    <3> QED
      BY <2>1, <2>2, <3>5, <3>6, BeginTells DEF Reads, Is
  <2> QED
    BY <2>3, <2>4
<1>6. CASE EditWrote(c)
  <2>1. Lighting(c) /\ Is(c, "edit") /\ Begins(c, 3, FrameOf(c, "GetRgb", wish[c].slot, <<0, 0>>))
        /\ Between /\ cache' = cache
    BY <1>6, <1>g, Zenon DEF EditWrote, Begins, Is, Lighting, LightingKinds
  <2> QED
    BY <1>w, <1>a, <1>g, <2>1, BeginTells DEF Is
<1>7. CASE EditEnds(c)
  <2>1. Lighting(c) /\ Is(c, "edit") /\ Reads(c, call[c].step) /\ Between
        /\ call[c].pc = "answered"
    BY <1>7 DEF EditEnds, Is, Lighting, LightingKinds, Reads
  <2>2. /\ \A s \in Slots : Seen(cache'[s])
        /\ OfOwnSlot(c) => \A n \in 1..2 : BlockRead(c).val[n] \in FieldDone(wish[c].slot, n)
    BY <1>7, <2>1, BlocksTold DEF EditEnds
  <2>3. Verified(c) => HasIt(c)
    BY <1>w, <2>1, <2>2 DEF Verified, HasIt, Asked
  <2> DEFINE result == IF BlockRead(c) = NoFrame
                       THEN IF call[c].acked THEN "acked" ELSE "failed"
                       ELSE IF Verified(c) THEN "confirmed" ELSE "failed"
  <2>4. Closes(c, result)
    BY <1>7, <2>3 DEF EditEnds, Ends, Closes
  <2> HIDE DEF result
  <2> QED
    BY <2>1, <2>2, <2>4, EndTells
<1>8. CASE SelectReads(c)
  <2> DEFINE block == BlockRead(c)
  <2>1. Lighting(c) /\ Is(c, "select") /\ Reads(c, call[c].step) /\ Between
        /\ call[c].pc = "answered"
    BY <1>8 DEF SelectReads, Is, Lighting, LightingKinds, Reads
  <2>2. /\ wish[c].slot \in Slots /\ block.val \in Params /\ \A s \in Slots : Seen(cache'[s])
        /\ OfOwnSlot(c) => \A n \in 1..2 : block.val[n] \in FieldDone(wish[c].slot, n)
    BY <1>8, <2>1, BlocksRemembered, BlocksTold DEF SelectReads
  <2>3. CASE ~OfOwnSlot(c)
    <3>1. Closes(c, "failed")
      BY <1>8, <2>3 DEF SelectReads, Ends, Closes
    <3> QED
      BY <2>1, <2>2, <3>1, EndTells
  <2>4. CASE OfOwnSlot(c)
    <3>1. block.slot = wish[c].slot
      BY <2>4 DEF OfOwnSlot
    <3>2. Begins(c, 2, FrameOf(c, "SetRgb", wish[c].slot, block.val))
      BY <1>8, <2>4, <3>1, Zenon DEF SelectReads, Begins
    <3>3. /\ FrameOf(c, "SetRgb", wish[c].slot, block.val) \in Right
          /\ FrameOf(c, "SetRgb", wish[c].slot, block.val).by = c
      BY <1>b, <2>2, <2>4
    <3> QED
      BY <2>1, <2>2, <3>2, <3>3, BeginTells DEF Reads, Is
  <2> QED
    BY <2>3, <2>4
<1>9. CASE SelectEnds(c)
  <2>1. Lighting(c) /\ Is(c, "select") /\ call[c].pc = "answered" /\ Between
    BY <1>9 DEF SelectEnds, Is, Lighting, LightingKinds
  <2>2. call[c].frame \in Right /\ call[c].frame.cmd \in Light /\ call[c].frame.by = c
    BY <2>1 DEF ToldInv, CallTold, IInv, CallsInv, CallKnown, Exchanging
  <2>3. Seen(call[c].frame)
    <3>1. \A s, n : ~Asked(c, s, n)
      BY <2>1 DEF Asked, Is
    <3> QED
      BY <2>2, <3>1 DEF Right, Seen, Light
  <2>4. \A s \in Slots : Seen(cache'[s])
    BY <1>9, <1>g, <2>3 DEF SelectEnds, IInv, CallsInv
  <2>5. Closes(c, IF Got(c) THEN "acked" ELSE "failed")
    BY <1>9 DEF SelectEnds, Ends, Closes
  <2> QED
    BY <2>1, <2>4, <2>5, EndTells
<1>10. CASE ReadEnds(c) \/ PosEnds(c)
  <2>1. Between /\ \A s \in Slots : Seen(cache'[s])
    BY <1>10, <1>g DEF ReadEnds, PosEnds
  <2>2. \E result : Closes(c, result)
    <3>1. CASE ReadEnds(c)
      <4>1. Closes(c, IF Got(c) THEN "read" ELSE "failed")
        BY <3>1 DEF ReadEnds, Ends, Closes
      <4> QED
        BY <4>1
    <3>2. CASE PosEnds(c)
      <4>1. Closes(c, IF Got(c) THEN "acked" ELSE "failed")
        BY <3>2 DEF PosEnds, Ends, Closes
      <4> QED
        BY <4>1
    <3> QED
      BY <1>10, <3>1, <3>2
  <2> QED
    BY <2>1, <2>2, EndTells
<1>11. CASE RestoreBegins(c)
  <2> DEFINE val == <<wish[c].val, wish[c].val>>
  <2>1. /\ Lighting(c) /\ Is(c, "restore") /\ Between /\ cache' = cache
        /\ Begins(c, 1, FrameOf(c, "SetRgb", wish[c].slot, val))
    BY <1>11, Zenon DEF RestoreBegins, Begins, Is, Lighting, LightingKinds
  <2>2. \A n \in 1..2 : Asked(c, wish[c].slot, n) /\ val[n] = wish[c].val
    BY <2>1 DEF Asked
  <2>3. val \in Params
    BY <1>w
  <2> HIDE DEF val
  <2>4. /\ FrameOf(c, "SetRgb", wish[c].slot, val) \in Right
        /\ FrameOf(c, "SetRgb", wish[c].slot, val).by = c
    BY <1>w, <1>b, <2>1, <2>2, <2>3
  <2> QED
    BY <1>g, <2>1, <2>4, BeginTells DEF Reads, Is
<1>12. CASE RestoreEnds(c)
  <2>1. Lighting(c) /\ Is(c, "restore") /\ Reads(c, call[c].step) /\ Between
        /\ call[c].pc = "answered"
    BY <1>12 DEF RestoreEnds, Is, Lighting, LightingKinds, Reads
  <2>2. /\ \A s \in Slots : Seen(cache'[s])
        /\ OfOwnSlot(c) => \A n \in 1..2 : BlockRead(c).val[n] \in FieldDone(wish[c].slot, n)
    BY <1>12, <2>1, BlocksTold DEF RestoreEnds
  <2>3. OfOwnSlot(c) /\ BlockRead(c).val = <<wish[c].val, wish[c].val>> => HasIt(c)
    <3>1. Asked(c, wish[c].slot, 1) /\ 1 \in 1..2
      BY <2>1 DEF Asked
    <3>2. <<wish[c].val, wish[c].val>>[1] = wish[c].val
      OBVIOUS
    <3> QED
      BY <2>2, <3>1, <3>2 DEF HasIt
  <2> DEFINE result == IF OfOwnSlot(c) /\ BlockRead(c).val = <<wish[c].val, wish[c].val>>
                       THEN "confirmed" ELSE "failed"
  <2>4. Closes(c, result)
    BY <1>12, <2>3 DEF RestoreEnds, Ends, Closes
  <2> HIDE DEF result
  <2> QED
    BY <2>1, <2>2, <2>4, EndTells
<1>13. CASE PosBegins(c)
  <2> DEFINE f == FrameOf(c, "SetPos", 0, <<0, 0>>)
  <2>1. /\ f \in Frame /\ f.cmd = "SetPos" /\ f.by = c
    BY <1>w, <1>q, FrameIsOwn
  <2>2. Is(c, "pos") /\ Begins(c, 1, f) /\ Between /\ cache' = cache
    BY <1>13, Zenon DEF PosBegins, Begins
  <2> HIDE DEF f
  <2>3. f \in Right
    BY <2>1, FrameIsRight
  <2> QED
    BY <1>g, <2>1, <2>2, <2>3, BeginTells DEF Reads, Is
<1> QED
  BY <1>1, <1>2, <1>3, <1>4, <1>5, <1>6, <1>7, <1>8, <1>9, <1>10, <1>11, <1>12, <1>13

\* A caller that keeps its step, its frame and its result, and what it receives is right.
LEMMA MoveTells ==
  ASSUME IInv, ToldInv, NEW c \in Callers, call[c].pc \in Exchanging,
         UNCHANGED <<wish, device, reader, fromDevice, cache>>,
         resp' \in Seq(Right), toDevice' \in Seq(Right), late' \in [LateKeys -> Seq(Right)],
         \A d \in Callers \ {c} : call'[d] = call[d],
         call'[c].step = call[c].step, call'[c].frame = call[c].frame,
         call'[c].got \in Right, call'[c].result = call[c].result
  PROVE  ToldInv'
<1>1. CallTold(c)'
  <2>1. HasIt(c)' = HasIt(c) /\ Right' = Right
    BY RightIsFixed
  <2> QED
    BY <2>1 DEF CallTold, ToldInv, Reads, Is
<1> QED
  BY <1>1, CallerTells DEF ToldInv

\* The steps of an exchange on the bus, and the one frame sent without one.
LEMMA ExchangeTells ==
  ASSUME IInv, ToldInv, NEW c \in Callers,
         \/ Enters(c) \/ Declares(c) \/ Sends(c) \/ SendFails(c) \/ TakesAnswer(c) \/ TimesOut(c)
         \/ RestoreWrites(c) \/ RestoreFails(c) \/ PushesInfo(c)
  PROVE  ToldInv'
<1> DEFINE f == call[c].frame
<1>t. /\ call \in [Callers -> CallRecords] /\ f \in Good /\ f \in Right /\ call[c].got \in Right
      /\ resp \in Seq(Right) /\ toDevice \in Seq(Right) /\ late \in [LateKeys -> Seq(Right)]
      /\ <<>> \in Seq(Right) /\ CallTold(c) /\ \A s \in Slots : Seen(cache[s])
  BY EmptySeq DEF IInv, CallsInv, CallRecords, ToldInv, LinkTold, CallTold
<1>1. CASE Enters(c)
  <2> DEFINE q == IF f.cmd \in Queries THEN late[LateKey(f)] ELSE <<>>
  <2>0. /\ call[c].pc \in Exchanging /\ resp' = <<>>
        /\ UNCHANGED <<wish, device, reader, fromDevice, toDevice, cache>>
    BY <1>1 DEF Enters, At, deviceVars, Exchanging
  <2>1. PICK expired \in 0..Len(q) :
          IF expired < Len(q)
          THEN /\ late' = [late EXCEPT ![LateKey(f)] = SubSeq(q, expired + 2, Len(q))]
               /\ wire' = Released /\ mutex' = Nobody
               /\ call' = [call EXCEPT ![c].pc = "answered", ![c].got = q[expired + 1]]
          ELSE /\ late' = IF q = <<>> THEN late ELSE [late EXCEPT ![LateKey(f)] = <<>>]
               /\ Goes(c, "declare") /\ UNCHANGED <<wire, mutex>>
    BY <1>1 DEF Enters
  <2>2. CASE expired < Len(q)
    <3>1. f.cmd \in Queries /\ q = late[LateKey(f)]
      BY <2>1, <2>2, EmptySeq
    <3>2. LateKey(f) \in LateKeys /\ q \in Seq(Right) /\ Len(q) \in Nat
      BY <1>t, <3>1, LateKeyType, LenProperties
    <3> HIDE DEF q
    <3>3. expired + 1 \in 1..Len(q) /\ expired + 2 \in Int /\ Len(q) \in Int /\ expired \in Nat
      BY <2>1, <2>2, <3>2
    <3>4. \A i \in expired + 2 .. Len(q) : q[i] \in Right
      BY <3>2, <3>3, ElementOfSeq
    <3>5. SubSeq(q, expired + 2, Len(q)) \in Seq(Right)
      BY <3>3, <3>4, SubSeqProperties
    <3>6. q[expired + 1] \in Right
      BY <3>2, <3>3, ElementOfSeq
    <3>7. /\ late' = [late EXCEPT ![LateKey(f)] = SubSeq(q, expired + 2, Len(q))]
          /\ call' = [call EXCEPT ![c].pc = "answered", ![c].got = q[expired + 1]]
      BY <2>1, <2>2
    <3>8. late' \in [LateKeys -> Seq(Right)]
      BY <1>t, <3>2, <3>5, <3>7
    <3>9. /\ \A d \in Callers \ {c} : call'[d] = call[d]
          /\ call'[c].got = q[expired + 1] /\ call'[c].frame = f
          /\ call'[c].step = call[c].step /\ call'[c].result = call[c].result
      BY <1>t, <3>7, ZenonT(60) DEF CallRecords
    <3> QED
      BY <1>t, <2>0, <3>6, <3>8, <3>9, MoveTells
  <2>3. CASE ~(expired < Len(q))
    <3>1. /\ late' = (IF q = <<>> THEN late ELSE [late EXCEPT ![LateKey(f)] = <<>>])
          /\ Goes(c, "declare")
      BY <2>1, <2>3
    <3>2. late' \in [LateKeys -> Seq(Right)]
      <4>1. CASE q = <<>>
        BY <1>t, <3>1, <4>1
      <4>2. CASE q # <<>>
        <5>1. LateKey(f) \in LateKeys
          BY <1>t, <4>2, LateKeyType
        <5> QED
          BY <1>t, <3>1, <4>2, <5>1
      <4> QED
        BY <4>1, <4>2
    <3>3. /\ \A d \in Callers \ {c} : call'[d] = call[d]
          /\ call'[c].got = call[c].got /\ call'[c].frame = f
          /\ call'[c].step = call[c].step /\ call'[c].result = call[c].result
      BY <3>1, Moved DEF IInv, Labels
    <3> QED
      BY <1>t, <2>0, <3>2, <3>3, MoveTells
  <2> QED
    BY <2>2, <2>3
<1>2. CASE Declares(c) \/ SendFails(c) \/ TimesOut(c)
  <2>1. \/ Goes(c, "send") \/ Goes(c, "answered")
    BY <1>2 DEF Declares, SendFails, TimesOut
  <2>2. /\ \A d \in Callers \ {c} : call'[d] = call[d]
        /\ call'[c].got = call[c].got /\ call'[c].frame = f
        /\ call'[c].step = call[c].step /\ call'[c].result = call[c].result
    BY <2>1, Moved DEF IInv, Labels
  <2>3. /\ call[c].pc \in Exchanging
        /\ UNCHANGED <<wish, device, reader, fromDevice, cache, resp, toDevice, late>>
    BY <1>2 DEF Declares, SendFails, TimesOut, At, Exchanging, deviceVars
  <2> QED
    BY <1>t, <2>2, <2>3, MoveTells
<1>3. CASE Sends(c)
  <2>1. /\ \A d \in Callers \ {c} : call'[d] = call[d]
        /\ call'[c].got = call[c].got /\ call'[c].frame = f
        /\ call'[c].step = call[c].step /\ call'[c].result = call[c].result
    BY <1>3, Moved DEF Sends, IInv, Labels
  <2>2. /\ call[c].pc \in Exchanging /\ toDevice' = Append(toDevice, f)
        /\ UNCHANGED <<wish, device, reader, fromDevice, cache, resp, late>>
    BY <1>3 DEF Sends, At, Exchanging, deviceVars
  <2>3. toDevice' \in Seq(Right)
    BY <1>t, <2>2, Appended
  <2> QED
    BY <1>t, <2>1, <2>2, <2>3, MoveTells
<1>4. CASE TakesAnswer(c)
  <2>1. /\ call[c].pc = "wait" /\ resp # <<>> /\ resp' = Tail(resp)
        /\ UNCHANGED <<wish, device, reader, fromDevice, late, toDevice, cache>>
    BY <1>4 DEF TakesAnswer, At, deviceVars
  <2>2. Tail(resp) \in Seq(Right) /\ Head(resp) \in Right
    BY <1>t, <2>1, Taken
  <2>3. /\ \A d \in Callers \ {c} : call'[d] = call[d]
        /\ call'[c].got \in Right /\ call'[c].frame = f
        /\ call'[c].step = call[c].step /\ call'[c].result = call[c].result
    <3>1. CASE call' = [call EXCEPT ![c].pc = "answered", ![c].got = Head(resp)]
      BY <1>t, <2>2, <3>1 DEF CallRecords
    <3>2. CASE call' = call
      BY <1>t, <3>2
    <3> QED
      BY <1>4, <3>1, <3>2 DEF TakesAnswer
  <2> QED
    BY <1>t, <2>1, <2>2, <2>3, MoveTells DEF Exchanging
<1>5. CASE RestoreWrites(c)
  <2> DEFINE g == FrameOf(c, "GetRgb", wish[c].slot, <<0, 0>>)
  <2>1. /\ call[c].pc = "queued" /\ Is(c, "restore")
        /\ toDevice' = Append(toDevice, f)
        /\ call' = [call EXCEPT ![c].step = 2, ![c].frame = g]
        /\ UNCHANGED <<wish, device, reader, fromDevice, resp, late, cache>>
    BY <1>5 DEF RestoreWrites, WritesOnly, At, deviceVars
  <2>2. toDevice' \in Seq(Right)
    BY <1>t, <2>1, Appended
  <2>3. g \in Frame /\ g.cmd = "GetRgb" /\ g.val = <<0, 0>> /\ g.by = c
    <3>1. <<0, 0>> \in Params /\ "GetRgb" \in Commands
      BY DEF Commands, Queries, Params, Values
    <3>2. wish[c].slot \in {0} \cup Slots
      BY DEF IInv, CallsInv, Wishes
    <3> QED
      BY <3>1, <3>2 DEF FrameOf, Frame
  <2> HIDE DEF g
  <2>4. g \in Right
    BY <2>3, FrameIsRight
  <2>5. /\ \A d \in Callers \ {c} : call'[d] = call[d]
        /\ call'[c].got = call[c].got /\ call'[c].frame = g /\ call'[c].step = 2
        /\ call'[c].result = call[c].result
    BY <1>t, <2>1 DEF CallRecords
  <2>6. CallTold(c)'
    <3>1. HasIt(c)' = HasIt(c) /\ Right' = Right
      BY <2>1, RightIsFixed
    <3> QED
      BY <1>t, <2>1, <2>3, <2>4, <2>5, <3>1 DEF CallTold, Is
  <2> QED
    BY <1>t, <2>1, <2>2, <2>5, <2>6, CallerTells
<1>6. CASE RestoreFails(c)
  <2>1. /\ call' = [call EXCEPT ![c].pc = "done", ![c].result = "failed"]
        /\ UNCHANGED <<wish, device, reader, fromDevice, resp, late, toDevice, cache>>
    BY <1>6 DEF RestoreFails, deviceVars
  <2>2. /\ \A d \in Callers \ {c} : call'[d] = call[d]
        /\ call'[c].pc = "done" /\ call'[c].got = call[c].got /\ call'[c].frame = f
        /\ call'[c].result = "failed"
    BY <1>t, <2>1 DEF CallRecords
  <2>3. CallTold(c)'
    <3>1. Right' = Right
      BY <2>1, RightIsFixed
    <3> QED
      BY <1>t, <2>2, <3>1 DEF CallTold, Exchanging
  <2> QED
    BY <1>t, <2>1, <2>2, <2>3, CallerTells
<1>7. CASE PushesInfo(c)
  <2>1. /\ \A d \in Callers \ {c} : call'[d] = call[d]
        /\ call'[c].pc = "done" /\ call'[c].got = call[c].got /\ call'[c].frame = f
        /\ call'[c].step = call[c].step /\ call'[c].result = call[c].result
    BY <1>7, Moved DEF PushesInfo, IInv, Labels
  <2>2. /\ toDevice' = Append(toDevice, FrameOf(c, "Info", 0, <<0, 0>>))
        /\ UNCHANGED <<wish, device, reader, fromDevice, resp, late, cache>>
    BY <1>7 DEF PushesInfo, deviceVars
  <2>3. FrameOf(c, "Info", 0, <<0, 0>>) \in Frame /\ FrameOf(c, "Info", 0, <<0, 0>>).cmd = "Info"
    BY DEF FrameOf, Frame, Commands, Params, Values
  <2>4. toDevice' \in Seq(Right)
    BY <1>t, <2>2, <2>3, FrameIsRight, Appended
  <2>5. CallTold(c)'
    <3>1. HasIt(c)' = HasIt(c) /\ Right' = Right
      BY <2>2, RightIsFixed
    <3> QED
      BY <1>t, <2>1, <3>1 DEF CallTold, Exchanging
  <2> QED
    BY <1>t, <2>1, <2>2, <2>4, <2>5, CallerTells
<1> QED
  BY <1>1, <1>2, <1>3, <1>4, <1>5, <1>6, <1>7

\* An upload sends nothing there is to be right about and confirms nothing.
LEMMA UploadsTell ==
  ASSUME IInv, ToldInv, NEW c \in Callers, Uploads(c) \/ UploadBreaksOff(c)
  PROVE  ToldInv'
<1>t. /\ call \in [Callers -> CallRecords] /\ CallTold(c) /\ \A s \in Slots : Seen(cache[s])
      /\ resp \in Seq(Right) /\ toDevice \in Seq(Right) /\ late \in [LateKeys -> Seq(Right)]
      /\ <<>> \in Seq(Right)
  BY EmptySeq DEF IInv, CallsInv, ToldInv, LinkTold
<1>1. /\ UNCHANGED <<wish, device, reader, fromDevice, cache, late>>
      /\ resp' = resp \/ resp' = <<>> \/ (resp # <<>> /\ resp' = Tail(resp))
      /\ toDevice' = toDevice \/ (At(c, "upSend") /\ toDevice' = Append(toDevice, UploadFrame(c)))
  BY DEF Uploads, UploadBegins, UploadPrepares, UploadEnters, UploadSends, UploadMetaDone,
     UploadFlow, UploadFlowMissed, UploadBreaksOff, deviceVars, linkVars
<1>2. resp' \in Seq(Right)
  BY <1>t, <1>1, Taken
<1>3. toDevice' \in Seq(Right)
  <2>1. CASE At(c, "upSend") /\ toDevice' = Append(toDevice, UploadFrame(c))
    <3>1. /\ UploadFrame(c) \in Frame
          /\ UploadFrame(c).cmd \notin {"GetSwitch", "GetRgb", "SetSwitch", "SetRgb"}
      <4>1. UploadFrame(c).cmd \in {"Meta", "Block", "Commit"}
        BY DEF UploadFrame, FrameOf
      <4>2. UploadFrame(c) \in Frame
        BY DEF UploadFrame, FrameOf, Frame, Commands, Params, Values
      <4> QED
        BY <4>1, <4>2
    <3> QED
      BY <1>t, <2>1, <3>1, FrameIsRight, Appended
  <2> QED
    BY <1>t, <1>1, <2>1
<1>4. /\ \A d \in Callers \ {c} : call'[d] = call[d]
      /\ call'[c].frame = call[c].frame /\ call'[c].got = call[c].got
      /\ call'[c].pc \notin Exchanging
      /\ call'[c].result = call[c].result \/ call'[c].result # "confirmed"
  <2> USE DEF Exchanging
  <2>1. CASE UploadBegins(c)
    BY <1>t, <2>1 DEF UploadBegins, Goes, CallRecords
  <2>2. CASE UploadPrepares(c) \/ UploadEnters(c)
    BY <1>t, <2>2 DEF UploadPrepares, UploadEnters, Goes, CallRecords
  <2>3. CASE UploadSends(c) \/ UploadBreaksOff(c)
    BY <1>t, <2>3 DEF UploadSends, UploadBreaksOff, UploadEnds, Goes, CallRecords
  <2>4. CASE UploadMetaDone(c)
    BY <1>t, <2>4 DEF UploadMetaDone, UploadGoesOn, CallRecords
  <2>5. CASE UploadFlow(c)
    BY <1>t, <2>5 DEF UploadFlow, UploadGoesOn, UploadRepeats, CallRecords
  <2>6. CASE UploadFlowMissed(c)
    BY <1>t, <2>6 DEF UploadFlowMissed, UploadGoesOn, UploadRepeats, CallRecords
  <2> QED
    BY <2>1, <2>2, <2>3, <2>4, <2>5, <2>6 DEF Uploads
<1>5. CallTold(c)'
  <2>1. HasIt(c)' = HasIt(c) /\ Right' = Right
    BY <1>1, RightIsFixed
  <2> QED
    BY <1>t, <1>4, <2>1 DEF CallTold
<1> QED
  BY <1>t, <1>1, <1>2, <1>3, <1>4, <1>5, CallerTells

LEMMA ToldStarts == Init => ToldInv
<1> SUFFICES ASSUME Init PROVE ToldInv
  OBVIOUS
<1>1. NoFrame \in Right
  <2>1. NoFrame \in Frame /\ NoFrame.cmd = "none"
    BY DEF NoFrame, Frame, Params, Values
  <2> QED
    BY <2>1, FrameIsRight
<1>2. 0 \in SwitchDone /\ \A s, n : 0 \in FieldDone(s, n)
  BY DEF SwitchDone, FieldDone
<1>3. LinkTold
  <2>1. <<>> \in Seq(Right)
    BY EmptySeq
  <2> QED
    BY <1>1, <1>2, <2>1 DEF Init, LinkInit, LinkTold
<1>4. \A s \in Slots : Seen(cache[s])
  BY <1>2 DEF Init, Seen, NoFrame
<1>5. \A c \in Callers : CallTold(c)
  BY <1>1 DEF Init, CallTold, Exchanging
<1> QED
  BY <1>3, <1>4, <1>5 DEF ToldInv

LEMMA StepTells == IInv /\ ToldInv /\ [Next]_vars => ToldInv'
<1> SUFFICES ASSUME IInv, ToldInv, [Next]_vars PROVE ToldInv'
  OBVIOUS
<1>1. CASE Link \/ Losses
  BY <1>1, LinkTells DEF Link, Losses
<1>2. ASSUME NEW c \in Callers, Exchanges(c) \/ SendFails(c) \/ RestoreFails(c)
      PROVE  ToldInv'
  BY <1>2, TurnsTell, ExchangeTells DEF Exchanges
<1>3. ASSUME NEW c \in Callers, Uploads(c) \/ UploadBreaksOff(c) PROVE ToldInv'
  BY <1>3, UploadsTell
<1>4. CASE UNCHANGED vars
  <2>1. UNCHANGED <<wish, device, resp, toDevice, fromDevice, late, reader, cache, call>>
    BY <1>4 DEF vars, linkVars
  <2>2. /\ SwitchDone' = SwitchDone /\ Right' = Right
        /\ \A s, n : FieldDone(s, n)' = FieldDone(s, n)
        /\ \A f : Seen(f)' = Seen(f)
        /\ \A c : HasIt(c)' = HasIt(c)
    BY <2>1, RightIsFixed
  <2>3. LinkTold'
    BY <2>1, <2>2 DEF ToldInv, LinkTold
  <2>4. \A s \in Slots : Seen(cache[s])'
    BY <2>1, <2>2 DEF ToldInv, Seen
  <2>5. \A c \in Callers : CallTold(c)'
    BY <2>1, <2>2 DEF ToldInv, CallTold, Reads, Is
  <2> QED
    BY <2>3, <2>4, <2>5 DEF ToldInv
<1> QED
  BY <1>1, <1>2, <1>3, <1>4 DEF Next, Progress, Breaks

\* Every value on its way was carried out for who asked for it, or is a write of
\* who asks for it: nothing is reported as read from the cooler that never was on it
\* (blackSharkQueryRgbBlockLocked, setBlackSharkSwitchLocked, the late answers).
THEOREM ReadsAreTold == Spec => []ToldInv
BY ToldStarts, StepTells, WireOrder, PTL DEF Spec

\* A switch, an edit or a restored block that the user is told is confirmed was
\* carried out for this call or for one that wished the same, or is what the cooler
\* had from the start, whatever was lost, came late or was remembered
\* (decideBlackSharkSwitchVerification, verifyBlackSharkRgbModeEdit).
THEOREM ConfirmedWasDone == Spec => []ConfirmedIsDone
<1>1. IInv /\ ToldInv => ConfirmedIsDone
  <2> SUFFICES ASSUME IInv, ToldInv, NEW c \in Callers,
                      call[c].result = "confirmed", wish[c].val # 0
               PROVE  \E d \in device.took : Alike(wish[c], wish[d])
    BY DEF ConfirmedIsDone
  <2>1. HasIt(c)
    BY DEF ToldInv, CallTold
  <2>2. CASE Is(c, "switch") /\ wish[c].val \in SwitchDone
    <3>1. PICK d \in device.took : Is(d, "switch") /\ wish[d].val = wish[c].val
      BY <2>2 DEF SwitchDone
    <3> QED
      BY <2>2, <3>1 DEF Alike, Is
  <2>3. ASSUME NEW n \in 1..2, Asked(c, wish[c].slot, n),
               wish[c].val \in FieldDone(wish[c].slot, n)
        PROVE  \E d \in device.took : Alike(wish[c], wish[d])
    <3>1. PICK d \in device.took : Asked(d, wish[c].slot, n) /\ wish[d].val = wish[c].val
      BY <2>3 DEF FieldDone
    <3> QED
      BY <2>3, <3>1 DEF Alike, Asks, Asked, Is
  <2> QED
    BY <2>1, <2>2, <2>3 DEF HasIt
<1> QED
  BY <1>1, WireOrder, ReadsAreTold, PTL

=============================================================================
