------------------------------ MODULE WireLink ------------------------------
(***************************************************************************)
(* The bus to a Black Shark cooler (device/blackshark_hid.go): the         *)
(* first-come-first-served lock of blackSharkWire, the command an exchange *)
(* awaits, the channels the reader fills, the store of late answers, and   *)
(* the cooler at the other end.                                            *)
(*                                                                         *)
(* Frames carry no sequence number: an answer repeats the command, and for *)
(* a lighting block the slot it describes.  A frame here also has a field  *)
(* "by", the caller whose request it belongs to; only properties read it.  *)
(* Lost frames, late answers and rejected blocks share one bound.          *)
(***************************************************************************)
EXTENDS Naturals, Sequences

CONSTANTS
  Callers, Nobody,     \* goroutines that use the bus; no holder
  Slots,               \* lighting modes of the cooler
  Blocks,              \* data blocks of one image
  LateQueueCap,        \* blackSharkLateQueueCap
  MaxFaults            \* bound: frames lost, answers late, blocks rejected

ASSUME CallerAssumption == Nobody \notin Callers
ASSUME SlotAssumption == Slots \subseteq Nat \ {0} /\ Blocks \in Nat \ {0}
ASSUME BoundAssumption == LateQueueCap \in Nat \ {0} /\ MaxFaults \in Nat

VARIABLES
  wire,        \* tickets of blackSharkWire in order; the first one is inside
  await,       \* link.awaitCmd
  resp,        \* link.blackSharkResp
  late,        \* link.lateResp: per key, the late answers
  flow,        \* link.imageFlow: flow answers of the upload
  flowing,     \* is there such a channel?
  reader,      \* the reader: [route, frame], a frame it is about to deliver
  toDevice,    \* frames on their way to the cooler
  fromDevice,  \* frames on their way back
  device,      \* the cooler: [sw, mode, stored, took]
  faults       \* faults so far

linkVars == <<wire, await, resp, late, flow, flowing, reader, toDevice,
              fromDevice, device, faults>>

Queries == {"GetSwitch", "GetRgb"}
Commands == Queries \cup {"SetSwitch", "SetRgb", "SetPos", "Info", "Meta", "Block", "Commit"}
Values == 0..2
Params == Values \X Values  \* a switch is <<v, 0>>, a lighting block <<speed, hue>>
Frame == [cmd : Commands \cup {"Flow", "none"}, slot : {0} \cup Slots \cup 1..Blocks,
          val : Params, by : Callers \cup {Nobody}]
NoFrame == [cmd |-> "none", slot |-> 0, val |-> <<0, 0>>, by |-> Nobody]
Accepted == <<0, 0>>
Rejected == <<1, 0>>

(* Late answers are kept per command and, for a lighting block, its slot.  *)
(* Those to writes are kept too, but nobody ever takes one.                *)
LateKeys == {0} \cup Slots
LateKey(f) == IF f.cmd = "GetRgb" THEN f.slot ELSE 0

LinkTypeOK ==
  /\ wire \in Seq(Callers) /\ await \in Commands \cup {"none"}
  /\ resp \in Seq(Frame) /\ flow \in Seq(Params) /\ flowing \in BOOLEAN
  /\ late \in [LateKeys -> Seq(Frame)]
  /\ \A k \in LateKeys : Len(late[k]) <= LateQueueCap
  /\ reader \in [route : {"none", "resp", "late"}, frame : Frame]
  /\ toDevice \in Seq(Frame) /\ fromDevice \in Seq(Frame)
  /\ device \in [sw : Values, mode : [Slots -> Params],
                 stored : SUBSET (Callers \X (1..Blocks)), took : SUBSET Callers]
  /\ faults \in 0..MaxFaults

LinkInit ==
  /\ wire = <<>> /\ await = "none" /\ resp = <<>> /\ flow = <<>> /\ flowing = FALSE
  /\ late = [k \in LateKeys |-> <<>>]
  /\ reader = [route |-> "none", frame |-> NoFrame]
  /\ toDevice = <<>> /\ fromDevice = <<>>
  /\ device = [sw |-> 0, mode |-> [s \in Slots |-> <<0, 0>>], stored |-> {}, took |-> {}]
  /\ faults = 0

Faulty == faults < MaxFaults /\ faults' = faults + 1

(* Whose turn it is on the bus; the turn of the next ticket.               *)
Inside(c) == wire # <<>> /\ Head(wire) = c
Released == Tail(wire)
(* No answer to command k can still come. *)
Silent(k) ==
  /\ \A i \in 1..Len(toDevice) : toDevice[i].cmd # k
  /\ \A i \in 1..Len(fromDevice) : fromDevice[i].cmd # k
  /\ reader.frame.cmd # k
----------------------------------------------------------------------------
(* The reader.  It looks at the awaited command, then delivers: to the     *)
(* exchange that waits, or to the store of late answers.                   *)

ReaderReads ==
  /\ reader.route = "none" /\ fromDevice # <<>>
  /\ LET f == Head(fromDevice)
         route == IF f.cmd = await THEN "resp"
                  ELSE IF f.cmd \in Queries THEN "late" ELSE "none"
     IN /\ reader' = [route |-> route, frame |-> IF route = "none" THEN NoFrame ELSE f]
        /\ flow' = IF f.cmd = "Flow" /\ flowing THEN Append(flow, f.val) ELSE flow
  /\ fromDevice' = Tail(fromDevice)
  /\ UNCHANGED <<wire, await, resp, late, flowing, toDevice, device, faults>>

(* A full queue loses its oldest answer. *)
LatePush(q, f) == Append(IF Len(q) >= LateQueueCap THEN Tail(q) ELSE q, f)

ReaderDelivers ==
  /\ reader.route # "none"
  /\ LET f == reader.frame IN
       IF reader.route = "resp"
       THEN resp' = Append(resp, f) /\ late' = late
       ELSE resp' = resp /\ late' = [late EXCEPT ![LateKey(f)] = LatePush(@, f)]
  /\ reader' = [route |-> "none", frame |-> NoFrame]
  /\ UNCHANGED <<wire, await, flow, flowing, toDevice, fromDevice, device, faults>>
----------------------------------------------------------------------------
(* The cooler carries out its commands in order and answers each of them,  *)
(* host information and the commit of an image excepted.                   *)

Applied(f) ==
  CASE f.cmd = "SetSwitch" -> [device EXCEPT !.sw = f.val[1], !.took = @ \cup {f.by}]
    [] f.cmd = "SetRgb" -> [device EXCEPT !.mode[f.slot] = f.val, !.took = @ \cup {f.by}]
    [] f.cmd = "Block" -> [device EXCEPT !.stored = @ \cup {<<f.by, f.slot>>}]
    [] OTHER -> device

Answers(f) ==
  CASE f.cmd \in {"SetSwitch", "SetRgb", "SetPos", "Meta"} -> <<f>>
    [] f.cmd = "GetSwitch" -> <<[f EXCEPT !.val = <<device.sw, 0>>]>>
    [] f.cmd = "GetRgb" -> <<[f EXCEPT !.val = device.mode[f.slot]]>>
    [] f.cmd = "Block" -> <<[f EXCEPT !.cmd = "Flow", !.slot = 0, !.val = Accepted]>>
    [] OTHER -> <<>>

DeviceGets(result, answers) ==
  /\ toDevice # <<>> /\ toDevice' = Tail(toDevice)
  /\ device' = result /\ fromDevice' = fromDevice \o answers
  /\ UNCHANGED <<wire, await, resp, late, flow, flowing, reader>>

DeviceAnswers ==
  toDevice # <<>> /\ LET f == Head(toDevice) IN
    DeviceGets(Applied(f), Answers(f)) /\ UNCHANGED faults

CommandIsLost == Faulty /\ DeviceGets(device, <<>>)

AnswerIsLost ==
  toDevice # <<>> /\ LET f == Head(toDevice) IN
    Answers(f) # <<>> /\ Faulty /\ DeviceGets(Applied(f), <<>>)

BlockIsRejected ==
  toDevice # <<>> /\ LET f == Head(toDevice) IN
    /\ f.cmd = "Block" /\ Faulty
    /\ DeviceGets(device, <<[f EXCEPT !.cmd = "Flow", !.slot = 0, !.val = Rejected]>>)

LinkSteps == ReaderReads \/ ReaderDelivers \/ DeviceAnswers
LinkFaults == CommandIsLost \/ AnswerIsLost \/ BlockIsRejected
=============================================================================
