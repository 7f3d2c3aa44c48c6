-------------------------------- MODULE Wire --------------------------------
(***************************************************************************)
(* The goroutines that talk to a Black Shark cooler: switches, lighting    *)
(* edits and selections, reads, the periodic host information, and the     *)
(* upload of an image (device/blackshark_hid.go, blackshark_hid_windows.go *)
(* and the transfer registry of coreapp/blackshark.go).                    *)
(*                                                                         *)
(* An exchange begins under m.mutex: the caller waits for its turn on the  *)
(* bus, clears old answers, looks for a late one, declares what it awaits  *)
(* and sends.  It waits for the answer without m.mutex but on the bus.     *)
(* The lighting functions then take m.mutex again; the switch does not.    *)
(* An upload stays on the bus for all its frames and leaves m.mutex alone. *)
(***************************************************************************)
EXTENDS WireLink

CONSTANTS
  Mixes,       \* what the callers may ask for, all at once: functions on Callers
  MaxResends   \* blackSharkImageFlowMaxResend

Kinds == {"none", "switch", "edit", "select", "read", "restore", "pos",
          "push", "image"}
LightingKinds == {"edit", "select", "read", "restore"}
(* The lighting functions refuse a slot the cooler does not have. *)
Wishes ==
  {w \in [kind : Kinds, slot : {0} \cup Slots, field : 1..2, val : Values] :
     w.kind \in LightingKinds => w.slot \in Slots}

ASSUME ResendAssumption == MaxResends \in Nat
ASSUME MixesAssumption == Mixes \subseteq [Callers -> Wishes]

VARIABLES
  wish,       \* per caller: [kind, slot, field, val]
  mutex,      \* holder of m.mutex across steps
  cache,      \* link.rgbBlocks: per slot, the last block read
  uploading,  \* blackSharkImageTransfers: the transfer under way
  call        \* per caller: [pc, step, frame, got, acked, resends, missed, result]

vars == <<linkVars, wish, mutex, cache, uploading, call>>

Labels == {"idle", "queued", "declare", "send", "wait", "answered",
           "prepare", "upQueued", "upSend", "upMeta", "upFlow", "done"}
Results == {"none", "confirmed", "acked", "read", "ok", "failed", "refused"}

TypeOK ==
  /\ LinkTypeOK
  /\ wish \in [Callers -> Wishes]
  /\ mutex \in Callers \cup {Nobody} /\ uploading \in Callers \cup {Nobody}
  /\ cache \in [Slots -> Frame]
  /\ call \in [Callers ->
       [pc : Labels, step : 0..Blocks + 3, frame : Frame, got : Frame, acked : BOOLEAN,
        resends : 0..MaxResends, missed : BOOLEAN, result : Results]]

Init ==
  /\ LinkInit
  /\ wish \in Mixes
  /\ mutex = Nobody /\ uploading = Nobody
  /\ cache = [s \in Slots |-> NoFrame]
  /\ call = [c \in Callers |->
       [pc |-> "idle", step |-> 0, frame |-> NoFrame, got |-> NoFrame, acked |-> FALSE,
        resends |-> 0, missed |-> FALSE, result |-> "none"]]

At(c, label) == call[c].pc = label
Goes(c, label) == call' = [call EXCEPT ![c].pc = label]
Is(c, kind) == wish[c].kind = kind
(* The lighting functions hold m.mutex again after every answer; that of   *)
(* the display position never lets it go.                                  *)
Lighting(c) == wish[c].kind \in LightingKinds
MayLock(c) == mutex \in {Nobody, c}
FrameOf(c, cmd, slot, val) == [cmd |-> cmd, slot |-> slot, val |-> val, by |-> c]
deviceVars == <<flow, flowing, reader, fromDevice, device>>
----------------------------------------------------------------------------
(* One exchange: blackSharkBeginExchangeLocked and                         *)
(* blackSharkFinishExchangeUnlocked.                                       *)

(* The caller has m.mutex and draws a ticket for the bus. *)
BeginExchange(c, n, f, acked) ==
  /\ mutex' = c /\ wire' = Append(wire, c)
  /\ call' = [call EXCEPT ![c].pc = "queued", ![c].step = n, ![c].frame = f,
                          ![c].got = NoFrame, ![c].acked = acked]

(* A restore writes its block without waiting for an answer. *)
WritesOnly(c) == Is(c, "restore") /\ call[c].step = 1

(* A query takes a late answer to the same question instead of asking; the *)
(* oldest ones may have expired.                                           *)
Enters(c) ==
  /\ At(c, "queued") /\ Inside(c) /\ ~WritesOnly(c) /\ resp' = <<>>
  /\ LET f == call[c].frame
         q == IF f.cmd \in Queries THEN late[LateKey(f)] ELSE <<>>
     IN \E expired \in 0..Len(q) :
          IF expired < Len(q)
          THEN /\ late' = [late EXCEPT ![LateKey(f)] = SubSeq(q, expired + 2, Len(q))]
               /\ wire' = Released /\ mutex' = Nobody
               /\ call' = [call EXCEPT ![c].pc = "answered", ![c].got = q[expired + 1]]
          ELSE /\ late' = IF q = <<>> THEN late ELSE [late EXCEPT ![LateKey(f)] = <<>>]
               /\ Goes(c, "declare") /\ UNCHANGED <<wire, mutex>>
  /\ UNCHANGED <<deviceVars, await, toDevice, faults, wish, cache, uploading>>

(* The awaited command is declared before the frame leaves. *)
Declares(c) ==
  /\ At(c, "declare") /\ await' = call[c].frame.cmd /\ Goes(c, "send")
  /\ UNCHANGED <<deviceVars, wire, resp, late, toDevice, faults, wish, mutex, cache, uploading>>

Sends(c) ==
  /\ At(c, "send") /\ toDevice' = Append(toDevice, call[c].frame)
  /\ mutex' = (IF Is(c, "pos") THEN c ELSE Nobody) /\ Goes(c, "wait")
  /\ UNCHANGED <<deviceVars, wire, await, resp, late, faults, wish, cache, uploading>>

EndExchange(c) == await' = "none" /\ wire' = Released

SendFails(c) ==
  /\ At(c, "send") /\ Faulty /\ EndExchange(c)
  /\ mutex' = (IF Lighting(c) \/ Is(c, "pos") THEN c ELSE Nobody) /\ Goes(c, "answered")
  /\ UNCHANGED <<deviceVars, resp, late, toDevice, wish, cache, uploading>>

(* blackSharkWaitResponseLocked: an answer to another command is skipped. *)
TakesAnswer(c) ==
  /\ At(c, "wait") /\ resp # <<>> /\ resp' = Tail(resp)
  /\ IF Head(resp).cmd = call[c].frame.cmd
     THEN EndExchange(c) /\ call' = [call EXCEPT ![c].pc = "answered", ![c].got = Head(resp)]
     ELSE UNCHANGED <<await, wire, call>>
  /\ UNCHANGED <<deviceVars, late, toDevice, faults, wish, mutex, cache, uploading>>

TimesOut(c) ==
  /\ At(c, "wait") /\ (IF Silent(call[c].frame.cmd) /\ resp = <<>> THEN UNCHANGED faults ELSE Faulty)
  /\ EndExchange(c) /\ Goes(c, "answered")
  /\ UNCHANGED <<deviceVars, resp, late, toDevice, wish, mutex, cache, uploading>>

(* The caller has its result and lets m.mutex go. *)
Ends(c, result) ==
  /\ mutex' = Nobody /\ wire' = wire
  /\ call' = [call EXCEPT ![c].pc = "done", ![c].result = result]

(* What is left alone between two exchanges of a caller. *)
Between == UNCHANGED <<deviceVars, await, resp, late, toDevice, faults, wish, uploading>>

Answered(c, kind, n) == At(c, "answered") /\ Is(c, kind) /\ call[c].step = n /\ MayLock(c)
Got(c) == call[c].got # NoFrame
----------------------------------------------------------------------------
(* setBlackSharkSwitchLocked: write, then read back. *)

SwitchBegins(c) ==
  /\ At(c, "idle") /\ Is(c, "switch") /\ mutex = Nobody
  /\ BeginExchange(c, 1, FrameOf(c, "SetSwitch", 0, <<wish[c].val, 0>>), FALSE)
  /\ Between /\ UNCHANGED cache

SwitchWrote(c) ==
  /\ Answered(c, "switch", 1)
  /\ BeginExchange(c, 2, FrameOf(c, "GetSwitch", 0, <<0, 0>>), Got(c))
  /\ Between /\ UNCHANGED cache

(* decideBlackSharkSwitchVerification: the value read decides; without one *)
(* the acknowledgement of the write does.                                  *)
SwitchVerdict(c) ==
  IF ~Got(c) THEN IF call[c].acked THEN "acked" ELSE "failed"
  ELSE IF call[c].got.val[1] = wish[c].val THEN "confirmed" ELSE "failed"

SwitchEnds(c) ==
  /\ At(c, "answered") /\ Is(c, "switch") /\ call[c].step = 2
  /\ call' = [call EXCEPT ![c].pc = "done", ![c].result = SwitchVerdict(c)]
  /\ Between /\ UNCHANGED <<wire, mutex, cache>>
----------------------------------------------------------------------------
(* Lighting: a mode is changed by reading its block, writing it back whole *)
(* with the wished field replaced, and reading it again.                   *)

(* blackSharkQueryRgbBlockLocked: what was read is remembered under the    *)
(* slot asked for; without an answer the remembered block is used.         *)
Remembered(c) == IF Got(c) THEN [cache EXCEPT ![wish[c].slot] = call[c].got] ELSE cache
BlockRead(c) == Remembered(c)[wish[c].slot]
\* Mutant: the slot of a block is not checked.
OfOwnSlot_Not(c) == BlockRead(c) # NoFrame
OfOwnSlot(c) == BlockRead(c).slot = wish[c].slot

LightingBegins(c) ==
  /\ At(c, "idle") /\ Lighting(c) /\ ~Is(c, "restore") /\ mutex = Nobody
  /\ BeginExchange(c, 1, FrameOf(c, "GetRgb", wish[c].slot, <<0, 0>>), FALSE)
  /\ Between /\ UNCHANGED cache

EditReads(c) ==
  /\ Answered(c, "edit", 1) /\ cache' = Remembered(c)
  /\ LET block == BlockRead(c) IN
       IF ~OfOwnSlot(c) THEN Ends(c, "failed")
       ELSE BeginExchange(c, 2, FrameOf(c, "SetRgb", block.slot,
                            [block.val EXCEPT ![wish[c].field] = wish[c].val]), FALSE)
  /\ Between

EditWrote(c) ==
  /\ Answered(c, "edit", 2)
  /\ BeginExchange(c, 3, FrameOf(c, "GetRgb", wish[c].slot, <<0, 0>>), Got(c))
  /\ Between /\ UNCHANGED cache

\* Mutant: whatever block was read is a confirmation.
Verified_Any(c) == OfOwnSlot(c)
(* verifyBlackSharkRgbModeEdit: only the field this call has changed. *)
Verified(c) == OfOwnSlot(c) /\ BlockRead(c).val[wish[c].field] = wish[c].val

EditEnds(c) ==
  /\ Answered(c, "edit", 3) /\ cache' = Remembered(c)
  /\ Ends(c, IF BlockRead(c) = NoFrame
             THEN IF call[c].acked THEN "acked" ELSE "failed"
             ELSE IF Verified(c) THEN "confirmed" ELSE "failed")
  /\ Between

(* SelectBlackSharkRgbMode: the block goes back as it was read. *)
SelectReads(c) ==
  /\ Answered(c, "select", 1) /\ cache' = Remembered(c)
  /\ LET block == BlockRead(c) IN
       IF ~OfOwnSlot(c) THEN Ends(c, "failed")
       ELSE BeginExchange(c, 2, FrameOf(c, "SetRgb", block.slot, block.val), FALSE)
  /\ Between

SelectEnds(c) ==
  /\ Answered(c, "select", 2) /\ Ends(c, IF Got(c) THEN "acked" ELSE "failed")
  /\ cache' = (IF Got(c) THEN [cache EXCEPT ![wish[c].slot] = call[c].frame] ELSE cache)
  /\ Between

(* ReadBlackSharkRgbModeEffects: the answer is taken as it comes. *)
ReadEnds(c) ==
  /\ Answered(c, "read", 1) /\ Ends(c, IF Got(c) THEN "read" ELSE "failed")
  /\ Between /\ UNCHANGED cache

(* RestoreBlackSharkRgbModeEffects: write a whole block, then compare all  *)
(* of it; sending it and asking for the read need the bus one by one.      *)
RestoreBegins(c) ==
  /\ At(c, "idle") /\ Is(c, "restore") /\ mutex = Nobody
  /\ BeginExchange(c, 1, FrameOf(c, "SetRgb", wish[c].slot, <<wish[c].val, wish[c].val>>), FALSE)
  /\ Between /\ UNCHANGED cache

RestoreWrites(c) ==
  /\ At(c, "queued") /\ Inside(c) /\ WritesOnly(c)
  /\ toDevice' = Append(toDevice, call[c].frame) /\ wire' = Append(Released, c)
  /\ call' = [call EXCEPT ![c].step = 2, ![c].frame = FrameOf(c, "GetRgb", wish[c].slot, <<0, 0>>)]
  /\ UNCHANGED <<deviceVars, await, resp, late, faults, wish, mutex, cache, uploading>>

RestoreFails(c) ==
  /\ At(c, "queued") /\ Inside(c) /\ WritesOnly(c) /\ Faulty
  /\ wire' = Released /\ mutex' = Nobody
  /\ call' = [call EXCEPT ![c].pc = "done", ![c].result = "failed"]
  /\ UNCHANGED <<deviceVars, await, resp, late, toDevice, wish, cache, uploading>>

RestoreEnds(c) ==
  /\ Answered(c, "restore", 2) /\ cache' = Remembered(c)
  /\ Ends(c, IF OfOwnSlot(c) /\ BlockRead(c).val = <<wish[c].val, wish[c].val>>
             THEN "confirmed" ELSE "failed")
  /\ Between

(* SetBlackSharkLcdShowPos: only the acknowledgement tells. *)
PosBegins(c) ==
  /\ At(c, "idle") /\ Is(c, "pos") /\ mutex = Nobody
  /\ BeginExchange(c, 1, FrameOf(c, "SetPos", 0, <<0, 0>>), FALSE)
  /\ Between /\ UNCHANGED cache

PosEnds(c) ==
  /\ Answered(c, "pos", 1) /\ Ends(c, IF Got(c) THEN "acked" ELSE "failed")
  /\ Between /\ UNCHANGED cache

(* SendBlackSharkHostInfoFrame: on the bus if it is free, past it if not.  *)
PushesInfo(c) ==
  /\ At(c, "idle") /\ Is(c, "push") /\ mutex = Nobody
  /\ toDevice' = Append(toDevice, FrameOf(c, "Info", 0, <<0, 0>>)) /\ Goes(c, "done")
  /\ UNCHANGED <<deviceVars, wire, await, resp, late, faults, wish, mutex, cache, uploading>>
----------------------------------------------------------------------------
(* The upload of an image: C4, then each block with its flow answer, then  *)
(* the commit.                                                             *)

(* beginBlackSharkImageTransfer: one upload at a time. *)
UploadBegins(c) ==
  /\ At(c, "idle") /\ Is(c, "image")
  /\ IF uploading = Nobody
     THEN uploading' = c /\ Goes(c, "prepare")
     ELSE uploading' = uploading /\ call' = [call EXCEPT ![c].pc = "done", ![c].result = "refused"]
  /\ UNCHANGED <<linkVars, wish, mutex, cache>>

(* The handle is fetched under m.mutex, which is let go before the wait.   *)
UploadPrepares(c) ==
  /\ At(c, "prepare") /\ mutex = Nobody
  /\ wire' = Append(wire, c) /\ Goes(c, "upQueued")
  /\ UNCHANGED <<deviceVars, await, resp, late, toDevice, faults, wish, mutex, cache, uploading>>

UploadEnters(c) ==
  /\ At(c, "upQueued") /\ Inside(c)
  /\ resp' = <<>> /\ await' = "Meta" /\ flow' = <<>> /\ flowing' = TRUE /\ Goes(c, "upSend")
  /\ UNCHANGED <<wire, late, reader, toDevice, fromDevice, device, faults, wish, mutex, cache, uploading>>

UploadFrame(c) ==
  LET n == call[c].step IN
  FrameOf(c, IF n = 0 THEN "Meta" ELSE IF n > Blocks THEN "Commit" ELSE "Block",
          IF n \in 1..Blocks THEN n ELSE 0, <<0, 0>>)

(* The way out of an upload, with the end of its registration. *)
UploadEnds(c, result) ==
  /\ flowing' = FALSE /\ flow' = <<>> /\ await' = "none" /\ wire' = Released
  /\ uploading' = Nobody
  /\ call' = [call EXCEPT ![c].pc = "done", ![c].result = result]

\* Mutant: each frame takes m.mutex, as fetching the handle would.
UploadSends_Locked(c) ==
  /\ At(c, "upSend") /\ mutex = Nobody /\ toDevice' = Append(toDevice, UploadFrame(c))
  /\ IF call[c].step > Blocks
     THEN UploadEnds(c, "ok")
     ELSE /\ Goes(c, IF call[c].step = 0 THEN "upMeta" ELSE "upFlow")
          /\ UNCHANGED <<flow, flowing, await, wire, uploading>>
  /\ UNCHANGED <<resp, late, reader, fromDevice, device, faults, wish, mutex, cache>>
UploadSends(c) ==
  /\ At(c, "upSend") /\ toDevice' = Append(toDevice, UploadFrame(c))
  /\ IF call[c].step > Blocks
     THEN UploadEnds(c, "ok")
     ELSE /\ Goes(c, IF call[c].step = 0 THEN "upMeta" ELSE "upFlow")
          /\ UNCHANGED <<flow, flowing, await, wire, uploading>>
  /\ UNCHANGED <<resp, late, reader, fromDevice, device, faults, wish, mutex, cache>>

(* A write fails for good, the core cancels the transfers of a connection  *)
(* it closes, or the time budget is spent.                                 *)
UploadBreaksOff(c) ==
  /\ call[c].pc \in {"upSend", "upMeta", "upFlow"} /\ Faulty /\ UploadEnds(c, "failed")
  /\ UNCHANGED <<resp, late, reader, toDevice, fromDevice, device, wish, mutex, cache>>

(* The next frame, or the same one again. *)
UploadGoesOn(c, missed) ==
  call' = [call EXCEPT ![c].pc = "upSend", ![c].step = @ + 1, ![c].resends = 0,
                       ![c].missed = @ \/ missed]

\* Mutant: a rejected block is not sent again.
UploadRepeats_Not(c, missed) ==
  /\ UploadGoesOn(c, missed) /\ UNCHANGED <<flowing, await, wire, uploading>>
UploadRepeats(c, missed) ==
  IF call[c].resends < MaxResends
  THEN /\ call' = [call EXCEPT ![c].pc = "upSend", ![c].resends = @ + 1,
                               ![c].missed = @ \/ missed]
       /\ UNCHANGED <<flowing, await, wire, uploading>>
  ELSE /\ flowing' = FALSE /\ await' = "none" /\ wire' = Released /\ uploading' = Nobody
       /\ call' = [call EXCEPT ![c].pc = "done", ![c].result = "failed"]

(* The answer to C4, or six seconds without one: the blocks follow. *)
UploadMetaDone(c) ==
  /\ At(c, "upMeta")
  /\ IF resp # <<>> THEN resp' = Tail(resp) /\ UNCHANGED faults
     ELSE resp' = resp /\ IF Silent("Meta") THEN UNCHANGED faults ELSE Faulty
  /\ UploadGoesOn(c, FALSE)
  /\ UNCHANGED <<deviceVars, wire, await, late, toDevice, wish, mutex, cache, uploading>>

UploadFlow(c) ==
  /\ At(c, "upFlow") /\ flow # <<>> /\ flow' = Tail(flow)
  /\ IF Head(flow) = Accepted
     THEN UploadGoesOn(c, FALSE) /\ UNCHANGED <<flowing, await, wire, uploading>>
     ELSE UploadRepeats(c, FALSE)
  /\ UNCHANGED <<resp, late, reader, toDevice, fromDevice, device, faults, wish, mutex, cache>>

(* A block without an answer is sent again, the last one is let pass. *)
UploadFlowMissed(c) ==
  /\ At(c, "upFlow") /\ flow' = flow
  /\ IF flow = <<>> /\ Silent("Block") /\ Silent("Flow") THEN UNCHANGED faults ELSE Faulty
  /\ IF call[c].step = Blocks
     THEN UploadGoesOn(c, TRUE) /\ UNCHANGED <<flowing, await, wire, uploading>>
     ELSE UploadRepeats(c, TRUE)
  /\ UNCHANGED <<resp, late, reader, toDevice, fromDevice, device, wish, mutex, cache>>
----------------------------------------------------------------------------
Exchanges(c) ==
  \/ Enters(c) \/ Declares(c) \/ Sends(c) \/ TakesAnswer(c) \/ TimesOut(c)
  \/ SwitchBegins(c) \/ SwitchWrote(c) \/ SwitchEnds(c)
  \/ LightingBegins(c) \/ EditReads(c) \/ EditWrote(c) \/ EditEnds(c)
  \/ SelectReads(c) \/ SelectEnds(c) \/ ReadEnds(c)
  \/ RestoreBegins(c) \/ RestoreWrites(c) \/ RestoreEnds(c)
  \/ PosBegins(c) \/ PosEnds(c) \/ PushesInfo(c)
Uploads(c) ==
  \/ UploadBegins(c) \/ UploadPrepares(c) \/ UploadEnters(c) \/ UploadSends(c)
  \/ UploadMetaDone(c) \/ UploadFlow(c) \/ UploadFlowMissed(c)
Breaks(c) == SendFails(c) \/ RestoreFails(c) \/ UploadBreaksOff(c)
Link == LinkSteps /\ UNCHANGED <<wish, mutex, cache, uploading, call>>
Losses == LinkFaults /\ UNCHANGED <<wish, mutex, cache, uploading, call>>

Progress == Link \/ \E c \in Callers : Exchanges(c) \/ Uploads(c)
Next == Progress \/ Losses \/ \E c \in Callers : Breaks(c)

Spec == Init /\ [][Next]_vars
(* Every goroutine that can go on does: each makes a bounded number of     *)
(* steps, so no lock can be denied for ever by others that keep taking it. *)
FairSpec == Spec /\ WF_vars(Progress)
----------------------------------------------------------------------------
(* Properties *)

(* A lighting field of the cooler has its old value or one that somebody   *)
(* asked for, for this field of this slot: late blocks of other slots and  *)
(* remembered ones are never written where they do not belong.             *)
Asked(c, s, n) ==
  wish[c].slot = s /\ (Is(c, "restore") \/ (Is(c, "edit") /\ wish[c].field = n))
SlotsApart ==
  \A s \in Slots, n \in 1..2 :
    device.mode[s][n] \in {0} \cup {wish[c].val : c \in {d \in Callers : Asked(d, s, n)}}

(* Wishes for the same value of the same thing: a frame carries no number, *)
(* so the read-back of one is as good for the other.                       *)
Asks(w, n) == w.kind = "restore" \/ (w.kind = "edit" /\ w.field = n)
Alike(v, w) ==
  /\ v.val = w.val
  /\ \/ v.kind = "switch" /\ w.kind = "switch"
     \/ v.slot = w.slot /\ \E n \in 1..2 : Asks(v, n) /\ Asks(w, n)

(* A switch, an edit or a restored block that was read back was carried    *)
(* out, whatever was lost or came late: for this call, or for another one  *)
(* that wished the same, unless the cooler had the value from the start.   *)
(* A call with a wish of its own is thus confirmed by its own write.       *)
ConfirmedIsDone ==
  \A c \in Callers : call[c].result = "confirmed" =>
    wish[c].val = 0 \/ \E d \in device.took : Alike(wish[c], wish[d])

(* A late answer that confirms a switch tells what the cooler has, or the   *)
(* switch was carried out for this very call.  It does not hold: when a     *)
(* switch goes on, off and on again, the late answer to one call confirms   *)
(* another one, whose write was lost, and the cooler has the opposite.      *)
LateAnswerHolds ==
  [][\A c \in Callers :
       /\ Enters(c) /\ Is(c, "switch") /\ call'[c].pc = "answered"
       /\ call'[c].got.val[1] = wish[c].val
       => c \in device.took \/ device.sw = wish[c].val]_vars

(* When no upload has missed a flow answer or was broken off, one that     *)
(* succeeds has put every block on the cooler, also those rejected first.  *)
RejectedIsResent ==
  (\A c \in Callers : ~call[c].missed /\ call[c].result # "failed") =>
    \A c \in Callers : call[c].result = "ok" => {c} \X (1..Blocks) \subseteq device.stored

(* Every call ends: exchanges that wait for the bus under m.mutex, and the *)
(* upload that keeps the bus for long, never wait for each other.          *)
CallsEnd == <>[](\A c \in Callers : Is(c, "none") \/ At(c, "done"))

(* An upload that reports success has put its blocks on the cooler; only   *)
(* the answer to the last one may be missing.                              *)
UploadIsWhole ==
  \A c \in Callers :
    call[c].result = "ok" => {c} \X (1..Blocks - 1) \subseteq device.stored

(* A read of a lighting mode never answers with the block of another one.  *)
ReadsOwnSlot ==
  \A c \in Callers : call[c].result = "read" => call[c].got.slot = wish[c].slot
=============================================================================
