---------------------------- MODULE Panel_proofs ----------------------------
(* Proofs about Panel, for any number of flows, gears and events: the types, *)
(* the gear and the form the cooler is left with, the record of a screen     *)
(* that is dark, and the screen that comes back.                             *)
EXTENDS Panel, TLAPS

-----------------------------------------------------------------------------
(* The inductive invariant.                                                  *)

\* None of these slips has happened.
Without(which) == slips \intersect which = {}

\* Only a flow on the way out of host control has the screen to restore
\* after the gear.
ThenRestores ==
    \A f \in Flows : flow[f].then = "restore" =>
        flow[f].at \in {"apply", "write", "restore", "light", "noteLit", "clear"}

\* Somebody will see to it that the cooler runs on the chosen gear's curve.
GearToCome ==
    \E f \in Flows : \/ flow[f].at \in {"sync", "exit"}
                     \/ flow[f].at \in {"apply", "write"} /\ flow[f].gear = gear

GearRight == device.form = "curve" /\ device.gear = gear

GearKept ==
    connected /\ ~hostSpeed /\ Without({"late", "unconfirmed", "restored"})
    => GearRight \/ GearToCome

\* The screen, the record, and what a flow that is busy with them has read.
Active == {"read", "store", "darken", "noteDark", "light", "noteLit", "clear"}

ScreenRecorded ==
    /\ device.screen => wished
    /\ wished /\ ~device.screen => record = "on"
    /\ record = "on" => wished
    /\ record = "off" => ~wished

OneActive ==
    \A f, o \in Flows : flow[f].at \in Active /\ flow[o].at \in Active => f = o

FlowKnows(f) ==
    /\ At(f, "read") => flow[f].record = record
    /\ At(f, "store") => flow[f].record = record /\ (record = "none" => flow[f].lit = wished)
    /\ At(f, "darken") => record # "none"
    /\ At(f, "light") => record = "on"
    /\ flow[f].at \in {"noteLit", "clear"} => device.screen = wished

RecordKept ==
    Without({"crossed", "misread"})
    => ScreenRecorded /\ OneActive /\ \A f \in Flows : FlowKnows(f)

\* A flow that leaves host control and has not come to the screen.
Leaving(f) ==
    \/ flow[f].at \in {"exit", "restore"}
    \/ flow[f].at \in {"apply", "write"} /\ flow[f].then = "restore"
\* Also one that follows a connect.
Returning(f) == Leaving(f) \/ flow[f].at \in {"sync", "align"}
\* Also one that is at the screen.
Restoring(f) == Returning(f) \/ flow[f].at \in {"light", "noteLit", "clear"}

\* What was darkened is going to be restored.
RestoreToCome ==
    ~hostSpeed /\ connected /\ record # "none" => \E f \in Flows : Restoring(f)

\* A takeover that is late is followed by a way out.
TakeoverOvertaken ==
    ~hostSpeed => \A f \in Flows : flow[f].at \in {"takeover", "read", "store"} =>
                      \E o \in Flows : Leaving(o)

\* One that would be refused is not the last.
RefusedIsNotLast ==
    ~hostSpeed /\ connected /\ device.form = "fixed" =>
        \A f \in Flows : flow[f].at \in {"restore", "light"} /\ flow[f].then = "restore" =>
            \E o \in Flows \ {f} : Returning(o)

ReturnKept ==
    Without({"crossed", "unconfirmed", "misread", "refused", "late"})
    => RestoreToCome /\ TakeoverOvertaken /\ RefusedIsNotLast

IInv == TypeOK /\ ThenRestores /\ GearKept /\ RecordKept /\ ReturnKept

-----------------------------------------------------------------------------
(* Types.                                                                    *)

FlowTypes == [Flows -> [at : Steps, lit : BOOLEAN, record : Records, gear : Gears,
                        tries : 0 .. MaxTries - 1, then : {"idle", "restore"}]]
DeviceTypes == [form : Forms, gear : Gears, screen : BOOLEAN]

LEMMA FlowType == ASSUME TypeOK PROVE flow \in FlowTypes
BY DEF TypeOK, FlowTypes

LEMMA DeviceType == ASSUME TypeOK PROVE device \in DeviceTypes
BY DEF TypeOK, DeviceTypes

\* The other flows are where they were.
OthersStay(f) == \A o \in Flows \ {f} : flow'[o] = flow[o]

\* A flow that goes on keeps what it has read, one that ends forgets it.
LEMMA GoesOn ==
    ASSUME TypeOK, NEW f \in Flows, NEW step \in Steps, Goes(f, step)
    PROVE  /\ flow' \in FlowTypes /\ OthersStay(f)
           /\ flow'[f] = [flow[f] EXCEPT !.at = step]
           /\ flow'[f].at = step /\ flow'[f].lit = flow[f].lit
           /\ flow'[f].record = flow[f].record /\ flow'[f].gear = flow[f].gear
           /\ flow'[f].then = flow[f].then
BY FlowType DEF Goes, FlowTypes, OthersStay

\* Several fields of a flow at once, or of two flows.
LEMMA FieldsSet ==
    ASSUME NEW F \in FlowTypes, NEW f \in Flows, NEW step \in Steps, NEW g \in Gears,
           NEW then \in {"idle", "restore"}
    PROVE  [F EXCEPT ![f].at = step, ![f].gear = g, ![f].then = then] \in FlowTypes
BY ZenonT(60) DEF FlowTypes

LEMMA TwoSet ==
    ASSUME NEW F \in FlowTypes, NEW f \in Flows, NEW to \in Steps,
           NEW o \in Flows \ {f}, NEW step \in Steps, NEW g \in Gears
    PROVE  /\ [F EXCEPT ![f].at = to, ![o].at = step, ![o].gear = g] \in FlowTypes
<1>1. [F EXCEPT ![f].at = to] \in FlowTypes
  BY DEF FlowTypes
<1>2. ASSUME NEW G \in FlowTypes
      PROVE  [G EXCEPT ![o].at = step, ![o].gear = g] \in FlowTypes
  BY ZenonT(60) DEF FlowTypes
<1> QED
  BY <1>1, <1>2

LEMMA IdleType == Idle \in [at : Steps, lit : BOOLEAN, record : Records, gear : Gears,
                           tries : 0 .. MaxTries - 1, then : {"idle", "restore"}]
<1>1. 1 \in Gears /\ 0 \in 0 .. MaxTries - 1
  BY PanelAssumption DEF Gears
<1> QED
  BY <1>1 DEF Idle, Steps, Records

LEMMA EndsHere ==
    ASSUME TypeOK, NEW f \in Flows, Ends(f)
    PROVE  flow' \in FlowTypes /\ OthersStay(f) /\ flow'[f] = Idle /\ flow'[f].at = "idle"
             /\ flow'[f].then = "idle"
BY FlowType, IdleType DEF Ends, FlowTypes, OthersStay, Idle

\* An attempt that has failed ends the flow, or counts.
LEMMA GivesUpHere ==
    ASSUME TypeOK, NEW f \in Flows, GivesUp(f)
    PROVE  /\ flow' \in FlowTypes /\ OthersStay(f)
           /\ \/ flow[f].tries + 1 = MaxTries /\ flow'[f] = Idle
              \/ /\ flow'[f].at = flow[f].at /\ flow'[f].record = flow[f].record
                 /\ flow'[f].lit = flow[f].lit /\ flow'[f].then = flow[f].then
                 /\ flow'[f].gear = flow[f].gear
<1>1. CASE flow[f].tries + 1 = MaxTries
  BY <1>1, EndsHere DEF GivesUp
<1>2. CASE flow[f].tries + 1 # MaxTries
  <2>1. flow[f].tries \in 0 .. MaxTries - 1
    BY FlowType DEF FlowTypes
  <2>2. flow[f].tries + 1 \in 0 .. MaxTries - 1
    BY <1>2, <2>1, PanelAssumption
  <2>3. flow' = [flow EXCEPT ![f].tries = flow[f].tries + 1]
    BY <1>2 DEF GivesUp
  <2> QED
    BY <2>2, <2>3, FlowType DEF FlowTypes, OthersStay
<1> QED
  BY <1>1, <1>2

\* What a switch or a curve does to the cooler.
LEMMA ScreenSet ==
    ASSUME TypeOK, NEW lit \in BOOLEAN,
           device' = device \/ device' = [device EXCEPT !.screen = lit]
    PROVE  /\ device' \in DeviceTypes
           /\ device'.form = device.form /\ device'.gear = device.gear
BY DeviceType DEF DeviceTypes

LEMMA CurveSet ==
    ASSUME TypeOK, NEW g \in Gears,
           device' = device \/ device' = [device EXCEPT !.form = "curve", !.gear = g]
    PROVE  /\ device' \in DeviceTypes /\ device'.screen = device.screen
           /\ device'.form = "curve" \/ device'.form = device.form
BY DeviceType DEF DeviceTypes, Forms

\* The budget of an event that happens.
LEMMA Spent ==
    ASSUME TypeOK, NEW event \in Events, Spend(event)
    PROVE  budget' \in [Events -> Nat]
BY DEF TypeOK, Spend

\* The types again, with the names above.
LEMMA TypesAre ==
    ASSUME hostSpeed \in BOOLEAN, gear \in Gears, record \in Records, cache \in CacheStates,
           device \in DeviceTypes, connected \in BOOLEAN, flow \in FlowTypes,
           pending \in BOOLEAN, writing \in BOOLEAN, budget \in [Events -> Nat],
           wished \in BOOLEAN, slips \subseteq Slips
    PROVE  TypeOK
BY DEF TypeOK, DeviceTypes, FlowTypes

\* The steps of a flow at the screen keep the types.
LEMMA ScreenKeepsTypes ==
    ASSUME TypeOK, NEW f \in Flows,
           TakesOver(f) \/ ReadsScreen(f) \/ StoresRecord(f) \/ Darkens(f) \/ NotesDark(f)
             \/ Restores(f) \/ Lights(f) \/ NotesLit(f) \/ ClearsRecord(f)
    PROVE  TypeOK'
<1>0. TypeOK /\ flow \in FlowTypes /\ device \in DeviceTypes
        /\ TRUE \in BOOLEAN /\ FALSE \in BOOLEAN
  BY FlowType, DeviceType
<1>s. ASSUME NEW which \in Slips, NEW condition, Slipped(which, condition)
      PROVE  slips' \subseteq Slips
  BY <1>0, <1>s DEF Slipped, TypeOK
<1>w. {"crossed", "misread", "unconfirmed", "refused"} \subseteq Slips /\ "fail" \in Events
        /\ {"read", "store", "darken", "noteDark", "clear", "light", "noteLit"} \subseteq Steps
  BY DEF Slips, Events, Steps
<1> USE DEF config, sending
<1>1. CASE TakesOver(f)
  <2>1. flow' \in FlowTypes
    BY <1>0, <1>1, <1>w, EndsHere DEF TakesOver, TypeOK, FlowTypes
  <2> QED
    BY <1>0, <1>1, <1>s, <1>w, <2>1 DEF TakesOver, TypeOK, FlowTypes
<1>2. CASE ReadsScreen(f)
  <2>1. flow' \in FlowTypes
    <3>1. device.screen \in BOOLEAN
      BY <1>0 DEF DeviceTypes
    <3>2. ASSUME NEW lit \in BOOLEAN, flow' = [flow EXCEPT ![f].at = "store", ![f].lit = lit]
          PROVE  flow' \in FlowTypes
      BY <1>0, <1>w, <3>2, ZenonT(60) DEF FlowTypes
    <3>3. (cache = "on") \in BOOLEAN
      OBVIOUS
    <3> QED
      BY <1>2, <3>1, <3>2, <3>3, EndsHere DEF ReadsScreen
  <2>2. budget' \in [Events -> Nat]
    BY <1>2, <1>w, Spent DEF ReadsScreen, TypeOK
  <2>3. slips' \subseteq Slips
    BY <1>2, <1>s, <1>w DEF ReadsScreen, TypeOK
  <2> QED
    BY <1>2, <2>1, <2>2, <2>3 DEF ReadsScreen, TypeOK, FlowTypes
<1>3. CASE StoresRecord(f)
  <2>1. flow' \in FlowTypes
    BY <1>3, <1>w, GoesOn, EndsHere DEF StoresRecord
  <2> QED
    BY <1>3, <2>1 DEF StoresRecord, TypeOK, FlowTypes, OnOff, Records
<1>4. CASE Darkens(f)
  <2>1. flow' \in FlowTypes
    BY <1>4, <1>w, GoesOn, EndsHere DEF Darkens
  <2>2. device' \in DeviceTypes
    BY <1>0, <1>4, ScreenSet DEF Darkens, SetsScreen, Refuses, Unconfirmed
  <2>3. budget' \in [Events -> Nat]
    BY <1>4, <1>w, Spent DEF Darkens, Unconfirmed, TypeOK
  <2>4. slips' \subseteq Slips
    BY <1>4, <1>s, <1>w DEF Darkens, TypeOK
  <2> QED
    BY <1>4, <2>1, <2>2, <2>3, <2>4 DEF Darkens, TypeOK, FlowTypes, DeviceTypes
<1>5. CASE NotesDark(f)
  <2>1. flow' \in FlowTypes
    BY <1>5, EndsHere DEF NotesDark
  <2> QED
    BY <1>5, <2>1 DEF NotesDark, Noted, OnOff, TypeOK, FlowTypes, CacheStates
<1>6. CASE Restores(f)
  <2>1. flow' \in FlowTypes
    BY <1>6, <1>w, GoesOn, EndsHere DEF Restores
  <2> QED
    BY <1>6, <1>s, <1>w, <2>1 DEF Restores, TypeOK, FlowTypes
<1>7. CASE Lights(f)
  <2>1. flow' \in FlowTypes
    BY <1>7, <1>w, GoesOn, GivesUpHere DEF Lights
  <2>2. device' \in DeviceTypes
    BY <1>0, <1>7, ScreenSet DEF Lights, SetsScreen, Refuses, Unconfirmed
  <2>3. budget' \in [Events -> Nat]
    BY <1>7, <1>w, Spent DEF Lights, Unconfirmed, TypeOK
  <2>4. slips' \subseteq Slips
    BY <1>7, <1>s, <1>w DEF Lights, TypeOK
  <2> QED
    BY <1>7, <2>1, <2>2, <2>3, <2>4 DEF Lights, TypeOK, FlowTypes, DeviceTypes
<1>8. CASE NotesLit(f)
  <2>1. flow' \in FlowTypes
    BY <1>8, <1>w, GoesOn DEF NotesLit
  <2> QED
    BY <1>8, <2>1 DEF NotesLit, Noted, OnOff, TypeOK, FlowTypes, CacheStates
<1>9. CASE ClearsRecord(f)
  <2>1. flow' \in FlowTypes
    BY <1>9, EndsHere DEF ClearsRecord
  <2> QED
    BY <1>9, <2>1 DEF ClearsRecord, TypeOK, FlowTypes, Records
<1> QED
  BY <1>1, <1>2, <1>3, <1>4, <1>5, <1>6, <1>7, <1>8, <1>9

\* The steps of a flow about the gear, and of the other work, keep the types.
LEMMA GearKeepsTypes ==
    ASSUME TypeOK, NEW f \in Flows,
           ChecksGear(f) \/ AppliesGear(f) \/ WritesGear(f) \/ Exits(f)
             \/ NotesSwitch(f) \/ Merges(f) \/ WritesBack(f) \/ Syncs(f) \/ Aligns(f)
    PROVE  TypeOK'
<1>0. TypeOK /\ flow \in FlowTypes /\ device \in DeviceTypes /\ flow[f].gear \in Gears
        /\ flow[f].then \in Steps
  BY FlowType, DeviceType DEF FlowTypes, Steps
<1>1. "fail" \in Events
        /\ {"apply", "write", "align", "restore", "screenBack", "takeover"} \subseteq Steps
  BY DEF Events, Steps
<1>2. ASSUME flow' = [flow EXCEPT ![f].at = flow[f].then]
      PROVE  flow' \in FlowTypes
  BY <1>0, <1>2 DEF FlowTypes
<1>3. slips' \subseteq Slips \/ UNCHANGED slips
  BY <1>0 DEF ChecksGear, AppliesGear, WritesGear, Exits, NotesSwitch, Merges, WritesBack, Syncs,
     Aligns, Slipped, TypeOK, Slips
<1>4. slips' \subseteq Slips
  BY <1>3 DEF TypeOK
<1> USE DEF config, sending
<1>5. CASE ChecksGear(f)
  <2>1. flow' \in FlowTypes
    BY <1>1, <1>5, GoesOn, EndsHere DEF ChecksGear
  <2> QED
    BY <1>4, <1>5, <2>1 DEF ChecksGear, TypeOK, FlowTypes
<1>6. CASE AppliesGear(f)
  <2>1. flow' \in FlowTypes
    BY <1>1, <1>2, <1>6, GoesOn DEF AppliesGear
  <2> QED
    BY <1>4, <1>6, <2>1 DEF AppliesGear, TypeOK, FlowTypes
<1>7. CASE WritesGear(f)
  <2>1. flow' \in FlowTypes
    BY <1>2, <1>7 DEF WritesGear
  <2>2. device' \in DeviceTypes
    BY <1>0, <1>7, CurveSet DEF WritesGear, WritesCurve, CurveFails
  <2>3. budget' \in [Events -> Nat]
    BY <1>1, <1>7, Spent DEF WritesGear, CurveFails, TypeOK
  <2> QED
    BY <1>4, <1>7, <2>1, <2>2, <2>3 DEF WritesGear, TypeOK, FlowTypes, DeviceTypes
<1>8. CASE Exits(f)
  <2>1. gear \in Gears /\ "apply" \in Steps
    BY <1>1 DEF TypeOK
  <2>2. flow' \in FlowTypes
    <3>1. CASE GearActive
      <4>1. flow' = [flow EXCEPT ![f].at = "apply", ![f].gear = gear, ![f].then = "restore"]
        BY <1>8, <3>1 DEF Exits
      <4>2. flow \in FlowTypes /\ "restore" \in {"idle", "restore"}
        BY <1>0
      <4> QED
        BY <2>1, <4>1, <4>2, FieldsSet
    <3>2. CASE ~GearActive
      BY <1>1, <1>8, <3>2, GoesOn DEF Exits
    <3> QED
      BY <3>1, <3>2
  <2> QED
    BY <1>4, <1>8, <2>2 DEF Exits, TypeOK, FlowTypes
<1>9. CASE NotesSwitch(f)
  <2>1. flow' \in FlowTypes
    BY <1>9, EndsHere DEF NotesSwitch
  <2> QED
    BY <1>4, <1>9, <2>1 DEF NotesSwitch, Noted, OnOff, TypeOK, FlowTypes, CacheStates
<1>10. CASE Merges(f)
  <2>1. flow' \in FlowTypes
    BY <1>10, EndsHere DEF Merges
  <2>2. budget' \in [Events -> Nat]
    BY <1>1, <1>10, Spent DEF Merges, TypeOK
  <2>3. cache' \in CacheStates
    BY <1>10 DEF Merges, OnOff, CacheStates, TypeOK
  <2> QED
    BY <1>4, <1>10, <2>1, <2>2, <2>3 DEF Merges, TypeOK, FlowTypes
<1>11. CASE WritesBack(f)
  <2>1. flow[f].gear < GearCount => flow[f].gear + 1 \in Gears
    BY <1>0, PanelAssumption DEF Gears
  <2>2. ASSUME NEW g \in Gears, flow' = [flow EXCEPT ![f].gear = g]
        PROVE  flow' \in FlowTypes
    BY <1>0, <2>2 DEF FlowTypes
  <2>3. flow' \in FlowTypes
    <3>1. CASE flow[f].gear < GearCount
      BY <1>11, <2>1, <2>2, <3>1 DEF WritesBack
    <3>2. CASE ~(flow[f].gear < GearCount)
      BY <1>0, <1>1, <1>11, <3>2 DEF WritesBack, FlowTypes
    <3> QED
      BY <3>1, <3>2
  <2>4. device' \in DeviceTypes
    BY <1>0, <1>11, CurveSet DEF WritesBack, WritesCurve, CurveFails
  <2>5. budget' \in [Events -> Nat]
    BY <1>1, <1>11, Spent DEF WritesBack, CurveFails, TypeOK
  <2> QED
    BY <1>4, <1>11, <2>3, <2>4, <2>5 DEF WritesBack, TypeOK, FlowTypes, DeviceTypes
<1>12. CASE Syncs(f)
  <2>1. gear \in Gears
    BY DEF TypeOK
  <2>2. flow' \in FlowTypes
    <3>1. CASE Goes(f, "align")
      BY <1>1, <3>1, GoesOn
    <3>2. CASE \E o \in Flows \ {f} : flow' = [flow EXCEPT ![f].at = "align", ![o].at = "apply",
                                ![o].gear = gear]
      <4>1. PICK o \in Flows \ {f} : flow' = [flow EXCEPT ![f].at = "align",
                                             ![o].at = "apply", ![o].gear = gear]
        BY <3>2
      <4>2. flow \in FlowTypes /\ "align" \in Steps /\ "apply" \in Steps
        BY <1>0, <1>1
      <4> QED
        BY <2>1, <4>1, <4>2, TwoSet
    <3> QED
      BY <1>12, <3>1, <3>2 DEF Syncs
  <2> QED
    BY <1>4, <1>12, <2>2 DEF Syncs, TypeOK, FlowTypes
<1>13. CASE Aligns(f)
  <2>1. flow' \in FlowTypes
    BY <1>1, <1>13, GoesOn DEF Aligns
  <2> QED
    BY <1>4, <1>13, <2>1 DEF Aligns, TypeOK, FlowTypes
<1> QED
  BY <1>5, <1>6, <1>7, <1>8, <1>9, <1>10, <1>11, <1>12, <1>13

\* The switches of the screen keep the types.
LEMMA SwitchKeepsTypes ==
    ASSUME TypeOK, NEW f \in Flows, NEW lit \in BOOLEAN, SwitchesScreen(f) \/ ScreenBack(f, lit)
    PROVE  TypeOK'
<1>0. flow \in FlowTypes /\ device \in DeviceTypes /\ flow[f].lit \in BOOLEAN
  BY FlowType, DeviceType DEF FlowTypes
<1>1. flow' \in FlowTypes
  BY GoesOn, EndsHere DEF SwitchesScreen, ScreenBack, Steps
<1>2. device' \in DeviceTypes
  BY <1>0, ScreenSet DEF SwitchesScreen, ScreenBack, SetsScreen, Refuses, Unconfirmed
<1>3. budget' \in [Events -> Nat]
  <2>1. "fail" \in Events
    BY DEF Events
  <2> QED
    BY <2>1, Spent DEF SwitchesScreen, ScreenBack, Unconfirmed, TypeOK
<1>4. wished' \in BOOLEAN
  BY <1>0, <1>2 DEF SwitchesScreen, ScreenBack, DeviceTypes, TypeOK
<1>5. slips' \subseteq Slips
  BY DEF SwitchesScreen, ScreenBack, Slipped, Slips, TypeOK
<1> QED
  BY <1>1, <1>2, <1>3, <1>4, <1>5 DEF SwitchesScreen, ScreenBack, TypeOK, FlowTypes,
     DeviceTypes, config, sending

\* A request is taken up by a flow that was idle, and keeps the types.
LEMMA RequestKeepsTypes ==
    ASSUME TypeOK, NEW f \in Flows, Request(f)
    PROVE  TypeOK'
<1>0. flow \in FlowTypes /\ device.screen \in BOOLEAN
  BY FlowType, DeviceType DEF FlowTypes, DeviceTypes
<1>1. Events = {"toggle", "switch", "select", "refresh", "restore", "unplug", "crash", "fail"}
        /\ {"exit", "takeover", "merge", "writeBack", "switch", "apply", "check"} \subseteq Steps
        /\ 1 \in Gears
  BY PanelAssumption DEF Events, Steps, Gears
<1>2. ASSUME NEW step \in Steps, NEW g \in Gears,
             flow' = [flow EXCEPT ![f].at = step, ![f].gear = g]
      PROVE  flow' \in FlowTypes
  BY <1>0, <1>2, ZenonT(60) DEF FlowTypes
<1>3. ASSUME NEW step \in Steps, NEW lit \in BOOLEAN,
             flow' = [flow EXCEPT ![f].at = step, ![f].lit = lit]
      PROVE  flow' \in FlowTypes
  BY <1>0, <1>3, ZenonT(60) DEF FlowTypes
<1> USE DEF config, sending
<1>4. CASE SetHostVariableSpeed(f)
  <2>1. flow' \in FlowTypes /\ budget' \in [Events -> Nat]
    BY <1>1, <1>4, GoesOn, Spent DEF SetHostVariableSpeed
  <2> QED
    BY <1>4, <2>1 DEF SetHostVariableSpeed, TypeOK, FlowTypes
<1>5. CASE Refreshes(f)
  <2>1. flow' \in FlowTypes /\ budget' \in [Events -> Nat]
    BY <1>0, <1>1, <1>3, <1>5, Spent DEF Refreshes
  <2> QED
    BY <1>5, <2>1 DEF Refreshes, TypeOK, FlowTypes
<1>6. CASE RestoresConfig(f)
  <2>1. flow' \in FlowTypes /\ budget' \in [Events -> Nat]
    BY <1>1, <1>2, <1>6, Spent DEF RestoresConfig
  <2> QED
    BY <1>6, <2>1 DEF RestoresConfig, TypeOK, FlowTypes
<1>7. ASSUME NEW lit \in BOOLEAN, AsksForScreen(f, lit)
      PROVE  TypeOK'
  <2>1. flow' \in FlowTypes /\ budget' \in [Events -> Nat]
    BY <1>1, <1>3, <1>7, Spent DEF AsksForScreen
  <2> QED
    BY <1>7, <2>1 DEF AsksForScreen, TypeOK, FlowTypes
<1>8. ASSUME NEW g \in Gears, SelectsGear(f, g)
      PROVE  TypeOK'
  <2>1. flow' \in FlowTypes /\ budget' \in [Events -> Nat]
    BY <1>1, <1>2, <1>8, Spent DEF SelectsGear
  <2> QED
    BY <1>8, <2>1 DEF SelectsGear, TypeOK, FlowTypes
<1>9. ASSUME NEW g \in Gears, SavesProfile(f, g)
      PROVE  TypeOK'
  <2>1. flow' \in FlowTypes /\ budget' \in [Events -> Nat]
    BY <1>1, <1>2, <1>9, Spent DEF SavesProfile
  <2> QED
    BY <1>9, <2>1 DEF SavesProfile, TypeOK, FlowTypes
<1> QED
  BY <1>4, <1>5, <1>6, <1>7, <1>8, <1>9 DEF Request

\* The tick, its worker, the cable and a crash keep the types.
LEMMA WorldKeepsTypes ==
    ASSUME TypeOK,
           \/ TickQueues \/ WorkerDecides \/ WorkerWrites \/ Unplugs \/ Crashes
           \/ \E f \in Flows : Connects(f)
    PROVE  TypeOK'
<1>0. flow \in FlowTypes /\ device \in DeviceTypes /\ wished \in BOOLEAN
        /\ device.screen \in BOOLEAN
  BY FlowType, DeviceType DEF DeviceTypes, TypeOK
<1> USE DEF config, sending
<1>1. CASE TickQueues \/ WorkerDecides
  BY <1>1 DEF TickQueues, WorkerDecides, TypeOK
<1>2. CASE WorkerWrites
  <2>1. device' \in DeviceTypes
    BY <1>0, <1>2 DEF WorkerWrites, DeviceTypes, Forms
  <2>2. slips' \subseteq Slips
    BY <1>2 DEF WorkerWrites, Slipped, Slips, TypeOK
  <2> QED
    BY <1>2, <2>1, <2>2 DEF WorkerWrites, TypeOK, DeviceTypes
<1>3. CASE Unplugs \/ Crashes
  <2>1. budget' \in [Events -> Nat]
    BY <1>3, Spent DEF Unplugs, Crashes, Events
  <2>2. flow' \in FlowTypes
    BY <1>0, <1>3, IdleType DEF Unplugs, Crashes, FlowTypes
  <2> QED
    BY <1>3, <2>1, <2>2 DEF Unplugs, Crashes, TypeOK, FlowTypes
<1>4. ASSUME NEW f \in Flows, Connects(f)
      PROVE  TypeOK'
  <2>1. "sync" \in Steps
    BY DEF Steps
  <2>2. flow' \in FlowTypes
    BY <1>4, <2>1, GoesOn DEF Connects
  <2>3. device' \in DeviceTypes
    BY <1>0, <1>4, ScreenSet DEF Connects
  <2> QED
    BY <1>4, <2>2, <2>3 DEF Connects, TypeOK, FlowTypes, DeviceTypes
<1> QED
  BY <1>1, <1>2, <1>3, <1>4

\* Every step keeps the types.
LEMMA NextKeepsTypes ==
    ASSUME TypeOK, [Next]_vars
    PROVE  TypeOK'
<1>1. ASSUME NEW f \in Flows, Flow(f)
      PROVE  TypeOK'
  <2>1. CASE SwitchesScreen(f)
    BY <2>1, SwitchKeepsTypes
  <2> QED
    BY <1>1, <2>1, ScreenKeepsTypes, GearKeepsTypes, SwitchKeepsTypes DEF Flow
<1>2. CASE UNCHANGED vars
  BY <1>2 DEF vars, config, sending, TypeOK
<1> QED
  BY <1>1, <1>2, RequestKeepsTypes, WorldKeepsTypes DEF Next

-----------------------------------------------------------------------------
(* Slips are never forgotten.                                                *)

LEMMA SlipsStay ==
    ASSUME [Next]_vars
    PROVE  slips \subseteq slips'
<1>1. ASSUME NEW f \in Flows, Flow(f)
      PROVE  slips \subseteq slips'
  <2>1. CASE TakesOver(f) \/ ReadsScreen(f) \/ StoresRecord(f) \/ Darkens(f) \/ NotesDark(f)
               \/ Restores(f) \/ Lights(f) \/ NotesLit(f) \/ ClearsRecord(f)
    BY <2>1 DEF TakesOver, ReadsScreen, StoresRecord, Darkens, NotesDark, Restores, Lights,
       NotesLit, ClearsRecord, Slipped
  <2>2. CASE ChecksGear(f) \/ AppliesGear(f) \/ WritesGear(f) \/ Exits(f) \/ NotesSwitch(f)
               \/ Merges(f) \/ WritesBack(f) \/ Syncs(f) \/ Aligns(f)
    BY <2>2 DEF ChecksGear, AppliesGear, WritesGear, Exits, NotesSwitch, Merges, WritesBack,
       Syncs, Aligns, Slipped
  <2>3. CASE SwitchesScreen(f) \/ \E lit \in BOOLEAN : ScreenBack(f, lit)
    BY <2>3 DEF SwitchesScreen, ScreenBack, Slipped
  <2> QED
    BY <1>1, <2>1, <2>2, <2>3 DEF Flow
<1>2. ASSUME NEW f \in Flows, Request(f) \/ Connects(f)
      PROVE  slips \subseteq slips'
  BY <1>2 DEF Request, SetHostVariableSpeed, Refreshes, RestoresConfig, AsksForScreen,
     SelectsGear, SavesProfile, Connects
<1>3. CASE TickQueues \/ WorkerDecides \/ WorkerWrites \/ Unplugs \/ Crashes \/ UNCHANGED vars
  BY <1>3 DEF TickQueues, WorkerDecides, WorkerWrites, Unplugs, Crashes, Slipped, vars
<1> QED
  BY <1>1, <1>2, <1>3 DEF Next

-----------------------------------------------------------------------------
(* Which flows a step moves.                                                 *)

\* Only the synchronisation after a connect moves two flows.
LEMMA OneMoves ==
    ASSUME TypeOK, NEW f \in Flows, Flow(f) \/ Request(f) \/ Connects(f), ~Syncs(f)
    PROVE  OthersStay(f)
<1>0. flow \in FlowTypes
  BY FlowType
<1>1. ASSUME NEW step, Goes(f, step)
      PROVE  OthersStay(f)
  BY <1>0, <1>1 DEF Goes, OthersStay, FlowTypes
<1>2. ASSUME Ends(f) \/ GivesUp(f)
      PROVE  OthersStay(f)
  BY <1>0, <1>2 DEF Ends, GivesUp, OthersStay, FlowTypes
<1>3. CASE TakesOver(f) \/ ReadsScreen(f) \/ StoresRecord(f) \/ Darkens(f) \/ NotesDark(f)
             \/ Restores(f) \/ Lights(f) \/ NotesLit(f) \/ ClearsRecord(f)
  <2>1. CASE TakesOver(f) \/ ReadsScreen(f)
    BY <1>0, <1>2, <2>1 DEF TakesOver, ReadsScreen, OthersStay, FlowTypes
  <2>2. CASE StoresRecord(f) \/ Darkens(f) \/ NotesDark(f) \/ Restores(f) \/ Lights(f)
               \/ NotesLit(f) \/ ClearsRecord(f)
    BY <1>1, <1>2, <2>2 DEF StoresRecord, Darkens, NotesDark, Restores, Lights, NotesLit,
       ClearsRecord
  <2> QED
    BY <1>3, <2>1, <2>2
<1>4. CASE ChecksGear(f) \/ AppliesGear(f) \/ WritesGear(f) \/ Exits(f)
  BY <1>0, <1>1, <1>2, <1>4 DEF ChecksGear, AppliesGear, WritesGear, Exits, OthersStay, FlowTypes
<1>5. CASE NotesSwitch(f) \/ Merges(f) \/ WritesBack(f) \/ Aligns(f) \/ SwitchesScreen(f)
             \/ \E lit \in BOOLEAN : ScreenBack(f, lit)
  BY <1>0, <1>1, <1>2, <1>5 DEF NotesSwitch, Merges, WritesBack, Aligns, SwitchesScreen,
     ScreenBack, OthersStay, FlowTypes
<1>6. CASE Request(f) \/ Connects(f)
  BY <1>0, <1>1, <1>6 DEF Request, Connects, SetHostVariableSpeed, Refreshes, RestoresConfig,
     AsksForScreen, SelectsGear, SavesProfile, OthersStay, FlowTypes
<1> QED
  BY <1>3, <1>4, <1>5, <1>6 DEF Flow

\* It moves the flow that goes on to the end, and another to the gear.
LEMMA TwoMove ==
    ASSUME TypeOK, NEW f \in Flows, Syncs(f)
    PROVE  \/ /\ connected /\ ~hostSpeed
              /\ \E o \in Flows \ {f} :
                   /\ flow[o].at = "idle" /\ flow'[o].at = "apply" /\ flow'[o].gear = gear
                   /\ flow'[o].then = flow[o].then
                   /\ flow'[f].at = "align" /\ flow'[f].then = flow[f].then
                   /\ \A x \in Flows \ {f, o} : flow'[x] = flow[x]
           \/ ~(connected /\ ~hostSpeed) /\ Goes(f, "align")
<1>1. CASE ~(connected /\ ~hostSpeed)
  BY <1>1 DEF Syncs, GearActive
<1>2. CASE connected /\ ~hostSpeed
  <2>1. PICK o \in Flows \ {f} :
          /\ At(o, "idle")
          /\ flow' = [flow EXCEPT ![f].at = "align", ![o].at = "apply", ![o].gear = gear]
    BY <1>2 DEF Syncs, GearActive
  <2>2. /\ flow[o].at = "idle" /\ flow'[o].at = "apply" /\ flow'[o].gear = gear
        /\ flow'[o].then = flow[o].then
    BY <2>1, FlowType DEF FlowTypes, At
  <2>3. flow'[f].at = "align" /\ flow'[f].then = flow[f].then
    BY <2>1, FlowType DEF FlowTypes
  <2>4. \A x \in Flows \ {f, o} : flow'[x] = flow[x]
    BY <2>1, FlowType DEF FlowTypes
  <2> QED
    BY <1>2, <2>2, <2>3, <2>4
<1> QED
  BY <1>1, <1>2

\* Nothing but the way out sets what comes after the gear.
LEMMA NextKeepsThen ==
    ASSUME TypeOK, ThenRestores, [Next]_vars
    PROVE  ThenRestores'
<1>0. flow \in FlowTypes /\ \A o \in Flows : flow[o].then \in {"idle", "restore"}
  BY FlowType DEF FlowTypes
<1>1. ASSUME NEW f \in Flows, OthersStay(f),
             flow'[f].then = "restore" =>
               flow'[f].at \in {"apply", "write", "restore", "light", "noteLit", "clear"}
      PROVE  ThenRestores'
  BY <1>1 DEF ThenRestores, OthersStay
<1>2. ASSUME NEW f \in Flows, Ends(f)
      PROVE  ThenRestores'
  BY <1>1, <1>2, EndsHere
<1>3. ASSUME NEW f \in Flows,
             NEW step \in {"apply", "write", "restore", "light", "noteLit", "clear"}, Goes(f, step)
      PROVE  ThenRestores'
  BY <1>1, <1>3, GoesOn, ZenonT(60) DEF Steps
<1>4. ASSUME NEW f \in Flows, flow[f].then = "idle", OthersStay(f), flow'[f].then = flow[f].then
      PROVE  ThenRestores'
  BY <1>1, <1>4
<1>5. ASSUME NEW f \in Flows, flow[f].then = "idle", NEW step \in Steps, Goes(f, step)
      PROVE  ThenRestores'
  BY <1>4, <1>5, GoesOn
<1>6. ASSUME NEW f \in Flows, Flow(f)
      PROVE  ThenRestores'
  <2>1. CASE TakesOver(f) \/ ReadsScreen(f)
    <3>1. flow[f].then = "idle"
      BY <1>0, <2>1 DEF ThenRestores, TakesOver, ReadsScreen, At
    <3>2. Ends(f) \/ flow'[f].then = flow[f].then
      BY <1>0, <2>1 DEF TakesOver, ReadsScreen, FlowTypes
    <3>3. OthersStay(f)
      BY <1>6, <2>1, OneMoves DEF TakesOver, ReadsScreen, Syncs, At
    <3> QED
      BY <1>2, <1>4, <3>1, <3>2, <3>3
  <2>2. CASE StoresRecord(f) \/ Darkens(f) \/ NotesDark(f)
    <3>1. flow[f].then = "idle"
      BY <1>0, <2>2 DEF ThenRestores, StoresRecord, Darkens, NotesDark, At
    <3>2. Ends(f) \/ Goes(f, "darken") \/ Goes(f, "noteDark")
      BY <2>2 DEF StoresRecord, Darkens, NotesDark
    <3> QED
      BY <1>2, <1>5, <3>1, <3>2 DEF Steps
  <2>3. CASE Restores(f) \/ NotesLit(f) \/ ClearsRecord(f)
    BY <1>2, <1>3, <2>3 DEF Restores, NotesLit, ClearsRecord
  <2>4. CASE Lights(f)
    <3>1. Goes(f, "noteLit") \/ GivesUp(f)
      BY <2>4 DEF Lights
    <3>2. ASSUME GivesUp(f)
          PROVE  ThenRestores'
      BY <1>1, <2>4, <3>2, GivesUpHere DEF Lights, At, Idle
    <3> QED
      BY <1>3, <3>1, <3>2
  <2>5. CASE ChecksGear(f) \/ NotesSwitch(f) \/ Merges(f) \/ Aligns(f)
    <3>1. Ends(f) \/ Goes(f, "apply") \/ Goes(f, "takeover") \/ Goes(f, "restore")
      BY <2>5 DEF ChecksGear, NotesSwitch, Merges, Aligns
    <3>2. Goes(f, "takeover") => flow[f].then = "idle"
      BY <1>0, <2>5 DEF ThenRestores, ChecksGear, NotesSwitch, Merges, Aligns, At
    <3> QED
      BY <1>2, <1>3, <1>5, <3>1, <3>2 DEF Steps
  <2>6. CASE AppliesGear(f) \/ WritesGear(f)
    <3>1. Goes(f, "write") \/ (flow'[f].at = flow[f].then /\ flow'[f].then = flow[f].then)
      BY <1>0, <2>6 DEF AppliesGear, WritesGear, FlowTypes
    <3>2. OthersStay(f)
      BY <1>6, <2>6, OneMoves DEF AppliesGear, WritesGear, Syncs, At
    <3> QED
      BY <1>1, <1>3, <3>1, <3>2
  <2>7. CASE Exits(f)
    <3>1. Goes(f, "restore") \/ (flow'[f].at = "apply")
      BY <1>0, <2>7 DEF Exits, FlowTypes
    <3>2. OthersStay(f)
      BY <1>6, <2>7, OneMoves DEF Exits, Syncs, At
    <3> QED
      BY <1>1, <1>3, <3>1, <3>2
  <2>8. CASE SwitchesScreen(f) \/ WritesBack(f) \/ \E lit \in BOOLEAN : ScreenBack(f, lit)
    <3>1. flow[f].then = "idle"
      BY <1>0, <2>8 DEF ThenRestores, SwitchesScreen, WritesBack, ScreenBack, At
    <3>2. OthersStay(f)
      BY <1>6, <2>8, OneMoves DEF SwitchesScreen, WritesBack, ScreenBack, Syncs, At
    <3>3. Ends(f) \/ flow'[f].then = flow[f].then
      <4>1. CASE WritesBack(f)
        BY <1>0, <4>1 DEF WritesBack, FlowTypes
      <4>2. ASSUME NEW step, Goes(f, step)
            PROVE  flow'[f].then = flow[f].then
        BY <1>0, <4>2 DEF Goes, FlowTypes
      <4> QED
        BY <2>8, <4>1, <4>2 DEF SwitchesScreen, ScreenBack
    <3> QED
      BY <1>2, <1>4, <3>1, <3>2, <3>3
  <2>9. CASE Syncs(f)
    <3>1. flow[f].then = "idle" /\ \A o \in Flows : At(o, "idle") => flow[o].then = "idle"
      BY <1>0, <2>9 DEF ThenRestores, Syncs, At
    <3>2. CASE Goes(f, "align")
      BY <1>5, <3>1, <3>2 DEF Steps
    <3>3. CASE ~Goes(f, "align")
      BY <2>9, <3>1, <3>3, TwoMove DEF ThenRestores, At
    <3> QED
      BY <3>2, <3>3
  <2> QED
    BY <1>6, <2>1, <2>2, <2>3, <2>4, <2>5, <2>6, <2>7, <2>8, <2>9 DEF Flow
<1>7. ASSUME NEW f \in Flows, Request(f) \/ Connects(f)
      PROVE  ThenRestores'
  <2>1. flow[f].then = "idle"
    BY <1>0, <1>7 DEF ThenRestores, Request, Connects, SetHostVariableSpeed, Refreshes,
       RestoresConfig, AsksForScreen, SelectsGear, SavesProfile, At
  <2>2. OthersStay(f)
    BY <1>7, OneMoves DEF Request, Connects, SetHostVariableSpeed, Refreshes, RestoresConfig,
       AsksForScreen, SelectsGear, SavesProfile, Syncs, At
  <2>3. flow'[f].then = flow[f].then
    BY <1>0, <1>7 DEF Request, Connects, SetHostVariableSpeed, Refreshes, RestoresConfig,
       AsksForScreen, SelectsGear, SavesProfile, Goes, FlowTypes
  <2> QED
    BY <1>4, <2>1, <2>2, <2>3
<1>8. CASE TickQueues \/ WorkerDecides \/ WorkerWrites \/ Unplugs \/ Crashes \/ UNCHANGED vars
  BY <1>8 DEF ThenRestores, TickQueues, WorkerDecides, WorkerWrites, Unplugs, Crashes, Idle, vars
<1> QED
  BY <1>6, <1>7, <1>8 DEF Next

-----------------------------------------------------------------------------
(* The gear.                                                                 *)

\* A step that leaves alone what the gear depends on, and moves only a flow
\* that has nothing to do with the gear.
LEMMA GearFrame ==
    ASSUME GearKept, slips \subseteq slips', NEW f \in Flows, OthersStay(f),
           flow[f].at \notin {"sync", "exit", "apply", "write"},
           hostSpeed' = hostSpeed, gear' = gear, connected' = connected,
           device'.form = device.form, device'.gear = device.gear
    PROVE  GearKept'
<1> SUFFICES ASSUME (connected /\ ~hostSpeed)', Without({"late", "unconfirmed", "restored"})'
             PROVE  (GearRight \/ GearToCome)'
  BY DEF GearKept
<1>1. GearRight \/ GearToCome
  BY DEF GearKept, Without
<1>2. GearRight => GearRight'
  BY DEF GearRight
<1>3. GearToCome => GearToCome'
  BY DEF GearToCome, OthersStay
<1> QED
  BY <1>1, <1>2, <1>3

\* The steps of a flow keep the gear.
LEMMA FlowKeepsGear ==
    ASSUME TypeOK, GearKept, NEW f \in Flows, Flow(f), slips \subseteq slips'
    PROVE  GearKept'
<1>0. flow \in FlowTypes /\ device \in DeviceTypes
  BY FlowType, DeviceType
<1> USE DEF config, sending
<1>1. CASE TakesOver(f) \/ ReadsScreen(f) \/ StoresRecord(f) \/ Darkens(f) \/ NotesDark(f)
             \/ Restores(f) \/ Lights(f) \/ NotesLit(f) \/ ClearsRecord(f)
  <2>1. OthersStay(f) /\ flow[f].at \notin {"sync", "exit", "apply", "write"}
    BY <1>1, OneMoves DEF TakesOver, ReadsScreen, StoresRecord, Darkens, NotesDark, Restores,
       Lights, NotesLit, ClearsRecord, Flow, Syncs, At
  <2>2. device'.form = device.form /\ device'.gear = device.gear
    BY <1>0, <1>1, ScreenSet DEF TakesOver, ReadsScreen, StoresRecord, Darkens, NotesDark,
       Restores, Lights, NotesLit, ClearsRecord, SetsScreen, Refuses, Unconfirmed
  <2> QED
    BY <1>1, <2>1, <2>2, GearFrame DEF TakesOver, ReadsScreen, StoresRecord, Darkens, NotesDark,
       Restores, Lights, NotesLit, ClearsRecord
<1>2. CASE ChecksGear(f) \/ NotesSwitch(f) \/ Merges(f) \/ Aligns(f)
  <2>1. OthersStay(f) /\ flow[f].at \notin {"sync", "exit", "apply", "write"}
    BY <1>2, OneMoves DEF ChecksGear, NotesSwitch, Merges, Aligns, Flow, Syncs, At
  <2> QED
    BY <1>2, <2>1, GearFrame DEF ChecksGear, NotesSwitch, Merges, Aligns
<1>3. CASE SwitchesScreen(f) \/ \E lit \in BOOLEAN : ScreenBack(f, lit)
  <2>1. OthersStay(f) /\ flow[f].at \notin {"sync", "exit", "apply", "write"}
    BY <1>3, OneMoves DEF SwitchesScreen, ScreenBack, Flow, Syncs, At
  <2>2. device'.form = device.form /\ device'.gear = device.gear
    BY <1>0, <1>3, ScreenSet DEF SwitchesScreen, ScreenBack, SetsScreen, Refuses, Unconfirmed,
       FlowTypes
  <2> QED
    BY <1>3, <2>1, <2>2, GearFrame, SMTT(60) DEF SwitchesScreen, ScreenBack
<1> SUFFICES ASSUME (connected /\ ~hostSpeed)', Without({"late", "unconfirmed", "restored"})'
             PROVE  (GearRight \/ GearToCome)'
  BY DEF GearKept
<1>4. Without({"late", "unconfirmed", "restored"})
  BY DEF Without
<1>5. CASE AppliesGear(f)
  <2>1. GearRight \/ GearToCome
    BY <1>4, <1>5 DEF AppliesGear, GearKept
  <2>2. /\ At(f, "apply") /\ flow'[f].at = "write" /\ flow'[f].gear = flow[f].gear
        /\ OthersStay(f)
    BY <1>5, GoesOn DEF AppliesGear, Steps
  <2>3. UNCHANGED <<device, gear>>
    BY <1>5 DEF AppliesGear
  <2> QED
    BY <2>1, <2>2, <2>3 DEF GearRight, GearToCome, OthersStay, At
<1>6. CASE WritesGear(f)
  <2>1. connected /\ ~hostSpeed
    BY <1>6 DEF WritesGear
  <2>2. WritesCurve(flow[f].gear) /\ slips' = IF flow[f].gear # gear \/ hostSpeed
                                           THEN slips \union {"late"} ELSE slips
    BY <1>6, <2>1 DEF WritesGear, Slipped, Without
  <2>3. flow[f].gear = gear
    BY <2>2 DEF Without
  <2>4. device'.form = "curve" /\ device'.gear = gear
    BY <1>0, <2>2, <2>3 DEF WritesCurve, DeviceTypes
  <2> QED
    BY <1>6, <2>4 DEF WritesGear, GearRight
<1>7. CASE Exits(f)
  <2>1. flow'[f].at = "apply" /\ flow'[f].gear = gear
    BY <1>0, <1>7 DEF Exits, GearActive, FlowTypes
  <2> QED
    BY <1>7, <2>1 DEF Exits, GearToCome
<1>8. CASE WritesBack(f)
  <2>1. UNCHANGED device /\ ~connected
    BY <1>8 DEF WritesBack, Slipped, Without
  <2> QED
    BY <1>8, <2>1 DEF WritesBack
<1>9. CASE Syncs(f)
  <2>1. \E o \in Flows : flow'[o].at = "apply" /\ flow'[o].gear = gear
    BY <1>9, TwoMove DEF Syncs
  <2> QED
    BY <1>9, <2>1 DEF Syncs, GearToCome
<1> QED
  BY <1>1, <1>2, <1>3, <1>5, <1>6, <1>7, <1>8, <1>9 DEF Flow, GearKept

\* So do the requests, and all that is not a flow's.
LEMMA OthersKeepGear ==
    ASSUME TypeOK, GearKept, slips \subseteq slips',
           \/ \E f \in Flows : Request(f) \/ Connects(f)
           \/ TickQueues \/ WorkerDecides \/ WorkerWrites \/ Unplugs \/ Crashes \/ UNCHANGED vars
    PROVE  GearKept'
<1>0. flow \in FlowTypes /\ device \in DeviceTypes
  BY FlowType, DeviceType
<1> USE DEF config, sending
<1>1. ASSUME NEW f \in Flows, SetHostVariableSpeed(f)
      PROVE  GearKept'
  <2>1. ~hostSpeed' => flow'[f].at = "exit"
    BY <1>1, GoesOn DEF SetHostVariableSpeed, Steps
  <2>2. ~hostSpeed' => GearToCome'
    BY <2>1, Zenon DEF GearToCome
  <2> QED
    BY <2>2 DEF GearKept
<1>2. ASSUME NEW f \in Flows, NEW g \in Gears, SelectsGear(f, g)
      PROVE  GearKept'
  <2>1. flow'[f].at = "apply" /\ flow'[f].gear = gear'
    BY <1>0, <1>2 DEF SelectsGear, FlowTypes
  <2> QED
    BY <2>1 DEF GearKept, GearToCome
<1>3. ASSUME NEW f \in Flows,
             \/ Refreshes(f) \/ RestoresConfig(f)
             \/ \E lit \in BOOLEAN : AsksForScreen(f, lit)
             \/ \E g \in Gears : SavesProfile(f, g)
      PROVE  GearKept'
  <2>1. OthersStay(f) /\ flow[f].at \notin {"sync", "exit", "apply", "write"}
    BY <1>3, OneMoves DEF Refreshes, RestoresConfig, AsksForScreen, SavesProfile, Request, Syncs, At
  <2> QED
    BY <1>3, <2>1, GearFrame DEF Refreshes, RestoresConfig, AsksForScreen, SavesProfile
<1>4. ASSUME NEW f \in Flows, Connects(f)
      PROVE  GearKept'
  <2>1. flow'[f].at = "sync"
    BY <1>4, GoesOn DEF Connects, Steps
  <2>2. GearToCome'
    BY <2>1, Zenon DEF GearToCome
  <2> QED
    BY <2>2 DEF GearKept
<1>5. CASE TickQueues \/ WorkerDecides
  <2>1. UNCHANGED <<connected, hostSpeed, gear, slips, device, flow>>
    BY <1>5 DEF TickQueues, WorkerDecides
  <2> QED
    BY <2>1 DEF GearKept, GearRight, GearToCome, Without
<1>6. CASE WorkerWrites
  BY <1>6 DEF WorkerWrites, Slipped, GearKept, Without
<1>7. CASE Unplugs \/ Crashes
  BY <1>7 DEF Unplugs, Crashes, GearKept
<1>8. CASE UNCHANGED vars
  BY <1>8 DEF vars, GearKept, GearRight, GearToCome, Without
<1> QED
  BY <1>1, <1>2, <1>3, <1>4, <1>5, <1>6, <1>7, <1>8 DEF Request

-----------------------------------------------------------------------------
(* The screen and its record.                                                *)

\* A step that leaves the screen and the record alone and moves no flow to a
\* place where it counts on them.
LEMMA RecordFrame ==
    ASSUME RecordKept, slips \subseteq slips',
           device'.screen = device.screen, wished' = wished, record' = record,
           \A o \in Flows : flow'[o] = flow[o] \/ flow'[o].at \notin Active
    PROVE  RecordKept'
<1> SUFFICES ASSUME Without({"crossed", "misread"})'
             PROVE  (ScreenRecorded /\ OneActive /\ \A o \in Flows : FlowKnows(o))'
  BY DEF RecordKept
<1>1. ScreenRecorded /\ OneActive /\ \A o \in Flows : FlowKnows(o)
  BY DEF RecordKept, Without
<1>2. ScreenRecorded'
  BY <1>1 DEF ScreenRecorded
<1>3. OneActive'
  BY <1>1 DEF OneActive
<1>4. ASSUME NEW o \in Flows
      PROVE  FlowKnows(o)'
  BY <1>1 DEF FlowKnows, Active, At
<1> QED
  BY <1>2, <1>3, <1>4

\* While f is the only flow that counts on them, it is for f to know.
LEMMA OnlyOne ==
    ASSUME NEW f \in Flows, OthersStay(f), \A o \in Flows \ {f} : flow[o].at \notin Active,
           FlowKnows(f)'
    PROVE  (OneActive /\ \A o \in Flows : FlowKnows(o))'
<1>1. OneActive'
  BY DEF OneActive, OthersStay
<1>2. ASSUME NEW o \in Flows \ {f}
      PROVE  FlowKnows(o)'
  BY DEF FlowKnows, OthersStay, Active, At
<1> QED
  BY <1>1, <1>2

\* The steps of a flow at the screen.
LEMMA ScreenKeepsRecord ==
    ASSUME TypeOK, RecordKept, slips \subseteq slips', NEW f \in Flows,
           TakesOver(f) \/ ReadsScreen(f) \/ StoresRecord(f) \/ Darkens(f) \/ NotesDark(f)
             \/ Restores(f) \/ Lights(f) \/ NotesLit(f) \/ ClearsRecord(f)
    PROVE  RecordKept'
<1> SUFFICES ASSUME Without({"crossed", "misread"})'
             PROVE  (ScreenRecorded /\ OneActive /\ \A o \in Flows : FlowKnows(o))'
  BY DEF RecordKept
<1>0. flow \in FlowTypes /\ device \in DeviceTypes /\ wished \in BOOLEAN /\ record \in Records
        /\ device.screen \in BOOLEAN /\ flow[f].lit \in BOOLEAN
  BY FlowType, DeviceType DEF TypeOK, DeviceTypes, FlowTypes
<1>1. ScreenRecorded /\ OneActive /\ FlowKnows(f)
  BY DEF RecordKept, Without
<1>2. OthersStay(f)
  BY OneMoves DEF TakesOver, ReadsScreen, StoresRecord, Darkens, NotesDark, Restores, Lights,
     NotesLit, ClearsRecord, Flow, Syncs, At
<1>3. \A o \in Flows \ {f} : flow[o].at \notin Active
  <2>1. CASE TakesOver(f) \/ Restores(f)
    <3>1. ~Crossing(f)
      BY <2>1 DEF TakesOver, Restores, Slipped, Without
    <3> QED
      BY <3>1 DEF Crossing, ScreenSteps, Active
  <2>2. CASE ~(TakesOver(f) \/ Restores(f))
    <3>1. flow[f].at \in Active
      BY <2>2 DEF ReadsScreen, StoresRecord, Darkens, NotesDark, Lights, NotesLit, ClearsRecord,
         Active, At
    <3> QED
      BY <1>1, <3>1 DEF OneActive
  <2> QED
    BY <2>1, <2>2
<1>4. ASSUME ScreenRecorded', FlowKnows(f)'
      PROVE  (ScreenRecorded /\ OneActive /\ \A o \in Flows : FlowKnows(o))'
  BY <1>2, <1>3, <1>4, OnlyOne
<1>5. ASSUME Ends(f)
      PROVE  FlowKnows(f)'
  BY <1>5, EndsHere DEF FlowKnows, At
<1> USE DEF config, sending
<1>6. CASE TakesOver(f)
  <2>1. ScreenRecorded'
    BY <1>1, <1>6 DEF TakesOver, ScreenRecorded
  <2>2. Ends(f) \/ (flow'[f].at = "read" /\ flow'[f].record = record')
    BY <1>0, <1>6 DEF TakesOver, FlowTypes
  <2>3. FlowKnows(f)'
    BY <1>5, <2>2 DEF FlowKnows, At
  <2> QED
    BY <1>4, <2>1, <2>3
<1>7. CASE ReadsScreen(f)
  <2>1. ScreenRecorded'
    BY <1>1, <1>7 DEF ReadsScreen, ScreenRecorded
  <2>2. CASE Ends(f)
    BY <1>4, <1>5, <2>1, <2>2
  <2>3. CASE ~Ends(f)
    <3>1. flow'[f].at = "store" /\ flow'[f].record = flow[f].record
      BY <1>0, <1>7, <2>3 DEF ReadsScreen, FlowTypes
    <3>2. flow'[f].lit = device.screen
      <4>1. CASE flow'[f].lit = device.screen
        BY <4>1
      <4>2. CASE /\ flow' = [flow EXCEPT ![f].at = "store", ![f].lit = (cache = "on")]
                 /\ cache \in {"on", "off"} /\ Slipped("misread", cache = OnOff(~device.screen))
        <5>1. cache # OnOff(~device.screen)
          BY <4>2 DEF Slipped, Without
        <5>2. flow'[f].lit = (cache = "on")
          BY <1>0, <4>2 DEF FlowTypes
        <5> QED
          BY <1>0, <4>2, <5>1, <5>2 DEF OnOff
      <4>3. CASE flow' = [flow EXCEPT ![f].at = "store", ![f].lit = device.screen]
        BY <1>0, <4>3 DEF FlowTypes
      <4> QED
        BY <1>7, <2>3, <4>1, <4>2, <4>3 DEF ReadsScreen
    <3>3. flow[f].record = record /\ record' = record /\ wished' = wished
      BY <1>1, <1>7 DEF ReadsScreen, FlowKnows
    <3>4. record = "none" => device.screen = wished
      BY <1>0, <1>1 DEF ScreenRecorded
    <3>5. FlowKnows(f)'
      BY <3>1, <3>2, <3>3, <3>4 DEF FlowKnows, At
    <3> QED
      BY <1>4, <2>1, <3>5
  <2> QED
    BY <2>2, <2>3
<1>8. CASE StoresRecord(f)
  <2>1. flow[f].record = record /\ (record = "none" => flow[f].lit = wished)
    BY <1>1, <1>8 DEF StoresRecord, FlowKnows
  <2>2. device' = device /\ wished' = wished
    BY <1>8 DEF StoresRecord
  <2>3. record' = IF record = "none" THEN OnOff(flow[f].lit) ELSE record
    BY <1>8, <2>1 DEF StoresRecord
  <2>4. ScreenRecorded'
    BY <1>0, <1>1, <2>1, <2>2, <2>3 DEF ScreenRecorded, OnOff
  <2>5. record' # "none"
    BY <2>3 DEF OnOff
  <2>6. Ends(f) \/ flow'[f].at = "darken"
    BY <1>8, GoesOn DEF StoresRecord, Steps
  <2>7. FlowKnows(f)'
    BY <1>5, <2>5, <2>6 DEF FlowKnows, At
  <2> QED
    BY <1>4, <2>4, <2>7
<1>9. CASE Darkens(f)
  <2>1. record # "none" /\ record' = record /\ wished' = wished
    BY <1>1, <1>9 DEF Darkens, FlowKnows
  <2>2. device'.screen = device.screen \/ device'.screen = FALSE
    BY <1>0, <1>9 DEF Darkens, SetsScreen, Refuses, Unconfirmed, DeviceTypes
  <2>3. ScreenRecorded'
    BY <1>0, <1>1, <2>1, <2>2 DEF ScreenRecorded, Records
  <2>4. Ends(f) \/ flow'[f].at = "noteDark"
    BY <1>9, GoesOn DEF Darkens, Steps
  <2>5. FlowKnows(f)'
    BY <1>5, <2>4 DEF FlowKnows, At
  <2> QED
    BY <1>4, <2>3, <2>5
<1>10. CASE NotesDark(f)
  BY <1>1, <1>4, <1>5, <1>10 DEF NotesDark, ScreenRecorded
<1>11. CASE Restores(f)
  <2>1. UNCHANGED <<record, device, wished>>
    BY <1>11 DEF Restores
  <2>2. ScreenRecorded'
    BY <1>1, <2>1 DEF ScreenRecorded
  <2>3. \/ Ends(f)
        \/ record = "off" /\ Goes(f, "clear")
        \/ record = "on" /\ Goes(f, "light")
    BY <1>11 DEF Restores
  <2>4. record = "off" => device.screen = wished
    BY <1>0, <1>1 DEF ScreenRecorded
  <2>5. CASE Ends(f)
    BY <1>4, <1>5, <2>2, <2>5
  <2>6. CASE record = "off" /\ Goes(f, "clear")
    <3>1. flow'[f].at = "clear"
      BY <2>6, GoesOn DEF Steps
    <3>2. FlowKnows(f)'
      BY <2>1, <2>4, <2>6, <3>1 DEF FlowKnows, At
    <3> QED
      BY <1>4, <2>2, <3>2
  <2>7. CASE record = "on" /\ Goes(f, "light")
    <3>1. flow'[f].at = "light"
      BY <2>7, GoesOn DEF Steps
    <3>2. FlowKnows(f)'
      BY <2>1, <2>7, <3>1 DEF FlowKnows, At
    <3> QED
      BY <1>4, <2>2, <3>2
  <2> QED
    BY <2>3, <2>5, <2>6, <2>7
<1>12. CASE Lights(f)
  <2>1. record = "on" /\ wished /\ record' = record /\ wished' = wished
    BY <1>1, <1>12 DEF Lights, FlowKnows, ScreenRecorded
  <2>2. CASE SetsScreen(TRUE) /\ Goes(f, "noteLit")
    <3>1. device'.screen = TRUE
      BY <1>0, <2>2 DEF SetsScreen, DeviceTypes
    <3>2. flow'[f].at = "noteLit"
      BY <2>2, GoesOn DEF Steps
    <3>3. ScreenRecorded' /\ FlowKnows(f)'
      BY <2>1, <3>1, <3>2 DEF ScreenRecorded, FlowKnows, At
    <3> QED
      BY <1>4, <3>3
  <2>3. CASE GivesUp(f) /\ (Refuses(TRUE) \/ Unconfirmed(TRUE))
    <3>1. ScreenRecorded'
      BY <2>1 DEF ScreenRecorded
    <3>2. flow'[f].at = "idle" \/ flow'[f].at = "light"
      BY <1>12, <2>3, GivesUpHere DEF Lights, At, Idle
    <3>3. FlowKnows(f)'
      BY <2>1, <3>2 DEF FlowKnows, At
    <3> QED
      BY <1>4, <3>1, <3>3
  <2> QED
    BY <1>12, <2>2, <2>3 DEF Lights
<1>13. CASE NotesLit(f)
  <2>1. UNCHANGED <<record, device, wished>> /\ flow'[f].at = "clear"
    BY <1>13, GoesOn DEF NotesLit, Steps
  <2>2. ScreenRecorded' /\ FlowKnows(f)'
    BY <1>1, <1>13, <2>1 DEF ScreenRecorded, FlowKnows, NotesLit, At
  <2> QED
    BY <1>4, <2>2
<1>14. CASE ClearsRecord(f)
  <2>1. device.screen = wished
    BY <1>1, <1>14 DEF ClearsRecord, FlowKnows, At
  <2>2. ScreenRecorded'
    BY <1>14, <2>1 DEF ClearsRecord, ScreenRecorded
  <2> QED
    BY <1>4, <1>5, <1>14, <2>2 DEF ClearsRecord
<1> QED
  BY <1>6, <1>7, <1>8, <1>9, <1>10, <1>11, <1>12, <1>13, <1>14

\* The user's own switches, and the screen of a snapshot.
LEMMA SwitchKeepsRecord ==
    ASSUME TypeOK, RecordKept, slips \subseteq slips', NEW f \in Flows, NEW lit \in BOOLEAN,
           SwitchesScreen(f) \/ ScreenBack(f, lit)
    PROVE  RecordKept'
<1>0. flow \in FlowTypes /\ device \in DeviceTypes /\ flow[f].lit \in BOOLEAN
        /\ device.screen \in BOOLEAN
  BY FlowType, DeviceType DEF FlowTypes, DeviceTypes
<1>1. OthersStay(f)
  BY OneMoves DEF SwitchesScreen, ScreenBack, Flow, Syncs, At
<1>2. flow'[f].at \notin Active
  <2>1. Ends(f) \/ \E step \in {"noteSwitch", "takeover"} : Goes(f, step)
    BY DEF SwitchesScreen, ScreenBack
  <2> QED
    BY <2>1, EndsHere, GoesOn DEF Steps, Active
<1>3. record' = record
  BY DEF SwitchesScreen, ScreenBack, config
<1>4. \/ device' = device /\ wished' = wished
      \/ /\ wished' = device'.screen
         /\ "crossed" \notin slips' => ~UnderHost /\ ~Crossing(f)
  <2>1. ASSUME NEW new \in BOOLEAN, SetsScreen(new)
        PROVE  device'.screen = new
    BY <1>0, <2>1 DEF SetsScreen, DeviceTypes
  <2>2. CASE SwitchesScreen(f)
    BY <1>0, <2>1, <2>2 DEF SwitchesScreen, Refuses, Slipped
  <2>3. CASE ScreenBack(f, lit)
    BY <2>1, <2>3 DEF ScreenBack, Refuses
  <2> QED
    BY <2>2, <2>3
<1>5. CASE device' = device /\ wished' = wished
  BY <1>1, <1>2, <1>3, <1>5, RecordFrame DEF OthersStay
<1>6. CASE wished' = device'.screen /\ ("crossed" \notin slips' => ~UnderHost /\ ~Crossing(f))
  <2> SUFFICES ASSUME Without({"crossed", "misread"})'
               PROVE  (ScreenRecorded /\ OneActive /\ \A o \in Flows : FlowKnows(o))'
    BY DEF RecordKept
  <2>1. ~UnderHost /\ ~Crossing(f)
    BY <1>6 DEF Without
  <2>2. ScreenRecorded'
    BY <1>3, <1>6, <2>1 DEF ScreenRecorded, UnderHost
  <2>3. \A o \in Flows \ {f} : flow[o].at \notin Active
    BY <2>1 DEF Crossing, ScreenSteps, Active
  <2>4. FlowKnows(f)'
    BY <1>2 DEF FlowKnows, Active, At
  <2> QED
    BY <1>1, <2>2, <2>3, <2>4, OnlyOne
<1> QED
  BY <1>4, <1>5, <1>6

\* All other steps.
LEMMA OthersKeepRecord ==
    ASSUME TypeOK, ThenRestores, RecordKept, slips \subseteq slips',
           \/ \E f \in Flows :
                \/ ChecksGear(f) \/ AppliesGear(f) \/ WritesGear(f) \/ Exits(f)
                \/ NotesSwitch(f) \/ Merges(f) \/ WritesBack(f) \/ Syncs(f) \/ Aligns(f)
                \/ Request(f) \/ Connects(f)
           \/ TickQueues \/ WorkerDecides \/ WorkerWrites \/ Unplugs \/ Crashes \/ UNCHANGED vars
    PROVE  RecordKept'
<1>0. flow \in FlowTypes /\ device \in DeviceTypes /\ \A f \in Flows : flow[f].gear \in Gears
        /\ flow[f].then \notin Active
  BY FlowType, DeviceType DEF FlowTypes, Active
<1> USE DEF config, sending
<1>1. ASSUME NEW f \in Flows, OthersStay(f), flow'[f].at \notin Active,
             device'.screen = device.screen, wished' = wished, record' = record
      PROVE  RecordKept'
  BY <1>1, RecordFrame DEF OthersStay
<1>2. ASSUME NEW f \in Flows,
             \/ Ends(f)
             \/ \E step \in {"apply", "write", "restore", "takeover", "align", "exit"} :
                  Goes(f, step)
      PROVE  OthersStay(f) /\ flow'[f].at \notin Active
  BY <1>2, EndsHere, GoesOn, ZenonT(60) DEF Steps, Active
<1>3. ASSUME NEW f \in Flows,
             ChecksGear(f) \/ NotesSwitch(f) \/ Merges(f) \/ Aligns(f)
               \/ SetHostVariableSpeed(f)
      PROVE  RecordKept'
  <2>1. OthersStay(f) /\ flow'[f].at \notin Active
    BY <1>2, <1>3 DEF ChecksGear, NotesSwitch, Merges, Aligns, SetHostVariableSpeed
  <2> QED
    BY <1>1, <1>3, <2>1 DEF ChecksGear, NotesSwitch, Merges, Aligns, SetHostVariableSpeed
<1>4. ASSUME NEW f \in Flows, AppliesGear(f) \/ WritesGear(f) \/ Exits(f)
      PROVE  RecordKept'
  <2>1. OthersStay(f)
    <3>1. ~Syncs(f)
      BY <1>4, ZenonT(60) DEF AppliesGear, WritesGear, Exits, Syncs, At
    <3>2. QED
      BY <1>4, <3>1, OneMoves, ZenonT(60) DEF Flow
  <2>2. flow'[f].at \in {"write", "apply", "restore", flow[f].then}
    <3>1. ASSUME AppliesGear(f) PROVE flow'[f].at \in {"write", flow[f].then}
      BY <1>0, <3>1 DEF AppliesGear, Goes, FlowTypes
    <3>2. ASSUME WritesGear(f) PROVE flow'[f].at = flow[f].then
      BY <1>0, <3>2 DEF WritesGear, FlowTypes
    <3>3. ASSUME Exits(f) PROVE flow'[f].at \in {"apply", "restore"}
      <4>1. \/ flow' = [flow EXCEPT ![f].at = "apply", ![f].gear = gear,
                                    ![f].then = "restore"]
            \/ flow' = [flow EXCEPT ![f].at = "restore"]
        BY <3>3 DEF Exits, Goes
      <4>2. QED
        BY <1>0, <4>1 DEF FlowTypes
    <3>4. QED
      BY <1>4, <3>1, <3>2, <3>3
  <2>3. flow'[f].at \notin Active
    BY <1>0, <2>2 DEF Active
  <2>4. device'.screen = device.screen
    <3>1. ASSUME AppliesGear(f) \/ Exits(f) PROVE device' = device
      BY <3>1 DEF AppliesGear, Exits
    <3>2. ASSUME WritesGear(f)
          PROVE  \/ device' = device
                 \/ device' = [device EXCEPT !.form = "curve", !.gear = flow[f].gear]
      BY <3>2, ZenonT(60) DEF WritesGear, WritesCurve, CurveFails
    <3>3. QED
      BY <1>0, <1>4, <3>1, <3>2, CurveSet, ZenonT(60)
  <2>5. wished' = wished /\ record' = record
    BY <1>4 DEF AppliesGear, WritesGear, Exits
  <2> QED
    BY <1>1, <2>1, <2>3, <2>4, <2>5
<1>5. ASSUME NEW f \in Flows, WritesBack(f)
      PROVE  RecordKept'
  <2>1. OthersStay(f)
    BY <1>5, OneMoves DEF WritesBack, Flow, Syncs, At
  <2>2. flow'[f].at \notin Active
    BY <1>0, <1>5 DEF WritesBack, Active, FlowTypes, At
  <2>3. device'.screen = device.screen
    BY <1>0, <1>5, CurveSet DEF WritesBack, WritesCurve, CurveFails
  <2> QED
    BY <1>1, <1>5, <2>1, <2>2, <2>3 DEF WritesBack
<1>6. ASSUME NEW f \in Flows, Syncs(f)
      PROVE  RecordKept'
  <2>1. UNCHANGED <<device, wished, record>>
    BY <1>6 DEF Syncs
  <2>2. CASE Goes(f, "align")
    BY <1>1, <1>2, <2>1, <2>2
  <2>3. CASE ~Goes(f, "align")
    <3>1. \A o \in Flows : flow'[o] = flow[o] \/ flow'[o].at \notin Active
      BY <1>6, <2>3, TwoMove DEF Active
    <3> QED
      BY <2>1, <3>1, RecordFrame
  <2> QED
    BY <2>2, <2>3
<1>7. ASSUME NEW f \in Flows,
             \/ Refreshes(f) \/ RestoresConfig(f)
             \/ \E lit \in BOOLEAN : AsksForScreen(f, lit)
             \/ \E g \in Gears : SelectsGear(f, g) \/ SavesProfile(f, g)
      PROVE  RecordKept'
  <2>1. OthersStay(f)
    BY <1>7, OneMoves DEF Refreshes, RestoresConfig, AsksForScreen, SelectsGear, SavesProfile,
       Request, Syncs, At
  <2>2. flow'[f].at \notin Active
    BY <1>0, <1>7 DEF Refreshes, RestoresConfig, AsksForScreen, SelectsGear, SavesProfile,
       FlowTypes, Active
  <2> QED
    BY <1>1, <1>7, <2>1, <2>2, SMTT(60) DEF Refreshes, RestoresConfig, AsksForScreen, SelectsGear,
       SavesProfile
<1>8. ASSUME NEW f \in Flows, Connects(f)
      PROVE  RecordKept'
  <2> SUFFICES ASSUME Without({"crossed", "misread"})'
               PROVE  (ScreenRecorded /\ OneActive /\ \A o \in Flows : FlowKnows(o))'
    BY DEF RecordKept
  <2>1. ScreenRecorded /\ OneActive /\ \A o \in Flows : FlowKnows(o)
    BY SMTT(60) DEF RecordKept, Without
  <2>2. OthersStay(f) /\ flow'[f].at = "sync"
    BY <1>8, GoesOn DEF Connects, Steps
  <2>3. wished' = wished /\ record' = record
    BY <1>8 DEF Connects
  <2>4. device'.screen \in {device.screen, wished}
    BY <1>0, <1>8 DEF Connects, DeviceTypes
  <2>5. ScreenRecorded'
    BY <2>1, <2>3, <2>4 DEF ScreenRecorded
  <2>6. OneActive'
    BY <2>1, <2>2 DEF OneActive, OthersStay, Active
  <2>7. ASSUME NEW o \in Flows
        PROVE  FlowKnows(o)'
    <3>1. CASE o = f
      BY <2>2, <3>1 DEF FlowKnows, At
    <3>2. CASE o # f
      BY <2>1, <2>2, <2>3, <2>4, <3>2 DEF FlowKnows, OthersStay, At
    <3> QED
      BY <3>1, <3>2
  <2> QED
    BY <2>5, <2>6, <2>7
<1>9. CASE TickQueues \/ WorkerDecides \/ WorkerWrites \/ Unplugs \/ UNCHANGED vars
  <2>1. UNCHANGED <<flow, wished, record>>
    BY <1>9 DEF TickQueues, WorkerDecides, WorkerWrites, Unplugs, vars
  <2>2. device'.screen = device.screen
    BY <1>0, <1>9 DEF TickQueues, WorkerDecides, WorkerWrites, Unplugs, vars, DeviceTypes
  <2> QED
    BY <2>1, <2>2, RecordFrame
<1>10. CASE Crashes
  <2>1. \A o \in Flows : flow'[o].at \notin Active
    BY <1>10 DEF Crashes, Idle, Active
  <2> QED
    BY <1>10, <2>1, RecordFrame DEF Crashes
<1> QED
  BY <1>3, <1>4, <1>5, <1>6, <1>7, <1>8, <1>9, <1>10 DEF Request

-----------------------------------------------------------------------------
(* The screen comes back.                                                    *)

TakeSteps == {"takeover", "read", "store"}

\* A step that leaves alone what the return depends on, and moves only flows
\* that have no part in it, or one that is going to have a part.
LEMMA ReturnFrame ==
    ASSUME ReturnKept, slips \subseteq slips',
           hostSpeed' = hostSpeed, record' = record,
           connected' => connected \/ \E o \in Flows : flow'[o].at = "sync",
           device'.form = "fixed" => device.form = "fixed",
           \A o \in Flows :
             \/ flow'[o] = flow[o]
             \/ /\ ~Restoring(o) /\ ~Restoring(o)'
                /\ flow'[o].at \in TakeSteps => flow[o].at \in TakeSteps
             \/ ~Leaving(o) /\ flow'[o].at \in {"sync", "align"}
    PROVE  ReturnKept'
<1> SUFFICES ASSUME Without({"crossed", "unconfirmed", "misread", "refused", "late"})'
             PROVE  (RestoreToCome /\ TakeoverOvertaken /\ RefusedIsNotLast)'
  BY DEF ReturnKept
<1>1. RestoreToCome /\ TakeoverOvertaken /\ RefusedIsNotLast
  BY DEF ReturnKept, Without
<1>2. ASSUME NEW o \in Flows
      PROVE  /\ Leaving(o) => Leaving(o)'
             /\ Returning(o) => Returning(o)'
             /\ Restoring(o) => Restoring(o)'
  BY <1>2 DEF Leaving, Returning, Restoring
<1>3. \A o \in Flows : flow'[o].at = "sync" => Returning(o)' /\ Restoring(o)'
  BY DEF Returning, Restoring
<1>4. RestoreToCome'
  BY <1>1, <1>2, <1>3 DEF RestoreToCome
<1>5. TakeoverOvertaken'
  <2>1. \A o \in Flows : flow'[o].at \in TakeSteps => flow[o].at \in TakeSteps
    BY DEF TakeSteps
  <2> QED
    BY <1>1, <1>2, <2>1 DEF TakeoverOvertaken, TakeSteps
<1>6. RefusedIsNotLast'
  <2> SUFFICES ASSUME (~hostSpeed /\ connected /\ device.form = "fixed")', NEW f \in Flows,
                      flow'[f].at \in {"restore", "light"}, flow'[f].then = "restore"
               PROVE  \E o \in Flows \ {f} : Returning(o)'
    BY DEF RefusedIsNotLast
  <2>1. flow'[f] = flow[f]
    BY DEF Restoring, Returning, Leaving
  <2>2. CASE \E o \in Flows : flow'[o].at = "sync"
    BY <1>3, <2>2
  <2>3. CASE connected
    BY <1>1, <1>2, <2>1, <2>3 DEF RefusedIsNotLast
  <2> QED
    BY <2>2, <2>3
<1> QED
  BY <1>4, <1>5, <1>6

\* The usual case: one flow that has no part in it.
LEMMA ReturnOther ==
    ASSUME ReturnKept, slips \subseteq slips',
           hostSpeed' = hostSpeed, record' = record, connected' = connected,
           device'.form = "fixed" => device.form = "fixed",
           NEW f \in Flows, OthersStay(f), ~Restoring(f), ~Restoring(f)',
           flow'[f].at \in TakeSteps => flow[f].at \in TakeSteps
    PROVE  ReturnKept'
BY ReturnFrame DEF OthersStay

\* A flow that leaves host control answers for all that is to be restored.
LEMMA LeavingAnswers ==
    ASSUME NEW f \in Flows, Leaving(f)',
           flow'[f].at = "restore" /\ flow'[f].then = "restore" =>
             ~(~hostSpeed /\ connected /\ device.form = "fixed")'
    PROVE  ReturnKept'
<1>1. Returning(f)' /\ Restoring(f)' /\ flow'[f].at # "light"
  BY DEF Leaving, Returning, Restoring
<1> QED
  BY <1>1 DEF ReturnKept, RestoreToCome, TakeoverOvertaken, RefusedIsNotLast

\* Under host control nothing is to be restored.
LEMMA HostAnswers ==
    ASSUME hostSpeed'
    PROVE  ReturnKept'
BY DEF ReturnKept, RestoreToCome, TakeoverOvertaken, RefusedIsNotLast

\* Where a flow is that ends, or that has to do with the cooler only.
LEMMA Aside ==
    ASSUME NEW f \in Flows,
           flow[f].at \notin {"sync", "align", "exit", "apply", "write", "restore", "light",
                              "noteLit", "clear"}
    PROVE  ~Restoring(f)
BY DEF Restoring, Returning, Leaving

LEMMA AsideNext ==
    ASSUME NEW f \in Flows,
           flow'[f].at \notin {"sync", "align", "exit", "apply", "write", "restore", "light",
                               "noteLit", "clear"}
    PROVE  ~Restoring(f)'
BY DEF Restoring, Returning, Leaving

\* The takeover of the screen.
LEMMA TakeoverKeepsReturn ==
    ASSUME TypeOK, ReturnKept, slips \subseteq slips', NEW f \in Flows,
           TakesOver(f) \/ ReadsScreen(f) \/ StoresRecord(f) \/ Darkens(f) \/ NotesDark(f)
    PROVE  ReturnKept'
<1>0. flow \in FlowTypes
  BY FlowType
<1>1. OthersStay(f) /\ ~Restoring(f)
  BY OneMoves, Aside DEF TakesOver, ReadsScreen, StoresRecord, Darkens, NotesDark, Flow, Syncs, At
<1>2. Ends(f) => flow'[f].at = "idle"
  BY EndsHere
<1> USE DEF config, sending
<1>3. CASE TakesOver(f) \/ ReadsScreen(f)
  <2>1. flow'[f].at \in {"read", "store", "idle"} /\ flow[f].at \in TakeSteps
    BY <1>0, <1>2, <1>3 DEF TakesOver, ReadsScreen, FlowTypes, TakeSteps, At
  <2>2. ~Restoring(f)'
    BY <2>1, AsideNext
  <2> QED
    BY <1>1, <1>3, <2>1, <2>2, ReturnOther DEF TakesOver, ReadsScreen
<1>4. CASE Darkens(f) \/ NotesDark(f)
  <2>1. flow'[f].at \in {"noteDark", "idle"}
    BY <1>2, <1>4, GoesOn DEF Darkens, NotesDark, Steps
  <2>2. ~Restoring(f)' /\ flow'[f].at \notin TakeSteps
    BY <2>1, AsideNext DEF TakeSteps
  <2>3. device'.form = device.form
    BY <1>4, ScreenSet DEF Darkens, NotesDark, SetsScreen, Refuses, Unconfirmed
  <2> QED
    BY <1>1, <1>4, <2>2, <2>3, ReturnOther DEF Darkens, NotesDark
<1>5. CASE StoresRecord(f)
  <2> SUFFICES ASSUME Without({"crossed", "unconfirmed", "misread", "refused", "late"})'
               PROVE  (RestoreToCome /\ TakeoverOvertaken /\ RefusedIsNotLast)'
    BY DEF ReturnKept
  <2>1. TakeoverOvertaken /\ RefusedIsNotLast
    BY DEF ReturnKept, Without
  <2>2. UNCHANGED <<hostSpeed, connected, device>> /\ flow[f].at = "store"
    BY <1>5, SMTT(60) DEF StoresRecord, At
  <2>3. flow'[f].at \in {"darken", "idle"}
    BY <1>2, <1>5, GoesOn DEF StoresRecord, Steps
  <2>4. ASSUME NEW o \in Flows
        PROVE  (Leaving(o) => Leaving(o)') /\ (Returning(o) => Returning(o)')
    BY <1>1, <2>2 DEF Leaving, Returning, OthersStay
  <2>5. TakeoverOvertaken'
    BY <1>1, <2>1, <2>2, <2>3, <2>4 DEF TakeoverOvertaken, OthersStay
  <2>6. RestoreToCome'
    BY <2>1, <2>2, <2>4 DEF TakeoverOvertaken, RestoreToCome, Restoring, Returning
  <2>7. RefusedIsNotLast'
    BY <1>1, <2>1, <2>2, <2>3, <2>4 DEF RefusedIsNotLast, OthersStay
  <2> QED
    BY <2>5, <2>6, <2>7
<1> QED
  BY <1>3, <1>4, <1>5

\* The restoration of the screen.
LEMMA RestoreKeepsReturn ==
    ASSUME TypeOK, ReturnKept, slips \subseteq slips', NEW f \in Flows,
           Restores(f) \/ Lights(f) \/ NotesLit(f) \/ ClearsRecord(f)
    PROVE  ReturnKept'
<1> SUFFICES ASSUME Without({"crossed", "unconfirmed", "misread", "refused", "late"})'
             PROVE  (RestoreToCome /\ TakeoverOvertaken /\ RefusedIsNotLast)'
  BY DEF ReturnKept
<1>0. flow \in FlowTypes /\ device \in DeviceTypes
  BY FlowType, DeviceType
<1>1. RestoreToCome /\ TakeoverOvertaken /\ RefusedIsNotLast
  BY DEF ReturnKept, Without
<1>2. OthersStay(f)
  BY OneMoves DEF Restores, Lights, NotesLit, ClearsRecord, Flow, Syncs, At
<1>3. Ends(f) => flow'[f].at = "idle"
  BY EndsHere
<1> USE DEF config, sending
\* At the screen a flow has left, and returns no more.
<1>4. ASSUME flow[f].at \in {"light", "noteLit", "clear"}, NEW o \in Flows
      PROVE  (Leaving(o) => o # f /\ Leaving(o)') /\ (Returning(o) => o # f /\ Returning(o)')
  BY <1>2, <1>4 DEF Leaving, Returning, OthersStay
<1>5. ASSUME flow[f].at \in {"light", "noteLit", "clear"}, hostSpeed' = hostSpeed,
             flow'[f].at \notin TakeSteps
      PROVE  TakeoverOvertaken'
  BY <1>1, <1>2, <1>4, <1>5 DEF TakeoverOvertaken, OthersStay, TakeSteps
<1>6. ASSUME flow[f].at \in {"light", "noteLit", "clear"},
             UNCHANGED <<hostSpeed, connected>>, device'.form = device.form,
             \/ flow'[f].at \notin {"restore", "light"}
             \/ flow'[f].at = flow[f].at /\ flow'[f].then = flow[f].then
      PROVE  RefusedIsNotLast'
  BY <1>1, <1>2, <1>4, <1>6 DEF RefusedIsNotLast, OthersStay
<1>7. CASE Restores(f)
  <2>1. ~Crossing(f)
    BY <1>7 DEF Restores, Slipped, Without
  <2>2. \A o \in Flows \ {f} : flow'[o].at \notin TakeSteps \union {"restore", "light"}
    BY <1>2, <2>1 DEF Crossing, ScreenSteps, OthersStay, TakeSteps
  <2>3. UNCHANGED <<hostSpeed, connected, device, record>> /\ flow[f].at = "restore"
    BY <1>7 DEF Restores, At
  <2>4. \/ flow'[f].at = "idle" /\ (~connected \/ record = "none")
        \/ flow'[f].at = "clear"
        \/ flow'[f].at = "light" /\ flow'[f].then = flow[f].then
    <3>1. CASE Ends(f) /\ (~connected \/ record = "none")
      BY <1>3, <3>1
    <3>2. CASE Goes(f, "clear")
      BY <3>2, GoesOn DEF Steps
    <3>3. CASE Goes(f, "light")
      BY <3>3, GoesOn DEF Steps
    <3> QED
      BY <1>7, <3>1, <3>2, <3>3 DEF Restores
  <2>5. TakeoverOvertaken'
    BY <2>2, <2>4 DEF TakeoverOvertaken, TakeSteps
  <2>6. RestoreToCome'
    BY <2>3, <2>4 DEF RestoreToCome, Restoring
  <2>7. \A o \in Flows \ {f} : Returning(o) => Returning(o)'
    BY <1>2 DEF Returning, Leaving, OthersStay
  <2>8. RefusedIsNotLast'
    BY <1>1, <2>2, <2>3, <2>4, <2>7 DEF RefusedIsNotLast
  <2> QED
    BY <2>5, <2>6, <2>8
<1>8. CASE Lights(f)
  <2>1. flow[f].at = "light" /\ UNCHANGED <<hostSpeed, connected, record>>
    BY <1>8 DEF Lights, At
  <2>2. CASE SetsScreen(TRUE) /\ Goes(f, "noteLit")
    <3>1. flow'[f].at = "noteLit"
      BY <2>2, GoesOn DEF Steps
    <3>2. device'.form = "curve"
      BY <2>2, ScreenSet DEF SetsScreen, Accepts
    <3>3. RestoreToCome'
      BY <3>1 DEF RestoreToCome, Restoring
    <3>4. RefusedIsNotLast'
      BY <3>2 DEF RefusedIsNotLast
    <3> QED
      BY <1>5, <2>1, <3>1, <3>3, <3>4 DEF TakeSteps
  <2>3. CASE /\ Refuses(TRUE) /\ GivesUp(f)
             /\ Slipped("refused", flow[f].then = "idle" /\ flow[f].tries + 1 = MaxTries)
    <3>1. device' = device /\ (connected => device.form = "fixed")
      BY <1>0, <2>3 DEF Refuses, Accepts, DeviceTypes, Forms
    <3>2. ~(flow[f].then = "idle" /\ flow[f].tries + 1 = MaxTries)
      BY <2>3 DEF Slipped, Without
    <3>3. \/ flow'[f].at = "idle" /\ flow[f].then = "restore"
          \/ flow'[f].at = "light" /\ flow'[f].then = flow[f].then
      <4>1. flow[f].then \in {"idle", "restore"}
        BY <1>0 DEF FlowTypes
      <4> QED
        BY <2>1, <2>3, <3>2, <4>1, GivesUpHere DEF Idle
    <3>4. RestoreToCome'
      <4>1. CASE flow'[f].at = "light"
        BY <4>1 DEF RestoreToCome, Restoring
      <4>2. CASE flow[f].then = "restore" /\ ~hostSpeed /\ connected
        <5>1. \E o \in Flows \ {f} : Returning(o)
          BY <1>1, <2>1, <3>1, <4>2 DEF RefusedIsNotLast
        <5> QED
          BY <1>4, <2>1, <5>1 DEF RestoreToCome, Restoring
      <4>3. CASE hostSpeed \/ ~connected
        BY <2>1, <4>3 DEF RestoreToCome
      <4> QED
        BY <3>3, <4>1, <4>2, <4>3
    <3>5. RefusedIsNotLast'
      BY <1>6, <2>1, <3>1, <3>3
    <3> QED
      BY <1>5, <2>1, <3>3, <3>4, <3>5 DEF TakeSteps
  <2>4. CASE Slipped("unconfirmed", TRUE)
    BY <2>4 DEF Slipped, Without
  <2> QED
    BY <1>8, <2>2, <2>3, <2>4 DEF Lights
<1>9. CASE NotesLit(f)
  <2>1. flow[f].at = "noteLit" /\ UNCHANGED <<hostSpeed, connected, device, record>>
    BY <1>9 DEF NotesLit, At
  <2>2. flow'[f].at = "clear"
    BY <1>9, GoesOn DEF NotesLit, Steps
  <2>3. RestoreToCome'
    BY <2>2 DEF RestoreToCome, Restoring
  <2> QED
    BY <1>5, <1>6, <2>1, <2>2, <2>3 DEF TakeSteps
<1>10. CASE ClearsRecord(f)
  <2>1. flow[f].at = "clear" /\ UNCHANGED <<hostSpeed, connected, device>> /\ record' = "none"
    BY <1>10 DEF ClearsRecord, At
  <2>2. flow'[f].at = "idle"
    BY <1>3, <1>10 DEF ClearsRecord
  <2>3. RestoreToCome'
    BY <2>1 DEF RestoreToCome
  <2> QED
    BY <1>5, <1>6, <2>1, <2>2, <2>3 DEF TakeSteps
<1> QED
  BY <1>7, <1>8, <1>9, <1>10

\* The gear, on the way out and otherwise.
LEMMA GearKeepsReturn ==
    ASSUME TypeOK, ThenRestores, ReturnKept, slips \subseteq slips', NEW f \in Flows,
           AppliesGear(f) \/ WritesGear(f) \/ Exits(f)
    PROVE  ReturnKept'
<1>0. flow \in FlowTypes /\ flow[f].then \in {"idle", "restore"} /\ flow[f].gear \in Gears
  BY FlowType, SMTT(60) DEF FlowTypes
<1>1. OthersStay(f)
  BY OneMoves, ZenonT(60) DEF AppliesGear, WritesGear, Exits, Flow, Syncs, At
<1> USE DEF config, sending
<1>2. CASE AppliesGear(f) \/ WritesGear(f)
  <2>1. UNCHANGED <<hostSpeed, connected, record>> /\ flow[f].at \in {"apply", "write"}
    BY <1>2 DEF AppliesGear, WritesGear, At
  <2>2. /\ flow'[f].then = flow[f].then
        /\ \/ flow'[f].at = "write"
           \/ flow'[f].at = flow[f].then
    BY <1>0, <1>2, SMTT(60) DEF AppliesGear, WritesGear, Goes, FlowTypes
  <2>3. device'.form = "curve" \/ device'.form = device.form
    BY <1>0, <1>2, CurveSet DEF AppliesGear, WritesGear, WritesCurve, CurveFails
  <2>4. CASE flow[f].then = "idle"
    <3>1. ~Restoring(f) /\ ~Restoring(f)'
      BY <2>1, <2>2, <2>4 DEF Restoring, Returning, Leaving
    <3> QED
      BY <1>1, <2>1, <2>2, <2>3, <2>4, <3>1, ReturnOther DEF TakeSteps
  <2>5. CASE flow[f].then = "restore"
    <3>1. Leaving(f)'
      BY <2>1, <2>2, <2>5 DEF Leaving
    <3>2. CASE "unconfirmed" \in slips'
      BY <3>2 DEF ReturnKept, Without
    <3>3. CASE "unconfirmed" \notin slips' /\ flow'[f].at = "restore"
      <4>1. hostSpeed \/ ~connected \/ WritesCurve(flow[f].gear)
        BY <1>2, <2>2, <3>3, GoesOn DEF AppliesGear, WritesGear, Steps
      <4>2. WritesCurve(flow[f].gear) => device'.form = "curve"
        BY <1>0 DEF WritesCurve, DeviceTypes, TypeOK
      <4> QED
        BY <2>1, <3>1, <4>1, <4>2, LeavingAnswers, SMTT(60)
    <3>4. CASE flow'[f].at # "restore"
      BY <3>1, <3>4, LeavingAnswers
    <3> QED
      BY <3>2, <3>3, <3>4
  <2> QED
    BY <1>0, <2>4, <2>5
<1>3. CASE Exits(f)
  <2>1. CASE hostSpeed
    BY <1>3, <2>1, HostAnswers DEF Exits
  <2>2. CASE ~hostSpeed
    <3>1. flow'[f].at = "apply" /\ flow'[f].then = "restore"
      BY <1>0, <1>3, <2>2 DEF Exits, GearActive, FlowTypes
    <3> QED
      BY <3>1, LeavingAnswers DEF Leaving
  <2> QED
    BY <2>1, <2>2
<1> QED
  BY <1>2, <1>3

\* The other steps of the flows.
LEMMA FlowKeepsReturn ==
    ASSUME TypeOK, ThenRestores, ReturnKept, slips \subseteq slips', NEW f \in Flows,
           \/ ChecksGear(f) \/ NotesSwitch(f) \/ Merges(f) \/ SwitchesScreen(f) \/ WritesBack(f)
           \/ Syncs(f) \/ Aligns(f)
           \/ \E lit \in BOOLEAN : ScreenBack(f, lit)
    PROVE  ReturnKept'
<1>0. flow \in FlowTypes /\ flow[f].gear \in Gears /\ flow[f].lit \in BOOLEAN
        /\ flow[f].then \in {"idle", "restore"}
        /\ \A o \in Flows : flow[o].then \in {"idle", "restore"}
  BY FlowType DEF FlowTypes
<1>1. Ends(f) => flow'[f].at = "idle"
  BY EndsHere
<1> USE DEF config, sending
<1>2. CASE ChecksGear(f)
  <2>1. flow[f].at = "check" /\ flow[f].then = "idle" /\ OthersStay(f)
    BY <1>0, <1>2, OneMoves DEF ChecksGear, At, ThenRestores, Flow, Syncs
  <2>2. flow'[f].at = "idle" \/ (flow'[f].at = "apply" /\ flow'[f].then = "idle")
    BY <1>1, <1>2, <2>1, GoesOn DEF ChecksGear, Steps
  <2>3. ~Restoring(f) /\ ~Restoring(f)' /\ flow'[f].at \notin TakeSteps
    BY <2>1, <2>2 DEF Restoring, Returning, Leaving, TakeSteps
  <2> QED
    BY <1>2, <2>1, <2>3, ReturnOther DEF ChecksGear
<1>3. CASE NotesSwitch(f) \/ Merges(f)
  <2>1. OthersStay(f) /\ flow'[f].at = "idle" /\ flow[f].at \in {"noteSwitch", "merge"}
    BY <1>1, <1>3, OneMoves DEF NotesSwitch, Merges, At, Flow, Syncs
  <2>2. ~Restoring(f) /\ ~Restoring(f)' /\ flow'[f].at \notin TakeSteps
    BY <2>1, Aside, AsideNext DEF TakeSteps
  <2> QED
    BY <1>3, <2>1, <2>2, ReturnOther DEF NotesSwitch, Merges
<1>4. CASE SwitchesScreen(f) \/ \E lit \in BOOLEAN : ScreenBack(f, lit)
  <2>1. OthersStay(f) /\ flow[f].at \in {"switch", "screenBack"}
    BY <1>4, OneMoves DEF SwitchesScreen, ScreenBack, At, Flow, Syncs
  <2>2. UNCHANGED <<hostSpeed, connected, record>>
    BY <1>4 DEF SwitchesScreen, ScreenBack
  <2>3. device'.form = device.form
    BY <1>0, <1>4, ScreenSet DEF SwitchesScreen, ScreenBack, SetsScreen, Refuses, Unconfirmed
  <2>4. CASE hostSpeed
    BY <2>2, <2>4, HostAnswers
  <2>5. CASE ~hostSpeed
    <3>1. flow'[f].at \in {"idle", "noteSwitch"}
      BY <1>1, <1>4, <2>5, GoesOn DEF SwitchesScreen, ScreenBack, Steps
    <3>2. ~Restoring(f) /\ ~Restoring(f)' /\ flow'[f].at \notin TakeSteps
      BY <2>1, <3>1, Aside, AsideNext DEF TakeSteps
    <3> QED
      BY <2>1, <2>2, <2>3, <3>2, ReturnOther, SMTT(60)
  <2> QED
    BY <2>4, <2>5
<1>5. CASE WritesBack(f)
  <2>1. OthersStay(f) /\ flow[f].at = "writeBack"
    BY <1>5, OneMoves DEF WritesBack, At, Flow, Syncs
  <2>2. flow'[f].at \in {"writeBack", "screenBack"}
    BY <1>0, <1>5 DEF WritesBack, FlowTypes, At
  <2>3. ~Restoring(f) /\ ~Restoring(f)' /\ flow'[f].at \notin TakeSteps
    BY <2>1, <2>2, Aside, AsideNext DEF TakeSteps
  <2>4. device'.form = "curve" \/ device'.form = device.form
    BY <1>0, <1>5, CurveSet DEF WritesBack, WritesCurve, CurveFails
  <2> QED
    BY <1>5, <2>1, <2>3, <2>4, ReturnOther DEF WritesBack
<1>6. CASE Syncs(f)
  <2>1. UNCHANGED <<hostSpeed, connected, record, device>> /\ flow[f].at = "sync"
    BY <1>6 DEF Syncs, At
  <2>2. \A o \in Flows :
          \/ flow'[o] = flow[o]
          \/ ~Restoring(o) /\ ~Restoring(o)' /\ flow'[o].at \notin TakeSteps
          \/ ~Leaving(o) /\ flow'[o].at \in {"sync", "align"}
    <3>1. ~Leaving(f)
      BY <2>1 DEF Leaving
    <3>2. CASE Goes(f, "align")
      BY <3>1, <3>2, GoesOn DEF Steps, OthersStay
    <3>3. CASE ~Goes(f, "align")
      <4>1. PICK o \in Flows \ {f} :
              /\ flow[o].at = "idle" /\ flow'[o].at = "apply" /\ flow'[o].then = flow[o].then
              /\ flow'[f].at = "align" /\ \A x \in Flows \ {f, o} : flow'[x] = flow[x]
        BY <1>6, <3>3, TwoMove
      <4>2. flow[o].then = "idle"
        BY <1>0, <4>1 DEF ThenRestores
      <4>3. ~Restoring(o) /\ ~Restoring(o)' /\ flow'[o].at \notin TakeSteps
        BY <4>1, <4>2 DEF Restoring, Returning, Leaving, TakeSteps
      <4> QED
        BY <3>1, <4>1, <4>3
    <3> QED
      BY <3>2, <3>3
  <2> QED
    BY <2>1, <2>2, ReturnFrame
<1>7. CASE Aligns(f)
  <2>1. CASE hostSpeed
    BY <1>7, <2>1, HostAnswers DEF Aligns
  <2>2. CASE ~hostSpeed
    <3>1. flow'[f].at = "restore" /\ flow'[f].then = flow[f].then
      BY <1>7, <2>2, GoesOn DEF Aligns, Steps
    <3>2. flow[f].then = "idle"
      BY <1>0, <1>7 DEF Aligns, ThenRestores, At
    <3> QED
      BY <3>1, <3>2, LeavingAnswers DEF Leaving
  <2> QED
    BY <2>1, <2>2
<1> QED
  BY <1>2, <1>3, <1>4, <1>5, <1>6, <1>7

\* The requests, and all that is not a flow's.
LEMMA OthersKeepReturn ==
    ASSUME TypeOK, ThenRestores, ReturnKept, slips \subseteq slips',
           \/ \E f \in Flows : Request(f) \/ Connects(f)
           \/ TickQueues \/ WorkerDecides \/ WorkerWrites \/ Unplugs \/ Crashes \/ UNCHANGED vars
    PROVE  ReturnKept'
<1>0. flow \in FlowTypes /\ device \in DeviceTypes
        /\ \A o \in Flows : At(o, "idle") => flow[o].then = "idle" /\ ~Restoring(o)
  BY FlowType, DeviceType, Aside DEF FlowTypes, ThenRestores, At
<1> USE DEF config, sending
<1>1. ASSUME NEW f \in Flows, SetHostVariableSpeed(f)
      PROVE  ReturnKept'
  <2>1. CASE hostSpeed'
    BY <2>1, HostAnswers
  <2>2. CASE ~hostSpeed'
    <3>1. flow'[f].at = "exit"
      BY <1>1, <2>2, GoesOn DEF SetHostVariableSpeed, Steps, TypeOK
    <3> QED
      BY <3>1, LeavingAnswers DEF Leaving
  <2> QED
    BY <2>1, <2>2
<1>2. ASSUME NEW f \in Flows,
             \/ Refreshes(f) \/ RestoresConfig(f)
             \/ \E lit \in BOOLEAN : AsksForScreen(f, lit)
             \/ \E g \in Gears : SelectsGear(f, g) \/ SavesProfile(f, g)
      PROVE  ReturnKept'
  <2>1. OthersStay(f)
    BY <1>2, OneMoves DEF Refreshes, RestoresConfig, AsksForScreen, SelectsGear, SavesProfile,
       Request, Syncs, At
  <2>2. ~Restoring(f) /\ flow[f].then = "idle"
    BY <1>0, <1>2 DEF Refreshes, RestoresConfig, AsksForScreen, SelectsGear, SavesProfile
  <2>3. /\ flow'[f].at \in {"merge", "writeBack", "switch", "apply", "check"}
        /\ flow'[f].then = flow[f].then
    BY <1>0, <1>2 DEF Refreshes, RestoresConfig, AsksForScreen, SelectsGear, SavesProfile,
       FlowTypes
  <2>4. ~Restoring(f)' /\ flow'[f].at \notin TakeSteps
    BY <2>2, <2>3 DEF Restoring, Returning, Leaving, TakeSteps
  <2> QED
    BY <1>2, <2>1, <2>2, <2>4, ReturnOther DEF Refreshes, RestoresConfig, AsksForScreen,
       SelectsGear, SavesProfile
<1>3. ASSUME NEW f \in Flows, Connects(f)
      PROVE  ReturnKept'
  <2>1. OthersStay(f) /\ flow'[f].at = "sync" /\ flow[f].at = "idle"
    BY <1>3, GoesOn DEF Connects, Steps, At
  <2>2. ~Leaving(f)
    BY <2>1 DEF Leaving
  <2>3. device'.form = device.form
    BY <1>0, <1>3, ScreenSet DEF Connects, DeviceTypes, TypeOK
  <2> QED
    BY <1>3, <2>1, <2>2, <2>3, ReturnFrame, SMTT(60) DEF Connects, OthersStay
<1>4. CASE TickQueues \/ WorkerDecides \/ Unplugs \/ UNCHANGED vars
  BY <1>4, ReturnFrame DEF TickQueues, WorkerDecides, Unplugs, vars
<1>5. CASE WorkerWrites
  <2>1. CASE hostSpeed
    BY <1>5, <2>1, HostAnswers DEF WorkerWrites
  <2>2. CASE ~connected
    BY <1>5, <2>2, ReturnFrame DEF WorkerWrites
  <2>3. CASE connected /\ ~hostSpeed
    BY <1>5, <2>3 DEF WorkerWrites, Slipped, ReturnKept, Without
  <2> QED
    BY <2>1, <2>2, <2>3
<1>6. CASE Crashes
  <2>1. ~connected' /\ \A o \in Flows : flow'[o].at = "idle"
    BY <1>6 DEF Crashes, Idle
  <2> QED
    BY <2>1 DEF ReturnKept, RestoreToCome, TakeoverOvertaken, RefusedIsNotLast
<1> QED
  BY <1>1, <1>2, <1>3, <1>4, <1>5, <1>6 DEF Request

-----------------------------------------------------------------------------
(* The theorems.                                                             *)

LEMMA InitIInv ==
    ASSUME Init
    PROVE  IInv
<1>1. /\ \A f \in Flows : flow[f] = Idle
      /\ flow = [f \in Flows |-> Idle]
      /\ device = [form |-> "curve", gear |-> gear, screen |-> wished]
  BY DEF Init
<1>2. TypeOK
  <2>1. flow \in FlowTypes /\ device \in DeviceTypes
    BY <1>1, IdleType DEF Init, FlowTypes, DeviceTypes, Forms
  <2>2. budget \in [Events -> Nat]
    BY PanelAssumption DEF Init
  <2> QED
    BY <2>1, <2>2, TypesAre DEF Init, Records, CacheStates
<1>3. ThenRestores
  BY <1>1 DEF ThenRestores, Idle
<1>4. GearKept
  BY <1>1 DEF GearKept, GearRight
<1>5. RecordKept
  BY <1>1 DEF Init, RecordKept, ScreenRecorded, OneActive, FlowKnows, Active, At, Idle
<1>6. ReturnKept
  BY <1>1 DEF Init, ReturnKept, RestoreToCome, TakeoverOvertaken, RefusedIsNotLast, Idle
<1> QED
  BY <1>2, <1>3, <1>4, <1>5, <1>6 DEF IInv

LEMMA NextKeepsIInv ==
    ASSUME IInv, [Next]_vars
    PROVE  IInv'
<1>1. TypeOK /\ ThenRestores /\ GearKept /\ RecordKept /\ ReturnKept /\ slips \subseteq slips'
  BY SlipsStay DEF IInv
<1>2. TypeOK' /\ ThenRestores'
  BY <1>1, NextKeepsTypes, NextKeepsThen
<1>3. ASSUME NEW f \in Flows, Flow(f)
      PROVE  GearKept' /\ RecordKept' /\ ReturnKept'
  <2>1. GearKept'
    BY <1>1, <1>3, FlowKeepsGear
  <2>2. RecordKept'
    <3>1. CASE SwitchesScreen(f)
      BY <1>1, <3>1, SwitchKeepsRecord
    <3>2. CASE \E lit \in BOOLEAN : ScreenBack(f, lit)
      BY <1>1, <3>2, SwitchKeepsRecord
    <3>3. CASE TakesOver(f) \/ ReadsScreen(f) \/ StoresRecord(f) \/ Darkens(f) \/ NotesDark(f)
                 \/ Restores(f) \/ Lights(f) \/ NotesLit(f) \/ ClearsRecord(f)
      BY <1>1, <3>3, ScreenKeepsRecord
    <3> QED
      BY <1>1, <1>3, <3>1, <3>2, <3>3, OthersKeepRecord DEF Flow
  <2>3. ReturnKept'
    BY <1>1, <1>3, TakeoverKeepsReturn, RestoreKeepsReturn, GearKeepsReturn, FlowKeepsReturn
       DEF Flow
  <2> QED
    BY <2>1, <2>2, <2>3
<1>4. ASSUME \/ \E f \in Flows : Request(f) \/ Connects(f)
             \/ TickQueues \/ WorkerDecides \/ WorkerWrites \/ Unplugs \/ Crashes
             \/ UNCHANGED vars
      PROVE  GearKept' /\ RecordKept' /\ ReturnKept'
  <2>1. GearKept'
    BY <1>1, <1>4, OthersKeepGear
  <2>2. RecordKept'
    BY <1>1, <1>4, OthersKeepRecord
  <2>3. ReturnKept'
    BY <1>1, <1>4, OthersKeepReturn
  <2> QED
    BY <2>1, <2>2, <2>3
<1>5. CASE \E f \in Flows : Flow(f)
  BY <1>2, <1>3, <1>5 DEF IInv
<1>6. CASE ~ \E f \in Flows : Flow(f)
  <2>1. \/ \E f \in Flows : Request(f) \/ Connects(f)
        \/ TickQueues \/ WorkerDecides \/ WorkerWrites \/ Unplugs \/ Crashes
        \/ UNCHANGED vars
    BY <1>6 DEF Next
  <2> QED
    BY <1>2, <1>4, <2>1 DEF IInv
<1> QED
  BY <1>5, <1>6

(* The inductive invariant holds in every reachable state.                   *)
THEOREM InvariantHolds == Spec => []IInv
<1>1. Init => IInv
  BY InitIInv
<1>2. IInv /\ [Next]_vars => IInv'
  BY NextKeepsIInv
<1> QED
  BY <1>1, <1>2, PTL DEF Spec

(* Every variable keeps its type.                                            *)
THEOREM TypeCorrect == Spec => []TypeOK
<1>1. IInv => TypeOK
  BY DEF IInv
<1> QED
  BY <1>1, InvariantHolds, PTL

(* Outside host control, when all is done, the cooler runs on the curve of   *)
(* the chosen gear: none of the takeovers, ways out, choices of a gear,      *)
(* crashes and reconnections in between leaves it with a target of the host. *)
THEOREM DeviceAsChosenHolds == Spec => []DeviceAsChosen
<1>1. IInv => DeviceAsChosen
  <2> SUFFICES ASSUME IInv, AtRest, ~hostSpeed, Without({"late", "unconfirmed", "restored"})
               PROVE  device.gear = gear /\ device.form = "curve"
    BY DEF DeviceAsChosen, Without
  <2>1. ~GearToCome
    BY DEF AtRest, At, GearToCome
  <2> QED
    BY <2>1 DEF IInv, GearKept, GearRight, AtRest
<1> QED
  BY <1>1, InvariantHolds, PTL

(* A screen that the user left on and that is dark has its record in the     *)
(* configuration, at every step of every flow and through every crash.       *)
THEOREM DarkIsRecordedHolds == Spec => []DarkIsRecorded
<1>1. IInv => DarkIsRecorded
  BY DEF IInv, RecordKept, ScreenRecorded, DarkIsRecorded, Without
<1> QED
  BY <1>1, InvariantHolds, PTL

(* When control is with the cooler again and all is done, the screen is as   *)
(* the user left it and nothing is left to restore.                          *)
THEOREM ScreenComesBackHolds == Spec => []ScreenComesBack
<1>1. IInv => ScreenComesBack
  <2> SUFFICES ASSUME IInv, AtRest, ~hostSpeed,
                      Without({"crossed", "unconfirmed", "misread", "refused", "late"})
               PROVE  device.screen = wished /\ record = "none"
    BY DEF ScreenComesBack, Without
  <2>1. \A f \in Flows : ~Restoring(f)
    BY Aside DEF AtRest, At
  <2>2. record = "none"
    BY <2>1 DEF IInv, ReturnKept, RestoreToCome, AtRest
  <2>3. ScreenRecorded
    BY DEF IInv, RecordKept, Without
  <2>4. device.screen \in BOOLEAN /\ wished \in BOOLEAN
    BY DeviceType DEF IInv, DeviceTypes, TypeOK
  <2> QED
    BY <2>2, <2>3, <2>4 DEF ScreenRecorded
<1> QED
  BY <1>1, InvariantHolds, PTL

=============================================================================
