------------------------------- MODULE Panel -------------------------------
(* Who turns the fan of a Black Shark cooler under automatic control, and    *)
(* what goes with it (coreapp/blackshark.go). Under host control the core writes fixed speeds  *)
(* (form "fixed") and switches the cooler's screen off, after it has noted   *)
(* in the configuration whether the screen was on. Otherwise the cooler      *)
(* follows the curve of the chosen gear by itself (form "curve"): writing a  *)
(* curve is also what selects the gear. The firmware refuses to switch the   *)
(* screen on while the form is fixed.                                        *)
(*                                                                           *)
(* A flow is a goroutine: a request of the panel, the work a request leaves  *)
(* behind, the synchronisation after a connect, or a refresh of the cached   *)
(* state. Nothing orders the flows but Manager.mutex, held for one write or  *)
(* one query, and the lock of the configuration store, held for one commit.  *)
EXTENDS Integers, FiniteSets

CONSTANTS
    Flows,      \* goroutines at work at the same time
    GearCount,  \* deviceproto.BlackSharkGearCount
    MaxTries,   \* attempts to switch the screen on again
    Mixes       \* budgets of events: a behaviour draws on one of them

Events == {"toggle", "switch", "select", "refresh", "restore", "unplug", "crash", "fail"}
Gears == 1 .. GearCount
Forms == {"fixed", "curve"}
Records == {"none", "on", "off"}            \* BlackSharkLcdScreenBeforeHostSpeed
CacheStates == {"none", "unknown", "on", "off"} \* LcdScreen in BlackSharkStateCache
Slips == {"crossed", "late", "unconfirmed", "misread", "refused", "restored"}

ASSUME PanelAssumption ==
    /\ GearCount \in Nat \ {0} /\ MaxTries \in Nat \ {0}
    /\ Mixes \subseteq [Events -> Nat]

VARIABLES
    hostSpeed,  \* BlackSharkHostVariableSpeed
    gear,       \* the gear whose profile is chosen, among the four of the cooler
    record,     \* the screen as it was before host control
    cache,      \* the screen as the cached state has it
    device,     \* form, gear and screen of the cooler
    connected,
    flow,       \* what each goroutine does and has read
    pending,    \* a target is queued, or the push worker has taken it
    writing,    \* the worker has seen host control and is about to write
    budget,
    wished,     \* history: the screen as the user left it
    slips       \* history: what went wrong in a way the properties except

config == <<hostSpeed, gear, record, cache>>
sending == <<pending, writing>>
vars == <<config, device, connected, flow, sending, budget, wished, slips>>

Idle == [at |-> "idle", lit |-> FALSE, record |-> "none", gear |-> 1, tries |-> 0, then |-> "idle"]
Steps == {"idle", "exit", "check", "apply", "write", "restore", "light", "noteLit", "clear",
          "takeover", "read", "store", "darken", "noteDark", "switch", "noteSwitch",
          "merge", "writeBack", "screenBack", "sync", "align"}

TypeOK ==
    /\ hostSpeed \in BOOLEAN /\ gear \in Gears
    /\ record \in Records /\ cache \in CacheStates
    /\ device \in [form : Forms, gear : Gears, screen : BOOLEAN]
    /\ connected \in BOOLEAN
    /\ flow \in [Flows -> [at : Steps, lit : BOOLEAN, record : Records, gear : Gears,
                           tries : 0 .. MaxTries - 1, then : {"idle", "restore"}]]
    /\ pending \in BOOLEAN /\ writing \in BOOLEAN
    /\ budget \in [Events -> Nat]
    /\ wished \in BOOLEAN /\ slips \subseteq Slips

(* The core has just started with a cooler that does what is chosen.         *)
Init ==
    /\ hostSpeed = FALSE /\ record = "none" /\ cache = "none"
    /\ gear \in Gears
    /\ wished \in BOOLEAN
    /\ device = [form |-> "curve", gear |-> gear, screen |-> wished]
    /\ connected = TRUE
    /\ flow = [f \in Flows |-> Idle]
    /\ pending = FALSE /\ writing = FALSE
    /\ budget \in Mixes
    /\ slips = {}

At(f, step) == flow[f].at = step
Spend(event) == budget[event] > 0 /\ budget' = [budget EXCEPT ![event] = @ - 1]
Goes(f, step) == flow' = [flow EXCEPT ![f].at = step]
Ends(f) == flow' = [flow EXCEPT ![f] = Idle]
Slipped(which, condition) == slips' = IF condition THEN slips \union {which} ELSE slips
OnOff(lit) == IF lit THEN "on" ELSE "off"

-----------------------------------------------------------------------------
(* The device layer.                                                         *)

(* setBlackSharkSwitchLocked for the screen: written and confirmed.          *)
Accepts(lit) == connected /\ (lit => device.form = "curve")
SetsScreen(lit) == Accepts(lit) /\ device' = [device EXCEPT !.screen = lit]
(* No cooler, or the firmware refuses.                                       *)
Refuses(lit) == ~Accepts(lit) /\ UNCHANGED device
(* No answer: the switch may or may not have reached the cooler.             *)
Unconfirmed(lit) ==
    /\ Accepts(lit) /\ Spend("fail")
    /\ \/ UNCHANGED device
       \/ device' = [device EXCEPT !.screen = lit]

(* SetBlackSharkCoolingCurve: writing the curve of a gear selects the gear.  *)
WritesCurve(g) == connected /\ device' = [device EXCEPT !.form = "curve", !.gear = g]
CurveFails(g) ==
    /\ connected /\ Spend("fail")
    /\ \/ UNCHANGED device
       \/ device' = [device EXCEPT !.form = "curve", !.gear = g]

-----------------------------------------------------------------------------
(* The screen follows the switch of host control.                            *)

ScreenSteps == {"takeover", "read", "store", "darken", "noteDark", "restore", "light",
                "noteLit", "clear", "switch", "noteSwitch", "screenBack"}

(* Another flow is busy with the screen: no lock keeps the two apart.        *)
Crossing(f) == \E o \in Flows \ {f} : flow[o].at \in ScreenSteps

(* Host control has the screen, or has yet to give it back.                  *)
UnderHost == hostSpeed \/ record # "none"

(* applyVerifiedBlackSharkSwitch: only what has a cached state is noted.     *)
Noted(lit) == cache' = IF cache = "none" THEN cache ELSE OnOff(lit)

(* applyBlackSharkLcdScreensaverForHostSpeed(true), until the query.         *)
TakesOver(f) ==
    /\ At(f, "takeover")
    /\ IF connected
       THEN flow' = [flow EXCEPT ![f].at = "read", ![f].record = record]
       ELSE Ends(f)
    /\ Slipped("crossed", Crossing(f))
    /\ UNCHANGED <<config, device, connected, sending, budget, wished>>

(* The query of the screen; when it fails, the cached state if it knows.     *)
ReadsScreen(f) ==
    /\ At(f, "read")
    /\ \/ /\ connected
          /\ flow' = [flow EXCEPT ![f].at = "store", ![f].lit = device.screen]
          /\ UNCHANGED <<budget, slips>>
       \/ /\ IF connected THEN Spend("fail") ELSE UNCHANGED budget
          /\ IF cache \in {"on", "off"}
             THEN flow' = [flow EXCEPT ![f].at = "store", ![f].lit = (cache = "on")]
             ELSE Ends(f)
          /\ Slipped("misread", cache = OnOff(~device.screen))
    /\ UNCHANGED <<config, device, connected, sending, wished>>

(* Mutant: the screen goes dark first, the record is stored afterwards. *)
StoresRecord_Later(f) ==
    /\ At(f, "store")
    /\ IF flow[f].lit /\ connected /\ flow[f].record = "none"
       THEN /\ device' = [device EXCEPT !.screen = FALSE]
            /\ flow' = [flow EXCEPT ![f].record = "on"]
            /\ UNCHANGED record
       ELSE /\ record' = OnOff(flow[f].lit) /\ Ends(f) /\ UNCHANGED device
    /\ UNCHANGED <<hostSpeed, gear, cache, connected, sending, budget, wished, slips>>

(* The record is stored before the screen goes dark, unless there was one.   *)
StoresRecord(f) ==
    /\ At(f, "store")
    /\ IF flow[f].record = "none"
       THEN record' = OnOff(flow[f].lit) ELSE UNCHANGED record
    /\ IF flow[f].lit THEN Goes(f, "darken") ELSE Ends(f)
    /\ UNCHANGED <<hostSpeed, gear, cache, device, connected, sending, budget, wished, slips>>

Darkens(f) ==
    /\ At(f, "darken")
    /\ \/ /\ SetsScreen(FALSE) /\ Goes(f, "noteDark") /\ UNCHANGED <<slips, budget>>
       \/ /\ Refuses(FALSE) /\ Ends(f) /\ UNCHANGED <<slips, budget>>
       \/ /\ Unconfirmed(FALSE) /\ Ends(f) /\ Slipped("unconfirmed", TRUE)
    /\ UNCHANGED <<config, connected, sending, wished>>

NotesDark(f) ==
    /\ At(f, "noteDark")
    /\ Noted(FALSE) /\ Ends(f)
    /\ UNCHANGED <<hostSpeed, gear, record, device, connected, sending, budget, wished, slips>>

(* restoreBlackSharkLcdScreensaver: the record alone decides.                *)
Restores(f) ==
    /\ At(f, "restore")
    /\ \/ (~connected \/ record = "none") /\ Ends(f)
       \/ connected /\ record = "off" /\ Goes(f, "clear")
       \/ connected /\ record = "on" /\ Goes(f, "light")
    /\ Slipped("crossed", Crossing(f))
    /\ UNCHANGED <<config, device, connected, sending, budget, wished>>

GivesUp(f) ==
    IF flow[f].tries + 1 = MaxTries
    THEN Ends(f) ELSE flow' = [flow EXCEPT ![f].tries = @ + 1]

(* Up to MaxTries attempts; the record outlives them when all fail.          *)
Lights(f) ==
    /\ At(f, "light")
    /\ \/ /\ SetsScreen(TRUE) /\ Goes(f, "noteLit") /\ UNCHANGED <<slips, budget>>
       \/ /\ Refuses(TRUE) /\ GivesUp(f)
          /\ Slipped("refused", flow[f].then = "idle" /\ flow[f].tries + 1 = MaxTries)
          /\ UNCHANGED budget
       \/ /\ Unconfirmed(TRUE) /\ GivesUp(f) /\ Slipped("unconfirmed", TRUE)
    /\ UNCHANGED <<config, connected, sending, wished>>

NotesLit(f) ==
    /\ At(f, "noteLit")
    /\ Noted(TRUE) /\ Goes(f, "clear")
    /\ UNCHANGED <<hostSpeed, gear, record, device, connected, sending, budget, wished, slips>>

ClearsRecord(f) ==
    /\ At(f, "clear")
    /\ record' = "none" /\ Ends(f)
    /\ UNCHANGED <<hostSpeed, gear, cache, device, connected, sending, budget, wished, slips>>

-----------------------------------------------------------------------------
(* The gear.                                                                 *)

(* activeBlackSharkGear: under host control no gear's profile is active.     *)
GearActive == ~hostSpeed

(* applyBlackSharkGear, until the write.                                     *)
AppliesGear(f) ==
    /\ At(f, "apply")
    /\ IF connected /\ ~hostSpeed
       THEN Goes(f, "write")
       ELSE flow' = [flow EXCEPT ![f].at = flow[f].then]
    /\ UNCHANGED <<config, device, connected, sending, budget, wished, slips>>

(* The curve of the gear, whatever has been decided since.                   *)
WritesGear(f) ==
    LET g == flow[f].gear
        overtaken == hostSpeed \/ g # gear
    IN  /\ At(f, "write")
        /\ flow' = [flow EXCEPT ![f].at = flow[f].then]
        /\ \/ /\ ~connected /\ UNCHANGED <<device, slips, budget>>
           \/ /\ WritesCurve(g) /\ UNCHANGED budget
              /\ Slipped("late", overtaken)
           \/ /\ CurveFails(g)
              /\ slips' = slips \union {"unconfirmed"}
                                \union IF overtaken THEN {"late"} ELSE {}
        /\ UNCHANGED <<config, connected, sending, wished>>

(* A profile is chosen: dispatchGearActivationForCurveProfile starts a       *)
(* goroutine of its own for each choice.                                     *)
SelectsGear(f, g) ==
    /\ At(f, "idle") /\ GearActive /\ Spend("select")
    /\ gear' = g
    /\ flow' = [flow EXCEPT ![f].at = "apply", ![f].gear = g]
    /\ UNCHANGED <<hostSpeed, record, cache, device, connected, sending, wished, slips>>

(* The profile of a gear is saved: dispatchGearCurveWriteForCurveProfile.    *)
SavesProfile(f, g) ==
    /\ At(f, "idle") /\ GearActive /\ Spend("select")
    /\ flow' = [flow EXCEPT ![f].at = "check", ![f].gear = g]
    /\ UNCHANGED <<config, device, connected, sending, wished, slips>>

(* Its curve is written only when the cooler reports that gear: a look under *)
(* Manager.mutex, the write later.                                           *)
ChecksGear(f) ==
    /\ At(f, "check")
    /\ IF connected /\ ~hostSpeed /\ device.gear = flow[f].gear
       THEN Goes(f, "apply") ELSE Ends(f)
    /\ UNCHANGED <<config, device, connected, sending, budget, wished, slips>>

-----------------------------------------------------------------------------
(* Requests.                                                                 *)

(* SetBlackSharkHostVariableSpeed: the commit under CoreApp.mutex. What      *)
(* follows is not under it, and on the way out is a goroutine.               *)
SetHostVariableSpeed(f) ==
    /\ At(f, "idle") /\ Spend("toggle")
    /\ hostSpeed' = ~hostSpeed
    /\ Goes(f, IF hostSpeed THEN "exit" ELSE "takeover")
    /\ UNCHANGED <<gear, record, cache, device, connected, sending, wished, slips>>

(* Mutant: the screen is switched on before the cooler has its curve back. *)
Exits_ScreenOnly(f) ==
    /\ At(f, "exit")
    /\ flow' = [flow EXCEPT ![f].at = "restore", ![f].then = "restore"]
    /\ UNCHANGED <<config, device, connected, sending, budget, wished, slips>>

(* The goroutine of the way out: first the gear, then the screen.            *)
Exits(f) ==
    /\ At(f, "exit")
    /\ IF GearActive
       THEN flow' = [flow EXCEPT ![f].at = "apply", ![f].gear = gear, ![f].then = "restore"]
       ELSE Goes(f, "restore")
    /\ UNCHANGED <<config, device, connected, sending, budget, wished, slips>>

(* ReqSetBlackSharkLcdScreenEnabled: locked under host control.              *)
AsksForScreen(f, lit) ==
    /\ At(f, "idle") /\ ~hostSpeed /\ connected /\ Spend("switch")
    /\ flow' = [flow EXCEPT ![f].at = "switch", ![f].lit = lit]
    /\ UNCHANGED <<config, device, connected, sending, wished, slips>>

SwitchesScreen(f) ==
    LET lit == flow[f].lit
    IN  /\ At(f, "switch")
        /\ \/ /\ SetsScreen(lit) /\ wished' = lit /\ Goes(f, "noteSwitch")
              /\ Slipped("crossed", UnderHost \/ Crossing(f)) /\ UNCHANGED budget
           \/ /\ Refuses(lit) /\ Ends(f) /\ UNCHANGED <<wished, slips, budget>>
           \/ /\ Unconfirmed(lit) /\ Ends(f)
              /\ wished' = device'.screen
              /\ slips' = slips \union {"unconfirmed"}
                                \union IF UnderHost \/ Crossing(f) THEN {"crossed"} ELSE {}
        /\ UNCHANGED <<config, connected, sending>>

NotesSwitch(f) ==
    /\ At(f, "noteSwitch")
    /\ Noted(flow[f].lit) /\ Ends(f)
    /\ UNCHANGED <<hostSpeed, gear, record, device, connected, sending, budget, wished, slips>>

(* refreshBlackSharkStateAsync: one at a time; the query, then the store.    *)
Refreshes(f) ==
    /\ At(f, "idle") /\ connected /\ Spend("refresh")
    /\ \A o \in Flows : ~At(o, "merge")
    /\ flow' = [flow EXCEPT ![f].at = "merge", ![f].lit = device.screen]
    /\ UNCHANGED <<config, device, connected, sending, wished, slips>>

(* mergeBlackSharkSwitchStatesKnown: what was not read keeps its old value.  *)
Merges(f) ==
    /\ At(f, "merge")
    /\ \/ cache' = OnOff(flow[f].lit) /\ UNCHANGED budget
       \/ Spend("fail") /\ cache' = IF cache = "none" THEN "unknown" ELSE cache
    /\ Ends(f)
    /\ UNCHANGED <<hostSpeed, gear, record, device, connected, sending, wished, slips>>

(* ReqRestoreBlackSharkConfig: a snapshot with the curves of all gears.      *)
RestoresConfig(f) ==
    /\ At(f, "idle") /\ connected /\ Spend("restore")
    /\ flow' = [flow EXCEPT ![f].at = "writeBack", ![f].gear = 1]
    /\ UNCHANGED <<config, device, connected, sending, wished, slips>>

(* RestoreBlackSharkConfig writes gear after gear, and ends in the last one. *)
WritesBack(f) ==
    LET g == flow[f].gear
    IN  /\ At(f, "writeBack")
        /\ flow' = IF g < GearCount THEN [flow EXCEPT ![f].gear = g + 1]
                                    ELSE [flow EXCEPT ![f].at = "screenBack"]
        /\ \/ ~connected /\ UNCHANGED <<device, slips, budget>>
           \/ WritesCurve(g) /\ Slipped("restored", TRUE) /\ UNCHANGED budget
           \/ CurveFails(g) /\ slips' = slips \union {"restored", "unconfirmed"}
        /\ UNCHANGED <<config, connected, sending, wished>>

(* The screen of the snapshot; under host control it is switched off again.  *)
ScreenBack(f, lit) ==
    /\ At(f, "screenBack")
    /\ \/ /\ SetsScreen(lit) /\ wished' = lit /\ UNCHANGED budget
          /\ slips' = slips \union {"restored"} \union IF UnderHost \/ Crossing(f) THEN {"crossed"} ELSE {}
       \/ Refuses(lit) /\ UNCHANGED <<wished, slips, budget>>
       \/ /\ Unconfirmed(lit) /\ wished' = device'.screen
          /\ slips' = slips \union {"restored", "unconfirmed"}
                            \union IF UnderHost \/ Crossing(f) THEN {"crossed"} ELSE {}
    /\ IF hostSpeed THEN Goes(f, "takeover") ELSE Ends(f)
    /\ UNCHANGED <<config, connected, sending>>

-----------------------------------------------------------------------------
(* The targets of the control tick, and the worker that writes them.          *)

(* The tick queues its target for the worker, without asking who controls.   *)
TickQueues ==
    /\ connected /\ ~pending /\ pending' = TRUE
    /\ UNCHANGED <<config, device, connected, flow, writing, budget, wished, slips>>

(* setTargetSpeedWithMode, in the worker, asks who controls the speed; when  *)
(* the cooler follows its curve there is nothing to send.                    *)
WorkerDecides ==
    /\ pending /\ ~writing
    /\ pending' = FALSE /\ writing' = hostSpeed
    /\ UNCHANGED <<config, device, connected, flow, budget, wished, slips>>

(* Then it writes the target, in the gear the cooler reports.                *)
WorkerWrites ==
    /\ writing /\ writing' = FALSE
    /\ IF connected THEN device' = [device EXCEPT !.form = "fixed"] ELSE UNCHANGED device
    /\ Slipped("late", connected /\ ~hostSpeed)
    /\ UNCHANGED <<config, connected, flow, pending, budget, wished>>

-----------------------------------------------------------------------------
(* The world.                                                                *)

Unplugs ==
    /\ connected /\ connected' = FALSE /\ Spend("unplug")
    /\ UNCHANGED <<config, device, flow, sending, wished, slips>>

(* The core dies between two steps. What is committed stays.                 *)
Crashes ==
    /\ Spend("crash")
    /\ connected' = FALSE /\ flow' = [f \in Flows |-> Idle]
    /\ pending' = FALSE /\ writing' = FALSE
    /\ UNCHANGED <<config, device, wished, slips>>

(* A connect starts postConnectSync. A cooler that was without power shows   *)
(* its screen as the user left it.                                           *)
Connects(f) ==
    /\ ~connected /\ At(f, "idle")
    /\ connected' = TRUE
    /\ \E lit \in {device.screen, wished} : device' = [device EXCEPT !.screen = lit]
    /\ Goes(f, "sync")
    /\ UNCHANGED <<config, sending, budget, wished, slips>>

(* Mutant: a connect does not write the curve of the gear. *)
Syncs_NoCurve(f) ==
    /\ At(f, "sync")
    /\ Goes(f, "align")
    /\ UNCHANGED <<config, device, connected, sending, budget, wished, slips>>

(* reassertBlackSharkInverterGear: the curve is written by another goroutine.*)
Syncs(f) ==
    /\ At(f, "sync")
    /\ IF connected /\ GearActive
       THEN \E g \in Flows \ {f} :
              /\ At(g, "idle")
              /\ flow' = [flow EXCEPT ![f].at = "align", ![g].at = "apply", ![g].gear = gear]
       ELSE Goes(f, "align")
    /\ UNCHANGED <<config, device, connected, sending, budget, wished, slips>>

(* applyBlackSharkLcdScreensaverForHostSpeed with what is configured now.    *)
Aligns(f) ==
    /\ At(f, "align")
    /\ Goes(f, IF hostSpeed THEN "takeover" ELSE "restore")
    /\ UNCHANGED <<config, device, connected, sending, budget, wished, slips>>

-----------------------------------------------------------------------------

Flow(f) ==
    \/ TakesOver(f) \/ ReadsScreen(f) \/ StoresRecord(f) \/ Darkens(f) \/ NotesDark(f)
    \/ Restores(f) \/ Lights(f) \/ NotesLit(f) \/ ClearsRecord(f)
    \/ ChecksGear(f) \/ AppliesGear(f) \/ WritesGear(f) \/ Exits(f)
    \/ SwitchesScreen(f) \/ NotesSwitch(f) \/ Merges(f)
    \/ WritesBack(f) \/ Syncs(f) \/ Aligns(f)
    \/ \E lit \in BOOLEAN : ScreenBack(f, lit)

Request(f) ==
    \/ SetHostVariableSpeed(f) \/ Refreshes(f) \/ RestoresConfig(f)
    \/ \E lit \in BOOLEAN : AsksForScreen(f, lit)
    \/ \E g \in Gears : SelectsGear(f, g) \/ SavesProfile(f, g)

Next ==
    \/ \E f \in Flows : Flow(f) \/ Request(f) \/ Connects(f)
    \/ TickQueues \/ WorkerDecides \/ WorkerWrites
    \/ Unplugs \/ Crashes

Spec == Init /\ [][Next]_vars

-----------------------------------------------------------------------------

AtRest == connected /\ ~pending /\ ~writing /\ \A f \in Flows : At(f, "idle")

(* A screen that the user left on and that is dark has its record, at every  *)
(* step, through crashes, lost connections and failed writes: so a later     *)
(* connect can switch it on again. The exception is two flows that cross.    *)
DarkIsRecorded ==
    wished /\ ~device.screen /\ slips \intersect {"crossed", "misread"} = {}
    => record = "on"

(* When control is with the cooler again and all is done, the screen is      *)
(* as the user left it and nothing is left to restore, whatever sequence of  *)
(* takeovers, crashes and reconnections went before.                         *)
ScreenComesBack ==
    AtRest /\ ~hostSpeed
        /\ slips \intersect {"crossed", "unconfirmed", "misread", "refused", "late"} = {}
    => device.screen = wished /\ record = "none"

(* Outside host control the cooler runs on the curve of the chosen gear: it  *)
(* is not left with the last target of the host.                             *)
DeviceAsChosen ==
    AtRest /\ ~hostSpeed /\ slips \intersect {"late", "unconfirmed", "restored"} = {}
    => device.gear = gear /\ device.form = "curve"

(* A restored snapshot leaves the cooler in the gear that is chosen: writing *)
(* a curve selects its gear, so every write to another gear has to be        *)
(* followed by one to the chosen gear.                                       *)
RestoreKeepsGear ==
    AtRest /\ ~hostSpeed /\ slips \subseteq {"restored"} => device.gear = gear

(* Without the exception: the screen that was on comes back on, or will.     *)
ScreenIsNotLost == wished /\ ~device.screen => record = "on"

(* Without the exception: the cooler is never left with a fixed speed.       *)
NeverStuck ==
    AtRest /\ ~hostSpeed /\ slips \subseteq {"late", "crossed"} => device.form = "curve"
=============================================================================
