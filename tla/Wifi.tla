-------------------------------- MODULE Wifi --------------------------------
(***************************************************************************)
(* The WiFi controller as the core uses it: the manager of WifiRuntime,    *)
(* the user's scan of the network (coreapp/wifi_discovery.go,              *)
(* device/wifi_discovery.go, types/wifi_discovery.go), and the switch to   *)
(* the monitor-only mode, which stops both.                                *)
(*                                                                         *)
(* A scan hands its candidates to a pool of workers; dispatcher and        *)
(* workers wait at the shared control, which the user pauses, resumes and  *)
(* cancels from another goroutine.  A deep scan goes on to the expanded    *)
(* subnets when the common ones answered nothing; every scan has a limit.  *)
(***************************************************************************)
EXTENDS WifiRuntime

CONSTANTS
  Scanners,          \* goroutines that ask for a scan
  Common, Expanded,  \* the candidates of the two phases of a deep scan
  Workers            \* workers of a scan

ASSUME ScanAssumption ==
  /\ Common \cap Expanded = {} /\ Nobody \notin Scanners
  /\ Workers \in Nat \ {0}

VARIABLES
  running,      \* wifiScanRunning
  control,      \* WiFiDiscoveryControl
  scanner,      \* per scanner: where it is
  candidate,    \* per candidate: how far the scan under way has got with it
  offered,      \* the dispatcher has passed Wait
  expired,      \* the time of the scan is up
  stopped,      \* was the scan under way cancelled by the user?
  monitorOnly,  \* monitorOnlyActive
  switching     \* the switch to the monitor-only mode has still to cancel the scan

scanVars == <<running, control, scanner, candidate, offered, expired, stopped,
              monitorOnly, switching>>
wifiVars == <<vars, scanVars>>
others == <<manager, core, told, ctrl, turned, locks, flow>>

Candidates == Common \cup Expanded
NoControl == [paused |-> FALSE, canceled |-> FALSE]
Scans(s, label) == scanner[s] = label
Steps(s, label) == scanner' = [scanner EXCEPT ![s] = label]
Phase(s) == IF Scans(s, "common") THEN Common ELSE Expanded
Scanning(s) == scanner[s] \in {"common", "expanded"}
Busy == {c \in Candidates : candidate[c] \in {"given", "passed"}}
Found == \E c \in Candidates : candidate[c] = "hit"

WifiInit ==
  /\ Init
  /\ running = FALSE /\ control = NoControl
  /\ scanner = [s \in Scanners |-> "idle"]
  /\ candidate = [c \in Candidates |-> "todo"]
  /\ offered = FALSE /\ expired = FALSE /\ stopped = FALSE
  /\ monitorOnly = FALSE /\ switching = FALSE

----------------------------------------------------------------------------
(* ScanWiFiDevices. *)

AsksForScan(s) ==
  /\ Scans(s, "idle") /\ ~monitorOnly /\ Spend("scan")
  /\ Steps(s, "claim")
  /\ UNCHANGED <<others, running, control, candidate, offered, expired, stopped,
                 monitorOnly, switching>>

(* One scan at a time; a second one is refused. *)
\* Mutant: the control is reset before it is known whether a scan runs.
Claim_Resets(s) ==
  /\ Scans(s, "claim")
  /\ control' = NoControl
  /\ running' = TRUE /\ Steps(s, IF running THEN "idle" ELSE "reset")
  /\ UNCHANGED <<vars, candidate, offered, expired, stopped, monitorOnly,
                 switching>>
Claim(s) ==
  /\ Scans(s, "claim")
  /\ running' = TRUE /\ Steps(s, IF running THEN "idle" ELSE "reset")
  /\ UNCHANGED <<vars, control, candidate, offered, expired, stopped, monitorOnly,
                 switching>>

ResetControl(s) ==
  /\ Scans(s, "reset")
  /\ control' = NoControl /\ Steps(s, "common")
  /\ candidate' = [c \in Candidates |-> "todo"]
  /\ offered' = FALSE /\ expired' = FALSE /\ stopped' = FALSE
  /\ UNCHANGED <<vars, running, monitorOnly, switching>>

(* wifiDiscoveryOverallLimit. *)
TimeIsUp(s) ==
  /\ Scanning(s) /\ ~expired
  /\ expired' = TRUE
  /\ UNCHANGED <<vars, running, control, scanner, candidate, offered, stopped,
                 monitorOnly, switching>>

(* WiFiDiscoveryControl.Wait. *)
Passes == ~control.paused /\ ~control.canceled /\ ~expired
\* Mutant: the limit of the scan does not end a pause.
GivesUp_NotExpired == control.canceled
GivesUp == control.canceled \/ expired
Todo(s) == {c \in Phase(s) : candidate[c] = "todo"}

(* The dispatcher waits at the control, then offers the next candidate     *)
(* until a worker takes it.                                                *)
Offer(s) ==
  /\ Scanning(s) /\ ~offered /\ Todo(s) # {} /\ Passes
  /\ offered' = TRUE
  /\ UNCHANGED <<vars, running, control, scanner, candidate, expired, stopped,
                 monitorOnly, switching>>

Take(s, c) ==
  /\ Scanning(s) /\ offered /\ c \in Todo(s) /\ Cardinality(Busy) < Workers
  /\ candidate' = [candidate EXCEPT ![c] = "given"] /\ offered' = FALSE
  /\ UNCHANGED <<vars, running, control, scanner, expired, stopped, monitorOnly,
                 switching>>

(* What the dispatcher does not hand out any more. *)
BreaksOff(s) ==
  /\ Scanning(s) /\ Todo(s) # {}
  /\ \/ ~offered /\ GivesUp
     \/ offered /\ expired
  /\ candidate' = [c \in Candidates |->
                     IF c \in Todo(s) THEN "dropped" ELSE candidate[c]]
  /\ offered' = FALSE
  /\ UNCHANGED <<vars, running, control, scanner, expired, stopped, monitorOnly,
                 switching>>

WorkerWaits(c) ==
  /\ candidate[c] = "given" /\ (Passes \/ GivesUp)
  /\ candidate' = [candidate EXCEPT ![c] = IF Passes THEN "passed" ELSE "dropped"]
  /\ UNCHANGED <<vars, running, control, scanner, offered, expired, stopped,
                 monitorOnly, switching>>

(* probeWiFiDiscoveryCandidate: the controller answers, or nothing does in *)
(* time.                                                                   *)
Probe(c) ==
  /\ candidate[c] = "passed"
  /\ \E answer \in {"hit", "miss"} : candidate' = [candidate EXCEPT ![c] = answer]
  /\ UNCHANGED <<vars, running, control, scanner, offered, expired, stopped,
                 monitorOnly, switching>>

(* wg.Wait, and scanWiFiDiscoveryCandidatesByMode. *)
PhaseEnds(s) ==
  /\ Scanning(s) /\ Todo(s) = {} /\ Busy = {}
  /\ Steps(s, IF Scans(s, "common") /\ ~Found /\ ~expired THEN "expanded" ELSE "answer")
  /\ UNCHANGED <<vars, running, control, candidate, offered, expired, stopped,
                 monitorOnly, switching>>

(* The result is returned with its Canceled flag; the next scan may run. *)
Answer(s) ==
  /\ Scans(s, "answer")
  /\ running' = FALSE /\ Steps(s, "idle") /\ stopped' = FALSE
  /\ UNCHANGED <<vars, control, candidate, offered, expired, monitorOnly,
                 switching>>

----------------------------------------------------------------------------
(* ControlWiFiScan: a cancelled control is not paused or resumed any more. *)

Cancels == control' = [paused |-> FALSE, canceled |-> TRUE]

UserControls ==
  /\ Spend("control")
  /\ \/ /\ ~monitorOnly /\ \E p \in BOOLEAN :
             control' = IF control.canceled THEN control ELSE [control EXCEPT !.paused = p]
        /\ stopped' = stopped
     \/ /\ Cancels
        /\ stopped' = \E s \in Scanners : scanner[s] \in {"common", "expanded", "answer"}
  /\ UNCHANGED <<others, running, scanner, candidate, offered, expired, monitorOnly,
                 switching>>

(* refreshMonitorOnlyRuntime: the mode, the scan, then BlockWrites and the *)
(* disconnect, which are a flow of the manager.                            *)
MonitorOnlyOn ==
  /\ ~monitorOnly /\ Spend("quiet")
  /\ monitorOnly' = TRUE /\ switching' = TRUE
  /\ UNCHANGED <<others, running, control, scanner, candidate, offered, expired,
                 stopped>>

SwitchCancelsScan ==
  /\ switching /\ \E f \in Flows : At(f, "idle")
  /\ Cancels /\ switching' = FALSE
  /\ stopped' = \E s \in Scanners : scanner[s] \in {"common", "expanded", "answer"}
  /\ flow' = [flow EXCEPT ![FreeFlow] = [Idle EXCEPT !.pc = "block", !.kind = "block"]]
  /\ UNCHANGED <<manager, core, told, world, locks, running, scanner, candidate,
                 offered, expired, monitorOnly>>

----------------------------------------------------------------------------
ScanSteps(s) ==
  \/ Claim(s) \/ ResetControl(s) \/ Offer(s) \/ BreaksOff(s) \/ PhaseEnds(s) \/ Answer(s)
  \/ \E c \in Candidates : Take(s, c)
WorkerSteps(c) == WorkerWaits(c) \/ Probe(c)

(* In the monitor-only mode reconnect attempts and switches end at once,   *)
(* and one that has connected disconnects instead of letting writes        *)
(* through.                                                                *)
Manager ==
  /\ Next /\ UNCHANGED scanVars
  /\ monitorOnly => \A f \in Flows :
       At(f, "idle") => flow'[f].kind \notin {"reconnect", "switch"}
  /\ \A f \in Flows : At(f, "finish") =>
       flow'[f].pc \in {"finish", IF monitorOnly THEN "dismiss" ELSE "unblock"}

WifiNext ==
  \/ Manager
  \/ \E s \in Scanners : AsksForScan(s) \/ ScanSteps(s) \/ TimeIsUp(s)
  \/ \E c \in Candidates : WorkerSteps(c)
  \/ UserControls \/ MonitorOnlyOn \/ SwitchCancelsScan

WifiSpec == WifiInit /\ [][WifiNext]_wifiVars
WifiFairSpec ==
  /\ WifiSpec
  /\ \A f \in Callers : WF_wifiVars(Runs(f) /\ UNCHANGED scanVars)
  /\ WF_wifiVars(HealthTick /\ UNCHANGED scanVars)
  /\ WF_wifiVars(Update /\ UNCHANGED scanVars)
  /\ \A l \in Loops : WF_wifiVars(Beats(l) /\ UNCHANGED scanVars)
  /\ \A s \in Scanners : WF_wifiVars(ScanSteps(s) \/ TimeIsUp(s))
  /\ WF_wifiVars(\E c \in Candidates : WorkerSteps(c))
  /\ WF_wifiVars(SwitchCancelsScan)

----------------------------------------------------------------------------
(* A scan the user cancelled asks no further candidate, whatever a second  *)
(* scan that was refused did in between.                                   *)
ScanStops ==
  [][stopped => \A c \in Candidates :
       candidate[c] = "given" => candidate'[c] # "passed"]_wifiVars

(* Every call of the manager returns, a disconnect and a BlockWrites that  *)
(* wait for the operation under way too; and every scan ends, one that     *)
(* stays paused by its limit.                                              *)
EverythingReturns ==
  /\ \A f \in Flows : []<>At(f, "idle")
  /\ \A s \in Scanners : []<>Scans(s, "idle")

(* Known departures. *)

(* Once the monitor-only mode is on and has stopped what ran, no candidate *)
(* is asked: a scan that has claimed its turn resets the control.          *)
QuietScans ==
  [][monitorOnly /\ ~switching => \A c \in Candidates :
       candidate[c] = "given" => candidate'[c] # "passed"]_wifiVars
============================================================================
