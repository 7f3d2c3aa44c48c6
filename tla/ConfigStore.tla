---------------------------- MODULE ConfigStore ----------------------------
(***************************************************************************)
(* The configuration manager (config/config.go) and the requests of the   *)
(* core that change the configuration (coreapp/config_control.go,          *)
(* monitoring.go, noise_diagnostic.go, device_manager_config.go).          *)
(*                                                                         *)
(* A request is one of three sorts.  A whole-snapshot request copies the   *)
(* configuration, changes its copy and stores all of it with Update.  A    *)
(* narrow request changes one field of the current configuration with      *)
(* MutateAndSave.  A gated request does the same, but only if the revision *)
(* it has read is still the current one.  Update, MutateAndSave and        *)
(* MutateIfRevisionAndSave hold the manager's lock while the file is       *)
(* written; a.mutex is held by some of the requests only.                  *)
(*                                                                         *)
(* A configuration is a function from Fields to small numbers, 0 being the *)
(* default.  A file is written to a temporary file and renamed; any write  *)
(* may fail, and the process may die at any step.                          *)
(***************************************************************************)
EXTENDS Naturals, Sequences, FiniteSets, FiniteSetsExt

CONSTANTS
  Callers,      \* goroutines that change the configuration, once each
  Nobody,       \* no holder of a lock
  Absent, Torn, \* a file that does not exist, one that cannot be parsed
  Mixes,        \* for each caller, the request it makes: [kind, value]
  Disks,        \* the files found at the first start
  MaxFailures,  \* bound: writes that fail
  MaxCrashes    \* bound: deaths of the process

ASSUME NobodyAssumption == Nobody \notin Callers
ASSUME BoundsAssumption == MaxFailures \in Nat /\ MaxCrashes \in Nat

Fields == {"settings", "gear", "light", "learned", "scan", "noise", "retention"}
Config == [Fields -> Nat]
Defaults == [f \in Fields |-> 0]

(* UpdateConfig; SetFanCurve and its like; ResetLearnedOffsets;            *)
(* SetManualGear; SetCustomSpeed; SetAutoControl(false);                   *)
(* SetTemperatureHistoryRetentionHours.                                    *)
Whole == {"settings", "curve", "reset", "gear", "custom", "auto", "retention"}
(* SetGearLight and its like; persistNativeBLEAutoScanCooldown. *)
Narrow == {"light", "scan"}
(* The learning of the temperature monitor; SaveNoiseDiagnosticResult. *)
Gated == {"learn", "diagnosis"}
Kinds == Whole \cup Narrow \cup Gated

FieldOf(k) == CASE k \in {"settings", "curve"} -> "settings"
                [] k \in {"gear", "custom", "auto"} -> "gear"
                [] k \in {"reset", "learn"} -> "learned"
                [] k = "diagnosis" -> "noise"
                [] OTHER -> k

(* The files in the order in which Load looks for them: the portable       *)
(* directory, the installation root of old versions, the user's directory, *)
(* the user's directories of old versions, and the settings of the first   *)
(* portable versions, which stand for the configuration made from them.    *)
LoadOrder == <<"portable", "root", "user", "old", "settings">>
Places == {LoadOrder[i] : i \in DOMAIN LoadOrder}

Files == [Places -> {Absent, Torn} \cup Config]

Request == [kind : Kinds, value : Nat]

(* A file that is missing or cannot be parsed holds no configuration. *)
ASSUME FilesAssumption == Absent \notin Config /\ Torn \notin Config
ASSUME MixesAssumption == Mixes \subseteq [Callers -> Request]
ASSUME DisksAssumption == Disks \subseteq Files

VARIABLES
  mix,       \* the requests of this behaviour
  running,   \* is the core running?
  memory,    \* Manager.config
  revision,  \* Manager.revision
  path,      \* Manager.config.ConfigPath
  mu,        \* holder of Manager.mu for writing
  core,      \* holder of a.mutex
  files,     \* the configuration files
  call,      \* per caller: pc, its copy, the copy's revision, ...
  history,   \* the retention the temperature history works with
  gui,       \* the front end's copy of the configuration
  guiRev,    \* history variable: the revision that copy was read at
  kept,      \* history variable: the last stored value of each field
  excused,   \* history variable: a known way to lose a change has happened
  failures,  \* writes that have failed
  crashes    \* deaths so far

vars == <<mix, running, memory, revision, path, mu, core, files, call, history,
          gui, guiRev, kept, excused, failures, crashes>>
store == <<memory, revision, path, mu, files>>
ghosts == <<kept, excused>>
bounds == <<mix, running, failures, crashes>>

PCs == {"idle", "device", "lock", "fill", "update", "save", "rename", "reget",
        "publish", "undo", "done", "failed"}
Kind(c) == mix[c].kind
Mine(c) == mix[c].value
At(c, label) == running /\ call[c].pc = label
MuFree == mu = Nobody
FreshCall == [pc |-> "idle", copy |-> Defaults, rev |-> 0, base |-> Defaults,
              previous |-> Defaults, before |-> 0, place |-> "portable", tries |-> 0]

TypeOK ==
  /\ mix \in [Callers -> Request]
  /\ running \in BOOLEAN /\ excused \in BOOLEAN
  /\ memory \in Config /\ gui \in Config /\ kept \in Config
  /\ revision \in Nat /\ guiRev \in Nat /\ history \in Nat
  /\ path \in Places
  /\ mu \in Callers \cup {Nobody} /\ core \in Callers \cup {Nobody}
  /\ files \in Files
  /\ call \in [Callers -> [pc : PCs, copy : Config, rev : Nat, base : Config,
                           previous : Config, before : Nat, place : Places,
                           tries : 0..1]]
  /\ failures \in 0..MaxFailures /\ crashes \in 0..MaxCrashes

----------------------------------------------------------------------------
(* Load. *)

Loadable == {i \in DOMAIN LoadOrder : files[LoadOrder[i]] \notin {Absent, Torn}}
\* Mutant: the portable file is looked for last.
Loaded_Last == IF Loadable = {} THEN Defaults ELSE files[LoadOrder[Max(Loadable)]]
Loaded == IF Loadable = {} THEN Defaults ELSE files[LoadOrder[Min(Loadable)]]

(* saveLocked: the portable directory, then the user's directory, or       *)
(* neither.  The number of failures and the place that was written.        *)
Outcomes == {<<0, "portable">>, <<1, "user">>, <<2, "nowhere">>}

Diverted == path = "user" /\ Loadable # {} /\ LoadOrder[Min(Loadable)] # "user"

(* NewCoreApp makes the history with the retention of a manager that has   *)
(* not loaded anything yet.                                                *)
StartRetention == Defaults["retention"]

(* A start: Load, and a save when the file was not the portable one; a     *)
(* save that fails is only logged.                                         *)
Starts ==
  /\ ~running /\ running' = TRUE
  /\ memory' = Loaded /\ gui' = Loaded /\ history' = StartRetention
  /\ revision' = revision + 1 /\ guiRev' = revision'
  /\ IF files["portable"] \notin {Absent, Torn}
       THEN files' = files /\ path' = "portable" /\ failures' = failures
       ELSE \E o \in Outcomes :
              /\ failures' = failures + o[1] /\ failures' <= MaxFailures
              /\ files' = [p \in Places |-> IF p = o[2] THEN Loaded ELSE files[p]]
              /\ path' = IF o[2] = "user" THEN "user" ELSE "portable"
  /\ kept' = IF revision = 0 THEN Loaded ELSE kept
  /\ excused' = (excused \/ (revision # 0 /\ Diverted))
  /\ UNCHANGED <<mix, mu, core, call, crashes>>

Dies ==
  /\ running /\ running' = FALSE
  /\ crashes < MaxCrashes /\ crashes' = crashes + 1
  /\ mu' = Nobody /\ core' = Nobody
  /\ call' = [c \in Callers |->
                IF call[c].pc \in {"idle", "done"} THEN call[c]
                ELSE [FreshCall EXCEPT !.pc = "failed"]]
  /\ UNCHANGED <<mix, memory, revision, path, files, history, gui, guiRev, kept,
                 excused, failures>>

----------------------------------------------------------------------------
(* What a request reads. *)

Goes(c, label) ==
  call' = [call EXCEPT ![c] = IF label \in {"done", "failed"}
                              THEN [FreshCall EXCEPT !.pc = label]
                              ELSE [@ EXCEPT !.pc = label]]
(* The snapshot of a request, with its own change in it. *)
Copies(c, cfg, rev, label) ==
  call' = [call EXCEPT ![c] =
             [@ EXCEPT !.pc = label, !.rev = rev, !.base = cfg,
                       !.copy = [cfg EXCEPT ![FieldOf(Kind(c))] = Mine(c)]]]
Releases(c) == core' = IF core = c THEN Nobody ELSE core

(* UpdateConfig takes the front end's copy, but what it caches at run time *)
(* and the retention from the current configuration.                       *)
Submitted == [gui EXCEPT !["scan"] = memory["scan"],
                         !["retention"] = memory["retention"]]

BeginsSettings(c) ==
  /\ At(c, "idle") /\ Kind(c) = "settings"
  /\ core = Nobody /\ MuFree /\ core' = c
  /\ Copies(c, Submitted, guiRev, "fill")
  /\ UNCHANGED <<store, history, gui, guiRev, ghosts, bounds>>

(* Get under a.mutex; the change follows under the same lock. *)
BeginsLocked(c) ==
  /\ At(c, "idle") /\ Kind(c) \in {"curve", "reset"}
  /\ core = Nobody /\ MuFree /\ core' = c
  /\ Copies(c, memory, revision, "fill")
  /\ UNCHANGED <<store, history, gui, guiRev, ghosts, bounds>>

(* Get under a.mutex, which is released for the device. *)
BeginsWithDevice(c) ==
  /\ At(c, "idle") /\ Kind(c) \in {"gear", "custom", "auto"}
  /\ core = Nobody /\ MuFree
  /\ Copies(c, memory, revision, "device")
  /\ UNCHANGED <<store, core, history, gui, guiRev, ghosts, bounds>>

BeginsNarrow(c) ==
  /\ At(c, "idle") /\ Kind(c) \in Narrow
  /\ Goes(c, IF Kind(c) = "light" THEN "device" ELSE "update")
  /\ UNCHANGED <<store, core, history, gui, guiRev, ghosts, bounds>>

BeginsGated(c) ==
  /\ At(c, "idle") /\ Kind(c) \in Gated /\ MuFree
  /\ Copies(c, memory, revision, "update")
  /\ UNCHANGED <<store, core, history, gui, guiRev, ghosts, bounds>>

(* The history is changed first; what it had is kept for the way back. *)
BeginsRetention(c) ==
  /\ At(c, "idle") /\ Kind(c) = "retention"
  /\ history' = Mine(c)
  /\ call' = [call EXCEPT ![c] = [@ EXCEPT !.pc = "lock", !.before = history]]
  /\ UNCHANGED <<store, core, gui, guiRev, ghosts, bounds>>

(* The device write.  SetManualGear reads the configuration again without  *)
(* a.mutex, the other two wait for it.                                     *)
DeviceAccepts(c) ==
  /\ At(c, "device")
  /\ CASE Kind(c) = "gear" -> MuFree /\ Copies(c, memory, revision, "fill")
       [] Kind(c) = "light" -> Goes(c, "update")
       [] OTHER -> Goes(c, "lock")
  /\ UNCHANGED <<store, core, history, gui, guiRev, ghosts, bounds>>

DeviceRefuses(c) ==
  /\ At(c, "device") /\ Goes(c, "failed")
  /\ UNCHANGED <<store, core, history, gui, guiRev, ghosts, bounds>>

(* SetCustomSpeed stores the copy it made before the device write;         *)
(* SetAutoControl and the retention read again.                            *)
LocksAgain(c) ==
  /\ At(c, "lock") /\ core = Nobody /\ core' = c
  /\ CASE Kind(c) = "custom" -> Goes(c, "fill")
       [] Kind(c) = "auto" -> MuFree /\ Copies(c, memory, revision, "fill")
       [] OTHER -> MuFree /\ Copies(c, memory, revision, "update")
  /\ UNCHANGED <<store, history, gui, guiRev, ghosts, bounds>>

(* commitConfigUpdate: a snapshot without a scan time gets the current     *)
(* one.                                                                    *)
Filled(cfg) == IF cfg["scan"] # 0 THEN cfg ELSE [cfg EXCEPT !["scan"] = memory["scan"]]

FillsScan(c) ==
  /\ At(c, "fill") /\ MuFree
  /\ call' = [call EXCEPT ![c] =
                [@ EXCEPT !.pc = "update", !.copy = Filled(call[c].copy)]]
  /\ UNCHANGED <<store, core, history, gui, guiRev, ghosts, bounds>>

----------------------------------------------------------------------------
(* What a request stores. *)

(* What Update, MutateAndSave and MutateIfRevisionAndSave put in place. *)
Changed(c) == IF Kind(c) \in Whole THEN call[c].copy
              ELSE [memory EXCEPT ![FieldOf(Kind(c))] = Mine(c)]

\* Mutant: the revision is not compared.
MayStore_Always(c) == TRUE
MayStore(c) == Kind(c) \in Gated => revision = call[c].rev

(* Under mu, the configuration is replaced in memory and the save begins. *)
StoresInMemory(c) ==
  /\ At(c, "update") /\ MuFree
  /\ MayStore(c) /\ Changed(c) # memory
  /\ mu' = c /\ memory' = Changed(c)
  /\ call' = [call EXCEPT ![c] =
                [@ EXCEPT !.pc = "save", !.place = "portable", !.previous = memory]]
  /\ excused' = (excused \/ (Kind(c) \in Whole /\ call[c].rev # revision))
  /\ UNCHANGED <<revision, path, files, core, history, gui, guiRev, kept, bounds>>

(* Nothing to change: Update and MutateAndSave succeed without a save, and *)
(* the current configuration is announced.                                 *)
StoresNothing(c) ==
  /\ At(c, "update") /\ MuFree /\ Kind(c) \notin Gated
  /\ Changed(c) = memory
  /\ call' = [call EXCEPT ![c] =
                [@ EXCEPT !.pc = IF Kind(c) \in Whole THEN "reget" ELSE "publish",
                          !.copy = memory, !.rev = revision]]
  /\ UNCHANGED <<store, core, history, gui, guiRev, ghosts, bounds>>

(* A gated change that is not applied, because the revision is another one *)
(* or because it changes nothing: the monitor drops what it has learned,   *)
(* the diagnosis is tried a second time with a new revision.               *)
MayRetry(c) == Kind(c) = "diagnosis" /\ call[c].tries < 1

NotApplied(c) ==
  /\ At(c, "update") /\ MuFree /\ Kind(c) \in Gated
  /\ ~MayStore(c) \/ Changed(c) = memory
  /\ IF MayRetry(c)
       THEN call' = [call EXCEPT ![c] =
                       [@ EXCEPT !.tries = call[c].tries + 1, !.rev = revision,
                                 !.base = memory]]
       ELSE Goes(c, IF Kind(c) = "learn" THEN "done" ELSE "failed")
  /\ UNCHANGED <<store, core, history, gui, guiRev, ghosts, bounds>>

(* The temporary file is written; the file of the name is not touched. *)
SaveBegins(c) ==
  /\ At(c, "save") /\ Goes(c, "rename")
  /\ UNCHANGED <<store, core, history, gui, guiRev, ghosts, bounds>>

\* Mutant: the revision is not advanced.
Bumps_Not == UNCHANGED revision
Bumps == revision' = revision + 1

(* The rename, the new revision and the end of the call of the manager. *)
Saved(c) ==
  /\ At(c, "rename")
  /\ files' = [files EXCEPT ![call[c].place] = memory]
  /\ path' = call[c].place
  /\ Bumps /\ mu' = Nobody
  /\ kept' = [kept EXCEPT ![FieldOf(Kind(c))] = Mine(c)]
  /\ call' = [call EXCEPT ![c] =
                [@ EXCEPT !.pc = IF Kind(c) \in Whole THEN "reget" ELSE "publish",
                          !.copy = memory, !.rev = revision']]
  /\ UNCHANGED <<memory, core, history, gui, guiRev, excused, bounds>>

(* A write that fails is tried in the user's directory. *)
FallsBack(c) ==
  /\ At(c, "save") \/ At(c, "rename")
  /\ call[c].place = "portable"
  /\ failures < MaxFailures /\ failures' = failures + 1
  /\ call' = [call EXCEPT ![c] = [@ EXCEPT !.pc = "save", !.place = "user"]]
  /\ UNCHANGED <<store, core, history, gui, guiRev, ghosts, mix, running, crashes>>

\* Mutant: the configuration stays in memory although it was not saved.
RollsBack_Not(c) == UNCHANGED memory
RollsBack(c) == memory' = call[c].previous

SaveFails(c) ==
  /\ At(c, "save") \/ At(c, "rename")
  /\ call[c].place = "user"
  /\ failures < MaxFailures /\ failures' = failures + 1
  /\ RollsBack(c) /\ mu' = Nobody /\ Releases(c)
  /\ Goes(c, IF Kind(c) = "retention" THEN "undo" ELSE "failed")
  /\ UNCHANGED <<revision, path, files, history, gui, guiRev, ghosts, mix, running, crashes>>

Undoes(c) ==
  /\ At(c, "undo") /\ history' = call[c].before /\ Goes(c, "failed")
  /\ UNCHANGED <<store, core, gui, guiRev, ghosts, bounds>>

----------------------------------------------------------------------------
(* What a request tells. *)

(* commitConfigUpdate reads the configuration it announces after the       *)
(* update; UpdateConfig and the retention release a.mutex before they      *)
(* announce.                                                               *)
Regets(c) ==
  /\ At(c, "reget") /\ MuFree
  /\ call' = [call EXCEPT ![c] =
                [@ EXCEPT !.pc = "publish", !.copy = memory, !.rev = revision]]
  /\ IF Kind(c) \in {"settings", "retention"} THEN Releases(c) ELSE UNCHANGED core
  /\ UNCHANGED <<store, history, gui, guiRev, ghosts, bounds>>

(* The configuration event, which carries all of the configuration; the    *)
(* scan time is not announced.                                             *)
Publishes(c) ==
  /\ At(c, "publish") /\ Goes(c, "done") /\ Releases(c)
  /\ IF Kind(c) = "scan" THEN UNCHANGED <<gui, guiRev>>
     ELSE gui' = call[c].copy /\ guiRev' = call[c].rev
  /\ UNCHANGED <<store, history, ghosts, bounds>>

(* The front end reads the configuration. *)
GetConfig ==
  /\ running /\ MuFree /\ guiRev # revision
  /\ gui' = memory /\ guiRev' = revision
  /\ UNCHANGED <<store, core, call, history, ghosts, bounds>>

----------------------------------------------------------------------------

Init ==
  /\ mix \in Mixes /\ files \in Disks
  /\ running = FALSE /\ memory = Defaults /\ revision = 0 /\ path = "portable"
  /\ mu = Nobody /\ core = Nobody
  /\ call = [c \in Callers |-> FreshCall]
  /\ history = 0 /\ gui = Defaults /\ guiRev = 0
  /\ kept = Defaults /\ excused = FALSE
  /\ failures = 0 /\ crashes = 0

Serves(c) ==
  \/ BeginsSettings(c) \/ BeginsLocked(c) \/ BeginsWithDevice(c)
  \/ BeginsNarrow(c) \/ BeginsGated(c) \/ BeginsRetention(c)
  \/ DeviceAccepts(c) \/ DeviceRefuses(c) \/ LocksAgain(c) \/ FillsScan(c)
  \/ StoresInMemory(c) \/ StoresNothing(c) \/ NotApplied(c)
  \/ SaveBegins(c) \/ Saved(c) \/ FallsBack(c) \/ SaveFails(c) \/ Undoes(c)
  \/ Regets(c) \/ Publishes(c)

Works == Starts \/ \E c \in Callers : Serves(c)
Next == Works \/ Dies \/ GetConfig

Spec == Init /\ [][Next]_vars

----------------------------------------------------------------------------

Quiet == \A c \in Callers : call[c].pc \in {"idle", "done", "failed"}

(* A revision names one configuration: as long as it has not moved, the    *)
(* copy a gated request has read is what the manager holds, whatever was   *)
(* begun, failed and rolled back meanwhile.                                *)
RevisionNamesCopy ==
  \A c \in Callers :
    At(c, "update") /\ Kind(c) \in Gated /\ MuFree /\ call[c].rev = revision
      => call[c].base = memory

(* The monitor never stores offsets it has learned on top of others: a     *)
(* reset of the learned offsets, or another device's, stays.               *)
LearningIsCurrent ==
  \A c \in Callers :
    Kind(c) = "learn" /\ call[c].pc \in {"save", "rename"}
      => call[c].base["learned"] = call[c].previous["learned"]

(* Between two writes the core runs on a configuration that a restart can  *)
(* find in some file, or on the defaults.                                  *)
RunsOnWhatIsStored ==
  running /\ MuFree => memory = Defaults \/ \E p \in Places : files[p] = memory

(* A stored change is lost in two ways only: a request stores a snapshot   *)
(* that is out of date, or a restart reads an old portable file after the  *)
(* save has fallen back to the user's directory.  Failed writes, deaths,   *)
(* narrow and gated requests lose nothing.                                 *)
NothingElseLosesChanges == running /\ MuFree /\ ~excused => memory = kept

OneRetention == Cardinality({c \in Callers : Kind(c) = "retention"}) <= 1

(* The configured retention is the one the history works with, also after  *)
(* a restart.  It does not hold: the history is made before Load.          *)
RetentionSurvives ==
  running /\ Quiet /\ ~excused /\ OneRetention => history = memory["retention"]

(* The scan time kept for the next start is not cleared by a request that  *)
(* stores a snapshot.  It does not hold: commitConfigUpdate reads the      *)
(* current value before Update takes the lock.                             *)
ScanTimeStays ==
  [][running /\ running' /\ MuFree /\ memory["scan"] # 0 => memory'["scan"] # 0]_vars

============================================================================
