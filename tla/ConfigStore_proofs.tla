------------------------- MODULE ConfigStore_proofs -------------------------
(***************************************************************************)
(* Proofs about ConfigStore, for any number of goroutines, any requests,   *)
(* any files found at the start and any number of failures and deaths: the *)
(* types, that a revision names one configuration, that the monitor never  *)
(* stores learning on top of somebody else's, that the core runs on what   *)
(* some file holds, and that no stored change is lost but in two ways.     *)
(***************************************************************************)
EXTENDS ConfigStore, TLAPS

-----------------------------------------------------------------------------
(* What Load finds.                                                        *)

\* The four places, and that each has its number in the order of Load.
LEMMA PlaceNames ==
  /\ DOMAIN LoadOrder = 1..5
  /\ Places = {"portable", "root", "user", "old", "settings"}
  /\ \A i \in DOMAIN LoadOrder : LoadOrder[i] \in Places
BY DEF LoadOrder, Places

\* If some file can be read, there is a first one.
LEMMA FirstLoadable ==
  ASSUME Loadable # {}
  PROVE  Min(Loadable) \in Loadable
<1>1. Loadable \subseteq 1..5
  BY PlaceNames DEF Loadable
<1>2. \E i \in Loadable : \A j \in Loadable : i <= j
  <2>1. CASE 1 \in Loadable
    BY <1>1, <2>1
  <2>2. CASE 1 \notin Loadable /\ 2 \in Loadable
    BY <1>1, <2>2
  <2>3. CASE 1 \notin Loadable /\ 2 \notin Loadable /\ 3 \in Loadable
    BY <1>1, <2>3
  <2>4. CASE {1, 2, 3} \cap Loadable = {} /\ 4 \in Loadable
    BY <1>1, <2>4
  <2>5. CASE {1, 2, 3, 4} \cap Loadable = {}
    <3>1. \A j \in Loadable : j = 5
      BY <1>1, <2>5
    <3> QED
      BY <3>1
  <2> QED
    BY <1>1, <2>1, <2>2, <2>3, <2>4, <2>5
<1> QED
  BY <1>2 DEF Min

\* Load yields a configuration: the defaults, or what some file holds.
LEMMA LoadedIsStored ==
  ASSUME TypeOK
  PROVE  /\ Loaded \in Config
         /\ Loaded = Defaults \/ \E p \in Places : files[p] = Loaded
<1>1. CASE Loadable = {}
  BY <1>1 DEF Loaded, Config, Defaults
<1>2. CASE Loadable # {}
  <2>1. Min(Loadable) \in Loadable
    BY <1>2, FirstLoadable
  <2>2. LoadOrder[Min(Loadable)] \in Places /\ Loaded = files[LoadOrder[Min(Loadable)]]
    BY <1>2, <2>1, PlaceNames DEF Loadable, Loaded
  <2>3. Loaded \notin {Absent, Torn}
    BY <2>1, <2>2 DEF Loadable
  <2> QED
    BY <2>2, <2>3 DEF TypeOK, Files
<1> QED
  BY <1>1, <1>2

-----------------------------------------------------------------------------
(* Types.                                                                  *)

Calls == [pc : PCs, copy : Config, rev : Nat, base : Config, previous : Config,
          before : Nat, place : Places, tries : 0..1]

\* What a request is, and what a fresh call is.
LEMMA Requests ==
  ASSUME TypeOK, NEW c \in Callers
  PROVE  /\ Kind(c) \in Kinds /\ Mine(c) \in Nat /\ FieldOf(Kind(c)) \in Fields
         /\ call[c] \in Calls
         /\ \A l \in PCs : [FreshCall EXCEPT !.pc = l] \in Calls
<1>1. Kind(c) \in Kinds /\ Mine(c) \in Nat /\ call[c] \in Calls
  BY DEF TypeOK, Request, Kind, Mine, Calls
<1>2. FieldOf(Kind(c)) \in Fields
  BY <1>1 DEF Kinds, Whole, Narrow, Gated, FieldOf, Fields
<1>3. Defaults \in Config
  BY DEF Defaults, Config
<1>4. \A l \in PCs : [FreshCall EXCEPT !.pc = l] \in Calls
  BY <1>3, PlaceNames DEF FreshCall, Calls
<1> QED
  BY <1>1, <1>2, <1>4

\* A call that goes somewhere, or takes a copy, stays a call.
LEMMA GoesKeepsType ==
  ASSUME TypeOK, NEW c \in Callers, NEW label \in PCs, Goes(c, label)
  PROVE  call' \in [Callers -> Calls]
<1>1. call \in [Callers -> Calls] /\ [call[c] EXCEPT !.pc = label] \in Calls
  BY DEF TypeOK, Calls
<1>2. [FreshCall EXCEPT !.pc = label] \in Calls
  BY Requests
<1> QED
  BY <1>1, <1>2 DEF Goes

LEMMA CopiesKeepsType ==
  ASSUME TypeOK, NEW c \in Callers, NEW label \in PCs, NEW cfg \in Config,
         NEW rev \in Nat, Copies(c, cfg, rev, label)
  PROVE  call' \in [Callers -> Calls]
<1>1. [cfg EXCEPT ![FieldOf(Kind(c))] = Mine(c)] \in Config
  BY Requests DEF Config
<1>2. call \in [Callers -> Calls]
  BY DEF TypeOK, Calls
<1>3. [call[c] EXCEPT !.pc = label, !.rev = rev, !.base = cfg,
                      !.copy = [cfg EXCEPT ![FieldOf(Kind(c))] = Mine(c)]] \in Calls
  BY <1>1, <1>2 DEF Calls
<1> QED
  BY <1>2, <1>3 DEF Copies

\* A start keeps the types.
LEMMA StartsKeepsTypes ==
  ASSUME TypeOK, Starts
  PROVE  TypeOK'
<1>1. Loaded \in Config /\ Defaults["retention"] \in Nat
  BY LoadedIsStored DEF Defaults, Fields
<1>2. files' \in Files /\ path' \in Places /\ failures' \in 0..MaxFailures
  <2>1. CASE files["portable"] \notin {Absent, Torn}
    BY <2>1, PlaceNames DEF Starts, TypeOK
  <2>2. CASE files["portable"] \in {Absent, Torn}
    <3>1. PICK o \in Outcomes :
             /\ failures' = failures + o[1] /\ failures' <= MaxFailures
             /\ files' = [p \in Places |-> IF p = o[2] THEN Loaded ELSE files[p]]
             /\ path' = IF o[2] = "user" THEN "user" ELSE "portable"
      BY <2>2 DEF Starts
    <3>2. o[1] \in 0..2
      BY DEF Outcomes
    <3> QED
      BY <1>1, <3>1, <3>2, PlaceNames, BoundsAssumption DEF TypeOK, Files
  <2> QED
    BY <2>1, <2>2
<1> QED
  BY <1>1, <1>2 DEF Starts, StartRetention, TypeOK

\* A death and a read by the front end keep the types.
LEMMA OutsideKeepsTypes ==
  ASSUME TypeOK, Dies \/ GetConfig
  PROVE  TypeOK'
<1>1. CASE Dies
  <2>1. [FreshCall EXCEPT !.pc = "failed"] \in Calls
    <3>1. Defaults \in Config
      BY DEF Defaults, Config
    <3> QED
      BY <3>1, PlaceNames DEF FreshCall, Calls, PCs
  <2>2. call' \in [Callers -> Calls]
    BY <1>1, <2>1 DEF Dies, TypeOK, Calls
  <2>3. crashes' \in 0..MaxCrashes
    BY <1>1, BoundsAssumption DEF Dies, TypeOK
  <2> QED
    BY <1>1, <2>2, <2>3 DEF Dies, TypeOK, Calls
<1>2. CASE GetConfig
  BY <1>2 DEF GetConfig, TypeOK, store, ghosts, bounds
<1> QED
  BY <1>1, <1>2

\* The steps that read keep the types.
LEMMA ReadsKeepTypes ==
  ASSUME TypeOK, NEW c \in Callers,
         \/ BeginsSettings(c) \/ BeginsLocked(c) \/ BeginsWithDevice(c)
         \/ BeginsNarrow(c) \/ BeginsGated(c) \/ BeginsRetention(c)
         \/ DeviceAccepts(c) \/ DeviceRefuses(c) \/ LocksAgain(c) \/ FillsScan(c)
  PROVE  TypeOK'
<1> USE DEF store, ghosts, bounds, PCs
<1>1. SUFFICES ASSUME call' \in [Callers -> Calls], core' \in Callers \cup {Nobody},
                      history' \in Nat
               PROVE  TypeOK'
  <2>1. core' \in Callers \cup {Nobody}
    BY DEF TypeOK, BeginsSettings, BeginsLocked, BeginsWithDevice, BeginsNarrow, BeginsGated,
           BeginsRetention, DeviceAccepts, DeviceRefuses, LocksAgain, FillsScan
  <2>2. history' \in Nat
    BY Requests DEF TypeOK, BeginsSettings, BeginsLocked, BeginsWithDevice, BeginsNarrow,
           BeginsGated, BeginsRetention, DeviceAccepts, DeviceRefuses, LocksAgain, FillsScan
  <2>3. call' \in [Callers -> Calls]
    <3> USE GoesKeepsType, CopiesKeepsType
    <3>1. memory \in Config /\ revision \in Nat /\ guiRev \in Nat
      BY DEF TypeOK
    <3>2. CASE BeginsSettings(c)
      <4>1. Submitted \in Config
        BY DEF Submitted, TypeOK, Config, Fields
      <4> QED
        BY <3>1, <3>2, <4>1 DEF BeginsSettings
    <3>3. CASE BeginsLocked(c) \/ BeginsWithDevice(c) \/ BeginsGated(c)
      BY <3>1, <3>3 DEF BeginsLocked, BeginsWithDevice, BeginsGated
    <3>4. CASE BeginsNarrow(c) \/ DeviceRefuses(c)
      BY <3>4 DEF BeginsNarrow, DeviceRefuses
    <3>5. CASE BeginsRetention(c)
      <4>1. [call[c] EXCEPT !.pc = "lock", !.before = history] \in Calls
        BY ZenonT(60) DEF TypeOK, Calls
      <4> QED
        BY <3>5, <4>1 DEF BeginsRetention, TypeOK, Calls
    <3>6. CASE DeviceAccepts(c) \/ LocksAgain(c)
      BY <3>1, <3>6 DEF DeviceAccepts, LocksAgain
    <3>7. CASE FillsScan(c)
      <4>1. call[c] \in Calls /\ memory["scan"] \in Nat
        BY DEF TypeOK, Calls, Config, Fields
      <4>2. Filled(call[c].copy) \in Config
        BY <4>1 DEF Filled, Calls, Config
      <4>3. [call[c] EXCEPT !.pc = "update", !.copy = Filled(call[c].copy)] \in Calls
        BY <4>1, <4>2 DEF Calls
      <4> QED
        BY <3>7, <4>3 DEF FillsScan, TypeOK, Calls
    <3> QED
      BY <3>2, <3>3, <3>4, <3>5, <3>6, <3>7
  <2> QED
    BY <2>1, <2>2, <2>3
<1> QED
  BY <1>1 DEF TypeOK, Calls, BeginsSettings, BeginsLocked, BeginsWithDevice, BeginsNarrow,
         BeginsGated, BeginsRetention, DeviceAccepts, DeviceRefuses, LocksAgain, FillsScan

\* The steps that store keep the types.
LEMMA StoresKeepTypes ==
  ASSUME TypeOK, NEW c \in Callers,
         \/ StoresInMemory(c) \/ StoresNothing(c) \/ NotApplied(c)
         \/ SaveBegins(c) \/ Saved(c) \/ FallsBack(c) \/ SaveFails(c) \/ Undoes(c)
         \/ Regets(c) \/ Publishes(c)
  PROVE  TypeOK'
<1> USE DEF store, ghosts, bounds
<1>1. call \in [Callers -> Calls] /\ call[c] \in Calls /\ "portable" \in Places /\ "user" \in Places
  BY PlaceNames DEF TypeOK, Calls
<1>2. memory \in Config /\ revision \in Nat
  BY DEF TypeOK
<1>3. CASE StoresInMemory(c)
  <2>1. Changed(c) \in Config
    BY <1>1, <1>2, Requests DEF Changed, Calls, Config
  <2>2. [call[c] EXCEPT !.pc = "save", !.place = "portable", !.previous = memory] \in Calls
    BY <1>1, <1>2 DEF Calls, PCs
  <2> QED
    BY <1>1, <1>3, <2>1, <2>2 DEF StoresInMemory, TypeOK, Calls
<1>4. CASE StoresNothing(c)
  <2>1. [call[c] EXCEPT !.pc = IF Kind(c) \in Whole THEN "reget" ELSE "publish",
                        !.copy = memory, !.rev = revision] \in Calls
    BY <1>1, <1>2 DEF Calls, PCs
  <2> QED
    BY <1>1, <1>4, <2>1 DEF StoresNothing, TypeOK, Calls
<1>5. CASE NotApplied(c)
  <2>1. CASE MayRetry(c)
    <3>1. call[c].tries + 1 \in 0..1
      BY <1>1, <2>1 DEF MayRetry, Calls
    <3>2. [call[c] EXCEPT !.tries = call[c].tries + 1, !.rev = revision, !.base = memory] \in Calls
      BY <1>1, <1>2, <3>1 DEF Calls
    <3>3. call' = [call EXCEPT ![c] = [call[c] EXCEPT !.tries = call[c].tries + 1,
                                                      !.rev = revision, !.base = memory]]
      BY <1>5, <2>1 DEF NotApplied
    <3>4. call' \in [Callers -> Calls]
      BY <1>1, <3>2, <3>3
    <3> QED
      BY <1>5, <3>4 DEF NotApplied, TypeOK, Calls
  <2>2. CASE ~MayRetry(c)
    <3>1. call' \in [Callers -> Calls]
      BY <1>5, <2>2, GoesKeepsType DEF NotApplied, PCs
    <3> QED
      BY <1>5, <3>1 DEF NotApplied, TypeOK, Calls
  <2> QED
    BY <2>1, <2>2
<1>6. CASE SaveBegins(c)
  <2>1. call' \in [Callers -> Calls]
    BY <1>6, GoesKeepsType DEF SaveBegins, PCs
  <2> QED
    BY <1>6, <2>1 DEF SaveBegins, TypeOK, Calls
<1>7. CASE Saved(c)
  <2>1. revision' \in Nat
    BY <1>2, <1>7 DEF Saved, Bumps
  <2>2. [call[c] EXCEPT !.pc = IF Kind(c) \in Whole THEN "reget" ELSE "publish",
                        !.copy = memory, !.rev = revision'] \in Calls
    BY <1>1, <1>2, <2>1 DEF Calls, PCs
  <2>3. files' \in Files /\ path' \in Places
    BY <1>1, <1>2, <1>7 DEF Saved, TypeOK, Files, Calls
  <2>4. kept' \in Config
    BY <1>7, Requests DEF Saved, TypeOK, Config
  <2> QED
    BY <1>1, <1>7, <2>1, <2>2, <2>3, <2>4 DEF Saved, TypeOK, Calls
<1>8. CASE FallsBack(c)
  <2>1. [call[c] EXCEPT !.pc = "save", !.place = "user"] \in Calls
    BY <1>1 DEF Calls, PCs
  <2>2. failures' \in 0..MaxFailures
    BY <1>8, BoundsAssumption DEF FallsBack, TypeOK
  <2> QED
    BY <1>1, <1>8, <2>1, <2>2 DEF FallsBack, TypeOK, Calls
<1>9. CASE SaveFails(c)
  <2>1. call' \in [Callers -> Calls]
    BY <1>9, GoesKeepsType DEF SaveFails, PCs
  <2>2. failures' \in 0..MaxFailures
    BY <1>9, BoundsAssumption DEF SaveFails, TypeOK
  <2>3. memory' \in Config /\ core' \in Callers \cup {Nobody}
    BY <1>1, <1>9 DEF SaveFails, RollsBack, Releases, TypeOK, Calls
  <2> QED
    BY <1>9, <2>1, <2>2, <2>3 DEF SaveFails, TypeOK, Calls
<1>10. CASE Undoes(c)
  <2>1. call' \in [Callers -> Calls]
    BY <1>10, GoesKeepsType DEF Undoes, PCs
  <2> QED
    BY <1>1, <1>10, <2>1 DEF Undoes, TypeOK, Calls
<1>11. CASE Regets(c)
  <2>1. [call[c] EXCEPT !.pc = "publish", !.copy = memory, !.rev = revision] \in Calls
    BY <1>1, <1>2 DEF Calls, PCs
  <2> QED
    BY <1>1, <1>11, <2>1 DEF Regets, Releases, TypeOK, Calls
<1>12. CASE Publishes(c)
  <2>1. call' \in [Callers -> Calls]
    BY <1>12, GoesKeepsType DEF Publishes, PCs
  <2> QED
    BY <1>1, <1>12, <2>1 DEF Publishes, Releases, TypeOK, Calls
<1> QED
  BY <1>3, <1>4, <1>5, <1>6, <1>7, <1>8, <1>9, <1>10, <1>11, <1>12

\* The initial types, and the types of a step.
LEMMA InitTypes == Init => TypeOK
<1> SUFFICES ASSUME Init PROVE TypeOK
  OBVIOUS
<1>1. Defaults \in Config /\ FreshCall \in Calls
  BY PlaceNames DEF Defaults, Config, FreshCall, Calls, PCs
<1>2. call \in [Callers -> Calls]
  BY <1>1 DEF Init
<1>3. mix \in [Callers -> Request] /\ files \in Files /\ path \in Places
  BY PlaceNames, MixesAssumption, DisksAssumption DEF Init
<1>4. failures \in 0..MaxFailures /\ crashes \in 0..MaxCrashes
  BY BoundsAssumption DEF Init
<1> QED
  BY <1>1, <1>2, <1>3, <1>4 DEF Init, TypeOK, Calls

LEMMA StepTypes == TypeOK /\ [Next]_vars => TypeOK'
<1> SUFFICES ASSUME TypeOK, [Next]_vars PROVE TypeOK'
  OBVIOUS
<1>1. CASE UNCHANGED vars
  BY <1>1 DEF vars, TypeOK
<1>2. CASE Next
  BY <1>2, StartsKeepsTypes, OutsideKeepsTypes, ReadsKeepTypes, StoresKeepTypes
     DEF Next, Works, Serves
<1> QED
  BY <1>1, <1>2

\* Every variable of ConfigStore keeps its type.
THEOREM TypeCorrect == Spec => []TypeOK
BY InitTypes, StepTypes, PTL DEF Spec

-----------------------------------------------------------------------------
(* The inductive invariant.  RevisionNamesCopy speaks of moments at which  *)
(* nobody holds the lock; to be inductive it has to say what becomes of a  *)
(* copy while a save is under way that may still be rolled back: the copy  *)
(* agrees with the settled configuration, the one to which a failed save   *)
(* returns.                                                                *)

\* What the manager holds, or will hold again if the save under way fails.
Settled == IF mu = Nobody THEN memory ELSE call[mu].previous

\* Exactly the call that saves holds the lock; a core that is down has none.
LockHeld ==
  /\ \A c \in Callers : call[c].pc \in {"save", "rename"} <=> mu = c
  /\ ~running => /\ mu = Nobody
                 /\ \A c \in Callers : call[c].pc \in {"idle", "done", "failed"}

\* The steps of a gated request, and what its copy is worth in each.
CopyNamed ==
  \A c \in Callers : Kind(c) \in Gated =>
    /\ call[c].pc \in {"idle", "update", "save", "rename", "publish", "done", "failed"}
    /\ call[c].rev <= revision
    /\ call[c].pc = "update" /\ call[c].rev = revision => call[c].base = Settled
    /\ call[c].pc \in {"save", "rename"} => call[c].base = call[c].previous

\* The settled configuration is on disk, or the defaults.
SettledStored == running => Settled = Defaults \/ \E p \in Places : files[p] = Settled

ConfigInv == TypeOK /\ LockHeld /\ CopyNamed /\ SettledStored

\* What Goes and Copies change: the call of one request.
LEMMA GoesMoves ==
  ASSUME TypeOK, NEW c \in Callers, NEW label, Goes(c, label)
  PROVE  /\ \A d \in Callers \ {c} : call'[d] = call[d]
         /\ call'[c].pc = label
         /\ label \notin {"done", "failed"} =>
              /\ call'[c].rev = call[c].rev /\ call'[c].base = call[c].base
              /\ call'[c].previous = call[c].previous
              /\ call'[c].copy = call[c].copy /\ call'[c].place = call[c].place
         /\ label \in {"done", "failed"} => call'[c].rev = 0
<1>1. call \in [Callers -> Calls]
  BY DEF TypeOK, Calls
<1>2. CASE label \in {"done", "failed"}
  BY <1>1, <1>2 DEF Goes, FreshCall
<1>3. CASE label \notin {"done", "failed"}
  BY <1>1, <1>3 DEF Goes, Calls
<1> QED
  BY <1>2, <1>3

LEMMA CopiesMoves ==
  ASSUME TypeOK, NEW c \in Callers, NEW cfg, NEW rev, NEW label, Copies(c, cfg, rev, label)
  PROVE  /\ \A d \in Callers \ {c} : call'[d] = call[d]
         /\ call'[c].pc = label /\ call'[c].rev = rev /\ call'[c].base = cfg
BY DEF TypeOK, Copies

\* A step of a call that does not save, and does not touch the manager,
\* leaves the settled configuration as it is.
LEMMA SettledStays ==
  ASSUME ConfigInv, NEW c \in Callers, call[c].pc \notin {"save", "rename"},
         UNCHANGED <<memory, mu>>, \A d \in Callers \ {c} : call'[d] = call[d]
  PROVE  Settled' = Settled
BY DEF ConfigInv, TypeOK, LockHeld, Settled

\* Such a step keeps the invariant if it keeps it for its own call.
LEMMA OwnCallOnly ==
  ASSUME ConfigInv, TypeOK', NEW c \in Callers, call[c].pc \notin {"save", "rename"},
         call'[c].pc \notin {"save", "rename"}, running,
         UNCHANGED <<mix, running, memory, revision, mu, files>>,
         \A d \in Callers \ {c} : call'[d] = call[d],
         Kind(c) \in Gated =>
           /\ call'[c].pc \in {"idle", "update", "publish", "done", "failed"}
           /\ call'[c].rev <= revision
           /\ call'[c].pc = "update" /\ call'[c].rev = revision => call'[c].base = Settled
  PROVE  ConfigInv'
<1>1. Settled' = Settled
  BY SettledStays
<1>2. LockHeld'
  BY DEF ConfigInv, LockHeld
<1>3. CopyNamed'
  <2> SUFFICES ASSUME NEW d \in Callers, Kind(d) \in Gated
               PROVE  /\ call'[d].pc \in {"idle", "update", "save", "rename", "publish", "done", "failed"}
                      /\ call'[d].rev <= revision
                      /\ call'[d].pc = "update" /\ call'[d].rev = revision => call'[d].base = Settled
                      /\ call'[d].pc \in {"save", "rename"} => call'[d].base = call'[d].previous
    BY <1>1 DEF CopyNamed, Kind
  <2> QED
    BY DEF ConfigInv, CopyNamed
<1>4. SettledStored'
  BY <1>1 DEF ConfigInv, SettledStored
<1> QED
  BY <1>2, <1>3, <1>4 DEF ConfigInv

\* The steps that read keep the invariant: a gated request reads the
\* configuration and its revision under the lock.
LEMMA ReadsKeepInv ==
  ASSUME ConfigInv, TypeOK', NEW c \in Callers,
         \/ BeginsSettings(c) \/ BeginsLocked(c) \/ BeginsWithDevice(c)
         \/ BeginsNarrow(c) \/ BeginsGated(c) \/ BeginsRetention(c)
         \/ DeviceAccepts(c) \/ DeviceRefuses(c) \/ LocksAgain(c) \/ FillsScan(c)
  PROVE  ConfigInv'
<1> USE DEF store, ghosts, bounds
<1>1. TypeOK /\ call \in [Callers -> Calls]
  BY DEF ConfigInv, TypeOK, Calls
<1>2. /\ running
      /\ call[c].pc \in {"idle", "device", "lock", "fill"}
      /\ UNCHANGED <<mix, running, memory, revision, mu, files>>
  BY DEF At, BeginsSettings, BeginsLocked, BeginsWithDevice, BeginsNarrow, BeginsGated,
         BeginsRetention, DeviceAccepts, DeviceRefuses, LocksAgain, FillsScan
<1>3. CASE BeginsGated(c)
  <2>1. mu = Nobody /\ Copies(c, memory, revision, "update")
    BY <1>3 DEF BeginsGated, MuFree
  <2>2. Settled = memory /\ revision \in Nat
    BY <1>1, <2>1 DEF Settled, TypeOK
  <2> QED
    BY <1>1, <1>2, <2>1, <2>2, CopiesMoves, OwnCallOnly
<1>4. CASE ~BeginsGated(c)
  <2>1. Kind(c) \notin Gated
    <3>1. ASSUME Kind(c) \in Gated PROVE call[c].pc = "idle"
      BY <1>2, <3>1 DEF ConfigInv, CopyNamed
    <3> QED
      BY <1>4, <3>1 DEF At, BeginsSettings, BeginsLocked, BeginsWithDevice, BeginsNarrow,
         BeginsRetention, DeviceAccepts, DeviceRefuses, LocksAgain, FillsScan, Gated, Narrow
  <2>2. /\ \A d \in Callers \ {c} : call'[d] = call[d]
        /\ call'[c].pc \notin {"save", "rename"}
    <3> USE <1>1, GoesMoves, CopiesMoves
    <3>1. CASE BeginsSettings(c) \/ BeginsLocked(c) \/ BeginsWithDevice(c)
      BY <3>1 DEF BeginsSettings, BeginsLocked, BeginsWithDevice
    <3>2. CASE BeginsNarrow(c)
      BY <3>2 DEF BeginsNarrow
    <3>3. CASE BeginsRetention(c)
      BY <3>3 DEF BeginsRetention
    <3>4. CASE DeviceAccepts(c) \/ LocksAgain(c)
      BY <3>4 DEF DeviceAccepts, LocksAgain
    <3>5. CASE DeviceRefuses(c)
      BY <3>5 DEF DeviceRefuses
    <3>6. CASE FillsScan(c)
      BY <3>6 DEF FillsScan
    <3> QED
      BY <1>4, <3>1, <3>2, <3>3, <3>4, <3>5, <3>6
  <2> QED
    BY <1>2, <2>1, <2>2, OwnCallOnly
<1> QED
  BY <1>3, <1>4

\* The steps that end or retry a request without storing keep the invariant.
LEMMA EndsKeepInv ==
  ASSUME ConfigInv, TypeOK', NEW c \in Callers,
         StoresNothing(c) \/ NotApplied(c) \/ Undoes(c) \/ Regets(c) \/ Publishes(c)
  PROVE  ConfigInv'
<1> USE DEF store, ghosts, bounds
<1>1. TypeOK /\ call \in [Callers -> Calls] /\ revision \in Nat
  BY DEF ConfigInv, TypeOK, Calls
<1>2. /\ running
      /\ call[c].pc \in {"update", "undo", "reget", "publish"}
      /\ UNCHANGED <<mix, running, memory, revision, mu, files>>
  BY DEF At, StoresNothing, NotApplied, Undoes, Regets, Publishes
<1>3. CASE NotApplied(c) /\ MayRetry(c)
  <2>1. /\ \A d \in Callers \ {c} : call'[d] = call[d]
        /\ call'[c].pc = "update" /\ call'[c].rev = revision /\ call'[c].base = memory
    BY <1>1, <1>3, ZenonT(60) DEF NotApplied, Calls, At
  <2>2. Settled = memory
    BY <1>3 DEF NotApplied, MuFree, Settled
  <2> QED
    BY <1>1, <1>2, <2>1, <2>2, OwnCallOnly
<1>4. CASE NotApplied(c) /\ ~MayRetry(c)
  <2>1. PICK label \in {"done", "failed"} : Goes(c, label)
    BY <1>4 DEF NotApplied
  <2> QED
    BY <1>1, <1>2, <2>1, GoesMoves, OwnCallOnly
<1>5. CASE StoresNothing(c) \/ Undoes(c) \/ Regets(c)
  <2>1. Kind(c) \notin Gated
    BY <1>5 DEF StoresNothing, Undoes, Regets, At, ConfigInv, CopyNamed
  <2>2. /\ \A d \in Callers \ {c} : call'[d] = call[d]
        /\ call'[c].pc \notin {"save", "rename"}
    <3>1. CASE Undoes(c)
      BY <1>1, <3>1, GoesMoves DEF Undoes
    <3>2. CASE StoresNothing(c) \/ Regets(c)
      BY <1>1, <3>2 DEF StoresNothing, Regets, Calls
    <3> QED
      BY <1>5, <3>1, <3>2
  <2> QED
    BY <1>2, <2>1, <2>2, OwnCallOnly
<1>6. CASE Publishes(c)
  <2>1. Goes(c, "done")
    BY <1>6 DEF Publishes
  <2> QED
    BY <1>1, <1>2, <2>1, GoesMoves, OwnCallOnly
<1> QED
  BY <1>3, <1>4, <1>5, <1>6

\* The steps under the lock keep the invariant: the settled configuration is
\* replaced by a save that succeeds, together with its revision, and by nothing
\* else.
LEMMA SavesKeepInv ==
  ASSUME ConfigInv, TypeOK', NEW c \in Callers,
         StoresInMemory(c) \/ SaveBegins(c) \/ Saved(c) \/ FallsBack(c) \/ SaveFails(c)
  PROVE  ConfigInv'
<1> USE DEF store, ghosts, bounds
<1>1. TypeOK /\ call \in [Callers -> Calls] /\ revision \in Nat
  BY DEF ConfigInv, TypeOK, Calls
<1>2. mix' = mix /\ running' = running /\ running
  BY DEF At, StoresInMemory, SaveBegins, Saved, FallsBack, SaveFails
<1>3. CASE StoresInMemory(c)
  <2>1. mu = Nobody /\ mu' = c /\ call[c].pc = "update" /\ UNCHANGED <<revision, files>>
    BY <1>3 DEF StoresInMemory, MuFree, At
  <2>2. /\ \A d \in Callers \ {c} : call'[d] = call[d]
        /\ call'[c].pc = "save" /\ call'[c].previous = memory
        /\ call'[c].rev = call[c].rev /\ call'[c].base = call[c].base
    BY <1>1, <1>3 DEF StoresInMemory, Calls
  <2>3. Settled = memory /\ Settled' = memory
    BY <2>1, <2>2, NobodyAssumption DEF Settled
  <2>4. Kind(c) \in Gated => call[c].base = memory
    BY <1>3, <2>1, <2>3 DEF StoresInMemory, MayStore, ConfigInv, CopyNamed
  <2>5. LockHeld'
    BY <1>2, <2>1, <2>2, NobodyAssumption DEF ConfigInv, LockHeld
  <2>6. CopyNamed'
    BY <1>2, <2>1, <2>2, <2>3, <2>4 DEF ConfigInv, CopyNamed, Kind
  <2>7. SettledStored'
    BY <1>2, <2>1, <2>3 DEF ConfigInv, SettledStored
  <2> QED
    BY <2>5, <2>6, <2>7 DEF ConfigInv
<1>4. CASE SaveBegins(c) \/ FallsBack(c)
  <2>1. /\ call[c].pc \in {"save", "rename"} /\ call'[c].pc \in {"save", "rename"}
        /\ \A d \in Callers \ {c} : call'[d] = call[d]
        /\ call'[c].previous = call[c].previous
        /\ call'[c].rev = call[c].rev /\ call'[c].base = call[c].base
    <3>1. CASE SaveBegins(c)
      BY <1>1, <3>1, GoesMoves DEF SaveBegins, At
    <3>2. CASE FallsBack(c)
      BY <1>1, <3>2 DEF FallsBack, At, Calls
    <3> QED
      BY <1>4, <3>1, <3>2
  <2>2. UNCHANGED <<memory, revision, mu, files>>
    BY <1>4 DEF SaveBegins, FallsBack
  <2>3. Settled' = Settled
    <3>1. mu = c
      BY <2>1 DEF ConfigInv, LockHeld
    <3> QED
      BY <2>1, <2>2, <3>1, NobodyAssumption DEF Settled
  <2>4. LockHeld'
    BY <1>2, <2>1, <2>2 DEF ConfigInv, LockHeld
  <2>5. CopyNamed'
    BY <1>2, <2>1, <2>2, <2>3 DEF ConfigInv, CopyNamed, Kind
  <2>6. SettledStored'
    BY <1>2, <2>2, <2>3 DEF ConfigInv, SettledStored
  <2> QED
    BY <2>4, <2>5, <2>6 DEF ConfigInv
<1>5. CASE Saved(c)
  <2>1. /\ call[c].pc = "rename" /\ mu' = Nobody /\ memory' = memory
        /\ revision' = revision + 1
        /\ files' = [files EXCEPT ![call[c].place] = memory]
    BY <1>5 DEF Saved, At, Bumps
  <2>2. /\ \A d \in Callers \ {c} : call'[d] = call[d]
        /\ call'[c].pc \in {"reget", "publish"} /\ call'[c].rev = revision'
        /\ Kind(c) \in Gated => call'[c].pc = "publish"
    BY <1>1, <1>5 DEF Saved, Calls, Whole, Gated
  <2>3. mu = c /\ \A d \in Callers \ {c} : call[d].pc \notin {"save", "rename"}
    BY <2>1 DEF ConfigInv, LockHeld
  <2>4. LockHeld'
    BY <1>2, <2>1, <2>2, <2>3, NobodyAssumption DEF LockHeld
  <2>5. CopyNamed'
    <3> SUFFICES ASSUME NEW d \in Callers, Kind(d) \in Gated
                 PROVE  /\ call'[d].pc \in {"idle", "update", "publish", "done", "failed"}
                        /\ call'[d].rev <= revision'
                        /\ call'[d].pc = "update" => call'[d].rev # revision'
      BY <1>2, <2>2, <2>3 DEF CopyNamed, Kind
    <3>1. CASE d = c
      BY <1>1, <2>1, <2>2, <3>1
    <3>2. CASE d # c
      <4>1. call[d].rev <= revision /\ call[d].rev \in Nat
        BY <1>1 DEF ConfigInv, CopyNamed, Calls
      <4> QED
        BY <1>1, <2>1, <2>2, <2>3, <3>2, <4>1 DEF ConfigInv, CopyNamed
    <3> QED
      BY <3>1, <3>2
  <2>6. SettledStored'
    <3>1. call[c].place \in Places /\ files \in Files
      BY <1>1 DEF TypeOK, Calls
    <3> QED
      BY <2>1, <3>1 DEF SettledStored, Settled, Files
  <2> QED
    BY <2>4, <2>5, <2>6 DEF ConfigInv
<1>6. CASE SaveFails(c)
  <2>1. /\ call[c].pc \in {"save", "rename"} /\ mu' = Nobody
        /\ memory' = call[c].previous /\ UNCHANGED <<revision, files>>
    BY <1>6 DEF SaveFails, At, RollsBack
  <2>2. mu = c /\ \A d \in Callers \ {c} : call[d].pc \notin {"save", "rename"}
    BY <2>1 DEF ConfigInv, LockHeld
  <2>3. Settled' = Settled
    BY <2>1, <2>2, NobodyAssumption DEF Settled
  <2>4. PICK label \in {"undo", "failed"} :
           Goes(c, label) /\ (label = "undo" => Kind(c) = "retention")
    BY <1>6 DEF SaveFails
  <2>5. /\ \A d \in Callers \ {c} : call'[d] = call[d]
        /\ call'[c].pc = label
        /\ Kind(c) \in Gated => call'[c].pc = "failed" /\ call'[c].rev = 0
    BY <1>1, <2>4, GoesMoves DEF Gated
  <2>6. LockHeld'
    BY <1>2, <2>1, <2>2, <2>5, NobodyAssumption DEF LockHeld
  <2>7. CopyNamed'
    BY <1>1, <1>2, <2>1, <2>2, <2>3, <2>5 DEF ConfigInv, CopyNamed, Kind
  <2>8. SettledStored'
    BY <1>2, <2>1, <2>3 DEF ConfigInv, SettledStored
  <2> QED
    BY <2>6, <2>7, <2>8 DEF ConfigInv
<1> QED
  BY <1>3, <1>4, <1>5, <1>6

\* A start, a death and a read by the front end keep the invariant: a start
\* runs on what it has loaded, whether or not it can be saved again.
LEMMA OutsideKeepsInv ==
  ASSUME ConfigInv, TypeOK', Starts \/ Dies \/ GetConfig
  PROVE  ConfigInv'
<1>1. TypeOK /\ call \in [Callers -> Calls] /\ revision \in Nat
  BY DEF ConfigInv, TypeOK, Calls
<1>2. CASE Starts
  <2>1. /\ running' /\ ~running /\ memory' = Loaded /\ revision' = revision + 1
        /\ UNCHANGED <<mix, mu, call>>
    BY <1>2 DEF Starts
  <2>2. /\ mu = Nobody
        /\ \A c \in Callers : call[c].pc \in {"idle", "done", "failed"}
    BY <2>1 DEF ConfigInv, LockHeld
  <2>3. LockHeld'
    BY <2>1, <2>2, NobodyAssumption DEF LockHeld
  <2>4. CopyNamed'
    <3> SUFFICES ASSUME NEW c \in Callers, Kind(c) \in Gated
                 PROVE  call[c].rev <= revision + 1
      BY <2>1, <2>2 DEF CopyNamed, Kind
    <3>1. call[c].rev <= revision /\ call[c].rev \in Nat
      BY <1>1 DEF ConfigInv, CopyNamed, Calls
    <3> QED
      BY <1>1, <3>1
  <2>5. Loaded = Defaults \/ \E p \in Places : files'[p] = Loaded
    <3>1. Loaded = Defaults \/ \E p \in Places : files[p] = Loaded
      BY <1>1, LoadedIsStored
    <3>2. CASE files' = files
      BY <3>1, <3>2
    <3>3. CASE \E o \in Outcomes :
                 files' = [p \in Places |-> IF p = o[2] THEN Loaded ELSE files[p]]
      BY <3>1, <3>3
    <3> QED
      BY <1>2, <3>2, <3>3 DEF Starts
  <2>6. SettledStored'
    BY <2>1, <2>2, <2>5 DEF SettledStored, Settled
  <2> QED
    BY <2>3, <2>4, <2>6 DEF ConfigInv
<1>3. CASE Dies
  <2>1. /\ running' = FALSE /\ mu' = Nobody /\ UNCHANGED <<mix, revision>>
        /\ \A c \in Callers : \/ call'[c] = call[c] /\ call[c].pc \in {"idle", "done"}
                              \/ call'[c].pc = "failed" /\ call'[c].rev = 0
    BY <1>1, <1>3 DEF Dies, FreshCall
  <2>2. LockHeld'
    BY <2>1, NobodyAssumption DEF LockHeld
  <2>3. CopyNamed'
    BY <1>1, <2>1 DEF ConfigInv, CopyNamed, Kind
  <2>4. SettledStored'
    BY <2>1 DEF SettledStored
  <2> QED
    BY <2>2, <2>3, <2>4 DEF ConfigInv
<1>4. CASE GetConfig
  BY <1>4 DEF GetConfig, store, ghosts, bounds, ConfigInv, LockHeld, CopyNamed, Kind,
         SettledStored, Settled
<1> QED
  BY <1>2, <1>3, <1>4

\* The configuration that the manager has settled on is stored, and a gated
\* request whose revision is current holds a copy of it, also while another
\* request saves and may still fail.
THEOREM ConfigHolds == Spec => []ConfigInv
<1>1. Init => ConfigInv
  <2> SUFFICES ASSUME Init PROVE ConfigInv
    OBVIOUS
  <2>1. TypeOK
    BY InitTypes
  <2>2. \A c \in Callers : call[c] = FreshCall
    BY DEF Init
  <2>3. LockHeld /\ CopyNamed /\ SettledStored
    BY <2>2, NobodyAssumption DEF Init, LockHeld, CopyNamed, SettledStored, FreshCall
  <2> QED
    BY <2>1, <2>3 DEF ConfigInv
<1>2. ConfigInv /\ [Next]_vars => ConfigInv'
  <2> SUFFICES ASSUME ConfigInv, [Next]_vars PROVE ConfigInv'
    OBVIOUS
  <2>1. TypeOK'
    BY StepTypes DEF ConfigInv
  <2>2. CASE UNCHANGED vars
    BY <2>2 DEF vars, ConfigInv, TypeOK, LockHeld, CopyNamed, Kind, SettledStored, Settled
  <2>3. CASE Next
    BY <2>1, <2>3, OutsideKeepsInv, ReadsKeepInv, EndsKeepInv, SavesKeepInv
       DEF Next, Works, Serves
  <2> QED
    BY <2>2, <2>3
<1> QED
  BY <1>1, <1>2, PTL DEF Spec

\* MutateIfRevisionAndSave: while the revision has not moved, the copy a gated
\* request has read is what the manager holds, whatever was begun, failed and
\* rolled back meanwhile.
THEOREM RevisionsName == Spec => []RevisionNamesCopy
<1>1. ConfigInv => RevisionNamesCopy
  BY DEF ConfigInv, CopyNamed, RevisionNamesCopy, Settled, MuFree, At
<1> QED
  BY <1>1, ConfigHolds, PTL

\* The monitor never stores learned offsets on top of others than those it has
\* learned from: a reset, or another device's offsets, are not undone.
THEOREM LearningStays == Spec => []LearningIsCurrent
<1>1. ConfigInv => LearningIsCurrent
  BY DEF ConfigInv, CopyNamed, LearningIsCurrent, Gated
<1> QED
  BY <1>1, ConfigHolds, PTL

\* Between two writes the core runs on a configuration that some file holds, or
\* on the defaults: after failed writes, fallbacks, deaths and restarts too.
THEOREM RunsOnStored == Spec => []RunsOnWhatIsStored
<1>1. ConfigInv => RunsOnWhatIsStored
  BY DEF ConfigInv, SettledStored, RunsOnWhatIsStored, Settled, MuFree
<1> QED
  BY <1>1, ConfigHolds, PTL

-----------------------------------------------------------------------------
(* No change is lost but in the two ways that are known.                   *)
(*                                                                         *)
(* What was last stored is followed through a save: it is the settled      *)
(* configuration, and the first file that Load finds holds it, unless the  *)
(* save was diverted to the user's directory.  A save adds to it exactly   *)
(* the field of its request, because a snapshot whose revision is current  *)
(* is the settled configuration with that field changed; and the front     *)
(* end's copy, from which a settings request begins, is as good.           *)

\* What Load finds in these files.
LoadableIn(f) == {i \in DOMAIN LoadOrder : f[LoadOrder[i]] \notin {Absent, Torn}}
FirstIn(f) == LoadOrder[Min(LoadableIn(f))]
LoadedFrom(f) == IF LoadableIn(f) = {} THEN Defaults ELSE f[FirstIn(f)]
DivertedFrom(p, f) == p = "user" /\ LoadableIn(f) # {} /\ FirstIn(f) # "user"

LEMMA LoadsFromFiles ==
  /\ Loaded = LoadedFrom(files) /\ Loaded' = LoadedFrom(files')
  /\ Diverted = DivertedFrom(path, files) /\ Diverted' = DivertedFrom(path', files')
BY DEF Loaded, Loadable, Diverted, LoadedFrom, LoadableIn, FirstIn, DivertedFrom

\* A configuration written to the portable file is what Load finds; one written
\* to the user's file is, unless Load finds another file first.
LEMMA WrittenIsFound ==
  ASSUME NEW f \in Files, NEW p \in {"portable", "user"}, f[p] \notin {Absent, Torn}
  PROVE  DivertedFrom(p, f) \/ LoadedFrom(f) = f[p]
<1>1. LoadableIn(f) \subseteq 1..5
  BY PlaceNames DEF LoadableIn
<1>2. LoadOrder[1] = "portable" /\ LoadOrder[3] = "user" /\ 1 \in DOMAIN LoadOrder /\ 3 \in DOMAIN LoadOrder
  BY PlaceNames DEF LoadOrder
<1>3. LoadableIn(f) # {}
  BY <1>2 DEF LoadableIn
<1>4. CASE p = "portable"
  <2>1. 1 \in LoadableIn(f)
    BY <1>2, <1>4 DEF LoadableIn
  <2>2. Min(LoadableIn(f)) = 1
    BY <1>1, <2>1 DEF Min
  <2> QED
    BY <1>2, <1>3, <1>4, <2>2 DEF LoadedFrom, FirstIn
<1>5. CASE p = "user"
  BY <1>3, <1>5 DEF LoadedFrom, DivertedFrom
<1> QED
  BY <1>4, <1>5

\* A configuration with the change of a request in it.
Turned(c, cfg) == [cfg EXCEPT ![FieldOf(Kind(c))] = Mine(c)]

\* No copy is newer than the configuration; a core that runs has loaded one.
RevisionsBounded ==
  /\ running => revision # 0
  /\ guiRev <= revision
  /\ \A c \in Callers : call[c].rev <= revision

\* A request of a whole snapshot that has made the copy it will store.
SnapshotPending(c) ==
  /\ Kind(c) \in Whole
  /\ \/ call[c].pc \in {"fill", "update"}
     \/ Kind(c) = "custom" /\ call[c].pc \in {"device", "lock"}

\* A snapshot whose revision is current, and a copy to be announced whose
\* revision is current, are the settled configuration.
SnapshotsKnown ==
  running => \A c \in Callers :
    /\ SnapshotPending(c) /\ call[c].rev = revision => call[c].copy = Turned(c, Settled)
    /\ call[c].pc = "publish" /\ call[c].rev = revision => call[c].copy = Settled

GuiKnown == running /\ guiRev = revision => gui = Settled

\* A save under way differs from what was before in the field of its request.
SavesOneField ==
  \A c \in Callers : call[c].pc \in {"save", "rename"} =>
    /\ call[c].place \in {"portable", "user"}
    /\ ~excused => memory = Turned(c, call[c].previous)

\* What was stored last is settled, and is what the next start will find.
KeptSettled == running /\ ~excused => Settled = kept
KeptStored == revision # 0 /\ ~excused => Diverted \/ Loaded = kept

KeptInv == /\ RevisionsBounded /\ SnapshotsKnown /\ GuiKnown
           /\ SavesOneField /\ KeptSettled /\ KeptStored

\* A step of a call outside a save that stores nothing keeps the invariant if
\* it keeps it for its own copy and for the front end's.
LEMMA OwnCopyOnly ==
  ASSUME ConfigInv, KeptInv, NEW c \in Callers, running,
         call[c].pc \notin {"save", "rename"}, call'[c].pc \notin {"save", "rename"},
         UNCHANGED <<mix, running, memory, revision, path, mu, files, kept, excused>>,
         \A d \in Callers \ {c} : call'[d] = call[d],
         call'[c].rev <= revision, guiRev' <= revision,
         guiRev' = revision => gui' = Settled,
         SnapshotPending(c)' /\ call'[c].rev = revision => call'[c].copy = Turned(c, Settled),
         call'[c].pc = "publish" /\ call'[c].rev = revision => call'[c].copy = Settled
  PROVE  KeptInv'
<1>1. Settled' = Settled /\ Loaded' = Loaded /\ Diverted' = Diverted
  BY SettledStays, LoadsFromFiles
<1>2. RevisionsBounded' /\ GuiKnown'
  BY <1>1 DEF KeptInv, RevisionsBounded, GuiKnown
<1>3. SnapshotsKnown'
  <2>1. \A d \in Callers \ {c} : SnapshotPending(d)' = SnapshotPending(d)
    BY DEF SnapshotPending, Kind
  <2>2. \A d \in Callers : (Turned(d, Settled))' = Turned(d, Settled)
    BY <1>1 DEF Turned, Kind, Mine
  <2> QED
    BY <1>1, <2>1, <2>2 DEF KeptInv, SnapshotsKnown
<1>4. SavesOneField'
  <2>1. \A d \in Callers \ {c} : (Turned(d, call[d].previous))' = Turned(d, call[d].previous)
    BY DEF Turned, Kind, Mine
  <2> QED
    BY <2>1 DEF KeptInv, SavesOneField
<1>5. KeptSettled' /\ KeptStored'
  BY <1>1 DEF KeptInv, KeptSettled, KeptStored
<1> QED
  BY <1>2, <1>3, <1>4, <1>5 DEF KeptInv

\* A copy that is taken holds the change of its request.
LEMMA CopiesTurned ==
  ASSUME TypeOK, NEW c \in Callers, NEW cfg, NEW rev, NEW label, Copies(c, cfg, rev, label)
  PROVE  call'[c].copy = Turned(c, cfg)
BY DEF TypeOK, Copies, Turned

\* A request of a whole snapshot changes a field other than the scan time.
LEMMA WholeSparesScan ==
  ASSUME NEW c \in Callers, Kind(c) \in Whole
  PROVE  FieldOf(Kind(c)) # "scan"
BY DEF Whole, FieldOf

\* The front end's copy of the current revision is as good as the configuration.
LEMMA SubmittedIsCurrent ==
  ASSUME TypeOK, gui = memory
  PROVE  Submitted = memory
BY DEF Submitted, TypeOK, Config

\* The current scan time changes nothing in a snapshot that is current.
LEMMA FilledIsSame ==
  ASSUME TypeOK, NEW c \in Callers, Kind(c) \in Whole
  PROVE  Filled(Turned(c, memory)) = Turned(c, memory)
<1>1. "scan" \in Fields /\ memory \in Config
  BY DEF TypeOK, Fields
<1>2. Turned(c, memory)["scan"] = memory["scan"]
  BY <1>1, WholeSparesScan DEF Turned, Config
<1>3. Turned(c, memory) \in Config
  BY <1>1, Requests DEF Turned, Config
<1> QED
  BY <1>1, <1>2, <1>3 DEF Filled, Config

\* The steps that read keep what is known of the copies.
LEMMA ReadsKeepKept ==
  ASSUME ConfigInv, KeptInv, NEW c \in Callers,
         \/ BeginsSettings(c) \/ BeginsLocked(c) \/ BeginsWithDevice(c)
         \/ BeginsNarrow(c) \/ BeginsGated(c) \/ BeginsRetention(c)
         \/ DeviceAccepts(c) \/ DeviceRefuses(c) \/ LocksAgain(c) \/ FillsScan(c)
  PROVE  KeptInv'
<1> USE DEF store, ghosts, bounds
<1>1. TypeOK /\ call \in [Callers -> Calls] /\ revision \in Nat /\ guiRev \in Nat
  BY DEF ConfigInv, TypeOK, Calls
<1>2. /\ running
      /\ call[c].pc \in {"idle", "device", "lock", "fill"}
      /\ UNCHANGED <<mix, running, memory, revision, path, mu, files, gui, guiRev, kept, excused>>
      /\ Kind(c)' = Kind(c)
  BY DEF At, BeginsSettings, BeginsLocked, BeginsWithDevice, BeginsNarrow, BeginsGated,
         BeginsRetention, DeviceAccepts, DeviceRefuses, LocksAgain, FillsScan, Kind
<1>3. /\ guiRev' <= revision /\ call[c].rev <= revision
      /\ guiRev' = revision => gui' = Settled
  BY <1>2 DEF KeptInv, RevisionsBounded, GuiKnown
<1>4. MuFree => Settled = memory
  BY DEF MuFree, Settled
<1>5. ASSUME NEW label \in {"device", "fill", "update"}, MuFree, Copies(c, memory, revision, label)
      PROVE  KeptInv'
  <2>1. /\ \A d \in Callers \ {c} : call'[d] = call[d]
        /\ call'[c].pc = label /\ call'[c].rev = revision
        /\ call'[c].copy = Turned(c, Settled)
    BY <1>1, <1>4, <1>5, CopiesMoves, CopiesTurned
  <2> QED
    BY <1>1, <1>2, <1>3, <2>1, OwnCopyOnly
<1>6. ASSUME NEW label \in {"device", "lock", "update", "failed"}, Goes(c, label),
             Kind(c) \in Whole => /\ label # "update"
                                  /\ Kind(c) = "custom" => call[c].pc # "idle"
      PROVE  KeptInv'
  <2>1. /\ \A d \in Callers \ {c} : call'[d] = call[d]
        /\ call'[c].pc = label
        /\ label # "failed" => call'[c].rev = call[c].rev /\ call'[c].copy = call[c].copy
        /\ label = "failed" => call'[c].rev = 0
    BY <1>1, <1>6, GoesMoves
  <2>2. call'[c].rev <= revision
    BY <1>1, <1>3, <2>1
  <2>3. ASSUME SnapshotPending(c)', call'[c].rev = revision
        PROVE  call'[c].copy = Turned(c, Settled)
    <3>1. Kind(c) = "custom" /\ call[c].pc # "idle" /\ label # "failed"
      BY <1>2, <1>6, <2>1, <2>3 DEF SnapshotPending
    <3>2. SnapshotPending(c)
      BY <1>2, <3>1 DEF SnapshotPending, Whole
    <3> QED
      BY <1>2, <2>1, <2>3, <3>1, <3>2 DEF KeptInv, SnapshotsKnown
  <2> QED
    BY <1>2, <1>3, <2>1, <2>2, <2>3, OwnCopyOnly
<1>7. CASE BeginsSettings(c)
  <2>1. MuFree /\ Copies(c, Submitted, guiRev, "fill")
    BY <1>7 DEF BeginsSettings
  <2>2. /\ \A d \in Callers \ {c} : call'[d] = call[d]
        /\ call'[c].pc = "fill" /\ call'[c].rev = guiRev
        /\ call'[c].copy = Turned(c, Submitted)
    BY <1>1, <2>1, CopiesMoves, CopiesTurned
  <2>3. guiRev = revision => Submitted = Settled
    BY <1>1, <1>2, <1>3, <1>4, <2>1, SubmittedIsCurrent
  <2> QED
    BY <1>2, <1>3, <2>2, <2>3, OwnCopyOnly
<1>8. CASE BeginsLocked(c) \/ BeginsWithDevice(c) \/ BeginsGated(c)
  BY <1>5, <1>8 DEF BeginsLocked, BeginsWithDevice, BeginsGated
<1>9. CASE BeginsNarrow(c) \/ DeviceRefuses(c)
  <2>1. CASE BeginsNarrow(c)
    BY <1>6, <2>1 DEF BeginsNarrow, Narrow, Whole
  <2>2. CASE DeviceRefuses(c)
    BY <1>6, <2>2 DEF DeviceRefuses, At
  <2> QED
    BY <1>9, <2>1, <2>2
<1>10. CASE BeginsRetention(c)
  <2>1. /\ \A d \in Callers \ {c} : call'[d] = call[d]
        /\ call'[c].pc = "lock" /\ call'[c].rev = call[c].rev
        /\ Kind(c) # "custom"
    BY <1>1, <1>10 DEF BeginsRetention, Calls
  <2>2. ~SnapshotPending(c)'
    BY <1>2, <2>1 DEF SnapshotPending
  <2> QED
    BY <1>2, <1>3, <2>1, <2>2, OwnCopyOnly
<1>11. CASE DeviceAccepts(c)
  <2>1. CASE Kind(c) = "gear"
    BY <1>5, <1>11, <2>1 DEF DeviceAccepts
  <2>2. CASE Kind(c) = "light"
    BY <1>6, <1>11, <2>2 DEF DeviceAccepts, Whole
  <2>3. CASE Kind(c) \notin {"gear", "light"}
    BY <1>6, <1>11, <2>3 DEF DeviceAccepts, At
  <2> QED
    BY <2>1, <2>2, <2>3
<1>12. CASE LocksAgain(c)
  <2>1. CASE Kind(c) = "custom"
    <3>1. Goes(c, "fill") /\ call[c].pc = "lock"
      BY <1>12, <2>1 DEF LocksAgain, At
    <3>2. /\ \A d \in Callers \ {c} : call'[d] = call[d]
          /\ call'[c].pc = "fill" /\ call'[c].rev = call[c].rev /\ call'[c].copy = call[c].copy
      BY <1>1, <3>1, GoesMoves
    <3>3. SnapshotPending(c)
      BY <2>1, <3>1 DEF SnapshotPending, Whole
    <3>4. call'[c].rev = revision => call'[c].copy = Turned(c, Settled)
      BY <1>2, <3>2, <3>3 DEF KeptInv, SnapshotsKnown
    <3> QED
      BY <1>2, <1>3, <3>2, <3>4, OwnCopyOnly
  <2>2. CASE Kind(c) # "custom"
    BY <1>5, <1>12, <2>2 DEF LocksAgain
  <2> QED
    BY <2>1, <2>2
<1>13. CASE FillsScan(c)
  <2>1. MuFree /\ call[c].pc = "fill"
    BY <1>13 DEF FillsScan, At
  <2>2. /\ \A d \in Callers \ {c} : call'[d] = call[d]
        /\ call'[c].pc = "update" /\ call'[c].rev = call[c].rev
        /\ call'[c].copy = Filled(call[c].copy)
    BY <1>1, <1>13 DEF FillsScan, Calls
  <2>3. ASSUME SnapshotPending(c)', call'[c].rev = revision
        PROVE  call'[c].copy = Turned(c, Settled)
    <3>1. Kind(c) \in Whole /\ SnapshotPending(c)
      BY <1>2, <2>1, <2>3 DEF SnapshotPending
    <3>2. call[c].copy = Turned(c, memory)
      BY <1>2, <1>4, <2>1, <2>2, <2>3, <3>1 DEF KeptInv, SnapshotsKnown
    <3> QED
      BY <1>1, <1>4, <2>1, <2>2, <3>1, <3>2, FilledIsSame
  <2> QED
    BY <1>2, <1>3, <2>2, <2>3, OwnCopyOnly
<1> QED
  BY <1>7, <1>8, <1>9, <1>10, <1>11, <1>12, <1>13

\* So do the steps that end or retry a request without storing; the front end
\* is told a copy of the current revision.
LEMMA EndsKeepKept ==
  ASSUME ConfigInv, KeptInv, NEW c \in Callers,
         StoresNothing(c) \/ NotApplied(c) \/ Undoes(c) \/ Regets(c) \/ Publishes(c)
  PROVE  KeptInv'
<1> USE DEF store, ghosts, bounds
<1>1. TypeOK /\ call \in [Callers -> Calls] /\ revision \in Nat /\ guiRev \in Nat
  BY DEF ConfigInv, TypeOK, Calls
<1>2. /\ running
      /\ call[c].pc \in {"update", "undo", "reget", "publish"}
      /\ UNCHANGED <<mix, running, memory, revision, path, mu, files, kept, excused>>
      /\ Kind(c)' = Kind(c)
  BY DEF At, StoresNothing, NotApplied, Undoes, Regets, Publishes, Kind
<1>3. /\ guiRev <= revision /\ call[c].rev <= revision
      /\ guiRev = revision => gui = Settled
  BY <1>2 DEF KeptInv, RevisionsBounded, GuiKnown
<1>4. MuFree => Settled = memory
  BY DEF MuFree, Settled
<1>5. CASE StoresNothing(c) \/ Regets(c)
  <2>1. /\ \A d \in Callers \ {c} : call'[d] = call[d]
        /\ call'[c].pc \in {"reget", "publish"} /\ call'[c].rev = revision
        /\ call'[c].copy = memory /\ MuFree /\ UNCHANGED <<gui, guiRev>>
    <3>1. PICK to \in {"reget", "publish"} :
             call' = [call EXCEPT ![c] = [@ EXCEPT !.pc = to, !.copy = memory, !.rev = revision]]
      BY <1>5 DEF StoresNothing, Regets
    <3>2. MuFree /\ UNCHANGED <<gui, guiRev>>
      BY <1>5 DEF StoresNothing, Regets
    <3> QED
      BY <1>1, <3>1, <3>2 DEF Calls
  <2>2. ~SnapshotPending(c)'
    BY <2>1 DEF SnapshotPending
  <2> QED
    BY <1>1, <1>2, <1>3, <1>4, <2>1, <2>2, OwnCopyOnly
<1>6. CASE NotApplied(c) /\ MayRetry(c)
  <2>1. /\ \A d \in Callers \ {c} : call'[d] = call[d]
        /\ call'[c].pc = "update" /\ call'[c].rev = revision
    BY <1>1, <1>6, ZenonT(60) DEF NotApplied, Calls, At
  <2>2. ~SnapshotPending(c)' /\ UNCHANGED <<gui, guiRev>>
    BY <1>2, <1>6 DEF NotApplied, SnapshotPending, Gated, Whole
  <2> QED
    BY <1>1, <1>2, <1>3, <2>1, <2>2, OwnCopyOnly
<1>7. ASSUME NEW label \in {"done", "failed"}, Goes(c, label),
             guiRev' <= revision, guiRev' = revision => gui' = Settled
      PROVE  KeptInv'
  <2>1. /\ \A d \in Callers \ {c} : call'[d] = call[d]
        /\ call'[c].pc = label /\ call'[c].rev = 0
    BY <1>1, <1>7, GoesMoves
  <2>2. ~SnapshotPending(c)'
    BY <2>1 DEF SnapshotPending
  <2> QED
    BY <1>1, <1>2, <1>7, <2>1, <2>2, OwnCopyOnly
<1>8. CASE (NotApplied(c) /\ ~MayRetry(c)) \/ Undoes(c)
  <2>1. UNCHANGED <<gui, guiRev>>
    BY <1>8 DEF NotApplied, Undoes
  <2>2. PICK label \in {"done", "failed"} : Goes(c, label)
    BY <1>8 DEF NotApplied, Undoes
  <2> QED
    BY <1>3, <1>7, <2>1, <2>2
<1>9. CASE Publishes(c)
  <2>1. Goes(c, "done") /\ call[c].pc = "publish"
    BY <1>9 DEF Publishes, At
  <2>2. \/ UNCHANGED <<gui, guiRev>>
        \/ gui' = call[c].copy /\ guiRev' = call[c].rev
    BY <1>9 DEF Publishes
  <2>3. call[c].rev = revision => call[c].copy = Settled
    BY <1>2, <2>1 DEF KeptInv, SnapshotsKnown
  <2> QED
    BY <1>3, <1>7, <2>1, <2>2, <2>3
<1> QED
  BY <1>5, <1>6, <1>8, <1>9

\* Under the lock, what a request stores is the configuration with its own field
\* changed, unless its snapshot is out of date.
LEMMA StoresOneField ==
  ASSUME ConfigInv, KeptInv, NEW c \in Callers, StoresInMemory(c), ~excused'
  PROVE  memory' = Turned(c, memory)
<1>1. mu = Nobody /\ running /\ call[c].pc = "update" /\ memory' = Changed(c)
  BY DEF StoresInMemory, MuFree, At
<1>2. CASE Kind(c) \in Whole
  <2>1. call[c].rev = revision /\ SnapshotPending(c)
    BY <1>1, <1>2 DEF StoresInMemory, SnapshotPending
  <2> QED
    BY <1>1, <1>2, <2>1 DEF KeptInv, SnapshotsKnown, Settled, Changed
<1>3. CASE Kind(c) \notin Whole
  BY <1>1, <1>3 DEF Changed, Turned
<1> QED
  BY <1>2, <1>3

\* A step under the lock that does not move the revision keeps the invariant if
\* it keeps what was settled.
LEMMA SettledKeepsKept ==
  ASSUME ConfigInv, KeptInv, NEW c \in Callers, running, excused => excused',
         UNCHANGED <<mix, running, revision, path, files, gui, guiRev, kept>>,
         Settled' = Settled,
         \A d \in Callers \ {c} : call'[d] = call[d],
         call'[c].pc \in {"save", "rename", "undo", "failed"}, call'[c].rev <= revision,
         \A d \in Callers : call'[d].pc \in {"save", "rename"} =>
           /\ d = c
           /\ call'[c].place \in {"portable", "user"}
           /\ ~excused' => memory' = Turned(c, call'[c].previous)
  PROVE  KeptInv'
<1>1. Loaded' = Loaded /\ Diverted' = Diverted
  BY LoadsFromFiles
<1>2. RevisionsBounded' /\ GuiKnown'
  BY DEF KeptInv, RevisionsBounded, GuiKnown
<1>3. SnapshotsKnown'
  <2>1. \A d \in Callers \ {c} : SnapshotPending(d)' = SnapshotPending(d)
    BY DEF SnapshotPending, Kind
  <2>2. ~SnapshotPending(c)' /\ call'[c].pc # "publish"
    BY DEF SnapshotPending
  <2>3. \A d \in Callers : Turned(d, Settled)' = Turned(d, Settled)
    BY DEF Turned, Kind, Mine
  <2> QED
    BY <2>1, <2>2, <2>3 DEF KeptInv, SnapshotsKnown
<1>4. SavesOneField'
  <2>1. Turned(c, call[c].previous)' = Turned(c, call'[c].previous)
    BY DEF Turned, Kind, Mine
  <2> QED
    BY <2>1 DEF SavesOneField
<1>5. KeptSettled' /\ KeptStored'
  BY <1>1 DEF KeptInv, KeptSettled, KeptStored
<1> QED
  BY <1>2, <1>3, <1>4, <1>5 DEF KeptInv

\* The steps of a save before its end, and a save that fails, keep what was
\* settled, and with it the invariant.
LEMMA SavesKeepKept ==
  ASSUME ConfigInv, KeptInv, NEW c \in Callers,
         StoresInMemory(c) \/ SaveBegins(c) \/ FallsBack(c) \/ SaveFails(c)
  PROVE  KeptInv'
<1> USE DEF store, ghosts, bounds
<1>1. TypeOK /\ call \in [Callers -> Calls] /\ revision \in Nat
  BY DEF ConfigInv, TypeOK, Calls
<1>2. /\ running /\ (excused => excused')
      /\ UNCHANGED <<mix, running, revision, path, files, gui, guiRev, kept>>
      /\ call[c].rev <= revision
  <2>1. call[c].rev <= revision
    BY DEF KeptInv, RevisionsBounded
  <2>2. UNCHANGED <<mix, running, revision, path, files, gui, guiRev, kept>> /\ running
    BY DEF At, StoresInMemory, SaveBegins, FallsBack, SaveFails
  <2>3. excused => excused'
    BY Zenon DEF StoresInMemory, SaveBegins, FallsBack, SaveFails
  <2> QED
    BY <2>1, <2>2, <2>3
<1>3. CASE StoresInMemory(c)
  <2>1. mu = Nobody /\ mu' = c
    BY <1>3 DEF StoresInMemory, MuFree
  <2>2. /\ \A d \in Callers \ {c} : call'[d] = call[d]
        /\ call'[c].pc = "save" /\ call'[c].previous = memory
        /\ call'[c].rev = call[c].rev /\ call'[c].place = "portable"
    BY <1>1, <1>3 DEF StoresInMemory, Calls
  <2>3. Settled' = Settled
    BY <2>1, <2>2, NobodyAssumption DEF Settled
  <2>4. \A d \in Callers : call'[d].pc \in {"save", "rename"} => d = c
    BY <2>1, <2>2, NobodyAssumption DEF ConfigInv, LockHeld
  <2>5. ~excused' => memory' = Turned(c, memory)
    BY <1>3, StoresOneField
  <2> QED
    BY <1>2, <2>2, <2>3, <2>4, <2>5, SettledKeepsKept
<1>4. CASE SaveBegins(c) \/ FallsBack(c)
  <2>1. /\ call[c].pc \in {"save", "rename"} /\ call'[c].pc \in {"save", "rename"}
        /\ \A d \in Callers \ {c} : call'[d] = call[d]
        /\ call'[c].previous = call[c].previous /\ call'[c].rev = call[c].rev
        /\ call'[c].place \in {call[c].place, "user"}
    <3>1. CASE SaveBegins(c)
      BY <1>1, <3>1, GoesMoves DEF SaveBegins, At
    <3>2. CASE FallsBack(c)
      BY <1>1, <3>2 DEF FallsBack, At, Calls
    <3> QED
      BY <1>4, <3>1, <3>2
  <2>2. mu = c /\ mu' = mu /\ memory' = memory /\ excused' = excused
    BY <1>4, <2>1 DEF SaveBegins, FallsBack, ConfigInv, LockHeld
  <2>3. Settled' = Settled
    BY <2>1, <2>2, NobodyAssumption DEF Settled
  <2>4. \A d \in Callers : call'[d].pc \in {"save", "rename"} => d = c
    BY <2>1, <2>2 DEF ConfigInv, LockHeld
  <2>5. /\ call[c].place \in {"portable", "user"}
        /\ ~excused => memory = Turned(c, call[c].previous)
    BY <2>1 DEF KeptInv, SavesOneField
  <2> QED
    BY <1>2, <2>1, <2>2, <2>3, <2>4, <2>5, SettledKeepsKept
<1>5. CASE SaveFails(c)
  <2>1. /\ call[c].pc \in {"save", "rename"} /\ mu' = Nobody
        /\ memory' = call[c].previous
    BY <1>5 DEF SaveFails, At, RollsBack
  <2>2. mu = c /\ \A d \in Callers \ {c} : call[d].pc \notin {"save", "rename"}
    BY <2>1 DEF ConfigInv, LockHeld
  <2>3. Settled' = Settled
    BY <2>1, <2>2, NobodyAssumption DEF Settled
  <2>4. PICK label \in {"undo", "failed"} : Goes(c, label)
    BY <1>5 DEF SaveFails
  <2>5. /\ \A d \in Callers \ {c} : call'[d] = call[d]
        /\ call'[c].pc = label /\ call'[c].rev \in {call[c].rev, 0}
    BY <1>1, <2>4, GoesMoves
  <2> QED
    BY <1>1, <1>2, <2>2, <2>3, <2>5, SettledKeepsKept
<1> QED
  BY <1>3, <1>4, <1>5

\* A configuration is not what a missing or torn file is.
LEMMA ConfigIsReadable == ASSUME NEW cfg \in Config PROVE cfg \notin {Absent, Torn}
BY FilesAssumption

\* A save that succeeds makes what it has changed settled, stored and kept; no
\* copy made before is current any more.
LEMMA SavedKeepsKept ==
  ASSUME ConfigInv, KeptInv, NEW c \in Callers, Saved(c)
  PROVE  KeptInv'
<1> USE DEF bounds
<1>1. TypeOK /\ call \in [Callers -> Calls] /\ revision \in Nat /\ guiRev \in Nat
  BY DEF ConfigInv, TypeOK, Calls
<1>2. /\ call[c].pc = "rename" /\ mu' = Nobody /\ memory' = memory /\ running /\ running'
      /\ revision' = revision + 1 /\ path' = call[c].place
      /\ files' = [files EXCEPT ![call[c].place] = memory]
      /\ kept' = [kept EXCEPT ![FieldOf(Kind(c))] = Mine(c)]
      /\ UNCHANGED <<mix, gui, guiRev, excused>>
  BY DEF Saved, At, Bumps
<1>3. /\ \A d \in Callers \ {c} : call'[d] = call[d]
      /\ call'[c].pc \in {"reget", "publish"}
      /\ call'[c].copy = memory /\ call'[c].rev = revision'
  BY <1>1 DEF Saved, Calls
<1>4. mu = c /\ \A d \in Callers \ {c} : call[d].pc \notin {"save", "rename"}
  BY <1>2 DEF ConfigInv, LockHeld
<1>5. Settled = call[c].previous /\ Settled' = memory
  BY <1>2, <1>4, NobodyAssumption DEF Settled
<1>6. /\ guiRev < revision'
      /\ \A d \in Callers : call[d].rev < revision' /\ call[d].rev \in Nat
  BY <1>1, <1>2 DEF KeptInv, RevisionsBounded, Calls
<1>7. RevisionsBounded' /\ GuiKnown'
  BY <1>1, <1>2, <1>3, <1>6 DEF RevisionsBounded, GuiKnown
<1>8. SnapshotsKnown'
  <2>1. ~SnapshotPending(c)'
    BY <1>3 DEF SnapshotPending
  <2>2. \A d \in Callers \ {c} : call'[d].rev # revision'
    BY <1>1, <1>2, <1>3, <1>6
  <2> QED
    BY <1>3, <1>5, <2>1, <2>2 DEF SnapshotsKnown
<1>9. SavesOneField'
  BY <1>3, <1>4 DEF SavesOneField
<1>10. /\ call[c].place \in {"portable", "user"}
       /\ ~excused => memory = kept'
  BY <1>2, <1>5 DEF KeptInv, SavesOneField, KeptSettled, Turned
<1>11. DivertedFrom(path', files') \/ LoadedFrom(files') = memory
  <2>1. files' \in Files /\ files'[call[c].place] = memory
    BY <1>1, <1>2, <1>10, PlaceNames DEF TypeOK, Files
  <2>2. memory \notin {Absent, Torn}
    BY <1>1, ConfigIsReadable DEF TypeOK
  <2> QED
    BY <1>2, <1>10, <2>1, <2>2, WrittenIsFound
<1>12. KeptSettled' /\ KeptStored'
  BY <1>2, <1>5, <1>10, <1>11, LoadsFromFiles DEF KeptSettled, KeptStored
<1> QED
  BY <1>7, <1>8, <1>9, <1>12 DEF KeptInv

\* What a start has loaded, the next start finds again, whether or not it could
\* be saved, unless it was saved behind another file.
LEMMA StartsFindAgain ==
  ASSUME TypeOK, Starts
  PROVE  Diverted' \/ Loaded' = Loaded
<1>1. Loaded \in Config /\ Loaded \notin {Absent, Torn}
  BY LoadedIsStored, ConfigIsReadable
<1>2. CASE files["portable"] \notin {Absent, Torn}
  BY <1>2, LoadsFromFiles DEF Starts
<1>3. CASE files["portable"] \in {Absent, Torn}
  <2>1. PICK o \in Outcomes :
           /\ files' = [p \in Places |-> IF p = o[2] THEN Loaded ELSE files[p]]
           /\ path' = IF o[2] = "user" THEN "user" ELSE "portable"
    BY <1>3 DEF Starts
  <2>2. files \in Files /\ files' \in Files
    BY <1>1, <2>1 DEF TypeOK, Files
  <2>3. CASE o[2] \in {"portable", "user"}
    <3>1. files'[o[2]] = Loaded /\ path' = o[2]
      BY <2>1, <2>3, PlaceNames
    <3> QED
      BY <1>1, <2>2, <2>3, <3>1, WrittenIsFound, LoadsFromFiles
  <2>4. CASE o[2] = "nowhere"
    <3>1. \A p \in Places : p # "nowhere"
      BY PlaceNames
    <3>2. files' = files
      BY <2>1, <2>2, <2>4, <3>1 DEF Files
    <3> QED
      BY <3>2, LoadsFromFiles
  <2> QED
    BY <2>3, <2>4 DEF Outcomes
<1> QED
  BY <1>2, <1>3

\* A start runs on what was stored last; a death and a read by the front end
\* change nothing of it.
LEMMA OutsideKeepsKept ==
  ASSUME ConfigInv, KeptInv, Starts \/ Dies \/ GetConfig
  PROVE  KeptInv'
<1>1. TypeOK /\ call \in [Callers -> Calls] /\ revision \in Nat /\ guiRev \in Nat
  BY DEF ConfigInv, TypeOK, Calls
<1>2. CASE Starts
  <2>1. /\ running' /\ ~running /\ memory' = Loaded /\ gui' = Loaded
        /\ revision' = revision + 1 /\ guiRev' = revision'
        /\ kept' = IF revision = 0 THEN Loaded ELSE kept
        /\ excused' = (excused \/ (revision # 0 /\ Diverted))
        /\ UNCHANGED <<mix, mu, call>>
    BY <1>2 DEF Starts
  <2>2. /\ mu = Nobody
        /\ \A c \in Callers : call[c].pc \in {"idle", "done", "failed"}
    BY <2>1 DEF ConfigInv, LockHeld
  <2>3. Settled' = Loaded
    BY <2>1, <2>2 DEF Settled
  <2>4. RevisionsBounded'
    <3>1. \A c \in Callers : call[c].rev <= revision /\ call[c].rev \in Nat
      BY <1>1 DEF KeptInv, RevisionsBounded, Calls
    <3> QED
      BY <1>1, <2>1, <3>1 DEF RevisionsBounded
  <2>5. SnapshotsKnown' /\ GuiKnown' /\ SavesOneField'
    BY <2>1, <2>2, <2>3 DEF SnapshotsKnown, SnapshotPending, GuiKnown, SavesOneField
  <2>6. ~excused' => kept' = Loaded
    BY <2>1 DEF KeptInv, KeptStored
  <2>7. KeptSettled' /\ KeptStored'
    BY <1>1, <1>2, <2>1, <2>3, <2>6, StartsFindAgain DEF KeptSettled, KeptStored
  <2> QED
    BY <2>4, <2>5, <2>7 DEF KeptInv
<1>3. CASE Dies
  <2>1. /\ running' = FALSE /\ UNCHANGED <<revision, path, files, guiRev, kept, excused>>
        /\ \A c \in Callers : \/ call'[c] = call[c] /\ call[c].pc \in {"idle", "done"}
                              \/ call'[c].pc = "failed" /\ call'[c].rev = 0
    BY <1>1, <1>3 DEF Dies, FreshCall
  <2>2. RevisionsBounded'
    BY <1>1, <2>1 DEF KeptInv, RevisionsBounded
  <2>3. SnapshotsKnown' /\ GuiKnown' /\ SavesOneField' /\ KeptSettled'
    BY <2>1 DEF SnapshotsKnown, GuiKnown, SavesOneField, KeptSettled
  <2>4. KeptStored'
    BY <2>1, LoadsFromFiles DEF KeptInv, KeptStored
  <2> QED
    BY <2>2, <2>3, <2>4 DEF KeptInv
<1>4. CASE GetConfig
  <2>1. /\ mu = Nobody /\ gui' = memory /\ guiRev' = revision
        /\ UNCHANGED <<mix, running, memory, revision, path, mu, files, call, kept, excused>>
    BY <1>4 DEF GetConfig, MuFree, store, ghosts, bounds
  <2>2. Settled' = Settled /\ Settled = memory
    BY <2>1 DEF Settled
  <2>3. RevisionsBounded' /\ GuiKnown'
    BY <1>1, <2>1, <2>2 DEF KeptInv, RevisionsBounded, GuiKnown
  <2>4. SnapshotsKnown' /\ SavesOneField'
    BY <2>1, <2>2 DEF KeptInv, SnapshotsKnown, SnapshotPending, SavesOneField, Turned, Kind, Mine
  <2>5. KeptSettled' /\ KeptStored'
    BY <2>1, <2>2, LoadsFromFiles DEF KeptInv, KeptSettled, KeptStored
  <2> QED
    BY <2>3, <2>4, <2>5 DEF KeptInv
<1> QED
  BY <1>2, <1>3, <1>4

\* What was stored last is what the manager has settled on, and what the next
\* start will find, as long as none of the two known ways to lose a change was
\* taken.
THEOREM KeptHolds == Spec => []KeptInv
<1>1. Init => KeptInv
  BY DEF Init, KeptInv, RevisionsBounded, SnapshotsKnown, GuiKnown, SavesOneField, KeptSettled,
         KeptStored, FreshCall
<1>2. ConfigInv /\ KeptInv /\ [Next]_vars => KeptInv'
  <2> SUFFICES ASSUME ConfigInv, KeptInv, [Next]_vars PROVE KeptInv'
    OBVIOUS
  <2>1. CASE UNCHANGED vars
    <3>1. UNCHANGED <<mix, running, memory, revision, path, mu, files, call, gui, guiRev, kept, excused>>
      BY <2>1 DEF vars
    <3>2. Settled' = Settled /\ Loaded' = Loaded /\ Diverted' = Diverted
      BY <3>1, LoadsFromFiles DEF Settled
    <3> QED
      BY <3>1, <3>2 DEF KeptInv, RevisionsBounded, SnapshotsKnown, SnapshotPending, GuiKnown,
         SavesOneField, KeptSettled, KeptStored, Turned, Kind, Mine
  <2>2. CASE Next
    BY <2>2, OutsideKeepsKept, ReadsKeepKept, EndsKeepKept, SavesKeepKept, SavedKeepsKept
       DEF Next, Works, Serves
  <2> QED
    BY <2>1, <2>2
<1> QED
  BY <1>1, <1>2, ConfigHolds, PTL DEF Spec

\* A stored change is lost in two ways only, a snapshot that is out of date and
\* an old portable file after a save in the user's directory: failed writes,
\* deaths, restarts, narrow and gated requests lose nothing.
THEOREM ChangesStay == Spec => []NothingElseLosesChanges
<1>1. KeptInv => NothingElseLosesChanges
  BY DEF KeptInv, KeptSettled, NothingElseLosesChanges, Settled, MuFree
<1> QED
  BY <1>1, KeptHolds, PTL

=============================================================================
