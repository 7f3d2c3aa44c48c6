--------------------------- MODULE DeviceManager ---------------------------
(***************************************************************************)
(* The connection state of internal/device.Manager: the one handle it may  *)
(* hold open, the mutex m.mutex it keeps for a whole connect, the write    *)
(* barrier (write_barrier.go) and the connection generation.               *)
(*                                                                         *)
(* The module declares the state and one operator per method; the callers, *)
(* all in internal/coreapp, are the actions of Connection.                 *)
(*                                                                         *)
(* connectionGen is a counter that is only ever compared for equality with *)
(* a value read earlier.  What can be observed of it is which readers      *)
(* still hold the current value: that set is genHolders, reading the       *)
(* counter adds the reader, and every connectionGen.Add(1) empties it.     *)
(***************************************************************************)
CONSTANTS
    Transports, \* the transports the one known device may have
    NoOne       \* the owner of a free mutex

ASSUME TransportsAssumption == Transports \subseteq {"hid", "ble", "wifi"}

VARIABLES
    transport,     \* the transport of the device this installation has
    linkUp,        \* the device can be reached (environment)
    handle,        \* "closed", "live", or "dead": open, but its device is gone
    writesBlocked, \* m.writesBlocked
    mgrLock,       \* the actor that holds m.mutex across its connect I/O
    genHolders,    \* the actors whose copy of connectionGen is still current
    openedBy,      \* history: the actor whose connect call opened this handle
    adoptedBy      \* history: the actor that was told last that it was open already

managerVars == <<transport, linkUp, handle, writesBlocked, mgrLock,
                 genHolders, openedBy, adoptedBy>>

Handles == {"closed", "live", "dead"}

\* types.IsNativeDeviceTransport of the device's transport.
IsNative == transport # "wifi"

\* Manager.Connect alone reports that the device was open already.
ManagerTypeOK(Actors) ==
    /\ transport \in Transports
    /\ linkUp \in BOOLEAN
    /\ handle \in Handles
    /\ writesBlocked \in BOOLEAN
    /\ mgrLock \in Actors \cup {NoOne}
    /\ genHolders \subseteq Actors
    /\ openedBy \in Actors \cup {NoOne}
    /\ adoptedBy \in IF IsNative THEN {NoOne} ELSE Actors \cup {NoOne}

ManagerInit ==
    /\ transport \in Transports
    /\ linkUp \in BOOLEAN
    /\ handle = "closed"
    /\ writesBlocked = FALSE
    /\ mgrLock = NoOne
    /\ genHolders = {}
    /\ openedBy = NoOne
    /\ adoptedBy = NoOne

-----------------------------------------------------------------------------
(* Readers.                                                                *)

\* m.isConnected: the manager believes in a handle until something closes it.
IsConnected == handle # "closed"

\* m.mutex can be taken now.
ManagerFree == mgrLock = NoOne

-----------------------------------------------------------------------------
(* Methods.  Each one leaves the variables it does not name unchanged.     *)

\* The effect of closing: the handle goes and the generation moves on.
CloseHandle ==
    /\ handle' = "closed"
    /\ genHolders' = {}
    /\ openedBy' = NoOne
    /\ adoptedBy' = NoOne

\* DisconnectSilently and DisconnectForRecovery: disconnectWithGeneration with
\* no expected generation.  It waits for m.mutex; the generation moves on even
\* when nothing was connected.
Disconnect ==
    /\ ManagerFree
    /\ CloseHandle
    /\ UNCHANGED <<transport, linkUp, writesBlocked, mgrLock>>

\* Mutant: the expected generation is ignored.
DisconnectIfCurrent_Any(a) == Disconnect

\* DisconnectIfConnectionGeneration: only if no one has moved the generation
\* since actor a read it.
DisconnectIfCurrent(a) ==
    /\ ManagerFree
    /\ IF a \in genHolders THEN CloseHandle ELSE UNCHANGED <<handle, genHolders, openedBy, adoptedBy>>
    /\ UNCHANGED <<transport, linkUp, writesBlocked, mgrLock>>

\* ConnectionGeneration, read by actor a.
ReadGeneration(a) ==
    /\ genHolders' = genHolders \cup {a}
    /\ UNCHANGED <<transport, linkUp, handle, writesBlocked, mgrLock, openedBy, adoptedBy>>

\* BlockWrites up to its barrier: the flag is stored before m.mutex is waited for.
StoreWritesBlocked ==
    /\ writesBlocked' = TRUE
    /\ UNCHANGED <<transport, linkUp, handle, mgrLock, genHolders, openedBy, adoptedBy>>

\* UnblockWrites.
UnblockWrites ==
    /\ ManagerFree
    /\ writesBlocked' = FALSE
    /\ UNCHANGED <<transport, linkUp, handle, mgrLock, genHolders, openedBy, adoptedBy>>

\* Manager.Connect, the way of the compatibility transports, refuses while
\* writes are blocked; the native connect calls do not look at the flag.
ConnectRefused == ~IsNative /\ writesBlocked

\* Manager.Connect finds the compatibility device already connected and
\* reports success: the caller takes a handle for its own that somebody else may
\* have opened.
AdoptOpen(a) ==
    /\ ManagerFree
    /\ ~IsNative /\ ~writesBlocked /\ IsConnected
    /\ adoptedBy' = a
    /\ UNCHANGED <<transport, linkUp, handle, writesBlocked, mgrLock, genHolders, openedBy>>

\* The first half of a connect that does I/O.  A native connect closes what is
\* open first; then m.mutex is held and the profile is configured, which moves
\* the generation on.
BeginOpen(a) ==
    /\ ManagerFree
    /\ ~ConnectRefused
    /\ IsNative \/ ~IsConnected
    /\ CloseHandle
    /\ mgrLock' = a
    /\ UNCHANGED <<transport, linkUp, writesBlocked>>

\* The second half: the device answered.
OpenSucceeds(a) ==
    /\ mgrLock = a
    /\ linkUp
    /\ handle' = "live"
    /\ openedBy' = a
    /\ adoptedBy' = NoOne
    /\ genHolders' = {}
    /\ mgrLock' = NoOne
    /\ UNCHANGED <<transport, linkUp, writesBlocked>>

\* The second half: no answer, an error, or the operation was cancelled.
\* The earlier profile is configured again.
OpenFails(a) ==
    /\ mgrLock = a
    /\ mgrLock' = NoOne
    /\ genHolders' = {}
    /\ UNCHANGED <<transport, linkUp, handle, writesBlocked, openedBy, adoptedBy>>

\* A receiver gives up on the handle it reads from (HID reader, BLE
\* connection-lost callback, WiFi heartbeat): each checks that the handle is
\* still its own, closes it and goes on to call onDisconnect.
ReceiverGivesUp ==
    /\ handle = "dead"
    /\ Disconnect

-----------------------------------------------------------------------------
(* The environment.                                                        *)

\* The device is unplugged, switched off, or leaves the network.
LinkDrops ==
    /\ linkUp
    /\ linkUp' = FALSE
    /\ handle' = IF handle = "live" THEN "dead" ELSE handle
    /\ UNCHANGED <<transport, writesBlocked, mgrLock, genHolders, openedBy, adoptedBy>>

LinkReturns ==
    /\ ~linkUp
    /\ linkUp' = TRUE
    /\ UNCHANGED <<transport, handle, writesBlocked, mgrLock, genHolders, openedBy, adoptedBy>>
=============================================================================
