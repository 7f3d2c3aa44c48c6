------------------------------- MODULE Calls -------------------------------
(***************************************************************************)
(* What the GUI may rely on when it calls the core service                 *)
(* (guiapp/ipc_client.go, sendRequestWithTimeout): a call that succeeds    *)
(* has been executed, a call that changes something is executed at most    *)
(* once whatever happens to the connection, and a call that only reads     *)
(* may be repeated once.  A call that failed may have been executed, or    *)
(* still be.                                                               *)
(***************************************************************************)
EXTENDS Naturals

CONSTANT Callers

VARIABLES
    status,  \* of each call
    kind,    \* "read" for the requests of ipcRequestRetryable, else "write"; "none": no call
    runs     \* how often the core has executed it

callVars == <<status, kind, runs>>

Kinds == {"read", "write", "none"}
MostRuns(c) == IF kind[c] = "read" THEN 2 ELSE 1

CallsInit ==
    /\ status = [c \in Callers |-> "idle"]
    /\ kind \in [Callers -> Kinds]
    /\ runs = [c \in Callers |-> 0]

Begins(c) ==
    /\ status[c] = "idle" /\ kind[c] # "none" /\ status' = [status EXCEPT ![c] = "open"]
    /\ UNCHANGED <<kind, runs>>

\* Also after the call has returned.
IsExecuted(c) ==
    /\ status[c] # "idle" /\ runs[c] < MostRuns(c)
    /\ runs' = [runs EXCEPT ![c] = @ + 1]
    /\ UNCHANGED <<status, kind>>

Succeeds(c) ==
    /\ status[c] = "open" /\ runs[c] > 0
    /\ status' = [status EXCEPT ![c] = "ok"]
    /\ UNCHANGED <<kind, runs>>

Fails(c) ==
    /\ status[c] = "open" /\ status' = [status EXCEPT ![c] = "failed"]
    /\ UNCHANGED <<kind, runs>>

CallsNext == \E c \in Callers : Begins(c) \/ IsExecuted(c) \/ Succeeds(c) \/ Fails(c)

CallsSpec == CallsInit /\ [][CallsNext]_callVars
=============================================================================
