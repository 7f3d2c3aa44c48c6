------------------------------ MODULE MCBridge ------------------------------
(* The monitor with its recovery, and two other goroutines: the request to *)
(* restart the PawnIO driver, another reader, and the stop at the end.     *)
EXTENDS Bridge, TLC

CONSTANTS c1

WishesDef == {c1 :> "pawnio", c1 :> "stop", c1 :> "read"}

============================================================================
