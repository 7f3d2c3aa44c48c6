------------------------------- MODULE MCWifi -------------------------------
(***************************************************************************)
(* Instances of Wifi.  A mix says how often each call and event may        *)
(* happen; heartbeats and health checks come again and again where their   *)
(* count is not 0.                                                         *)
(***************************************************************************)
EXTENDS Wifi, TLC

Mix(counts) ==
  [k \in Kinds \cup Events |-> IF k \in DOMAIN counts THEN counts[k] ELSE 0]

WifiMixes == {
  Mix("reconnect" :> 1 @@ "move" :> 1 @@ "health" :> 1 @@ "heartbeat" :> 1),
  Mix("reconnect" :> 1 @@ "switch" :> 1 @@ "refresh" :> 1),
  Mix("switch" :> 2 @@ "heartbeat" :> 1),
  Mix("reconnect" :> 2 @@ "drop" :> 1),
  Mix("reconnect" :> 1 @@ "set" :> 1 @@ "block" :> 1 @@ "unblock" :> 1),
  Mix("reconnect" :> 1 @@ "option" :> 1 @@ "block" :> 1),
  Mix("reconnect" :> 1 @@ "set" :> 1 @@ "refresh" :> 1 @@ "knob" :> 1),
  Mix("scan" :> 2 @@ "control" :> 2),
  Mix("scan" :> 1 @@ "quiet" :> 1),
  Mix("reconnect" :> 1 @@ "set" :> 1 @@ "quiet" :> 1),
  Mix("switch" :> 1 @@ "quiet" :> 1)}
=============================================================================
