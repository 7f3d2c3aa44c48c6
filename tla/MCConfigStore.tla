--------------------------- MODULE MCConfigStore ---------------------------
(* Three requests at a time, of the kinds that interfere. *)
EXTENDS ConfigStore, TLC

CONSTANTS c1, c2, c3

Mix(k1, k2, k3) == c1 :> [kind |-> k1, value |-> 1] @@ c2 :> [kind |-> k2, value |-> 2]
                   @@ c3 :> [kind |-> k3, value |-> 1]

MixesDef ==
  {Mix("settings", "light", "learn"), Mix("settings", "custom", "diagnosis"),
   Mix("reset", "gear", "learn"), Mix("retention", "curve", "scan"),
   Mix("auto", "diagnosis", "scan")}

Stored(v) == [f \in Fields |-> IF f = "settings" THEN v ELSE 0]
Disk(r, u, s) == [q \in Places |-> CASE q = "root" -> r [] q = "user" -> u
                                      [] q = "settings" -> s [] OTHER -> Absent]
(* Nothing, or the files of old versions; the portable file appears with   *)
(* the first save.                                                         *)
DisksDef == {Disk(Absent, Absent, Absent), Disk(Stored(6), Stored(7), Absent),
             Disk(Absent, Torn, Stored(5))}

============================================================================
