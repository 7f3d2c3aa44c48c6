--------------------------- MODULE MCConnection ---------------------------
(* Instances of Connection for TLC: the mixes of events, and symmetry.     *)
EXTENDS Connection, TLC

Once(events) == [e \in Events |-> IF e \in events THEN 1 ELSE 0]

\* What users, links and the monitor-only switch do while the machine is awake.
UserMixes == {Once({"connect", "disconnect", "drop"}),
              Once({"connect", "monitor_only"}), Once({"monitor_only", "drop"}),
              Once({"refresh", "connect", "reconfigure"}), Once({"gap", "drop"})}

\* Power events, also a repeated one, among losses and manual disconnects.
PowerMixes == {[Once({"suspend"}) EXCEPT !["suspend"] = 2],
               Once({"suspend", "gap"}), Once({"suspend", "disconnect"}),
               Once({"suspend", "drop"})}

SafetyMixes == UserMixes \cup PowerMixes

\* A request beside a suspend, a gap, the monitor-only switch or a loop that is
\* at work, for the liveness properties.
LiveMixes == {Once({"connect", "suspend"}), Once({"refresh", "suspend"}),
              Once({"connect", "monitor_only"}), Once({"refresh", "startup"}),
              Once({"disconnect", "startup"}), Once({"disconnect", "suspend"}),
              Once({"refresh", "monitor_only"}), Once({"connect", "gap"})}

SuspendMix == {Once({"suspend"})}
AsleepMix == {Once({"suspend", "disconnect"})}
DropMix == {Once({"drop"})}
ConnectMix == {Once({"connect"})}

Symmetry == Permutations(Loops) \cup Permutations(Clients)
              \cup Permutations(Cleanups)
=============================================================================
