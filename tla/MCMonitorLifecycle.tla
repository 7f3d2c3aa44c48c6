------------------------ MODULE MCMonitorLifecycle ------------------------
(* Instances of MonitorLifecycle for TLC.                                  *)
EXTENDS MonitorLifecycle

Mix(suspends, gaps, commits, panics, stops) ==
    [e \in MonitorEvents |->
       CASE e = "suspend" -> suspends [] e = "gap" -> gaps [] e = "commit" -> commits
         [] e = "panic" -> panics [] e = "stop" -> stops]

\* Two suspends among a gap, a commit and a panic; an orderly end.
Mixes == {Mix(2, 1, 1, 1, 0), Mix(1, 0, 1, 1, 1)}

QuickNaps == {Mix(2, 0, 0, 0, 0)}
=============================================================================
