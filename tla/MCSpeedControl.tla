--------------------------- MODULE MCSpeedControl ---------------------------
(* Instances of SpeedControl for TLC: four levels, two of them automatic.  *)
EXTENDS SpeedControl

FourLevels == 1..4
TwoTargets == {1, 2}

Mix(d, t, r, u, q, s) ==
    [e \in Events |-> CASE e = "demand" -> d [] e = "telemetry" -> t [] e = "refused" -> r
                        [] e = "torn" -> u [] e = "request" -> q [] e = "restore" -> s]

\* Telemetry that comes and goes with failing writes, or the user's requests, or a
\* restored snapshot with either.
Varied == {Mix(1, 2, 1, 1, 0, 0), Mix(0, 0, 1, 0, 1, 0), Mix(0, 1, 0, 0, 2, 0),
           Mix(1, 1, 0, 0, 0, 1), Mix(0, 1, 0, 0, 1, 1)}

\* Telemetry that goes and comes back.
OneGap == {Mix(0, 2, 0, 0, 0, 0)}

\* One change of the demand and one request.
OneRequest == {Mix(1, 0, 0, 0, 1, 0)}
=============================================================================
