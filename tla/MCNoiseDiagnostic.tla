------------------------- MODULE MCNoiseDiagnostic -------------------------
\* Two requests at a time, one or two leases, a few of each event per behaviour.
EXTENDS NoiseDiagnostic

Mix(begins, targets, ends, edits) ==
  [begins |-> begins, targets |-> targets, ends |-> ends, edits |-> edits,
   losses |-> 0, fails |-> 0, gaps |-> 0, suspends |-> 0]

NoiseMixes ==
  {Mix(2, 1, 1, 0), Mix(1, 1, 1, 1), Mix(1, 2, 1, 0),
   [Mix(1, 1, 1, 0) EXCEPT !.losses = 1], [Mix(1, 1, 1, 0) EXCEPT !.fails = 1],
   [Mix(1, 1, 0, 0) EXCEPT !.gaps = 2], [Mix(1, 1, 0, 0) EXCEPT !.suspends = 1]}
=============================================================================
