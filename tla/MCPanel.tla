------------------------------ MODULE MCPanel ------------------------------
(* Instances of Panel for TLC.                                               *)
EXTENDS Panel, TLC

Symmetric == Permutations(Flows)

None == [e \in Events |-> 0]

(* A takeover and its end, with crash and failure, or with a request beside. *)
PanelMixes ==
    { [None EXCEPT !["toggle"] = 3, !["unplug"] = 1],
      [None EXCEPT !["toggle"] = 2, !["crash"] = 2, !["fail"] = 1],
      [None EXCEPT !["toggle"] = 1, !["switch"] = 2, !["refresh"] = 1, !["fail"] = 1],
      [None EXCEPT !["toggle"] = 2, !["refresh"] = 1, !["fail"] = 2],
      [None EXCEPT !["select"] = 2, !["unplug"] = 1, !["crash"] = 1],
      [None EXCEPT !["toggle"] = 1, !["select"] = 1, !["restore"] = 1] }

(* Nothing but a snapshot that is restored.                                  *)
RestoreMixes == { [None EXCEPT !["select"] = 1, !["restore"] = 1] }

(* Host control is switched on while it is still being left.                 *)
CrossMixes == { [None EXCEPT !["toggle"] = 4] }
=============================================================================
