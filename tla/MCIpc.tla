------------------------------- MODULE MCIpc -------------------------------
(* Instances of Ipc for TLC: two calls and one disturbance, or one call    *)
(* among several.                                                          *)
EXTENDS Ipc

CONSTANTS c1, c2  \* the calls

Both == {c1, c2}
Attempts == Both \X {1, 2}

Makes(first, second) == [c \in Both |-> IF c = c1 THEN first ELSE second]

Pairs == {Makes("read", "read"), Makes("read", "write"), Makes("write", "write")}
Read == {Makes("read", "none")}
Write == {Makes("write", "none")}

Among(calls, broadcasts, events) ==
    [calls : calls,
     events : {[e \in Events |-> IF e = "broadcast" THEN broadcasts
                                ELSE IF e \in events THEN 1 ELSE 0]}]

Varied ==
    UNION {Among(Pairs, 0, {"die"}), Among(Pairs, 0, {"stall"}), Among(Pairs, 0, {"timeout"}),
           Among(Read, 0, {"stop", "watchdog"}), Among(Read \cup Write, 0, {"timeout", "die"}),
           Among(Write, 1, {"stop"}), Among(Read, 2, {"stall", "watchdog"})}
=============================================================================
