------------------------------- MODULE MCWire -------------------------------
(* Small instances of Wire for TLC. *)
EXTENDS Wire, TLC

CONSTANTS c1, c2, c3

MCCallers == {c1, c2, c3}
Wish(kind, slot, field, val) == [kind |-> kind, slot |-> slot, field |-> field, val |-> val]
None == Wish("none", 0, 1, 0)
Mix(a, b, c) == c1 :> a @@ c2 :> b @@ c3 :> c

EditSpeed(s) == Wish("edit", s, 1, 1)
EditHue(s) == Wish("edit", s, 2, 2)
Select(s) == Wish("select", s, 1, 0)
Read(s) == Wish("read", s, 1, 0)
Restore(s) == Wish("restore", s, 1, 2)
Pos == Wish("pos", 0, 1, 0)
SwitchOn == Wish("switch", 0, 1, 1)
SwitchOff == Wish("switch", 0, 1, 0)
Push == Wish("push", 0, 1, 0)
Image == Wish("image", 0, 1, 0)

(* Edits and restores with others of the same slot or of another one; a    *)
(* switch, also on, off and on again; uploads with a read, the display     *)
(* position, a second upload.                                              *)
MCMixes == {Mix(EditSpeed(1), EditHue(2), None), Mix(EditSpeed(1), Select(1), None),
            Mix(EditSpeed(1), Read(2), Push), Mix(SwitchOn, Read(1), Push),
            Mix(SwitchOn, SwitchOff, SwitchOn),
            Mix(Image, Read(1), None), Mix(Image, Push, Image),
            Mix(Restore(1), Read(2), None), Mix(Restore(1), Select(1), None), Mix(Image, Pos, None)}

(* Mixes of the runs that look for one violation. *)
UploadMixes == {Mix(Image, None, None)}
ReadMixes == {Mix(Read(1), Read(2), None)}
SwitchMixes == {Mix(SwitchOn, SwitchOff, SwitchOn)}
MCSlots == {1, 2}
=============================================================================
