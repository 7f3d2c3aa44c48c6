----------------------------- MODULE MCLearning -----------------------------
\* Learning on three curves; Coarse has 66 in another bucket, Short has fewer points.
EXTENDS Learning

Point(temp, rpm) == [temp |-> temp, rpm |-> rpm]
Reading(temp, rpm, power) == [temp |-> temp, rpm |-> rpm, power |-> power]

Flat == <<Point(45, 1000), Point(60, 1020), Point(75, 1030), Point(90, 1300)>>
Coarse == <<Point(45, 1000), Point(50, 1030), Point(66, 1060), Point(90, 1090)>>
Short == <<Point(50, 1000), Point(62, 1100), Point(90, 1200)>>
LearnCurves == {Flat, Coarse, Short}

LearnQuietSteps == {-30}

\* 57 is below the comfort band 60..65 and 66 is above it, all in the
\* same bucket of Flat; 57 and 66 differ by a jump, 30 and 54 W are not close.
Low == Reading(57, 1100, 30)
LowCloser == Reading(57, 1100, 42)
LowOther == Reading(57, 1100, 54)
LowFaster == Reading(57, 1300, 30)
Hot == Reading(66, 1100, 42)

Mix(readings, curves, edits, pauses, learns) ==
  [readings |-> readings, curves |-> curves, edits |-> edits, pauses |-> pauses,
   learns |-> learns]

LearnMixes ==
  {Mix({Low, LowCloser, LowOther}, {Flat}, 0, 0, 1), Mix({Low, LowFaster}, {Flat, Short}, 1, 0, 2),
   Mix({Low}, {Flat}, 1, 1, 2), Mix({Low, Hot}, {Flat}, 1, 0, 2), Mix({Hot}, LearnCurves, 1, 0, 3)}

\* 63 is in the comfort band, 66 above it, and no jump lies between them.
WarmMixes == {Mix({Reading(63, 1100, 40), Reading(66, 1100, 40)}, {Flat}, 0, 0, 1)}
=============================================================================
