----------------------------- MODULE SmartCurve -----------------------------
(***************************************************************************)
(* The arithmetic of the smart fan curve (internal/smartcontrol/helpers.go, *)
(* target.go, learning.go): the base curve of the user, the offsets learned *)
(* for its points, and the effective curve the two make.                    *)
(*                                                                          *)
(* A curve is a sequence of points [temp, rpm]; config.ValidateFanCurve     *)
(* lets only curves in that are strictly increasing in temp and             *)
(* non-decreasing in rpm.  Offsets are a sequence of the same length, in    *)
(* the RPM unit.  Point i of the sequences is index i - 1 of the code.      *)
(***************************************************************************)
EXTENDS Integers, Sequences, FiniteSetsExt

CONSTANTS
  OffsetCap,     \* effectiveOffsetCapForUnit: MaxLearnOffset, at most 600 RPM
  PullLimit,     \* offsetSmoothPullMax: the most one smoothing pass moves a point
  SmoothPasses,  \* offsetSmoothPasses
  SmoothRadius   \* offsetSmoothRadius

ASSUME SmartCurveAssumption ==
  /\ OffsetCap \in Nat \ {0}
  /\ PullLimit \in Nat \ {0}
  /\ SmoothPasses \in Nat
  /\ SmoothRadius \in Nat

Biases == {"balanced", "cooling", "quiet"}

\* The curves ValidateFanCurve lets in.
FanCurves ==
  {curve \in Seq([temp : Nat, rpm : Nat]) :
     /\ Len(curve) >= 2
     /\ \A i \in 2..Len(curve) : /\ curve[i - 1].temp < curve[i].temp
                                 /\ curve[i - 1].rpm <= curve[i].rpm}

ZeroOffsets(curve) == [i \in 1..Len(curve) |-> 0]

clampInt(value, lo, hi) == IF value < lo THEN lo ELSE IF value > hi THEN hi ELSE value

absInt(value) == IF value < 0 THEN -value ELSE value

LowestRPM(curve) == Min({curve[i].rpm : i \in 1..Len(curve)})
HighestRPM(curve) == Max({curve[i].rpm : i \in 1..Len(curve)})

\* The last point that is not above a temperature, or the first one.
PointBelow(temp, curve) ==
  CHOOSE i \in 1..Len(curve) :
    /\ i > 1 => curve[i].temp <= temp
    /\ i < Len(curve) => temp < curve[i + 1].temp

\* The point a temperature belongs to: the nearer one of its two neighbours,
\* the upper one from the (rounded down) midpoint on.
pickBucketIndex(temp, curve) ==
  LET left == PointBelow(temp, curve)
  IN  IF left = Len(curve) \/ temp <= curve[1].temp THEN left
      ELSE IF temp < (curve[left].temp + curve[left + 1].temp) \div 2
             THEN left ELSE left + 1

\* An offset stays within the cap and keeps its point within the curve.
clampOffsetForPoint(offset, base, curve) ==
  LET lo == Max({LowestRPM(curve) - base, -OffsetCap})
      hi == Min({HighestRPM(curve) - base, OffsetCap})
  IN  IF lo > hi THEN 0 ELSE clampInt(offset, lo, hi)

constrainOffsetsToCurveBounds(offsets, curve) ==
  [i \in 1..Len(curve) |-> clampOffsetForPoint(offsets[i], curve[i].rpm, curve)]

constrainOffsetsToLearningBias(offsets, bias) ==
  [i \in DOMAIN offsets |->
     CASE bias = "cooling" -> Max({offsets[i], 0})
       [] bias = "quiet" -> Min({offsets[i], 0})
       [] OTHER -> offsets[i]]

\* What the configuration does to learned offsets whenever the curve or the
\* smart control settings change (a change of the curve's length pads or cuts).
NormalizeOffsets(offsets, curve, bias) ==
  LET sized == [i \in 1..Len(curve) |-> IF i \in DOMAIN offsets THEN offsets[i] ELSE 0]
  IN  constrainOffsetsToLearningBias(constrainOffsetsToCurveBounds(sized, curve), bias)

-----------------------------------------------------------------------------
\* Learning: the smoothing around the learned point, then the monotone pass.

\* (14 own + 3 left + 3 right) / 20, rounded half away from zero.
Blend(own, left, right) ==
  LET sum == 14 * own + 3 * left + 3 * right
  IN  IF sum >= 0 THEN (sum + 10) \div 20 ELSE -((10 - sum) \div 20)

SmoothPass(curve, offsets, lo, hi) ==
  [i \in DOMAIN offsets |->
     IF i \notin lo..hi THEN offsets[i]
     ELSE LET target == Blend(offsets[i], offsets[i - 1], offsets[i + 1])
              limited == clampInt(target, offsets[i] - PullLimit, offsets[i] + PullLimit)
          IN  clampOffsetForPoint(limited, curve[i].rpm, curve)]

\* The two end points are never smoothed.
smoothOffsetsAroundWithPullLimit(curve, offsets, center) ==
  LET lo == Max({center - SmoothRadius, 2})
      hi == Min({center + SmoothRadius, Len(curve) - 1})
      pass[k \in 0..SmoothPasses] ==
        IF k = 0 THEN offsets ELSE SmoothPass(curve, pass[k - 1], lo, hi)
  IN  pass[SmoothPasses]

\* From the left, a point slower than the one before it is raised to it.
enforceMonotonicWithOffsets(curve, offsets) ==
  LET raised[i \in 1..Len(curve)] ==
        IF i = 1 THEN offsets[1]
        ELSE LET before == curve[i - 1].rpm + raised[i - 1]
             IN  IF curve[i].rpm + offsets[i] < before
                   THEN clampOffsetForPoint(before - curve[i].rpm, curve[i].rpm, curve)
                   ELSE offsets[i]
  IN  raised

\* Mutant: the smoothed offsets are not made monotone.
LearnSteadyOffset_NotMonotone(curve, offsets, bias, idx, delta) ==
  LET stepped == [offsets EXCEPT ![idx] =
                    clampOffsetForPoint(@ + delta, curve[idx].rpm, curve)]
      biased == constrainOffsetsToLearningBias(stepped, bias)
      smooth == smoothOffsetsAroundWithPullLimit(curve, biased, idx)
  IN  IF delta = 0 THEN offsets ELSE constrainOffsetsToLearningBias(smooth, bias)

\* The offsets after a step of `delta` has been learned for point `idx`.
LearnSteadyOffset(curve, offsets, bias, idx, delta) ==
  LET stepped == [offsets EXCEPT ![idx] =
                    clampOffsetForPoint(@ + delta, curve[idx].rpm, curve)]
      biased == constrainOffsetsToLearningBias(stepped, bias)
      smooth == smoothOffsetsAroundWithPullLimit(curve, biased, idx)
      kept == constrainOffsetsToLearningBias(smooth, bias)
  IN  IF delta = 0 THEN offsets ELSE enforceMonotonicWithOffsets(curve, kept)

-----------------------------------------------------------------------------
\* Control: the effective curve.

\* The speeds of the curve the controller runs on.
EffectiveCurve(curve, offsets, bias) ==
  LET biased == constrainOffsetsToLearningBias(offsets, bias)
      own(i) == clampInt(curve[i].rpm + clampOffsetForPoint(biased[i], curve[i].rpm, curve),
                         LowestRPM(curve), HighestRPM(curve))
  IN  [i \in 1..Len(curve) |-> Max({own(j) : j \in 1..i})]
=============================================================================
