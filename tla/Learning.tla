------------------------------ MODULE Learning ------------------------------
(***************************************************************************)
(* How the fan curve learns (internal/smartcontrol/learning.go, driven by   *)
(* the control tick of coreapp/monitoring.go).  The monitor feeds every     *)
(* usable sample - a temperature, a fan speed and a power - to the bucket   *)
(* of the nearest curve point.  A bucket whose last samples agree makes a   *)
(* steady window.  A steady window at or above the comfort band may correct *)
(* the curve at once; lowering the fan for quiet waits until enough steady  *)
(* windows over enough time agree (the long-term aggregate).  A correction  *)
(* moves one offset, smooths its neighbours and keeps the curve monotone.   *)
(* The monitor learns on its own copy of the configuration and saves it     *)
(* later, unless a user has changed the configuration in between.           *)
(*                                                                          *)
(* Time is counted in ticks of the monitor.  The size of a step comes from  *)
(* the cooling efficiency, the learn rate, the power and the noise profile; *)
(* here it is any value between the code's limits, with the sign the code   *)
(* gives it.  CPU and GPU power are one reading in watts, 0 when unknown.   *)
(***************************************************************************)
EXTENDS SmartCurve, Functions

CONSTANTS
  Curves,        \* the base curves
  Settings,      \* the learning biases a user may set
  Mixes,         \* what one behaviour has: readings, the samples [temp, rpm, power] of its
                 \* sensors; curves, those its user sets (the first state takes one);
                 \* edits, pauses and learns, bounds on the user's changes, on the
                 \* pauses between samples, and on the learned changes
  Pauses,        \* the ticks between two samples, when more than one
  Ceiling,       \* TargetTemp
  ComfortBand,   \* comfortBandWidth: Hysteresis + 3
  LearnWindow, LearnDelay,
  TempBand,      \* stableTempBand
  RPMBand,       \* stableRPMBand
  SteadyWindows, MinDuration, MaxDuration, MaxGap,  \* longTerm..., in ticks
  HotSteps, QuietSteps    \* the learned steps above and below the comfort band

\* The samples of the sensors, and the oldest age the code tells apart.
Readings == [temp : Int, rpm : Int, power : Int]
Age == 0..(MaxDuration + 1)

ASSUME LearningAssumption ==
  /\ Curves \subseteq FanCurves /\ Settings \subseteq Biases
  /\ Mixes \subseteq [readings : SUBSET Readings, curves : SUBSET Curves,
                     edits : Nat, pauses : Nat, learns : Nat]
  /\ Pauses \subseteq Nat \ {0}
  /\ Ceiling \in Nat /\ ComfortBand \in Nat
  /\ LearnWindow \in 3..24 /\ LearnDelay \in 0..8
  /\ SteadyWindows \in Nat \ {0}
  /\ MinDuration \in Nat /\ MaxDuration \in Nat /\ MinDuration < MaxDuration
  /\ HotSteps \subseteq Nat \ {0}
  /\ QuietSteps \subseteq {step \in Int : step <= 0}

VARIABLES
  store,     \* the configuration: revision, curve, bias, offsets, epoch (ghost)
  monitor,   \* the monitor's copy of it, with the offsets learned since
  observer,  \* StableObserver: one bucket per point of the monitor's curve
  outcome,   \* what the last tick learned, and the evidence it had (ghost)
  evidence,  \* per bucket: samples and time since it was last disturbed (ghost)
  count,     \* learned changes, edits and pauses so far
  mix        \* the mix of this behaviour

learnVars == <<store, monitor, observer, outcome, evidence, count, mix>>

LowTarget == Ceiling - ComfortBand

\* A later age; ages above the longest the code asks about are one value.
Older(age, ticks) == Min({age + ticks, MaxDuration + 1})

NoAggregate == [windows |-> 0, age |-> 0, gap |-> 0, temps |-> 0, power |-> 0]
NewBucket == [seen |-> FALSE, settle |-> 0, samples |-> <<>>,
              last |-> [temp |-> 0, rpm |-> 0, power |-> 0], agg |-> NoAggregate]
NewStableObserver(curve) == [i \in 1..Len(curve) |-> NewBucket]
NoEvidence(curve) == [i \in 1..Len(curve) |-> [samples |-> 0, age |-> 0]]
NoOutcome == [bucket |-> 0, window |-> 0, mean |-> 0, delta |-> 0,
              samples |-> 0, age |-> 0]

LearnInit ==
  \E bias \in Settings : \E m \in Mixes : \E curve \in m.curves :
    /\ mix = m
    /\ store = [rev |-> 0, curve |-> curve, bias |-> bias,
                offsets |-> ZeroOffsets(curve), epoch |-> 0]
    /\ monitor = [cfg |-> store, dirty |-> FALSE]
    /\ observer = NewStableObserver(curve)
    /\ evidence = NoEvidence(curve)
    /\ outcome = NoOutcome
    /\ count = [learns |-> 0, edits |-> 0, pauses |-> 0]

-----------------------------------------------------------------------------
\* Whether two power readings belong to one context.
PowerBand(mean) == Max({15, (mean * 15) \div 100})

powerClose(a, b) ==
  \/ a = 0 /\ b = 0
  \/ a > 0 /\ b > 0 /\ absInt(a - b) <= PowerBand((a + b) \div 2)

Jumped(last, r) ==
  \/ absInt(r.temp - last.temp) > TempBand + 1
  \/ absInt(r.rpm - last.rpm) > RPMBand
  \/ ~powerClose(r.power, last.power)

\* Mutant: a jump drops the samples and keeps the windows before it.
Disturbed_KeepsAggregate(bucket) == [NewBucket EXCEPT !.seen = TRUE, !.agg = bucket.agg]

\* A jump in a bucket drops its samples, its delay and its aggregate.
Disturbed(bucket) == [NewBucket EXCEPT !.seen = TRUE]

Field(samples, name) == [i \in DOMAIN samples |-> samples[i][name]]
Spread(f) == Max(Range(f)) - Min(Range(f))
Mean(f) == FoldFunction(+, 0, f) \div Len(f)

\* A full window whose samples agree.  A power spread above the band of the
\* mean is unsteady even when neighbouring samples were close.
Steady(samples) ==
  /\ Len(samples) = LearnWindow
  /\ Spread(Field(samples, "temp")) <= TempBand
  /\ Spread(Field(samples, "rpm")) <= RPMBand
  /\ LET power == Field(samples, "power")
     IN  power[1] > 0 => Spread(power) <= PowerBand(Mean(power))

-----------------------------------------------------------------------------
\* The long-term aggregate.

\* Whether a window, whose first sample is firstAge old, goes on with the
\* aggregate: no long gap before it, not too long a run, the same power.
Compatible(agg, firstAge, power) ==
  /\ agg.windows > 0
  /\ agg.gap - firstAge <= MaxGap
  /\ agg.age <= MaxDuration
  /\ powerClose(power, agg.power)

Aggregated(agg, firstAge, temp, power) ==
  LET run == IF Compatible(agg, firstAge, power) THEN agg
             ELSE [NoAggregate EXCEPT !.age = firstAge, !.power = power]
  IN  [run EXCEPT !.windows = @ + 1, !.gap = 0, !.temps = @ + temp]

LearningReady(agg) == agg.windows >= SteadyWindows /\ agg.age >= MinDuration

\* What one observation makes of a bucket: its next state, and the window it
\* completed.  `mean` is the temperature learning goes by: that of the whole
\* aggregate when the aggregate is complete, else that of the window.
Observed(bucket, r) ==
  LET b == [(IF bucket.seen /\ Jumped(bucket.last, r) THEN Disturbed(bucket) ELSE bucket)
              EXCEPT !.seen = TRUE, !.last = r]
      grown == Append(b.samples, [temp |-> r.temp, rpm |-> r.rpm, power |-> r.power, age |-> 0])
      samples == SubSeq(grown, Max({1, Len(grown) - LearnWindow + 1}), Len(grown))
      window == Mean(Field(samples, "temp"))
      agg == Aggregated(b.agg, samples[1].age, window, Mean(Field(samples, "power")))
      ready == LearningReady(agg)
      nothing == [steady |-> FALSE, ready |-> FALSE, window |-> 0, mean |-> 0]
  IN  IF b.settle < LearnDelay
        THEN [bucket |-> [b EXCEPT !.settle = @ + 1], result |-> nothing]
      ELSE IF ~Steady(samples)
        THEN [bucket |-> [b EXCEPT !.samples = samples], result |-> nothing]
      ELSE [bucket |-> [b EXCEPT !.samples = <<>>, !.settle = 0,
                                 !.agg = IF ready THEN NoAggregate ELSE agg],
            result |-> [steady |-> TRUE, ready |-> ready, window |-> window,
                        mean |-> IF ready THEN agg.temps \div agg.windows ELSE window]]

AllowsLongTermOffsetLearning(result) ==
  result.steady /\ (result.mean >= LowTarget \/ result.ready)

\* The steps solveLearnStepForUnit may answer with.
LearnSteps(mean) ==
  IF mean > Ceiling THEN HotSteps
  ELSE IF mean < LowTarget THEN QuietSteps ELSE {0}

-----------------------------------------------------------------------------
\* Every bucket as it is `ticks` later.
Aged(bucket, ticks) ==
  LET later(record) == [record EXCEPT !.age = Older(@, ticks)]
      agg == bucket.agg
  IN  [bucket EXCEPT
         !.samples = [i \in DOMAIN bucket.samples |-> later(bucket.samples[i])],
         !.agg = IF agg.windows = 0 THEN agg ELSE [later(agg) EXCEPT !.gap = Older(@, ticks)]]

\* The monitor's copy at the head of a tick: reread when the revision changed.
Fresh == IF store.rev = monitor.cfg.rev THEN monitor ELSE [cfg |-> store, dirty |-> FALSE]

\* The buckets of a tick: new ones when the length of the curve has changed.
Buckets(curve) == IF Len(curve) = Len(observer) THEN observer ELSE NewStableObserver(curve)
Kept(curve) == IF Len(curve) = Len(evidence) THEN evidence ELSE NoEvidence(curve)

\* A tick with a usable sample, `ticks` after the last one: observe and learn.
LearningTick(r, ticks) ==
  LET m == Fresh
      cfg == m.cfg
      idx == pickBucketIndex(r.temp, cfg.curve)
      buckets == [i \in 1..Len(cfg.curve) |-> Aged(Buckets(cfg.curve)[i], ticks)]
      old == Kept(cfg.curve)[idx]
      jump == buckets[idx].seen /\ Jumped(buckets[idx].last, r)
      known == [samples |-> Min({(IF jump THEN 0 ELSE old.samples) + 1,
                                 SteadyWindows * LearnWindow}),
                age |-> IF jump \/ old.samples = 0 THEN 0 ELSE Older(old.age, ticks)]
      seen == Observed(buckets[idx], r)
      result == seen.result
  IN  /\ ticks > 1 => count.pauses < mix.pauses
      /\ observer' = [buckets EXCEPT ![idx] = seen.bucket]
      /\ evidence' = [i \in 1..Len(cfg.curve) |->
                        IF i # idx THEN LET e == Kept(cfg.curve)[i]
                                        IN  [e EXCEPT !.age = IF e.samples = 0 THEN 0
                                                              ELSE Older(@, ticks)]
                        ELSE IF result.ready THEN NoEvidence(cfg.curve)[i] ELSE known]
      /\ \E delta \in IF AllowsLongTermOffsetLearning(result) THEN LearnSteps(result.mean) ELSE {0} :
           LET offsets == LearnSteadyOffset(cfg.curve, cfg.offsets, cfg.bias, idx, delta)
               changed == offsets # cfg.offsets
           IN  /\ changed => count.learns < mix.learns
               /\ monitor' = [cfg |-> [cfg EXCEPT !.offsets = offsets],
                              dirty |-> m.dirty \/ changed]
               /\ outcome' = IF ~result.steady THEN NoOutcome
                             ELSE [bucket |-> idx, window |-> result.window,
                                   mean |-> result.mean, delta |-> delta,
                                   samples |-> known.samples, age |-> known.age]
               /\ count' = [count EXCEPT !.learns = IF changed THEN @ + 1 ELSE @,
                                         !.pauses = IF ticks > 1 THEN @ + 1 ELSE @]
  /\ UNCHANGED <<store, mix>>

\* A tick without a usable sample (telemetry lost or filtered, a prediction
\* running, the target limited by the device): the observer starts over.
Interrupted ==
  /\ observer # NewStableObserver(Fresh.cfg.curve) \/ Fresh # monitor
  /\ monitor' = Fresh
  /\ observer' = NewStableObserver(Fresh.cfg.curve)
  /\ evidence' = NoEvidence(Fresh.cfg.curve)
  /\ outcome' = NoOutcome
  /\ UNCHANGED <<store, count, mix>>

\* Mutant: the save does not ask whether the configuration has changed.
Saved_Blindly(cfg) == [store EXCEPT !.rev = @ + 1, !.offsets = cfg.offsets,
                                    !.bias = cfg.bias, !.epoch = cfg.epoch]

\* The configuration after the monitor's save: its smart control settings,
\* if the revision is still the one the monitor has read.
Saved(cfg) ==
  IF store.rev # cfg.rev THEN store
  ELSE [store EXCEPT !.rev = @ + 1, !.offsets = cfg.offsets, !.bias = cfg.bias,
                     !.epoch = cfg.epoch]

\* The save of learned offsets, some time after they were learned.  When it
\* was refused the monitor takes the new configuration and starts over.
Save ==
  /\ monitor.dirty
  /\ store' = Saved(monitor.cfg)
  /\ monitor' = [cfg |-> store', dirty |-> FALSE]
  /\ IF store' = store
       THEN observer' = NewStableObserver(store.curve) /\ evidence' = NoEvidence(store.curve)
       ELSE UNCHANGED <<observer, evidence>>
  /\ outcome' = NoOutcome
  /\ UNCHANGED <<count, mix>>

\* The monitor ends, saving what it has learned, and begins anew.
Restart ==
  /\ monitor.dirty
  /\ store' = Saved(monitor.cfg)
  /\ monitor' = [cfg |-> store', dirty |-> FALSE]
  /\ observer' = NewStableObserver(store'.curve)
  /\ evidence' = NoEvidence(store'.curve)
  /\ outcome' = NoOutcome
  /\ UNCHANGED <<count, mix>>

\* A user commits a configuration.
Commit(cfg) ==
  /\ count.edits < mix.edits
  /\ store' = [cfg EXCEPT !.rev = @ + 1]
  /\ count' = [count EXCEPT !.edits = @ + 1]
  /\ UNCHANGED <<monitor, observer, outcome, evidence, mix>>

SetFanCurve(curve) ==
  /\ curve # store.curve
  /\ Commit([store EXCEPT !.curve = curve,
                          !.offsets = NormalizeOffsets(@, curve, store.bias)])

SetLearningBias(bias) ==
  /\ bias # store.bias
  /\ Commit([store EXCEPT !.bias = bias,
                          !.offsets = NormalizeOffsets(@, store.curve, bias)])

ResetLearnedOffsets ==
  Commit([store EXCEPT !.offsets = ZeroOffsets(store.curve), !.epoch = @ + 1])

LearnNext ==
  \/ \E r \in mix.readings, ticks \in {1} \cup Pauses : LearningTick(r, ticks)
  \/ Interrupted
  \/ Save
  \/ Restart
  \/ \E curve \in mix.curves : SetFanCurve(curve)
  \/ \E bias \in Settings : SetLearningBias(bias)
  \/ ResetLearnedOffsets

LearnSpec == LearnInit /\ [][LearnNext]_learnVars

-----------------------------------------------------------------------------
Config == [rev : Nat, curve : Curves, bias : Settings, offsets : Seq(Int), epoch : Nat]

Bucket ==
  [seen : BOOLEAN, settle : 0..LearnDelay,
   samples : {s \in Seq([temp : Int, rpm : Int, power : Int, age : Age]) : Len(s) <= LearnWindow},
   last : Readings,
   agg : [windows : Nat, age : Age, gap : Age, temps : Int, power : Int]]

Evidence == [samples : 0..(SteadyWindows * LearnWindow), age : Age]

\* The shapes of the state: a bucket for each point, samples within the window.
LearnTypeOK ==
  /\ store \in Config
  /\ monitor \in [cfg : Config, dirty : BOOLEAN]
  /\ observer \in Seq(Bucket) /\ evidence \in Seq(Evidence) /\ Len(observer) = Len(evidence)
  /\ outcome \in [bucket : 0..Len(observer), window : Int, mean : Int, delta : Int,
                  samples : 0..(SteadyWindows * LearnWindow), age : Age]
  /\ count \in [learns : Nat, edits : Nat, pauses : Nat]
  /\ mix \in Mixes

\* What a step has learned is what the fan then runs on: the control path
\* clips none of it (enforceMonotonicWithOffsets against buildEffectiveCurve).
LearnedIsUsed ==
  [][count'.learns > count.learns =>
       LET cfg == monitor'.cfg
       IN  \A i \in 1..Len(cfg.curve) :
             EffectiveCurve(cfg.curve, cfg.offsets, cfg.bias)[i]
               = cfg.curve[i].rpm + cfg.offsets[i]]_learnVars

\* The fan is slowed for quiet only on long evidence: since the bucket was
\* last disturbed or last learned this way, it has had the samples of all the
\* windows and the minimum time (aggregateLongTermSteady).
QuietLearningIsEarned ==
  outcome.delta < 0 =>
    /\ outcome.samples >= SteadyWindows * LearnWindow
    /\ outcome.age >= MinDuration

\* What a user has set or reset stays: a save of the monitor, which began from
\* an older configuration, brings no older bias, curve or offsets back.
UserEditsHold ==
  [][count'.edits = count.edits =>
       /\ store'.bias = store.bias
       /\ store'.curve = store.curve
       /\ store'.epoch >= store.epoch]_learnVars

\* A steady window hotter than the target is answered at once with more speed
\* (learning.go: AllowsLongTermOffsetLearning "preserves immediate safety
\* correction"; learning_long_term_test.go asserts it for one window).
SafetyIsImmediate ==
  outcome.window > Ceiling => outcome.delta > 0
=============================================================================
