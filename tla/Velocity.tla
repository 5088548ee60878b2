------------------------------ MODULE Velocity ------------------------------
(***************************************************************************)
(* How fast the load changes, and which discovery path that asks for       *)
(* (causal_engine/velocity.py): the steps of the aggregate load, divided by *)
(* the calm baseline, smoothed, and compared with two thresholds.          *)
(*                                                                         *)
(* The arithmetic is exact.  With v the smoothed velocity of the sample    *)
(* scanned last, v = ema / (Base * unit), where unit grows by the          *)
(* denominator of alpha at each sample.                                    *)
(***************************************************************************)
EXTENDS Integers, Sequences, FiniteSets

CONSTANTS
    Length,   \* samples in the window (61)
    Calm,     \* samples of the calm reference prefix (31)
    Load,     \* what a sample of the aggregate load may be
    Alpha,    \* EMA_ALPHA = Alpha / Scale (3/10)
    Scale,
    High,     \* V_HIGH = High / Grid (8/20)
    Low,      \* V_LOW = Low / Grid (3/20)
    Grid

ASSUME VelocityAssumption ==
    /\ Length \in Nat /\ Calm \in 1..Length /\ Calm % 2 = 1
    /\ Load \subseteq Nat
    /\ Scale \in Nat /\ Alpha \in 0..Scale
    /\ Grid \in Nat /\ High \in Nat /\ Low \in 0..High

Sample == 1..Length

VARIABLES
    series,  \* aggregate_load of the window, <<>> when there is none
    ema,     \* the smoothed velocity, a numerator
    unit,    \* its denominator, up to Base
    levels,  \* where each velocity stood against the band
    modes    \* mode_series, as far as it is filled

velocity == <<series, ema, unit, levels, modes>>

VelocityInit == series = <<>> /\ ema = 0 /\ unit = 1 /\ levels = <<>> /\ modes = <<>>

Above(s, m) == {i \in 1..Calm : s[i] > m}
Below(s, m) == {i \in 1..Calm : s[i] < m}

\* The median of an odd number of samples.
Median(s) ==
    CHOOSE m \in {s[i] : i \in 1..Calm} :
        2 * Cardinality(Above(s, m)) < Calm /\ 2 * Cardinality(Below(s, m)) < Calm

\* A window without any load is divided by 1.
Base == IF Median(series) = 0 THEN 1 ELSE Median(series)

\* |d/dt load|; the first sample has no predecessor and counts as 0.
Step(i) ==
    IF i = 1 THEN 0
    ELSE IF series[i] < series[i - 1] THEN series[i - 1] - series[i]
    ELSE series[i] - series[i - 1]

MutSmoothed(i) == Scale * Step(i) * unit
Smoothed(i) == Alpha * Step(i) * unit + (Scale - Alpha) * ema

Level(v, one) ==
    IF Grid * v > High * one THEN "above"
    ELSE IF Grid * v < Low * one THEN "below"
    ELSE "band"

MutSwitch(mode, level) == IF level = "above" THEN "fast" ELSE "slow"
Switch(mode, level) ==
    IF mode = "slow" /\ level = "above" THEN "fast"
    ELSE IF mode = "fast" /\ level = "below" THEN "slow"
    ELSE mode

Mode == IF modes = <<>> THEN "slow" ELSE modes[Len(modes)]

TakeSeries ==
    /\ series' \in [Sample -> Load]
    /\ ema' = 0
    /\ unit' = 1
    /\ levels' = <<>>
    /\ modes' = <<>>

Scan ==
    /\ series # <<>>
    /\ Len(modes) < Length
    /\ ema' = Smoothed(Len(modes) + 1)
    /\ unit' = Scale * unit
    /\ levels' = Append(levels, Level(ema', Base * unit'))
    /\ modes' = Append(modes, Switch(Mode, levels'[Len(levels')]))
    /\ UNCHANGED series

(***************************************************************************)
(* Properties.                                                             *)
(***************************************************************************)
VelocityTypeOK ==
    /\ series = <<>> \/ series \in [Sample -> Load]
    /\ ema \in Nat /\ unit \in Nat
    /\ levels \in Seq({"above", "band", "below"})
    /\ modes \in Seq({"slow", "fast"})
    /\ Len(levels) = Len(modes) /\ Len(modes) <= Length

\* Hysteresis: the mode is fast exactly when the velocity has risen above V_HIGH
\* and has not been below V_LOW since; inside the band, both bounds included,
\* it keeps the mode (velocity.py:47-62, docs/design.md:37-44).
ModeByCrossings ==
    \A i \in 1..Len(modes) :
        modes[i] = "fast" <=>
            \E j \in 1..i :
                /\ levels[j] = "above"
                /\ \A k \in j..i : levels[k] # "below"

\* The smoothing and the band together hold the fast mode for at least three
\* samples, however short the burst that tripped it: 0.7 * 0.7 * 0.4 is still
\* above 0.15 (velocity.py:36-44, config.py:24-26).
FastLasts ==
    \A i \in 2..Len(modes) :
        modes[i] = "slow" /\ modes[i - 1] = "fast" =>
            i > 3 /\ modes[i - 2] = "fast" /\ modes[i - 3] = "fast"
=============================================================================
