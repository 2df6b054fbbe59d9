-------------------------- MODULE CandidateScore --------------------------
(***************************************************************************)
(* What a replay over the validation folds is worth: the figures two       *)
(* scripts compute of the same list of simulated trades.                   *)
(* run_xauusd_calibration scores a candidate as a whole and per side;      *)
(* run_xauusd_directional_composite_calibration scores the sides alone,    *)
(* and then a composite of two candidates against "the complete original   *)
(* dual-side requirements".                                                *)
(*                                                                         *)
(* Profits are hundredths of R, times are blocks the folds are made of.    *)
(* A mean, a root and a quotient are rounded down.                         *)
(***************************************************************************)
EXTENDS Selection

CONSTANTS
    Replays,        \* trade lists of replays
    Baselines,      \* those of candidate 0
    ValFolds,       \* validation windows [from, to), which overlap
    EffectiveN(_),  \* independent observations among trades (measure_empirical_a16)
    MinSide, MinBoth,      \* effective numbers a side and both together must have
    MinPositive,           \* folds that must have earned
    MinStability,          \* hundredths
    MaxShare,              \* per cent of the profit one fold may have earned
    MaxDrawdown,           \* absolute ceiling of the drawdown
    Deterioration          \* per cent a candidate's drawdown may exceed the baseline's

\* A simulated trade, as far as it is counted.
SimulatedTrades == [side: {"LONG", "SHORT"}, at: Int, outcome: STRING, r: Int]

ScoreAssumption ==
    /\ Replays \cup Baselines \subseteq Seq(SimulatedTrades)
    /\ \A ts \in Replays \cup Baselines : EffectiveN(ts) \in Nat
    /\ \A f \in DOMAIN ValFolds : ValFolds[f][1] < ValFolds[f][2]
    /\ MaxDrawdown > 0 /\ Deterioration >= 0
ASSUME ScoreAssumption

VARIABLES
    replay,     \* the trades of the candidate that is scored
    baseline,   \* the trades of candidate 0
    scores      \* what the two scripts say of it, once they have

scoreVars == <<replay, baseline, scores>>

-----------------------------------------------------------------------------
(* Trades and folds.                                                       *)

\* A genuine position: filled, and neither skipped nor invalidated.
Genuine(t) ==
    t.outcome \notin {"NO_FILL", "ENTRY_INVALIDATED_STALE_RISK_PLAN", "SKIPPED"}

InFold(t, f) == ValFolds[f][1] <= t.at /\ t.at < ValFolds[f][2]

\* assign_trades_to_folds: each trade once for the whole, and once for every fold it lies in.
Unique(ts) == Having(ts, {t \in ToSet(ts) : \E f \in DOMAIN ValFolds : InFold(t, f)})
OfFold(ts, f) == Having(ts, {t \in ToSet(ts) : InFold(t, f)})

GenuineIn(ts) == Having(ts, {t \in ToSet(ts) : Genuine(t)})
OnSide(ts, side) == Having(ts, {t \in ToSet(ts) : t.side = side})
Profits(ts) == [i \in DOMAIN ts |-> ts[i].r]

-----------------------------------------------------------------------------
(* Statistics.                                                             *)

Total(rs) == FoldLeft(LAMBDA sum, r: sum + r, 0, rs)
Mean(rs) == IF rs = <<>> THEN 0 ELSE Total(rs) \div Len(rs)
Root(n) == CHOOSE k \in 0..n : k * k <= n /\ (k + 1) * (k + 1) > n
Deviation(rs) ==
    IF Len(rs) < 2 THEN 0
    ELSE Root(Total([i \in DOMAIN rs |-> (rs[i] - Mean(rs)) * (rs[i] - Mean(rs))]) \div (Len(rs) - 1))

Unbounded == -1000000   \* a confidence bound of too few observations

\* One-sided critical value, in thousandths.
Critical(df) ==
    CASE df >= 100 -> 1645 + 1645 \div (4 * df)
      [] df \in 60..99 -> 1671
      [] df \in 30..59 -> 1697
      [] OTHER -> 1700 + (30 - df) * 20

\* compute_effective_n_lcb_95
LowerBound(rs, n) ==
    LET df == IF n - 1 > 1 THEN n - 1 ELSE 1
        error == Root((Deviation(rs) * Deviation(rs)) \div n)
    IN  IF n <= 1 THEN Unbounded ELSE Mean(rs) - (Critical(df) * error) \div 1000

\* Peak to trough of the running sum, trade by trade.
NoProfit == [sum |-> 0, peak |-> 0, worst |-> 0]

WithProfit(d, r) ==
    LET now == d.sum + r
    IN  IF now > d.peak THEN [sum |-> now, peak |-> now, worst |-> d.worst]
        ELSE [sum |-> now, peak |-> d.peak, worst |-> IF d.peak - now > d.worst THEN d.peak - now ELSE d.worst]

Drawdown(rs) == FoldLeft(WithProfit, NoProfit, rs).worst

Expectancies(folds) == [f \in DOMAIN folds |-> Mean(Profits(folds[f]))]
Positive(exps) == Len(SelectSeq(exps, LAMBDA e: e > 0))

\* Hundredths of a per cent of the folds' profit that one fold earned; none without a profit.
Share(folds) ==
    LET profits == [f \in DOMAIN folds |-> Total(Profits(folds[f]))]
        most == FoldLeft(LAMBDA m, p: IF p > m THEN p ELSE m, profits[1], profits)
    IN  IF Total(profits) > 0 /\ most > 0 THEN (10000 * most) \div Total(profits) ELSE 0

\* 1 - deviation / scale, not below nothing.
Stability(exps, scale) ==
    IF Len(exps) < 2 \/ scale <= 0 \/ Deviation(exps) > scale THEN 0
    ELSE 100 - (100 * Deviation(exps)) \div scale

Magnitude(n) == IF n < 0 THEN -n ELSE n

\* The mean of the folds plus one, and the mean taken absolutely plus one.
PlainScale(folds) == Mean(Expectancies(folds)) + 100
AbsoluteScale(folds) == Magnitude(Mean(Expectancies(folds))) + 100

-----------------------------------------------------------------------------
(* run_xauusd_calibration: evaluate_candidate_val and its baseline.        *)

\* StatisticsOf of genuine trades, with the folds they lie in.
StatisticsOf(ts, folds, scale) ==
    LET exps == Expectancies(folds)
        rs   == Profits(ts)
    IN  [count |-> Len(ts), n |-> EffectiveN(ts), mean |-> Mean(rs),
         lcb |-> LowerBound(rs, EffectiveN(ts)), mdd |-> Drawdown(rs), expectancies |-> exps,
         positive |-> Positive(exps), share |-> Share(folds), stability |-> Stability(exps, scale)]

FilledIn(ts) == GenuineIn(Unique(ts))
FilledByFold(ts) == [f \in DOMAIN ValFolds |-> GenuineIn(OfFold(ts, f))]

\* The whole ledger: the scale of its stability is the mean itself, plus one.
WholeFigures(ts) ==
    StatisticsOf(FilledIn(ts), FilledByFold(ts), PlainScale(FilledByFold(ts)))

SideByFold(ts, side) == [f \in DOMAIN ValFolds |-> OnSide(FilledByFold(ts)[f], side)]

\* With the scale of the whole.
SideOfWholeScaled(ts, side) ==
    StatisticsOf(OnSide(FilledIn(ts), side), SideByFold(ts, side), PlainScale(SideByFold(ts, side)))

\* Its sides: filtered after the folds were assigned.
SideOfWhole(ts, side) ==
    StatisticsOf(OnSide(FilledIn(ts), side), SideByFold(ts, side), AbsoluteScale(SideByFold(ts, side)))

\* evaluate_candidate_0_baseline: ten per cent worse than candidate 0, and never above the
\* absolute ceiling.
CeilingOver(mdd) ==
    IF mdd > 0 /\ mdd * (100 + Deterioration) < 100 * MaxDrawdown
    THEN mdd * (100 + Deterioration) ELSE 100 * MaxDrawdown

Enough(long, short, whole) == long.n >= MinSide /\ short.n >= MinSide /\ whole.n >= MinBoth

Steady(whole) ==
    /\ whole.share <= 100 * MaxShare
    /\ whole.positive >= MinPositive
    /\ whole.stability >= MinStability

\* The gate of the calibration, under a ceiling of the drawdown in ten-thousandths.
Qualified(ts, ceiling) ==
    LET whole == WholeFigures(ts)
    IN  /\ Enough(SideOfWhole(ts, "LONG"), SideOfWhole(ts, "SHORT"), whole)
        /\ whole.lcb > 0
        /\ 100 * whole.mdd <= ceiling
        /\ Steady(whole)

-----------------------------------------------------------------------------
(* run_xauusd_directional_composite_calibration.                           *)

\* evaluate_side_trades: genuine trades of one side, then the folds they lie in.
SideAlone(ts, side) ==
    LET chosen == Having(ts, {t \in ToSet(ts) : Genuine(t) /\ t.side = side})
        byFold == [f \in DOMAIN ValFolds |-> OfFold(chosen, f)]
    IN  StatisticsOf(Unique(chosen), byFold, AbsoluteScale(byFold))

SideQualified(ts, side) ==
    LET alone == SideAlone(ts, side)
    IN  alone.n >= MinSide /\ alone.lcb > 0 /\ alone.mdd <= MaxDrawdown /\ Steady(alone)

\* evaluate_dual_side_composite: the absolute ceiling alone, and the scale of the sides.
CompositeFigures(ts) ==
    StatisticsOf(FilledIn(ts), FilledByFold(ts), AbsoluteScale(FilledByFold(ts)))

\* Without the bound of its losses.
CompositeQualifiedAnyhow(ts) ==
    LET whole == CompositeFigures(ts)
    IN  /\ Enough(SideOfWhole(ts, "LONG"), SideOfWhole(ts, "SHORT"), whole)
        /\ whole.mdd <= MaxDrawdown
        /\ Steady(whole)

CompositeQualified(ts) ==
    LET whole == CompositeFigures(ts)
    IN  /\ Enough(SideOfWhole(ts, "LONG"), SideOfWhole(ts, "SHORT"), whole)
        /\ whole.lcb > 0
        /\ whole.mdd <= MaxDrawdown
        /\ Steady(whole)

-----------------------------------------------------------------------------
ScoreInit ==
    /\ replay \in Replays
    /\ baseline \in Baselines
    /\ scores = <<>>

\* Both scripts score the same replay.
ScoreReplay ==
    /\ scores = <<>>
    /\ scores' = [whole |-> WholeFigures(replay),
                  long  |-> SideOfWhole(replay, "LONG"),
                  short |-> SideOfWhole(replay, "SHORT"),
                  qualified |-> Qualified(replay, CeilingOver(WholeFigures(baseline).mdd)),
                  longAlone |-> SideAlone(replay, "LONG"),
                  shortAlone |-> SideAlone(replay, "SHORT"),
                  composite |-> CompositeQualified(replay)]
    /\ UNCHANGED <<replay, baseline>>

ScoreSpec == ScoreInit /\ [][ScoreReplay]_scoreVars

-----------------------------------------------------------------------------
(* Properties.                                                             *)

Scored == scores # <<>>

\* The two scripts filter and assign in a different order and keep separate copies of every
\* statistic; the sides the composite is chosen from must be the sides the calibration's
\* ledger reports.
SidesAreCountedAlike ==
    Scored => scores.long = scores.longAlone /\ scores.short = scores.shortAlone

\* evaluate_dual_side_composite is said to "evaluate the ONE composite candidate against the
\* complete original dual-side requirements".  What it lets through and the calibration
\* would not have falls more than the baseline allows, below the absolute ceiling, or loses
\* in the mean of its folds: nothing else was given up.
CompositeFallsShortOfBaseline ==
    Scored /\ scores.composite /\ ~scores.qualified =>
        \/ ~(100 * scores.whole.mdd <= CeilingOver(WholeFigures(baseline).mdd))
        \/ Mean(scores.whole.expectancies) < 0

\* The drawdown the gates look at is the deepest fall of the account from any earlier height, the
\* empty account's included, wherever in the ledger it happened.
Account(rs) ==
    LET account[k \in 0..Len(rs)] == IF k = 0 THEN 0 ELSE account[k - 1] + rs[k]
    IN  account

IsDeepestFall(d, rs) ==
    /\ \E j \in 0..Len(rs) : \E i \in 0..j : d = Account(rs)[i] - Account(rs)[j]
    /\ \A j \in 0..Len(rs) : \A i \in 0..j : Account(rs)[i] - Account(rs)[j] <= d

DrawdownIsDeepestFall ==
    Scored =>
        /\ IsDeepestFall(scores.whole.mdd, Profits(FilledIn(replay)))
        /\ IsDeepestFall(scores.long.mdd, Profits(OnSide(FilledIn(replay), "LONG")))
        /\ IsDeepestFall(scores.short.mdd, Profits(OnSide(FilledIn(replay), "SHORT")))
=============================================================================
