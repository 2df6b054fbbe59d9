--------------------------- MODULE TradeReplay ----------------------------
(***************************************************************************)
(* The research chain (src/engine/backtest): a replay walks over the       *)
(* closed 15m bars, plans the risk of each candidate, resolves each plan   *)
(* against the bars that follow (XauUsdOutcomeEngine with the next-bar     *)
(* entry and the intrabar resolver), and a walk-forward run then cuts the  *)
(* trades into folds and purges those that look over a boundary.           *)
(*                                                                         *)
(* Time is counted in minutes.  A bar carries the path its price really    *)
(* took, two prices a minute, and which of its 1m and 5m candles are       *)
(* stored; the code sees of a candle what its high and low say of a level, *)
(* and never the path.                                                     *)
(***************************************************************************)
EXTENDS RiskPlanner, Sequences, FiniteSetsExt

CONSTANTS
    Tapes,       \* the markets: sequences of [stored, path, ones, fives]
    RunEnds,     \* ends of the run, exclusive
    Configs,     \* walk-forward configurations
    BarLen,      \* minutes of a 15m bar
    FiveLen,     \* minutes of a 5m candle
    Spread,      \* synthetic spread paid at entry
    FillWait,    \* minutes an entry is waited for
    HorizonBars, \* bars a position is held
    MaxTrades,   \* bound: candidates of a run
    Ambiguity    \* "LOWER_TIMEFRAME_REPLAY", "CONSERVATIVE_SL_FIRST" or "SKIP_AMBIGUOUS"; under
                 \* WORST_CASE an ambiguous bar raises, for no caller gives the gap it wants

\* Candle i of a bar closes i of its lengths after the bar's open.
BarSet ==
    [stored: BOOLEAN, path: [1..(2 * BarLen) -> Int], ones: SUBSET (1..BarLen),
     fives: SUBSET {i \in 1..BarLen : i * FiveLen <= BarLen}]

\* What a bar does to a position.
HitSet == [hit: {"TP1_FIRST", "SL_FIRST", "SKIPPED"}, at: Int]

ReplayAssumption ==
    /\ BarLen \in Nat \ {0} /\ FiveLen \in 1..BarLen
    /\ Spread \in Nat /\ FillWait \in Nat \ {0} /\ HorizonBars \in Nat \ {0}
    /\ Tapes \subseteq Seq(BarSet) /\ RunEnds \subseteq Nat
    /\ Absent \notin HitSet
    /\ \A c \in Configs :
          /\ c.folds \in Nat \ {0} /\ c.train \in Nat \ {0} /\ c.val \in Nat
          /\ c.oos \in Nat \ {0} /\ c.train + c.val + c.oos = 100
          /\ c.embargo \in Nat /\ c.purge \in BOOLEAN /\ c.rolling \in BOOLEAN
ASSUME ReplayAssumption

VARIABLES
    tape,       \* the market's bars; bar k covers minutes (k-1)*BarLen to k*BarLen
    runEnd,     \* run_end_time
    step,       \* the replay clock: next is the close of bar step
    trades,     \* simulated trades, in the order of their candidates
    report      \* the walk-forward result, once there is one

replayVars == <<tape, runEnd, step, trades, report>>

OpenOf(k) == (k - 1) * BarLen
CloseOf(k) == k * BarLen

-----------------------------------------------------------------------------
(* The resolver: what a bar does to a position with these barriers.        *)

\* The prices of minutes from to last of a bar: all that its high and low tell.
PricesIn(bar, from, last) == {bar.path[i] : i \in (2 * from - 1)..(2 * last)}

HitsTarget(side, prices, tp) ==
    \E x \in prices : IF side = "LONG" THEN x >= tp ELSE x <= tp
HitsStop(side, prices, stop) ==
    \E x \in prices : IF side = "LONG" THEN x <= stop ELSE x >= stop

\* _validate_sequence: nothing missing between two stored candles, and the first one reaches
\* back to the fill.
GridOK(stored, open, length, fillAt) ==
    /\ stored # {}
    /\ open + (Min(stored) - 1) * length <= fillAt
    /\ \A i, j \in stored : i..j \subseteq stored

\* _replay_bars: the first lower candle that touches a barrier, unless it touches both.
FirstTouch(plan, bar, stored, open, length) ==
    LET prices(i) == PricesIn(bar, (i - 1) * length + 1, i * length)
        tp(i) == HitsTarget(plan.side, prices(i), plan.tp1)
        sl(i) == HitsStop(plan.side, prices(i), plan.stop)
        touching == {i \in stored : tp(i) \/ sl(i)}
        first == Min(touching)
    IN  IF touching = {} THEN Absent
        ELSE IF tp(first) /\ sl(first) THEN Absent
        ELSE [hit |-> IF tp(first) THEN "TP1_FIRST" ELSE "SL_FIRST", at |-> open + first * length]

\* Lower candles the engine passes on: those that close after the signal and before the end.
Passed(stored, open, length, at, end) ==
    {i \in stored : open + i * length > at /\ open + i * length < end}

\* An ambiguous bar taken for a target.
BarHitHopeful(plan, bar, k, at, fillAt, end) ==
    LET prices == PricesIn(bar, 1, BarLen)
    IN  CASE HitsTarget(plan.side, prices, plan.tp1) -> [hit |-> "TP1_FIRST", at |-> CloseOf(k)]
          [] ~HitsTarget(plan.side, prices, plan.tp1) /\ HitsStop(plan.side, prices, plan.stop) ->
                [hit |-> "SL_FIRST", at |-> CloseOf(k)]
          [] OTHER -> Absent

\* resolve: one barrier is clear; two are ambiguous and go to the lower candles, 1m before 5m,
\* or to the policy.
BarHit(plan, bar, k, at, fillAt, end) ==
    LET prices == PricesIn(bar, 1, BarLen)
        tp == HitsTarget(plan.side, prices, plan.tp1)
        sl == HitsStop(plan.side, prices, plan.stop)
        hit(what) == [hit |-> what, at |-> CloseOf(k)]
        replayed(stored, length) ==
            LET passed == Passed(stored, OpenOf(k), length, at, end)
            IN  IF GridOK(passed, OpenOf(k), length, fillAt)
                THEN FirstTouch(plan, bar, passed, OpenOf(k), length) ELSE Absent
    IN  CASE ~tp /\ ~sl -> Absent
          [] tp /\ ~sl -> hit("TP1_FIRST")
          [] sl /\ ~tp -> hit("SL_FIRST")
          [] tp /\ sl /\ Ambiguity = "SKIP_AMBIGUOUS" -> hit("SKIPPED")
          [] tp /\ sl /\ Ambiguity = "CONSERVATIVE_SL_FIRST" -> hit("SL_FIRST")
          [] OTHER -> IF replayed(bar.ones, 1) # Absent THEN replayed(bar.ones, 1)
                      ELSE IF replayed(bar.fives, FiveLen) # Absent
                      THEN replayed(bar.fives, FiveLen)
                      ELSE hit("SL_FIRST")

-----------------------------------------------------------------------------
(* The life of a trade.                                                    *)

\* Stored bars that close after the signal and before the end of the run.
Later(market, at, end) ==
    {k \in DOMAIN market : market[k].stored /\ CloseOf(k) > at /\ CloseOf(k) < end}

Deadline(at, end) == IF end <= at + FillWait THEN end ELSE at + FillWait

\* Bars an entry may happen on: the first that opens in time fills at its open.
EntryBars(market, at, end) ==
    {k \in Later(market, at, end) :
        /\ OpenOf(k) >= at
        /\ IF end <= at + FillWait THEN OpenOf(k) < end ELSE OpenOf(k) <= at + FillWait}

FillPrice(side, bar) == IF side = "LONG" THEN bar.path[1] + Spread ELSE bar.path[1] - Spread

\* The market has moved past a barrier before the entry.
StaleFill(plan, fill) ==
    IF plan.side = "LONG" THEN fill >= plan.tp1 \/ fill <= plan.stop
                          ELSE fill <= plan.tp1 \/ fill >= plan.stop

SideOf(s) == IF s.candidate = "BUY_WINDOW" THEN "LONG" ELSE "SHORT"

Unfilled(s, at, what, until) ==
    [setup |-> s, side |-> SideOf(s), at |-> at, outcome |-> what, fillAt |-> Absent,
     fill |-> Absent, exitAt |-> Absent, exit |-> Absent, depEnd |-> until, tp2 |-> FALSE]

\* The first bar that touches a barrier ends it; without one it is open until the limit.
Settled(entered, plan, market, hits, limit) ==
    LET over == {k \in DOMAIN hits : hits[k] # Absent}
        last == Min(over)
        hit  == hits[last]
        second(k) == HitsTarget(plan.side, PricesIn(market[k], 1, BarLen), plan.tp2)
    IN  IF over = {} THEN [entered EXCEPT !.outcome = "UNRESOLVED", !.depEnd = limit]
        ELSE [entered EXCEPT !.outcome = hit.hit, !.exitAt = hit.at, !.depEnd = hit.at,
                !.exit = CASE hit.hit = "TP1_FIRST" -> plan.tp1
                           [] hit.hit = "SL_FIRST" -> plan.stop
                           [] OTHER -> entered.fill,
                !.tp2 = /\ hit.hit = "TP1_FIRST" /\ plan.tp2 # Absent
                        /\ \E k \in DOMAIN hits : k >= last /\ second(k)]

\* resolve_trade, for the candidate of time at.
Trade(market, at, s, end) ==
    LET plan  == PlanOf(SideOf(s), s)
        entry == EntryBars(market, at, end)
        first == Min(entry)
        fill  == FillPrice(plan.side, market[first])
        fillAt == OpenOf(first)
        held  == fillAt + HorizonBars * BarLen
        limit == IF held > end THEN end ELSE held
        open  == {k \in Later(market, at, end) : CloseOf(k) >= fillAt /\ OpenOf(k) < limit}
        bars  == {k \in open : Cardinality({j \in open : j < k}) < HorizonBars}
        filled == [Unfilled(s, at, "ENTRY_INVALIDATED_STALE_RISK_PLAN", fillAt)
                      EXCEPT !.fillAt = fillAt, !.fill = fill]
    IN  IF ~plan.valid THEN Unfilled(s, at, "SKIPPED", at)
        ELSE IF entry = {} THEN Unfilled(s, at, "NO_FILL", Deadline(at, end))
        ELSE IF StaleFill(plan, fill) THEN filled
        ELSE Settled(filled, plan, market,
                     [k \in bars |-> BarHit(plan, market[k], k, at, fillAt, end)], limit)

-----------------------------------------------------------------------------
(* Folds.                                                                  *)

\* generate_folds: each fold starts one out-of-sample window after the one before it.
FoldWindows(c, i, total) ==
    LET delta == ((total * c.oos) \div 100) \div c.folds
        trained == (total * c.train) \div 100 + delta * (i - 1)
        checked == trained + (total * c.val) \div 100
        tested == checked + c.embargo
    IN  [train |-> <<IF c.rolling THEN delta * (i - 1) ELSE 0, trained>>,
         val |-> <<trained, checked>>,
         oos |-> <<tested, IF tested + delta < total THEN tested + delta ELSE total>>]

\* Purged by the entry instead of by all a trade depends on.
KeptIfEntered(window, purge) ==
    {i \in DOMAIN trades :
        /\ window[1] <= trades[i].at /\ trades[i].at < window[2]
        /\ ~(purge /\ trades[i].fillAt # Absent /\ trades[i].fillAt >= window[2])}

\* filter_partition: what is signalled inside the window and depends on nothing beyond it.
Kept(window, purge) ==
    {i \in DOMAIN trades :
        /\ window[1] <= trades[i].at /\ trades[i].at < window[2]
        /\ ~(purge /\ trades[i].depEnd >= window[2])}

\* The validation set stays empty when the configuration has none.
FoldOf(c, i) ==
    LET windows == FoldWindows(c, i, runEnd)
    IN  [windows |-> windows,
         train |-> Kept(windows.train, c.purge),
         val |-> IF c.val = 0 THEN {} ELSE Kept(windows.val, c.purge),
         oos |-> Kept(windows.oos, c.purge)]

-----------------------------------------------------------------------------
ReplayInit ==
    /\ tape \in Tapes
    /\ runEnd \in RunEnds
    /\ step = 0
    /\ trades = <<>>
    /\ report = Absent

Running == step <= Len(tape) /\ CloseOf(step) < runEnd

\* The clock has a tick for every stored bar.
Ticks == IF step = 0 THEN TRUE ELSE tape[step].stored

\* A BUY or SELL window is planned, and its trade recorded whether the plan is valid or not.
TakeCandidate ==
    \E s \in Setups :
        /\ Running /\ Ticks /\ report = Absent /\ Len(trades) < MaxTrades
        /\ \/ s.candidate = "BUY_WINDOW" /\ s.advice = "BUY"
           \/ s.candidate = "SELL_WINDOW" /\ s.advice = "SELL"
        /\ trades' = Append(trades, Trade(tape, CloseOf(step), s, runEnd))
        /\ step' = step + 1
        /\ UNCHANGED <<tape, runEnd, report>>

\* Any other candidate state, or no bar at all.
PassBy ==
    /\ Running /\ report = Absent
    /\ step' = step + 1
    /\ UNCHANGED <<tape, runEnd, trades, report>>

\* The run is over: the walk-forward engine cuts it into folds.
WalkForward ==
    \E c \in Configs :
        /\ ~Running /\ report = Absent
        /\ report' = [config |-> c, folds |-> [i \in 1..c.folds |-> FoldOf(c, i)]]
        /\ UNCHANGED <<tape, runEnd, step, trades>>

ReplayNext == TakeCandidate \/ PassBy \/ WalkForward

ReplaySpec == ReplayInit /\ [][ReplayNext]_replayVars

-----------------------------------------------------------------------------
(* Properties.                                                             *)

Recorded == {trades[i] : i \in DOMAIN trades}

\* A position the simulator opens lies between its barriers with the whole entry zone: the
\* stop before the zone, the first target behind it, the second behind the first, and no
\* opposite zone known then begins between the zone and the first target.
PlanIsTradeable ==
    \A t \in Recorded :
        LET plan == PlanOf(t.side, t.setup)
            zone == plan.zone
            long == t.side = "LONG"
        IN  t.outcome # "SKIPPED" \/ t.fill # Absent =>
              /\ IF long THEN plan.stop < zone.low /\ zone.high < plan.tp1
                         ELSE plan.stop > zone.high /\ zone.low > plan.tp1
              /\ plan.tp2 # Absent => IF long THEN plan.tp2 > plan.tp1 ELSE plan.tp2 < plan.tp1
              /\ \A z \in PitZones(t.setup) :
                    IF long THEN ~(z.type = "RESISTANCE" /\ zone.high < z.low /\ z.low < plan.tp1)
                            ELSE ~(z.type = "SUPPORT" /\ z.high < zone.low /\ z.high > plan.tp1)

\* The price at position n of the market's path, 2*BarLen positions a bar.
PriceAt(n) == tape[((n - 1) \div (2 * BarLen)) + 1].path[((n - 1) % (2 * BarLen)) + 1]

\* Positions after the entry at which the real path touches a barrier, up to bar last.
TouchesUpTo(t, last, stop) ==
    LET plan == PlanOf(t.side, t.setup)
    IN  {n \in (2 * t.fillAt + 1)..(2 * CloseOf(last)) :
            IF stop THEN HitsStop(t.side, {PriceAt(n)}, plan.stop)
                    ELSE HitsTarget(t.side, {PriceAt(n)}, plan.tp1)}

BarOf(minute) == ((minute - 1) \div BarLen) + 1

\* The simulator sees highs and lows, never the path, and must not guess in its own favour:
\* when it says the target came first, the price really went there before it went to the
\* stop, as long as no bar in between is missing.
NeverOptimistic ==
    \A t \in Recorded :
        LET last == BarOf(t.exitAt)
            stops == TouchesUpTo(t, last, TRUE)
        IN  /\ t.outcome = "TP1_FIRST"
            /\ \A k \in BarOf(t.fillAt + 1)..last : tape[k].stored
            => \E n \in TouchesUpTo(t, last, FALSE) : \A m \in stops : n < m

\* Two barriers in one bar are told apart by the 1m candles whenever all of them are stored
\* and none of them touches both.
AmbiguityIsReplayed ==
    \A t \in Recorded :
        LET last == BarOf(t.exitAt)
            plan == PlanOf(t.side, t.setup)
            minute(m) == PricesIn(tape[last], m, m)
            both(prices) == /\ HitsTarget(t.side, prices, plan.tp1)
                            /\ HitsStop(t.side, prices, plan.stop)
        IN  /\ t.outcome \in {"TP1_FIRST", "SL_FIRST"}
            /\ tape[last].ones = 1..BarLen
            /\ \A m \in 1..BarLen : ~both(minute(m))
            /\ \A k \in BarOf(t.fillAt + 1)..last : tape[k].stored
            => (t.outcome = "TP1_FIRST") =
                  \E n \in TouchesUpTo(t, last, FALSE) : \A m \in TouchesUpTo(t, last, TRUE) : n < m

\* What a fold trains or validates on, if the windows end with a bar, is what a run that had
\* ended with that bar would have said: no label of an earlier segment owes anything to the
\* prices of a later one.  The second target is not a label: it looks further.
LabelsOwnTheirPast ==
    report # Absent /\ report.config.purge =>
        \A f \in DOMAIN report.folds :
            LET fold == report.folds[f]
                stands(kept, until) ==
                    until % BarLen = 0 =>
                        \A i \in kept :
                            LET then == Trade(tape, trades[i].at, trades[i].setup, until + 1)
                            IN  \A label \in {"outcome", "fillAt", "fill", "exitAt", "exit"} :
                                    then[label] = trades[i][label]
            IN  /\ stands(fold.train, fold.windows.train[2])
                /\ stands(fold.val, fold.windows.val[2])

=============================================================================
