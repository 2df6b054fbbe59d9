--------------------------- MODULE SignalEngine ---------------------------
(***************************************************************************)
(* XauUsdSignalEngine (src/engine/signals): from the closed candles, the   *)
(* features, the structure and the state of the feeds at a decision time T *)
(* to a candidate state and to what is published.                          *)
(*                                                                         *)
(* The long and the short side are scored by their own copies of the same  *)
(* rules, which is where such code goes wrong: the module keeps the two    *)
(* copies wherever the source has two.  Scores are in hundredths of a      *)
(* point, so that a weight times a percentage is a whole number; the       *)
(* source's rounding to two decimals is therefore exact.  A price is kept  *)
(* as what the rules read of it: a percentage, a sign or a class.          *)
(***************************************************************************)
EXTENDS Selection

CONSTANTS
    Evidences,   \* what the decisions rest on, members of EvidenceSet
    Weights,     \* weights of both score policies, by component, in points
    Thresholds,  \* gate policy: [watch, ready, readyT, window, windowT], in points
    Criticality, \* feed policy: each feed CRITICAL, OPTIONAL or INFORMATIONAL
    Missing      \* an absent value

Sides == {"LONG", "SHORT"}
Feeds == DOMAIN Criticality
Statuses == {"HEALTHY", "UNHEALTHY", "MISSING"} \* the others are weighed like UNHEALTHY
Frames == {"15m", "1h", "4h", "1d"}
Trends == {"1h", "4h", "1d"}

\* SideDirectionPolicy and SideTimingPolicy demand weights that sum to 100, SideGatePolicy
\* thresholds that do not decrease.
PolicyAssumption ==
    /\ \A c \in DOMAIN Weights : Weights[c] \in 0..100
    /\ Weights.regime + Weights.trend1h + Weights.trend4h + Weights.trend1d
         + Weights.structure + Weights.pullback + Weights.momentum + Weights.volume = 100
    /\ Weights.zone + Weights.reversal + Weights.turn + Weights.cycle + Weights.response = 100
    /\ 0 <= Thresholds.watch /\ Thresholds.watch <= Thresholds.ready
    /\ Thresholds.ready <= Thresholds.window /\ Thresholds.window <= 100
    /\ 0 <= Thresholds.readyT /\ Thresholds.readyT <= Thresholds.windowT
    /\ Thresholds.windowT <= 100
ASSUME PolicyAssumption
ASSUME CriticalityAssumption ==
    Criticality \in [Feeds -> {"CRITICAL", "OPTIONAL", "INFORMATIONAL"}]

Candles == [close: Int, closed: BOOLEAN,
            shape: [lower: Int, upper: Int, closeAt: Int, body: Int]]
Regimes == [kind: {"BULL_TREND", "BEAR_TREND", "RANGE", "HIGH_VOLATILITY", "TRANSITION", "UNKNOWN"},
            confidence: Nat]
TrendReads == [align: Int, slope: Int, strong: BOOLEAN, di: Int]
Structures == [type: {"HH", "HL", "LH", "LL", "CONSOLIDATION"}, bos: Int]
MacdReads == [hist: Int, gap: Int]
CycleReads == [frozen: BOOLEAN, matches: BOOLEAN, score: Nat]

\* What a decision may rest on; whatever is computed from candles may be missing.
EvidenceSet ==
    [asOf: Int \cup {Missing}, candles: [Frames -> Seq(Candles)],
     regime: Regimes \cup {Missing}, trend: [Trends -> TrendReads \cup {Missing}],
     structure: Structures \cup {Missing}, retraced: Int \cup {Missing},
     rsi: Int \cup {Missing}, rsi1h: Int \cup {Missing}, roc: Int,
     macd: MacdReads \cup {Missing}, volume: Nat \cup {Missing}, distance: Nat \cup {Missing},
     cycle: CycleReads \cup {Missing}, blackout: BOOLEAN, configured: BOOLEAN,
     health: [Feeds -> Statuses]]
ASSUME EvidenceAssumption == Evidences \subseteq EvidenceSet
ASSUME MissingAssumption ==
    /\ Missing \notin Int /\ Missing \notin Candles /\ Missing \notin Regimes
    /\ Missing \notin TrendReads /\ Missing \notin Structures /\ Missing \notin MacdReads

VARIABLES
    evidence,   \* the inputs of the next analysis
    signal      \* the last DualSideSignalSnapshot

sigVars == <<evidence, signal>>

-----------------------------------------------------------------------------
(* Candles visible at T: a candle that closes later is dropped before its  *)
(* closure is looked at; one that should be closed by T and is not holds   *)
(* the whole decision back.                                                *)

ClosedOnly(seq) == {i \in DOMAIN seq : seq[i].closed}

\* as_of, or the close of the last closed 15m candle, or of the last one.
DecisionTime(e) ==
    LET s == e.candles["15m"]
    IN  CASE e.asOf # Missing -> e.asOf
          [] e.asOf = Missing /\ ClosedOnly(s) # {} -> s[Max(ClosedOnly(s))].close
          [] OTHER -> s[Len(s)].close

Visible(seq, t) == {i \in DOMAIN seq : seq[i].close <= t /\ seq[i].closed}

\* Any forming candle holds the decision back, later ones too.
HasUnclosedEver(seq, t) == \E i \in DOMAIN seq : ~seq[i].closed

HasUnclosed(seq, t) == \E i \in DOMAIN seq : seq[i].close <= t /\ ~seq[i].closed

UnclosedAt(e) == \E f \in Frames : HasUnclosed(e.candles[f], DecisionTime(e))

LastVisible(e) ==
    LET s == e.candles["15m"]
        seen == Visible(s, DecisionTime(e))
    IN  IF seen = {} THEN Missing ELSE s[Max(seen)]

-----------------------------------------------------------------------------
(* Direction score: eight components.                                      *)

RegimePoints(side, e) ==
    IF e.regime = Missing THEN 0
    ELSE IF e.regime.kind = (IF side = "LONG" THEN "BULL_TREND" ELSE "BEAR_TREND")
         THEN Weights.regime * e.regime.confidence
         ELSE IF e.regime.kind = "RANGE" THEN (Weights.regime * e.regime.confidence) \div 3
         ELSE 0

Favours(side, x) == IF side = "LONG" THEN x > 0 ELSE x < 0

\* A higher time frame that is missing scores nothing; 15m never stands in for it.
TrendPoints(side, trend, weight) ==
    LET align == IF side = "LONG" THEN 1 ELSE -1
    IN  IF trend = Missing THEN 0
        ELSE (IF trend.align = align THEN weight * 60 ELSE 0)
           + (IF Favours(side, trend.slope) THEN weight * 20 ELSE 0)
           + (IF trend.strong /\ Favours(side, trend.di) THEN weight * 20 ELSE 0)

\* A break of structure against the side takes a quarter off, never below zero.
StructurePoints(side, e) ==
    IF e.structure = Missing THEN 0
    ELSE LET type == e.structure.type
             with == IF side = "LONG" THEN type \in {"HH", "HL"} ELSE type \in {"LH", "LL"}
             base == IF with THEN 50 ELSE IF type = "CONSOLIDATION" THEN 20 ELSE 0
             break == IF side = "LONG" THEN e.structure.bos ELSE 0 - e.structure.bos
         IN  Weights.structure * (IF break = 1 THEN base + 50
                                  ELSE IF break = -1 THEN (IF base > 25 THEN base - 25 ELSE 0)
                                  ELSE base)

\* e.retraced is how far ema20 has come back from the swing high, in percent of the swing.
PullbackPoints(side, e) ==
    IF e.retraced = Missing THEN 0
    ELSE LET depth == IF side = "LONG" THEN e.retraced ELSE 100 - e.retraced
         IN  Weights.pullback * (IF depth \in 39..61 THEN 100
                                 ELSE IF depth \in 24..78 THEN 50 ELSE 0)

\* The short copy with the long side's RSI band.
MomentumPointsCopied(side, e) ==
    Weights.momentum *
      ((IF e.rsi = Missing THEN 0
        ELSE IF e.rsi \in 45..65 THEN 50 ELSE IF e.rsi \in 35..44 THEN 25 ELSE 0)
       + (IF e.macd = Missing THEN 0
          ELSE IF side = "LONG"
               THEN (IF e.macd.hist > 0 THEN (IF e.macd.gap >= 0 THEN 50 ELSE 25) ELSE 0)
               ELSE (IF e.macd.hist < 0 THEN (IF e.macd.gap <= 0 THEN 50 ELSE 25) ELSE 0)))

MomentumPoints(side, e) ==
    Weights.momentum *
      ((IF e.rsi = Missing THEN 0
        ELSE IF side = "LONG"
             THEN (IF e.rsi \in 45..65 THEN 50 ELSE IF e.rsi \in 35..44 THEN 25 ELSE 0)
             ELSE (IF e.rsi \in 35..55 THEN 50 ELSE IF e.rsi \in 56..65 THEN 25 ELSE 0))
       + (IF e.macd = Missing THEN 0
          ELSE IF side = "LONG"
               THEN (IF e.macd.hist > 0 THEN (IF e.macd.gap >= 0 THEN 50 ELSE 25) ELSE 0)
               ELSE (IF e.macd.hist < 0 THEN (IF e.macd.gap <= 0 THEN 50 ELSE 25) ELSE 0)))

\* e.volume is the volume over its 20-bar mean, in percent; both scores use the same steps.
VolumePoints(weight, e) ==
    IF e.volume = Missing THEN 0
    ELSE weight * (IF e.volume >= 120 THEN 100 ELSE IF e.volume >= 90 THEN 60 ELSE 20)

Clamp(points) == IF points < 0 THEN 0 ELSE IF points > 10000 THEN 10000 ELSE points

DirectionScore(side, e) ==
    Clamp(RegimePoints(side, e)
          + TrendPoints(side, e.trend["1h"], Weights.trend1h)
          + TrendPoints(side, e.trend["4h"], Weights.trend4h)
          + TrendPoints(side, e.trend["1d"], Weights.trend1d)
          + StructurePoints(side, e) + PullbackPoints(side, e)
          + MomentumPoints(side, e) + VolumePoints(Weights.volume, e))

-----------------------------------------------------------------------------
(* Timing score: five components.                                          *)

\* Distance of the close from ema20 in hundredths of ATR; the two copies are the same.
ZonePoints(e) ==
    IF e.distance = Missing \/ LastVisible(e) = Missing THEN 0
    ELSE Weights.zone * (IF e.distance <= 50 THEN 100 ELSE IF e.distance <= 100 THEN 60 ELSE 20)

\* A rejection pin, or at least a candle that closes in the side's favour.
ReversalPoints(side, candle) ==
    IF candle = Missing THEN 0
    ELSE LET shape == candle.shape
             pin == IF side = "LONG" THEN shape.lower >= 35 /\ shape.closeAt >= 60
                                     ELSE shape.upper >= 35 /\ 100 - shape.closeAt >= 60
             turns == IF side = "LONG" THEN shape.body > 0 ELSE shape.body < 0
         IN  Weights.reversal * (IF pin THEN 100 ELSE IF turns THEN 60 ELSE 0)

TurnPoints(side, e) ==
    Weights.turn *
      ((IF e.rsi = Missing THEN 0
        ELSE IF side = "LONG"
             THEN (IF e.rsi \in 45..65 THEN 50 ELSE IF e.rsi < 45 /\ e.roc > 0 THEN 30 ELSE 0)
             ELSE (IF e.rsi \in 35..55 THEN 50 ELSE IF e.rsi > 55 /\ e.roc < 0 THEN 30 ELSE 0))
       + (IF e.rsi1h = Missing THEN 0
          ELSE IF (side = "LONG" /\ e.rsi1h >= 45) \/ (side = "SHORT" /\ e.rsi1h <= 55)
               THEN 50 ELSE 0))

\* The cycle counts only under a frozen XAUUSD profile of the decision's time frame.
CyclePoints(e) ==
    IF e.cycle = Missing \/ ~e.cycle.frozen \/ ~e.cycle.matches THEN 0
    ELSE Weights.cycle * e.cycle.score

TimingScore(side, e) ==
    Clamp(ZonePoints(e) + ReversalPoints(side, LastVisible(e)) + TurnPoints(side, e)
          + CyclePoints(e) + VolumePoints(Weights.response, e))

-----------------------------------------------------------------------------
(* The hard gate, the candidate and what is published.                     *)

\* A CRITICAL feed must be HEALTHY; the others never block.
HardBlocked(e) ==
    \/ UnclosedAt(e)
    \/ e.blackout
    \/ \E f \in Feeds : Criticality[f] = "CRITICAL" /\ e.health[f] # "HEALTHY"

\* 0 nothing, 1 watch, 2 ready, 3 window.
Tier(direction, timing) ==
    IF direction >= 100 * Thresholds.window /\ timing >= 100 * Thresholds.windowT THEN 3
    ELSE IF direction >= 100 * Thresholds.ready /\ timing >= 100 * Thresholds.readyT THEN 2
    ELSE IF direction >= 100 * Thresholds.watch THEN 1
    ELSE 0

TierState(side, tier) ==
    CASE tier = 0 -> "NO_TRADE"
      [] tier = 1 -> IF side = "LONG" THEN "WATCH_LONG" ELSE "WATCH_SHORT"
      [] tier = 2 -> IF side = "LONG" THEN "READY_LONG" ELSE "READY_SHORT"
      [] tier = 3 -> IF side = "LONG" THEN "BUY_WINDOW" ELSE "SELL_WINDOW"

\* The matrix of sixteen pairs: equal tiers, or a window against a ready, contradict.
Resolved(long, short) ==
    IF long = short THEN (IF long = 0 THEN "NO_TRADE" ELSE "CONFLICT")
    ELSE IF long >= 2 /\ short >= 2 THEN "CONFLICT"
    ELSE IF long > short THEN TierState("LONG", long) ELSE TierState("SHORT", short)

SideTier(side, e) == Tier(DirectionScore(side, e), TimingScore(side, e))

\* No candidate while an optional feed is out.
CandidateVetoed(e) ==
    IF HardBlocked(e) THEN "FORCE_WAIT"
    ELSE IF ~e.configured \/ \E f \in Feeds : e.health[f] = "MISSING" THEN "NO_TRADE"
    ELSE Resolved(SideTier("LONG", e), SideTier("SHORT", e))

Candidate(e) ==
    IF HardBlocked(e) THEN "FORCE_WAIT"
    ELSE IF ~e.configured THEN "NO_TRADE"
    ELSE Resolved(SideTier("LONG", e), SideTier("SHORT", e))

Advice(state) ==
    CASE state = "BUY_WINDOW" -> "BUY"
      [] state = "SELL_WINDOW" -> "SELL"
      [] OTHER -> "WAIT"

\* Publication is never authorised: what is published is a wait, whatever the candidate.
Snapshot(e) ==
    LET candidate == Candidate(e)
    IN  [at |-> DecisionTime(e), candidate |-> candidate, advice |-> Advice(candidate),
         published |-> IF HardBlocked(e) THEN "FORCE_WAIT" ELSE "NO_TRADE"]

\* Without one visible closed 15m candle the analysis fails, unless a feed or an unclosed
\* candle already holds it back.
CanAnalyze(e) ==
    /\ e.asOf # Missing \/ e.candles["15m"] # <<>>
    /\ LastVisible(e) # Missing \/ UnclosedAt(e) \/ e.health["primary_15m"] # "HEALTHY"

-----------------------------------------------------------------------------
SigInit ==
    /\ evidence \in Evidences
    /\ signal = Missing

Analyze ==
    /\ CanAnalyze(evidence)
    /\ signal' = Snapshot(evidence)
    /\ UNCHANGED evidence

\* Provider health checks run on their own clock: a feed changes between two analyses.
FeedTurns ==
    \E f \in Feeds, s \in Statuses :
        /\ evidence.health[f] # s
        /\ evidence' = [evidence EXCEPT !.health[f] = s]
        /\ UNCHANGED signal

SigNext == Analyze \/ FeedTurns

SigSpec == SigInit /\ [][SigNext]_sigVars

-----------------------------------------------------------------------------
(* Properties.                                                             *)

\* The same evidence with up and down exchanged.
MirrorTrend(t) ==
    IF t = Missing THEN Missing
    ELSE [align |-> 0 - t.align, slope |-> 0 - t.slope, strong |-> t.strong, di |-> 0 - t.di]
MirrorKind(k) ==
    CASE k = "BULL_TREND" -> "BEAR_TREND" [] k = "BEAR_TREND" -> "BULL_TREND" [] OTHER -> k
MirrorType(t) ==
    CASE t = "HH" -> "LL" [] t = "LL" -> "HH" [] t = "HL" -> "LH" [] t = "LH" -> "HL"
      [] OTHER -> t
MirrorCandle(c) ==
    [c EXCEPT !.shape = [lower |-> c.shape.upper, upper |-> c.shape.lower,
                         closeAt |-> 100 - c.shape.closeAt, body |-> 0 - c.shape.body]]
FromHundred(x) == IF x = Missing THEN Missing ELSE 100 - x
MirrorRegime(r) ==
    IF r = Missing THEN Missing
    ELSE [kind |-> MirrorKind(r.kind), confidence |-> r.confidence]
MirrorStructureRead(s) ==
    IF s = Missing THEN Missing ELSE [type |-> MirrorType(s.type), bos |-> 0 - s.bos]
MirrorMacd(d) ==
    IF d = Missing THEN Missing ELSE [hist |-> 0 - d.hist, gap |-> 0 - d.gap]
MirrorEvidence(e) ==
    [e EXCEPT
       !.candles = [f \in Frames |->
                      [i \in DOMAIN e.candles[f] |-> MirrorCandle(e.candles[f][i])]],
       !.regime = MirrorRegime(e.regime),
       !.trend = [f \in Trends |-> MirrorTrend(e.trend[f])],
       !.structure = MirrorStructureRead(e.structure),
       !.retraced = FromHundred(e.retraced), !.rsi = FromHundred(e.rsi),
       !.rsi1h = FromHundred(e.rsi1h), !.roc = 0 - e.roc, !.macd = MirrorMacd(e.macd)]
MirrorState(s) ==
    CASE s = "BUY_WINDOW" -> "SELL_WINDOW" [] s = "SELL_WINDOW" -> "BUY_WINDOW"
      [] s = "READY_LONG" -> "READY_SHORT" [] s = "READY_SHORT" -> "READY_LONG"
      [] s = "WATCH_LONG" -> "WATCH_SHORT" [] s = "WATCH_SHORT" -> "WATCH_LONG"
      [] OTHER -> s

\* The two sides are scored by separate copies of the rules and weighed by a matrix written
\* out pair by pair.  Turned upside down, the market gets the opposite answer: neither copy
\* and no cell of the matrix prefers a side.
NoSideIsFavoured ==
    CanAnalyze(evidence) =>
        Candidate(MirrorEvidence(evidence)) = MirrorState(Candidate(evidence))

\* What a decision says is a function of what was known at its time: the candles that close
\* later, closed already or still forming, change nothing.
FutureIsInvisible ==
    CanAnalyze(evidence) =>
        LET t == DecisionTime(evidence)
            known == [evidence EXCEPT !.asOf = t,
                        !.candles = [f \in Frames |->
                            Having(@[f], {c \in ToSet(@[f]) : c.close <= t})]]
        IN  Snapshot(known) = Snapshot(evidence)

\* Feeds coming and going between two analyses of the same market can hold a candidate back
\* or let it through, and never turn one candidate into another.
HealthOnlyHoldsBack ==
    [][(signal # Missing /\ signal' # signal) =>
            "FORCE_WAIT" \in {signal.candidate, signal'.candidate}]_sigVars
=============================================================================
