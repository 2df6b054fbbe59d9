-------------------------- MODULE MCSignalEngine --------------------------
EXTENDS SignalEngine

MCCriticality == [primary_15m |-> "CRITICAL", macro_blackout |-> "CRITICAL", volume |-> "OPTIONAL"]

MCWeights == [regime |-> 15, trend1h |-> 10, trend4h |-> 10, trend1d |-> 10, structure |-> 20,
              pullback |-> 15, momentum |-> 10, volume |-> 10,
              zone |-> 25, reversal |-> 25, turn |-> 20, cycle |-> 20, response |-> 10]

MCThresholds == [watch |-> 40, ready |-> 50, readyT |-> 40, window |-> 60, windowT |-> 60]

BullCandle(t) == [close |-> t, closed |-> TRUE,
                  shape |-> [lower |-> 40, upper |-> 10, closeAt |-> 80, body |-> 1]]
Forming(t) == [BullCandle(t) EXCEPT !.closed = FALSE]
PlainCandle(t) == [BullCandle(t) EXCEPT !.shape = [lower |-> 20, upper |-> 20, closeAt |-> 50, body |-> -1]]

NoCandles == [f \in Frames |-> <<>>]
Only15(s) == [NoCandles EXCEPT !["15m"] = s]

Up == [align |-> 1, slope |-> 1, strong |-> TRUE, di |-> 1]

\* A market in which every rule speaks for the long side.
Bull == [asOf |-> 2, candles |-> Only15(<<BullCandle(1), BullCandle(2)>>),
         regime |-> [kind |-> "BULL_TREND", confidence |-> 80],
         trend |-> [f \in Trends |-> Up],
         structure |-> [type |-> "HH", bos |-> 1], retraced |-> 50,
         rsi |-> 60, rsi1h |-> 60, roc |-> 1, macd |-> [hist |-> 1, gap |-> 1],
         volume |-> 130, distance |-> 40,
         cycle |-> [frozen |-> TRUE, matches |-> TRUE, score |-> 60],
         blackout |-> FALSE, configured |-> TRUE,
         health |-> [f \in DOMAIN MCCriticality |-> "HEALTHY"]]

\* A market in which little does.
Dull == [Bull EXCEPT !.regime = [kind |-> "RANGE", confidence |-> 60],
            !.trend = [f \in Trends |-> Missing], !.structure = [type |-> "CONSOLIDATION", bos |-> 0],
            !.rsi = 50, !.rsi1h = 50, !.macd = Missing, !.volume = 95,
            !.candles = Only15(<<PlainCandle(2)>>)]

\* The direction speaks for one side, the momentum and the trigger for the other.
Torn == [Bull EXCEPT !.regime = [kind |-> "BEAR_TREND", confidence |-> 80],
            !.trend["1d"] = [align |-> -1, slope |-> -1, strong |-> TRUE, di |-> -1],
            !.structure = [type |-> "LH", bos |-> -1], !.rsi = 40, !.roc = 1]

Bases == {Bull, MirrorEvidence(Bull), Dull, Torn}

\* Every rule of every component, one changed input at a time.
MCEvidences ==
    Bases
    \cup {[b EXCEPT !.regime = r] : b \in Bases,
            r \in {Missing} \cup [kind : {"BULL_TREND", "BEAR_TREND", "RANGE", "TRANSITION"}, confidence : {40}]}
    \cup {[b EXCEPT !.trend["4h"] = t] : b \in Bases,
            t \in {Missing} \cup [align : -1..1, slope : -1..1, strong : BOOLEAN, di : {-1, 1}]}
    \cup {[b EXCEPT !.structure = s] : b \in Bases,
            s \in {Missing} \cup [type : {"HH", "HL", "LL", "CONSOLIDATION"}, bos : -1..1]}
    \cup {[b EXCEPT !.retraced = x] : b \in Bases, x \in {Missing, 10, 24, 38, 39, 61, 62, 76, 78, 90}}
    \cup {[b EXCEPT !.rsi = x, !.roc = y] : b \in Bases,
            x \in {Missing, 30, 44, 45, 55, 56, 66}, y \in -1..1}
    \cup {[b EXCEPT !.rsi1h = x] : b \in Bases, x \in {Missing, 44, 45, 55, 56}}
    \cup {[b EXCEPT !.macd = x] : b \in Bases, x \in [hist : -1..1, gap : -1..1]}
    \cup {[b EXCEPT !.volume = x] : b \in Bases, x \in {Missing, 80, 90, 120}}
    \cup {[b EXCEPT !.distance = x] : b \in Bases, x \in {Missing, 50, 90, 150}}
    \cup {[b EXCEPT !.cycle = x] : b \in Bases,
            x \in {Missing} \cup [frozen : BOOLEAN, matches : BOOLEAN, score : {0, 100}]}
    \cup {[b EXCEPT !.blackout = TRUE] : b \in Bases}
    \cup {[b EXCEPT !.configured = FALSE] : b \in Bases}
    \cup {[b EXCEPT !.asOf = t, !.candles = c] : b \in Bases, t \in {Missing, 1, 2},
            c \in {NoCandles,
                   Only15(<<BullCandle(1), PlainCandle(2)>>),
                   Only15(<<PlainCandle(1), Forming(2)>>),
                   Only15(<<PlainCandle(1), BullCandle(2), Forming(3)>>),
                   [Only15(<<BullCandle(1), BullCandle(2)>>) EXCEPT !["4h"] = <<Forming(2)>>],
                   [Only15(<<BullCandle(1), BullCandle(2)>>) EXCEPT !["1h"] = <<Forming(3)>>]}}
=============================================================================
