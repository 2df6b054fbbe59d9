-------------------------- MODULE MCTradeReplay ---------------------------
EXTENDS TradeReplay

MCPolicy == [buffer |-> 2, atrMult |-> 2, maxStop |-> 5, minRR |-> 1, tp2Mult |-> 6]

Support(l, h) == [type |-> "SUPPORT", low |-> l, high |-> h, born |-> 0, active |-> TRUE]
Resistance(l, h) == [Support(l, h) EXCEPT !.type = "RESISTANCE"]
ZonesAt(zones) == [at |-> 0, zones |-> zones]

\* Entry 40 to 44, stop 36, target 54.
Plain == [at |-> 0, candidate |-> "BUY_WINDOW", advice |-> "BUY", configured |-> TRUE,
          fifteen |-> ZonesAt({Support(40, 44), Support(30, 34), Resistance(54, 56)}), four |-> Absent,
          atr |-> 2]

\* The setup turned upside down.
Mirror(s) ==
    LET turned(z) == [z EXCEPT !.low = 96 - z.high, !.high = 96 - z.low,
                               !.type = IF @ = "SUPPORT" THEN "RESISTANCE" ELSE "SUPPORT"]
    IN  [s EXCEPT !.candidate = IF @ = "BUY_WINDOW" THEN "SELL_WINDOW" ELSE "BUY_WINDOW",
                  !.advice = IF @ = "BUY" THEN "SELL" ELSE "BUY",
                  !.fifteen.zones = {turned(z) : z \in @}]

MCSetups ==
    {Plain, Mirror(Plain),
     [Plain EXCEPT !.four = ZonesAt({Resistance(60, 62), [Resistance(52, 58) EXCEPT !.active = FALSE]})],
     [Mirror(Plain) EXCEPT !.four = ZonesAt({Support(40, 42), Support(44, 48)})],
     [Plain EXCEPT !.fifteen.zones = @ \cup {[Support(42, 46) EXCEPT !.born = 1],
                                             [Resistance(50, 52) EXCEPT !.born = 1]}],
     [Plain EXCEPT !.fifteen.zones = @ \cup {Resistance(46, 48)}],
     [Plain EXCEPT !.fifteen.at = 1],
     [Plain EXCEPT !.advice = "WAIT"]}

Bar(p) == [stored |-> TRUE, path |-> p, ones |-> 1..4, fives |-> 1..2]
Quiet == Bar(<<44, 46, 44, 46, 44, 46, 44, 46>>)
Rise  == Bar(<<46, 48, 48, 50, 50, 56, 54, 52>>)
Fall  == Bar(<<46, 42, 42, 38, 38, 34, 36, 40>>)
\* Up through the target, then down through the stop; the other way round; both in a minute.
UpDown == Bar(<<46, 50, 50, 56, 50, 46, 40, 34>>)
DownUp == Bar(<<46, 40, 40, 34, 40, 46, 50, 56>>)
Flash  == Bar(<<46, 46, 34, 56, 46, 46, 46, 46>>)
Above  == Bar(<<58, 58, 58, 58, 58, 58, 58, 58>>)
Gap    == [Quiet EXCEPT !.stored = FALSE]

MCBars ==
    {Quiet, Rise, Fall, UpDown, DownUp, Flash, Above, Gap,
     [UpDown EXCEPT !.ones = {1, 2, 4}],
     [UpDown EXCEPT !.ones = 2..4, !.fives = {2}],
     [DownUp EXCEPT !.ones = {}, !.fives = {2}],
     [UpDown EXCEPT !.ones = {1}]}

MCTapes == {<<a, b, Rise>> : a \in MCBars, b \in {Quiet, UpDown, Gap}}

MCRunEnds == {9, 13}

MCConfigs ==
    {[folds |-> 2, train |-> 34, val |-> 33, oos |-> 33, embargo |-> 0, purge |-> TRUE, rolling |-> FALSE],
     [folds |-> 2, train |-> 34, val |-> 0, oos |-> 66, embargo |-> 1, purge |-> TRUE, rolling |-> TRUE]}
=============================================================================
