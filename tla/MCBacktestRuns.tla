--------------------------- MODULE MCBacktestRuns ---------------------------
(* Instances of BacktestRuns for TLC: one request in the approved window,  *)
(* one before it, one across its end, one without quotes, one of the       *)
(* other instrument.                                                       *)
EXTENDS BacktestRuns, TLC

MCMessageSymmetry == Permutations(Messages)
MCSeries == <<"15m", "1h">>
MCStock == {<<"XAUUSD", "15m", 0>>, <<"XAUUSD", "15m", 1>>, <<"XAUUSD", "15m", 2>>,
            <<"XAUUSD", "1h", 1>>, <<"XAUT", "15m", 1>>}

Whole(status) == [stated |-> status, whole |-> TRUE, there |-> TRUE]
Given(signal, risk) ==
    [named |-> FALSE, readable |-> FALSE, seal |-> "none", status |-> "none",
     signal |-> signal, risk |-> risk]
Named(seal, status) ==
    [named |-> TRUE, readable |-> TRUE, seal |-> seal, status |-> status,
     signal |-> Whole("none"), risk |-> Whole("none")]

Asked(window, profiles, quotes) ==
    [market |-> "XAUUSD", window |-> window, setup |-> [revision |-> "r", costs |-> 1],
     profiles |-> profiles, quotes |-> quotes]

Token == [Asked(<<1, 2>>, Given(None, None), FALSE) EXCEPT !.market = "XAUT"]

MCRequests ==
    {Asked(<<1, 2>>, Given(Whole("none"), Whole("PENDING_DATA")), FALSE),
     Asked(<<0, 2>>, Given(Whole("none"), Whole("none")), FALSE),
     Asked(<<1, 3>>, Given(Whole("none"), Whole("none")), FALSE),
     Asked(<<1, 2>>, Given(Whole("none"), Whole("none")), TRUE),
     Asked(<<1, 2>>, Given(Whole("PENDING_DATA"), Whole("none")), FALSE),
     Asked(<<1, 2>>, Named("wrong", "REVALIDATED_RESEARCH"), FALSE),
     Token}
=============================================================================
