------------------------- MODULE MCCandidateScore -------------------------
EXTENDS CandidateScore, FiniteSets

MCFolds == <<<<1, 4>>, <<2, 5>>>>

\* The trades of one block count for four independent ones.
MCEffectiveN(ts) == 4 * Cardinality({ts[i].at : i \in DOMAIN ts})

Won(side, at, r) == [side |-> side, at |-> at, outcome |-> "TP1_FIRST", r |-> r]
Lost(side, at, r) == [side |-> side, at |-> at, outcome |-> "SL_FIRST", r |-> r]

MCTrades ==
    {Won("LONG", 1, 100), Won("SHORT", 2, 40), Won("LONG", 3, 200), Won("SHORT", 4, 300),
     Lost("LONG", 1, -100), Lost("LONG", 2, -60), Lost("SHORT", 3, -50), Won("SHORT", 5, 100),
     [Won("SHORT", 3, 0) EXCEPT !.outcome = "NO_FILL"],
     [Lost("LONG", 2, -80) EXCEPT !.outcome = "ENTRY_INVALIDATED_STALE_RISK_PLAN"]}

\* One trade after the other.
MCReplays ==
    {ts \in UNION {[1..n -> MCTrades] : n \in 0..4} :
        \A i \in 2..Len(ts) : ts[i - 1].at <= ts[i].at}

\* Nothing lost, little lost and too much lost.
MCBaselines ==
    {<<>>, <<Won("LONG", 1, 100), Lost("LONG", 2, -40)>>, <<Lost("LONG", 1, -100), Lost("SHORT", 3, -50)>>}
============================================================================
