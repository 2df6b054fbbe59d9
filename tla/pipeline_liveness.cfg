\* Two candles to decide, two workers; two statements may raise, which the retries
\* allow for, and one worker may be killed.  Beside them, the continuity gate with four
\* slots, the third closed, one observing process and one kill, so that the window that
\* opens at the first candle has a second candle to miss; and the friction ledger with two
\* operators and three moments.
SPECIFICATION EvidenceSpec
CONSTANTS
    Candles = {1, 2}
    ClosureCandles = {}
    LateRows = {}
    Candidate <- MCCandidate
    Workers = {w1, w2}
    MaxRetries = 2
    CatchUpLimit = 0
    MaxErrors = 2
    MaxCrashes = 1
    MaxCopies = 1
    Operators = {o1, o2}
    LastMoment = 2
    Unproved = Unproved
    Unsealed = Unsealed
    None = None
    MaxTime = 4
    Closed = {3}
    WindowLength = 2
    Grace = 1
    MaxStale = 1
    Variants = {v1}
    Tasks = {t1}
    TaskLimit = 1
    MaxKills = 1
    MaxCount = 1
    Null = Null
INVARIANTS
    AnswersStand
    UnconfiguredHasCause
PROPERTIES
    QueuedCandleIsDecided
    MissedIsFlagged
CHECK_DEADLOCK FALSE
