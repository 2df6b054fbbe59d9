\* One candle to decide and one in market closure, two workers, one late history
\* row, one failing statement, one kill and one retry.
SPECIFICATION Spec
CONSTANTS
    Candles = {1, 2}
    ClosureCandles = {2}
    LateRows = {r1}
    Candidate <- MCCandidate
    Workers = {w1, w2}
    MaxRetries = 1
    CatchUpLimit = 1
    MaxErrors = 1
    MaxCrashes = 1
    MaxCopies = 2
    None = None
SYMMETRY MCSymmetry
INVARIANTS ProjectionIsDurable AlertAtMostOnce EvaluationsBounded
    CompleteWhenQuiet StrandedOnlyByFaults
PROPERTIES ImplementsLedger
CHECK_DEADLOCK FALSE
