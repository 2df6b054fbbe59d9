\* One candle that is queued twice, two workers, and nothing fails.
SPECIFICATION Spec
CONSTANTS
    Candles = {1}
    ClosureCandles = {}
    LateRows = {}
    Candidate <- MCCandidate
    Workers = {w1, w2}
    MaxRetries = 0
    CatchUpLimit = 1
    MaxErrors = 0
    MaxCrashes = 0
    MaxCopies = 2
    None = None
INVARIANTS AtMostOneEvaluation
CHECK_DEADLOCK FALSE
