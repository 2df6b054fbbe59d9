\* One process, an open market and a gap of more than one batch.
SPECIFICATION Spec
CONSTANTS
    Procs = {p1}
    MaxTime = 3
    Closed = {}
    Leaving = {}
    Returning = {}
    ClosureSpans = {}
    Break = {}
    BreakSpan = 0
    Lookback = 1
    MaxBatch = 2
    Cap = 4
    RetryCap = 1
    MaxAttempts = 2
    Cooldown = 1
    WeekendReopen = 0
    MaxFaults = 0
INVARIANT SuppressedNotRequested
CHECK_DEADLOCK FALSE
