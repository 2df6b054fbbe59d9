\* One process that is down from the close before the closure until after Returning.
SPECIFICATION Spec
CONSTANTS
    Procs = {p1}
    MaxTime = 5
    Closed = {2, 3}
    Leaving = {1}
    Returning = {4}
    ClosureSpans = {3}
    Break = {}
    BreakSpan = 0
    Lookback = 1
    MaxBatch = 2
    Cap = 3
    RetryCap = 1
    MaxAttempts = 2
    Cooldown = 1
    WeekendReopen = 3
    MaxFaults = 0
INVARIANT NoRequestAcrossClosure
CHECK_DEADLOCK FALSE
