\* The dispatcher: two processes, two credits, a closed candle between open ones, recovery
\* over more than one batch, and one fault: a short or suspect answer, a kill or a cache loss.  The
\* backfill: two frames, windows of two ends, two runs.  The audit: two frames, three bars.
\* The backtests: two tasks, seven requests, five bars.
SPECIFICATION OperationsSpec
CONSTANTS
    Procs = {p1, p2}
    MaxTime = 4
    Closed = {2}
    Leaving = {1}
    Returning = {4}
    ClosureSpans = {3}
    Break = {}
    BreakSpan = 0
    Lookback = 1
    MaxBatch = 2
    Cap = 2
    RetryCap = 1
    MaxAttempts = 2
    Cooldown = 1
    WeekendReopen = 2
    MaxFaults = 1
    Frames <- MCFrames
    Offers <- MCOffers
    Shut = {}
    LastBar = 3
    Windows <- MCWindows
    PageSize = 2
    MaxRequests = 4
    Ceiling = 5
    Reserve = 1
    RecheckEvery = 2
    MaxFills = 2
    MaxOthers = 1
    AuditFrames <- MCAuditFrames
    Analysed = "15m"
    LastAuditBar = 2
    AuditWindow <- MCAuditWindow
    Warmup = 2
    Messages = {m1, m2}
    Series <- MCSeries
    Stock <- MCStock
    Requests <- MCRequests
    HistoryStart = 1
    OosStart = 2
    OosEnd = 3
    ObservationStart = 3
    MaxBreaks = 1
SYMMETRY MCSymmetry
INVARIANTS OvershootBounded NoSilentHole FilledIsWhole CreditsRespected ManifestIsTrue
    ReplyMatchesRow ResearchIsIsolated
PROPERTY CompletedRunsStand
CHECK_DEADLOCK FALSE
