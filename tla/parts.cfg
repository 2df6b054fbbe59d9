SPECIFICATION PartsSpec
CONSTANTS
    None = None
    Quotes <- MCQuotes
    Decisions <- MCDecisions
    StaleAfter = 0
    Skew = 1
    MaxAttempts = 1
    MaxClock = 2
    MaxEvents = 2
    MaxTroubles = 2
    Missing = Missing
    Evidences <- MCEvidences
    Weights <- MCWeights
    Thresholds <- MCThresholds
    Criticality <- MCCriticality
    Absent = Absent
    Policy <- MCPolicy
    Setups <- MCSetups
    Tapes <- MCTapes
    RunEnds <- MCRunEnds
    Configs <- MCConfigs
    BarLen = 4
    FiveLen = 2
    Spread = 1
    FillWait = 4
    HorizonBars = 2
    MaxTrades = 2
    Ambiguity = "LOWER_TIMEFRAME_REPLAY"
    Unset = Unset
    First = 1
    Final = 3
    LastDay = 6
    Families <- MCFamilies
    LegacyRows <- MCLegacyRows
    Refusing <- MCRefusing
    Replays <- MCReplays
    Baselines <- MCBaselines
    ValFolds <- MCFolds
    EffectiveN <- MCEffectiveN
    MinSide = 4
    MinBoth = 8
    MinPositive = 2
    MinStability = 50
    MaxShare = 60
    MaxDrawdown = 100
    Deterioration = 10
    Pool = 2
    Governed = 1
    Policies <- MCPolicies
    Codes <- MCCodes
    MaxRows = 1
    MaxChanges = 2
    NoFile = NoFile
    HalfWritten = HalfWritten
INVARIANTS
    ZoneAgrees
    IncidentAlertedOnce
    ZoneAlertIsBacked
    ConvergesWhenQuiet
    NoSideIsFavoured
    FutureIsInvisible
    PlanIsTradeable
    NeverOptimistic
    LabelsOwnTheirPast
    NoLookahead
    CoveredIsForeseen
    RerunHeals
    SidesAreCountedAlike
    CompositeFallsShortOfBaseline
    ResumeIsFaithful
PROPERTIES
    Resubscribes
    ToldStays
    LedgerKeeps
CHECK_DEADLOCK FALSE
