SPECIFICATION ReplaySpec
CONSTANTS
    Absent = Absent
    Policy <- MCPolicy
    Setups <- MCSetups
    Tapes <- MCTapes
    RunEnds <- MCRunEnds
    Configs <- MCConfigs
    BarLen = 4
    FiveLen = 2
    Spread = 1
    FillWait = 4
    HorizonBars = 2
    MaxTrades = 2
    Ambiguity = "LOWER_TIMEFRAME_REPLAY"
INVARIANTS
    AmbiguityIsReplayed
CHECK_DEADLOCK FALSE
