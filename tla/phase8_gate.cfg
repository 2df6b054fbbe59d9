\* The continuity gate: a window of two slots inside three, the third slot is closed; two
\* observing processes and the watchdog, which may run across a slot.  The cycle snapshot:
\* two workers and two closes, four artifacts of which one replaces another, three schedule
\* vintages, and one failure or kill.
SPECIFICATION GatesSpec
CONSTANTS
    MaxTime = 3
    Closed = {3}
    WindowLength = 2
    Grace = 1
    MaxStale = 1
    Variants = {v1}
    Tasks = {w1, w2}
    TaskLimit = 1
    MaxKills = 0
    MaxCount = 1
    Null = Null
    Closes <- MCCloses
    Clock <- MCClock
    Regime <- MCRegime
    SwingsFound <- MCSwings
    Artifacts <- MCArtifacts
    Vintages <- MCVintages
    Deciders = {w1, w2}
    DefaultWindow = 30
    CoverageSpan = 310
    BarMinutes = 15
    EnoughSwings = 4
    MaxFaults = 1
    MaxReleases = 1
    Unset = Unset
SYMMETRY MCGateSymmetry
INVARIANTS CompleteIsConsistent CountsAreBacked PointsAreAuthorised NoTradeOnOldEvidence
CHECK_DEADLOCK FALSE
