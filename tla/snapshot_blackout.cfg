\* One close decided by two workers, with the artifact of a champion that has no cycle profile.
SPECIFICATION SnapshotSpec
CONSTANTS
    Closes <- MCCloses
    Clock <- MCClock
    Regime <- MCRegime
    SwingsFound <- MCSwings
    Artifacts <- MCChampions
    Vintages <- MCVintages
    Deciders = {d1, d2}
    DefaultWindow = 30
    CoverageSpan = 310
    BarMinutes = 15
    EnoughSwings = 4
    MaxFaults = 1
    MaxReleases = 1
    Unset = Unset
SYMMETRY MCDeciderSymmetry
INVARIANT BlackoutSurvivesRetry
CHECK_DEADLOCK FALSE
