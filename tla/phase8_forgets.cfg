\* A window of two slots inside four, the third slot closed; two observing processes
\* and the watchdog, and nothing is killed.
SPECIFICATION GateSpec
CONSTANTS
    MaxTime = 4
    Closed = {3}
    WindowLength = 2
    Grace = 1
    MaxStale = 1
    Variants = {v1}
    Tasks = {t1, t2}
    TaskLimit = 0
    MaxKills = 0
    MaxCount = 1
    Null = Null
SYMMETRY MCGateSymmetry
INVARIANTS FailureForbidsComplete
CHECK_DEADLOCK FALSE
