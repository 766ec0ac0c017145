SPECIFICATION FairSpec
CONSTANTS
    Callers = {c1, c2, c3, c4}
    Threshold = 3
    OpenFor = 3
INVARIANTS
    ClosedBelowThreshold
    HalfOpenHasProbe
    OneProbePerWindow
PROPERTY ClosesAfterRecovery
