SPECIFICATION Spec
CONSTANTS
    Jobs = {j1, j2}
    MaxTime = 5
    MaxRuns = 2
    Radix = 10
SYMMETRY AnyJob
INVARIANT StaleLatestRunIsMarked
CHECK_DEADLOCK FALSE
