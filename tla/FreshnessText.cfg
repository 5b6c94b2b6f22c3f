SPECIFICATION Spec
CONSTANTS
    Jobs = {j1, j2}
    MaxTime = 5
    MaxRuns = 2
    Radix = 3
SYMMETRY AnyJob
PROPERTY EditsStaleStoredRuns
CHECK_DEADLOCK FALSE
