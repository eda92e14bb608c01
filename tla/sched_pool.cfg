SPECIFICATION Spec
CONSTANTS
    w1 = w1
    w2 = w2
    j1 = j1
    j2 = j2
    caller = caller
    None = None
    Caller = caller
    Worker = {w1, w2}
    UseCaller = FALSE
    Job = {j1, j2}
    EarlyWake = TRUE
    Reschedule = TRUE
    CrossPin = FALSE
    MaxYield = 1
    MaxStarts = 2
    MaxStops = 2
INVARIANTS CountersExact ExclusiveRun JobsSound
PROPERTIES StartsWherePinned StopDrains
SYMMETRY Symmetry
