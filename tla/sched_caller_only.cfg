SPECIFICATION FairSpec
CONSTANTS
    w1 = w1
    w2 = w2
    j1 = j1
    j2 = j2
    caller = caller
    None = None
    Caller = caller
    Worker = {}
    UseCaller = TRUE
    Job = {j1, j2}
    EarlyWake = TRUE
    Reschedule = TRUE
    CrossPin = FALSE
    MaxYield = 2
    MaxStarts = 1
    MaxStops = 1
PROPERTY StopReturns
