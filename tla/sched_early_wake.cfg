SPECIFICATION Spec
CONSTANTS
    w1 = w1
    w2 = w2
    j1 = j1
    j2 = j2
    caller = caller
    None = None
    Caller = caller
    Worker = {w1, w2}
    UseCaller = FALSE
    Job = {j1}
    EarlyWake = TRUE
    Reschedule = FALSE
    CrossPin = FALSE
    MaxYield = 2
    MaxStarts = 1
    MaxStops = 1
INVARIANTS SwapInAssertion
