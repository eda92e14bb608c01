SPECIFICATION Spec
CONSTANTS
    f1 = f1
    f2 = f2
    f3 = f3
    l1 = l1
    l2 = l2
    None = None
    Fd = {2}
    Event = {"READ", "WRITE"}
    Fiber = {f1, f2, f3}
    Looper = {l1, l2}
    InitSize = 2
    Errors = TRUE
    CloseRace = FALSE
    MaxGen = 1
    MaxCalls = 5
    MaxWaits = 2
INVARIANTS EventsSound WaitersHeld AddAssertion
