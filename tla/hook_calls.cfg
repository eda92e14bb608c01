SPECIFICATION FairSpec
CONSTANTS
    f1 = f1
    f2 = f2
    s1 = s1
    s2 = s2
    Fiber = {f1, f2}
    Sock = {s1, s2}
    Accepted <- MCAccepted
    Fd = {0, 1}
    TableSize = 2
    None = None
    Parallel = FALSE
    Reuse = FALSE
    Cancels = {"READ", "WRITE"}
    FIONBIOArgs = {TRUE}
    MaxCalls = 4
    MaxArrivals = 1
CHECK_DEADLOCK FALSE
INVARIANTS ContextsTrue ConnectMeansConnected WaitsOwn
PROPERTIES TimedCallsEnd CloseEndsCalls
