CONSTANTS
    s1 = s1
    s2 = s2
    c1 = c1
    p1 = p1
    p2 = p2
    g1 = g1
    g2 = g2
    Socks = {s1, s2}
    Clients = {c1}
    MaxStarts = 1
    Parallel = TRUE
    Env = {}
    Paths = {p1, p2}
    Globs = {g1, g2}
    Matches <- Fits
    HeadLen = 2
    MaxBody = 2
    Limits <- ThreeLimits
    BufSize = 3
SPECIFICATION Spec
INVARIANTS ListenersTrue ServedByCurrent StreamAligned AnswersInOrder
PROPERTY ClientsServed
 
CHECK_DEADLOCK FALSE
