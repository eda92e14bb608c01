SPECIFICATION Spec
CONSTANTS
    t1 = t1
    t2 = t2
    l1 = l1
    l2 = l2
    c1 = c1
    c2 = c2
    None = None
    Timer = {t1, t2}
    Looper = {l1, l2}
    Client = {c1, c2}
    Period = {1, 2}
    Ceiling = 2
    Hour = 5
    Back = {}
    MaxTime = 2
    MaxBacks = 1
    MaxCalls = 3
INVARIANTS FrontCovered TimersSound
PROPERTIES NotEarly FiresOnce
SYMMETRY Symmetry
