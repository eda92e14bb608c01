SPECIFICATION Spec
CONSTANTS
    t1 = t1
    t2 = t2
    l1 = l1
    l2 = l2
    c1 = c1
    c2 = c2
    None = None
    Timer = {t1}
    Looper = {l1, l2}
    Client = {c1}
    Period = {1}
    Ceiling = 1
    Hour = 1
    Back = {2}
    MaxTime = 1
    MaxBacks = 1
    MaxCalls = 2
PROPERTIES FiresOnce DueFires
