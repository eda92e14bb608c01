CONSTANTS
    w1 = w1
    w2 = w2
    t1 = t1
    k = k
    b = b
    pat0 = pat0
    pat1 = pat1
    pat2 = pat2
    broken = broken
    Var <- TwoKeys
    Default <- Start
    Cb = {1}
    Listening <- LogsOnly
    Docs <- Documents
    BadSegment = {"Tcp"}
    Bad = b
    Writer = {w1}
    MaxLoads = 3
    Name = {1, 2}
    Root = 1
    Logs <- LogsKey
    Pattern0 = pat0
    NoPattern = k
    BadPattern = {broken}
    Thread = {t1}
    Level = {1, 2}
    UserPattern = {pat2}
SPECIFICATION Spec
INVARIANT LoadsSettle
PROPERTY MessagesObey
CHECK_DEADLOCK FALSE
