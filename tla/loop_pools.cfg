SPECIFICATION Spec
CONSTANTS
    w1 = w1
    w2 = w2
    owner = owner
    Owner = owner
    Thread = {w1, w2}
    PipeCap = 8
    Kinds = {"later"}
    Pools <- OneAndTwo
    MaxEvents = 1
INVARIANT LoopSound
PROPERTIES StopReturns WorkRuns
