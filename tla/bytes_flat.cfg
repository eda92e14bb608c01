SPECIFICATION Spec
CONSTANTS
    BaseSize = 2
    Group = 2
    Wide = 2
    Width = 5
    Lengths = {0, 1, 3}
    Text <- Texts
    Number = {6, 16}
    Garbage = {1, 7}
    MaxSize = 5
    MaxCalls = 4
CHECK_DEADLOCK FALSE
INVARIANTS ListRight ReadsRight
PROPERTY FlatSpec
