CONSTANTS
    Pid = {p1, p2}
    Client = {c1, c2}
    NoFile = NoFile
    Empty = Empty
    Env <- Shared
SPECIFICATION Spec
PROPERTIES
    EveryCommandEnds
CHECK_DEADLOCK FALSE
