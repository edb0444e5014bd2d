\* Two overlapping starts, or none and a process stopped at every call.
CONSTANTS
    Pid = {p1, p2, p3}
    MaxVersion = 2
    MaxCrash = 2
    MaxOverlap = 2
SPECIFICATION FairSpec
INVARIANTS OneServes ServerReachable
PROPERTY Renewed
