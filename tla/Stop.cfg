CONSTANTS
    Stops = {"a", "b"}
    Children = {"child"}
    Overlap = FALSE
    TermGrace = 1
    KillGrace = 1
    OrphanGrace = 2
    MaxTime = 4
    MaxCrashes = 1
SPECIFICATION FairSpec
INVARIANT FailuresTold
PROPERTY EndShown
\* Time is bounded.
CHECK_DEADLOCK FALSE
