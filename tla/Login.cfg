CONSTANTS
    Requests = {"p"}
    Others = {"b", "c"}
    MaxLogin = 3
    MaxTries = 1
    MaxSleeps = 1
    MaxTrouble = 1
SPECIFICATION Spec
INVARIANTS LoginKept UsedOnce
\* The requests are answered.
CHECK_DEADLOCK FALSE
