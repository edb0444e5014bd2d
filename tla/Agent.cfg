CONSTANTS
    Agents = {1, 2}
    Deep = {2}
    Grace = 1
    Tentative = 2
    Stale = 3
    MaxTime = 4
    MaxLines = 2
    LastWords = {"text"}
    Failing = {2}
    Partial = FALSE
SPECIFICATION Spec
INVARIANTS WorkingShown NothingStuck
\* The session may end.
CHECK_DEADLOCK FALSE
