\* Two turns within a minute, or one turn and the minutes after it.
CONSTANTS
    Budgets <- MCBudgets
    Timeout = 2
SPECIFICATION FairSpec
INVARIANT ShownRight
PROPERTIES TurnNotDropped RunningSpared IdleReaped
\* Turns, tools and ends are bounded: it stops when they are used up.
CHECK_DEADLOCK FALSE
