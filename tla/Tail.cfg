\* Three lines of any kind, each in three pieces (two of text, the line end), and
\* a reader that may meet the end of the file after any piece.
CONSTANTS
    Turns = {"prompt", "peer", "resumed", "later", "scheduled", "command", "companion",
             "queued", "interrupt", "answer", "limit", "fails"}
    Tools = {"skillCall", "skillBody", "pageCall", "page", "readCall", "denied", "ok"}
    Ids = {1, 2}
    Broken = {2}
    Floors = {0, 1}
    MaxLines = 3
    Pieces = 3
    MaxSkills = 1
    MaxAwaiting = 1
SPECIFICATION Spec
INVARIANTS RowsTrue NotesRight AttachedOnce
\* The file is bounded.
CHECK_DEADLOCK FALSE
