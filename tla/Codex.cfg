SPECIFICATION Spec
CONSTANTS
    Msgs = {m1,m2}
    Conns = {c1, c2}
    NoMsg = NoMsg
    NoConn = NoConn
    MaxTurns = 2
    MaxRetires = 1
    MaxEntries = 1
    MaxWatches = 2
    MaxRetries = 1
    MaxChunk = 3
    MaxFaults = 1
    MaxCrashes = 1
    MaxWriteFailures = 1
    MaxEvents = 3
\* Any three of the events together.
CONSTRAINT FewEvents
SYMMETRY Symmetry
INVARIANTS RunsMatchReceipts InOrder ConnectionsOwned NeverStuckBusy
