SPECIFICATION Spec
CONSTANTS
    m1 = m1
    m2 = m2
    q1 = q1
    q2 = q2
    n1 = n1
    NoMsg = NoMsg
    NoQuestion = NoQuestion
    Msgs <- MCTwoMsgs
    TuiQuestions <- MCNone
    NativeQuestions <- MCNone
    AsyncQuestions <- MCNone
    MaxGenerations = 2
    MaxRerecords = 1
    MaxUnannounced = 0
    MaxCrashes = 1
    MaxWriteFailures = 1
    MaxRetries = 1
    MaxSendNow = 0
    RecheckAttempts = 0
\* Any three of the troubles together.
CONSTRAINT FewTroubles
SYMMETRY MCSymmetry
INVARIANTS
    AtMostOnce
    QueueMatchesMaps
    QueueOrdered
    Durable
PROPERTIES
    ErasedNeverTyped
    RestoredBelongs
    LifeKept
