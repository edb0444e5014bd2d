SPECIFICATION FairSpec
CONSTANTS
    m1 = m1
    m2 = m2
    q1 = q1
    q2 = q2
    n1 = n1
    NoMsg = NoMsg
    NoQuestion = NoQuestion
    Msgs <- MCOneMsg
    TuiQuestions <- MCOneQuestion
    NativeQuestions <- MCOneNative
    AsyncQuestions <- MCNone
    MaxGenerations = 1
    MaxRerecords = 0
    MaxUnannounced = 1
    MaxCrashes = 1
    MaxWriteFailures = 0
    MaxRetries = 0
    MaxSendNow = 1
    RecheckAttempts = 1
INVARIANT PaneSound
PROPERTIES PaneSteps QueueMoves
