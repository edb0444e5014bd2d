SPECIFICATION FairSpec
CONSTANTS
    r1 = r1
    r2 = r2
    b1 = b1
    b2 = b2
    phone = phone
    tablet = tablet
    NoBroker = NoBroker
    NoDevice = NoDevice
    Requests <- MCTwoRequests
    EditRequests <- MCOneRequest
    Brokers <- MCTwoBrokers
    DeviceOf <- MCTwoDevices
    Modes <- MCMixed
    MaxConnections = 1
    OneAtATime = FALSE
    Bounds <- MCBounds
INVARIANTS GateSound SocketReachable
PROPERTIES ListenerKept
    Served
CHECK_DEADLOCK FALSE
