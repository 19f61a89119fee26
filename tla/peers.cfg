CONSTANTS
    me = me
    a = a
    b = b
    x = x
    y = y
    NoNode = NoNode
    NoAddr = NoAddr
    Node <- MCNode
    Addr <- MCAddr
    Signals <- MCSignals
    COMM_MIN_RSSI <- MinRssi
    MAX_PEERS = 2
    NumberRange = 3
    MaxSent = 2
SPECIFICATION Spec
SYMMETRY Symmetry
INVARIANT PeerTypeOK
INVARIANT OneSlotPerNode
INVARIANT HealthFollowsMembers
PROPERTY ImplementsDirectory
