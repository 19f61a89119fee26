CONSTANTS
    Me = Me
    a = a
    b = b
    c = c
    Node = {Me, a, b, c}
    RAFT_MAX_NODES = 4
    RAFT_MAX_LOG_ENTRIES = 2
    MaxTerm = 2
SPECIFICATION Spec
SYMMETRY Symmetry
INVARIANT MembershipTypeOK
INVARIANT SizeCountsMembers
PROPERTY CommitsOnReceivedAcks
