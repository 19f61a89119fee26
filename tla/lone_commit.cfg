CONSTANTS
    n1 = n1
    n2 = n2
    n3 = n3
    Server = {n1, n2, n3}
    Nobody = Nobody
    RAFT_MAX_LOG_ENTRIES = 1
    Duplicates = FALSE
    Lossy = TRUE
    MaxTerm = 1
    MaxInFlight = 2
    MaxRestarts = 0
SPECIFICATION Spec
SYMMETRY Symmetry
INVARIANT CommittedIsReplicated
