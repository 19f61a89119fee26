CONSTANTS
    n1 = n1
    n2 = n2
    n3 = n3
    Server = {n1, n2, n3}
    Nobody = Nobody
    RAFT_MAX_LOG_ENTRIES = 1
    Duplicates = FALSE
    Lossy = FALSE
    MaxTerm = 1
    MaxInFlight = 3
    MaxRestarts = 0
SPECIFICATION FairSpec
PROPERTY EntryIsCopied
