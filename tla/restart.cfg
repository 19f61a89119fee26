CONSTANTS
    n1 = n1
    n2 = n2
    n3 = n3
    Server = {n1, n2, n3}
    Nobody = Nobody
    RAFT_MAX_LOG_ENTRIES = 1
    Duplicates = TRUE
    Lossy = TRUE
    MaxTerm = 1
    MaxInFlight = 2
    MaxRestarts = 1
SPECIFICATION CrashSpec
SYMMETRY Symmetry
INVARIANT TypeOK
INVARIANT LogWellFormed
INVARIANT LeadersHaveSupport
INVARIANT AppliedIsPrefix
INVARIANT LeadersWereElected
PROPERTY KeepsLocalJournals
PROPERTY TickAppliesAll
PROPERTY NeverBack
