CONSTANTS
    n1 = n1
    n2 = n2
    Server = {n1, n2}
    Nobody = Nobody
    RAFT_MAX_LOG_ENTRIES = 1
    Duplicates = FALSE
    Lossy = TRUE
    MaxTerm = 2
    MaxInFlight = 3
    MaxRestarts = 0
    HB_INTERVAL = 3
    ELECTION_TIMEOUT_BASE = 7
    ELECTION_TIMEOUT_JITTER = 2
    LoopPeriod = 2
    MaxDelay = 2
SPECIFICATION TimedSpec
SYMMETRY Symmetry
INVARIANT TimedTypeOK
INVARIANT TimersAreServed
INVARIANT HeartbeatsHoldTimers
PROPERTY SettledLeaderStays
