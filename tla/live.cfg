CONSTANTS
    n1 = n1
    n2 = n2
    n3 = n3
    Server = {n1, n2, n3}
    Nobody = Nobody
    RAFT_MAX_LOG_ENTRIES = 1
    Duplicates = FALSE
    Lossy = FALSE
    MaxTerm = 2
    MaxInFlight = 3
    MaxRestarts = 0
SPECIFICATION FairSpec
PROPERTY ElectionCompletes
PROPERTY LeaderBecomesKnown
INVARIANT VotesWereCast
INVARIANT CandidateLacksMajority
PROPERTY LeaderYieldsForCause
INVARIANT CommitsAreBacked
INVARIANT SecondVoteNeedsLeader
