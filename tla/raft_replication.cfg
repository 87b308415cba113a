\* Log replication and commitment across three terms, fixed configuration.
\* The run ends when the terms are used up, so deadlock is not checked.
SPECIFICATION Spec
CONSTANTS
    s1 = s1
    s2 = s2
    s3 = s3
    c1 = c1
    c2 = c2
    Server = {s1, s2, s3}
    Nil = Nil
    Command = {}
    InitialMembership <- AllVoters
    MaxTerm = 3
    MaxIndex = 3
    Compactor = {}
    Target = {}
    MaxInFlight = 1
    MaxSequence = 1
    MaxCrashes = 1
SYMMETRY Symmetry
INVARIANTS
    LogMatching
    MatchIsDurable
    CommitIsDurable
    LeaderCompleteness
CHECK_DEADLOCK FALSE
