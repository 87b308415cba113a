\* Elections, crashes and the persistence barrier, fixed configuration.
\* The run ends when the terms are used up, so deadlock is not checked.
SPECIFICATION Spec
CONSTANTS
    s1 = s1
    s2 = s2
    s3 = s3
    c1 = c1
    c2 = c2
    Server = {s1, s2, s3}
    Nil = Nil
    Command = {}
    InitialMembership <- AllVoters
    MaxTerm = 2
    MaxIndex = 2
    Compactor = {}
    Target = {}
    MaxInFlight = 2
    MaxSequence = 1
    MaxCrashes = 1
SYMMETRY Symmetry
INVARIANTS
    TypeOK
    ElectionSafety
    VotesAreDurable
PROPERTIES
    DurableProgress
CHECK_DEADLOCK FALSE
