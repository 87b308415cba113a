\* Joint consensus among three voters: all but one are demoted.
\* The run ends when the log is full, so deadlock is not checked.
SPECIFICATION Spec
CONSTANTS
    s1 = s1
    s2 = s2
    s3 = s3
    c1 = c1
    c2 = c2
    Server = {s1, s2, s3}
    Nil = Nil
    Command = {}
    InitialMembership <- AllVoters
    MaxTerm = 2
    MaxIndex = 3
    Compactor = {}
    Target <- Shrink
    MaxInFlight = 1
    MaxSequence = 3
    MaxCrashes = 0
SYMMETRY SymmetryButFirst
INVARIANTS
    ElectionSafety
    LeaderCompleteness
    DurableStateIsValid
    MembershipIsCurrent
    OneChangeAtATime
CHECK_DEADLOCK FALSE
