\* A follower that compacts before its leader hears of it.
SPECIFICATION Spec
CONSTANTS
    s1 = s1
    s2 = s2
    s3 = s3
    c1 = c1
    c2 = c2
    Server = {s1, s2}
    Nil = Nil
    Command = {c1}
    InitialMembership <- SoleVoter
    MaxTerm = 1
    MaxIndex = 3
    Compactor = {s2}
    Target = {}
    MaxInFlight = 2
    MaxSequence = 3
    MaxCrashes = 0
INVARIANTS
    RejectionsMakeProgress
CHECK_DEADLOCK FALSE
