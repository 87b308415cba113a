\* Deposed leaders, refused candidates and a crash: does an event always remain?
SPECIFICATION Spec
CONSTANTS
    s1 = s1
    s2 = s2
    s3 = s3
    c1 = c1
    c2 = c2
    Server = {s1, s2, s3}
    Nil = Nil
    Command = {}
    InitialMembership <- AllVoters
    MaxTerm = 3
    MaxIndex = 2
    Compactor = {}
    Target = {}
    MaxInFlight = 1
    MaxSequence = 1
    MaxCrashes = 1
SYMMETRY Symmetry
INVARIANTS
    MajorityNeverStalls
CHECK_DEADLOCK FALSE
