\* Successive snapshots installed on a lagging learner, and a crash in between.
SPECIFICATION Spec
CONSTANTS
    s1 = s1
    s2 = s2
    s3 = s3
    c1 = c1
    c2 = c2
    Server = {s1, s2}
    Nil = Nil
    Command = {c1}
    InitialMembership <- SoleVoter
    MaxTerm = 1
    MaxIndex = 3
    Compactor = {s1}
    Target = {}
    MaxInFlight = 1
    MaxSequence = 3
    MaxCrashes = 1
INVARIANTS
    RecoverySucceeds
CHECK_DEADLOCK FALSE
