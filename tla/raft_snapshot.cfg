\* Compaction, snapshot transfer to a lagging learner, crashes and restarts.
\* The run ends when the log is full, so deadlock is not checked.
SPECIFICATION Spec
CONSTANTS
    s1 = s1
    s2 = s2
    s3 = s3
    c1 = c1
    c2 = c2
    Server = {s1, s2}
    Nil = Nil
    Command = {c1, c2}
    InitialMembership <- SoleVoter
    MaxTerm = 2
    MaxIndex = 3
    Compactor = {s1}
    Target = {}
    MaxInFlight = 2
    MaxSequence = 3
    MaxCrashes = 1
SYMMETRY CommandSymmetry
INVARIANTS
    LogsAreBounded
    StateMachineSafety
    ApplyOrder
    DurableStateIsValid
    RecoveryIsExact
PROPERTIES
    ImplementsReplicatedLog
CHECK_DEADLOCK FALSE
