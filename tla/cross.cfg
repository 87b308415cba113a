SPECIFICATION Spec
CONSTANTS
  Members <- MCMembers
  ReferenceIDs = {"log", "leader"}
  EtcdIDs = {"log"}
  Publishers = {"ours", "rival"}
  DataFiles <- MCDataFiles
  Sources <- MCSources
INVARIANTS
  CommittedVerifies
  EvidenceIsFaithful
  CausalDispositions
