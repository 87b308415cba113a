SPECIFICATION FairSpec
CONSTANTS
  n1 = n1
  n2 = n2
  Nodes = {n1, n2}
  Full = Full
  NoTime = NoTime
  MaxTime = 2
  MaxID = 7
  MaxPacket = 2
  MaxSequence = 6
  DefaultLink <- Steady
  Overrides <- OtherLinks
  Matrices <- Cuts
  Delays = {0, 1}
  Programs <- Drivers
INVARIANTS
  TypeOK
  PositionsAreOwn
  PacketsAreAccounted
  TraceIsFaithful
CHECK_DEADLOCK FALSE
PROPERTIES
  SimulatorIsOrdered
  PartitionCutsPackets
  PacketsResolve
