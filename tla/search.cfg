SPECIFICATION Spec
CONSTANTS
  States = 4
  Crashes = 2
  Scenario <- MCScenario
  Programs <- MCPrograms
  Streams <- MCStreams
  BoundSets <- MCBounds
INVARIANTS
  CacheIsTransparent
  CandidatesReplay
  PublishedIsWhole
PROPERTIES
  StagesEndOneMinimal
