SPECIFICATION Spec
CONSTANTS
  Nil = 0
  Server <- MCServer
  Initial <- MCInitial
  Entries <- MCEntries
  Electing <- MCElecting
  Starts <- MCStarts
  Steps = 4
  MaxTerm = 2
  MaxLog = 2
INVARIANTS
  AlarmsAreExact
  LeaderAlarmsAreJust
  ReportedOnce
CHECK_DEADLOCK FALSE
