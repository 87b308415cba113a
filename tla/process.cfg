SPECIFICATION FairSpec
CONSTANTS
  Keys = {"k"}
  Values = {"v"}
  MaxCommands = 3
  MaxState = 1
  Commands <- MCCommands
  MaxInputs = 3
  MaxFaults = 2
  MaxTimeouts = 1
INVARIANTS
  OnlyRequestsFail
  ApplicationIsRecoverable
PROPERTIES
  NoStaleTimeout
  MailboxDrains
CHECK_DEADLOCK FALSE
