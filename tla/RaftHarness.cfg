\* Two servers, each started twice, and one request between them.
\* The program ends after cleanup.
CHECK_DEADLOCK FALSE
SPECIFICATION HarnessSpec
CONSTANTS
  N = 2
  MaxStarts = 2
  MaxPersisters = 5
  Modes = {TRUE, FALSE}
  Call = {c1}
  ServerName <- MCServerName
  Instance <- MCInstance
  End <- MCEnd
  nil = nil
INVARIANTS
  AcknowledgedIsSaved
  OldInstanceIsolated
  EnabledIsConnected
