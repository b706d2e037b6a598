\* TelemetryBatches of two records; after the last fault the backlog drains.
SPECIFICATION FairSpec
CONSTANTS
  s1 = s1
  Sessions <- MCSessions
  NoSession = NoSession
  HotEvents <- MCHotEvents
  AgentRecords <- MCAgentRecords
  Unclassified = {}
  BatchRecords = 2
  MaxSpoolId = 3
  BatchSize = 2
  MaxFaults = 1
INVARIANTS
  NoSilentLoss
PROPERTIES
  BacklogDrains
\* The Agents fall silent when the spool bound is used up and the backlog drained.
CHECK_DEADLOCK FALSE
