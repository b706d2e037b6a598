\* The direct path: holes, the grace period and the replicated rows.
SPECIFICATION Spec
CONSTANTS
  s1 = s1
  Sessions <- MCSessions
  NoSession = NoSession
  HotEvents <- MCHotEvents
  AgentRecords <- MCAgentRecords
  ReplicatedRecords <- MCReplicatedRecords
  BatchRecords = 2
  QueueSize = 2
  Grace = 2
  MaxTime = 3
INVARIANTS
  TypeOK AckIsAccounted HoleIsNext
PROPERTIES
  AckGrows HolePatience RowsAreNotLost
