\* An ACK between the two halves of EnforceSpoolPolicy: rows the Primary has are
\* declared lost.
SPECIFICATION Spec
CONSTANTS
  s1 = s1
  Sessions <- MCSessions
  NoSession = NoSession
  HotEvents <- MCHotEvents
  AgentRecords <- MCAgentRecords
  Unclassified = {}
  BatchRecords = 1
  MaxSpoolId = 4
  BatchSize = 2
  MaxFaults = 0
PROPERTIES
  LossIsUnsynced
CHECK_DEADLOCK FALSE
