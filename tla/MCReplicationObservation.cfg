\* A batch boundary between a HEARTBEAT and its observation: the observation is
\* acknowledged and released although the Primary has passed over it.
SPECIFICATION Spec
CONSTANTS
  s1 = s1
  Sessions <- MCSessions
  NoSession = NoSession
  HotEvents <- MCHotEvents
  AgentRecords <- MCAgentRecords
  Unclassified = {}
  BatchRecords = 1
  MaxSpoolId = 4
  BatchSize = 2
  MaxFaults = 0
PROPERTIES
  ObservationKept
CHECK_DEADLOCK FALSE
