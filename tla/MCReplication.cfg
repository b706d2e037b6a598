\* The whole pipeline, one record per TelemetryBatch, one fault, an event that
\* the Primary rejects.
SPECIFICATION Spec
CONSTANTS
  s1 = s1
  Sessions <- MCSessions
  NoSession = NoSession
  HotEvents <- MCHotEvents
  AgentRecords <- MCLongerSession
  Unclassified <- MCUnclassified
  BatchRecords = 1
  MaxSpoolId = 4
  BatchSize = 2
  MaxFaults = 1
INVARIANTS
  TypeOK NoSilentLoss StoredHasRow CommittedIsReplicated SpoolIdsAdvance
  ObservationHasEvent AckIsExpected
PROPERTIES
  AckThroughGrows PersistentObservationKept ImplementsCustody
\* The Agents fall silent when the spool bound is used up and the backlog drained.
CHECK_DEADLOCK FALSE
