\* What the Primary took in and did not persist is declared lost with a hole.
SPECIFICATION Spec
CONSTANTS
  s1 = s1
  Sessions <- MCSessions
  NoSession = NoSession
  HotEvents <- MCHotEvents
  AgentRecords <- MCAgentRecords
  ReplicatedRecords <- MCReplicatedRecords
  BatchRecords = 2
  QueueSize = 2
  Grace = 2
  MaxTime = 3
PROPERTY ReceivedAreNotLost
