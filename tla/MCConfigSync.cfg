\* Changes of every kind against the Sync stream, with one fault.
SPECIFICATION FairSpec
CONSTANTS
  s1 = s1
  s2 = s2
  n1 = n1
  n2 = n2
  t1 = t1
  t2 = t2
  Servers <- MCServers
  Nodes <- MCNodes
  Tags <- MCTags
  Scopes <- MCScopes
  NoNode = NoNode
  NoTag = NoTag
  MaxChanges = 3
  MaxFaults = 1
INVARIANTS
  TypeOK EqualVersionsAgree ScopesAreApplied AssignedNodesAreBound
PROPERTIES
  CacheAdvances ConfigArrives
\* A Collector that is deleted, or whose certificate expired while it was revoked,
\* has nothing left to do.
CHECK_DEADLOCK FALSE
