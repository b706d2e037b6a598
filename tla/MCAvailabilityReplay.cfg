\* A late replay between the recompute and the delete of its bucket.
SPECIFICATION Spec
CONSTANTS
  c1 = c1
  Collectors <- MCCollectors
  Primary = Primary
  Size = 2
  MinObservers = 1
  Limit = 2
  BoundAt = 5
  MaxTime = 8
  Facts <- MCLateFact
  Lingers = 1
  MaxFaults = 1
INVARIANT
  LateReplayIsRecomputed
