\* Without any fault a job is traced again.
SPECIFICATION Spec
CONSTANTS
  k1 = k1
  k2 = k2
  a1 = a1
  None = None
  Keys <- MCKeys
  Admins <- MCAdmins
  CachedTargets <- MCKeys
  QueueCap = 1
  SampleCap = 2
  TTL = 1
  MaxTime = 2
  MaxJobs = 2
  MaxScheduled = 0
  StreamCap = 2
  MaxDisturbances = 0
INVARIANTS
  RunsOnce
