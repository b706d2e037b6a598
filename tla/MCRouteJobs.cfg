\* Two jobs, a route that comes due and a fault.
SPECIFICATION FairSpec
CONSTANTS
  k1 = k1
  k2 = k2
  a1 = a1
  None = None
  Keys <- MCKeys
  Admins <- MCAdmins
  CachedTargets <- MCCached
  QueueCap = 1
  SampleCap = 1
  TTL = 0
  MaxTime = 1
  MaxJobs = 2
  MaxScheduled = 1
  StreamCap = 2
  MaxDisturbances = 1
INVARIANTS
  TypeOK OneTracePerKey
PROPERTIES
  SettlesOnce JobsSettle
