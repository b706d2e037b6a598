\* The engine: late evidence, a failed transaction or a restart, the end of the
\* binding; the queue drains and no open incident outlives its cause.
SPECIFICATION Spec
CONSTANTS
  c1 = c1
  Collectors <- MCCollectors
  Primary = Primary
  Size = 2
  MinObservers = 1
  Limit = 2
  BoundAt = 5
  MaxTime = 8
  Facts <- MCFacts
  Lingers = 0
  MaxFaults = 1
INVARIANTS
  TypeOK RowsSettle RevisionsAreComplete OneIncidentPerStart IncidentsEndAfterStart
PROPERTIES
  QueueDrains Recovers
