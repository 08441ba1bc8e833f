\* One code in two markets; lines one field short of a quote and long enough;
\* a channel of one depth for answers of two.
CONSTANTS
  Codes = {c1}
  FieldCounts = {0, 20, 47, 48}
  QueueCap = 1
  MaxLines = 2
  MaxOverdue = 2
  MaxCalls = 2
SPECIFICATION Spec
INVARIANTS TypeOK DepthsAreOfCurrentList OpenTimesExact
PROPERTIES ListIsFetched StopEndsPolling
