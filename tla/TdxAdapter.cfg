\* Pushes of two stocks, with five prices and ten levels each, a channel of one
\* place and two packets in flight.
CONSTANTS
  Symbols = {sh}
  QueueCap = 1
  MaxNet = 2
  MaxBatch = 2
  RecordLen = 110
SPECIFICATION Spec
INVARIANTS TypeOK StateIsOfThisStream
PROPERTIES CutStreamIsLeft StopEndsRun EndsForAReason
