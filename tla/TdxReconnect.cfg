\* One connection that is cut after its login is enough.
CONSTANTS
  Symbols = {sh}
  QueueCap = 1
  MaxNet = 2
  MaxBatch = 2
  RecordLen = 110
SPECIFICATION Spec
PROPERTY ReconnectsAfterPause
