\* One quote whose Redis write fails, or that finds no Redis since the start, is
\* enough.
CONSTANTS
  Sources = {Tdx}
  Symbols = {sh}
  Times = {1}
  Values = {1}
  BroadcastCap = 1
  Keep = 1
  MaxFeed = 1
  MaxCrashes = 0
SPECIFICATION Spec
PROPERTY SnapshotCatchesUp
CHECK_DEADLOCK FALSE
