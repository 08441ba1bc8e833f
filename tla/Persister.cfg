\* A sorted set keeps one bar, the ring one message; the persister rests when
\* the bounded feed is used up.
CONSTANTS
  Sources = {Tdx}
  Symbols = {sh}
  Times = {1, 2}
  Values = {1}
  BroadcastCap = 1
  Keep = 1
  MaxFeed = 3
  MaxCrashes = 1
SPECIFICATION Spec
INVARIANTS TypeOK DatabaseComplete BarsAreNewest
PROPERTIES StoresNeverGoBack PersisterGoesOn
CHECK_DEADLOCK FALSE
