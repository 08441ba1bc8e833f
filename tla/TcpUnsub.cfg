\* SUB and UNSUB of one symbol, then a quote of it, are enough.
CONSTANTS
  Symbols = {sh}
  BroadcastCap = 2
  SocketCap = 2
  MaxFeed = 1
  MaxRequests = 2
SPECIFICATION Spec
INVARIANT UnsubMeansSilence
CHECK_DEADLOCK FALSE
