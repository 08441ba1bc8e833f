\* A client that leaves while nothing is broadcast and no answer is on its way.
CONSTANTS
  BroadcastCap = 1
  DirectCap = 1
  SocketCap = 1
  MaxBars = 1
  MaxFeed = 0
  MaxRequests = 1
SPECIFICATION Spec
PROPERTY LeavingEndsSession
CHECK_DEADLOCK FALSE
