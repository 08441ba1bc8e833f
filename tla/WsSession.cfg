\* An answer larger than the direct channel, a ring and a socket of one message.
CONSTANTS
  BroadcastCap = 1
  DirectCap = 1
  SocketCap = 1
  MaxBars = 2
  MaxFeed = 2
  MaxRequests = 2
SPECIFICATION Spec
INVARIANTS TypeOK AnswersGapless QuotesAccounted
PROPERTIES AnswersArrive ReceiverFreed
CHECK_DEADLOCK FALSE
