\* A ring of one message and a socket of one part: lag occurs, and both tasks
\* wait for the client to read.
CONSTANTS
  Symbols = {sh, sz}
  BroadcastCap = 1
  SocketCap = 1
  MaxFeed = 2
  MaxRequests = 2
SPECIFICATION Spec
INVARIANTS TypeOK FramesWhole SilentAfterUnsub SubscribedGetsAll
PROPERTIES ImplementsClientStream CloseEndsSession PingAnswered
CHECK_DEADLOCK FALSE
