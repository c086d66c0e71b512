\* One unary call beside a stream, with everything that can go wrong but a stream
\* nobody reads.
SPECIFICATION FairSpec
CONSTANTS
  u1 = u1  s1 = s1
  Unary <- OneUnary
  Streams <- OneStream
  REPLY_QUEUE_DEPTH = 1
  SocketBuffer = 2
  MaxItems = 2
  Faults = {"close", "half", "garbled", "refuse", "drop"}
PROPERTIES OnlyLateFramesDropped UnaryReturns StreamCloses
CHECK_DEADLOCK FALSE
