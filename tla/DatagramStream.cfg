CONSTANTS
  MAX_DATAGRAM = 2
  Byte <- MCByte
  Message <- MCMessage
  MaxReliable <- MCStreamReliable
  MaxUnreliable <- MCStreamUnreliable
SPECIFICATION Spec
INVARIANTS TypeOK  CanSendMeansDelivered UnreliableInOrder DroppedAreCounted
PROPERTIES AckMeansTaken ImplementsReliableChannel
CHECK_DEADLOCK FALSE
