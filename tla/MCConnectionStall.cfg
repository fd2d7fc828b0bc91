\* A closed connection whose peer does not read is never let go.
SPECIFICATION ConnectionFairSpec
CONSTANTS
  MaxPackets = 1
  MaxMessages = 1
PROPERTY ClosedLetsGo
CHECK_DEADLOCK FALSE
