SPECIFICATION Spec
CONSTANTS
  BodyLen = 1
  MaxWire = 2
  MaxConns = 1
  MaxQueued = 1
  MaxReceived = 1
  Breaks = TRUE
PROPERTIES
  SendJoinReturns
