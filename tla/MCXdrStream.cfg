SPECIFICATION Spec
CONSTANTS
  Messages <- TestMessages
  Understood <- TestUnderstood
  Base = 4
  BUFLEN = 8
  MaxSends = 3
  MaxCalls = 2
  MaxFaults = 2
PROPERTIES
  ImplementsMessageQueue
  EveryMessageArrives
CHECK_DEADLOCK FALSE
