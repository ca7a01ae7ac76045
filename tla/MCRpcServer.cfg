SPECIFICATION Spec
CONSTANTS
  Versions = {"v1", "v2"}
  Confs <- TestConfs
  MaxRequests = 3
  MaxConns = 2
  MaxFaults = 2
INVARIANTS
  RequestSettled
  ServesWhatIsRegistered
PROPERTIES
  ClosesOnlyWhenIdle
  IdleServerExits
CHECK_DEADLOCK FALSE
