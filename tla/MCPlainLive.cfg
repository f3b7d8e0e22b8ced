SPECIFICATION Spec
CONSTANTS
  noOfRouters = 3
  noOfHops = 3
  Host <- MCOneHost
  MaxPings = 2
  RcvBuf = 2
  MaxFaults = 0
PROPERTIES
  ImplementsService
CHECK_DEADLOCK FALSE
