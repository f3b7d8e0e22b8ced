SPECIFICATION Spec
CONSTANTS
  noOfRouters = 3
  noOfHops = 2
  Host <- MCOneHost
  MaxPings = 1
  RcvBuf = 2
  MaxFaults = 1
PROPERTIES
  FailureRecovery
CHECK_DEADLOCK FALSE
