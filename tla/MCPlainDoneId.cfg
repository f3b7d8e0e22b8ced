SPECIFICATION Spec
CONSTANTS
  noOfRouters = 3
  noOfHops = 2
  Host <- MCOneHost
  MaxPings = 1
  RcvBuf = 2
  MaxFaults = 0
INVARIANTS
  DoneCarriesGivenId
CHECK_DEADLOCK FALSE
