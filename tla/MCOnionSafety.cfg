SPECIFICATION Spec
CONSTANTS
  noOfRouters = 4
  noOfHops = 3
  Host <- MCTwoHosts
  MaxPings = 3
  RcvBuf = 2
  MaxFaults = 2
INVARIANTS
  TypeOK
  ConfirmedHopsInPlace
  OnionLayers
  IdentifiersAgree
  KeyThenExtend
PROPERTIES
  EndsOnlyByFailure
  ImplementsSafeService
CHECK_DEADLOCK FALSE
