SPECIFICATION Spec
CONSTANTS
  noOfRouters = 4
  noOfHops = 3
  Host <- MCTwoHosts
  MaxPings = 3
  RcvBuf = 2
  MaxFaults = 2
INVARIANTS
  TypeOK
  ConfirmedHopsInPlace
  TurnTaking
  BystandersUntouched
  LookupWouldAgree
  SourceIsThePredecessor
  NoPingIsDuplicated
  RepliesReachEth0
PROPERTIES
  LostHopBlocksBuild
  RoutersEndOnlyByFailure
  ImplementsSafeService
CHECK_DEADLOCK FALSE
