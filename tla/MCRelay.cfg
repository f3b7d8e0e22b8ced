SPECIFICATION Spec
CONSTANTS
  noOfRouters = 3
  noOfHops = 1
  Host <- MCHost
  TunnelHost <- MCTunnelHost
  TunnelIP = 102
  MaxPings = 3
  RcvBuf = 3
  MaxFaults = 2
INVARIANTS
  TypeOK
  LastSenderIsTheProxy
  RepliesReachThePinger
PROPERTIES
  EndsOnlyByFailure
  ImplementsPingService
  AnsweredUnlessFailed
CHECK_DEADLOCK FALSE
