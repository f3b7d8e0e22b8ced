SPECIFICATION Spec
CONSTANTS
  MaxRouters  <- MCMaxRouters
  MaxRouterID <- MCMaxRouterID
  MAX_SENDERS <- MCMaxSenders
  Stages      <- MCStages
  Port        <- MCPort
  MaxFaults   <- MCMaxFaults
  NULL = NULL
INVARIANTS
  AnnouncedPortIsTheRouters
CHECK_DEADLOCK FALSE
