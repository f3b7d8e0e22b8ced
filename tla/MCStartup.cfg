SPECIFICATION Spec
CONSTANTS
  MaxRouters  <- MCMaxRouters
  MaxRouterID <- MCMaxRouterID
  MAX_SENDERS <- MCMaxSenders
  Stages      <- MCStages
  Port        <- MCPort
  MaxFaults   <- MCMaxFaults
  NULL = NULL
INVARIANTS
  TypeOK
  RegisteredAddressIsTheRouters
  ServingKnowsEveryRouter
  SharedAddressMeansOneGone
  AbortsOnlyMisconfigured
PROPERTIES
  LostRouterBlocksService
  RegistrationCompletes
CHECK_DEADLOCK FALSE
