SPECIFICATION Spec
CONSTANTS
  a = a
  b = b
  root = root
  web = web
  none = none
  Hosts <- MCHosts
  Root <- root
  Cuts <- MCCuts
  Shapes <- MCShapes
  MinDelay = 1
  MaxDelay = 1
  MaxFaults = 2
  Servers <- MCServers
  SrvHost <- MCSrvHost
  SrvAddr <- MCSrvAddr
  Connects <- MCConnects
  CliHost <- MCCliHost
  CliAddr <- MCCliAddr
  ViaSocket <- MCViaSocket
  NoServer <- none
  Endpoints <- MCEndpoints
  EpHost <- MCEpHost
  EpAddr <- MCEpAddr
  Disorders <- MCDisorders
  Routes <- MCRoutes
  MaxSends = 2
  MaxTime = 1
INVARIANTS
  TypeOK
  NoConnectSleepsOverAHeal
  FlowStaysInOrder
PROPERTIES
  ReachesALiveServer
CHECK_DEADLOCK FALSE
