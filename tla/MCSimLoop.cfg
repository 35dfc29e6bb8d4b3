SPECIFICATION Spec
CONSTANTS
  main = main
  helper = helper
  node = node
  host = host
  NoTask = NoTask
  NoHost = NoHost
  Tasks <- MCTasks
  Main <- main
  Hosts <- MCHosts
  HostOf <- MCHostOf
  Delays <- MCDelays
  MaxTime = 2
  MaxOps <- MCMaxOps
  MaxStepsPerInstant = 6
  Monitored = TRUE
INVARIANTS
  TypeOK
  NoLostWakeup
  DeadlockIsGenuine
  
  CleanTeardownEndsEveryTask
PROPERTIES
  ClockNeverPassesATimer
  CrashedNeverScheduled
  UniverseEnds
