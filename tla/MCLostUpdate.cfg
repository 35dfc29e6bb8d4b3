SPECIFICATION Spec
CONSTANTS
  alice = alice
  bob = bob
  x = x
  y = y
  Clients <- MCClients
  Keys <- MCKeys
  MaxExecuted = 3
  MaxOps = 5
  MaxCommands = 1
  NoQueue = NoQueue
SYMMETRY Symmetry
INVARIANTS
  AcyclicIsSerializable
CHECK_DEADLOCK FALSE
