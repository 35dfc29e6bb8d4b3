SPECIFICATION Spec
CONSTANTS
  client = client
  server = server
  Ends <- MCEnds
  Delays <- MCDelays
  MaxTime = 1
  MaxWrites <- MCMaxWrites
  Calls <- MCCalls
  MaxFaults = 2
INVARIANT HealReleasesWhatIsHeld
CHECK_DEADLOCK FALSE
