SPECIFICATION Spec
CONSTANTS
  short = short
  long = long
  main = main
  helper = helper
  Paths = {log, state}
  Values <- MCValues
  Size <- MCSize
  Absent = Absent
  Clean = Clean
  Factories = {main, helper}
  Raw = Raw
  Raising = {helper}
  MaxEntries = 2
  MaxCrashes = 2
INVARIANTS
  TypeOK
  FsyncedSurvives
PROPERTIES
  CutLeavesWhatWasWritten
  EveryEntryRunsAgain
CHECK_DEADLOCK FALSE
