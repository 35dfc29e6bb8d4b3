SPECIFICATION Spec
CONSTANTS
  boom = boom
  bang = bang
  Ok = Ok
  Misaligned = Misaligned
  NoFailure = NoFailure
  Sites <- MCSites
  Programs <- MCPrograms
  EntropySite <- MCEntropy
  Instances <- MCInstances
  SettingsChoices <- MCSettings
  MaxDelays = 2
  MaxBound = 4
  MaxSchedules = 7
  TestSeeds = 2
  Shards = 2
  Count = 2
  FailingSeeds = {1, 2}
  MaxKills = 2
INVARIANTS
  TapeReproduces
CHECK_DEADLOCK FALSE
