SPECIFICATION Spec
CONSTANTS
  goal1 = goal1
  link1 = link1
  NoDeadline = NoDeadline
  Goals <- MCGoals
  Links <- MCLinks
  Within <- MCWithin
  Delays <- MCDelays
  MaxTime = 4
  MaxSteps = 5
  MaxReady = 2
INVARIANTS
  TypeOK
  ClockNeverPassesADeadline
  NoObligationOverdue
  OkMeansEveryGoalMet
  LivenessVerdictIsEarned
