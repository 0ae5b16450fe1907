SPECIFICATION Spec
CONSTANTS
  news = news
  RoutineIds <- MCRoutineIds
  Every = 2
  Late = 1
  Patience = 1
  Keep = 2
  Day = 3
  MaxTime = 4
  MaxManual = 1
  MaxTroubles = 2
INVARIANTS RoutinesTypeOK OncePerDue FinishReachesRun
CHECK_DEADLOCK FALSE
