SPECIFICATION FairSpec
CONSTANTS
  timer = timer
  web = web
  t1 = t1
  t2 = t2
  t3 = t3
  Nothing = Nothing
  Timer = timer
  Web <- OneWeb
  Thread <- ThreeThreads
  Kind <- Kinds
  Looked <- AllButResources
  Prioritized <- Bibles
  Patient <- Resources
  Asks <- AsksEach
  MaxParallel = 2
  MaxTasks = 3
  MaxStops = 1
  Hazard = {}
INVARIANTS TypeOK Exclusive WatchdogHeld RunsOnce NothingLost Bounded
PROPERTIES EveryTaskRuns
