SPECIFICATION FairSpec
CONSTANTS
  idle = idle
  main = main
  a = a
  b = b
  Thread <- ThreeThreads
  Idle = idle
  Main = main
  PrioMax = 2
  Obj = {}
  InitTick = 2
  MainPrio = 0
  Calls = {"create", "yield", "sleep"}
  Guarded = TRUE
  MaxNest = 1
INVARIANTS HighestRuns
PROPERTIES RoundRobin
