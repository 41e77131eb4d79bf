SPECIFICATION Spec
CONSTANTS
  idle = idle
  main = main
  a = a
  b = b
  Thread <- ThreeThreads
  Idle = idle
  Main = main
  PrioMax = 2
  Obj = {}
  InitTick = 1
  MainPrio = 0
  Calls = {"create", "sleep", "delete"}
  Guarded = FALSE
  MaxNest = 1
SYMMETRY MCSymmetry
INVARIANTS ClosedLeavesQueue
