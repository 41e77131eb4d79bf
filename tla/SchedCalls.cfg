SPECIFICATION Spec
CONSTANTS
  idle = idle
  main = main
  a = a
  b = b
  Thread <- TwoThreads
  Idle = idle
  Main = main
  PrioMax = 3
  Obj = {}
  InitTick = 2
  MainPrio = 1
  Calls = {"create", "exit", "yield", "sleep", "suspend", "critical", "delete", "control"}
  Guarded = TRUE
  MaxNest = 2
INVARIANTS Inductive ReadyQueueConsistent ClosedThreadsDefunct TimeoutAssertion
PROPERTIES NoSwitchWhenLocked ClosedStaysClosed
