SPECIFICATION FairSpec
CONSTANTS
  idle = idle
  x = x
  y = y
  z = z
  sem = sem
  Thread <- MCThread
  Idle = idle
  First = x
  PrioMax = 2
  BootPrio <- EqualPrio
  BootReady <- EqualReady
  Obj <- MCObj
  Sem = sem
  InitTick = 1
  Flag = "FIFO"
  SemMax = 2
  InitValue = 1
  Waits = {"limited", "forever"}
  Calls = {"release"}
  ResetValues = {}
  MaxHold = 1
  DeleteTimed = FALSE
INVARIANTS PermitsConserved WaitersSuspended
PROPERTIES NoStarvation
