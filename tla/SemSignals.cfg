SPECIFICATION Spec
CONSTANTS
  idle = idle
  x = x
  y = y
  z = z
  sem = sem
  Thread <- MCThread
  Idle = idle
  First = x
  PrioMax = 3
  BootPrio <- MixedPrio
  BootReady <- MixedReady
  Obj <- MCObj
  Sem = sem
  InitTick = 1
  Flag = "PRIO"
  SemMax = 2
  InitValue = 0
  Waits = {"no", "limited", "forever"}
  Calls = {"signal", "isr", "reset", "delete", "sleep"}
  ResetValues = {0, 2, 4}
  MaxHold = 1
  DeleteTimed = FALSE
INVARIANTS NoVainWait
PROPERTIES ImplementsSemaphore
