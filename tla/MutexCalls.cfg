SPECIFICATION Spec
CONSTANTS
  idle = idle
  x = x
  y = y
  z = z
  none = none
  m = m
  n = n
  Thread <- MCThread
  Idle = idle
  First = x
  PrioMax = 4
  BootPrio <- MCPrio
  BootReady <- MCReady
  Obj <- OneMutex
  None = none
  InitTick = 1
  HoldMax = 2
  Waits = {"no", "limited", "forever"}
  Calls = {"sleep", "delete", "misuse"}
INVARIANTS KernelConsistent HoldersAgree WaitOutcome
