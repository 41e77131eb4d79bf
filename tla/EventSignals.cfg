SPECIFICATION Spec
CONSTANTS
  idle = idle
  x = x
  y = y
  z = z
  ev = ev
  bit1 = bit1
  bit2 = bit2
  Thread <- MCThread
  Idle = idle
  First = x
  PrioMax = 3
  BootPrio <- MCPrio
  BootReady <- MCReady
  Obj <- MCObj
  Ev = ev
  Bits <- MCBits
  Requests <- MCRequests
  InitTick = 1
  Flag = "PRIO"
  Waits = {"no", "limited", "forever"}
INVARIANTS NoMissedEvent Delivered
PROPERTIES ConsumedOnce
