SPECIFICATION Spec
CONSTANTS
  idle = idle
  x = x
  y = y
  z = z
  rx = rx
  tx = tx
  mail = mail
  memo = memo
  none = none
  Thread <- MCThread
  Idle = idle
  First = x
  PrioMax = 4
  BootPrio <- MCPrio
  BootReady <- MCReady
  Obj <- MCObj
  Rx = rx
  Tx = tx
  Size = 2
  Msg <- MCMsg
  MsgOf <- MCMsgOf
  IsrMsg = mail
  None = none
  InitTick = 1
  Flag = "FIFO"
  WaitsOf <- MCWaits
INVARIANTS NoLostWakeup BlocksConserved
PROPERTIES ImplementsChannel
