SPECIFICATION MCSpec
CONSTANTS
  AppTimer = {hardA, softA, softB}
  SoftTimer = {softA, softB}
  ThreadTimer = own
  NoTimer = none
  TickRange = 7
  TimerTimes = {0, 1}
  MCPeriodic = {hardA, softB}
  BootTimers <- MCBoot
  SoftUrgent = FALSE
  SoftGrace = 1
  TimerOpBound = 3
  WorkClient = {clientA, clientB}
  Work = {workA, workB}
  NoWork = nowork
  WorkUrgency <- MCUrgency
  DelayRedo = FALSE
  PipeReader = {reader}
  PipeWriter = {writer}
  NoThread = nothread
  PipeSize = 2
  LengthRange = 4
  PipeCounts = {0, 1, 3, 5}
  Task = {taskA, taskB, taskC}
  TaskTimes = {"none", "limited", "forever"}
  Block = {blockA, blockB}
  MpKeep = 2
  CmplWaiter = taskA
  DqItem = {itemA, itemB}
  NoItem = noitem
  DqSize = 2
  DqLwm = 0
  RbByte = {0, 1}
  RbSize = 2
  RbLongest = 3
  HeapSize = 12
  Header = 1
  MinSize = 2
  Requests = {1, 2, 4}
INVARIANTS
  ListsConsistent WorkConsistent CancelledStays PipeNoLostWakeup
  MpNoVainWait CmplNoMissedDone DqNoLostWakeup HeapConsistent
PROPERTIES
  CallbackWaits ImplementsDeadlines SoftTimersFire WorkProgress PipeWritesEnd
  DqImplementsChannel ImplementsByteQueue
