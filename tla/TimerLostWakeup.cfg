SPECIFICATION TimerSpec
CONSTANTS
  AppTimer = {hardA, softA, softB}
  SoftTimer = {softA, softB}
  ThreadTimer = own
  NoTimer = none
  TickRange = 8
  TimerTimes = {0, 1}
  MCPeriodic = {hardA, softB}
  BootTimers <- MCBoot
  SoftUrgent = TRUE
  SoftGrace = 1
  TimerOpBound = 3
INVARIANT NoForgottenTimer
