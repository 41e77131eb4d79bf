SPECIFICATION WorkSpec
CONSTANTS
  WorkClient = {clientA}
  Work = {workA, workB}
  NoWork = nowork
  WorkUrgency <- MCUrgency
  DelayRedo = TRUE
INVARIANT DelayedHasQueue
