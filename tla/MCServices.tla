----------------------------- MODULE MCServices -----------------------------
(***************************************************************************)
(* Small instances of the services around the kernel: timers, work queues, *)
(* pipes, memory pools, completions, data queues, ring buffers and the     *)
(* heap.  They share no state here, so a behaviour exercises one of them,  *)
(* its subject, and leaves the others in their initial states.             *)
(***************************************************************************)
EXTENDS MCTimer, MCWorkQueue, Pipe, MemPool, Completion, DataQueue, RingBuffer,
        Heap

VARIABLE subject

mcVars == <<subject, timerVars, workVars, pipeVars, mpVars, cmplVars, dqVars,
            rbVars, heapVars>>

MCInit ==
    /\ subject \in {"timer", "work", "pipe", "pool", "completion", "dataqueue",
                    "ring", "heap"}
    /\ TimerInit /\ WorkInit /\ PipeInit /\ MpInit /\ CmplInit /\ DqInit
    /\ RbInit /\ HeapInit
    /\ subject # "ring" => rb.buf[0] = CHOOSE b \in RbByte : TRUE

MCNext ==
    /\ UNCHANGED subject
    /\ \/ /\ subject = "timer" /\ TimerNext
          /\ UNCHANGED <<workVars, pipeVars, mpVars, cmplVars, dqVars,
                         rbVars, heapVars>>
       \/ /\ subject = "work" /\ WorkNext
          /\ UNCHANGED <<timerVars, pipeVars, mpVars, cmplVars, dqVars,
                         rbVars, heapVars>>
       \/ /\ subject = "pipe" /\ PipeNext
          /\ UNCHANGED <<timerVars, workVars, mpVars, cmplVars, dqVars,
                         rbVars, heapVars>>
       \/ /\ subject = "pool" /\ MpNext
          /\ UNCHANGED <<timerVars, workVars, pipeVars, cmplVars, dqVars,
                         rbVars, heapVars>>
       \/ /\ subject = "completion" /\ CmplNext
          /\ UNCHANGED <<timerVars, workVars, pipeVars, mpVars, dqVars,
                         rbVars, heapVars>>
       \/ /\ subject = "dataqueue" /\ DqNext
          /\ UNCHANGED <<timerVars, workVars, pipeVars, mpVars, cmplVars,
                         rbVars, heapVars>>
       \/ /\ subject = "ring" /\ RbNext
          /\ UNCHANGED <<timerVars, workVars, pipeVars, mpVars, cmplVars,
                         dqVars, heapVars>>
       \/ /\ subject = "heap" /\ HeapNext
          /\ UNCHANGED <<timerVars, workVars, pipeVars, mpVars, cmplVars,
                         dqVars, rbVars>>

\* Each subject runs under the fairness of its own specification.
MCFairness ==
    /\ WF_timerVars(subject = "timer" /\ ClockTick)
    /\ WF_timerVars(subject = "timer" /\ TickInterrupt)
    /\ WF_timerVars(subject = "timer" /\ TimerThread)
    /\ WF_timerVars(subject = "timer" /\ SoftWoken)
    /\ \A c \in WorkClient : WF_workVars(subject = "work" /\ WorkContinues(c))
    /\ \A w \in Work : WF_workVars(subject = "work" /\ TimerExpires(w))
    /\ WF_workVars(subject = "work" /\ TimeoutHandler)
    /\ WF_workVars(subject = "work" /\ WorkThread)
    /\ WF_workVars(subject = "work" /\ WorkUnblocks)
    /\ \A t \in User :
        /\ WF_pipeVars(subject = "pipe" /\ PipeGoesOn(t))
        /\ SF_pipeVars(subject = "pipe" /\ PipeLock(t))
    /\ \A t \in PipeReader : SF_pipeVars(subject = "pipe" /\ PipeCall(t))

MCSpec == MCInit /\ [][MCNext]_mcVars /\ MCFairness

=============================================================================
