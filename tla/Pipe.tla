-------------------------------- MODULE Pipe --------------------------------
(***************************************************************************)
(* POSIX pipes (pipe.c): readers and writers share a ring buffer under a   *)
(* mutex, give the mutex up before they wake each other and wait, and are  *)
(* told by close when the other side is gone.  The ring buffer is reduced  *)
(* to the number of its bytes (RingBuffer has its contents), the mutex to  *)
(* its owner (Mutex), the wait queues are those of WaitQueue.              *)
(***************************************************************************)
EXTENDS Naturals, FiniteSets, WaitQueue

CONSTANTS
    PipeReader, PipeWriter,     \* the threads with an open end
    NoThread,
    PipeSize,                   \* bufsz
    LengthRange,                \* 2^16, the range of the rt_uint16_t length of
                                \* rt_ringbuffer_get and rt_ringbuffer_put
    PipeCounts                  \* the counts reads and writes ask for

ASSUME PipeConstants ==
    /\ PipeReader \cap PipeWriter = {} /\ NoThread \notin PipeReader \cup PipeWriter
    /\ PipeSize \in Nat \ {0} /\ LengthRange \in Nat \ {0} /\ PipeCounts \subseteq Nat

VARIABLES
    pipe,       \* bytes in the ring buffer, owner of the lock, the open ends
    pipeQueue,  \* reader_queue and writer_queue
    pipeTask    \* where a thread is, the count of its read or what is left of its
                \* write, and whether it has tried to put bytes (its local wakeup)

pipeVars == <<pipe, pipeQueue, pipeTask>>

User == PipeReader \cup PipeWriter
Own(t) == IF t \in PipeReader THEN "reader" ELSE "writer"
Other(t) == IF t \in PipeReader THEN "writer" ELSE "reader"
OpenEnds(side) == pipe.open \cap (IF side = "reader" THEN PipeReader ELSE PipeWriter)

Place(t, l) == pipeTask' = [pipeTask EXCEPT ![t].at = l]
In(t, l) == pipeTask[t].at = l
Wakeup(side) == pipeQueue' = [pipeQueue EXCEPT ![side] = rt_wqueue_wakeup(@)]
Holds(t) == pipe.lock = t
Unlocked == [pipe EXCEPT !.lock = NoThread]
Outside == [at |-> "idle", left |-> 0, put |-> FALSE]

\* A size_t count as the ring buffer's functions receive it, and what they move.
AsLength(n) == n % LengthRange
Fewer(size, length) == IF size < length THEN size ELSE length

-----------------------------------------------------------------------------
(* pipe_fops_read and pipe_fops_write: the parts they share. *)

\* The first look at the other side, without the lock.
PipeBegin(t, n) ==
    /\ t \in pipe.open /\ In(t, "idle") /\ OpenEnds(Other(t)) # {}
    /\ pipeTask' = [pipeTask EXCEPT ![t] = [at |-> "lock", left |-> n, put |-> FALSE]]
    /\ UNCHANGED <<pipe, pipeQueue>>

PipeLock(t) ==
    /\ In(t, "lock") /\ Holds(NoThread)
    /\ pipe' = [pipe EXCEPT !.lock = t]
    /\ Place(t, "loop")
    /\ UNCHANGED pipeQueue

\* With nothing to do: the lock is released, the other side woken, and the
\* thread waits in its own queue.
PipeRelease(t) ==
    /\ In(t, "release")
    /\ pipe' = Unlocked
    /\ Place(t, "wake")
    /\ UNCHANGED pipeQueue

PipeWake(t) ==
    /\ In(t, "wake")
    /\ Wakeup(Other(t))
    /\ Place(t, "wait")
    /\ UNCHANGED pipe

PipeWait(t) ==
    /\ In(t, "wait")
    /\ IF WaitEndsAtOnce(pipeQueue[Own(t)])
       THEN /\ pipeQueue' = [pipeQueue EXCEPT ![Own(t)] = WaitEnds(@)]
            /\ Place(t, "lock")
       ELSE /\ pipeQueue' = [pipeQueue EXCEPT ![Own(t)] = WaitSuspends(@, t)]
            /\ Place(t, "asleep")
    /\ UNCHANGED pipe

PipeWaited(t) ==
    /\ In(t, "asleep") /\ ~Suspended(pipeQueue[Own(t)], t)
    /\ pipeQueue' = [pipeQueue EXCEPT ![Own(t)] = WaitEnds(@)]
    /\ Place(t, "lock")
    /\ UNCHANGED pipe

\* The other side is gone: end of file, or -EPIPE.
PipeBroken(t) ==
    /\ In(t, "loop") /\ OpenEnds(Other(t)) = {}
    /\ pipe' = Unlocked
    /\ pipeTask' = [pipeTask EXCEPT ![t] = IF @.put THEN [@ EXCEPT !.at = "ending"]
                                           ELSE Outside]
    /\ UNCHANGED pipeQueue

\* O_NONBLOCK: -EAGAIN, or what was written so far.
PipeGivesUp(t) ==
    /\ In(t, "release")
    /\ pipe' = Unlocked
    /\ pipeTask' = [pipeTask EXCEPT ![t] = IF t \in PipeReader THEN Outside
                                           ELSE [@ EXCEPT !.at = "ending"]]
    /\ UNCHANGED pipeQueue

-----------------------------------------------------------------------------
(* Reading: some bytes, then the writers are woken under the lock. *)

\* A length that is cut to 0 looks like an empty pipe.
ReadGet(t) ==
    LET n == Fewer(pipe.bytes, AsLength(pipeTask[t].left))
    IN /\ t \in PipeReader /\ In(t, "loop") /\ OpenEnds("writer") # {}
       /\ pipe' = [pipe EXCEPT !.bytes = @ - n]
       /\ Place(t, IF n = 0 THEN "release" ELSE "got")
       /\ UNCHANGED pipeQueue

\* Mutant: the writers are not woken.
Mut_read_no_wakeup(t) ==
    /\ t \in PipeReader /\ In(t, "got")
    /\ pipe' = Unlocked
    /\ pipeTask' = [pipeTask EXCEPT ![t] = Outside]
    /\ UNCHANGED pipeQueue

ReadEnd(t) ==
    /\ t \in PipeReader /\ In(t, "got")
    /\ Wakeup("writer")
    /\ pipe' = Unlocked
    /\ pipeTask' = [pipeTask EXCEPT ![t] = Outside]

(* Writing: what fits of the length the rest is cut to; when all is written,  *)
(* the readers are woken.                                                     *)

WritePut(t) ==
    LET room == PipeSize - pipe.bytes
        n == Fewer(room, AsLength(pipeTask[t].left))
    IN /\ t \in PipeWriter /\ In(t, "loop") /\ OpenEnds("reader") # {}
       /\ pipe' = [pipe EXCEPT !.bytes = @ + n,
                               !.lock = IF n = pipeTask[t].left THEN NoThread ELSE @]
       /\ pipeTask' = [pipeTask EXCEPT
                         ![t] = [at |-> IF n = @.left THEN "ending" ELSE "release",
                                 left |-> @.left - n, put |-> TRUE]]
       /\ UNCHANGED pipeQueue

WriteEnd(t) ==
    /\ t \in PipeWriter /\ In(t, "ending")
    /\ Wakeup("reader")
    /\ pipeTask' = [pipeTask EXCEPT ![t] = Outside]
    /\ UNCHANGED pipe

-----------------------------------------------------------------------------
(* pipe_fops_open and pipe_fops_close, under the lock throughout.  The ring *)
(* buffer is freed with the last end.                                       *)

PipeClose(t) ==
    /\ t \in pipe.open /\ In(t, "idle") /\ Holds(NoThread)
    /\ LET open == pipe.open \ {t}
       IN /\ pipe' = [pipe EXCEPT !.open = open, !.bytes = IF open = {} THEN 0 ELSE @]
          /\ pipeQueue' =
               [side \in {"reader", "writer"} |->
                  IF (IF side = "reader" THEN PipeWriter ELSE PipeReader) \cap open = {}
                  THEN rt_wqueue_wakeup(pipeQueue[side]) ELSE pipeQueue[side]]
    /\ UNCHANGED pipeTask

PipeOpen(t) ==
    /\ t \notin pipe.open /\ In(t, "idle") /\ Holds(NoThread)
    /\ pipe' = [pipe EXCEPT !.open = @ \cup {t}]
    /\ UNCHANGED <<pipeQueue, pipeTask>>

-----------------------------------------------------------------------------
PipeInit ==
    /\ pipe = [bytes |-> 0, lock |-> NoThread, open |-> User]
    /\ pipeQueue = [side \in {"reader", "writer"} |-> EmptyWaitQueue]
    /\ pipeTask = [t \in User |-> Outside]

\* A write of nothing returns at once; a read of nothing is tried.
PipeCall(t) == \E n \in PipeCounts : (t \in PipeReader \/ n > 0) /\ PipeBegin(t, n)

PipeGoesOn(t) ==
    \/ PipeLock(t) \/ PipeRelease(t) \/ PipeWake(t) \/ PipeWait(t) \/ PipeWaited(t)
    \/ PipeBroken(t) \/ ReadGet(t) \/ ReadEnd(t) \/ WritePut(t) \/ WriteEnd(t)

PipeNext ==
    \E t \in User :
        PipeCall(t) \/ PipeGoesOn(t) \/ PipeGivesUp(t) \/ PipeClose(t) \/ PipeOpen(t)

\* A thread inside a call runs in the end, a mutex that is released is handed
\* to a thread that waits for it, and the readers keep reading.
PipeFairness ==
    /\ \A t \in User : WF_pipeVars(PipeGoesOn(t)) /\ SF_pipeVars(PipeLock(t))
    /\ \A t \in PipeReader : SF_pipeVars(PipeCall(t))

PipeSpec == PipeInit /\ [][PipeNext]_pipeVars /\ PipeFairness

-----------------------------------------------------------------------------
\* The next get or put of t moves bytes if there are bytes, or room: the length
\* its count is cut to is not 0.
Moves(t) == AsLength(pipeTask[t].left) # 0

\* A reader does not sleep beside bytes, nor a writer beside room, unless its
\* count is cut to the length 0; nobody sleeps after the other side has gone;
\* unless a wakeup is under way: the lock was given up before the wait began
\* (pipe.c:226 and 307).
PipeNoLostWakeup ==
    /\ \A t \in PipeReader :
        /\ Suspended(pipeQueue["reader"], t)
        /\ (Moves(t) /\ pipe.bytes > 0) \/ OpenEnds("writer") = {}
        => \E u \in PipeWriter : In(u, "release") \/ In(u, "wake") \/ In(u, "ending")
    /\ \A t \in PipeWriter :
        /\ Suspended(pipeQueue["writer"], t)
        /\ (Moves(t) /\ pipe.bytes < PipeSize) \/ OpenEnds("reader") = {}
        => \E u \in PipeReader : In(u, "got")

\* Every write of less than 2^16 bytes ends, if the reading side keeps reading or
\* closes: the wakeups of read and close (pipe.c:234 and 117) reach a writer that
\* waits for room.  A read whose count is cut to 0 takes nothing, and does not
\* count as reading.
PipeWritesEnd ==
    \A t \in PipeWriter :
        ~In(t, "idle") /\ pipeTask[t].left < LengthRange
            ~> In(t, "idle") \/ \E u \in PipeReader : ~In(u, "idle") /\ ~Moves(u)

\* One reader and one writer: a wakeup of rt_wqueue_wakeup is for one thread.
PipePair ==
    /\ \A t, u \in PipeReader : t = u
    /\ \A t, u \in PipeWriter : t = u

\* The types of PipeInductive.
PipeSides == {"reader", "writer"}
PipeState == [bytes : 0..PipeSize, lock : User \cup {NoThread}, open : SUBSET User]
PipeQueueState == [woken : BOOLEAN, nodes : Seq(User)]
PipeUserState == [at : {"idle", "lock", "loop", "release", "wake", "wait", "asleep", "got",
                   "ending"}, left : Nat, put : BOOLEAN]

PipeTypeOK ==
    /\ pipe \in PipeState /\ pipeQueue \in [PipeSides -> PipeQueueState]
    /\ pipeTask \in [User -> PipeUserState]

\* Where a thread holds the lock, where it has found nothing to do, and where
\* it is about to wake the other side.
PipeLocked == {"loop", "release", "got"}
PipeWaits == {"release", "wake", "wait", "asleep"}
PipeWakes == {"release", "wake", "ending"}

\* The lock, the open end and the node of one thread.
PipeUserOK(t) ==
    /\ pipe.lock = t <=> pipeTask[t].at \in PipeLocked
    /\ pipeTask[t].at # "idle" => t \in pipe.open
    /\ pipeQueue[Own(t)].nodes =
         IF pipeTask[t].at = "asleep" /\ ~pipeQueue[Own(t)].woken THEN <<t>> ELSE << >>

\* PipeNoLostWakeup from the moment a thread finds nothing to do.
ReaderTold ==
    \A t \in PipeReader :
        /\ pipeTask[t].at \in PipeWaits /\ ~pipeQueue["reader"].woken
        /\ (Moves(t) /\ pipe.bytes > 0) \/ OpenEnds("writer") = {}
        => \E u \in PipeWriter : pipeTask[u].at \in PipeWakes

WriterTold ==
    \A t \in PipeWriter :
        /\ pipeTask[t].at \in PipeWaits /\ ~pipeQueue["writer"].woken
        /\ (Moves(t) /\ pipe.bytes < PipeSize) \/ OpenEnds("reader") = {}
        => \E u \in PipeReader : pipeTask[u].at = "got"

PipeInductive == PipeTypeOK /\ (\A t \in User : PipeUserOK(t)) /\ ReaderTold /\ WriterTold

=============================================================================
