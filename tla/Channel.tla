------------------------------ MODULE Channel ------------------------------
(***************************************************************************)
(* The mailbox and the message queue of ipc.c.  Both have a list of        *)
(* waiting receivers and a list of waiting senders, and a wait that is     *)
(* repeated with the rest of its time limit when somebody else was faster. *)
(* A mailbox keeps words in a ring and works in one region; a message      *)
(* queue keeps blocks in linked lists and copies with interrupts enabled,  *)
(* between a region that takes a block and one that puts it back.          *)
(* The kind of the channel is chosen in the initial state.                 *)
(***************************************************************************)
EXTENDS Workers

CONSTANTS
    Rx,         \* parent.suspend_thread, a member of Obj
    Tx,         \* suspend_sender_thread, a member of Obj
    Size,       \* the size of the mailbox; max_msgs of the message queue
    Msg,        \* the messages
    MsgOf,      \* the message each thread sends
    IsrMsg,     \* the message interrupt handlers send
    None,       \* no message, no block
    Flag,       \* RT_IPC_FLAG_FIFO or RT_IPC_FLAG_PRIO
    WaitsOf     \* the time limits of the sends and receives of each thread

ASSUME ChannelAssumption ==
    /\ Rx \in Obj /\ Tx \in Obj /\ Rx # Tx
    /\ Size \in Nat \ {0}
    /\ MsgOf \in [Thread -> Msg]
    /\ IsrMsg \in Msg
    /\ None \notin Msg \cup Nat
    /\ Flag \in {"FIFO", "PRIO"}
    /\ \A t \in Thread : WaitsOf[t] \subseteq {"no", "limited", "forever"}
    /\ IsFiniteSet(Thread)

VARIABLES
    kind,       \* "mb" or "mq"
    entry,      \* mb->entry, mq->entry
    ring,       \* msg_pool, in_offset and out_offset of the mailbox
    lists,      \* msg_queue_free and msg_queue_head of the message queue, from
                \* the first block to the last
    text,       \* the message in each block
    block,      \* the block a thread has taken and not yet linked again
    job,        \* the loop a thread is in: what it does, with which time limit
    alive,      \* the object exists
    event       \* what the last step did to the messages, with the caller's message

chanVars == <<k, pc, isr, kind, entry, ring, lists, text, block, job, alive, event>>
store == <<entry, ring, lists, text, block>>

Block == 1 .. Size
NoJob == [op |-> "none", limit |-> "no"]

\* A call takes effect, or none does.
Happens(call, m) == event' = [call |-> call, msg |-> m]
Pauses == Happens("none", None)

ChanPC == {"run", "sched", "wait", "waited", "link", "push", "copy"} \cup Deleting

\* rt_mb_init and rt_mb_create; rt_mq_init and rt_mq_create.
EmptyRing == [pool |-> [i \in 0 .. Size - 1 |-> None], in |-> 0, out |-> 0]
EmptyLists == [free |-> [i \in Block |-> Size + 1 - i], queue |-> << >>]

Init ==
    /\ k = KBoot
    /\ pc = [t \in Thread |-> "run"]
    /\ isr = "none"
    /\ kind \in {"mb", "mq"}
    /\ entry = 0
    /\ ring = EmptyRing
    /\ lists = EmptyLists
    /\ text = [b \in Block |-> None]
    /\ block = [t \in Thread |-> None]
    /\ job = [t \in Thread |-> NoJob]
    /\ alive = TRUE
    /\ event = [call |-> "none", msg |-> None]

\* A channel that exists and that nobody is deleting may be used.
Usable == alive /\ \A t \in Thread : pc[t] \notin Deleting

Call(t) == Calling(t) /\ Usable

-----------------------------------------------------------------------------
(* The loop of the blocking functions: test, wait, test again with the rest  *)
(* of the time.                                                              *)

\* What may be left of a time limit after a wait.
Rest(w) == IF w = "limited" THEN {"limited", "no"} ELSE {w}

\* t is at the test of its loop with the time limit w.
Testing(t, op, w) ==
    \/ Call(t) /\ w \in WaitsOf[t]
    \/ /\ Executing(t)
       /\ pc[t] = "waited"
       /\ k.err[t] = "EOK"
       /\ job[t].op = op
       /\ w \in Rest(job[t].limit)

\* The test fails and no time is left; a receiver that had waited gets the
\* error of a time-out.
Refused(t, op, w) ==
    /\ Testing(t, op, w)
    /\ w = "no"
    /\ k' = IF op = "recv" /\ pc[t] = "waited"
            THEN [k EXCEPT !.err[t] = "ETIMEOUT"] ELSE k
    /\ Goto(t, "run")
    /\ job' = [job EXCEPT ![t] = NoJob]
    /\ Pauses
    /\ UNCHANGED <<isr, kind, store, alive>>

\* The test fails and t waits on the list o, up to its rt_schedule.
Waiting(t, op, w, o) ==
    /\ Testing(t, op, w)
    /\ w # "no"
    /\ k' = StartTimer(_ipc_list_suspend([k EXCEPT !.err[t] = "EOK"], o, t, Flag),
                       t, w = "limited")
    /\ Goto(t, "wait")
    /\ job' = [job EXCEPT ![t] = [op |-> op, limit |-> w]]
    /\ Pauses
    /\ UNCHANGED <<isr, kind, store, alive>>

\* The wait has ended by a time-out, a reset or a deletion.
WaitFailed(t) ==
    /\ Executing(t)
    /\ pc[t] = "waited"
    /\ k.err[t] # "EOK"
    /\ Goto(t, "run")
    /\ job' = [job EXCEPT ![t] = NoJob]
    /\ Pauses
    /\ UNCHANGED <<k, isr, kind, store, alive>>

\* The threads that have been woken for op and have not run yet.
Woken(op) ==
    {t \in Worker : /\ Blocked(t) /\ job[t].op = op /\ k.err[t] = "EOK"
                    /\ t \notin ToSet(k.wait[Rx]) \cup ToSet(k.wait[Tx])}

\* Mutant: only the first message of a channel wakes a receiver.
Mut_wake_when_empty(s, o) ==
    IF s.wait[o] # << >> /\ (o = Rx => entry = 0) THEN _ipc_list_resume(s, o) ELSE s

\* The end of a call: the first thread waiting on o is resumed, if any.
Wake(s, o) == IF s.wait[o] # << >> THEN _ipc_list_resume(s, o) ELSE s

Finish(t, o) ==
    /\ k' = Wake(k, o)
    /\ Goto(t, IF k.wait[o] # << >> THEN "sched" ELSE "run")
    /\ job' = [job EXCEPT ![t] = NoJob]

-----------------------------------------------------------------------------
(* Mailbox *)

\* An offset moves on by one place.
Onward(i) == IF i + 1 >= Size THEN 0 ELSE i + 1

\* The ring after rt_mb_send_wait has stored m at in_offset.
RingSend(m) == [ring EXCEPT !.pool[ring.in] = m, !.in = Onward(@)]

\* Mutant: out_offset is not moved back to the end of the ring.
Mut_urgent_no_wrap(m) ==
    LET o == IF ring.out > 0 THEN ring.out - 1 ELSE 0
    IN  [ring EXCEPT !.pool[o] = m, !.out = o]

\* The ring after rt_mb_urgent has stored m in front of out_offset.
RingUrgent(m) ==
    LET o == IF ring.out > 0 THEN ring.out - 1 ELSE Size - 1
    IN  [ring EXCEPT !.pool[o] = m, !.out = o]

MbSendRefused(t, w) == kind = "mb" /\ entry = Size /\ Refused(t, "send", w)

MbSendWait(t, w) == kind = "mb" /\ entry = Size /\ Waiting(t, "send", w, Tx)

MbSend(t, w) ==
    /\ kind = "mb"
    /\ Testing(t, "send", w)
    /\ entry < Size
    /\ ring' = RingSend(MsgOf[t])
    /\ entry' = entry + 1
    /\ Happens("send", MsgOf[t])
    /\ Finish(t, Rx)
    /\ UNCHANGED <<isr, kind, lists, text, block, alive>>

\* rt_mb_urgent never waits.
MbUrgent(t) ==
    /\ kind = "mb"
    /\ Call(t)
    /\ entry < Size
    /\ ring' = RingUrgent(MsgOf[t])
    /\ entry' = entry + 1
    /\ Happens("urgent", MsgOf[t])
    /\ Finish(t, Rx)
    /\ UNCHANGED <<isr, kind, lists, text, block, alive>>

\* rt_mb_send by an interrupt handler, its rt_schedule included.
MbIsrSend ==
    /\ kind = "mb"
    /\ isr = "none"
    /\ Usable
    /\ entry < Size
    /\ ring' = RingSend(IsrMsg)
    /\ entry' = entry + 1
    /\ Happens("send", IsrMsg)
    /\ k' = IF k.wait[Rx] # << >> THEN rt_schedule(Wake(k, Rx)) ELSE k
    /\ UNCHANGED <<pc, isr, kind, lists, text, block, job, alive>>

MbRecvRefused(t, w) == kind = "mb" /\ entry = 0 /\ Refused(t, "recv", w)

MbRecvWait(t, w) == kind = "mb" /\ entry = 0 /\ Waiting(t, "recv", w, Rx)

\* The word at out_offset is taken; a word that has been taken means nothing.
MbRecv(t, w) ==
    /\ kind = "mb"
    /\ Testing(t, "recv", w)
    /\ entry > 0
    /\ ring' = [ring EXCEPT !.pool[ring.out] = None, !.out = Onward(@)]
    /\ entry' = entry - 1
    /\ Happens("recv", ring.pool[ring.out])
    /\ Finish(t, Tx)
    /\ UNCHANGED <<isr, kind, lists, text, block, alive>>

-----------------------------------------------------------------------------
(* Message queue *)

MqSendRefused(t, w) == kind = "mq" /\ lists.free = << >> /\ Refused(t, "send", w)

MqSendWait(t, w) == kind = "mq" /\ lists.free = << >> /\ Waiting(t, "send", w, Tx)

\* A block leaves the free list and gets the message, to be linked at l.
TakeBlock(t, l) ==
    /\ kind = "mq"
    /\ lists.free # << >>
    /\ lists' = [lists EXCEPT !.free = Tail(@)]
    /\ block' = [block EXCEPT ![t] = Head(lists.free)]
    /\ text' = [text EXCEPT ![Head(lists.free)] = MsgOf[t]]
    /\ Goto(t, l)
    /\ job' = [job EXCEPT ![t] = NoJob]
    /\ Pauses
    /\ UNCHANGED <<k, isr, kind, entry, ring, alive>>

MqSend(t, w) == Testing(t, "send", w) /\ TakeBlock(t, "link")

\* rt_mq_urgent never waits.
MqUrgent(t) == Call(t) /\ TakeBlock(t, "push")

\* The second region of rt_mq_send_wait and of rt_mq_urgent.
MqLink(t) ==
    /\ Executing(t)
    /\ pc[t] \in {"link", "push"}
    /\ lists' = [lists EXCEPT !.queue = IF pc[t] = "link" THEN Append(@, block[t])
                                        ELSE <<block[t]>> \o @]
    /\ Happens(IF pc[t] = "link" THEN "send" ELSE "urgent", MsgOf[t])
    /\ block' = [block EXCEPT ![t] = None]
    /\ entry' = entry + 1
    /\ Finish(t, Rx)
    /\ UNCHANGED <<isr, kind, ring, text, alive>>

\* rt_mq_send by an interrupt handler, which no thread interrupts.
MqIsrSend ==
    /\ kind = "mq"
    /\ isr = "none"
    /\ Usable
    /\ lists.free # << >>
    /\ LET b == Head(lists.free)
       IN  /\ lists' = [free |-> Tail(lists.free), queue |-> Append(lists.queue, b)]
           /\ text' = [text EXCEPT ![b] = IsrMsg]
    /\ Happens("send", IsrMsg)
    /\ entry' = entry + 1
    /\ k' = IF k.wait[Rx] # << >> THEN rt_schedule(Wake(k, Rx)) ELSE k
    /\ UNCHANGED <<pc, isr, kind, ring, block, job, alive>>

MqRecvRefused(t, w) == kind = "mq" /\ entry = 0 /\ Refused(t, "recv", w)

MqRecvWait(t, w) == kind = "mq" /\ entry = 0 /\ Waiting(t, "recv", w, Rx)

\* Mutant: the block goes back to the free list before it is copied.
Mut_recv_frees_early(t, w) ==
    /\ kind = "mq"
    /\ Testing(t, "recv", w)
    /\ entry > 0
    /\ lists' = [free |-> <<Head(lists.queue)>> \o lists.free, queue |-> Tail(lists.queue)]
    /\ block' = [block EXCEPT ![t] = Head(lists.queue)]
    /\ entry' = entry - 1
    /\ Happens("take", text[Head(lists.queue)])
    /\ Goto(t, "copy")
    /\ job' = [job EXCEPT ![t] = NoJob]
    /\ UNCHANGED <<k, isr, kind, ring, text, alive>>

\* The first region of rt_mq_recv: the first block leaves the queue.
MqRecv(t, w) ==
    /\ kind = "mq"
    /\ Testing(t, "recv", w)
    /\ entry > 0
    /\ lists' = [lists EXCEPT !.queue = Tail(@)]
    /\ block' = [block EXCEPT ![t] = Head(lists.queue)]
    /\ entry' = entry - 1
    /\ Happens("take", text[Head(lists.queue)])
    /\ Goto(t, "copy")
    /\ job' = [job EXCEPT ![t] = NoJob]
    /\ UNCHANGED <<k, isr, kind, ring, text, alive>>

\* The second one: the block has been copied and goes back to the free list; a
\* free block's text means nothing.
MqFree(t) ==
    /\ Executing(t)
    /\ pc[t] = "copy"
    /\ lists' = [lists EXCEPT !.free = <<block[t]>> \o @]
    /\ Happens("recv", text[block[t]])
    /\ text' = [text EXCEPT ![block[t]] = None]
    /\ block' = [block EXCEPT ![t] = None]
    /\ Finish(t, Tx)
    /\ UNCHANGED <<isr, kind, entry, ring, alive>>

-----------------------------------------------------------------------------
(* Reset, deletion, creation *)

\* RT_IPC_CMD_RESET, in one region: receivers, then senders, then the store.
MbReset(t) ==
    /\ kind = "mb"
    /\ Call(t)
    /\ k' = ResumeAll(ResumeAll(k, Rx), Tx)
    /\ entry' = 0
    /\ ring' = EmptyRing
    /\ Happens("clear", None)
    /\ Goto(t, "sched")
    /\ UNCHANGED <<isr, kind, lists, text, block, job, alive>>

MqReset(t) ==
    /\ kind = "mq"
    /\ Call(t)
    /\ k' = ResumeAll(ResumeAll(k, Rx), Tx)
    /\ lists' = [free |-> Reverse(lists.queue) \o lists.free, queue |-> << >>]
    /\ text' = [b \in Block |-> IF b \in ToSet(lists.queue) THEN None ELSE text[b]]
    /\ entry' = 0
    /\ Happens("clear", None)
    /\ Goto(t, "sched")
    /\ UNCHANGED <<isr, kind, ring, block, job, alive>>

\* Nobody deletes the channel while a thread waits on it with a time limit, or
\* has been woken or is between the regions of a call and will use it again.
DeleteBegin(t) ==
    /\ Call(t)
    /\ (ToSet(k.wait[Rx]) \cup ToSet(k.wait[Tx])) \cap k.timer = {}
    /\ Woken("send") \cup Woken("recv") = {}
    /\ \A u \in Worker : pc[u] \notin {"link", "push", "copy"}
    /\ Goto(t, "delall")
    /\ Pauses
    /\ UNCHANGED <<k, isr, kind, store, job, alive>>

\* Receivers are resumed before senders.
DeleteResume(t) ==
    /\ LET o == IF k.wait[Rx] # << >> THEN Rx ELSE Tx
       IN  ResumeAllLook(t, o) \/ ResumeAllTurn(t, o)
    /\ Pauses
    /\ UNCHANGED <<kind, store, job, alive>>

DeleteEnd(t) ==
    /\ Executing(t)
    /\ pc[t] = "delobj"
    /\ alive' = FALSE
    /\ Goto(t, "run")
    /\ Pauses
    /\ UNCHANGED <<k, isr, kind, store, job>>

\* A new channel takes the place of the deleted one once every call on that one
\* has returned.
Create(t) ==
    /\ Calling(t)
    /\ ~alive
    /\ \A u \in Worker : ~Blocked(u)
    /\ alive' = TRUE
    /\ entry' = 0
    /\ ring' = EmptyRing
    /\ lists' = EmptyLists
    /\ text' = [b \in Block |-> None]
    /\ Happens("clear", None)
    /\ UNCHANGED <<k, pc, isr, kind, block, job>>

MbStep(t, w) ==
    \/ MbSendRefused(t, w) \/ MbSendWait(t, w) \/ MbSend(t, w)
    \/ MbRecvRefused(t, w) \/ MbRecvWait(t, w) \/ MbRecv(t, w)

MqStep(t, w) ==
    \/ MqSendRefused(t, w) \/ MqSendWait(t, w) \/ MqSend(t, w)
    \/ MqRecvRefused(t, w) \/ MqRecvWait(t, w) \/ MqRecv(t, w)

Next ==
    \/ \E t \in Thread :
          \/ \E w \in {"no", "limited", "forever"} : MbStep(t, w) \/ MqStep(t, w)
          \/ MbUrgent(t) \/ MqUrgent(t) \/ MqLink(t) \/ MqFree(t) \/ WaitFailed(t)
          \/ MbReset(t) \/ MqReset(t)
          \/ DeleteBegin(t) \/ DeleteResume(t) \/ DeleteEnd(t) \/ Create(t)
    \/ MbIsrSend \/ MqIsrSend
    \/ ProcessorStep /\ Pauses /\ UNCHANGED <<kind, store, job, alive>>

Spec == Init /\ [][Next]_chanVars

-----------------------------------------------------------------------------
(* Properties *)

\* Types of the variables.
TypeOK ==
    /\ k \in KState
    /\ pc \in [Thread -> ChanPC]
    /\ isr \in {"none", "timers"}
    /\ kind \in {"mb", "mq"}
    /\ entry \in 0 .. Size
    /\ ring \in [pool : [0 .. Size - 1 -> Msg \cup {None}], in : 0 .. Size - 1,
                 out : 0 .. Size - 1]
    /\ lists \in [free : Seq(Block), queue : Seq(Block)]
    /\ text \in [Block -> Msg \cup {None}]
    /\ block \in [Thread -> Block \cup {None}]
    /\ job \in [Thread -> [op : {"none", "send", "recv"}, limit : {"no", "limited", "forever"}]]
    /\ alive \in BOOLEAN
    /\ event \in [call : {"none", "send", "urgent", "recv", "take", "clear"},
                  msg : Msg \cup {None}]

Room == IF kind = "mb" THEN Size - entry ELSE Len(lists.free)

\* No wakeup is lost: when threads wait although there are messages, or free
\* places, as many receivers, or senders, are already on their way, whoever took
\* what others were woken for.
NoLostWakeup ==
    /\ k.wait[Rx] # << >> => entry <= Cardinality(Woken("recv"))
    /\ k.wait[Tx] # << >> => Room <= Cardinality(Woken("send"))

\* A message block is in the queue, free, or in the hands of exactly one thread,
\* through every interleaving of calls that copy with interrupts enabled, and
\* entry counts the blocks in the queue.
BlocksConserved ==
    /\ TypeOK
    /\ IsInjective(lists.free \o lists.queue)
    /\ \A t, u \in Thread : block[t] # None /\ t # u => block[t] # block[u]
    /\ \A b \in Block :
          b \in ToSet(lists.free \o lists.queue) <=> \A t \in Thread : block[t] # b
    /\ kind = "mq" => entry = Len(lists.queue)

\* The threads that have a block in their hands.
Copying == {"link", "push", "copy"}

\* Who is in a suspend list: receivers in one, senders in the other, and no error.
Queued ==
    /\ \A o \in Obj \ {Rx, Tx} : k.wait[o] = << >>
    /\ \A t \in ToSet(k.wait[Rx]) : job[t].op = "recv" /\ k.err[t] = "EOK"
    /\ \A t \in ToSet(k.wait[Tx]) : job[t].op = "send" /\ k.err[t] = "EOK"

\* Nobody comes back to a channel that is being deleted or is deleted.
Abandoned ==
    ~Usable => /\ Woken("send") = {} /\ Woken("recv") = {}
               /\ \A t \in Thread : pc[t] \notin Copying

\* A thread between the two regions of a call has a block, nobody else has; a
\* block in use holds a message.
InHand ==
    /\ \A t \in Thread : /\ block[t] # None <=> pc[t] \in Copying
                         /\ pc[t] \in Copying => kind = "mq" /\ text[block[t]] \in Msg
    /\ \A i \in 1 .. Len(lists.queue) : text[lists.queue[i]] \in Msg

\* A sender's block holds the message it sends.
Sending == \A t \in Thread : pc[t] \in {"link", "push"} => text[block[t]] = MsgOf[t]

\* The i-th place from out_offset on; in_offset is behind the words in the ring.
RingPlace(i) ==
    IF ring.out + i - 1 < Size THEN ring.out + i - 1 ELSE ring.out + i - 1 - Size

RingMeets == kind = "mb" => ring.in = RingPlace(entry + 1)

\* The properties above with what they need from each other.
Inductive ==
    /\ ThreadsOK /\ NoLostWakeup /\ BlocksConserved /\ Queued /\ Abandoned
    /\ InHand /\ Sending /\ RingMeets

\* The messages in the channel, the next one first, and those in receivers' hands.
Contents ==
    IF kind = "mb" THEN [i \in 1 .. entry |-> ring.pool[RingPlace(i)]]
    ELSE [i \in 1 .. Len(lists.queue) |-> text[lists.queue[i]]]

Held == [t \in Thread |-> IF pc[t] = "copy" THEN text[block[t]] ELSE None]

Abs == INSTANCE MessageChannel WITH
    Client <- Thread, FrontMsg <- Msg, Nothing <- None, Bound <- Size,
    items <- Contents, hand <- Held

\* The channel implements the bounded sequence of messages: a send adds the
\* sender's message at the end, an urgent one in front, a receiver returns with
\* the first one, unchanged since it was sent although blocks are copied with
\* interrupts enabled, and only a reset or a new channel loses any (ipc.c).
ImplementsChannel == Abs!AbsSpec

=============================================================================
