------------------------------- MODULE Event -------------------------------
(***************************************************************************)
(* The event object of ipc.c: a set of event bits, threads that wait for   *)
(* all (AND) or some (OR) of the bits they ask for, with or without        *)
(* clearing the bits they get, and threads and interrupt handlers that     *)
(* send bits.  One send may wake several threads.                          *)
(***************************************************************************)
EXTENDS Workers

CONSTANTS
    Ev,         \* the event object, a member of Obj
    Bits,       \* the event bits in use
    Requests,   \* what threads ask for: [want, and, clear] records
    Flag,       \* RT_IPC_FLAG_FIFO or RT_IPC_FLAG_PRIO
    Waits       \* the time limits given to rt_event_recv

ASSUME EventAssumption ==
    /\ Ev \in Obj
    /\ Requests \subseteq [want : (SUBSET Bits) \ {{}}, and : BOOLEAN, clear : BOOLEAN]
    /\ Flag \in {"FIFO", "PRIO"}
    /\ Waits \subseteq {"no", "limited", "forever"}

VARIABLES
    set,        \* event->set
    eset,       \* thread->event_set: the bits a waiting thread asks for, then
                \* the bits it has been woken with; {} when it is not used
    req,        \* history: the unfinished request of a thread; its and and
                \* clear fields are thread->event_info
    alive       \* the event object exists

eventVars == <<k, pc, isr, set, eset, req, alive>>

EventPC == {"run", "sched", "wait", "waited"} \cup Deleting

NoRequest == [want |-> {}, and |-> FALSE, clear |-> FALSE]

Init ==
    /\ k = KBoot
    /\ pc = [t \in Thread |-> "run"]
    /\ isr = "none"
    /\ set = {}
    /\ eset = [t \in Thread |-> {}]
    /\ req = [t \in Thread |-> NoRequest]
    /\ alive = TRUE

\* An event object that exists and that nobody is deleting may be used.
Usable == alive /\ \A t \in Thread : pc[t] \notin Deleting

Call(t) == Calling(t) /\ Usable

\* Mutant: RT_EVENT_FLAG_AND is treated like RT_EVENT_FLAG_OR.
Mut_meets_some(s, w, and) == w \cap s # {}

\* The bits s meet a request for the bits w.
Meets(s, w, and) == IF and THEN w \subseteq s ELSE w \cap s # {}

-----------------------------------------------------------------------------
(* rt_event_recv *)

\* The bits are there; nobody reads the event_set of a thread that has not
\* waited.
Recv(t, r) ==
    /\ Call(t)
    /\ Meets(set, r.want, r.and)
    /\ k' = [k EXCEPT !.err[t] = "EOK"]
    /\ set' = IF r.clear THEN set \ r.want ELSE set
    /\ UNCHANGED <<pc, isr, eset, req, alive>>

RecvRefused(t, r) ==
    /\ Call(t)
    /\ "no" \in Waits
    /\ ~Meets(set, r.want, r.and)
    /\ k' = [k EXCEPT !.err[t] = "ETIMEOUT"]
    /\ UNCHANGED <<pc, isr, set, eset, req, alive>>

\* The thread waits; up to its rt_schedule.
RecvWait(t, r, w) ==
    /\ Call(t)
    /\ w \in Waits \ {"no"}
    /\ ~Meets(set, r.want, r.and)
    /\ k' = StartTimer(_ipc_list_suspend([k EXCEPT !.err[t] = "EOK"], Ev, t, Flag),
                       t, w = "limited")
    /\ eset' = [eset EXCEPT ![t] = r.want]
    /\ req' = [req EXCEPT ![t] = r]
    /\ Goto(t, "wait")
    /\ UNCHANGED <<isr, set, alive>>

\* After its rt_schedule: an error code, or the bits in event_set, which nobody
\* reads again before the next request sets it.
RecvReturn(t) ==
    /\ Executing(t)
    /\ pc[t] = "waited"
    /\ eset' = [eset EXCEPT ![t] = {}]
    /\ req' = [req EXCEPT ![t] = NoRequest]
    /\ Goto(t, "run")
    /\ UNCHANGED <<k, isr, set, alive>>

-----------------------------------------------------------------------------
(* rt_event_send *)

\* Mutant: the bits a thread is woken with are not cleared.
Mut_send_keeps_bits(s, t) ==
    IF Meets(s.set, s.eset[t], req[t].and)
    THEN [ s EXCEPT !.k = rt_thread_resume(s.k, t),
                    !.eset[t] = @ \cap s.set ]
    ELSE s

\* One turn of the loop over the suspend list: a thread whose request is met
\* gets its bits, which are cleared if it asked for that, and is resumed.
SendTurn(s, t) ==
    IF Meets(s.set, s.eset[t], req[t].and)
    THEN LET got == s.eset[t] \cap s.set
         IN  [ s EXCEPT !.k = rt_thread_resume(s.k, t),
                        !.eset[t] = got,
                        !.set = IF req[t].clear THEN @ \ got ELSE @ ]
    ELSE s

\* Mutant: the loop ends at the first thread of the list.
Mut_send_first_only(b) ==
    LET s == [k |-> k, set |-> set \cup b, eset |-> eset]
    IN  IF k.wait[Ev] = << >> THEN s ELSE SendTurn(s, Head(k.wait[Ev]))

\* The region of rt_event_send: kernel state, event set and event_set fields.
Sent(b) ==
    LET after[n \in 0 .. Len(k.wait[Ev])] ==
            IF n = 0 THEN [k |-> k, set |-> set \cup b, eset |-> eset]
            ELSE SendTurn(after[n - 1], k.wait[Ev][n])
    IN  after[Len(k.wait[Ev])]

\* rt_event_send by a thread.
Send(t, b) ==
    /\ Call(t)
    /\ LET s == Sent(b)
       IN  /\ k' = s.k
           /\ set' = s.set
           /\ eset' = s.eset
           /\ IF s.k # k THEN Goto(t, "sched") ELSE UNCHANGED pc
    /\ UNCHANGED <<isr, req, alive>>

\* rt_event_send by an interrupt handler, its rt_schedule included.
IsrSend(b) ==
    /\ isr = "none"
    /\ Usable
    /\ LET s == Sent(b)
       IN  /\ k' = IF s.k # k THEN rt_schedule(s.k) ELSE k
           /\ set' = s.set
           /\ eset' = s.eset
    /\ UNCHANGED <<pc, isr, req, alive>>

-----------------------------------------------------------------------------
(* rt_event_control, rt_event_delete, rt_event_detach, rt_event_create *)

\* RT_IPC_CMD_RESET: every wait fails and the set is emptied, in one region.
Reset(t) ==
    /\ Call(t)
    /\ k' = ResumeAll(k, Ev)
    /\ set' = {}
    /\ Goto(t, "sched")
    /\ UNCHANGED <<isr, eset, req, alive>>

\* Nobody deletes the object while a thread waits for it with a time limit.
DeleteBegin(t) ==
    /\ Call(t)
    /\ ToSet(k.wait[Ev]) \cap k.timer = {}
    /\ Goto(t, "delall")
    /\ UNCHANGED <<k, isr, set, eset, req, alive>>

DeleteResume(t) ==
    /\ ResumeAllLook(t, Ev) \/ ResumeAllTurn(t, Ev)
    /\ UNCHANGED <<set, eset, req, alive>>

DeleteEnd(t) ==
    /\ Executing(t)
    /\ pc[t] = "delobj"
    /\ alive' = FALSE
    /\ Goto(t, "run")
    /\ UNCHANGED <<k, isr, set, eset, req>>

\* A new object takes the place of the deleted one once every call on that one
\* has returned.
Create(t) ==
    /\ Calling(t)
    /\ ~alive
    /\ \A u \in Worker : ~Blocked(u)
    /\ alive' = TRUE
    /\ set' = {}
    /\ UNCHANGED <<k, pc, isr, eset, req>>

Next ==
    \/ \E t \in Thread :
          \/ RecvReturn(t) \/ Reset(t) \/ DeleteBegin(t) \/ DeleteResume(t)
          \/ DeleteEnd(t) \/ Create(t)
          \/ \E b \in (SUBSET Bits) \ {{}} : Send(t, b)
          \/ \E r \in Requests :
                \/ Recv(t, r) \/ RecvRefused(t, r)
                \/ \E w \in Waits : RecvWait(t, r, w)
    \/ \E b \in (SUBSET Bits) \ {{}} : IsrSend(b)
    \/ ProcessorStep /\ UNCHANGED <<set, eset, req, alive>>

Spec == Init /\ [][Next]_eventVars

-----------------------------------------------------------------------------
(* Properties *)

\* Types of the variables.
TypeOK ==
    /\ k \in KState
    /\ pc \in [Thread -> EventPC]
    /\ isr \in {"none", "timers"}
    /\ set \subseteq Bits
    /\ eset \in [Thread -> SUBSET Bits]
    /\ req \in [Thread -> Requests \cup {NoRequest}]
    /\ alive \in BOOLEAN

\* No event is missed: nobody waits for bits that are set, although one send
\* wakes several threads and each may clear what the next one asks for, and
\* although a request and a send may meet at any interrupt.
NoMissedEvent ==
    /\ TypeOK
    /\ \A t \in ToSet(k.wait[Ev]) : ~Meets(set, req[t].want, req[t].and)

\* A thread woken without an error has bits it asked for: all of them with
\* RT_EVENT_FLAG_AND, at least one with RT_EVENT_FLAG_OR, and no others; a
\* time-out, reset or deletion leaves event_set as it was requested.
Delivered ==
    \A t \in Worker : Blocked(t) =>
        IF t \in ToSet(k.wait[Ev]) \/ k.err[t] # "EOK"
        THEN eset[t] = req[t].want
        ELSE /\ eset[t] # {}
             /\ eset[t] \subseteq req[t].want
             /\ req[t].and => eset[t] = req[t].want

\* Threads that one send wakes and that asked for RT_EVENT_FLAG_CLEAR share no
\* bit, and what they got is no longer set.
Woken == {t \in ToSet(k.wait[Ev]) : t \notin ToSet(k'.wait[Ev]) /\ k'.err[t] = "EOK"}

ConsumedOnce ==
    [][\A t \in Woken : req[t].clear =>
          /\ eset'[t] \cap set' = {}
          /\ \A u \in Woken \ {t} : req[u].clear => eset'[t] \cap eset'[u] = {}]_eventVars

\* The inductive invariant: the threads are as every service keeps them, only the
\* list of the event is used, a thread on it has no error yet, and a thread in
\* rt_event_recv has a request.
Asking ==
    /\ \A o \in Obj \ {Ev} : k.wait[o] = << >>
    /\ \A t \in ToSet(k.wait[Ev]) : k.err[t] = "EOK"
    /\ \A t \in Thread : Blocked(t) => req[t] \in Requests

Inductive == ThreadsOK /\ NoMissedEvent /\ Delivered /\ Asking

=============================================================================
