--------------------------- MODULE MessageChannel ---------------------------
(***************************************************************************)
(* What a mailbox, a message queue or a data queue promises, without       *)
(* threads, rings or blocks: a bounded sequence of messages.  A send adds  *)
(* its message at the end, an urgent one in front, a receiver gets the     *)
(* first one, and only a reset or a new channel loses any.  A message that *)
(* a receiver copies stays as it was taken.  The event of a step is the    *)
(* call that takes effect in it with the caller's message, so that a step  *)
(* is tied to what was asked for.                                          *)
(***************************************************************************)
EXTENDS Naturals, Sequences

CONSTANTS
    Client,     \* the receivers
    Msg,        \* the messages
    FrontMsg,   \* the messages that may be sent urgently
    Nothing,    \* no message
    Bound       \* the number of messages the channel holds

VARIABLES
    items,      \* the messages in the channel, the next one first
    hand,       \* the message a receiver is copying, or Nothing
    event       \* what the last step did

chanAbsVars == <<items, hand, event>>

Happens(call, m) == event' = [call |-> call, msg |-> m]

AbsInit ==
    /\ items = << >>
    /\ hand = [t \in Client |-> Nothing]
    /\ event = [call |-> "none", msg |-> Nothing]

Send(m) ==
    /\ Len(items) < Bound
    /\ items' = Append(items, m)
    /\ Happens("send", m)
    /\ UNCHANGED hand

Urgent(m) ==
    /\ Len(items) < Bound
    /\ items' = <<m>> \o items
    /\ Happens("urgent", m)
    /\ UNCHANGED hand

\* The first message goes to a receiver, which has it at once ...
Recv ==
    /\ items # << >>
    /\ items' = Tail(items)
    /\ Happens("recv", Head(items))
    /\ UNCHANGED hand

\* ... or takes it, copies it, and has it then.
Take(t) ==
    /\ items # << >>
    /\ items' = Tail(items)
    /\ hand' = [hand EXCEPT ![t] = Head(items)]
    /\ Happens("take", Head(items))

Copied(t) ==
    /\ hand[t] # Nothing
    /\ hand' = [hand EXCEPT ![t] = Nothing]
    /\ Happens("recv", hand[t])
    /\ UNCHANGED items

\* A reset, or a new channel in place of a deleted one.
Clear == items' = << >> /\ Happens("clear", Nothing) /\ UNCHANGED hand

\* Any other step of the system.
Pause == Happens("none", Nothing) /\ UNCHANGED <<items, hand>>

AbsNext ==
    \/ \E m \in Msg : Send(m)
    \/ \E m \in FrontMsg : Urgent(m)
    \/ Recv
    \/ \E t \in Client : Take(t) \/ Copied(t)
    \/ Clear
    \/ Pause

AbsSpec == AbsInit /\ [][AbsNext]_chanAbsVars

=============================================================================
