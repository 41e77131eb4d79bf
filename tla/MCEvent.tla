------------------------------ MODULE MCEvent ------------------------------
(* A small instance of Event: the idle thread, three workers and two bits. *)
EXTENDS Event, TLC

CONSTANTS idle, x, y, z, ev, bit1, bit2

MCThread == {idle, x, y, z}
MCObj == {ev}
MCBits == {bit1, bit2}

\* x is the most urgent; y and z share a priority.
MCPrio == idle :> 2 @@ x :> 0 @@ y :> 1 @@ z :> 1
MCReady == 0 :> << >> @@ 1 :> <<y, z>> @@ 2 :> <<idle>>

\* All of two bits, one of two bits, and one bit that stays set.
MCRequests ==
    { [want |-> {bit1, bit2}, and |-> TRUE, clear |-> TRUE],
      [want |-> {bit1, bit2}, and |-> FALSE, clear |-> TRUE],
      [want |-> {bit1}, and |-> FALSE, clear |-> FALSE] }
=============================================================================
