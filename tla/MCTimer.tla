------------------------------ MODULE MCTimer ------------------------------
(* A small instance of Timer: some timers are periodic, ticks wrap. *)
EXTENDS Timer

CONSTANT MCPeriodic

MCBoot == {[t \in AppTimer |-> IF t \in MCPeriodic
                               THEN [init |-> 1, periodic |-> TRUE]
                               ELSE [init |-> 0, periodic |-> FALSE]]}
=============================================================================
