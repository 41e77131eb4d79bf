------------------------------ MODULE MCMutex ------------------------------
(* Small instances of Mutex: the idle thread and three workers. *)
EXTENDS Mutex, TLC

CONSTANTS idle, x, y, z, none, m, n

MCThread == {idle, x, y, z}
OneMutex == {m}
TwoMutexes == {m, n}

\* Three distinct priorities above the idle thread's.
MCPrio == idle :> 3 @@ x :> 0 @@ y :> 1 @@ z :> 2
MCReady == 0 :> << >> @@ 1 :> <<y>> @@ 2 :> <<z>> @@ 3 :> <<idle>>
=============================================================================
