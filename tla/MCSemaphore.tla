---------------------------- MODULE MCSemaphore ----------------------------
(* Small instances of Semaphore: the idle thread and three workers. *)
EXTENDS Semaphore, TLC

CONSTANTS idle, x, y, z, sem

MCThread == {idle, x, y, z}
MCObj == {sem}

\* x is the most urgent; y and z share a priority.
MixedPrio == idle :> 2 @@ x :> 0 @@ y :> 1 @@ z :> 1
MixedReady == 0 :> << >> @@ 1 :> <<y, z>> @@ 2 :> <<idle>>

\* All workers share a priority.
EqualPrio == idle :> 1 @@ x :> 0 @@ y :> 0 @@ z :> 0
EqualReady == 0 :> <<y, z>> @@ 1 :> <<idle>>
=============================================================================
