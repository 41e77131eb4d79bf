---------------------------- MODULE MCWorkQueue ----------------------------
(* A small instance of WorkQueue: the timer thread is more urgent than the *)
(* clients, and they are more urgent than the work thread, as with         *)
(* RT_TIMER_THREAD_PRIO 4 and RT_SYSTEM_WORKQUEUE_PRIORITY 23.             *)
EXTENDS WorkQueue, TLC

MCUrgency == "handler" :> 0 @@ "client" :> 1 @@ "worker" :> 2
=============================================================================
