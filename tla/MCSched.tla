------------------------------ MODULE MCSched ------------------------------
(* Small instances of Sched: the idle thread, the main thread and one or two more. *)
EXTENDS Sched, TLC

CONSTANTS idle, main, a, b

TwoThreads == {idle, main, a}
ThreeThreads == {idle, main, a, b}
MCSymmetry == Permutations({a, b})
=============================================================================
