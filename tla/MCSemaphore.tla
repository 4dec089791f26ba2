---------------------------- MODULE MCSemaphore ----------------------------
(***************************************************************************)
(* The semaphore with up to three threads, interrupts and deadlines.       *)
(***************************************************************************)
EXTENDS Semaphore, TLC

\* All threads but Main are interchangeable.
OtherThreads == Permutations(Thread \ {Main})
=============================================================================
