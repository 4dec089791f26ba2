----------------------------- MODULE MCThreads -----------------------------
(***************************************************************************)
(* Threads that create, join, detach and kill each other.                  *)
(***************************************************************************)
EXTENDS Threads, TLC

\* All threads but Main are interchangeable.
OtherThreads == Permutations(Thread \ {Main})
=============================================================================
