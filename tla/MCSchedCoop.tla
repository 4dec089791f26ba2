---------------------------- MODULE MCSchedCoop ----------------------------
(***************************************************************************)
(* The scheduler under its most general client: Main and one or two more   *)
(* threads, every interrupt, every deadline up to MaxTime.                 *)
(***************************************************************************)
EXTENDS SchedCoop, TLC

\* All threads but Main are interchangeable.
OtherThreads == Permutations(Thread \ {Main})
=============================================================================
