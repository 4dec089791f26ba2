------------------------------ MODULE MCMutex ------------------------------
(***************************************************************************)
(* The mutex with three threads and interrupts.                            *)
(***************************************************************************)
EXTENDS Mutex
=============================================================================
