-------------------------------- MODULE MCIo --------------------------------
(***************************************************************************)
(* Files and drivers: the connection with the Xenstore, the descriptor     *)
(* table, and the 9P client on virtio.  A behaviour is that of one part,   *)
(* chosen at the start; the others stay in their initial state.            *)
(***************************************************************************)
EXTENDS XsComms, FdTable, Virtio9p, TLC

VARIABLE part

ASSUME Uk9pAssumption

Init ==
  /\ part \in {"xenstore", "fdtable", "virtio_9p"}
  /\ XsInit /\ FdInit /\ V9pInit

Next ==
  /\ UNCHANGED part
  /\ \/ part = "xenstore" /\ XsNext /\ UNCHANGED <<fdVars, v9pVars>>
     \/ part = "fdtable" /\ FdNext /\ UNCHANGED <<xsVars, v9pVars>>
     \/ part = "virtio_9p" /\ V9pNext /\ UNCHANGED <<xsVars, fdVars>>

Spec == Init /\ [][Next]_<<part, xsVars, fdVars, v9pVars>>

\* Threads are interchangeable.
Symmetries == Permutations(Thread)
=============================================================================
