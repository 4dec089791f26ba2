------------------------------- MODULE MCLibs -------------------------------
(***************************************************************************)
(* Three libraries that do not interact, side by side: the mailbox, the    *)
(* page allocator and the lock-free ring.  One works while the other two   *)
(* are at rest in their initial state, so that each goes through all of    *)
(* its behaviours and their states add up.                                 *)
(***************************************************************************)
EXTENDS Mbox, Buddy, RingBulk

Init == MboxInit /\ BuddyInit /\ BulkInit

Next ==
  \/ BuddyInit /\ BulkInit /\ MboxNext /\ UNCHANGED <<buddyVars, bulkVars>>
  \/ MboxInit /\ BulkInit /\ BuddyNext /\ UNCHANGED <<mboxVars, bulkVars>>
  \/ MboxInit /\ BuddyInit /\ BulkNext /\ UNCHANGED <<mboxVars, buddyVars>>

Spec == Init /\ [][Next]_<<mboxVars, buddyVars, bulkVars>>

-----------------------------------------------------------------------------
Page(n) == n * 4096

\* A first range that leaves five pages of data from page 4 on, after the two
\* pages that the initialisation skips, and is not aligned to pages; one that
\* leaves two; and one that is too small to be used.
SmallRanges == {<<Page(1) - 100, Page(8) + 200>>, <<Page(11), Page(3)>>, <<Page(20), Page(1)>>}

\* States of the ring are told apart by what can still be read: not by slots that are
\* free, nor by a head that will be read again.
LiveRing ==
  <<indices,
    IF zeroed THEN br_ring ELSE Content(br_cons_tail, Minus(br_prod_head, br_cons_tail)),
    [p \in Producer |-> IF prod[p].pc = "head" THEN [prod[p] EXCEPT !.head = 0, !.n = 0]
                        ELSE prod[p]],
    [c \in Consumer |-> IF cons[c].pc = "head" THEN [cons[c] EXCEPT !.head = 0] ELSE cons[c]]>>

Live == <<mboxVars, buddyVars, LiveRing>>

\* Threads, and messages, are interchangeable.
Symmetries == Permutations(Thread) \cup Permutations(Msg)
=============================================================================
