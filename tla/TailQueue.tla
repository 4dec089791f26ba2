----------------------------- MODULE TailQueue -----------------------------
(***************************************************************************)
(* The lists of uk/compat_list.h, each as the sequence of its elements:    *)
(* Append inserts at the tail, Head is the first element.                  *)
(***************************************************************************)
EXTENDS Integers, Sequences, Functions

TAILQ_INSERT_HEAD(q, t) == <<t>> \o q

\* What is left when t, which is on the list once, is unlinked.
TAILQ_REMOVE(q, t) ==
  IF t \notin Range(q) THEN q
  ELSE LET k == CHOOSE i \in DOMAIN q : q[i] = t
       IN  [i \in 1 .. Len(q) - 1 |-> IF i < k THEN q[i] ELSE q[i + 1]]
=============================================================================
