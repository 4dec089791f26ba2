----------------------------- MODULE PageAlloc -----------------------------
(***************************************************************************)
(* What a page allocator promises (uk_palloc, uk_pfree and uk_alloc_addmem *)
(* of lib/ukalloc): the objects it has given out lie in memory it was      *)
(* given and do not overlap, and one that is freed can be given out again. *)
(***************************************************************************)
EXTENDS Naturals

VARIABLES mem,  \* the pages the allocator was given to manage
          live  \* the number of pages of each object, by its first page

pageVars == <<mem, live>>

Span(p, n) == p .. p + n - 1

InUse == UNION {Span(p, live[p]) : p \in DOMAIN live}

PageInit == mem = {} /\ live = [p \in {} |-> 0]

AddMem(pages) ==
  /\ pages \cap mem = {}
  /\ mem' = mem \cup pages
  /\ UNCHANGED live

Palloc(p, n) ==
  /\ Span(p, n) \subseteq mem \ InUse
  /\ live' = [q \in DOMAIN live \cup {p} |-> IF q = p THEN n ELSE live[q]]
  /\ UNCHANGED mem

Pfree(p) ==
  /\ p \in DOMAIN live
  /\ live' = [q \in DOMAIN live \ {p} |-> live[q]]
  /\ UNCHANGED mem

\* mem' and the new object are read off the step, so that TLC need not
\* enumerate ranges of pages.
PageNext ==
  \/ AddMem(mem' \ mem)
  \/ \E p \in DOMAIN live' \ DOMAIN live : Palloc(p, live'[p])
  \/ \E p \in DOMAIN live : Pfree(p)

PageSpec == PageInit /\ [][PageNext]_pageVars
=============================================================================
