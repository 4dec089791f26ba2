------------------------------- MODULE Buddy -------------------------------
(***************************************************************************)
(* The binary buddy page allocator (lib/ukallocbbuddy).                    *)
(*                                                                         *)
(* Addresses of memory regions are bytes; everything the allocator keeps   *)
(* is named by page number.  The free lists are sequences with the head of *)
(* the list first.  The header of a free chunk lies in the chunk, so a     *)
(* client that is given the chunk overwrites it with whatever it likes.    *)
(***************************************************************************)
EXTENDS Integers, SequencesExt

CONSTANTS PAGE_SIZE,      \* __PAGE_SIZE
          BITS_PER_BYTE,
          MAPWORD,        \* BYTES_PER_MAPWORD
          MEMR_SIZE,      \* sizeof(struct uk_bbpalloc_memr)
          METALEN,        \* round_pgup(sizeof(*a) + sizeof(*b))
          FREELIST_SIZE,  \* number of free lists
          Ranges,         \* the memory the platform may hand over: <<base, len>>
          Requests,       \* numbers of pages that clients ask for
          Data            \* what may lie in memory where a chunk's level would be

ASSUME BuddyAssumption ==
  /\ {PAGE_SIZE, BITS_PER_BYTE, MAPWORD, MEMR_SIZE, FREELIST_SIZE} \subseteq Nat \ {0}
  /\ METALEN \in Nat /\ METALEN % PAGE_SIZE = 0
  /\ Ranges \subseteq Nat \X Nat
  /\ Requests \subseteq Nat \ {0}
  /\ Data \subseteq Nat

VARIABLES up,             \* the allocator was initialised
          memr,           \* the list of regions: first page and number of pages
          bitmap,         \* pages whose bit is set, of those in a region
          nr_free_pages,
          free_head,      \* the free lists, by order
          level,          \* the level field at the start of a page
          given,          \* the ranges already handed over
          live            \* number of pages of each object given out

buddyVars == <<up, memr, bitmap, nr_free_pages, free_head, level, given, live>>

Orders == 0 .. FREELIST_SIZE - 1
Span(p, n) == p .. p + n - 1

round_pgup(a) == ((a + PAGE_SIZE - 1) \div PAGE_SIZE) * PAGE_SIZE
round_pgdown(a) == (a \div PAGE_SIZE) * PAGE_SIZE

-----------------------------------------------------------------------------
\* The map of allocated pages.  Bad... are wrong variants of the definitions
\* that follow them; nothing uses them.

InRegion(r, p) == p \in Span(r.first_page, r.nr_pages)

\* map_get_memr: the first region of the list that holds the page, as a set.
map_get_memr(p) ==
  {memr[i] : i \in {i \in DOMAIN memr : /\ InRegion(memr[i], p)
                                        /\ \A j \in 1..i-1 : ~InRegion(memr[j], p)}}

\* Pages outside of any region count as allocated.
allocated_in_map(p, map) == map_get_memr(p) = {} \/ p \in map

\* The assertions of map_alloc and map_free.
InOneRegion(p, n) == \E r \in map_get_memr(p) : p + n <= r.first_page + r.nr_pages

\* The log of the next power of two.
num_pages_to_order(n) == CHOOSE o \in 0..n : 2^o >= n /\ (o = 0 \/ 2^(o-1) < n)

-----------------------------------------------------------------------------
\* bbuddy_addmem.

Overlaps(r1, r2) == r1[1] < r2[1] + r2[2] /\ r2[1] < r1[1] + r1[2]

\* The part of a range that consists of whole pages.
PgMin(r) == round_pgup(r[1])
PgRange(r) == round_pgdown(r[1] + r[2]) - PgMin(r)

Usable(r) == PgRange(r) >= round_pgup(MEMR_SIZE + MAPWORD) + PAGE_SIZE

nr_pages(r) ==
  (BITS_PER_BYTE * (PgRange(r) - MEMR_SIZE)) \div (BITS_PER_BYTE * PAGE_SIZE + 1)

memr_size(r) ==
  round_pgup(MEMR_SIZE + (nr_pages(r) + BITS_PER_BYTE - 1) \div BITS_PER_BYTE)

first_page(r) == (PgMin(r) + memr_size(r)) \div PAGE_SIZE

\* The pages that follow the region's descriptor and bitmap.
DataPages(r) == (PgRange(r) - memr_size(r)) \div PAGE_SIZE

\* The next chunk is limited by the alignment of its first page p and by the n
\* pages that remain.
ChunkOrder(p, n) ==
  CHOOSE o \in 0..n : /\ 2^o <= n /\ p % 2^o = 0
                      /\ 2^(o+1) > n \/ p % 2^(o+1) # 0

\* The chunks of pages end-n .. end-1, in the order in which they are linked in.
Chunks(end, max) ==
  LET rest[n \in 0..max] ==
        IF n = 0 THEN <<>>
        ELSE LET o == ChunkOrder(end - n, n)
             IN  <<[page |-> end - n, order |-> o]>> \o rest[n - 2^o]
  IN  rest[max]

\* free_head with chunks linked in at the heads of their lists.
LinkIn(lists, chunks) ==
  [o \in Orders |-> Reverse([i \in DOMAIN SelectSeq(chunks, LAMBDA c : c.order = o) |->
                               SelectSeq(chunks, LAMBDA c : c.order = o)[i].page])
                    \o lists[o]]

addmem(r, data) ==
  LET first == first_page(r)
      chunks == Chunks(first + DataPages(r), DataPages(r))
      heads == [p \in {c.page : c \in Range(chunks)} |->
                  (CHOOSE c \in Range(chunks) : c.page = p).order]
  IN  /\ Usable(r)
      /\ memr' = <<[first_page |-> first, nr_pages |-> nr_pages(r)]>> \o memr
      /\ nr_free_pages' = nr_free_pages + nr_pages(r)
      /\ free_head' = LinkIn(free_head, chunks)
      /\ level' = heads @@ level @@ [p \in Span(first, DataPages(r)) |-> data]
      /\ UNCHANGED <<bitmap, live>>

\* uk_alloc_addmem, with a range that nobody else uses.  A range that is too
\* small is refused and changes nothing.
Addmem(r, data) ==
  /\ up
  /\ \A g \in given : ~Overlaps(r, g)
  /\ addmem(r, data)
  /\ given' = given \cup {r}
  /\ UNCHANGED up

\* uk_allocbbuddy_init: what lies METALEN bytes after the descriptor is added,
\* if there is any; that it may be too small is ignored.
InitRange(r) ==
  <<round_pgup(r[1]) + 2 * METALEN,
    round_pgdown(r[1] + r[2]) - round_pgup(r[1]) - 2 * METALEN>>

Initialise(r, data) ==
  /\ ~up
  /\ up' = TRUE
  /\ given' = {r}
  /\ round_pgup(r[1]) + METALEN <= round_pgdown(r[1] + r[2])
  /\ IF InitRange(r)[2] > 0 /\ Usable(InitRange(r))
       THEN addmem(InitRange(r), data)
       ELSE UNCHANGED <<memr, bitmap, nr_free_pages, free_head, level, live>>

-----------------------------------------------------------------------------
\* bbuddy_palloc.

\* The level of a page that a client holds.  What it leaves there is settled when
\* it frees the page: until then allocated_in_map keeps pfree from reading it.
Held == FREELIST_SIZE

Fits(order) == {o \in Orders : o >= order /\ free_head[o] # <<>>}

\* The first chunk of list i is unlinked and its upper halves, down to order,
\* are linked in.
Split(p, order, i) ==
  [o \in Orders |-> IF o = i THEN Tail(free_head[o])
                    ELSE IF o \in order..i-1 THEN <<p + 2^o>> \o free_head[o]
                    ELSE free_head[o]]

Palloc(n) ==
  LET order == num_pages_to_order(n)
      i == CHOOSE o \in Fits(order) : \A k \in Fits(order) : o <= k
      p == Head(free_head[i])
      spare == {p + 2^o : o \in order..i-1}
  IN  /\ up
      /\ Fits(order) # {}
      /\ free_head' = Split(p, order, i)
      /\ bitmap' = bitmap \cup Span(p, 2^order)
      /\ nr_free_pages' = nr_free_pages - 2^order
      /\ level' = [q \in DOMAIN level |->
                     IF q \in spare THEN CHOOSE o \in order..i-1 : q = p + 2^o
                     ELSE IF q \in Span(p, 2^order) THEN Held ELSE level[q]]
      /\ live' = [q \in DOMAIN live \cup {p} |-> IF q = p THEN n ELSE live[q]]
      /\ UNCHANGED <<up, memr, given>>

-----------------------------------------------------------------------------
\* bbuddy_pfree.

BuddyOf(p, o) == IF (p \div 2^o) % 2 = 1 THEN p - 2^o ELSE p + 2^o

\* The chunk of order o that a page belongs to.
Base(p, o) == (p \div 2^o) * 2^o

BadMayMerge(p, o, map) ==  \* the level of the other chunk is not looked at
  ~allocated_in_map(BuddyOf(p, o), map)

BadMergeUp(p, o, map) ==  \* a chunk is merged with its successor only
  /\ ~allocated_in_map(p + 2^o, map)
  /\ level[p + 2^o] = o
  /\ BuddyOf(p, o) = p + 2^o

\* The chunk p of order o, which is free, can be merged with its buddy.
MayMerge(p, o, map) ==
  /\ ~allocated_in_map(BuddyOf(p, o), map)
  /\ level[BuddyOf(p, o)] = o

\* The order the chunk has once it cannot be merged any more.
MergedOrder(p, order, map) ==
  CHOOSE m \in order..FREELIST_SIZE :
    /\ m = FREELIST_SIZE \/ ~MayMerge(Base(p, m), m, map)
    /\ \A o \in order..m-1 : MayMerge(Base(p, o), o, map)

\* The buddies it was merged with are unlinked, and it is linked in.
Merge(p, order, m) ==
  [o \in Orders |-> IF o \in order..m-1 THEN Remove(free_head[o], BuddyOf(Base(p, o), o))
                    ELSE IF o = m THEN <<Base(p, m)>> \o free_head[o]
                    ELSE free_head[o]]

Pfree(p, data) ==
  LET order == num_pages_to_order(live[p])
      map == bitmap \ Span(p, 2^order)
      m == MergedOrder(p, order, map)
  IN  /\ bitmap' = map
      /\ nr_free_pages' = nr_free_pages + 2^order
      /\ free_head' = Merge(p, order, m)
      /\ level' = [q \in DOMAIN level |-> IF q = Base(p, m) THEN m
                                         ELSE IF q \in Span(p, 2^order) THEN data
                                         ELSE level[q]]
      /\ live' = [q \in DOMAIN live \ {p} |-> live[q]]
      /\ UNCHANGED <<up, memr, given>>

BuddyInit ==
  /\ up = FALSE
  /\ memr = <<>>
  /\ bitmap = {}
  /\ nr_free_pages = 0
  /\ free_head = [o \in Orders |-> <<>>]
  /\ level = [p \in {} |-> 0]
  /\ given = {}
  /\ live = [p \in {} |-> 0]

BuddyNext ==
  \/ \E r \in Ranges, d \in Data : Initialise(r, d) \/ Addmem(r, d)
  \/ \E n \in Requests : Palloc(n)
  \/ \E p \in DOMAIN live, d \in Data : Pfree(p, d)

BuddySpec == BuddyInit /\ [][BuddyNext]_buddyVars

-----------------------------------------------------------------------------
Pages == UNION {Span(memr[i].first_page, memr[i].nr_pages) : i \in DOMAIN memr}

Free == {<<p, o>> \in Pages \X Orders : p \in Range(free_head[o])}

Allocated == UNION {Span(p, 2^num_pages_to_order(live[p])) : p \in DOMAIN live}

BuddyTypeOK ==
  /\ up \in BOOLEAN
  /\ \A i \in DOMAIN memr : memr[i] \in [first_page : Nat, nr_pages : Nat]
  /\ bitmap \subseteq DOMAIN level
  /\ nr_free_pages \in Nat
  /\ free_head \in [Orders -> Seq(DOMAIN level)]
  /\ level \in [DOMAIN level -> Nat]
  /\ given \in SUBSET (Nat \X Nat)
  /\ live \in [DOMAIN live -> Requests]

\* The bitmap, the free lists and nr_free_pages agree with what clients hold: the
\* free chunks are aligned, do not overlap, carry their order in their header and
\* consist of exactly the pages whose bit is clear.
FreeExact ==
  /\ bitmap = Allocated
  /\ nr_free_pages = Cardinality(Pages \ bitmap)
  /\ Pages \ bitmap = UNION {Span(c[1], 2^c[2]) : c \in Free}
  /\ \A o \in Orders : IsInjective(free_head[o]) /\ Range(free_head[o]) \subseteq Pages
  /\ \A c \in Free : c[1] % 2^c[2] = 0 /\ level[c[1]] = c[2]
  /\ \A c, d \in Free : c # d => Span(c[1], 2^c[2]) \cap Span(d[1], 2^d[2]) = {}

\* pfree merges all that can be merged: whenever 2^o free pages lie together,
\* aligned, in a region, palloc of 2^o pages succeeds, whatever was allocated and
\* freed before, in whatever order.
NoFragmentation ==
  \A o \in Orders : \A p \in Pages :
    p % 2^o = 0 /\ Span(p, 2^o) \subseteq Pages \ bitmap => Fits(o) # {}

\* The assertions of map_alloc and map_free on the chunk palloc would take next and
\* on the objects clients may free: they lie within one region.
MapAsserts ==
  /\ \A o \in Orders : free_head[o] # <<>> => InOneRegion(Head(free_head[o]), 2^o)
  /\ \A p \in DOMAIN live : InOneRegion(p, 2^num_pages_to_order(live[p]))

\* The allocator's own data are consistent: types, free lists and bitmap, merging of
\* buddies, and the assertions of map_alloc and map_free.
BuddyInv == BuddyTypeOK /\ FreeExact /\ NoFragmentation /\ MapAsserts

Abs == INSTANCE PageAlloc WITH mem <- Pages

\* The allocator gives out memory that it was given and that nobody holds.
PagesNotShared == Abs!PageSpec
=============================================================================
