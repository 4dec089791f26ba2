------------------------------ MODULE RingBulk ------------------------------
(***************************************************************************)
(* The bulk operations of the lock-free ring (include/uk/ring.h): several  *)
(* CPUs enqueue and dequeue.  A producer reserves slots by moving          *)
(* br_prod_head with compare-and-exchange, fills them, and publishes them  *)
(* by moving br_prod_tail, in the order of reservation; consumers do the   *)
(* same with the consumer's indices.                                       *)
(*                                                                         *)
(* Each read or write of shared memory is a step.  Memory is sequentially  *)
(* consistent: the barriers of the code order the accesses that matter.    *)
(***************************************************************************)
EXTENDS Integers, Sequences

CONSTANTS size,      \* number of slots, a power of two
          IdxMod,    \* indices are unsigned 32-bit: 2^32
          Producer, Consumer, Value,
          MaxBurst   \* bound on the elements of a call

ASSUME RingBulkAssumption ==
  /\ size \in Nat \ {0} /\ IdxMod \in Nat /\ IdxMod % size = 0 /\ IdxMod > size
  /\ MaxBurst \in Nat \ {0}

VARIABLES br_prod_head, br_prod_tail, br_cons_head, br_cons_tail,
          br_ring,
          prod,   \* local state of the producers
          cons,   \* local state of the consumers
          zeroed  \* a head that has wrapped was moved to 0 exactly; read by no action

indices == <<br_prod_head, br_prod_tail, br_cons_head, br_cons_tail, zeroed>>
bulkVars == <<indices, br_ring, prod, cons>>

Plus(i, n) == (i + n) % IdxMod
Minus(i, j) == (i - j + IdxMod) % IdxMod
Slot(i) == i % size

\* buf: what is to be enqueued, or what has been copied out; head, n: the slots
\* reserved; i: elements copied
Idle == [pc |-> "idle", head |-> 0, n |-> 0, i |-> 0, buf |-> <<>>]

BulkInit ==
  /\ br_prod_head = 0 /\ br_prod_tail = 0 /\ br_cons_head = 0 /\ br_cons_tail = 0
  /\ br_ring \in [0..size-1 -> Value]
  /\ prod = [p \in Producer |-> Idle]
  /\ cons = [c \in Consumer |-> Idle]
  /\ zeroed = FALSE

SmallerOf(a, b) == IF a < b THEN a ELSE b

\* ukarch_compare_exchange_sync gives the new value when it has stored it and else the
\* old one; the caller takes any value but 0 for success, and repeats the exchange if it
\* has stored 0.
Exchanged(stored, old, new) == (IF stored THEN new ELSE old) # 0

-----------------------------------------------------------------------------
\* enqueue_bulk_mc.  Bad... are wrong variants of the definitions that follow them.

EnqueueBulk(p, vs) ==
  /\ prod[p].pc = "idle"
  /\ prod' = [prod EXCEPT ![p] = [Idle EXCEPT !.pc = "head", !.buf = vs]]
  /\ UNCHANGED <<indices, br_ring, cons>>

\* move_prod_head: the head is read,
ReadProdHead(p) ==
  /\ prod[p].pc = "head"
  /\ prod' = [prod EXCEPT ![p].pc = "free", ![p].head = br_prod_head]
  /\ UNCHANGED <<indices, br_ring, cons>>

FreeEntries(p) == Minus(Plus(size, br_cons_tail), prod[p].head)

\* then br_cons_tail, which says how many slots are free,
CheckFree(p) ==
  LET n == SmallerOf(Len(prod[p].buf), FreeEntries(p))
  IN  /\ prod[p].pc = "free"
      /\ prod' = [prod EXCEPT ![p] = IF n = 0 THEN Idle
                                     ELSE [@ EXCEPT !.pc = "cas", !.n = n]]
      /\ UNCHANGED <<indices, br_ring, cons>>

\* and the head is moved if nobody has moved it since.
MoveProdHead(p) ==
  LET stored == br_prod_head = prod[p].head
      new == Plus(prod[p].head, prod[p].n)
  IN  /\ prod[p].pc = "cas"
      /\ br_prod_head' = IF stored THEN new ELSE br_prod_head
      /\ prod' = [prod EXCEPT ![p].pc = IF Exchanged(stored, prod[p].head, new)
                                           THEN "copy" ELSE "head"]
      /\ zeroed' = (zeroed \/ (stored /\ new = 0))
      /\ UNCHANGED <<br_prod_tail, br_cons_head, br_cons_tail, br_ring, cons>>

BadCopyIn(p) ==  \* all slots are published after the first has been filled
  /\ prod[p].pc = "copy"
  /\ br_ring' = [br_ring EXCEPT ![Slot(prod[p].head)] = prod[p].buf[1]]
  /\ prod' = [prod EXCEPT ![p].pc = "wait"]
  /\ UNCHANGED <<indices, cons>>

\* The slots are filled one by one, across the end of the ring.
CopyIn(p) ==
  /\ prod[p].pc = "copy"
  /\ br_ring' = [br_ring EXCEPT ![Slot(prod[p].head + prod[p].i)] = prod[p].buf[prod[p].i + 1]]
  /\ prod' = [prod EXCEPT ![p].i = @ + 1,
                          ![p].pc = IF prod[p].i + 1 = prod[p].n THEN "wait" ELSE "copy"]
  /\ UNCHANGED <<indices, cons>>

\* Once earlier enqueues have published their slots, these are published.
Publish(p) ==
  /\ prod[p].pc = "wait"
  /\ br_prod_tail = prod[p].head
  /\ br_prod_tail' = Plus(prod[p].head, prod[p].n)
  /\ prod' = [prod EXCEPT ![p] = Idle]
  /\ UNCHANGED <<br_prod_head, br_cons_head, br_cons_tail, zeroed, br_ring, cons>>

-----------------------------------------------------------------------------
\* dequeue_bulk_mc.

DequeueBulk(c, n) ==
  /\ cons[c].pc = "idle"
  /\ cons' = [cons EXCEPT ![c] = [Idle EXCEPT !.pc = "head", !.n = n]]
  /\ UNCHANGED <<indices, br_ring, prod>>

ReadConsHead(c) ==
  /\ cons[c].pc = "head"
  /\ cons' = [cons EXCEPT ![c].pc = "entries", ![c].head = br_cons_head]
  /\ UNCHANGED <<indices, br_ring, prod>>

Entries(c) == Minus(br_prod_tail, cons[c].head)

\* i holds the number of elements to take until the head has been moved.
CheckEntries(c) ==
  LET n == SmallerOf(cons[c].n, Entries(c))
  IN  /\ cons[c].pc = "entries"
      /\ cons' = [cons EXCEPT ![c] = IF n = 0 THEN Idle
                                     ELSE [@ EXCEPT !.pc = "cas", !.i = n]]
      /\ UNCHANGED <<indices, br_ring, prod>>

MoveConsHead(c) ==
  LET stored == br_cons_head = cons[c].head
      new == Plus(cons[c].head, cons[c].i)
  IN  /\ cons[c].pc = "cas"
      /\ br_cons_head' = IF stored THEN new ELSE br_cons_head
      /\ cons' = [cons EXCEPT ![c] = IF Exchanged(stored, cons[c].head, new)
                                       THEN [@ EXCEPT !.pc = "copy", !.n = cons[c].i, !.i = 0]
                                       ELSE [@ EXCEPT !.pc = "head", !.i = 0]]
      /\ zeroed' = (zeroed \/ (stored /\ new = 0))
      /\ UNCHANGED <<br_prod_head, br_prod_tail, br_cons_tail, br_ring, prod>>

CopyOut(c) ==
  /\ cons[c].pc = "copy"
  /\ cons' = [cons EXCEPT ![c].i = @ + 1,
                          ![c].buf = Append(@, br_ring[Slot(cons[c].head + cons[c].i)]),
                          ![c].pc = IF cons[c].i + 1 = cons[c].n THEN "wait" ELSE "copy"]
  /\ UNCHANGED <<indices, br_ring, prod>>

\* Once earlier dequeues have given up their slots, these are given up.
Release(c) ==
  /\ cons[c].pc = "wait"
  /\ br_cons_tail = cons[c].head
  /\ br_cons_tail' = Plus(cons[c].head, cons[c].n)
  /\ cons' = [cons EXCEPT ![c] = Idle]
  /\ UNCHANGED <<br_prod_head, br_prod_tail, br_cons_head, zeroed, br_ring, prod>>

-----------------------------------------------------------------------------
ProducerStep(p) ==
  ReadProdHead(p) \/ CheckFree(p) \/ MoveProdHead(p) \/ CopyIn(p) \/ Publish(p)

ConsumerStep(c) ==
  ReadConsHead(c) \/ CheckEntries(c) \/ MoveConsHead(c) \/ CopyOut(c) \/ Release(c)

BulkNext ==
  \/ \E p \in Producer : \/ ProducerStep(p)
                         \/ \E n \in 1..MaxBurst : \E vs \in [1..n -> Value] :
                              EnqueueBulk(p, vs)
  \/ \E c \in Consumer : \/ ConsumerStep(c)
                         \/ \E n \in 1..MaxBurst : DequeueBulk(c, n)

BulkSpec == BulkInit /\ [][BulkNext]_bulkVars

-----------------------------------------------------------------------------
Pc == {"idle", "head", "free", "entries", "cas", "copy", "wait"}

Holds(l) == l.pc \in {"copy", "wait"}
Reserved(l) == {Slot(l.head + k) : k \in 0..l.n-1}

\* No two producers fill the same slot.
BulkNotShared ==
  \A p, o \in Producer : p # o /\ Holds(prod[p]) /\ Holds(prod[o])
                           => Reserved(prod[p]) \cap Reserved(prod[o]) = {}

\* What the ring's slots n from index i on hold.
Content(i, n) == [k \in 1..n |-> br_ring[Slot(i + k - 1)]]

\* A consumer gets what it has copied and what it will copy from its slots.
Got(c) ==
  LET l == cons[c]
  IN  IF Holds(l) THEN l.buf \o Content(l.head + l.i, l.n - l.i) ELSE <<>>

RingQueue == INSTANCE RingFifo
          WITH q <- Content(br_cons_head, Minus(br_prod_tail, br_cons_head)),
               put <- [p \in Producer |-> prod[p].buf],
               got <- [c \in Consumer |-> Got(c)],
               Capacity <- size

\* What the code does not keep to: it behaves like the queue however long it runs.
FifoAlways == RingQueue!FifoSpec

\* Enqueues take effect when their slots are published and dequeues when the head is
\* moved; nothing is lost, duplicated, reordered or overwritten while it is copied.  This
\* holds also when the indices wrap, until a head is moved to 0 exactly: the exchange then
\* succeeds and is taken for a failure, and the slots it has reserved are never filled.
FifoRing ==
  RingQueue!FifoInit /\ [][~zeroed' => RingQueue!FifoNext]_(RingQueue!fifoVars)
=============================================================================
