----------------------------- MODULE RingProofs -----------------------------
(***************************************************************************)
(* The bulk operations of the lock-free ring with one producer and one     *)
(* consumer implement the queue, for any number of slots, any size of the  *)
(* calls and any values, also when the indices wrap, until a head is moved *)
(* to 0 exactly.                                                           *)
(***************************************************************************)
EXTENDS RingBulk, QueueLemmas

Local == [pc : Pc, head : Nat, n : Nat, i : Nat, buf : Seq(Value)]

RingTypes ==
  /\ {br_prod_head, br_prod_tail, br_cons_head, br_cons_tail} \subseteq 0 .. IdxMod - 1
  /\ br_ring \in [0 .. size - 1 -> Value]
  /\ prod \in [Producer -> Local] /\ cons \in [Consumer -> Local]

\* Slots that are being copied out, that are filled and published, and that are being
\* filled: the distances of the indices, which wrap.
Taken == Minus(br_cons_head, br_cons_tail)
Ready == Minus(br_prod_tail, br_cons_head)
Filling == Minus(br_prod_head, br_prod_tail)

\* The indices are in order around the ring: nothing is reserved that has not been given up.
InOrder == Taken + Ready + Filling <= size

\* What is known at each place of enqueue_bulk_mc with the local state l.
Enqueues(l) ==
  /\ l.pc \in {"idle", "head", "free", "cas", "copy", "wait"}
  /\ l.pc = "idle" => l = Idle
  /\ l.pc # "idle" => Len(l.buf) \in 1 .. MaxBurst
  /\ ~Holds(l) => Filling = 0
  /\ l.pc \in {"head", "free", "cas"} => l.i = 0
  /\ l.pc \in {"free", "cas"} => l.head = br_prod_head
  /\ l.pc = "cas" => l.n \in 1 .. Len(l.buf) /\ Taken + Ready + l.n <= size
  /\ Holds(l) => /\ l.head = br_prod_tail /\ Filling = l.n
                 /\ l.n \in 1 .. Len(l.buf) /\ l.i <= l.n
                 /\ l.pc = "copy" <=> l.i < l.n
                 /\ \A k \in 0 .. l.i - 1 : br_ring[Slot(l.head + k)] = l.buf[k + 1]

\* What is known at each place of dequeue_bulk_mc.
Dequeues(l) ==
  /\ l.pc \in {"idle", "head", "entries", "cas", "copy", "wait"}
  /\ l.pc = "idle" => l = Idle
  /\ l.pc # "idle" => l.n \in 1 .. MaxBurst
  /\ ~Holds(l) => Taken = 0 /\ l.buf = <<>>
  /\ l.pc \in {"head", "entries"} => l.i = 0
  /\ l.pc \in {"entries", "cas"} => l.head = br_cons_head
  /\ l.pc = "cas" => l.i \in 1 .. l.n /\ l.i <= Ready
  /\ Holds(l) => /\ l.head = br_cons_tail /\ Taken = l.n
                 /\ Len(l.buf) = l.i /\ l.i <= l.n
                 /\ l.pc = "copy" <=> l.i < l.n

\* The inductive invariant.
BulkInv ==
  /\ RingTypes /\ InOrder
  /\ \A p \in Producer : Enqueues(prod[p])
  /\ \A c \in Consumer : Dequeues(cons[c])

-----------------------------------------------------------------------------
\* Indices that wrap, and slots.

Index == 0 .. IdxMod - 1

LEMMA Sizes ==
  /\ IdxMod \in Nat \ {0} /\ size \in Nat \ {0} /\ size < IdxMod /\ IdxMod % size = 0
  /\ MaxBurst \in Nat \ {0} /\ size \in Index /\ 0 \in Index
BY RingBulkAssumption DEF Index

LEMMA PlusIs ==
  ASSUME NEW a \in Index, NEW n \in Index
  PROVE  /\ Plus(a, n) = IF a + n < IdxMod THEN a + n ELSE a + n - IdxMod
         /\ Plus(a, n) \in Index
<1>1. Plus(a, n) = IF a + n < IdxMod THEN a + n ELSE a + n - IdxMod
  BY Sizes, IndexStep, Zenon DEF Plus, Index
<1> QED BY <1>1, Sizes DEF Index

LEMMA MinusIs ==
  ASSUME NEW a \in Index, NEW b \in Index
  PROVE  /\ Minus(a, b) = IF b <= a THEN a - b ELSE a - b + IdxMod
         /\ Minus(a, b) \in Index
<1>1. CASE b <= a
  <2>1. a - b + IdxMod \in IdxMod .. 2 * IdxMod - 1
    BY <1>1, Sizes DEF Index
  <2>2. Minus(a, b) = a - b
    BY <2>1, Sizes, ModAbove DEF Minus, Index
  <2> QED BY <1>1, <2>2, Sizes DEF Index
<1>2. CASE ~ (b <= a)
  <2>1. a - b + IdxMod \in 0 .. IdxMod - 1
    BY <1>2, Sizes DEF Index
  <2>2. Minus(a, b) = a - b + IdxMod
    BY <2>1, Sizes, ModSmall DEF Minus
  <2> QED BY <1>2, <2>1, <2>2 DEF Index
<1> QED BY <1>1, <1>2

\* An index that moves by n is n further on; distances add up, while they stay below a lap.
LEMMA Moved ==
  ASSUME NEW a \in Index, NEW b \in Index, NEW n \in Index
  PROVE  /\ Minus(a, a) = 0 /\ Minus(Plus(a, n), a) = n
         /\ Plus(b, Minus(a, b)) = a
         /\ n <= Minus(b, a) => Minus(b, Plus(a, n)) = Minus(b, a) - n
         /\ Minus(a, b) = 0 => a = b
<1>1. /\ Plus(a, n) = IF a + n < IdxMod THEN a + n ELSE a + n - IdxMod
      /\ Plus(a, n) \in Index
  BY PlusIs, Zenon
<1>2. /\ Minus(a, b) = IF b <= a THEN a - b ELSE a - b + IdxMod
      /\ Minus(b, a) = IF a <= b THEN b - a ELSE b - a + IdxMod
      /\ Minus(a, b) \in Index /\ Minus(a, a) = IF a <= a THEN a - a ELSE a - a + IdxMod
  BY MinusIs, Zenon
<1>3. /\ Minus(Plus(a, n), a)
           = IF a <= Plus(a, n) THEN Plus(a, n) - a ELSE Plus(a, n) - a + IdxMod
      /\ Minus(b, Plus(a, n))
           = IF Plus(a, n) <= b THEN b - Plus(a, n) ELSE b - Plus(a, n) + IdxMod
  BY <1>1, MinusIs, Zenon
<1>4. Plus(b, Minus(a, b))
        = IF b + Minus(a, b) < IdxMod THEN b + Minus(a, b) ELSE b + Minus(a, b) - IdxMod
  BY <1>2, PlusIs, Zenon
<1>5. Minus(a, a) = 0 /\ Minus(Plus(a, n), a) = n
  BY <1>1, <1>2, <1>3, Sizes DEF Index
<1>6. Plus(b, Minus(a, b)) = a
  BY <1>2, <1>4, Sizes DEF Index
<1>7. n <= Minus(b, a) => Minus(b, Plus(a, n)) = Minus(b, a) - n
  BY <1>1, <1>2, <1>3, Sizes DEF Index
<1>8. Minus(a, b) = 0 => a = b
  BY <1>2, Sizes DEF Index
<1> QED BY <1>5, <1>6, <1>7, <1>8

LEMMA AddUp ==
  ASSUME NEW a \in Index, NEW b \in Index, NEW c \in Index, Minus(c, b) + Minus(b, a) < IdxMod
  PROVE  Minus(c, a) = Minus(c, b) + Minus(b, a)
<1>1. /\ Minus(c, b) = IF b <= c THEN c - b ELSE c - b + IdxMod
      /\ Minus(b, a) = IF a <= b THEN b - a ELSE b - a + IdxMod
      /\ Minus(c, a) = IF a <= c THEN c - a ELSE c - a + IdxMod
  BY MinusIs, Zenon
<1> QED BY <1>1, Sizes DEF Index

\* The number of free slots, although the sum may wrap.
LEMMA FreeIs ==
  ASSUME NEW t \in Index, NEW h \in Index, Minus(h, t) <= size
  PROVE  Minus(Plus(size, t), h) = size - Minus(h, t)
<1>1. /\ Plus(size, t) = IF size + t < IdxMod THEN size + t ELSE size + t - IdxMod
      /\ Plus(size, t) \in Index
  BY Sizes, PlusIs, Zenon
<1>2. /\ Minus(h, t) = IF t <= h THEN h - t ELSE h - t + IdxMod
      /\ Minus(Plus(size, t), h)
           = IF h <= Plus(size, t) THEN Plus(size, t) - h ELSE Plus(size, t) - h + IdxMod
  BY <1>1, MinusIs, Zenon
<1> QED BY <1>1, <1>2, Sizes DEF Index

LEMMA SlotType == ASSUME NEW a \in Nat PROVE Slot(a) \in 0 .. size - 1
BY RingBulkAssumption, ModRange DEF Slot

\* Two indices less than a lap apart have different slots.
LEMMA SlotsDiffer ==
  ASSUME NEW a \in Nat, NEW b \in Nat, a < b, b < a + size
  PROVE  Slot(a) # Slot(b)
<1>1. size \in Nat \ {0}
  BY RingBulkAssumption
<1>2. SUFFICES ASSUME a % size = b % size PROVE FALSE
  BY DEF Slot
<1>3. ((b % size) - (a % size)) % size = (b - a) % size
  <2>1. a \in Int /\ b \in Int
    OBVIOUS
  <2> QED BY <2>1, <1>1, DistanceOfPlaces, Zenon
<1>4. (b - a) % size = b - a
  <2>1. b - a \in 0 .. size - 1
    BY <1>1
  <2> QED BY <2>1, <1>1, ModSmall
<1>5. (b % size) - (a % size) = 0
  <2>1. b % size \in 0 .. size - 1
    BY <1>1, ModRange
  <2> QED BY <2>1, <1>2
<1>6. 0 % size = 0
  BY <1>1, ModSmall
<1> QED BY <1>3, <1>4, <1>5, <1>6

\* An index that has wrapped has the slot of the index it stands for.
LEMMA SlotOf ==
  ASSUME NEW a \in Index, NEW n \in Index, NEW k \in Int
  PROVE  Slot(Plus(a, n) + k) = Slot(a + n + k)
<1> DEFINE q == Plus(a, n)
<1>1. q = IF a + n < IdxMod THEN a + n ELSE a + n - IdxMod
  BY PlusIs, Zenon
<1>2. a \in Int /\ n \in Int /\ IdxMod \in Int /\ size \in Nat \ {0} /\ IdxMod % size = 0
  BY Sizes DEF Index
<1> HIDE DEF q
<1>3. CASE a + n < IdxMod
  <2>1. q + k = a + n + k
    BY <1>1, <1>2, <1>3
  <2> QED BY <2>1 DEF q
<1>4. CASE ~ (a + n < IdxMod)
  <2>1. q + k \in Int /\ a + n + k = (q + k) + IdxMod
    BY <1>1, <1>2, <1>4
  <2>2. ((q + k) + IdxMod) % size = (q + k) % size
    BY <1>2, <2>1, Period
  <2> QED BY <2>1, <2>2 DEF Slot, q
<1> QED BY <1>3, <1>4

LEMMA SlotAt ==
  ASSUME NEW a \in Index, NEW b \in Index, NEW k \in Int
  PROVE  Slot(b + k) = Slot(a + Minus(b, a) + k)
<1> DEFINE n == Minus(b, a)
<1>1. n \in Index
  BY MinusIs, Zenon
<1>2. Plus(a, n) = b
  BY Moved, Zenon
<1> HIDE DEF n
<1>3. Slot(Plus(a, n) + k) = Slot(a + n + k)
  BY <1>1, SlotOf, Zenon
<1>4. Slot(b + k) = Slot(a + n + k)
  BY <1>2, <1>3, Zenon
<1> QED BY <1>4 DEF n

-----------------------------------------------------------------------------
\* The distances in the states of the ring.

LEMMA Numbers ==
  ASSUME BulkInv
  PROVE  /\ IdxMod \in Nat \ {0} /\ size \in Nat \ {0} /\ MaxBurst \in Nat \ {0}
         /\ br_prod_head \in Index /\ br_prod_tail \in Index
         /\ br_cons_head \in Index /\ br_cons_tail \in Index
BY RingBulkAssumption DEF BulkInv, RingTypes, Index

LEMMA Distances ==
  ASSUME BulkInv
  PROVE  /\ Taken \in Index /\ Ready \in Index /\ Filling \in Index
         /\ Taken \in Nat /\ Ready \in Nat /\ Filling \in Nat
         /\ Taken + Ready + Filling <= size /\ size < IdxMod
         /\ Minus(br_prod_tail, br_cons_tail) = Taken + Ready
         /\ Minus(br_prod_head, br_cons_tail) = Taken + Ready + Filling
         /\ Plus(br_prod_tail, Filling) = br_prod_head /\ Plus(br_cons_tail, Taken) = br_cons_head
         /\ Filling = 0 => br_prod_head = br_prod_tail
         /\ Taken = 0 => br_cons_head = br_cons_tail
         /\ \A n \in Index : n <= Ready => Minus(br_prod_tail, Plus(br_cons_head, n)) = Ready - n
<1>1. Taken \in Index /\ Ready \in Index /\ Filling \in Index
  BY Numbers, MinusIs, Zenon DEF Taken, Ready, Filling
<1>2. Taken + Ready + Filling <= size /\ size < IdxMod
  BY Sizes DEF BulkInv, InOrder
<1>3. /\ Taken \in Nat /\ Ready \in Nat /\ Filling \in Nat
      /\ Ready + Taken < IdxMod /\ Filling + (Taken + Ready) < IdxMod
      /\ Ready + Taken = Taken + Ready
      /\ Filling + (Taken + Ready) = Taken + Ready + Filling
  BY <1>1, <1>2, Sizes DEF Index
<1>4. Minus(br_prod_tail, br_cons_tail) = Taken + Ready
  BY <1>3, Numbers, AddUp DEF Taken, Ready
<1>5. Minus(br_prod_head, br_cons_tail) = Taken + Ready + Filling
  BY <1>3, <1>4, Numbers, AddUp DEF Filling
<1>6. /\ Plus(br_prod_tail, Minus(br_prod_head, br_prod_tail)) = br_prod_head
      /\ Plus(br_cons_tail, Minus(br_cons_head, br_cons_tail)) = br_cons_head
      /\ Minus(br_prod_head, br_prod_tail) = 0 => br_prod_head = br_prod_tail
      /\ Minus(br_cons_head, br_cons_tail) = 0 => br_cons_head = br_cons_tail
  BY Numbers, Sizes, Moved
<1>7. ASSUME NEW n \in Index, n <= Minus(br_prod_tail, br_cons_head)
      PROVE  Minus(br_prod_tail, Plus(br_cons_head, n)) = Minus(br_prod_tail, br_cons_head) - n
  BY <1>7, Numbers, Moved
<1>8. /\ Plus(br_prod_tail, Filling) = br_prod_head /\ Plus(br_cons_tail, Taken) = br_cons_head
      /\ Filling = 0 => br_prod_head = br_prod_tail
      /\ Taken = 0 => br_cons_head = br_cons_tail
  BY <1>6 DEF Filling, Taken
<1>9. \A n \in Index : n <= Ready => Minus(br_prod_tail, Plus(br_cons_head, n)) = Ready - n
  BY <1>7 DEF Ready
<1> QED BY <1>1, <1>2, <1>3, <1>4, <1>5, <1>8, <1>9

LEMMA DistancesNext ==
  /\ Taken' = Minus(br_cons_head', br_cons_tail')
  /\ Ready' = Minus(br_prod_tail', br_cons_head')
  /\ Filling' = Minus(br_prod_head', br_prod_tail')
BY DEF Taken, Ready, Filling, Minus

LEMMA SameDistances ==
  /\ UNCHANGED <<br_cons_head, br_cons_tail>> => UNCHANGED Taken
  /\ UNCHANGED <<br_prod_tail, br_cons_head>> => UNCHANGED Ready
  /\ UNCHANGED <<br_prod_head, br_prod_tail>> => UNCHANGED Filling
BY DEF Taken, Ready, Filling

-----------------------------------------------------------------------------
\* What one side knows is not disturbed by the other.

LEMMA SmallerSum ==
  ASSUME NEW t \in Nat, NEW r \in Nat, NEW u \in Nat, NEW v \in Nat, NEW n \in Nat,
         t + r <= u + v, u + v + n <= size
  PROVE  t + r + n <= size
BY Sizes

LEMMA ConsumerFrame ==
  ASSUME BulkInv, Ready' \in Nat, Ready <= Ready',
         UNCHANGED <<br_cons_head, br_cons_tail, cons>>
  PROVE  cons' \in [Consumer -> Local] /\ \A c \in Consumer : Dequeues(cons[c])'
<1>1. cons' \in [Consumer -> Local]
  BY DEF BulkInv, RingTypes
<1>2. ASSUME NEW c \in Consumer PROVE Dequeues(cons[c])'
  <2>1. Dequeues(cons[c]) /\ cons[c] \in Local
    BY DEF BulkInv, RingTypes
  <2>2. Ready \in Nat /\ Taken' = Taken
    BY Distances, SameDistances
  <2> QED BY <2>1, <2>2 DEF Dequeues, Holds, Local
<1> QED BY <1>1, <1>2

LEMMA ProducerFrame ==
  ASSUME BulkInv, Taken' \in Nat, Ready' \in Nat, Taken' + Ready' <= Taken + Ready,
         UNCHANGED <<br_prod_head, br_prod_tail, br_ring, prod>>
  PROVE  prod' \in [Producer -> Local] /\ \A p \in Producer : Enqueues(prod[p])'
<1>1. prod' \in [Producer -> Local]
  BY DEF BulkInv, RingTypes
<1>2. ASSUME NEW p \in Producer PROVE Enqueues(prod[p])'
  <2>1. Enqueues(prod[p]) /\ prod[p] \in Local
    BY DEF BulkInv, RingTypes
  <2>2. Taken \in Nat /\ Ready \in Nat /\ size \in Nat /\ Filling' = Filling
    BY Distances, SameDistances, Sizes
  <2>3. prod[p].pc = "cas" => Taken' + Ready' + prod[p].n <= size
    <3>1. prod[p].pc = "cas" => Taken + Ready + prod[p].n <= size
      BY <2>1 DEF Enqueues
    <3>2. prod[p].n \in Nat
      BY <2>1 DEF Local
    <3> QED BY <3>1, <3>2, <2>2, SmallerSum, Zenon
  <2> QED BY <2>1, <2>2, <2>3, Zenon DEF Enqueues, Holds, Slot
<1> QED BY <1>1, <1>2

LEMMA IdleIs == Idle \in Local /\ ~Holds(Idle) /\ Idle.buf = <<>> /\ Idle.pc = "idle"
BY DEF Idle, Local, Pc, Holds

LEMMA LocalTypes ==
  ASSUME NEW l \in Local, NEW w \in Pc, NEW k \in Nat, NEW m \in Nat, NEW b \in Seq(Value)
  PROVE  /\ [l EXCEPT !.pc = w] \in Local
         /\ [l EXCEPT !.pc = w, !.head = k] \in Local
         /\ [l EXCEPT !.pc = w, !.n = m] \in Local
         /\ [l EXCEPT !.pc = w, !.i = k] \in Local
         /\ [l EXCEPT !.i = k, !.pc = w] \in Local
         /\ [l EXCEPT !.pc = w, !.n = m, !.i = k] \in Local
         /\ [l EXCEPT !.i = k, !.buf = b, !.pc = w] \in Local
BY Zenon DEF Local

LEMMA InitBulk == BulkInit => BulkInv
<1> SUFFICES ASSUME BulkInit PROVE BulkInv
  OBVIOUS
<1>1. RingTypes
  BY IdleIs, RingBulkAssumption DEF BulkInit, RingTypes
<1>2. Taken = 0 /\ Ready = 0 /\ Filling = 0
  BY Sizes, Moved DEF BulkInit, Taken, Ready, Filling
<1>3. InOrder
  BY <1>2, Sizes DEF InOrder
<1>4. ASSUME NEW p \in Producer PROVE Enqueues(prod[p])
  BY <1>2, <1>4, IdleIs DEF BulkInit, Enqueues
<1>5. ASSUME NEW c \in Consumer PROVE Dequeues(cons[c])
  BY <1>2, <1>5, IdleIs DEF BulkInit, Dequeues
<1> QED BY <1>1, <1>3, <1>4, <1>5 DEF BulkInv

-----------------------------------------------------------------------------
\* Every step keeps the invariant.

LEMMA ProducerKeeps ==
  ASSUME BulkInv, NEW p, Producer = {p}, ProducerStep(p), ~zeroed'
  PROVE  BulkInv'
<1> DEFINE l == prod[p]
<1>0. /\ l \in Local /\ Enqueues(l) /\ prod \in [Producer -> Local] /\ p \in Producer
      /\ br_ring \in [0 .. size - 1 -> Value]
      /\ l.pc \in Pc /\ l.head \in Nat /\ l.n \in Nat /\ l.i \in Nat
      /\ l.buf \in Seq(Value) /\ Len(l.buf) \in Nat
  <2>1. l \in Local /\ Enqueues(l) /\ prod \in [Producer -> Local] /\ p \in Producer
        /\ br_ring \in [0 .. size - 1 -> Value]
    BY DEF BulkInv, RingTypes
  <2> QED BY <2>1 DEF Local
<1>1. /\ Taken \in Nat /\ Ready \in Nat /\ Filling \in Nat /\ size < IdxMod
      /\ Taken + Ready + Filling <= size
  BY Distances
<1>2. SUFFICES /\ RingTypes' /\ InOrder' /\ Enqueues(prod[p])'
               /\ Ready' \in Nat /\ Ready <= Ready'
               /\ UNCHANGED <<br_cons_head, br_cons_tail, cons>>
  BY ConsumerFrame DEF BulkInv
<1>n. /\ IdxMod \in Nat \ {0} /\ size \in Nat \ {0} /\ MaxBurst \in Nat \ {0}
      /\ br_prod_head \in Index /\ br_prod_tail \in Index
      /\ br_cons_head \in Index /\ br_cons_tail \in Index
      /\ br_prod_head \in Nat /\ br_cons_head \in Nat
  BY Numbers DEF Index
<1>s. ASSUME UNCHANGED indices
      PROVE  UNCHANGED <<Taken, Ready, Filling>> /\ UNCHANGED <<br_cons_head, br_cons_tail>>
  BY <1>s, SameDistances DEF indices
<1>3. CASE ReadProdHead(p)
  <2> DEFINE m == [l EXCEPT !.pc = "free", !.head = br_prod_head]
  <2>1. prod' = [prod EXCEPT ![p] = m] /\ UNCHANGED <<indices, br_ring, cons>> /\ l.pc = "head"
    BY <1>0, <1>3, Zenon DEF ReadProdHead
  <2>2. m \in Local
    <3>1. "free" \in Pc /\ br_prod_head \in Nat
      BY <1>n DEF Pc
    <3> QED BY <3>1, <1>0, LocalTypes, Zenon
  <2>3. m.pc = "free" /\ m.head = br_prod_head /\ m.buf = l.buf /\ m.i = l.i
    BY <1>0 DEF Local
  <2> HIDE DEF m
  <2>4. prod' \in [Producer -> Local] /\ prod'[p] = m
    BY <1>0, <2>1, <2>2
  <2>5. Enqueues(prod[p])'
    BY <1>0, <1>s, <2>1, <2>3, <2>4 DEF Enqueues, Holds, indices
  <2> QED BY <1>0, <1>1, <1>s, <2>1, <2>4, <2>5 DEF indices, RingTypes, InOrder, BulkInv
<1>4. CASE CheckFree(p)
  <2> DEFINE n == SmallerOf(Len(l.buf), FreeEntries(p))
             m == IF n = 0 THEN Idle ELSE [l EXCEPT !.pc = "cas", !.n = n]
  <2>1. /\ l.pc = "free" /\ l.head = br_prod_head /\ Len(l.buf) \in 1 .. MaxBurst /\ l.i = 0
        /\ Filling = 0
    BY <1>0, <1>4 DEF CheckFree, Enqueues, Holds
  <2>2. FreeEntries(p) = size - (Taken + Ready) /\ FreeEntries(p) \in Nat
    <3>1. Minus(br_prod_head, br_cons_tail) = Taken + Ready
      BY <2>1, <1>1, Distances
    <3>2. FreeEntries(p) = size - (Taken + Ready)
      BY <3>1, <2>1, <1>1, <1>n, FreeIs DEF FreeEntries
    <3> QED BY <3>2, <2>1, <1>1, <1>n
  <2>3. n \in Nat /\ n <= Len(l.buf) /\ Taken + Ready + n <= size
    <3>1. n \in Nat /\ n <= Len(l.buf) /\ n <= FreeEntries(p)
      BY <2>2, <1>0 DEF SmallerOf
    <3> HIDE DEF n
    <3> QED BY <3>1, <2>2, <1>1, <1>n
  <2>4. prod' = [prod EXCEPT ![p] = m] /\ UNCHANGED <<indices, br_ring, cons>>
    BY <1>0, <1>4, ZenonT(30) DEF CheckFree
  <2> HIDE DEF n
  <2>5. m \in Local
    BY <1>0, <2>3, IdleIs, LocalTypes, Zenon DEF Pc
  <2>6. n # 0 => m.pc = "cas" /\ m.head = l.head /\ m.n = n /\ m.buf = l.buf /\ m.i = l.i
    BY <1>0 DEF Local
  <2>7. n = 0 => m = Idle
    OBVIOUS
  <2> HIDE DEF m
  <2>8. prod' \in [Producer -> Local] /\ prod'[p] = m
    BY <1>0, <2>4, <2>5
  <2>9. Enqueues(prod[p])'
    <3>1. CASE n = 0
      BY <3>1, <1>s, <2>1, <2>4, <2>7, <2>8, IdleIs DEF Enqueues
    <3>2. CASE n # 0
      BY <3>2, <1>0, <1>n, <1>s, <2>1, <2>3, <2>4, <2>6, <2>8 DEF Enqueues, Holds, indices
    <3> QED BY <3>1, <3>2
  <2> QED BY <1>0, <1>1, <1>s, <2>4, <2>8, <2>9 DEF indices, RingTypes, InOrder, BulkInv
<1>5. CASE MoveProdHead(p)
  <2> DEFINE m == [l EXCEPT !.pc = "copy"]
  <2>1. /\ l.pc = "cas" /\ l.head = br_prod_head /\ l.n \in 1 .. Len(l.buf)
        /\ Taken + Ready + l.n <= size /\ Filling = 0
        /\ Len(l.buf) \in 1 .. MaxBurst /\ l.i = 0
    BY <1>0, <1>5 DEF MoveProdHead, Enqueues, Holds
  <2>2. br_prod_head = br_prod_tail /\ l.n \in Index
    <3>1. l.n \in Index
      BY <2>1, <1>0, <1>1, <1>n DEF Index
    <3> QED BY <3>1, <2>1, Distances, Zenon
  <2>3. Plus(l.head, l.n) # 0
    BY <1>5, <2>1 DEF MoveProdHead
  <2>4. br_prod_head' = Plus(br_prod_tail, l.n) /\ prod' = [prod EXCEPT ![p] = m]
    <3>1. Exchanged(TRUE, l.head, Plus(l.head, l.n))
      BY <2>3 DEF Exchanged
    <3> QED BY <1>0, <1>5, <2>1, <2>2, <3>1, Zenon DEF MoveProdHead
  <2>5. UNCHANGED <<br_prod_tail, br_cons_head, br_cons_tail, br_ring, cons>>
    BY <1>5 DEF MoveProdHead
  <2>6. m \in Local
    BY <1>0, LocalTypes, Zenon DEF Pc
  <2>7. m.pc = "copy" /\ m.head = l.head /\ m.n = l.n /\ m.buf = l.buf /\ m.i = l.i
    BY <1>0 DEF Local
  <2> HIDE DEF m
  <2>8. prod' \in [Producer -> Local] /\ prod'[p] = m
    BY <1>0, <2>4, <2>6
  <2>9. Filling' = l.n /\ UNCHANGED <<Taken, Ready>> /\ br_prod_head' \in Index
    <3>1. Minus(Plus(br_prod_tail, l.n), br_prod_tail) = l.n /\ Plus(br_prod_tail, l.n) \in Index
      BY <1>n, <2>2, Moved, PlusIs, Zenon
    <3> QED BY <3>1, <2>4, <2>5, DistancesNext, SameDistances
  <2>10. Enqueues(prod[p])'
    <3>1. \A k \in 0 .. m.i - 1 : FALSE
      BY <2>1, <2>7
    <3>2. /\ m.head = br_prod_tail' /\ Filling' = m.n /\ m.n \in 1 .. Len(m.buf)
          /\ m.i < m.n /\ m.i <= m.n /\ Len(m.buf) \in 1 .. MaxBurst
      BY <1>0, <2>1, <2>2, <2>5, <2>7, <2>9
    <3> QED BY <3>1, <3>2, <2>7, <2>8 DEF Enqueues, Holds
  <2>11. RingTypes'
    BY <1>n, <1>0, <2>5, <2>8, <2>9 DEF RingTypes, BulkInv, Index
  <2> QED BY <1>1, <1>n, <2>1, <2>5, <2>9, <2>10, <2>11 DEF InOrder
<1>6. CASE CopyIn(p)
  <2> DEFINE m == [l EXCEPT !.i = l.i + 1, !.pc = IF l.i + 1 = l.n THEN "wait" ELSE "copy"]
             v == l.buf[l.i + 1]
             a == Slot(l.head + l.i)
  <2>1. /\ l.pc = "copy" /\ l.head = br_prod_tail /\ Filling = l.n
        /\ l.n \in 1 .. Len(l.buf) /\ l.i < l.n /\ Len(l.buf) \in 1 .. MaxBurst
        /\ \A k \in 0 .. l.i - 1 : br_ring[Slot(l.head + k)] = l.buf[k + 1]
    BY <1>0, <1>6 DEF CopyIn, Enqueues, Holds
  <2>2. /\ prod' = [prod EXCEPT ![p] = m] /\ UNCHANGED <<indices, cons>>
        /\ br_ring' = [br_ring EXCEPT ![a] = v]
    BY <1>0, <1>6, Zenon DEF CopyIn
  <2>3. m \in Local
    <3>1. {"wait", "copy"} \subseteq Pc /\ l.i + 1 \in Nat
      BY <1>0 DEF Pc
    <3>2. (IF l.i + 1 = l.n THEN "wait" ELSE "copy") \in Pc
      BY <3>1
    <3> QED BY <3>1, <3>2, <1>0, LocalTypes, Zenon
  <2>4. /\ m.pc = IF l.i + 1 = l.n THEN "wait" ELSE "copy"
        /\ m.head = l.head /\ m.n = l.n /\ m.buf = l.buf /\ m.i = l.i + 1
    BY <1>0 DEF Local
  <2> HIDE DEF m
  <2>5. prod' \in [Producer -> Local] /\ prod'[p] = m
    BY <1>0, <2>2, <2>3
  <2>6. v \in Value /\ a \in 0 .. size - 1
    <3>1. l.head + l.i \in Nat /\ l.i + 1 \in 1 .. Len(l.buf)
      BY <1>0, <2>1
    <3>2. a \in 0 .. size - 1
      BY <3>1, SlotType, ZenonT(30)
    <3> QED BY <3>1, <3>2, <1>0
  <2>7. br_ring' \in [0 .. size - 1 -> Value]
    BY <1>0, <2>2, <2>6
  <2>8. ASSUME NEW k \in 0 .. l.i PROVE br_ring'[Slot(l.head + k)] = l.buf[k + 1]
    <3>1. CASE k = l.i
      BY <3>1, <1>0, <2>2, <2>6
    <3>2. CASE k < l.i
      <4>1. Slot(l.head + k) # a
        <5>1. l.n <= size
          BY <1>0, <1>1, <1>n, <2>1
        <5>2. l.head + k < l.head + l.i /\ l.head + l.i < l.head + k + size
          BY <5>1, <3>2, <1>0, <1>n, <2>1
        <5> QED BY <5>2, <1>0, SlotsDiffer
      <4>2. Slot(l.head + k) \in 0 .. size - 1
        <5>1. l.head + k \in Nat
          BY <1>0
        <5> QED BY <5>1, SlotType
      <4>3. br_ring'[Slot(l.head + k)] = br_ring[Slot(l.head + k)]
        BY <4>1, <4>2, <1>0, <2>2
      <4>4. k \in 0 .. l.i - 1
        BY <3>2, <1>0
      <4> QED BY <4>3, <4>4, <2>1
    <3> QED BY <3>1, <3>2, <1>0
  <2>9. Enqueues(prod[p])'
    <3>1. \A k \in 0 .. m.i - 1 : br_ring'[Slot(m.head + k)] = m.buf[k + 1]
      BY <2>4, <2>8, <1>0
    <3>2. m.pc \in {"copy", "wait"} /\ (m.pc = "copy" <=> m.i < m.n) /\ m.i <= m.n
      BY <2>1, <2>4, <1>0
    <3> QED BY <3>1, <3>2, <1>0, <1>s, <2>1, <2>2, <2>4, <2>5, ZenonT(30) DEF Enqueues, Holds, indices, Slot
  <2> QED BY <1>1, <1>s, <2>2, <2>5, <2>7, <2>9 DEF indices, RingTypes, InOrder, BulkInv
<1>7. CASE Publish(p)
  <2>1. l.head = br_prod_tail /\ Filling = l.n
    BY <1>0, <1>7 DEF Publish, Enqueues, Holds
  <2>2. Plus(l.head, l.n) = br_prod_head
    BY <2>1, Distances, Zenon
  <2>3. /\ br_prod_tail' = br_prod_head /\ prod' = [prod EXCEPT ![p] = Idle]
        /\ UNCHANGED <<br_prod_head, br_cons_head, br_cons_tail, br_ring, cons>>
    BY <1>7, <2>2 DEF Publish
  <2>4. prod' \in [Producer -> Local] /\ prod'[p] = Idle
    BY <1>0, <2>3, IdleIs
  <2>5. Filling' = 0 /\ Taken' = Taken /\ Ready' = Filling + Ready
    <3>1. Minus(br_prod_head, br_prod_head) = 0
      BY <1>n, Sizes, Moved, Zenon
    <3>2. Filling + Ready < IdxMod
      BY <1>1, <1>n
    <3>3. Minus(br_prod_head, br_cons_head) = Filling + Ready
      BY <3>2, <1>n, AddUp DEF Filling, Ready
    <3> QED BY <3>1, <3>3, <2>3, DistancesNext, SameDistances
  <2>6. Enqueues(prod[p])'
    BY <2>4, <2>5, IdleIs DEF Enqueues
  <2> QED BY <1>0, <1>1, <1>n, <2>3, <2>4, <2>5, <2>6 DEF RingTypes, InOrder, BulkInv, Index
<1> QED BY <1>3, <1>4, <1>5, <1>6, <1>7 DEF ProducerStep

LEMMA EnqueueKeeps ==
  ASSUME BulkInv, NEW p, Producer = {p}, NEW n \in 1 .. MaxBurst,
         NEW vs \in [1 .. n -> Value], EnqueueBulk(p, vs)
  PROVE  BulkInv'
<1> DEFINE m == [Idle EXCEPT !.pc = "head", !.buf = vs]
<1>1. /\ prod \in [Producer -> Local] /\ p \in Producer /\ Enqueues(prod[p])
      /\ MaxBurst \in Nat \ {0} /\ Ready \in Nat
  BY Numbers, Distances DEF BulkInv, RingTypes
<1>2. /\ prod' = [prod EXCEPT ![p] = m] /\ UNCHANGED <<indices, br_ring, cons>>
      /\ prod[p].pc = "idle" /\ UNCHANGED <<Taken, Ready, Filling>>
  BY <1>1, SameDistances DEF EnqueueBulk, indices
<1>3. vs \in Seq(Value) /\ Len(vs) = n
  BY <1>1
<1>4. m.pc = "head" /\ m.i = 0 /\ m.buf = vs
  BY DEF Idle
<1>5. m \in Local
  BY <1>3, IdleIs, Zenon DEF Local, Pc
<1> HIDE DEF m
<1>6. prod' \in [Producer -> Local] /\ prod'[p] = m
  BY <1>1, <1>2, <1>5
<1>7. Filling = 0
  BY <1>1, <1>2 DEF Enqueues, Holds
<1>8. Enqueues(prod[p])'
  BY <1>1, <1>2, <1>3, <1>4, <1>6, <1>7 DEF Enqueues, Holds, indices
<1>9. \A c \in Consumer : Dequeues(cons[c])'
  BY <1>1, <1>2, ConsumerFrame DEF indices
<1> QED BY <1>1, <1>2, <1>6, <1>8, <1>9 DEF indices, RingTypes, InOrder, BulkInv

LEMMA ConsumerKeeps ==
  ASSUME BulkInv, NEW c, Consumer = {c}, ConsumerStep(c), ~zeroed'
  PROVE  BulkInv'
<1> DEFINE l == cons[c]
<1>0. /\ l \in Local /\ Dequeues(l) /\ cons \in [Consumer -> Local] /\ c \in Consumer
      /\ br_ring \in [0 .. size - 1 -> Value]
      /\ l.pc \in Pc /\ l.head \in Nat /\ l.n \in Nat /\ l.i \in Nat
      /\ l.buf \in Seq(Value) /\ Len(l.buf) \in Nat
  <2>1. l \in Local /\ Dequeues(l) /\ cons \in [Consumer -> Local] /\ c \in Consumer
        /\ br_ring \in [0 .. size - 1 -> Value]
    BY DEF BulkInv, RingTypes
  <2> QED BY <2>1 DEF Local
<1>1. /\ Taken \in Nat /\ Ready \in Nat /\ Filling \in Nat /\ size < IdxMod
      /\ Taken + Ready + Filling <= size
  BY Distances
<1>n. /\ IdxMod \in Nat \ {0} /\ size \in Nat \ {0} /\ MaxBurst \in Nat \ {0}
      /\ br_prod_head \in Index /\ br_prod_tail \in Index
      /\ br_cons_head \in Index /\ br_cons_tail \in Index
      /\ br_prod_head \in Nat /\ br_cons_head \in Nat
  BY Numbers DEF Index
<1>s. ASSUME UNCHANGED indices
      PROVE  UNCHANGED <<Taken, Ready, Filling>>
  BY <1>s, SameDistances DEF indices
<1>2. SUFFICES /\ br_cons_head' \in Index /\ br_cons_tail' \in Index
               /\ cons' \in [Consumer -> Local] /\ Dequeues(cons[c])'
               /\ Taken' \in Nat /\ Ready' \in Nat /\ Taken' + Ready' <= Taken + Ready
               /\ UNCHANGED <<br_prod_head, br_prod_tail, br_ring, prod>>
  <2>1. InOrder'
    <3>1. Filling' = Filling
      BY <1>2, SameDistances
    <3>2. Taken' \in Nat /\ Ready' \in Nat /\ Taken' + Ready' <= Taken + Ready
      BY <1>2
    <3>3. Taken' + Ready' + Filling' <= size
      BY <3>1, <3>2, <1>1, SmallerSum, Zenon
    <3> QED BY <3>3 DEF InOrder
  <2>2. prod' \in [Producer -> Local] /\ \A p \in Producer : Enqueues(prod[p])'
    BY <1>2, ProducerFrame
  <2>3. RingTypes'
    BY <1>0, <1>n, <1>2, <2>2 DEF RingTypes, Index
  <2> QED BY <1>2, <2>1, <2>2, <2>3 DEF BulkInv
<1>3. CASE ReadConsHead(c)
  <2> DEFINE m == [l EXCEPT !.pc = "entries", !.head = br_cons_head]
  <2>1. cons' = [cons EXCEPT ![c] = m] /\ UNCHANGED <<indices, br_ring, prod>> /\ l.pc = "head"
    BY <1>0, <1>3, Zenon DEF ReadConsHead
  <2>2. m \in Local
    <3>1. "entries" \in Pc /\ br_cons_head \in Nat
      BY <1>n DEF Pc
    <3> QED BY <3>1, <1>0, LocalTypes, Zenon
  <2>3. m.pc = "entries" /\ m.head = br_cons_head /\ m.buf = l.buf /\ m.i = l.i /\ m.n = l.n
    BY <1>0 DEF Local
  <2> HIDE DEF m
  <2>4. cons' \in [Consumer -> Local] /\ cons'[c] = m
    BY <1>0, <2>1, <2>2
  <2>5. Dequeues(cons[c])'
    BY <1>0, <1>s, <2>1, <2>3, <2>4 DEF Dequeues, Holds, indices
  <2> QED BY <1>1, <1>n, <1>s, <2>1, <2>4, <2>5 DEF indices
<1>4. CASE CheckEntries(c)
  <2> DEFINE n == SmallerOf(l.n, Entries(c))
             m == IF n = 0 THEN Idle ELSE [l EXCEPT !.pc = "cas", !.i = n]
  <2>1. /\ l.pc = "entries" /\ l.head = br_cons_head /\ l.n \in 1 .. MaxBurst
        /\ Taken = 0 /\ l.buf = <<>>
    BY <1>0, <1>4 DEF CheckEntries, Dequeues, Holds
  <2>2. Entries(c) = Ready
    BY <2>1 DEF Entries, Ready
  <2>3. n \in Nat /\ n <= l.n /\ n <= Ready
    BY <2>2, <1>0, <1>1 DEF SmallerOf
  <2>4. cons' = [cons EXCEPT ![c] = m] /\ UNCHANGED <<indices, br_ring, prod>>
    BY <1>0, <1>4, ZenonT(30) DEF CheckEntries
  <2> HIDE DEF n
  <2>5. m \in Local
    BY <1>0, <2>3, IdleIs, LocalTypes, Zenon DEF Pc
  <2>6. n # 0 => m.pc = "cas" /\ m.head = l.head /\ m.n = l.n /\ m.buf = l.buf /\ m.i = n
    BY <1>0 DEF Local
  <2>7. n = 0 => m = Idle
    OBVIOUS
  <2> HIDE DEF m
  <2>8. cons' \in [Consumer -> Local] /\ cons'[c] = m
    BY <1>0, <2>4, <2>5
  <2>9. Dequeues(cons[c])'
    <3>1. CASE n = 0
      BY <3>1, <1>s, <2>1, <2>4, <2>7, <2>8, IdleIs DEF Dequeues
    <3>2. CASE n # 0
      BY <3>2, <1>0, <1>n, <1>s, <2>1, <2>3, <2>4, <2>6, <2>8 DEF Dequeues, Holds, indices
    <3> QED BY <3>1, <3>2
  <2> QED BY <1>1, <1>n, <1>s, <2>4, <2>8, <2>9 DEF indices
<1>5. CASE MoveConsHead(c)
  <2> DEFINE m == [l EXCEPT !.pc = "copy", !.n = l.i, !.i = 0]
  <2>1. /\ l.pc = "cas" /\ l.head = br_cons_head /\ l.i \in 1 .. l.n /\ l.n \in 1 .. MaxBurst
        /\ l.i <= Ready /\ Taken = 0 /\ l.buf = <<>>
    BY <1>0, <1>5 DEF MoveConsHead, Dequeues, Holds
  <2>2. br_cons_head = br_cons_tail /\ l.i \in Index
    <3>1. l.i \in Index
      BY <2>1, <1>0, <1>1, <1>n DEF Index
    <3> QED BY <3>1, <2>1, Distances, Zenon
  <2>3. Plus(l.head, l.i) # 0
    BY <1>5, <2>1 DEF MoveConsHead
  <2>4. br_cons_head' = Plus(br_cons_head, l.i) /\ cons' = [cons EXCEPT ![c] = m]
    <3>1. Exchanged(TRUE, l.head, Plus(l.head, l.i))
      BY <2>3 DEF Exchanged
    <3> QED BY <1>0, <1>5, <2>1, <3>1, Zenon DEF MoveConsHead
  <2>5. UNCHANGED <<br_prod_head, br_prod_tail, br_cons_tail, br_ring, prod>>
    BY <1>5 DEF MoveConsHead
  <2>6. m \in Local
    BY <1>0, LocalTypes, Zenon DEF Pc
  <2>7. m.pc = "copy" /\ m.head = l.head /\ m.n = l.i /\ m.buf = <<>> /\ m.i = 0
    BY <1>0, <2>1 DEF Local
  <2> HIDE DEF m
  <2>8. cons' \in [Consumer -> Local] /\ cons'[c] = m
    BY <1>0, <2>4, <2>6
  <2>9. Taken' = l.i /\ Ready' = Ready - l.i /\ br_cons_head' \in Index
    <3>1. /\ Minus(Plus(br_cons_head, l.i), br_cons_head) = l.i
          /\ Plus(br_cons_head, l.i) \in Index
      BY <1>n, <2>2, Moved, PlusIs, Zenon
    <3>2. Minus(br_prod_tail, Plus(br_cons_head, l.i)) = Ready - l.i
      BY <2>1, <2>2, Distances, Zenon
    <3> QED BY <3>1, <3>2, <2>2, <2>4, <2>5, DistancesNext
  <2>10. Dequeues(cons[c])'
    <3>1. /\ m.head = br_cons_tail' /\ Taken' = m.n /\ m.n \in 1 .. MaxBurst
          /\ m.i < m.n /\ m.i <= m.n /\ Len(m.buf) = m.i
      BY <1>0, <1>n, <2>1, <2>2, <2>5, <2>7, <2>9
    <3> QED BY <3>1, <2>7, <2>8 DEF Dequeues, Holds
  <2> QED BY <1>0, <1>1, <1>n, <2>1, <2>5, <2>8, <2>9, <2>10
<1>6. CASE CopyOut(c)
  <2> DEFINE v == br_ring[Slot(l.head + l.i)]
             b == Append(l.buf, v)
             m == [l EXCEPT !.i = l.i + 1, !.buf = b,
                            !.pc = IF l.i + 1 = l.n THEN "wait" ELSE "copy"]
  <2>1. /\ l.pc = "copy" /\ l.head = br_cons_tail /\ Taken = l.n
        /\ l.n \in 1 .. MaxBurst /\ l.i < l.n /\ Len(l.buf) = l.i
    BY <1>0, <1>6 DEF CopyOut, Dequeues, Holds
  <2>2. cons' = [cons EXCEPT ![c] = m] /\ UNCHANGED <<indices, br_ring, prod>>
    BY <1>0, <1>6, Zenon DEF CopyOut
  <2>3. v \in Value
    <3>1. l.head + l.i \in Nat
      BY <1>0
    <3> QED BY <3>1, <1>0, SlotType
  <2>4. b \in Seq(Value) /\ Len(b) = l.i + 1
    BY <1>0, <2>1, <2>3
  <2> HIDE DEF b
  <2>5. m \in Local
    <3>1. {"wait", "copy"} \subseteq Pc /\ l.i + 1 \in Nat
      BY <1>0 DEF Pc
    <3>2. (IF l.i + 1 = l.n THEN "wait" ELSE "copy") \in Pc
      BY <3>1
    <3> QED BY <3>1, <3>2, <1>0, <2>4, LocalTypes, Zenon
  <2>6. /\ m.pc = IF l.i + 1 = l.n THEN "wait" ELSE "copy"
        /\ m.head = l.head /\ m.n = l.n /\ m.buf = b /\ m.i = l.i + 1
    BY <1>0 DEF Local
  <2> HIDE DEF m
  <2>7. cons' \in [Consumer -> Local] /\ cons'[c] = m
    BY <1>0, <2>2, <2>5
  <2>8. Dequeues(cons[c])'
    <3>1. m.pc \in {"copy", "wait"} /\ (m.pc = "copy" <=> m.i < m.n) /\ m.i <= m.n
      BY <2>1, <2>6, <1>0
    <3> QED BY <3>1, <1>0, <1>s, <2>1, <2>2, <2>4, <2>6, <2>7 DEF Dequeues, Holds, indices
  <2> QED BY <1>1, <1>n, <1>s, <2>2, <2>7, <2>8 DEF indices
<1>7. CASE Release(c)
  <2>1. l.head = br_cons_tail /\ Taken = l.n
    BY <1>0, <1>7 DEF Release, Dequeues, Holds
  <2>2. Plus(l.head, l.n) = br_cons_head
    BY <2>1, Distances, Zenon
  <2>3. /\ br_cons_tail' = br_cons_head /\ cons' = [cons EXCEPT ![c] = Idle]
        /\ UNCHANGED <<br_prod_head, br_prod_tail, br_cons_head, br_ring, prod>>
    BY <1>7, <2>2 DEF Release
  <2>4. cons' \in [Consumer -> Local] /\ cons'[c] = Idle
    BY <1>0, <2>3, IdleIs
  <2>5. Taken' = 0 /\ Ready' = Ready
    <3>1. Minus(br_cons_head, br_cons_head) = 0
      BY <1>n, Sizes, Moved, Zenon
    <3> QED BY <3>1, <2>3, DistancesNext, SameDistances
  <2>6. Dequeues(cons[c])'
    BY <2>4, <2>5, IdleIs DEF Dequeues
  <2> QED BY <1>1, <1>n, <2>3, <2>4, <2>5, <2>6
<1> QED BY <1>3, <1>4, <1>5, <1>6, <1>7 DEF ConsumerStep

LEMMA DequeueKeeps ==
  ASSUME BulkInv, NEW c, Consumer = {c}, NEW n \in 1 .. MaxBurst, DequeueBulk(c, n)
  PROVE  BulkInv'
<1> DEFINE m == [Idle EXCEPT !.pc = "head", !.n = n]
<1>1. /\ cons \in [Consumer -> Local] /\ c \in Consumer /\ Dequeues(cons[c])
      /\ MaxBurst \in Nat \ {0} /\ Taken \in Nat /\ Ready \in Nat
  BY Numbers, Distances DEF BulkInv, RingTypes
<1>2. /\ cons' = [cons EXCEPT ![c] = m] /\ UNCHANGED <<indices, br_ring, prod>>
      /\ cons[c].pc = "idle" /\ UNCHANGED <<Taken, Ready, Filling>>
  BY <1>1, SameDistances DEF DequeueBulk, indices
<1>3. m.pc = "head" /\ m.n = n /\ m.i = 0 /\ m.buf = <<>>
  BY DEF Idle
<1>4. m \in Local
  <2>1. n \in Nat /\ "head" \in Pc
    BY <1>1 DEF Pc
  <2> QED BY <2>1, IdleIs, Zenon DEF Local
<1> HIDE DEF m
<1>5. cons' \in [Consumer -> Local] /\ cons'[c] = m
  BY <1>1, <1>2, <1>4
<1>6. Dequeues(cons[c])'
  BY <1>1, <1>2, <1>3, <1>5 DEF Dequeues, Holds, indices
<1>7. \A p \in Producer : Enqueues(prod[p])'
  BY <1>1, <1>2, ProducerFrame DEF indices
<1> QED BY <1>1, <1>2, <1>5, <1>6, <1>7 DEF indices, RingTypes, InOrder, BulkInv

LEMMA BulkStep ==
  ASSUME NEW p, NEW c, Producer = {p}, Consumer = {c}, BulkInv, [BulkNext]_bulkVars, ~zeroed'
  PROVE  BulkInv'
<1>1. CASE UNCHANGED bulkVars
  <2>1. UNCHANGED <<br_prod_head, br_prod_tail, br_cons_head, br_cons_tail, br_ring, prod, cons>>
    BY <1>1 DEF bulkVars, indices
  <2>2. UNCHANGED <<Taken, Ready, Filling>>
    BY <2>1, SameDistances
  <2> QED BY <2>1, <2>2 DEF BulkInv, RingTypes, InOrder, Enqueues, Dequeues
<1>2. CASE BulkNext
  BY <1>2, ProducerKeeps, EnqueueKeeps, ConsumerKeeps, DequeueKeeps, Zenon DEF BulkNext
<1> QED BY <1>1, <1>2

\* A head that has been moved to 0 is not forgotten.
LEMMA StaysZeroed ==
  ASSUME zeroed, [BulkNext]_bulkVars
  PROVE  zeroed'
BY DEF BulkNext, bulkVars, indices, ProducerStep, ConsumerStep, EnqueueBulk, ReadProdHead, CheckFree,
       MoveProdHead, CopyIn, Publish, DequeueBulk, ReadConsHead, CheckEntries, MoveConsHead, CopyOut,
       Release

-----------------------------------------------------------------------------
\* What the steps do to the queue that the ring stands for.

\* The elements of ring r from index a on.
From(r, a, n) == [k \in 1 .. n |-> r[Slot(a + k - 1)]]

LEMMA FromType ==
  ASSUME NEW r \in [0 .. size - 1 -> Value], NEW a \in Nat, NEW n \in Nat
  PROVE  /\ From(r, a, n) \in Seq(Value) /\ Len(From(r, a, n)) = n
         /\ \A k \in 1 .. n : From(r, a, n)[k] = r[Slot(a + k - 1)]
<1>1. ASSUME NEW k \in 1 .. n PROVE r[Slot(a + k - 1)] \in Value
  <2>1. a + k - 1 \in Nat
    OBVIOUS
  <2> QED BY <2>1, SlotType
<1> QED BY <1>1 DEF From

\* What is taken from the front, and what is left.
LEMMA FromSplits ==
  ASSUME NEW r \in [0 .. size - 1 -> Value], NEW a \in Nat, NEW n \in Nat, NEW m \in 0 .. n
  PROVE  /\ SubSeq(From(r, a, n), 1, m) = From(r, a, m)
         /\ SubSeq(From(r, a, n), m + 1, n) = From(r, a + m, n - m)
<1> DEFINE s == From(r, a, n)
<1>1. s \in Seq(Value) /\ Len(s) = n /\ \A k \in 1 .. n : s[k] = r[Slot(a + k - 1)]
  BY FromType, Zenon
<1> HIDE DEF s
<1>2. SubSeq(s, 1, m) = [k \in 1 .. m |-> s[k]]
  BY <1>1
<1>3. SubSeq(s, m + 1, n) = [k \in 1 .. n - m |-> s[k + m]]
  BY <1>1
<1>4. SubSeq(s, 1, m) = From(r, a, m)
  BY <1>1, <1>2 DEF From
<1>5. ASSUME NEW k \in 1 .. n - m PROVE s[k + m] = r[Slot(a + m + k - 1)]
  <2>1. k + m \in 1 .. n /\ a + (k + m) - 1 = a + m + k - 1
    OBVIOUS
  <2> QED BY <2>1, <1>1
<1>6. SubSeq(s, m + 1, n) = From(r, a + m, n - m)
  BY <1>3, <1>5, Zenon DEF From
<1> QED BY <1>4, <1>6 DEF s

\* What is added at the end.
LEMMA FromGrows ==
  ASSUME NEW r \in [0 .. size - 1 -> Value], NEW a \in Nat, NEW n \in Nat,
         NEW b \in Seq(Value), NEW m \in 0 .. Len(b),
         \A k \in 0 .. m - 1 : r[Slot(a + n + k)] = b[k + 1]
  PROVE  From(r, a, n + m) = From(r, a, n) \o SubSeq(b, 1, m)
<1> DEFINE s == From(r, a, n)
           t == SubSeq(b, 1, m)
           u == From(r, a, n + m)
<1>0. m \in Nat /\ n + m \in Nat
  OBVIOUS
<1>1. s \in Seq(Value) /\ Len(s) = n /\ \A k \in 1 .. n : s[k] = r[Slot(a + k - 1)]
  BY FromType, Zenon
<1>2. u \in Seq(Value) /\ Len(u) = n + m /\ \A k \in 1 .. n + m : u[k] = r[Slot(a + k - 1)]
  BY <1>0, FromType, Zenon
<1>3. t \in Seq(Value) /\ Len(t) = m /\ \A k \in 1 .. m : t[k] = b[k]
  OBVIOUS
<1> HIDE DEF s, t, u
<1>4. /\ s \o t \in Seq(Value) /\ Len(s \o t) = n + m
      /\ \A k \in 1 .. n + m : (s \o t)[k] = IF k <= n THEN s[k] ELSE t[k - n]
  BY <1>1, <1>3, Concatenated
<1>5. ASSUME NEW k \in 1 .. n + m PROVE u[k] = (s \o t)[k]
  <2>1. CASE k <= n
    <3>1. k \in 1 .. n
      BY <2>1
    <3>2. u[k] = s[k]
      BY <3>1, <1>1, <1>2
    <3> QED BY <3>2, <2>1, <1>4
  <2>2. CASE k > n
    <3>1. k - n \in 1 .. m /\ k - n - 1 \in 0 .. m - 1 /\ a + n + (k - n - 1) = a + k - 1
          /\ (k - n - 1) + 1 = k - n
      BY <2>2
    <3>2. r[Slot(a + k - 1)] = b[k - n]
      BY <3>1, Zenon
    <3>3. u[k] = r[Slot(a + k - 1)] /\ t[k - n] = b[k - n]
      BY <3>1, <1>2, <1>3
    <3>4. (s \o t)[k] = t[k - n]
      BY <2>2, <1>4
    <3> QED BY <3>2, <3>3, <3>4
  <2>3. k <= n \/ k > n
    BY <1>0
  <2> QED BY <2>1, <2>2, <2>3, Zenon
<1>6. u = s \o t
  BY <1>2, <1>4, <1>5, SameSequence
<1> QED BY <1>6 DEF s, t, u

\* The elements from an index that has wrapped.
LEMMA FromWrapped ==
  ASSUME NEW r, NEW a \in Index, NEW m \in Index, NEW n \in Nat
  PROVE  From(r, Plus(a, m), n) = From(r, a + m, n)
<1>1. ASSUME NEW k \in 1 .. n PROVE Slot(Plus(a, m) + k - 1) = Slot(a + m + k - 1)
  <2>1. k - 1 \in Int /\ a \in Int /\ m \in Int /\ Plus(a, m) \in Int
    BY PlusIs DEF Index
  <2>2. Slot(Plus(a, m) + (k - 1)) = Slot(a + m + (k - 1))
    BY <2>1, SlotOf, Zenon
  <2>3. Plus(a, m) + (k - 1) = Plus(a, m) + k - 1 /\ a + m + (k - 1) = a + m + k - 1
    BY <2>1
  <2> QED BY <2>2, <2>3
<1> QED BY <1>1 DEF From

\* Copying one element leaves what is copied and what is to be copied the same.
LEMMA CopiedOne ==
  ASSUME NEW r \in [0 .. size - 1 -> Value], NEW a \in Nat, NEW n \in Nat \ {0},
         NEW b \in Seq(Value)
  PROVE  b \o From(r, a, n) = Append(b, r[Slot(a)]) \o From(r, a + 1, n - 1)
<1> DEFINE s == From(r, a, n)
           t == From(r, a + 1, n - 1)
           d == Append(b, r[Slot(a)])
<1>1. s \in Seq(Value) /\ Len(s) = n /\ \A k \in 1 .. n : s[k] = r[Slot(a + k - 1)]
  BY FromType, Zenon
<1>2. t \in Seq(Value) /\ Len(t) = n - 1 /\ \A k \in 1 .. n - 1 : t[k] = r[Slot(a + 1 + k - 1)]
  <2>1. n - 1 \in Nat /\ a + 1 \in Nat
    OBVIOUS
  <2> QED BY <2>1, FromType, Zenon
<1>3. r[Slot(a)] \in Value
  BY SlotType
<1>4. /\ d \in Seq(Value) /\ Len(d) = Len(b) + 1 /\ \A k \in 1 .. Len(b) : d[k] = b[k]
      /\ d[Len(b) + 1] = r[Slot(a)]
  BY <1>3
<1> HIDE DEF s, t, d
<1>5. /\ b \o s \in Seq(Value) /\ Len(b \o s) = Len(b) + n
      /\ \A k \in 1 .. Len(b) + n : (b \o s)[k] = IF k <= Len(b) THEN b[k] ELSE s[k - Len(b)]
  BY <1>1, Concatenated, Zenon
<1>6. /\ d \o t \in Seq(Value) /\ Len(d \o t) = Len(b) + n
      /\ \A k \in 1 .. Len(b) + n :
           (d \o t)[k] = IF k <= Len(b) + 1 THEN d[k] ELSE t[k - (Len(b) + 1)]
  <2>1. Len(d) + Len(t) = Len(b) + n /\ Len(d) = Len(b) + 1
    BY <1>2, <1>4
  <2>2. /\ d \o t \in Seq(Value) /\ Len(d \o t) = Len(d) + Len(t)
        /\ \A k \in 1 .. Len(d) + Len(t) :
             (d \o t)[k] = IF k <= Len(d) THEN d[k] ELSE t[k - Len(d)]
    BY <1>2, <1>4, Concatenated, Zenon
  <2> QED BY ONLY <2>1, <2>2
<1>7. ASSUME NEW k \in 1 .. Len(b) + n PROVE (b \o s)[k] = (d \o t)[k]
  <2>0. Len(b) \in Nat /\ k \in Nat
    OBVIOUS
  <2>1. CASE k <= Len(b)
    BY <2>0, <2>1, <1>4, <1>5, <1>6
  <2>2. CASE k = Len(b) + 1
    <3>1. k - Len(b) = 1 /\ a + 1 - 1 = a /\ 1 \in 1 .. n
      BY <2>0, <2>2
    <3>2. s[k - Len(b)] = r[Slot(a)]
      BY <3>1, <1>1
    <3> QED BY <2>0, <2>2, <3>2, <1>4, <1>5, <1>6
  <2>3. CASE k > Len(b) + 1
    <3>1. /\ k - Len(b) \in 1 .. n /\ k - (Len(b) + 1) \in 1 .. n - 1
          /\ a + (k - Len(b)) - 1 = a + 1 + (k - (Len(b) + 1)) - 1
      BY <2>0, <2>3
    <3>2. s[k - Len(b)] = t[k - (Len(b) + 1)]
      BY <3>1, <1>1, <1>2, ZenonT(30)
    <3>3. (b \o s)[k] = s[k - Len(b)] /\ (d \o t)[k] = t[k - (Len(b) + 1)]
      BY <2>0, <2>3, <1>5, <1>6
    <3> QED BY <3>2, <3>3
  <2>4. k <= Len(b) \/ k = Len(b) + 1 \/ k > Len(b) + 1
    BY ONLY <2>0
  <2> QED BY <2>1, <2>2, <2>3, <2>4, Zenon
<1>8. b \o s = d \o t
  BY <1>5, <1>6, <1>7, SameSequence, Zenon
<1> QED BY <1>8 DEF s, t, d

-----------------------------------------------------------------------------
\* The refinement: what RingFifo's variables stand for, and the steps.

Queue == Content(br_cons_head, Minus(br_prod_tail, br_cons_head))
Puts == [x \in Producer |-> prod[x].buf]
Gots == [x \in Consumer |-> Got(x)]

QueueKnown ==
  /\ Queue = From(br_ring, br_cons_head, Ready)
  /\ br_ring \in [0 .. size - 1 -> Value]
  /\ br_cons_head \in Nat /\ br_cons_head \in Index /\ Ready \in 0 .. size /\ Ready \in Nat

LEMMA QueueIs == BulkInv => QueueKnown
<1> SUFFICES ASSUME BulkInv PROVE QueueKnown
  OBVIOUS
<1>1. Ready \in 0 .. size /\ Ready \in Nat
  BY Numbers, Distances
<1>2. Queue = From(br_ring, br_cons_head, Ready)
  BY DEF Queue, Content, From, Ready
<1> QED BY <1>1, <1>2, Numbers DEF BulkInv, RingTypes, QueueKnown, Index

LEMMA QueueIsNext == BulkInv' => QueueKnown'
BY QueueIs, PTL

\* A step that leaves the ring alone, or fills slots that are not in use, changes nothing
\* that the consumer sees.
LEMMA SameQueue ==
  ASSUME BulkInv, BulkInv', UNCHANGED <<br_cons_head, br_prod_tail, cons>>,
         \A j \in 0 .. Taken + Ready - 1 :
           br_ring'[Slot(br_cons_tail + j)] = br_ring[Slot(br_cons_tail + j)]
  PROVE  UNCHANGED <<Queue, Gots>>
<1>0. /\ br_cons_head \in Index /\ br_cons_tail \in Index
      /\ br_cons_head \in Nat /\ br_cons_tail \in Nat /\ Taken \in Nat /\ Ready \in Nat
  BY Numbers, Distances DEF Index
<1>1. Queue' = Queue
  <2>1. ASSUME NEW k \in 1 .. Ready
        PROVE  br_ring'[Slot(br_cons_head + k - 1)] = br_ring[Slot(br_cons_head + k - 1)]
    <3>1. /\ Taken + k - 1 \in 0 .. Taken + Ready - 1 /\ k - 1 \in Int
          /\ br_cons_head + (k - 1) = br_cons_head + k - 1
          /\ br_cons_tail + Taken + (k - 1) = br_cons_tail + (Taken + k - 1)
      BY <1>0
    <3>2. Slot(br_cons_head + (k - 1)) = Slot(br_cons_tail + Taken + (k - 1))
      BY <1>0, <3>1, SlotAt, Zenon DEF Taken
    <3> QED BY <3>1, <3>2
  <2>2. From(br_ring', br_cons_head, Ready) = From(br_ring, br_cons_head, Ready)
    BY <2>1 DEF From
  <2>3. Ready' = Ready
    BY SameDistances
  <2> QED BY <2>2, <2>3, QueueIs, QueueIsNext DEF QueueKnown
<1>2. ASSUME NEW x \in Consumer PROVE Got(x)' = Got(x)
  <2> DEFINE l == cons[x]
  <2>1. l \in Local /\ Dequeues(l)
    BY DEF BulkInv, RingTypes
  <2>2. CASE ~Holds(l)
    BY <2>2 DEF Got, Holds
  <2>3. CASE Holds(l)
    <3>1. /\ l.head \in Nat /\ l.i \in Nat /\ l.n \in Nat /\ l.i <= l.n
          /\ l.head = br_cons_tail /\ Taken = l.n
      BY <2>1, <2>3 DEF Local, Dequeues
    <3>2. ASSUME NEW k \in 1 .. l.n - l.i
          PROVE  br_ring'[Slot(l.head + l.i + k - 1)] = br_ring[Slot(l.head + l.i + k - 1)]
      <4>1. /\ l.i + k - 1 \in 0 .. Taken + Ready - 1
            /\ l.head + l.i + k - 1 = br_cons_tail + (l.i + k - 1)
        BY <1>0, <3>1
      <4> QED BY <4>1
    <3>3. Content(l.head + l.i, l.n - l.i)' = Content(l.head + l.i, l.n - l.i)
      BY <3>2 DEF Content, Slot
    <3> QED BY <3>3 DEF Got, Holds
  <2> QED BY <2>2, <2>3
<1>3. Gots' = Gots
  BY <1>2 DEF Gots
<1> QED BY <1>1, <1>3

LEMMA PutsSet ==
  ASSUME NEW p, Producer = {p}
  PROVE  /\ Puts' = [Puts EXCEPT ![p] = prod'[p].buf] /\ Puts[p] = prod[p].buf
         /\ prod'[p].buf = prod[p].buf => UNCHANGED Puts
BY DEF Puts

LEMMA GotsSet ==
  ASSUME BulkInv, NEW c, Consumer = {c}
  PROVE  Gots' = [Gots EXCEPT ![c] = Got(c)'] /\ Gots[c] = Got(c)
         /\ (Got(c)' = Got(c) => UNCHANGED Gots)
BY DEF Gots

LEMMA ProducerRefines ==
  ASSUME NEW p, Producer = {p}, BulkInv, BulkInv', ProducerStep(p)
  PROVE  [RingQueue!FifoNext]_(RingQueue!fifoVars)
<1> DEFINE l == prod[p]
<1>0. /\ l \in Local /\ Enqueues(l) /\ prod \in [Producer -> Local] /\ p \in Producer
      /\ l.pc \in Pc /\ l.head \in Nat /\ l.n \in Nat /\ l.i \in Nat
      /\ l.buf \in Seq(Value) /\ Len(l.buf) \in Nat
  <2>1. l \in Local /\ Enqueues(l) /\ prod \in [Producer -> Local] /\ p \in Producer
    BY DEF BulkInv, RingTypes
  <2> QED BY <2>1 DEF Local
<1>1. SUFFICES \/ UNCHANGED <<Queue, Puts, Gots>>
               \/ \E n \in 0 .. MaxBurst :
                    /\ n <= Len(Puts[p]) /\ Len(Queue) + n <= size
                    /\ Queue' = Queue \o SubSeq(Puts[p], 1, n)
                    /\ Puts' = [Puts EXCEPT ![p] = <<>>]
                    /\ UNCHANGED Gots
  <2>1. CASE UNCHANGED <<Queue, Puts, Gots>>
    BY <2>1 DEF RingQueue!fifoVars, Queue, Puts, Gots
  <2>2. ASSUME NEW n \in 0 .. MaxBurst, n <= Len(Puts[p]), Len(Queue) + n <= size,
               Queue' = Queue \o SubSeq(Puts[p], 1, n),
               Puts' = [Puts EXCEPT ![p] = <<>>], UNCHANGED Gots
        PROVE  RingQueue!FifoNext
    <3>1. RingQueue!Enq(p, n)
      BY <2>2 DEF RingQueue!Enq, Queue, Puts, Gots
    <3> QED BY <3>1, <1>0 DEF RingQueue!FifoNext
  <2> QED BY <1>1, <2>1, <2>2, Zenon
<1>2. ASSUME UNCHANGED <<br_cons_head, br_prod_tail, br_ring, cons>> PROVE UNCHANGED <<Queue, Gots>>
  BY <1>2, SameQueue
<1>3. CASE ReadProdHead(p)
  <2>1. prod' = [prod EXCEPT ![p] = [l EXCEPT !.pc = "free", !.head = br_prod_head]]
    BY <1>0, <1>3, Zenon DEF ReadProdHead
  <2>2. UNCHANGED Puts
    <3>1. prod'[p].buf = l.buf
      BY <1>0, <2>1 DEF Local
    <3> QED BY <3>1, PutsSet
  <2> QED BY <2>2, <1>2, <1>3 DEF ReadProdHead, indices
<1>4. CASE CheckFree(p)
  <2> DEFINE n == SmallerOf(Len(l.buf), FreeEntries(p))
  <2>1. prod' = [prod EXCEPT ![p] = IF n = 0 THEN Idle ELSE [l EXCEPT !.pc = "cas", !.n = n]]
        /\ UNCHANGED <<indices, br_ring, cons>>
    BY <1>0, <1>4 DEF CheckFree
  <2>2. UNCHANGED <<Queue, Gots>>
    BY <2>1, <1>2 DEF indices
  <2> HIDE DEF n
  <2>3. CASE n = 0
    <3>1. Puts' = [Puts EXCEPT ![p] = <<>>] /\ Puts[p] = l.buf
      <4>1. prod' = [prod EXCEPT ![p] = Idle]
        BY <2>1, <2>3
      <4>2. prod'[p].buf = <<>>
        BY <4>1, <1>0, IdleIs
      <4> QED BY <4>2, PutsSet
    <3>2. Queue \in Seq(Value) /\ Len(Queue) <= size /\ Len(Queue) \in Nat
      BY QueueIs, FromType DEF QueueKnown
    <3>3. SubSeq(l.buf, 1, 0) = <<>> /\ Queue \o <<>> = Queue
      BY <1>0, <3>2
    <3>4. 0 \in 0 .. MaxBurst /\ Len(Queue) + 0 <= size
      BY <3>2, Numbers
    <3>5. Queue' = Queue \o SubSeq(Puts[p], 1, 0)
      BY <2>2, <3>1, <3>3, Zenon
    <3> QED BY ONLY <1>0, <2>2, <3>1, <3>4, <3>5
  <2>4. CASE n # 0
    <3>1. prod' = [prod EXCEPT ![p] = [l EXCEPT !.pc = "cas", !.n = n]]
      BY <2>1, <2>4
    <3>2. UNCHANGED Puts
      <4>1. prod'[p].buf = l.buf
        BY <1>0, <3>1 DEF Local
      <4> QED BY <4>1, PutsSet
    <3> QED BY <3>2, <2>2
  <2> QED BY <2>3, <2>4, Zenon
<1>5. CASE MoveProdHead(p)
  <2>1. PICK w : prod' = [prod EXCEPT ![p] = [l EXCEPT !.pc = w]]
    BY <1>0, <1>5, Zenon DEF MoveProdHead
  <2>2. UNCHANGED Puts
    <3>1. prod'[p].buf = l.buf
      BY <1>0, <2>1 DEF Local
    <3> QED BY <3>1, PutsSet
  <2> QED BY <2>2, <1>2, <1>5 DEF MoveProdHead
<1>6. CASE CopyIn(p)
  <2>1. PICK w : prod' = [prod EXCEPT ![p] = [l EXCEPT !.i = l.i + 1, !.pc = w]]
    BY <1>0, <1>6 DEF CopyIn
  <2>2. UNCHANGED Puts
    <3>1. prod'[p].buf = l.buf
      BY <1>0, <2>1 DEF Local
    <3> QED BY <3>1, PutsSet
  <2>3. /\ l.head = br_prod_tail /\ Taken + Ready + l.n <= size /\ l.i < l.n
        /\ Taken \in Nat /\ Ready \in Nat /\ br_cons_tail \in Nat /\ size \in Nat
    BY <1>0, <1>6, Numbers, Distances DEF CopyIn, Enqueues, Holds, Index
  <2>4. ASSUME NEW j \in 0 .. Taken + Ready - 1
        PROVE  br_ring'[Slot(br_cons_tail + j)] = br_ring[Slot(br_cons_tail + j)]
    <3> DEFINE b == br_cons_tail + (Taken + Ready) + l.i
    <3>1. /\ br_cons_tail + j < b /\ b < br_cons_tail + j + size
          /\ br_cons_tail + j \in Nat /\ b \in Nat
      BY <1>0, <2>3
    <3>2. Slot(l.head + l.i) = Slot(b)
      <4>1. l.i \in Int
        BY <1>0
      <4> QED BY <4>1, <2>3, Numbers, Distances, SlotAt
    <3> HIDE DEF b
    <3>3. Slot(br_cons_tail + j) # Slot(b)
      BY <3>1, SlotsDiffer
    <3>4. br_ring \in [0 .. size - 1 -> Value] /\ Slot(br_cons_tail + j) \in 0 .. size - 1
      BY <3>1, SlotType, Zenon DEF BulkInv, RingTypes
    <3> QED BY <3>2, <3>3, <3>4, <1>6 DEF CopyIn
  <2>5. UNCHANGED <<Queue, Gots>>
    BY <2>4, <1>6, SameQueue DEF CopyIn, indices
  <2> QED BY <2>2, <2>5
<1>7. CASE Publish(p)
  <2>1. /\ l.head = br_prod_tail /\ Filling = l.n
        /\ l.n \in 1 .. Len(l.buf) /\ l.i = l.n /\ Len(l.buf) \in 1 .. MaxBurst
        /\ \A k \in 0 .. l.i - 1 : br_ring[Slot(l.head + k)] = l.buf[k + 1]
    BY <1>0, <1>7 DEF Publish, Enqueues, Holds
  <2>2. Plus(l.head, l.n) = br_prod_head
    BY <2>1, Distances, Zenon
  <2>3. /\ br_prod_tail' = br_prod_head /\ prod' = [prod EXCEPT ![p] = Idle]
        /\ UNCHANGED <<br_prod_head, br_cons_head, br_cons_tail, br_ring, cons>>
    BY <1>7, <2>1, <2>2 DEF Publish
  <2>4. /\ Queue = From(br_ring, br_cons_head, Ready) /\ br_ring \in [0 .. size - 1 -> Value]
        /\ br_cons_head \in Nat /\ br_cons_head \in Index /\ Ready \in Nat
    BY QueueIs DEF QueueKnown
  <2>5. Queue' = From(br_ring, br_cons_head, Ready + l.n) /\ Ready + l.n <= size
    <3>1. Filling + Ready < IdxMod /\ Filling + Ready = Ready + l.n
      BY <1>0, <2>1, <2>4, Numbers, Distances
    <3>2. Minus(br_prod_head, br_cons_head) = Ready + l.n
      BY <3>1, Numbers, AddUp DEF Filling, Ready
    <3>3. Ready' = Ready + l.n
      BY <3>2, <2>3, DistancesNext
    <3> QED BY <3>3, <2>3, QueueIsNext DEF QueueKnown
  <2>6. \A k \in 0 .. l.n - 1 : br_ring[Slot(br_cons_head + Ready + k)] = l.buf[k + 1]
    <3>1. ASSUME NEW k \in 0 .. l.n - 1
          PROVE  Slot(br_prod_tail + k) = Slot(br_cons_head + Ready + k)
      <4>1. k \in Int
        BY <1>0
      <4> QED BY <4>1, <2>4, Numbers, SlotAt, Zenon DEF Ready
    <3> QED BY <3>1, <2>1
  <2>7. Queue' = Queue \o SubSeq(l.buf, 1, l.n)
    <3>1. l.n \in 0 .. Len(l.buf)
      BY <1>0, <2>1
    <3>2. From(br_ring, br_cons_head, Ready + l.n)
            = From(br_ring, br_cons_head, Ready) \o SubSeq(l.buf, 1, l.n)
      <4>1. l.buf \in Seq(Value)
        BY <1>0
      <4> QED BY <3>1, <4>1, <2>4, <2>6, FromGrows, Zenon
    <3> QED BY <3>2, <2>4, <2>5, Zenon
  <2>8. Puts' = [Puts EXCEPT ![p] = <<>>] /\ Puts[p] = l.buf
    <3>1. prod'[p].buf = <<>>
      BY <2>3, <1>0, IdleIs
    <3> QED BY <3>1, PutsSet
  <2>9. Gots' = Gots
    BY <2>3 DEF Gots, Got, Content, Holds
  <2>10. Len(Queue) + l.n <= size
    BY <2>4, <2>5, FromType, Zenon
  <2>11. l.n \in 0 .. MaxBurst /\ l.n <= Len(l.buf)
    BY <1>0, <2>1, Numbers
  <2> QED BY <2>7, <2>8, <2>9, <2>10, <2>11, Zenon
<1> QED BY <1>3, <1>4, <1>5, <1>6, <1>7, Zenon DEF ProducerStep

LEMMA GotIs ==
  ASSUME NEW c
  PROVE  Got(c) = IF Holds(cons[c])
                    THEN cons[c].buf \o From(br_ring, cons[c].head + cons[c].i, cons[c].n - cons[c].i)
                    ELSE <<>>
BY DEF Got, Content, From

LEMMA GotIsNext ==
  ASSUME NEW c
  PROVE  Got(c)' = IF Holds(cons'[c])
                     THEN cons'[c].buf \o From(br_ring', cons'[c].head + cons'[c].i,
                                                cons'[c].n - cons'[c].i)
                     ELSE <<>>
BY DEF Got, Content, From, Holds, Slot

LEMMA ConsumerRefines ==
  ASSUME NEW c, Consumer = {c}, BulkInv, BulkInv', ConsumerStep(c), ~zeroed'
  PROVE  [RingQueue!FifoNext]_(RingQueue!fifoVars)
<1> DEFINE l == cons[c]
<1>0. /\ l \in Local /\ Dequeues(l) /\ cons \in [Consumer -> Local] /\ c \in Consumer
      /\ l.pc \in Pc /\ l.head \in Nat /\ l.n \in Nat /\ l.i \in Nat
      /\ l.buf \in Seq(Value) /\ Len(l.buf) \in Nat
      /\ cons' \in [Consumer -> Local]
  <2>1. l \in Local /\ Dequeues(l) /\ cons \in [Consumer -> Local] /\ c \in Consumer
        /\ cons' \in [Consumer -> Local]
    BY DEF BulkInv, RingTypes
  <2> QED BY <2>1 DEF Local
<1>q. /\ Queue = From(br_ring, br_cons_head, Ready)
      /\ Queue' = From(br_ring', br_cons_head', Ready')
      /\ br_ring \in [0 .. size - 1 -> Value] /\ size \in Nat
      /\ br_cons_head \in Nat /\ br_cons_head \in Index /\ Ready \in Nat
  BY QueueIs, QueueIsNext, Numbers DEF QueueKnown
<1>u. Puts' = Puts /\ br_ring' = br_ring /\ br_prod_tail' = br_prod_tail
  BY DEF ConsumerStep, ReadConsHead, CheckEntries, MoveConsHead, CopyOut, Release, Puts, indices
<1>r. br_cons_head' = br_cons_head => Ready' = Ready
  BY <1>u, SameDistances
<1>1. CASE Queue' = Queue /\ Got(c)' = Got(c)
  <2>1. UNCHANGED <<Queue, Puts, Gots>>
    BY <1>1, <1>u, GotsSet
  <2> QED BY <2>1 DEF RingQueue!fifoVars, Queue, Puts, Gots
<1>2. CASE ReadConsHead(c)
  <2>1. ~Holds(l) /\ ~Holds(cons'[c]) /\ br_cons_head' = br_cons_head
    BY <1>0, <1>2 DEF ReadConsHead, Holds, indices, Local
  <2> QED BY <2>1, <1>1, <1>q, <1>r, <1>u, GotIs, GotIsNext, Zenon
<1>3. CASE CheckEntries(c)
  <2>1. ~Holds(l) /\ br_cons_head' = br_cons_head
    BY <1>0, <1>3 DEF CheckEntries, Holds, indices
  <2> DEFINE n == SmallerOf(l.n, Entries(c))
  <2>2. cons' = [cons EXCEPT ![c] = IF n = 0 THEN Idle ELSE [l EXCEPT !.pc = "cas", !.i = n]]
    BY <1>0, <1>3 DEF CheckEntries
  <2> HIDE DEF n
  <2>3. ~Holds(cons'[c])
    BY <1>0, <2>2, IdleIs DEF Holds, Local
  <2> QED BY <2>1, <2>3, <1>1, <1>q, <1>r, <1>u, GotIs, GotIsNext, Zenon
<1>4. CASE MoveConsHead(c)
  <2> DEFINE n == Ready
  <2>1. /\ l.pc = "cas" /\ l.head = br_cons_head /\ l.i \in 1 .. l.n /\ l.n \in 1 .. MaxBurst
        /\ l.i <= Ready /\ l.buf = <<>> /\ ~Holds(l)
    BY <1>0, <1>4 DEF MoveConsHead, Dequeues, Holds
  <2>2. l.i \in Index
    BY <1>0, <2>1, Numbers, Distances DEF Index
  <2>3. /\ cons' = [cons EXCEPT ![c] = [l EXCEPT !.pc = "copy", !.n = l.i, !.i = 0]]
        /\ br_cons_head' = Plus(br_cons_head, l.i)
    <3>1. Plus(l.head, l.i) # 0
      BY <1>4, <2>1 DEF MoveConsHead
    <3>2. Exchanged(TRUE, l.head, Plus(l.head, l.i))
      BY <3>1 DEF Exchanged
    <3> QED BY <1>0, <1>4, <2>1, <3>2, Zenon DEF MoveConsHead
  <2>4. /\ cons'[c].pc = "copy" /\ cons'[c].n = l.i /\ cons'[c].i = 0
        /\ cons'[c].buf = <<>> /\ cons'[c].head = br_cons_head
    BY <1>0, <2>1, <2>3 DEF Local
  <2>5. Got(c)' = <<>> \o From(br_ring, br_cons_head, l.i)
    <3>1. Holds(cons'[c]) /\ br_cons_head + 0 = br_cons_head /\ l.i - 0 = l.i
      BY <2>4, <1>0, <1>q DEF Holds
    <3> QED BY <2>4, <3>1, <1>u, GotIsNext, Zenon
  <2>6. l.i \in 0 .. n /\ n \in Nat /\ l.i \in 1 .. MaxBurst
    BY <1>0, <1>q, <2>1, Numbers
  <2>7. /\ From(br_ring, br_cons_head, l.i) \in Seq(Value)
        /\ Len(Queue) = n
    BY <2>6, <1>0, <1>q, FromType, Zenon
  <2>8. Got(c)' = SubSeq(Queue, 1, l.i)
    <3>1. <<>> \o From(br_ring, br_cons_head, l.i) = From(br_ring, br_cons_head, l.i)
      BY <2>7
    <3>2. SubSeq(From(br_ring, br_cons_head, n), 1, l.i) = From(br_ring, br_cons_head, l.i)
      BY <2>6, <1>q, FromSplits, ZenonT(30)
    <3> QED BY <2>5, <3>1, <3>2, <1>q
  <2>9. Queue' = SubSeq(Queue, l.i + 1, Len(Queue))
    <3>1. Ready' = n - l.i
      <4>1. Minus(br_prod_tail, Plus(br_cons_head, l.i)) = Ready - l.i
        BY <2>1, <2>2, Distances, Zenon
      <4> QED BY <4>1, <1>u, <2>3, DistancesNext
    <3>2. SubSeq(From(br_ring, br_cons_head, n), l.i + 1, n)
            = From(br_ring, br_cons_head + l.i, n - l.i)
      BY <2>6, <1>q, FromSplits, Zenon
    <3>3. From(br_ring, Plus(br_cons_head, l.i), n - l.i) = From(br_ring, br_cons_head + l.i, n - l.i)
      <4>1. n - l.i \in Nat
        BY <2>6
      <4> QED BY <4>1, <2>2, <1>q, FromWrapped, Zenon
    <3> QED BY <3>1, <3>2, <3>3, <2>3, <2>7, <1>q, <1>u
  <2>10. Gots[c] = <<>> /\ Gots' = [Gots EXCEPT ![c] = SubSeq(Queue, 1, l.i)]
    BY <2>1, <2>8, GotIs, GotsSet, Zenon
  <2>11. RingQueue!Deq(c, l.i)
    BY <2>6, <2>7, <2>9, <2>10, <1>u DEF RingQueue!Deq, Queue, Puts, Gots
  <2> QED BY <2>6, <2>11, <1>0 DEF RingQueue!FifoNext
<1>5. CASE CopyOut(c)
  <2>1. /\ Holds(l) /\ l.i < l.n /\ br_cons_head' = br_cons_head
    BY <1>0, <1>5 DEF CopyOut, Dequeues, Holds, indices
  <2>2. PICK w \in {"copy", "wait"} :
          cons' = [cons EXCEPT ![c] = [l EXCEPT !.i = l.i + 1, !.pc = w,
                     !.buf = Append(l.buf, br_ring[Slot(l.head + l.i)])]]
    BY <1>0, <1>5, Zenon DEF CopyOut
  <2>3. /\ cons'[c].pc = w /\ cons'[c].n = l.n /\ cons'[c].i = l.i + 1 /\ cons'[c].head = l.head
        /\ cons'[c].buf = Append(l.buf, br_ring[Slot(l.head + l.i)])
    BY <1>0, <2>2 DEF Local
  <2>4. Holds(cons'[c])
    BY <2>3 DEF Holds
  <2> DEFINE a == l.head + l.i
             n == l.n - l.i
  <2>5. /\ l.head + (l.i + 1) = a + 1 /\ l.n - (l.i + 1) = n - 1
        /\ a \in Nat /\ n \in Nat \ {0}
    BY <1>0, <2>1
  <2>6. Got(c) = l.buf \o From(br_ring, a, n)
    BY <2>1, GotIs, Zenon
  <2>7. Got(c)' = Append(l.buf, br_ring[Slot(a)]) \o From(br_ring, a + 1, n - 1)
    BY <2>3, <2>4, <2>5, <1>u, GotIsNext, Zenon
  <2>8. Got(c)' = Got(c)
    <3> HIDE DEF a, n
    <3> QED BY <1>0, <1>q, <2>5, <2>6, <2>7, CopiedOne, Zenon
  <2> QED BY <2>1, <2>8, <1>1, <1>q, <1>r, <1>u
<1>6. CASE Release(c)
  <2>1. /\ Holds(l) /\ l.n \in 1 .. MaxBurst /\ Len(l.buf) = l.i /\ l.i = l.n
        /\ br_cons_head' = br_cons_head
    BY <1>0, <1>6 DEF Release, Dequeues, Holds
  <2>2. ~Holds(cons'[c])
    BY <1>0, <1>6, IdleIs DEF Release
  <2>3. Got(c)' = <<>>
    BY <2>2, GotIsNext, Zenon
  <2>4. Got(c) # <<>>
    <3>1. From(br_ring, l.head + l.i, 0) = <<>>
      BY DEF From
    <3>2. Got(c) = l.buf \o <<>>
      <4>1. l.n - l.i = 0
        BY <1>0, <2>1
      <4> QED BY <3>1, <4>1, <2>1, GotIs, Zenon
    <3>3. l.buf \o <<>> = l.buf /\ Len(l.buf) # 0
      BY <1>0, <2>1, Numbers
    <3> QED BY <3>2, <3>3
  <2>5. RingQueue!Return(c)
    BY <2>1, <2>3, <2>4, <1>q, <1>r, <1>u, GotsSet DEF RingQueue!Return, Queue, Puts, Gots
  <2> QED BY <2>5, <1>0 DEF RingQueue!FifoNext
<1> QED BY <1>2, <1>3, <1>4, <1>5, <1>6 DEF ConsumerStep

\* The calls, and the whole: a step of the ring is a step of the queue or changes
\* nothing of it.
LEMMA BulkRefines ==
  ASSUME NEW p, NEW c, Producer = {p}, Consumer = {c}, BulkInv, BulkInv', [BulkNext]_bulkVars, ~zeroed'
  PROVE  [RingQueue!FifoNext]_(RingQueue!fifoVars)
<1>1. CASE UNCHANGED bulkVars
  <2>1. UNCHANGED <<br_cons_head, br_prod_tail, br_ring, prod, cons>>
    BY <1>1 DEF bulkVars, indices
  <2>2. UNCHANGED <<Queue, Puts, Gots>>
    BY <2>1, SameQueue DEF Puts
  <2> QED BY <2>2 DEF RingQueue!fifoVars, Queue, Puts, Gots
<1>2. CASE ProducerStep(p)
  BY <1>2, ProducerRefines
<1>3. CASE ConsumerStep(c)
  BY <1>3, ConsumerRefines
<1>4. ASSUME NEW n \in 1 .. MaxBurst, NEW vs \in [1 .. n -> Value], EnqueueBulk(p, vs)
      PROVE  RingQueue!FifoNext
  <2>1. prod[p].buf = <<>> /\ p \in Producer
    BY <1>4, IdleIs DEF EnqueueBulk, BulkInv, Enqueues
  <2>2. prod'[p].buf = vs
    <3>1. prod' = [prod EXCEPT ![p] = [Idle EXCEPT !.pc = "head", !.buf = vs]]
      BY <1>4 DEF EnqueueBulk
    <3>2. [Idle EXCEPT !.pc = "head", !.buf = vs].buf = vs
      BY DEF Idle
    <3>3. prod \in [Producer -> Local]
      BY DEF BulkInv, RingTypes
    <3> QED BY <2>1, <3>1, <3>2, <3>3
  <2>3. UNCHANGED <<Queue, Gots>>
    BY <1>4, SameQueue DEF EnqueueBulk, indices
  <2>4. RingQueue!Call(p, vs)
    BY <2>1, <2>2, <2>3, PutsSet DEF RingQueue!Call, Queue, Puts, Gots
  <2> QED BY <2>1, <2>4 DEF RingQueue!FifoNext
<1>5. ASSUME NEW n \in 1 .. MaxBurst, DequeueBulk(c, n)
      PROVE  UNCHANGED RingQueue!fifoVars
  <2>1. cons' = [cons EXCEPT ![c] = [Idle EXCEPT !.pc = "head", !.n = n]] /\ cons[c].pc = "idle"
        /\ UNCHANGED <<br_cons_head, br_prod_tail, br_ring, prod>>
    BY <1>5 DEF DequeueBulk, indices
  <2>2. cons \in [Consumer -> Local] /\ c \in Consumer
    BY DEF BulkInv, RingTypes
  <2>3. ~Holds(cons[c]) /\ ~Holds(cons'[c])
    BY <2>1, <2>2 DEF Holds, Idle
  <2>4. Got(c)' = Got(c)
    BY <2>3, GotIs, GotIsNext, Zenon
  <2>5. UNCHANGED <<Queue, Puts, Gots>>
    BY <2>1, <2>4, GotsSet, QueueIs, QueueIsNext, SameDistances DEF QueueKnown, Puts
  <2> QED BY <2>5 DEF RingQueue!fifoVars, Queue, Puts, Gots
<1> QED BY <1>1, <1>2, <1>3, <1>4, <1>5 DEF BulkNext

LEMMA BulkRefinesInit == BulkInit => RingQueue!FifoInit
<1> SUFFICES ASSUME BulkInit PROVE RingQueue!FifoInit
  OBVIOUS
<1>1. BulkInv
  BY InitBulk
<1>2. Ready = 0
  BY Sizes, Moved DEF BulkInit, Ready
<1>3. Queue = <<>>
  BY <1>1, <1>2, QueueIs DEF QueueKnown, From
<1>4. Puts = [x \in Producer |-> <<>>]
  BY IdleIs DEF BulkInit, Puts
<1>5. ASSUME NEW x \in Consumer PROVE Got(x) = <<>>
  BY IdleIs, GotIs, Zenon DEF BulkInit
<1> QED BY <1>3, <1>4, <1>5 DEF RingQueue!FifoInit, Queue, Puts

-----------------------------------------------------------------------------
\* The inductive invariant, with what happened once a head was moved to 0 left out.
RingInv == zeroed \/ BulkInv

\* With one producer and one consumer, enqueue_bulk_mc and dequeue_bulk_mc behave like
\* operations of a bounded queue that take effect in one step each: an enqueue when it
\* moves br_prod_tail or finds no room, a dequeue when it moves br_cons_head.  No element
\* is lost, duplicated, reordered or overwritten while it is copied, for any number of
\* slots, any length of the calls and any values, and although the indices wrap, until an
\* exchange moves a head to 0 exactly, which the code takes for a failure.
THEOREM RingImplementsFifo ==
  ASSUME NEW p, NEW c, Producer = {p}, Consumer = {c}
  PROVE  BulkSpec => FifoRing
<1>1. BulkInit => RingInv
  BY InitBulk DEF RingInv
<1>2. RingInv /\ [BulkNext]_bulkVars => RingInv'
  BY BulkStep, StaysZeroed DEF RingInv
<1>3. RingInv /\ RingInv' /\ [BulkNext]_bulkVars
        => [~zeroed' => RingQueue!FifoNext]_(RingQueue!fifoVars)
  BY BulkRefines, StaysZeroed DEF RingInv
<1> QED
  BY <1>1, <1>2, <1>3, BulkRefinesInit, PTL DEF BulkSpec, FifoRing
=============================================================================
