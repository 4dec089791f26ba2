------------------------------ MODULE RingFifo ------------------------------
(***************************************************************************)
(* What the ring of include/uk/ring.h promises: a queue from which several *)
(* producers and consumers add and remove elements as if in one step each, *)
(* between the call and the return.                                        *)
(***************************************************************************)
EXTENDS Naturals, Sequences

CONSTANTS Producer, Consumer, Value, Capacity, MaxBurst

VARIABLES q,    \* the elements, oldest first
          put,  \* what a producer is adding, until it returns
          got   \* what a consumer has removed, until it returns

fifoVars == <<q, put, got>>

FifoInit ==
  q = <<>> /\ put = [p \in Producer |-> <<>>] /\ got = [c \in Consumer |-> <<>>]

Call(p, vs) ==
  /\ put[p] = <<>>
  /\ put' = [put EXCEPT ![p] = vs]
  /\ UNCHANGED <<q, got>>

\* The first n elements are added, as many as fit; none if the queue is full.
Enq(p, n) ==
  /\ n <= Len(put[p]) /\ Len(q) + n <= Capacity
  /\ q' = q \o SubSeq(put[p], 1, n)
  /\ put' = [put EXCEPT ![p] = <<>>]
  /\ UNCHANGED got

Deq(c, n) ==
  /\ got[c] = <<>> /\ n <= Len(q)
  /\ got' = [got EXCEPT ![c] = SubSeq(q, 1, n)]
  /\ q' = SubSeq(q, n + 1, Len(q))
  /\ UNCHANGED put

Return(c) ==
  /\ got[c] # <<>>
  /\ got' = [got EXCEPT ![c] = <<>>]
  /\ UNCHANGED <<q, put>>

FifoNext ==
  \/ \E p \in Producer : \/ \E n \in 1..MaxBurst : \E vs \in [1..n -> Value] : Call(p, vs)
                         \/ \E n \in 0..MaxBurst : Enq(p, n)
  \/ \E c \in Consumer : \/ \E n \in 1..MaxBurst : Deq(c, n)
                         \/ Return(c)

FifoSpec == FifoInit /\ [][FifoNext]_fifoVars
=============================================================================
