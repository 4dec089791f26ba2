---------------------------- MODULE BoundedFifo ----------------------------
(***************************************************************************)
(* What a mailbox promises: messages leave in the order in which they      *)
(* came, each once, and never more than Size of them are inside.           *)
(***************************************************************************)
EXTENDS Naturals, Sequences

CONSTANTS Msg, Receiver, Size, NoMsg

VARIABLES queue,  \* the messages inside
          got     \* what each receiver was last given

fifoVars == <<queue, got>>

FifoInit == queue = <<>> /\ got = [r \in Receiver |-> NoMsg]

Put(m) ==
  /\ Len(queue) < Size
  /\ queue' = Append(queue, m)
  /\ UNCHANGED got

Get(r) ==
  /\ queue # <<>>
  /\ got' = [got EXCEPT ![r] = Head(queue)]
  /\ queue' = Tail(queue)

\* A receiver's result is cleared: it gave up, or begins a new call.
Clear(r) == got' = [got EXCEPT ![r] = NoMsg] /\ UNCHANGED queue

FifoNext == (\E m \in Msg : Put(m)) \/ (\E r \in Receiver : Get(r) \/ Clear(r))

FifoSpec == FifoInit /\ [][FifoNext]_fifoVars
=============================================================================
