-------------------------------- MODULE Mbox --------------------------------
(***************************************************************************)
(* Mailboxes (lib/ukmpi): a ring of Size + 1 slots between two semaphores. *)
(*                                                                         *)
(* The semaphores are the abstract ones, which module Semaphore shows the  *)
(* code's to implement.  Threads post and receive in steps between which   *)
(* interrupt handlers run; a handler posts and receives with the try forms *)
(* in one step.  Another thread gets the CPU only while the running one is *)
(* outside or waits for a semaphore.                                       *)
(***************************************************************************)
EXTENDS Naturals, Sequences, FiniteSets

CONSTANTS Thread,  \* the threads
          Irq,     \* stands for the interrupt handlers
          Msg,     \* messages
          NoMsg,   \* NULL
          Size     \* uk_mbox_create's size

ASSUME MboxAssumption == /\ Size \in Nat
                         /\ Irq \notin Thread /\ NoMsg \notin Msg

VARIABLES readsem, writesem,    \* the counts of the semaphores
          readcall, writecall,  \* what each thread is in, of each semaphore
          readpos, writepos,    \* positions in the ring
          msgs,                 \* the ring
          pc,                   \* where in its call a thread is
          hand,                 \* the message a thread is about to write
          got,                  \* the message a caller received, NoMsg once it
                                \* has taken it to call again
          running               \* the thread that has the CPU

semVars == <<readsem, writesem, readcall, writecall>>
ringVars == <<readpos, writepos, msgs>>
mboxVars == <<semVars, ringVars, pc, hand, got, running>>

len == Size + 1

ReadSem == INSTANCE SemaphoreAbs
             WITH Caller <- Thread, InitCount <- 0, count <- readsem, call <- readcall
WriteSem == INSTANCE SemaphoreAbs
              WITH Caller <- Thread, InitCount <- Size, count <- writesem, call <- writecall

readVars == <<readsem, readcall>>
writeVars == <<writesem, writecall>>

\* out, waiting for a slot, about to write it, about to raise readsem, waiting
\* for a message, about to read it, about to raise writesem.
Pcs == {"out", "post", "write", "written", "recv", "read", "emptied"}

-----------------------------------------------------------------------------
\* Bad... are wrong variants of the definitions that follow them; nothing uses
\* them.

\* The sections of _do_mbox_post and _do_mbox_recv that run with interrupts off.
put(m) ==
  /\ msgs' = [msgs EXCEPT ![writepos] = m]
  /\ writepos' = (writepos + 1) % len
  /\ UNCHANGED readpos

Bad_get(c) ==  \* the position advances before the slot is read
  /\ readpos' = (readpos + 1) % len
  /\ got' = [got EXCEPT ![c] = msgs[readpos']]
  /\ UNCHANGED <<writepos, msgs>>

get(c) ==
  /\ got' = [got EXCEPT ![c] = msgs[readpos]]
  /\ readpos' = (readpos + 1) % len
  /\ UNCHANGED <<writepos, msgs>>

Runs(t, p) == running = t /\ pc[t] = p

Goto(t, p) == pc' = [pc EXCEPT ![t] = p] /\ UNCHANGED running

\* uk_mbox_post and uk_mbox_post_to.
Post(t, m, kind) ==
  /\ Runs(t, "out")
  /\ WriteSem!Down(t, kind)
  /\ hand' = [hand EXCEPT ![t] = m]
  /\ Goto(t, "post")
  /\ UNCHANGED <<readVars, ringVars, got>>

PostTimeout(t) ==
  /\ Runs(t, "post")
  /\ WriteSem!GiveUp(t)
  /\ hand' = [hand EXCEPT ![t] = NoMsg]
  /\ Goto(t, "out")
  /\ UNCHANGED <<readVars, ringVars, got>>

PostGranted(t) ==
  /\ Runs(t, "post")
  /\ WriteSem!Take(t)
  /\ Goto(t, "write")
  /\ UNCHANGED <<readVars, ringVars, hand, got>>

\* uk_mbox_post_try, when there is a slot; otherwise it changes nothing.
PostTry(t, m) ==
  /\ Runs(t, "out")
  /\ WriteSem!Try
  /\ hand' = [hand EXCEPT ![t] = m]
  /\ Goto(t, "write")
  /\ UNCHANGED <<readVars, ringVars, got>>

PostWrite(t) ==
  /\ Runs(t, "write")
  /\ put(hand[t])
  /\ hand' = [hand EXCEPT ![t] = NoMsg]
  /\ Goto(t, "written")
  /\ UNCHANGED <<semVars, got>>

BadPostUp(t) ==  \* the wrong semaphore is raised
  /\ Runs(t, "written")
  /\ WriteSem!Up
  /\ Goto(t, "out")
  /\ UNCHANGED <<readVars, ringVars, hand, got>>

PostUp(t) ==
  /\ Runs(t, "written")
  /\ ReadSem!Up
  /\ Goto(t, "out")
  /\ UNCHANGED <<writeVars, ringVars, hand, got>>

\* uk_mbox_recv and uk_mbox_recv_to; the caller's variable for the result holds
\* nothing yet.
Recv(t, kind) ==
  /\ Runs(t, "out")
  /\ ReadSem!Down(t, kind)
  /\ got' = [got EXCEPT ![t] = NoMsg]
  /\ Goto(t, "recv")
  /\ UNCHANGED <<writeVars, ringVars, hand>>

\* recv_to times out: the result is NULL.

RecvTimeout(t) ==
  /\ Runs(t, "recv")
  /\ ReadSem!GiveUp(t)
  /\ got' = [got EXCEPT ![t] = NoMsg]
  /\ Goto(t, "out")
  /\ UNCHANGED <<writeVars, ringVars, hand>>

RecvGranted(t) ==
  /\ Runs(t, "recv")
  /\ ReadSem!Take(t)
  /\ Goto(t, "read")
  /\ UNCHANGED <<writeVars, ringVars, hand, got>>

\* uk_mbox_recv_try, when there is a message; otherwise it changes nothing.
RecvTry(t) ==
  /\ Runs(t, "out")
  /\ ReadSem!Try
  /\ Goto(t, "read")
  /\ UNCHANGED <<writeVars, ringVars, hand, got>>

RecvRead(t) ==
  /\ Runs(t, "read")
  /\ get(t)
  /\ Goto(t, "emptied")
  /\ UNCHANGED <<semVars, hand>>

RecvUp(t) ==
  /\ Runs(t, "emptied")
  /\ WriteSem!Up
  /\ Goto(t, "out")
  /\ UNCHANGED <<readVars, ringVars, hand, got>>

\* An interrupt handler posts (as lwIP's tryposting from an ISR does).
IrqPost(m) ==
  /\ WriteSem!Try
  /\ put(m)
  /\ ReadSem!Up
  /\ UNCHANGED <<pc, hand, got, running>>

IrqRecv ==
  /\ ReadSem!Try
  /\ get(Irq)
  /\ WriteSem!Up
  /\ UNCHANGED <<pc, hand, running>>

\* The scheduler gives the CPU to another thread.
Dispatch(t) ==
  /\ pc[running] \in {"out", "post", "recv"}
  /\ running' = t
  /\ UNCHANGED <<semVars, ringVars, pc, hand, got>>

MboxInit ==
  /\ ReadSem!AbsInit /\ WriteSem!AbsInit
  /\ readpos = 0 /\ writepos = 0
  /\ msgs = [i \in 0..Size |-> NoMsg]
  /\ pc = [t \in Thread |-> "out"]
  /\ hand = [t \in Thread |-> NoMsg]
  /\ got = [c \in Thread \cup {Irq} |-> NoMsg]
  /\ running \in Thread

PostStep(t) ==
  \/ \E m \in Msg : PostTry(t, m) \/ \E k \in {"down", "down_to"} : Post(t, m, k)
  \/ PostTimeout(t) \/ PostGranted(t) \/ PostWrite(t) \/ PostUp(t)

RecvStep(t) ==
  \/ \E k \in {"down", "down_to"} : Recv(t, k)
  \/ RecvTimeout(t) \/ RecvGranted(t) \/ RecvTry(t) \/ RecvRead(t) \/ RecvUp(t)

MboxNext ==
  \/ \E t \in Thread : PostStep(t) \/ RecvStep(t) \/ Dispatch(t)
  \/ \E m \in Msg : IrqPost(m)
  \/ IrqRecv

MboxSpec == MboxInit /\ [][MboxNext]_mboxVars

-----------------------------------------------------------------------------
MboxTypeOK ==
  /\ readsem \in Nat /\ writesem \in Nat
  /\ {readcall, writecall} \subseteq [Thread -> {"none", "down", "down_to"}]
  /\ readpos \in 0..Size /\ writepos \in 0..Size
  /\ msgs \in [0..Size -> Msg \cup {NoMsg}]
  /\ pc \in [Thread -> Pcs]
  /\ hand \in [Thread -> Msg \cup {NoMsg}]
  /\ got \in [Thread \cup {Irq} -> Msg \cup {NoMsg}]
  /\ running \in Thread

\* The number of messages in the ring, between the two positions.
Used == (writepos + len - readpos) % len

Threads(p) == Cardinality({t \in Thread : pc[t] = p})

\* Every slot of the ring but one is accounted for by a token of one of the two
\* semaphores or by a call that has taken a token and not yet given one back.
TokensExact ==
  /\ Used = readsem + Threads("written") + Threads("read")
  /\ Size = Used + writesem + Threads("write") + Threads("emptied")

\* The two assertions on the positions, in thread and in interrupt context: a
\* post never catches up with the reader, a receive never finds the ring empty.
MboxAsserts ==
  /\ (\E t \in Thread : pc[t] = "write") \/ writesem > 0 =>
       (writepos + 1) % len # readpos
  /\ (\E t \in Thread : pc[t] = "read") \/ readsem > 0 => readpos # writepos

\* A call keeps the CPU from the token it has taken to the one it gives back, and has
\* its message until it has written it.
CallsExact ==
  \A t \in Thread :
    /\ pc[t] \in {"write", "written", "read", "emptied"} => t = running
    /\ pc[t] \in {"post", "write"} => hand[t] \in Msg

\* The fields have their types, the tokens of the two semaphores are exact, calls do
\* not overlap where they use the ring, and the assertions hold.
MboxInv == MboxTypeOK /\ TokensExact /\ CallsExact /\ MboxAsserts

Fifo == INSTANCE BoundedFifo
          WITH Receiver <- Thread \cup {Irq},
               queue <- [i \in 1..Used |-> msgs[(readpos + i - 1) % len]]

\* The mailbox implements the bounded queue: messages are received in the order
\* in which they were posted, each once, whoever posts and receives.
FifoMailbox == Fifo!FifoSpec
=============================================================================
