---------------------------- MODULE VirtQueueAbs ----------------------------
(***************************************************************************)
(* What a virtqueue promises to a driver: every buffer that is handed to   *)
(* the device comes back once, after the device has finished with it, and  *)
(* the buffers come back in the order in which the device finished.        *)
(***************************************************************************)
EXTENDS Sequences, SequencesExt

CONSTANT Cookie

VARIABLES device,  \* buffers the device may use
          done     \* buffers the device has finished with, oldest first

absVars == <<device, done>>

AbsInit == device = {} /\ done = <<>>

Submit(cs) ==
  /\ cs \cap (device \cup Range(done)) = {}
  /\ device' = device \cup cs
  /\ UNCHANGED done

Finish(c) ==
  /\ c \in device
  /\ device' = device \ {c}
  /\ done' = Append(done, c)

GiveBack(n) ==
  /\ n <= Len(done)
  /\ done' = SubSeq(done, n + 1, Len(done))
  /\ UNCHANGED device

AbsNext ==
  \/ \E cs \in SUBSET Cookie : Submit(cs)
  \/ \E c \in Cookie : Finish(c)
  \/ \E n \in 1..Len(done) : GiveBack(n)

AbsSpec == AbsInit /\ [][AbsNext]_absVars
=============================================================================
