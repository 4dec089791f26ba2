---------------------------- MODULE ByteStream ----------------------------
(***************************************************************************)
(* What a pipe promises: bytes come out in the order in which they went    *)
(* in, each once, and at most Capacity are on the way.                     *)
(***************************************************************************)
EXTENDS Naturals, Sequences

CONSTANTS Byte, Capacity

VARIABLES stream,     \* bytes written and not yet read
          bytes_in,   \* what the last write sent
          bytes_out   \* what the last read returned

streamVars == <<stream, bytes_in, bytes_out>>

StreamInit == stream = <<>> /\ bytes_in = <<>> /\ bytes_out = <<>>

Send ==
  \E n \in 1 .. Capacity - Len(stream) : \E s \in [1 .. n -> Byte] :
    stream' = stream \o s /\ bytes_in' = s /\ UNCHANGED bytes_out

Receive ==
  \E n \in 1 .. Len(stream) :
    /\ bytes_out' = SubSeq(stream, 1, n)
    /\ stream' = SubSeq(stream, n + 1, Len(stream))
    /\ UNCHANGED bytes_in

\* What no pipe should do: bytes are taken, and others returned.
Garble ==
  \E n \in 1 .. Len(stream) : \E o \in [1 .. n -> Byte] :
    /\ bytes_out' = o
    /\ stream' = SubSeq(stream, n + 1, Len(stream))
    /\ UNCHANGED bytes_in

StreamSpec == StreamInit /\ [][Send \/ Receive]_streamVars
=============================================================================
