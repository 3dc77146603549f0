-------------------------- MODULE MCBufferedStream --------------------------
(* Instances of BufferedStream for TLC. *)
EXTENDS BufferedStream

CONSTANTS c1, c2, b1, b2

TwoConns == {c1, c2}
TwoBuffers == {b1, b2}

\* Payloads that fill the buffer with their header, that are empty, and that exceed the
\* buffer; an empty row that may be in the buffer as a whole behind the end of the other.
Message(is, n) == [is |-> is, n |-> n]
MixedFrames ==
  (c1 :> <<Message("Y", 1), Message("Y", 0)>>) @@ (c2 :> <<Message("D", 4)>>)

=============================================================================
