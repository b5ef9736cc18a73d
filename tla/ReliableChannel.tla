--------------------------- MODULE ReliableChannel ---------------------------
(***************************************************************************)
(* What one direction of a KCP connection promises its users: the items    *)
(* read are the items written, in order, each once.  An item is a message  *)
(* in message mode and a byte in stream mode.                              *)
(***************************************************************************)
EXTENDS Naturals, Sequences

VARIABLES written, read

vars == <<written, read>>

Init == written = <<>> /\ read = <<>>

Write ==
    /\ Len(written') > Len(written)
    /\ SubSeq(written', 1, Len(written)) = written
    /\ UNCHANGED read

Read ==
    /\ \E n \in (Len(read) + 1) .. Len(written) : read' = SubSeq(written, 1, n)
    /\ UNCHANGED written

Next == Write \/ Read

Spec == Init /\ [][Next]_vars
==============================================================================
