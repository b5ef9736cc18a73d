------------------------------- MODULE MCLink --------------------------------
(* Instances of KcpLink for TLC. *)
EXTENDS KcpLink

NoStray == {}

\* A data segment of another conversation with the sequence number expected next,
\* delivered to the wrong socket.
ForeignPush ==
    {[to |-> A, segs |-> <<[conv |-> Conv + 1, cmd |-> "PUSH", frg |-> 0, wnd |-> 0,
                            ts |-> Epoch, sn |-> Isn, una |-> (Isn + 2) % Word,
                            data |-> <<99>>]>>]}
==============================================================================
