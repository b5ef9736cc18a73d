------------------------------ MODULE MCListener ------------------------------
(* Instances of KcpListener for TLC. *)
EXTENDS KcpListener, TLC

\* No action tells two addresses apart (used for safety only).
AddrSymmetry == Permutations(Addr)
===============================================================================
