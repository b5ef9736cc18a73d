------------------------------- MODULE MCStream -------------------------------
(* Instances of KcpStream for TLC. *)
EXTENDS KcpStream
===============================================================================
