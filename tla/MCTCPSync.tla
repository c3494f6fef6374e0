----------------------------- MODULE MCTCPSync -----------------------------
(***************************************************************************)
(* TCPSync with every connection at an address of its own and devices that *)
(* send two messages each.                                                 *)
(***************************************************************************)
EXTENDS TCPSync

MCOwnAddr == [c \in Conns |-> c]
MCMessages == [c \in Devices |-> 2]
=============================================================================
