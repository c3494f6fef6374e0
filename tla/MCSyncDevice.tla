---------------------------- MODULE MCSyncDevice ----------------------------
(* SyncDevice with a terminal that runs any command and another that      *)
(* connects, in the same directory.                                        *)
EXTENDS SyncDevice

CONSTANTS desk, sofa

MCCommands == [t \in Terminals |->
    IF t = desk THEN {"connect", "monitor", "disconnect", "check"} ELSE {"connect"}]
MCMaxTold == [t \in Terminals |-> IF t = desk THEN 2 ELSE 0]
=============================================================================
