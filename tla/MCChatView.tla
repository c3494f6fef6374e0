----------------------------- MODULE MCChatView -----------------------------
(***************************************************************************)
(* ChatView with two rooms, two connections, channels of one slot and a    *)
(* history of one message, the later of two.                               *)
(***************************************************************************)
EXTENDS ChatView

MCAt == <<1, 2>>
=============================================================================
