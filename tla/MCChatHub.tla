----------------------------- MODULE MCChatHub -----------------------------
(* ChatHub with two users on two connections and two rooms.        *)
EXTENDS ChatHub

CONSTANTS c1, c2, ann, bob

MCUserOf == [c \in Conns |-> IF c = c2 THEN bob ELSE ann]

\* Both peers speak, or only the first one does.
MCBothSpeak == [c \in Conns |-> 1]
MCOneSpeaks == [c \in Conns |-> IF c = c1 THEN 1 ELSE 0]

\* The second connection may go to the other room.
MCAsks == [c \in Conns |-> IF c = c2 THEN Rooms ELSE {CHOOSE m \in Rooms : TRUE}]

\* The second user is sent a private message.
MCPrivate == [u \in Users |-> IF u = bob THEN 1 ELSE 0]
=============================================================================
