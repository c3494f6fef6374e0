------------------------------ MODULE ChatView ------------------------------
(***************************************************************************)
(* What a reader of the chat sees: the command line client, which prints a *)
(* room's history and then its live messages and can switch rooms, and the *)
(* server's handlers, which save a message and then broadcast it.          *)
(*                                                                         *)
(* Each connection has a generation and a reader goroutine of its own that *)
(* feeds two channels; the main loop reads them together with the input.   *)
(* The hub is taken as what it promises (ChatHub): a message goes, whole   *)
(* and in order, to the connections registered in its room.                *)
(***************************************************************************)
EXTENDS Naturals, Sequences, FiniteSets, FiniteSetsExt

CONSTANTS
    Rooms, General,
    MaxGen,       \* bound: connections the client makes
    MaxSaid,      \* bound: messages said
    At,           \* At[n]: the time of day, in seconds, that message n is given
    HistoryLimit, \* messages of a history, the newest
    Messages,     \* capacity of the channel of messages
    Errors,       \* capacity of the channel of errors
    None

ASSUME RoomsAssumption == General \in Rooms
ASSUME BoundsAssumption == MaxGen \in Nat \ {0} /\ MaxSaid \in Nat
ASSUME ClockAssumption == At \in [1 .. MaxSaid -> Nat]
ASSUME LimitAssumption == HistoryLimit \in Nat
ASSUME NoneAssumption == None \notin [n: 1 .. MaxSaid, room: Rooms]
ASSUME CapacityAssumption == Messages \in Nat \ {0} /\ Errors \in Nat \ {0}

Gens == 1 .. MaxGen
Others == 0                        \* the other members of all rooms
Speakers == {Others} \cup Gens

VARIABLES
    \* the client
    pc,         \* "start", "greet", "loop", "switch", "history", "lost" or "ended"
    readerGen,  \* the generation of the connection in use
    roomID,
    reader,     \* reader[g]: "none", "reading", "push", "fail" or "ended"
    hold,       \* hold[g]: the message reader g wants to push
    messages,   \* the channel of messages, with their generation
    errors,     \* the channel of errors: generations
    shown,      \* what was printed, and the room it was printed in
    \* the network and the server
    conn,       \* conn[g]: its room, its state and what has been sent to it
    saying,     \* saying[x]: the message x's handler is at, or None
    history,    \* table chat_messages: ids by room
    said,       \* messages so far
    \* history variables
    unsaved,    \* messages whose insert failed
    heard,      \* messages that were broadcast
    complete,   \* complete[g]: the history was read, and after registration
    beyond      \* beyond[g]: what that history had no room for any more

client == <<pc, readerGen, roomID, reader, hold, messages, errors, shown>>
server == <<saying, history, said, unsaved, heard>>
vars == <<client, conn, server, complete, beyond>>

NoConn == [room |-> None, state |-> "none", wire |-> <<>>]

Init ==
    /\ pc = "start" /\ readerGen = 0 /\ roomID = None
    /\ reader = [g \in Gens |-> "none"]
    /\ hold = [g \in Gens |-> None]
    /\ messages = <<>> /\ errors = <<>>
    /\ shown = {}
    /\ conn = [g \in Gens |-> NoConn]
    /\ saying = [x \in Speakers |-> None]
    /\ history = [m \in Rooms |-> {}]
    /\ said = 0 /\ unsaved = {} /\ heard = {}
    /\ complete = [g \in Gens |-> FALSE]
    /\ beyond = [g \in Gens |-> {}]

Running == pc \notin {"lost", "ended"}

-----------------------------------------------------------------------------
(* The server.                                                             *)

Message(n, room) == [n |-> n, room |-> room]

\* Bound: nobody speaks once the client has ended.
Say(x, room) ==
    /\ Running /\ saying[x] = None /\ said < MaxSaid
    /\ said' = said + 1
    /\ saying' = [saying EXCEPT ![x] = [message |-> Message(said + 1, room), stage |-> "save"]]

SomeoneSpeaks(room) ==
    /\ Say(Others, room)
    /\ UNCHANGED <<client, conn, history, unsaved, heard, complete, beyond>>

Stored(m) == [history EXCEPT ![m.room] = @ \cup {m.n}]

\* SaveMessage, whose error is logged.  A handler reads its connection only after
\* it has registered it.
Save(x) ==
    /\ saying[x] # None /\ saying[x].stage = "save"
    /\ x \in Gens => conn[x].state # "dialed"
    /\ saying' = [saying EXCEPT ![x].stage = "broadcast"]
    /\ LET m == saying[x].message IN
        \/ history' = Stored(m) /\ UNCHANGED unsaved
        \/ unsaved' = unsaved \cup {m.n} /\ UNCHANGED history
    /\ UNCHANGED <<client, conn, said, heard, complete, beyond>>

\* The connections the hub has registered in the room and can still write to.
Broadcast(x) ==
    /\ saying[x] # None /\ saying[x].stage = "broadcast"
    /\ LET m == saying[x].message IN
        /\ conn' = [g \in Gens |->
                     IF conn[g].state = "joined" /\ conn[g].room = m.room
                       THEN [conn[g] EXCEPT !.wire = Append(@, m)] ELSE conn[g]]
        /\ heard' = heard \cup {m}
    /\ saying' = [saying EXCEPT ![x] = None]
    /\ UNCHANGED <<client, history, said, unsaved, complete, beyond>>

\* The handler registers the connection after the handshake the client waits
\* for, so at any time after it.
Register(g) ==
    /\ conn[g].state = "dialed"
    /\ conn' = [conn EXCEPT ![g].state = "joined"]
    /\ UNCHANGED <<client, server, complete, beyond>>

\* The network or the server drops the connection.
Break(g) ==
    /\ conn[g].state \in {"dialed", "joined"}
    /\ conn' = [conn EXCEPT ![g].state = "broken"]
    /\ UNCHANGED <<client, server, complete, beyond>>

-----------------------------------------------------------------------------
(* The client's reader goroutines.                                         *)

\* ReadJSON returns the next message.
ReadMessage(g) ==
    /\ reader[g] = "reading" /\ conn[g].wire # <<>>
    /\ hold' = [hold EXCEPT ![g] = Head(conn[g].wire)]
    /\ conn' = [conn EXCEPT ![g].wire = Tail(@)]
    /\ reader' = [reader EXCEPT ![g] = "push"]
    /\ UNCHANGED <<pc, readerGen, roomID, messages, errors, shown, server, complete, beyond>>

\* ReadJSON fails: at once on a connection the client itself has closed, at
\* the end of what was sent on a broken one.
ReadFails(g) ==
    /\ reader[g] = "reading"
    /\ \/ conn[g].state = "closed"
       \/ conn[g].state = "broken" /\ conn[g].wire = <<>>
    /\ reader' = [reader EXCEPT ![g] = "fail"]
    /\ UNCHANGED <<pc, readerGen, roomID, hold, messages, errors, shown,
                   conn, server, complete, beyond>>

PushMessage(g) ==
    /\ reader[g] = "push" /\ Len(messages) < Messages
    /\ messages' = Append(messages, [gen |-> g, msg |-> hold[g]])
    /\ reader' = [reader EXCEPT ![g] = "reading"]
    /\ hold' = [hold EXCEPT ![g] = None]
    /\ UNCHANGED <<pc, readerGen, roomID, errors, shown, conn, server, complete, beyond>>

PushError(g) ==
    /\ reader[g] = "fail" /\ Len(errors) < Errors
    /\ errors' = Append(errors, g)
    /\ reader' = [reader EXCEPT ![g] = "ended"]
    /\ UNCHANGED <<pc, readerGen, roomID, hold, messages, shown, conn, server, complete, beyond>>

-----------------------------------------------------------------------------
(* The client's main goroutine.                                            *)

Dialed(room) == [room |-> room, state |-> "dialed", wire |-> <<>>]

\* The first connection.  Rooms are alike, so it is one to the default room.
Join ==
    /\ pc = "start"
    /\ pc' = "greet" /\ readerGen' = 1 /\ roomID' = General
    /\ conn' = [conn EXCEPT ![1] = Dialed(General)]
    /\ UNCHANGED <<reader, hold, messages, errors, shown, server, complete, beyond>>

\* Mutant: the oldest are read, for want of DESC.
Newest_Oldest(rows) ==
    {page \in SUBSET rows :
        /\ Cardinality(page) = Min({HistoryLimit, Cardinality(rows)})
        /\ \A n \in page, k \in rows \ page : At[n] <= At[k]}

\* ORDER BY created_at DESC LIMIT: of messages of one second any may be left out.
Newest(rows) ==
    {page \in SUBSET rows :
        /\ Cardinality(page) = Min({HistoryLimit, Cardinality(rows)})
        /\ \A n \in page, k \in rows \ page : At[k] <= At[n]}

\* Enough are of its second or later for a page to do without it.
PastLimit(rows) ==
    {n \in rows : Cardinality({k \in rows : At[k] >= At[n]}) > HistoryLimit}

Known == {m.n : m \in heard}

Printed(page, room) == {[msg |-> Message(n, room), in |-> roomID] : n \in page}

\* fetchRoomHistory; an error is printed and passed over.
FetchHistory ==
    \/ /\ \E page \in Newest(history[roomID]) : shown' = shown \cup Printed(page, roomID)
       /\ IF conn[readerGen].state = "joined" /\ ~complete[readerGen]
            THEN /\ complete' = [complete EXCEPT ![readerGen] = TRUE]
                 /\ beyond' = [beyond EXCEPT ![readerGen] = PastLimit(history[roomID]) \cap Known]
            ELSE UNCHANGED <<complete, beyond>>
    \/ UNCHANGED <<shown, complete, beyond>>

\* The history comes before the first reader starts.
Greet ==
    /\ pc = "greet"
    /\ FetchHistory
    /\ pc' = "loop"
    /\ reader' = [reader EXCEPT ![1] = "reading"]
    /\ UNCHANGED <<readerGen, roomID, hold, messages, errors, conn, server>>

\* An event of a connection that was left is skipped.
IsCurrent(gen) == gen = readerGen

End == pc' = "ended"

\* Mutant: the error of any reader ends the client.
TakeError_AnyReader ==
    /\ pc = "loop" /\ errors # <<>>
    /\ errors' = Tail(errors)
    /\ pc' = "lost"
    /\ UNCHANGED <<readerGen, roomID, reader, hold, messages, shown, conn, server, complete, beyond>>

TakeError ==
    /\ pc = "loop" /\ errors # <<>>
    /\ errors' = Tail(errors)
    /\ pc' = IF IsCurrent(Head(errors)) THEN "lost" ELSE "loop"
    /\ UNCHANGED <<readerGen, roomID, reader, hold, messages, shown, conn, server, complete, beyond>>

\* Mutant: messages are not checked for their generation.
TakeMessage_AnyRoom ==
    /\ pc = "loop" /\ messages # <<>>
    /\ messages' = Tail(messages)
    /\ shown' = shown \cup {[msg |-> Head(messages).msg, in |-> roomID]}
    /\ UNCHANGED <<pc, readerGen, roomID, reader, hold, errors, conn, server, complete, beyond>>

TakeMessage ==
    /\ pc = "loop" /\ messages # <<>>
    /\ messages' = Tail(messages)
    /\ shown' = IF IsCurrent(Head(messages).gen)
                  THEN shown \cup {[msg |-> Head(messages).msg, in |-> roomID]}
                  ELSE shown
    /\ UNCHANGED <<pc, readerGen, roomID, reader, hold, errors, conn, server, complete, beyond>>

\* A line of text is written to the connection in use; a write that fails ends the
\* client, and one to a connection that broke may not fail yet and is lost.
TypeText ==
    /\ pc = "loop"
    /\ \/ /\ conn[readerGen].state \in {"dialed", "joined"}
          /\ Say(readerGen, conn[readerGen].room)
          /\ UNCHANGED pc
       \/ /\ conn[readerGen].state = "broken" /\ UNCHANGED saying
          /\ \/ End /\ UNCHANGED said
             \/ said < MaxSaid /\ said' = said + 1 /\ UNCHANGED pc
    /\ UNCHANGED <<readerGen, roomID, reader, hold, messages, errors, shown,
                   conn, history, unsaved, heard, complete, beyond>>

\* The end of the input, or /quit.
InputCloses ==
    /\ pc = "loop" /\ End
    /\ UNCHANGED <<readerGen, roomID, reader, hold, messages, errors, shown,
                   conn, server, complete, beyond>>

\* /manga: another room is dialled first; when that fails the client stays.
TypeSwitch(room) ==
    /\ pc = "loop" /\ room # roomID /\ readerGen < MaxGen
    /\ pc' = "switch"
    /\ conn' = [conn EXCEPT ![readerGen + 1] = Dialed(room)]
    /\ UNCHANGED <<readerGen, roomID, reader, hold, messages, errors, shown,
                   server, complete, beyond>>

\* Mutant: the old connection stays open.
LeaveOld_Open == UNCHANGED conn

LeaveOld == conn' = [conn EXCEPT ![readerGen].state = "closed"]

Started(g) == [reader EXCEPT ![g] = "reading"]

Switch ==
    /\ pc = "switch"
    /\ pc' = "history"
    /\ readerGen' = readerGen + 1
    /\ roomID' = conn[readerGen + 1].room
    /\ reader' = Started(readerGen + 1)
    /\ LeaveOld
    /\ UNCHANGED <<hold, messages, errors, shown, server, complete, beyond>>

\* After a switch, and at any time on /history.
PrintHistory ==
    /\ pc \in {"history", "loop"}
    /\ FetchHistory
    /\ pc' = "loop"
    /\ UNCHANGED <<readerGen, roomID, reader, hold, messages, errors, conn, server>>

-----------------------------------------------------------------------------

\* The process ends with its goroutines and its connections.
ConnectionStep(g) ==
    Running /\ (Register(g) \/ Break(g) \/ ReadMessage(g) \/ ReadFails(g) \/ PushMessage(g) \/ PushError(g))
Serve(x) == Save(x) \/ Broadcast(x)

Next ==
    \/ \E room \in Rooms : SomeoneSpeaks(room) \/ TypeSwitch(room)
    \/ \E x \in Speakers : Serve(x)
    \/ \E g \in Gens : ConnectionStep(g)
    \/ Join \/ Greet \/ TakeError \/ TakeMessage \/ TypeText \/ InputCloses \/ Switch \/ PrintHistory

\* Goroutines run, and select picks a ready case at random: both channels are
\* read again and again.  Nobody has to type or to speak.
Fairness ==
    /\ WF_vars(Greet) /\ WF_vars(Switch) /\ WF_vars(pc = "history" /\ PrintHistory)
    /\ SF_vars(TakeError) /\ SF_vars(TakeMessage)
    /\ \A g \in Gens :
        /\ WF_vars(Running /\ (ReadMessage(g) \/ ReadFails(g)))
        /\ SF_vars(Running /\ (PushMessage(g) \/ PushError(g)))

Spec == Init /\ [][Next]_vars /\ Fairness

-----------------------------------------------------------------------------
(* Properties.                                                             *)

SaidMessages == [n: 1 .. MaxSaid, room: Rooms]

\* Types and the capacities of the channels.
TypeOK ==
    /\ pc \in {"start", "greet", "loop", "switch", "history", "lost", "ended"}
    /\ readerGen \in 0 .. MaxGen /\ roomID \in Rooms \cup {None}
    /\ reader \in [Gens -> {"none", "reading", "push", "fail", "ended"}]
    /\ \A g \in Gens : hold[g] = None <=> reader[g] # "push"
    /\ Len(messages) <= Messages /\ Len(errors) <= Errors
    /\ \A g \in Gens : conn[g].state \in {"none", "dialed", "joined", "broken", "closed"}
    /\ \A g \in Gens : \A i \in DOMAIN conn[g].wire : conn[g].wire[i] \in SaidMessages
    /\ history \in [Rooms -> SUBSET (1 .. MaxSaid)]

\* The screen shows the room it names: a message of a room that was left, still
\* in the channel or in a reader's hand at the switch, is not printed.
ScreenShowsItsRoom == \A x \in shown : x.msg.room = x.in

\* The client says that the connection is lost only if the one in use is: the
\* end of one it has left itself does not count.
LossIsReal == pc = "lost" => conn[readerGen].state = "broken"

\* Everything on its way to the screen has arrived.
Drained ==
    /\ pc = "loop" /\ messages = <<>>
    /\ conn[readerGen].wire = <<>> /\ reader[readerGen] = "reading"

\* History and live messages meet without a gap: when the history was read after
\* the connection was registered, every message of the room that was broadcast
\* since, or saved before and within the limit of that history, is on the screen,
\* because a message is saved before it is broadcast.  What need not be there was
\* broadcast before the history was read and lies beyond its limit.
HistoryMeetsLive ==
    Drained /\ complete[readerGen] /\ conn[readerGen].state = "joined" =>
        \A m \in heard :
            m.room = roomID /\ m.n \notin unsaved \cup beyond[readerGen]
                => \E x \in shown : x.msg = m

\* Readers of connections that were left come to their end.
OldReadersEnd ==
    \A g \in Gens \ {MaxGen} : readerGen > g ~> reader[g] = "ended" \/ ~Running
=============================================================================
