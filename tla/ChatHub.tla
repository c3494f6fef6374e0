------------------------------ MODULE ChatHub ------------------------------
(***************************************************************************)
(* The websocket chat: the hub goroutine that owns clients and rooms, the  *)
(* channels that reach it, and one handler goroutine per connection.       *)
(*                                                                         *)
(* Register and Unregister are unbuffered, so a handler's send and the     *)
(* hub's receive are one step.  Broadcast and Private hold Capacity        *)
(* messages; the hub, their only reader, also writes to Broadcast, in the  *)
(* arms that announce who joined and who left.                             *)
(***************************************************************************)
EXTENDS Naturals, Sequences

CONSTANTS
    Conns,      \* connections, each dialled at most once
    Rooms,      \* room ids
    Asks,       \* Asks[c]: the rooms c may ask for
    Users,      \* user ids
    UserOf,     \* UserOf[c]: the user whose token opens c
    Capacity,   \* length of the two buffered channels, 32 in the code
    MaxSaid,    \* bound: MaxSaid[c] messages are read from c
    MaxPrivate, \* bound: private messages sent to u, for each user
    None        \* no room, no message

ASSUME UserOfAssumption == UserOf \in [Conns -> Users]
ASSUME AsksAssumption == Asks \in [Conns -> SUBSET Rooms]
ASSUME BoundsAssumption ==
    Capacity \in Nat \ {0} /\ MaxSaid \in [Conns -> Nat] /\ MaxPrivate \in [Users -> Nat]
ASSUME NoneAssumption == None \notin Rooms

VARIABLES
    hub,        \* "select", "announce" or "stopped"
    announcing, \* the message the hub is about to queue, or None
    clients,    \* the connections in the hub's map
    members,    \* members[m]: the connections listed in room m
    broadcast,  \* the Broadcast channel
    private,    \* the Private channel: recipients and numbers
    handler,    \* handler[c]: where the handler goroutine of c is
    room,       \* room[c]: the room c asked for
    said,       \* said[c]: messages read from c
    wire,       \* wire[c]: "open", "gone" (the peer left) or "closed" (by the hub)
    inbox,      \* inbox[c]: room messages the peer of c has been sent
    pms,        \* pms[c]: private messages the peer of c has been sent
    pmsOf,      \* pmsOf[u]: private messages to user u in the table
    sentTo,     \* sentTo[u]: private messages queued for user u
    spoken,     \* spoken[m]: messages delivered in room m, in order
    unreached   \* history: connections a write to which has failed

hubVars == <<hub, announcing, clients, members, unreached>>
queues == <<broadcast, private, pmsOf, sentTo>>
peers == <<room, said, wire>>
delivered == <<inbox, pms, spoken>>
vars == <<hubVars, queues, handler, peers, delivered>>

Message(c, kind, n) == [room |-> room[c], from |-> c, kind |-> kind, n |-> n]

Messages ==
    [room: Rooms, from: Conns, kind: {"joined", "said", "left"}, n: Nat]

Init ==
    /\ hub = "select" /\ announcing = None
    /\ clients = {} /\ members = [m \in Rooms |-> {}]
    /\ broadcast = <<>> /\ private = <<>>
    /\ handler = [c \in Conns |-> "idle"]
    /\ room = [c \in Conns |-> None]
    /\ said = [c \in Conns |-> 0]
    /\ wire = [c \in Conns |-> "open"]
    /\ inbox = [c \in Conns |-> <<>>] /\ pms = [c \in Conns |-> <<>>]
    /\ pmsOf = [u \in Users |-> 0] /\ sentTo = [u \in Users |-> 0]
    /\ spoken = [m \in Rooms |-> <<>>]
    /\ unreached = {}

-----------------------------------------------------------------------------
(* The handler of a connection.                                            *)

Goto(c, next) == handler' = [handler EXCEPT ![c] = next]

\* The upgrade succeeds; the handler offers the connection to the hub.
Dial(c, m) ==
    /\ handler[c] = "idle"
    /\ room' = [room EXCEPT ![c] = m]
    /\ Goto(c, "registering")
    /\ UNCHANGED <<hubVars, queues, said, wire, delivered>>

\* ReadJSON returns a message that is not blank.
Read(c) ==
    /\ handler[c] = "reading" /\ wire[c] # "closed"
    /\ said[c] < MaxSaid[c]
    /\ said' = [said EXCEPT ![c] = @ + 1]
    /\ Goto(c, "sending")
    /\ UNCHANGED <<hubVars, queues, room, wire, delivered>>

\* Mutant: the handler queues its message a second time.
Send_Twice(c) ==
    /\ handler[c] = "sending" /\ Len(broadcast) + 1 < Capacity
    /\ broadcast' = broadcast \o <<Message(c, "said", said[c]), Message(c, "said", said[c])>>
    /\ Goto(c, "reading")
    /\ UNCHANGED <<hubVars, private, pmsOf, sentTo, peers, delivered>>

\* hub.Broadcast <- message: waits while the channel is full.
Send(c) ==
    /\ handler[c] = "sending" /\ Len(broadcast) < Capacity
    /\ broadcast' = Append(broadcast, Message(c, "said", said[c]))
    /\ Goto(c, "reading")
    /\ UNCHANGED <<hubVars, private, pmsOf, sentTo, peers, delivered>>

\* Mutant: only a close by the server ends the read loop.
ReadError_ClosedOnly(c) ==
    /\ handler[c] = "reading" /\ wire[c] = "closed"
    /\ Goto(c, "unregistering")
    /\ UNCHANGED <<hubVars, queues, peers, delivered>>

\* ReadJSON fails; the handler offers the connection to be unregistered.
ReadError(c) ==
    /\ handler[c] = "reading" /\ wire[c] # "open"
    /\ Goto(c, "unregistering")
    /\ UNCHANGED <<hubVars, queues, peers, delivered>>

\* What the peer sent is no message: ReadJSON fails on a connection that is open.
ReadMalformed(c) ==
    /\ handler[c] = "reading" /\ wire[c] = "open"
    /\ Goto(c, "unregistering")
    /\ UNCHANGED <<hubVars, queues, peers, delivered>>

\* The peer disconnects, with or without saying so.
PeerLeaves(c) ==
    /\ handler[c] # "idle" /\ wire[c] = "open"
    /\ wire' = [wire EXCEPT ![c] = "gone"]
    /\ UNCHANGED <<hubVars, queues, handler, room, said, delivered>>

\* SendPM of another user: the message is stored first.
StorePM(u) ==
    /\ pmsOf[u] < MaxPrivate[u]
    /\ pmsOf' = [pmsOf EXCEPT ![u] = @ + 1]
    /\ UNCHANGED <<hubVars, broadcast, private, sentTo, handler, peers, delivered>>

\* Then its delivery is queued; the request waits while the channel is full.
SendPM(u) ==
    /\ Len(private) < Capacity /\ sentTo[u] < pmsOf[u]
    /\ sentTo' = [sentTo EXCEPT ![u] = @ + 1]
    /\ private' = Append(private, [to |-> u, n |-> sentTo'[u]])
    /\ UNCHANGED <<hubVars, broadcast, pmsOf, handler, peers, delivered>>

-----------------------------------------------------------------------------
(* The arms of the hub's select.                                           *)

Announce(message) == hub' = "announce" /\ announcing' = message

\* Mutant: an announcement that finds the channel full is dropped.
QueueAnnouncement_DropsWhenFull ==
    /\ hub = "announce"
    /\ broadcast' = IF Len(broadcast) < Capacity THEN Append(broadcast, announcing)
                     ELSE broadcast
    /\ hub' = "select" /\ announcing' = None
    /\ UNCHANGED <<clients, members, unreached, private, pmsOf, sentTo, handler, peers, delivered>>

\* The queued announcement: the hub waits while its own channel is full.
QueueAnnouncement ==
    /\ hub = "announce" /\ Len(broadcast) < Capacity
    /\ broadcast' = Append(broadcast, announcing)
    /\ hub' = "select" /\ announcing' = None
    /\ UNCHANGED <<clients, members, unreached, private, pmsOf, sentTo, handler, peers, delivered>>

Register(c) ==
    /\ hub = "select" /\ handler[c] = "registering"
    /\ clients' = clients \cup {c}
    /\ members' = [members EXCEPT ![room[c]] = @ \cup {c}]
    /\ Announce(Message(c, "joined", 0))
    /\ Goto(c, "reading")
    /\ UNCHANGED <<unreached, queues, peers, delivered>>

\* Mutant: the connection is not taken out of its room.
Unregister_StaysListed(c) ==
    /\ hub = "select" /\ handler[c] = "unregistering"
    /\ \/ /\ c \in clients
          /\ clients' = clients \ {c}
          /\ Announce(Message(c, "left", 0))
          /\ UNCHANGED members
       \/ /\ c \notin clients
          /\ UNCHANGED <<hub, announcing, clients, members>>
    /\ wire' = [wire EXCEPT ![c] = "closed"]
    /\ Goto(c, "done")
    /\ UNCHANGED <<unreached, queues, room, said, delivered>>

Unregister(c) ==
    /\ hub = "select" /\ handler[c] = "unregistering"
    /\ \/ /\ c \in clients
          /\ clients' = clients \ {c}
          /\ members' = [members EXCEPT ![room[c]] = @ \ {c}]
          /\ Announce(Message(c, "left", 0))
       \/ /\ c \notin clients
          /\ UNCHANGED <<hub, announcing, clients, members>>
    /\ wire' = [wire EXCEPT ![c] = "closed"]
    /\ Goto(c, "done")
    /\ UNCHANGED <<unreached, queues, room, said, delivered>>

\* Which writes to a set of connections may fail: to a closed connection
\* every one, to one whose peer has gone any.
Failures(conns) ==
    {failed \in SUBSET {c \in conns : wire[c] # "open"} :
        \A c \in conns : wire[c] = "closed" => c \in failed}

\* removeClient: the map forgets the connection, its room does not.
Remove(failed) ==
    /\ clients' = clients \ failed
    /\ wire' = [c \in Conns |-> IF c \in failed THEN "closed" ELSE wire[c]]
    /\ unreached' = unreached \cup failed
    /\ UNCHANGED members

\* Mutant: a slow peer misses a message and stays.
Deliver_SkipsSlow ==
    /\ hub = "select" /\ broadcast # <<>>
    /\ LET message == Head(broadcast)
           to == members[message.room]
       IN
        /\ \E failed \in Failures(to) : Remove(failed)
        /\ \E slow \in SUBSET to :
            inbox' = [c \in Conns |-> IF c \in to \ slow /\ wire[c] = "open"
                                         THEN Append(inbox[c], message) ELSE inbox[c]]
        /\ spoken' = [spoken EXCEPT ![message.room] = Append(@, message)]
    /\ broadcast' = Tail(broadcast)
    /\ UNCHANGED <<hub, announcing, private, pmsOf, sentTo, handler, room, said, pms>>

Deliver ==
    /\ hub = "select" /\ broadcast # <<>>
    /\ LET message == Head(broadcast)
           to == members[message.room]
       IN
        /\ \E failed \in Failures(to) : Remove(failed)
        /\ inbox' = [c \in Conns |-> IF c \in to /\ wire[c] = "open"
                                       THEN Append(inbox[c], message) ELSE inbox[c]]
        /\ spoken' = [spoken EXCEPT ![message.room] = Append(@, message)]
    /\ broadcast' = Tail(broadcast)
    /\ UNCHANGED <<hub, announcing, private, pmsOf, sentTo, handler, room, said, pms>>

DeliverPrivate ==
    /\ hub = "select" /\ private # <<>>
    /\ LET pm == Head(private)
           to == {c \in clients : UserOf[c] = pm.to}
       IN
        /\ \E failed \in Failures(to) : Remove(failed)
        /\ pms' = [c \in Conns |-> IF c \in to /\ wire[c] = "open"
                                     THEN Append(pms[c], pm) ELSE pms[c]]
    /\ private' = Tail(private)
    /\ UNCHANGED <<hub, announcing, broadcast, pmsOf, sentTo, handler, room, said, inbox, spoken>>

\* The context ends: closeAll.
Stop ==
    /\ hub = "select"
    /\ hub' = "stopped"
    /\ clients' = {}
    /\ wire' = [c \in Conns |-> IF c \in clients THEN "closed" ELSE wire[c]]
    /\ UNCHANGED <<announcing, members, unreached, queues, handler, room, said, delivered>>

-----------------------------------------------------------------------------
(* The listings of GET /rooms/users, read from the hub's map of rooms.     *)

RoomUsers(m) == members[m]
RoomsUsers == [m \in Rooms |-> RoomUsers(m)]

-----------------------------------------------------------------------------
HandlerStep(c) == Read(c) \/ Send(c) \/ ReadError(c) \/ ReadMalformed(c)

Next ==
    \/ \E c \in Conns :
        \/ \E m \in Asks[c] : Dial(c, m)
        \/ HandlerStep(c) \/ PeerLeaves(c) \/ Register(c) \/ Unregister(c)
    \/ \E u \in Users : StorePM(u) \/ SendPM(u)
    \/ QueueAnnouncement \/ Deliver \/ DeliverPrivate \/ Stop

\* Goroutines run; select picks among the ready arms at random, so an arm
\* that is ready again and again is picked.  Peers owe nothing.
Fairness ==
    /\ \A c \in Conns : /\ WF_vars(Send(c) \/ ReadError(c))
                        /\ SF_vars(Register(c)) /\ SF_vars(Unregister(c))
    /\ WF_vars(QueueAnnouncement) /\ SF_vars(Deliver) /\ SF_vars(DeliverPrivate)

Spec == Init /\ [][Next]_vars /\ Fairness

-----------------------------------------------------------------------------
(* Properties.                                                             *)

\* The types of the hub, the channels, the handlers and the peers; the
\* buffered channels keep within their capacity; a peer is only ever sent
\* messages of its own room and private messages of its own user; nothing is
\* queued that is not in the table of private messages.
TypeOK ==
    /\ hub \in {"select", "announce", "stopped"}
    /\ announcing \in Messages \cup {None}
    /\ clients \subseteq Conns
    /\ members \in [Rooms -> SUBSET Conns]
    /\ broadcast \in Seq(Messages) /\ Len(broadcast) <= Capacity
    /\ private \in Seq([to: Users, n: Nat]) /\ Len(private) <= Capacity
    /\ handler \in [Conns -> {"idle", "registering", "reading", "sending",
                              "unregistering", "done"}]
    /\ room \in [Conns -> Rooms \cup {None}]
    /\ said \in [Conns -> Nat]
    /\ wire \in [Conns -> {"open", "gone", "closed"}]
    /\ \A c \in Conns :
        /\ inbox[c] \in Seq({message \in Messages : message.room = room[c]})
        /\ pms[c] \in Seq([to: {UserOf[c]}, n: Nat])
    /\ \A u \in Users : sentTo[u] <= pmsOf[u]
    /\ spoken \in [Rooms -> Seq(Messages)]

\* What a peer has been sent is a stretch of its room's conversation with
\* nothing missing, repeated or out of order, although peers come and go and
\* writes fail while messages wait in the channel.
GapFree ==
    \A c \in Conns :
        inbox[c] # <<>> =>
            \E i \in 1..Len(spoken[room[c]]) - Len(inbox[c]) + 1 :
                inbox[c] = SubSeq(spoken[room[c]], i, i + Len(inbox[c]) - 1)

\* In a room's conversation every connection speaks in its own order, is
\* announced at most once each way, and is silent after it has left.
SpokenInOrder ==
    \A m \in Rooms : \A i, j \in 1..Len(spoken[m]) :
        LET a == spoken[m][i]
            b == spoken[m][j]
        IN  i < j /\ a.from = b.from =>
                /\ a.kind # "left"
                /\ b.kind # "joined" \/ a.kind = "said"
                /\ a.kind = "said" /\ b.kind = "said" => a.n < b.n

\* As long as the hub runs, a connection that is registered and not yet
\* closed is in the hub's map and listed in its own room, and in no other; the
\* listings show one that the map no longer knows only if a write to it failed.
ConnectedAreServed ==
    hub # "stopped" =>
        \A c \in Conns :
            /\ handler[c] \in {"reading", "sending", "unregistering"} /\ wire[c] # "closed"
               => c \in clients
            /\ c \in clients => c \in RoomsUsers[room[c]]
            /\ \A m \in Rooms : c \in RoomsUsers[m] =>
                m = room[c] /\ (c \in clients \/ c \in unreached)

HasJoined(c) == \E i \in 1..Len(inbox[c]) : inbox[c][i] = Message(c, "joined", 0)

\* A peer that stays is eventually shown that it has joined, unless the
\* hub stops.
JoinIsShown ==
    \A c \in Conns :
        handler[c] = "registering" ~>
            (HasJoined(c) \/ wire[c] # "open" \/ hub = "stopped")

\* The hub waits for room in a channel that only it reads.
Stuck == hub = "announce" /\ Len(broadcast) = Capacity

\* A handler whose connection has failed ends, unless the hub stops or is
\* stuck.
HandlersEnd ==
    \A c \in Conns :
        (handler[c] # "idle" /\ wire[c] # "open") ~>
            (handler[c] = "done" \/ hub = "stopped" \/ Stuck)

\* Where the peer of c is: served once the hub has its connection, and until
\* the connection fails, ends or is closed.
PlaceOf(c) ==
    IF handler[c] \in {"idle", "registering"} THEN "outside"
    ELSE IF c \in clients /\ wire[c] = "open" THEN "inside"
    ELSE "gone"

Feed == INSTANCE RoomFeed WITH
    Peers <- Conns,
    Nowhere <- None,
    talk <- spoken,
    heard <- inbox,
    place <- [c \in Conns |-> PlaceOf(c)],
    at <- [c \in Conns |-> IF PlaceOf(c) = "outside" THEN None ELSE room[c]]

\* The hub, its channels and its handlers implement RoomFeed: messages wait,
\* writes fail and announcements are queued behind them, and still every
\* conversation has all of what each of its peers says in order, and everyone
\* who is served is sent every message of its room, and no other, as it is
\* added.
ImplementsFeed == Feed!Spec
=============================================================================
