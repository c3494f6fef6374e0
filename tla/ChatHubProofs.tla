--------------------------- MODULE ChatHubProofs ---------------------------
(***************************************************************************)
(* Proofs about ChatHub for any number of connections, rooms, users and    *)
(* messages, and channels of any capacity: types, the isolation of rooms,  *)
(* the agreement of the hub's map with its rooms, order without gaps, and  *)
(* that the rooms implement RoomFeed.                                      *)
(***************************************************************************)
EXTENDS ChatHub, SequenceTheorems, TLAPS

Registered == {"reading", "sending", "unregistering"}

\* What TypeOK needs to be inductive: a connection that was dialled asks for
\* a room that exists, one that was not has been sent nothing, and the hub
\* announces a message.
DialledInv ==
    /\ \A c \in Conns : handler[c] # "idle" => room[c] \in Rooms
    /\ \A c \in Conns : handler[c] = "idle" => inbox[c] = <<>>
    /\ hub = "announce" => announcing \in Messages
    /\ sentTo \in [Users -> Nat] /\ pmsOf \in [Users -> Nat]

\* The hub knows only connections that have registered, and does not know
\* those that have unregistered.
MapInv ==
    \A c \in Conns :
        /\ c \in clients => handler[c] \in Registered
        /\ \A m \in Rooms : c \in members[m] => handler[c] \in Registered \cup {"done"}

IInv == TypeOK /\ DialledInv /\ MapInv /\ ConnectedAreServed

-----------------------------------------------------------------------------
LEMMA InitInv == Init => IInv
<1> SUFFICES ASSUME Init PROVE IInv
  OBVIOUS
<1> USE DEF Init
<1>1. TypeOK
  <2>1. \A c \in Conns : inbox[c] = <<>> /\ pms[c] = <<>>
    OBVIOUS
  <2>2. broadcast = <<>> /\ private = <<>> /\ Len(broadcast) = 0 /\ Len(private) = 0
    OBVIOUS
  <2>3. spoken \in [Rooms -> Seq(Messages)]
    OBVIOUS
  <2>4. Capacity \in Nat
    BY BoundsAssumption
  <2> QED BY <2>1, <2>2, <2>3, <2>4 DEF TypeOK
<1>2. DialledInv /\ MapInv
  BY DEF DialledInv, MapInv
<1>3. ConnectedAreServed
  BY DEF ConnectedAreServed, RoomsUsers, RoomUsers
<1> QED BY <1>1, <1>2, <1>3 DEF IInv

-----------------------------------------------------------------------------
(* What the parts of the invariant read.                                   *)

\* The messages a connection makes are messages.
LEMMA MessageType ==
    ASSUME IInv, NEW c \in Conns, handler[c] # "idle",
           NEW kind \in {"joined", "said", "left"}, NEW n \in Nat
    PROVE  Message(c, kind, n) \in Messages
BY DEF IInv, DialledInv, Message, Messages

\* What peers have been sent keeps its type when only the room of a
\* connection that was never dialled changes.
LEMMA DeliveredFrame ==
    ASSUME TypeOK, UNCHANGED delivered, UNCHANGED room
    PROVE  /\ \A c \in Conns :
                /\ inbox'[c] \in Seq({message \in Messages : message.room = room'[c]})
                /\ pms'[c] \in Seq([to: {UserOf[c]}, n: Nat])
           /\ spoken' \in [Rooms -> Seq(Messages)]
BY DEF TypeOK, delivered

-----------------------------------------------------------------------------
(* The handler.                                                            *)

LEMMA DialInv ==
    ASSUME IInv, NEW c \in Conns, NEW m \in Asks[c], Dial(c, m)
    PROVE  IInv'
<1> USE DEF Dial, Goto, hubVars, queues, delivered
<1>1. m \in Rooms
  BY AsksAssumption
<1>2. TypeOK /\ DialledInv /\ MapInv /\ ConnectedAreServed
  BY DEF IInv
<1>3. room' = [room EXCEPT ![c] = m] /\ room \in [Conns -> Rooms \cup {None}]
  BY <1>2 DEF TypeOK
<1>4. handler' = [handler EXCEPT ![c] = "registering"] /\ handler[c] = "idle"
  OBVIOUS
<1>5. DOMAIN handler = Conns
  BY <1>2 DEF TypeOK
<1>6. TypeOK'
  <2>1. \A d \in Conns : inbox'[d] \in Seq({message \in Messages : message.room = room'[d]})
    <3> SUFFICES ASSUME NEW d \in Conns
                 PROVE  inbox'[d] \in Seq({message \in Messages : message.room = room'[d]})
      OBVIOUS
    <3>1. CASE d = c
      <4>1. inbox'[d] = <<>>
        BY <1>2, <3>1 DEF DialledInv
      <4> QED BY <4>1
    <3>2. CASE d # c
      <4>1. inbox'[d] = inbox[d] /\ room'[d] = room[d]
        BY <1>3, <3>2
      <4>2. inbox[d] \in Seq({message \in Messages : message.room = room[d]})
        BY <1>2 DEF TypeOK
      <4> QED BY <4>1, <4>2
    <3> QED BY <3>1, <3>2
  <2> QED BY <1>1, <1>2, <1>3, <1>4, <2>1 DEF TypeOK
<1>7. DialledInv'
  BY <1>1, <1>2, <1>3, <1>4, <1>5 DEF DialledInv
<1>8. MapInv'
  BY <1>2, <1>4, <1>5 DEF MapInv, Registered
<1>9. ConnectedAreServed'
  BY <1>2, <1>3, <1>4, <1>5 DEF ConnectedAreServed, MapInv, Registered, RoomsUsers, RoomUsers
<1> QED BY <1>6, <1>7, <1>8, <1>9 DEF IInv

\* A registered handler moves on.
LEMMA HandlerMoves ==
    ASSUME IInv, NEW c \in Conns, NEW next \in Registered, handler[c] \in Registered,
           Goto(c, next), UNCHANGED <<hubVars, room, wire, inbox>>
    PROVE  /\ \A d \in Conns : handler'[d] # "idle" => room'[d] \in Rooms
           /\ \A d \in Conns : handler'[d] = "idle" => inbox'[d] = <<>>
           /\ MapInv' /\ ConnectedAreServed'
<1>1. \A d \in Conns : handler'[d] = handler[d] \/ (d = c /\ handler'[d] \in Registered)
  BY DEF IInv, TypeOK, Goto
<1>2. \A d \in Conns : handler'[d] # "idle" => room'[d] \in Rooms
  BY <1>1 DEF IInv, DialledInv, Registered
<1>3. \A d \in Conns : handler'[d] = "idle" => inbox'[d] = <<>>
  BY <1>1 DEF IInv, DialledInv, Registered
<1>4. MapInv'
  BY <1>1 DEF IInv, MapInv, hubVars
<1>5. ConnectedAreServed'
  BY <1>1 DEF IInv, ConnectedAreServed, RoomsUsers, RoomUsers, hubVars, Registered
<1> QED BY <1>2, <1>3, <1>4, <1>5

LEMMA ReadInv ==
    ASSUME IInv, NEW c \in Conns, Read(c)
    PROVE  IInv'
<1>1. TypeOK /\ DialledInv
  BY DEF IInv
<1>2. TypeOK'
  <2>1. said' \in [Conns -> Nat]
    BY <1>1 DEF TypeOK, Read
  <2>2. handler' \in [Conns -> {"idle", "registering", "reading", "sending",
                                "unregistering", "done"}]
    BY <1>1 DEF TypeOK, Read, Goto
  <2> QED BY <1>1, <2>1, <2>2, DeliveredFrame DEF TypeOK, Read, hubVars, queues, delivered
<1>3. MapInv' /\ ConnectedAreServed' /\ DialledInv'
  BY <1>1, HandlerMoves DEF Read, Registered, DialledInv, hubVars, queues, delivered
<1> QED BY <1>2, <1>3 DEF IInv

LEMMA SendInv ==
    ASSUME IInv, NEW c \in Conns, Send(c)
    PROVE  IInv'
<1>1. TypeOK /\ DialledInv
  BY DEF IInv
<1>2. Message(c, "said", said[c]) \in Messages
  BY <1>1, MessageType DEF Send, TypeOK
<1>3. broadcast' \in Seq(Messages) /\ Len(broadcast') <= Capacity
  BY <1>1, <1>2, BoundsAssumption DEF TypeOK, Send
<1>4. TypeOK'
  BY <1>1, <1>3, DeliveredFrame DEF TypeOK, Send, Goto, hubVars, peers, delivered
<1>5. MapInv' /\ ConnectedAreServed' /\ DialledInv'
  BY <1>1, HandlerMoves DEF Send, Registered, DialledInv, hubVars, peers, delivered
<1> QED BY <1>4, <1>5 DEF IInv

LEMMA ReadErrorInv ==
    ASSUME IInv, NEW c \in Conns, ReadError(c) \/ ReadMalformed(c)
    PROVE  IInv'
<1>1. TypeOK /\ DialledInv
  BY DEF IInv
<1>2. TypeOK'
  BY <1>1, DeliveredFrame DEF TypeOK, ReadError, ReadMalformed, Goto, hubVars, queues, peers, delivered
<1>3. MapInv' /\ ConnectedAreServed' /\ DialledInv'
  BY <1>1, HandlerMoves
    DEF ReadError, ReadMalformed, Registered, DialledInv, hubVars, queues, peers, delivered
<1> QED BY <1>2, <1>3 DEF IInv

LEMMA PeerLeavesInv ==
    ASSUME IInv, NEW c \in Conns, PeerLeaves(c)
    PROVE  IInv'
<1> USE DEF PeerLeaves, hubVars, queues, delivered
<1>1. TypeOK /\ DialledInv /\ MapInv /\ ConnectedAreServed
  BY DEF IInv
<1>2. TypeOK'
  BY <1>1, DeliveredFrame DEF TypeOK
<1>3. DialledInv' /\ MapInv'
  BY <1>1 DEF DialledInv, MapInv
<1>4. \A d \in Conns : wire'[d] # "closed" => wire[d] # "closed"
  BY <1>1 DEF TypeOK
<1>5. ConnectedAreServed'
  BY <1>1, <1>4 DEF ConnectedAreServed, RoomsUsers, RoomUsers
<1> QED BY <1>2, <1>3, <1>5 DEF IInv

LEMMA StorePMInv ==
    ASSUME IInv, NEW u \in Users, StorePM(u)
    PROVE  IInv'
<1> USE DEF StorePM, hubVars, peers, delivered
<1>1. TypeOK /\ DialledInv /\ MapInv /\ ConnectedAreServed
  BY DEF IInv
<1>2. sentTo \in [Users -> Nat] /\ pmsOf \in [Users -> Nat] /\ pmsOf' \in [Users -> Nat]
  BY <1>1 DEF DialledInv
<1>3. \A v \in Users : sentTo'[v] <= pmsOf'[v]
  BY <1>1, <1>2 DEF TypeOK
<1>4. TypeOK'
  BY <1>1, <1>3, DeliveredFrame DEF TypeOK
<1>5. DialledInv' /\ MapInv' /\ ConnectedAreServed'
  BY <1>1, <1>2 DEF DialledInv, MapInv, ConnectedAreServed, RoomsUsers, RoomUsers
<1> QED BY <1>4, <1>5 DEF IInv

LEMMA SendPMInv ==
    ASSUME IInv, NEW u \in Users, SendPM(u)
    PROVE  IInv'
<1> USE DEF SendPM, hubVars, peers, delivered
<1>1. TypeOK /\ DialledInv /\ MapInv /\ ConnectedAreServed
  BY DEF IInv
<1>2. sentTo \in [Users -> Nat] /\ pmsOf \in [Users -> Nat] /\ sentTo' \in [Users -> Nat]
  BY <1>1 DEF DialledInv
<1>3. \A v \in Users : sentTo'[v] <= pmsOf'[v]
  BY <1>1, <1>2 DEF TypeOK
<1>4. [to |-> u, n |-> sentTo'[u]] \in [to: Users, n: Nat]
  BY <1>2
<1>5. private' \in Seq([to: Users, n: Nat]) /\ Len(private') <= Capacity
  BY <1>1, <1>4, BoundsAssumption DEF TypeOK
<1>6. TypeOK'
  BY <1>1, <1>3, <1>5, DeliveredFrame DEF TypeOK
<1>7. DialledInv' /\ MapInv' /\ ConnectedAreServed'
  BY <1>1, <1>2 DEF DialledInv, MapInv, ConnectedAreServed, RoomsUsers, RoomUsers
<1> QED BY <1>6, <1>7 DEF IInv

-----------------------------------------------------------------------------
(* The hub.                                                                *)

LEMMA QueueAnnouncementInv ==
    ASSUME IInv, QueueAnnouncement
    PROVE  IInv'
<1> USE DEF QueueAnnouncement, peers, delivered
<1>1. TypeOK /\ DialledInv /\ MapInv /\ ConnectedAreServed
  BY DEF IInv
<1>2. announcing \in Messages
  BY <1>1 DEF DialledInv
<1>3. broadcast' \in Seq(Messages) /\ Len(broadcast') <= Capacity
  BY <1>1, <1>2, BoundsAssumption DEF TypeOK
<1>4. TypeOK'
  BY <1>1, <1>3, DeliveredFrame DEF TypeOK
<1>5. DialledInv' /\ MapInv' /\ ConnectedAreServed'
  BY <1>1 DEF DialledInv, MapInv, ConnectedAreServed, RoomsUsers, RoomUsers
<1> QED BY <1>4, <1>5 DEF IInv

LEMMA RegisterInv ==
    ASSUME IInv, NEW c \in Conns, Register(c)
    PROVE  IInv'
<1> USE DEF Register, Announce, Goto, queues, peers, delivered
<1>1. TypeOK /\ DialledInv /\ MapInv /\ ConnectedAreServed
  BY DEF IInv
<1>2. room[c] \in Rooms /\ Message(c, "joined", 0) \in Messages
  BY <1>1, MessageType DEF DialledInv
<1>3. members \in [Rooms -> SUBSET Conns] /\ handler[c] = "registering"
  BY <1>1 DEF TypeOK
<1>4. members' \in [Rooms -> SUBSET Conns]
  BY <1>2, <1>3
<1>5. \A d \in Conns : handler'[d] = IF d = c THEN "reading" ELSE handler[d]
  BY <1>1 DEF TypeOK
<1>6. \A m \in Rooms : members'[m] = IF m = room[c] THEN members[m] \cup {c} ELSE members[m]
  BY <1>2, <1>3
<1>7. TypeOK'
  BY <1>1, <1>2, <1>4, DeliveredFrame DEF TypeOK
<1>8. DialledInv'
  BY <1>1, <1>2, <1>5 DEF DialledInv
<1>9. MapInv'
  BY <1>1, <1>5, <1>6 DEF MapInv, Registered
<1>10. \A m \in Rooms : c \notin members[m]
  BY <1>1, <1>3 DEF MapInv, Registered
<1>11. \A d \in clients : room[d] \in Rooms
  BY <1>1 DEF TypeOK, DialledInv, MapInv, Registered
<1>12. /\ clients' = clients \cup {c} /\ unreached' = unreached
       /\ room' = room /\ wire' = wire /\ hub = "select"
  OBVIOUS
<1> HIDE DEF Register
<1>13. ConnectedAreServed'
  <2> SUFFICES ASSUME NEW d \in Conns
               PROVE  /\ handler'[d] \in Registered /\ wire'[d] # "closed" => d \in clients'
                      /\ d \in clients' => room'[d] \in Rooms /\ d \in members'[room'[d]]
                      /\ \A m \in Rooms : d \in members'[m] =>
                            m = room'[d] /\ (d \in clients' \/ d \in unreached')
    BY DEF ConnectedAreServed, RoomsUsers, RoomUsers, Registered
  <2>1. /\ handler[d] \in Registered /\ wire[d] # "closed" => d \in clients
        /\ d \in clients => d \in members[room[d]]
        /\ \A m \in Rooms : d \in members[m] =>
              m = room[d] /\ (d \in clients \/ d \in unreached)
    BY <1>1, <1>11, <1>12 DEF ConnectedAreServed, RoomsUsers, RoomUsers, Registered
  <2>2. CASE d = c
    BY <1>2, <1>6, <1>10, <1>12, <2>2
  <2>3. CASE d # c
    BY <1>5, <1>6, <1>11, <1>12, <2>1, <2>3
  <2> QED BY <2>2, <2>3
<1> QED BY <1>7, <1>8, <1>9, <1>13 DEF IInv

LEMMA UnregisterInv ==
    ASSUME IInv, NEW c \in Conns, Unregister(c)
    PROVE  IInv'
<1> USE DEF Unregister, Announce, Goto, queues, delivered
<1>1. TypeOK /\ DialledInv /\ MapInv /\ ConnectedAreServed
  BY DEF IInv
<1>2. room[c] \in Rooms /\ Message(c, "left", 0) \in Messages
  BY <1>1, MessageType DEF DialledInv
<1>3. members \in [Rooms -> SUBSET Conns] /\ handler[c] = "unregistering" /\ hub = "select"
  BY <1>1 DEF TypeOK
<1>4. \A d \in Conns : handler'[d] = IF d = c THEN "done" ELSE handler[d]
  BY <1>1 DEF TypeOK
<1>5. \A d \in Conns : wire'[d] = IF d = c THEN "closed" ELSE wire[d]
  BY <1>1 DEF TypeOK
<1>6. clients' = clients \ {c}
  OBVIOUS
<1>7. /\ members' \in [Rooms -> SUBSET Conns]
      /\ \A m \in Rooms : members'[m] = members[m] \/
            (c \in clients /\ m = room[c] /\ members'[m] = members[m] \ {c})
  BY <1>2, <1>3
<1>8. c \in clients => members'[room[c]] = members[room[c]] \ {c}
  BY <1>2, <1>3
<1>9. /\ hub' \in {"select", "announce"}
      /\ announcing' \in Messages \cup {None}
      /\ hub' = "announce" => announcing' \in Messages
  BY <1>1, <1>2, <1>3 DEF TypeOK
<1>10. TypeOK'
  BY <1>1, <1>6, <1>7, <1>9, DeliveredFrame DEF TypeOK
<1>11. DialledInv'
  BY <1>1, <1>4, <1>9 DEF DialledInv
<1>12. MapInv'
  BY <1>1, <1>4, <1>6, <1>7 DEF MapInv, Registered
<1>13. \A d \in clients : room[d] \in Rooms
  BY <1>1 DEF TypeOK, DialledInv, MapInv, Registered
<1>14. room' = room /\ unreached' = unreached
  OBVIOUS
<1> HIDE DEF Unregister
<1>15. ConnectedAreServed'
  <2> SUFFICES ASSUME NEW d \in Conns
               PROVE  /\ handler'[d] \in Registered /\ wire'[d] # "closed" => d \in clients'
                      /\ d \in clients' => room'[d] \in Rooms /\ d \in members'[room'[d]]
                      /\ \A m \in Rooms : d \in members'[m] =>
                            m = room'[d] /\ (d \in clients' \/ d \in unreached')
    BY DEF ConnectedAreServed, RoomsUsers, RoomUsers, Registered
  <2>1. /\ handler[d] \in Registered /\ wire[d] # "closed" => d \in clients
        /\ d \in clients => d \in members[room[d]]
        /\ \A m \in Rooms : d \in members[m] =>
              m = room[d] /\ (d \in clients \/ d \in unreached)
    BY <1>1, <1>3, <1>13 DEF ConnectedAreServed, RoomsUsers, RoomUsers, Registered
  <2>2. CASE d = c
    BY <1>4, <1>5, <1>6, <1>7, <1>8, <1>13, <1>14, <2>1, <2>2 DEF Registered
  <2>3. CASE d # c
    BY <1>4, <1>5, <1>6, <1>7, <1>13, <1>14, <2>1, <2>3
  <2> QED BY <2>2, <2>3
<1> QED BY <1>10, <1>11, <1>12, <1>15 DEF IInv

\* removeClient, for the connections a write to which has failed.
LEMMA RemoveStep ==
    ASSUME IInv, hub = "select", NEW to \in SUBSET Conns, NEW failed \in Failures(to),
           Remove(failed), UNCHANGED <<hub, handler, room>>
    PROVE  /\ clients' \subseteq Conns /\ wire' \in [Conns -> {"open", "gone", "closed"}]
           /\ members' = members
           /\ MapInv' /\ ConnectedAreServed'
<1>1. TypeOK /\ MapInv /\ ConnectedAreServed /\ failed \subseteq Conns
  BY DEF IInv, Failures
<1>2. /\ clients' = clients \ failed /\ members' = members
      /\ unreached' = unreached \cup failed
      /\ \A d \in Conns : wire'[d] = IF d \in failed THEN "closed" ELSE wire[d]
  BY DEF Remove
<1>3. clients' \subseteq Conns /\ wire' \in [Conns -> {"open", "gone", "closed"}]
  BY <1>1 DEF TypeOK, Remove
<1>4. MapInv'
  BY <1>1, <1>2 DEF MapInv
<1>5. ConnectedAreServed'
  BY <1>1, <1>2 DEF ConnectedAreServed, RoomsUsers, RoomUsers
<1> QED BY <1>2, <1>3, <1>4, <1>5

LEMMA DeliverInv ==
    ASSUME IInv, Deliver
    PROVE  IInv'
<1> DEFINE message == Head(broadcast)
           to == members[message.room]
<1>1. TypeOK /\ DialledInv /\ MapInv /\ ConnectedAreServed
  BY DEF IInv
<1>2. /\ message \in Messages /\ message.room \in Rooms
      /\ broadcast' \in Seq(Messages) /\ Len(broadcast') <= Capacity
  <2>1. broadcast \in Seq(Messages) /\ Len(broadcast) <= Capacity
    BY <1>1 DEF TypeOK
  <2>2. broadcast # <<>> /\ broadcast' = Tail(broadcast)
    BY DEF Deliver
  <2>3. message \in Messages
    BY <2>1, <2>2, HeadTailProperties
  <2> QED BY <2>1, <2>2, <2>3, HeadTailProperties, BoundsAssumption DEF Messages
<1>3. to \in SUBSET Conns
  BY <1>1, <1>2 DEF TypeOK
<1>4. PICK failed \in Failures(to) : Remove(failed)
  BY DEF Deliver
<1>5. \A d \in to : room[d] = message.room
  BY <1>1, <1>2, <1>3 DEF ConnectedAreServed, RoomsUsers, RoomUsers, Deliver
<1>6. /\ clients' \subseteq Conns /\ wire' \in [Conns -> {"open", "gone", "closed"}]
      /\ members' = members /\ MapInv' /\ ConnectedAreServed'
  BY <1>3, <1>4, RemoveStep DEF Deliver
<1>7. \A d \in Conns : inbox'[d] =
        IF d \in to /\ wire[d] = "open" THEN Append(inbox[d], message) ELSE inbox[d]
  BY DEF Deliver
<1>8. \A d \in Conns : inbox'[d] \in Seq({m \in Messages : m.room = room'[d]})
  <2> SUFFICES ASSUME NEW d \in Conns
               PROVE  inbox'[d] \in Seq({m \in Messages : m.room = room[d]})
    BY DEF Deliver
  <2>1. inbox[d] \in Seq({m \in Messages : m.room = room[d]})
    BY <1>1 DEF TypeOK
  <2>2. CASE d \in to /\ wire[d] = "open"
    <3>1. message \in {m \in Messages : m.room = room[d]}
      BY <1>2, <1>5, <2>2
    <3>2. inbox'[d] = Append(inbox[d], message)
      BY <1>7, <2>2
    <3> HIDE DEF message
    <3> QED BY <2>1, <3>1, <3>2
  <2>3. CASE ~(d \in to /\ wire[d] = "open")
    BY <1>7, <2>1, <2>3
  <2> QED BY <2>2, <2>3
<1>9. spoken' \in [Rooms -> Seq(Messages)]
  <2>1. spoken' = [spoken EXCEPT ![message.room] = Append(spoken[message.room], message)]
    BY DEF Deliver
  <2>2. Append(spoken[message.room], message) \in Seq(Messages)
    BY <1>1, <1>2 DEF TypeOK
  <2> HIDE DEF message
  <2> QED BY <1>1, <2>1, <2>2 DEF TypeOK
<1>10. TypeOK'
  BY <1>1, <1>2, <1>6, <1>8, <1>9 DEF TypeOK, Deliver
<1>11. DialledInv'
  <2>1. \A d \in to : handler[d] # "idle"
    BY <1>1, <1>2, <1>3 DEF MapInv, Registered
  <2>2. \A d \in Conns : handler[d] = "idle" => inbox'[d] = inbox[d]
    BY <1>7, <2>1
  <2> QED BY <1>1, <2>2 DEF DialledInv, Deliver
<1> QED BY <1>6, <1>10, <1>11 DEF IInv

LEMMA DeliverPrivateInv ==
    ASSUME IInv, DeliverPrivate
    PROVE  IInv'
<1> DEFINE pm == Head(private)
           to == {c \in clients : UserOf[c] = pm.to}
<1>1. TypeOK /\ DialledInv /\ MapInv /\ ConnectedAreServed
  BY DEF IInv
<1>2. /\ pm \in [to: Users, n: Nat]
      /\ private' \in Seq([to: Users, n: Nat]) /\ Len(private') <= Capacity
  <2> DEFINE PMs == [to: Users, n: Nat]
  <2>1. private \in Seq(PMs) /\ Len(private) <= Capacity
    BY <1>1 DEF TypeOK
  <2>2. private # <<>> /\ private' = Tail(private)
    BY DEF DeliverPrivate
  <2> HIDE DEF PMs
  <2>3. pm \in PMs /\ private' \in Seq(PMs) /\ Len(private') <= Capacity
    BY <2>1, <2>2, HeadTailProperties, BoundsAssumption
  <2> QED BY <2>3 DEF PMs
<1>3. to \in SUBSET Conns
  BY <1>1 DEF TypeOK
<1>4. PICK failed \in Failures(to) : Remove(failed)
  BY DEF DeliverPrivate
<1>5. /\ clients' \subseteq Conns /\ wire' \in [Conns -> {"open", "gone", "closed"}]
      /\ members' = members /\ MapInv' /\ ConnectedAreServed'
  BY <1>3, <1>4, RemoveStep DEF DeliverPrivate
<1>6. \A d \in Conns : pms'[d] \in Seq([to: {UserOf[d]}, n: Nat])
  <2> SUFFICES ASSUME NEW d \in Conns
               PROVE  pms'[d] \in Seq([to: {UserOf[d]}, n: Nat])
    OBVIOUS
  <2>1. pms[d] \in Seq([to: {UserOf[d]}, n: Nat])
    BY <1>1 DEF TypeOK
  <2>2. pms'[d] = IF d \in to /\ wire[d] = "open" THEN Append(pms[d], pm) ELSE pms[d]
    BY DEF DeliverPrivate
  <2>3. d \in to => pm \in [to: {UserOf[d]}, n: Nat]
    BY <1>2
  <2> DEFINE PMs == [to: {UserOf[d]}, n: Nat]
  <2> HIDE DEF pm, to, PMs
  <2>4. pms[d] \in Seq(PMs) /\ (d \in to => pm \in PMs)
    BY <2>1, <2>3 DEF PMs
  <2>5. pms'[d] \in Seq(PMs)
    BY <2>2, <2>4, AppendProperties
  <2> QED BY <2>5 DEF PMs
<1>7. TypeOK'
  BY <1>1, <1>2, <1>5, <1>6 DEF TypeOK, DeliverPrivate
<1>8. DialledInv'
  BY <1>1 DEF DialledInv, DeliverPrivate
<1> QED BY <1>5, <1>7, <1>8 DEF IInv

LEMMA StopInv ==
    ASSUME IInv, Stop
    PROVE  IInv'
<1> USE DEF Stop, queues, delivered
<1>1. TypeOK /\ DialledInv /\ MapInv
  BY DEF IInv
<1>2. TypeOK'
  BY <1>1, DeliveredFrame DEF TypeOK
<1>3. DialledInv' /\ MapInv' /\ ConnectedAreServed'
  BY <1>1 DEF DialledInv, MapInv, ConnectedAreServed
<1> QED BY <1>2, <1>3 DEF IInv

-----------------------------------------------------------------------------
LEMMA NextInv == IInv /\ [Next]_vars => IInv'
<1> SUFFICES ASSUME IInv, [Next]_vars PROVE IInv'
  OBVIOUS
<1>1. ASSUME NEW c \in Conns, NEW m \in Asks[c], Dial(c, m) PROVE IInv'
  BY <1>1, DialInv
<1>2. ASSUME NEW c \in Conns, HandlerStep(c) \/ PeerLeaves(c) PROVE IInv'
  BY <1>2, ReadInv, SendInv, ReadErrorInv, PeerLeavesInv DEF HandlerStep
<1>3. ASSUME NEW c \in Conns, Register(c) \/ Unregister(c) PROVE IInv'
  BY <1>3, RegisterInv, UnregisterInv
<1>4. ASSUME NEW u \in Users, StorePM(u) \/ SendPM(u) PROVE IInv'
  BY <1>4, StorePMInv, SendPMInv
<1>5. CASE QueueAnnouncement \/ Deliver \/ DeliverPrivate \/ Stop
  BY <1>5, QueueAnnouncementInv, DeliverInv, DeliverPrivateInv, StopInv
<1>6. CASE UNCHANGED vars
  <2> USE DEF vars, hubVars, queues, peers, delivered
  <2>1. TypeOK'
    BY <1>6 DEF IInv, TypeOK
  <2>2. DialledInv' /\ MapInv' /\ ConnectedAreServed'
    BY <1>6 DEF IInv, DialledInv, MapInv, ConnectedAreServed, RoomsUsers, RoomUsers
  <2> QED BY <2>1, <2>2 DEF IInv
<1> QED BY <1>1, <1>2, <1>3, <1>4, <1>5, <1>6 DEF Next

\* The inductive invariant, whatever connections, rooms, users, messages and
\* capacities there are: what the hub's map, its rooms and the handlers say of
\* one another, and the types.
THEOREM Invariance == Spec => []IInv
<1>1. Init => IInv
  BY InitInv
<1>2. IInv /\ [Next]_vars => IInv'
  BY NextInv
<1> QED BY <1>1, <1>2, PTL DEF Spec

\* Types, channels within their capacity, and rooms that are isolated: nobody
\* is sent a message of another room or another user's private message
\* (broadcastMessage and sendPrivate in hub.go).
THEOREM TypeCorrect == Spec => []TypeOK
<1>1. IInv => TypeOK
  BY DEF IInv
<1> QED BY <1>1, Invariance, PTL

\* As long as the hub runs, no open connection is forgotten by its map and none
\* is listed in a room it is not in, and a ghost in a listing is a connection
\* to which a write has failed (registerClient, unregisterClient, removeClient).
THEOREM Served == Spec => []ConnectedAreServed
<1>1. IInv => ConnectedAreServed
  BY DEF IInv
<1> QED BY <1>1, Invariance, PTL

-----------------------------------------------------------------------------
(* The order of a room's conversation.                                     *)

Ordered(a, b) ==
    a.from = b.from =>
        /\ a.kind # "left"
        /\ b.kind # "joined" \/ a.kind = "said"
        /\ a.kind = "said" /\ b.kind = "said" => a.n < b.n

SpokenAt(m) == 1 .. Len(spoken[m])
QueuedAt == 1 .. Len(broadcast)

Emitted(e) ==
    \/ \E m \in Rooms : \E i \in SpokenAt(m) : e = spoken[m][i]
    \/ \E i \in QueuedAt : e = broadcast[i]
    \/ hub = "announce" /\ e = announcing

\* What a connection has emitted says how far its handler is.
EmittedInv ==
    \A e \in Messages : Emitted(e) =>
        /\ handler[e.from] \in Registered \cup {"done"}
        /\ e.kind = "left" => handler[e.from] = "done"
        /\ e.kind = "said" =>
            e.n <= said[e.from] /\ (handler[e.from] = "sending" => e.n < said[e.from])

\* What is spoken, queued and about to be queued is in order.
QueueInv ==
    /\ \A m \in Rooms : \A i, j \in SpokenAt(m) :
        i < j => Ordered(spoken[m][i], spoken[m][j])
    /\ \A m \in Rooms : \A i \in SpokenAt(m), j \in QueuedAt :
        Ordered(spoken[m][i], broadcast[j])
    /\ \A i, j \in QueuedAt : i < j => Ordered(broadcast[i], broadcast[j])
    /\ hub = "announce" =>
        /\ announcing.kind # "said"
        /\ \A i \in QueuedAt : Ordered(broadcast[i], announcing)
        /\ \A m \in Rooms : \A i \in SpokenAt(m) : Ordered(spoken[m][i], announcing)

OInv == IInv /\ EmittedInv /\ QueueInv

LEMMA InOrder == QueueInv => SpokenInOrder
BY DEF QueueInv, SpokenInOrder, Ordered, SpokenAt

LEMMA EmittedType ==
    ASSUME IInv
    PROVE  /\ \A m \in Rooms : Len(spoken[m]) \in Nat
           /\ \A m \in Rooms : \A i \in SpokenAt(m) : spoken[m][i] \in Messages
           /\ Len(broadcast) \in Nat
           /\ \A i \in QueuedAt : broadcast[i] \in Messages
           /\ hub = "announce" => announcing \in Messages
<1>1. TypeOK /\ DialledInv
  BY DEF IInv
<1>2. \A m \in Rooms : spoken[m] \in Seq(Messages)
  BY <1>1 DEF TypeOK
<1>3. broadcast \in Seq(Messages)
  BY <1>1 DEF TypeOK
<1> QED BY <1>1, <1>2, <1>3 DEF DialledInv, SpokenAt, QueuedAt

\* A message of a connection that has emitted no message which the new one may
\* not follow.
LEMMA MayFollow ==
    ASSUME IInv, EmittedInv, NEW e \in Messages,
           \A a \in Messages : Emitted(a) => Ordered(a, e)
    PROVE  /\ \A i \in QueuedAt : Ordered(broadcast[i], e)
           /\ \A m \in Rooms : \A i \in SpokenAt(m) : Ordered(spoken[m][i], e)
BY EmittedType DEF Emitted

\* Steps that leave the conversations alone and move handlers in their order.
LEMMA QuietOrder ==
    ASSUME OInv, UNCHANGED <<broadcast, spoken, announcing>>, hub' \in {hub, "stopped"},
           \A c \in Conns :
              \/ handler'[c] = handler[c] /\ said'[c] = said[c]
              \/ handler[c] = "idle"
              \/ /\ handler[c] = "reading" /\ handler'[c] = "sending"
                 /\ said'[c] = said[c] + 1
              \/ /\ handler[c] = "reading" /\ handler'[c] = "unregistering"
                 /\ said'[c] = said[c]
              \/ /\ handler[c] = "unregistering" /\ handler'[c] = "done"
                 /\ said'[c] = said[c]
    PROVE  EmittedInv' /\ QueueInv'
<1>1. \A e \in Messages : Emitted(e)' => Emitted(e)
  BY DEF Emitted, SpokenAt, QueuedAt
<1>2. \A e \in Messages : e.from \in Conns /\ e.n \in Nat
  BY DEF Messages
<1>3. \A c \in Conns : said[c] \in Nat
  BY DEF OInv, IInv, TypeOK
<1>4. EmittedInv'
  <2> SUFFICES ASSUME NEW e \in Messages, Emitted(e)'
               PROVE  /\ handler'[e.from] \in Registered \cup {"done"}
                      /\ e.kind = "left" => handler'[e.from] = "done"
                      /\ e.kind = "said" =>
                           /\ e.n <= said'[e.from]
                           /\ handler'[e.from] = "sending" => e.n < said'[e.from]
    BY DEF EmittedInv
  <2>1. /\ handler[e.from] \in Registered \cup {"done"}
        /\ e.kind = "left" => handler[e.from] = "done"
        /\ e.kind = "said" =>
             e.n <= said[e.from] /\ (handler[e.from] = "sending" => e.n < said[e.from])
    BY <1>1 DEF OInv, EmittedInv
  <2> QED BY <1>2, <1>3, <2>1 DEF Registered
<1>5. QueueInv'
  BY DEF OInv, QueueInv, SpokenAt, QueuedAt
<1> QED BY <1>4, <1>5

\* A message is queued that all emitted ones may precede.
LEMMA QueueOrder ==
    ASSUME OInv, NEW e \in Messages,
           broadcast' = Append(broadcast, e), UNCHANGED spoken,
           \A i \in QueuedAt : Ordered(broadcast[i], e),
           \A m \in Rooms : \A i \in SpokenAt(m) : Ordered(spoken[m][i], e),
           hub' = "announce" =>
                hub = "announce" /\ announcing' = announcing /\ Ordered(e, announcing)
    PROVE  /\ QueueInv'
           /\ \A a \in Messages : Emitted(a)' => Emitted(a) \/ a = e
<1>1. IInv /\ QueueInv /\ broadcast \in Seq(Messages)
  BY DEF OInv, IInv, TypeOK
<1>2. /\ Len(broadcast) \in Nat /\ Len(broadcast') = Len(broadcast) + 1
      /\ \A i \in QueuedAt : broadcast'[i] = broadcast[i]
      /\ broadcast'[Len(broadcast) + 1] = e
  BY <1>1, AppendProperties DEF QueuedAt
<1>3. /\ \A i \in QueuedAt' : \/ i \in QueuedAt /\ broadcast'[i] = broadcast[i]
                              \/ i = Len(broadcast) + 1 /\ broadcast'[i] = e
      /\ \A i, j \in QueuedAt' : i < j => i \in QueuedAt
  BY <1>2 DEF QueuedAt
<1>4. \A m \in Rooms : SpokenAt(m)' = SpokenAt(m)
  BY DEF SpokenAt
<1>5. \A i, j \in QueuedAt' : i < j => Ordered(broadcast'[i], broadcast'[j])
  <2> SUFFICES ASSUME NEW i \in QueuedAt', NEW j \in QueuedAt', i < j
               PROVE  Ordered(broadcast'[i], broadcast'[j])
    OBVIOUS
  <2>1. i \in QueuedAt /\ broadcast'[i] = broadcast[i]
    BY <1>2, <1>3
  <2> QED BY <1>1, <1>3, <2>1 DEF QueueInv
<1>6. \A m \in Rooms : \A i \in SpokenAt(m)', j \in QueuedAt' :
          Ordered(spoken'[m][i], broadcast'[j])
  BY <1>1, <1>3, <1>4 DEF QueueInv
<1>7. \A m \in Rooms : \A i, j \in SpokenAt(m)' :
          i < j => Ordered(spoken'[m][i], spoken'[m][j])
  BY <1>1, <1>4 DEF QueueInv
<1>8. hub' = "announce" =>
        /\ announcing'.kind # "said"
        /\ \A i \in QueuedAt' : Ordered(broadcast'[i], announcing')
        /\ \A m \in Rooms : \A i \in SpokenAt(m)' : Ordered(spoken'[m][i], announcing')
  BY <1>1, <1>3, <1>4 DEF QueueInv
<1>9. QueueInv'
  BY <1>5, <1>6, <1>7, <1>8 DEF QueueInv, Ordered
<1>10. \A a \in Messages : Emitted(a)' => Emitted(a) \/ a = e
  BY <1>3, <1>4 DEF Emitted
<1> QED BY <1>9, <1>10

LEMMA SendOrder ==
    ASSUME OInv, NEW c \in Conns, Send(c)
    PROVE  EmittedInv' /\ QueueInv'
<1>1. IInv /\ EmittedInv /\ QueueInv /\ TypeOK
  BY DEF OInv, IInv
<1>2. PICK new \in Messages :
        /\ broadcast' = Append(broadcast, new)
        /\ new.from = c /\ new.kind = "said" /\ new.n = said[c] /\ said[c] \in Nat
  BY <1>1, MessageType DEF Send, TypeOK, Message
<1>3. /\ handler[c] = "sending"
      /\ UNCHANGED <<hub, announcing, spoken, said>>
      /\ \A d \in Conns : handler'[d] = IF d = c THEN "reading" ELSE handler[d]
  BY <1>1 DEF Send, Goto, TypeOK, hubVars, peers, delivered
<1>4. \A a \in Messages : Emitted(a) => Ordered(a, new)
  BY <1>1, <1>2, <1>3 DEF EmittedInv, Ordered
<1>5. hub = "announce" => Ordered(new, announcing)
  <2>1. hub = "announce" => announcing \in Messages /\ Emitted(announcing)
    BY <1>1, EmittedType DEF Emitted
  <2> QED BY <1>1, <1>2, <1>3, <2>1 DEF EmittedInv, QueueInv, Ordered
<1>6. QueueInv' /\ \A a \in Messages : Emitted(a)' => Emitted(a) \/ a = new
  <2>1. /\ \A i \in QueuedAt : Ordered(broadcast[i], new)
        /\ \A m \in Rooms : \A i \in SpokenAt(m) : Ordered(spoken[m][i], new)
    BY <1>1, <1>4, MayFollow
  <2> QED BY <1>2, <1>3, <1>5, <2>1, QueueOrder
<1>7. EmittedInv'
  <2>1. \A e \in Messages : e.from \in Conns /\ e.n \in Nat
    BY DEF Messages
  <2>2. handler'[c] = "reading"
    BY <1>3
  <2> QED BY <1>1, <1>2, <1>3, <1>6, <2>1, <2>2 DEF EmittedInv, Registered
<1> QED BY <1>6, <1>7

LEMMA QueueAnnouncementOrder ==
    ASSUME OInv, QueueAnnouncement
    PROVE  EmittedInv' /\ QueueInv'
<1>1. IInv /\ EmittedInv /\ QueueInv /\ announcing \in Messages /\ hub = "announce"
  BY EmittedType DEF OInv, QueueAnnouncement
<1>2. PICK e \in Messages : e = announcing
  BY <1>1
<1>3. /\ broadcast' = Append(broadcast, e) /\ hub' = "select"
      /\ UNCHANGED <<spoken, handler, said>>
  BY <1>2 DEF QueueAnnouncement, peers, delivered
<1>4. /\ \A i \in QueuedAt : Ordered(broadcast[i], e)
      /\ \A m \in Rooms : \A i \in SpokenAt(m) : Ordered(spoken[m][i], e)
  BY <1>1, <1>2 DEF QueueInv
<1>5. QueueInv' /\ \A a \in Messages : Emitted(a)' => Emitted(a) \/ a = e
  BY <1>3, <1>4, QueueOrder
<1>6. Emitted(e)
  BY <1>1, <1>2 DEF Emitted
<1>7. EmittedInv'
  BY <1>1, <1>3, <1>5, <1>6 DEF EmittedInv
<1> QED BY <1>5, <1>7

\* The hub is about to announce what all emitted messages may precede.
LEMMA AnnounceOrder ==
    ASSUME OInv, NEW e \in Messages, e.kind # "said", announcing' = e,
           UNCHANGED <<broadcast, spoken>>, hub # "announce",
           \A a \in Messages : Emitted(a) => Ordered(a, e)
    PROVE  /\ QueueInv'
           /\ \A a \in Messages : Emitted(a)' => Emitted(a) \/ a = e
<1>1. IInv /\ EmittedInv /\ QueueInv
  BY DEF OInv
<1>2. /\ \A i \in QueuedAt : Ordered(broadcast[i], e)
      /\ \A m \in Rooms : \A i \in SpokenAt(m) : Ordered(spoken[m][i], e)
  BY <1>1, MayFollow
<1>3. QueueInv'
  BY <1>1, <1>2 DEF QueueInv, Ordered, SpokenAt, QueuedAt
<1>4. \A a \in Messages : Emitted(a)' => Emitted(a) \/ a = e
  BY DEF Emitted, SpokenAt, QueuedAt
<1> QED BY <1>3, <1>4

LEMMA RegisterOrder ==
    ASSUME OInv, NEW c \in Conns, Register(c)
    PROVE  EmittedInv' /\ QueueInv'
<1>1. IInv /\ EmittedInv /\ QueueInv
  BY DEF OInv
<1>2. PICK e \in Messages :
        e = Message(c, "joined", 0) /\ e.from = c /\ e.kind = "joined"
  BY <1>1, MessageType DEF Register, Message
<1>3. /\ announcing' = e /\ hub = "select" /\ handler[c] = "registering"
      /\ UNCHANGED <<broadcast, spoken, said>>
      /\ \A d \in Conns : handler'[d] = IF d = c THEN "reading" ELSE handler[d]
  BY <1>1, <1>2
    DEF Register, Announce, Goto, queues, peers, delivered, IInv, TypeOK
<1>4. \A a \in Messages : Emitted(a) => a.from # c
  BY <1>1, <1>3 DEF EmittedInv, Registered
<1>5. QueueInv' /\ \A a \in Messages : Emitted(a)' => Emitted(a) \/ a = e
  BY <1>2, <1>3, <1>4, AnnounceOrder DEF Ordered
<1>6. EmittedInv'
  <2>1. \A a \in Messages : a.from \in Conns
    BY DEF Messages
  <2> QED BY <1>1, <1>2, <1>3, <1>4, <1>5, <2>1 DEF EmittedInv, Registered
<1> QED BY <1>5, <1>6

LEMMA UnregisterOrder ==
    ASSUME OInv, NEW c \in Conns, Unregister(c)
    PROVE  EmittedInv' /\ QueueInv'
<1>1. IInv /\ EmittedInv /\ QueueInv
  BY DEF OInv
<1>2. PICK e \in Messages :
        e = Message(c, "left", 0) /\ e.from = c /\ e.kind = "left"
  BY <1>1, MessageType DEF Unregister, Message
<1>3. /\ hub = "select" /\ handler[c] = "unregistering"
      /\ UNCHANGED <<broadcast, spoken, said>>
      /\ \A d \in Conns : handler'[d] = IF d = c THEN "done" ELSE handler[d]
  BY <1>1 DEF Unregister, Goto, queues, delivered, IInv, TypeOK
<1>4. CASE c \in clients
  <2>1. announcing' = e
    BY <1>2, <1>4 DEF Unregister, Announce
  <2>2. \A a \in Messages : Emitted(a) => Ordered(a, e)
    BY <1>1, <1>2, <1>3 DEF EmittedInv, Ordered
  <2>3. QueueInv' /\ \A a \in Messages : Emitted(a)' => Emitted(a) \/ a = e
    BY <1>2, <1>3, <2>1, <2>2, AnnounceOrder
  <2>4. EmittedInv'
    <3>1. \A a \in Messages : a.from \in Conns
      BY DEF Messages
    <3> QED BY <1>1, <1>2, <1>3, <2>3, <3>1 DEF EmittedInv, Registered
  <2> QED BY <2>3, <2>4
<1>5. CASE c \notin clients
  BY <1>3, <1>5, QuietOrder DEF Unregister
<1> QED BY <1>4, <1>5

LEMMA DeliverOrder ==
    ASSUME OInv, Deliver
    PROVE  EmittedInv' /\ QueueInv'
<1>1. IInv /\ EmittedInv /\ QueueInv /\ TypeOK
  BY DEF OInv, IInv
<1>2. broadcast \in Seq(Messages) /\ broadcast # <<>> /\ spoken \in [Rooms -> Seq(Messages)]
  BY <1>1 DEF Deliver, TypeOK
<1>3. PICK e \in Messages : e = Head(broadcast)
  BY <1>2, HeadTailProperties
<1>4. /\ broadcast' = Tail(broadcast) /\ hub = "select" /\ hub' = hub
      /\ spoken' = [spoken EXCEPT ![e.room] = Append(spoken[e.room], e)]
      /\ UNCHANGED <<handler, said, announcing>>
  BY <1>3 DEF Deliver
<1>5. /\ Len(broadcast) \in Nat \ {0} /\ Len(broadcast') = Len(broadcast) - 1
      /\ e = broadcast[1]
      /\ \A i \in 1 .. Len(broadcast') : broadcast'[i] = broadcast[i + 1]
  BY <1>2, <1>3, <1>4, HeadTailProperties, EmptySeq
<1>6. \A i \in QueuedAt' : i + 1 \in QueuedAt /\ i + 1 > 1 /\ broadcast'[i] = broadcast[i + 1]
  BY <1>5 DEF QueuedAt
<1>7. \A m \in Rooms : Len(spoken[m]) \in Nat
  BY <1>1, EmittedType
<1>8. \A m \in Rooms : \A i \in SpokenAt(m)' :
        \/ i \in SpokenAt(m) /\ spoken'[m][i] = spoken[m][i]
        \/ i = Len(spoken[m]) + 1 /\ spoken'[m][i] = e
  <2> SUFFICES ASSUME NEW m \in Rooms, NEW i \in SpokenAt(m)'
               PROVE  \/ i \in SpokenAt(m) /\ spoken'[m][i] = spoken[m][i]
                      \/ i = Len(spoken[m]) + 1 /\ spoken'[m][i] = e
    OBVIOUS
  <2>1. CASE m = e.room
    <3>1. spoken'[m] = Append(spoken[m], e) /\ spoken[m] \in Seq(Messages)
      BY <1>2, <1>4, <2>1
    <3> QED BY <3>1, AppendProperties DEF SpokenAt
  <2>2. CASE m # e.room
    BY <1>2, <1>4, <2>2 DEF SpokenAt
  <2> QED BY <2>1, <2>2
<1>9. 1 \in QueuedAt
  BY <1>5 DEF QueuedAt
<1>10. \A a \in Messages : Emitted(a)' => Emitted(a)
  <2>1. Emitted(e)
    BY <1>5, <1>9 DEF Emitted
  <2> SUFFICES ASSUME NEW a \in Messages, Emitted(a)' PROVE Emitted(a)
    OBVIOUS
  <2>2. CASE \E m \in Rooms : \E i \in SpokenAt(m)' : a = spoken'[m][i]
    <3>1. PICK m \in Rooms : \E i \in SpokenAt(m)' : a = spoken'[m][i]
      BY <2>2
    <3>2. PICK i \in SpokenAt(m)' : a = spoken'[m][i]
      BY <3>1
    <3>3. a = e \/ (i \in SpokenAt(m) /\ a = spoken[m][i])
      BY <1>8, <3>2
    <3> QED BY <2>1, <3>3 DEF Emitted
  <2>3. CASE \E i \in QueuedAt' : a = broadcast'[i]
    <3>1. PICK i \in QueuedAt' : a = broadcast'[i]
      BY <2>3
    <3>2. i + 1 \in QueuedAt /\ a = broadcast[i + 1]
      BY <1>6, <3>1
    <3> QED BY <3>2 DEF Emitted
  <2> QED BY <1>4, <2>2, <2>3 DEF Emitted
<1>11. EmittedInv'
  BY <1>1, <1>4, <1>10 DEF EmittedInv
<1>12. \A m \in Rooms : \A i, j \in SpokenAt(m)' :
          i < j => Ordered(spoken'[m][i], spoken'[m][j])
  <2> SUFFICES ASSUME NEW m \in Rooms, NEW i \in SpokenAt(m)', NEW j \in SpokenAt(m)', i < j
               PROVE  Ordered(spoken'[m][i], spoken'[m][j])
    OBVIOUS
  <2>1. i \in SpokenAt(m) /\ spoken'[m][i] = spoken[m][i]
    <3>1. j <= Len(spoken[m]) + 1 /\ i \in Nat /\ j \in Nat
      BY <1>7, <1>8 DEF SpokenAt
    <3> QED BY <1>7, <1>8, <3>1
  <2>2. (j \in SpokenAt(m) /\ spoken'[m][j] = spoken[m][j]) \/ spoken'[m][j] = broadcast[1]
    BY <1>5, <1>8
  <2> QED BY <1>1, <1>9, <2>1, <2>2 DEF QueueInv
<1>13. \A m \in Rooms : \A i \in SpokenAt(m)', j \in QueuedAt' :
          Ordered(spoken'[m][i], broadcast'[j])
  <2> SUFFICES ASSUME NEW m \in Rooms, NEW i \in SpokenAt(m)', NEW j \in QueuedAt'
               PROVE  Ordered(spoken'[m][i], broadcast'[j])
    OBVIOUS
  <2>1. j + 1 \in QueuedAt /\ 1 < j + 1 /\ broadcast'[j] = broadcast[j + 1]
    BY <1>6 DEF QueuedAt
  <2>2. (i \in SpokenAt(m) /\ spoken'[m][i] = spoken[m][i]) \/ spoken'[m][i] = broadcast[1]
    BY <1>5, <1>8
  <2> QED BY <1>1, <1>9, <2>1, <2>2 DEF QueueInv
<1>14. \A i, j \in QueuedAt' : i < j => Ordered(broadcast'[i], broadcast'[j])
  <2> SUFFICES ASSUME NEW i \in QueuedAt', NEW j \in QueuedAt', i < j
               PROVE  Ordered(broadcast'[i], broadcast'[j])
    OBVIOUS
  <2>1. i + 1 \in QueuedAt /\ j + 1 \in QueuedAt /\ i + 1 < j + 1
    BY <1>6 DEF QueuedAt
  <2> QED BY <1>1, <1>6, <2>1 DEF QueueInv
<1>15. QueueInv'
  BY <1>4, <1>12, <1>13, <1>14 DEF QueueInv, Ordered
<1> QED BY <1>11, <1>15

LEMMA NextOrder == OInv /\ [Next]_vars => OInv'
<1> SUFFICES ASSUME OInv, [Next]_vars PROVE OInv'
  OBVIOUS
<1>1. IInv'
  BY NextInv DEF OInv
<1> USE DEF hubVars, queues, peers, delivered
<1>2. DOMAIN handler = Conns /\ DOMAIN said = Conns
  BY DEF OInv, IInv, TypeOK
<1>3. ASSUME NEW c \in Conns, NEW m \in Asks[c], Dial(c, m) PROVE EmittedInv' /\ QueueInv'
  BY <1>2, <1>3, QuietOrder DEF Dial, Goto
<1>4. ASSUME NEW c \in Conns, Read(c) PROVE EmittedInv' /\ QueueInv'
  BY <1>2, <1>4, QuietOrder DEF Read, Goto
<1>5. ASSUME NEW c \in Conns, ReadError(c) \/ ReadMalformed(c) PROVE EmittedInv' /\ QueueInv'
  BY <1>2, <1>5, QuietOrder DEF ReadError, ReadMalformed, Goto
<1>6. ASSUME NEW c \in Conns, PeerLeaves(c) PROVE EmittedInv' /\ QueueInv'
  BY <1>6, QuietOrder DEF PeerLeaves
<1>7. ASSUME NEW u \in Users, StorePM(u) \/ SendPM(u) PROVE EmittedInv' /\ QueueInv'
  BY <1>7, QuietOrder DEF StorePM, SendPM
<1>8. ASSUME DeliverPrivate \/ Stop PROVE EmittedInv' /\ QueueInv'
  BY <1>8, QuietOrder DEF DeliverPrivate, Stop
<1>9. ASSUME UNCHANGED vars PROVE EmittedInv' /\ QueueInv'
  BY <1>9, QuietOrder DEF vars
<1>10. EmittedInv' /\ QueueInv'
  BY <1>3, <1>4, <1>5, <1>6, <1>7, <1>8, <1>9, SendOrder, RegisterOrder, UnregisterOrder,
     QueueAnnouncementOrder, DeliverOrder DEF Next, HandlerStep
<1> QED BY <1>1, <1>10 DEF OInv

\* In a room's conversation each connection speaks in its own order, is
\* announced at most once each way and is silent after it has left, for any
\* number of speakers and any capacity (hub.go's one channel for messages and
\* announcements).
THEOREM InOrderAlways == Spec => []SpokenInOrder
<1>1. Init => OInv
  <2> SUFFICES ASSUME Init PROVE OInv
    OBVIOUS
  <2>1. IInv
    BY InitInv
  <2>2. QueuedAt = {} /\ (\A m \in Rooms : SpokenAt(m) = {}) /\ hub = "select"
    BY DEF Init, QueuedAt, SpokenAt
  <2> QED BY <2>1, <2>2 DEF OInv, EmittedInv, QueueInv, Emitted
<1>2. OInv /\ [Next]_vars => OInv'
  BY NextOrder
<1>3. OInv => SpokenInOrder
  BY InOrder DEF OInv
<1> QED BY <1>1, <1>2, <1>3, PTL DEF Spec

-----------------------------------------------------------------------------
(* What a peer has been sent of its room's conversation.                   *)

\* The part of conversation s that begins after its first k messages is b.
IsStretch(b, s, k) ==
    /\ k \in Nat /\ k + Len(b) <= Len(s)
    /\ \A i \in 1 .. Len(b) : b[i] = s[k + i]

\* A connection that is served has been sent the end of the conversation, and
\* everyone has been sent a stretch of it.
SentInv ==
    \A c \in Conns :
        /\ handler[c] \in {"idle", "registering"} => inbox[c] = <<>>
        /\ handler[c] = "done" => wire[c] = "closed"
        /\ handler[c] \in Registered =>
            \E k \in Nat : IsStretch(inbox[c], spoken[room[c]], k)
        /\ handler[c] = "done" =>
            \E k \in Nat : IsStretch(inbox[c], spoken[room[c]], k)
        /\ handler[c] \in Registered /\ wire[c] = "open" /\ hub # "stopped" =>
            IsStretch(inbox[c], spoken[room[c]], Len(spoken[room[c]]) - Len(inbox[c]))

SInv == IInv /\ SentInv

LEMMA SentType ==
    ASSUME IInv
    PROVE  /\ \A c \in Conns : inbox[c] \in Seq(Messages) /\ Len(inbox[c]) \in Nat
           /\ \A m \in Rooms : spoken[m] \in Seq(Messages) /\ Len(spoken[m]) \in Nat
           /\ \A c \in Conns : handler[c] # "idle" => room[c] \in Rooms
<1>1. TypeOK /\ DialledInv
  BY DEF IInv
<1>2. \A c \in Conns : inbox[c] \in Seq({message \in Messages : message.room = room[c]})
  BY <1>1 DEF TypeOK
<1>3. ASSUME NEW m, NEW q \in Seq({message \in Messages : message.room = m})
      PROVE  q \in Seq(Messages)
  OBVIOUS
<1>4. \A c \in Conns : inbox[c] \in Seq(Messages)
  BY <1>2, <1>3
<1> QED BY <1>1, <1>4 DEF TypeOK, DialledInv

\* A stretch stays one when the conversation goes on.
LEMMA StretchStays ==
    ASSUME NEW s \in Seq(Messages), NEW e \in Messages, NEW b, Len(b) \in Nat,
           NEW k \in Nat, IsStretch(b, s, k)
    PROVE  IsStretch(b, Append(s, e), k)
BY AppendProperties DEF IsStretch

LEMMA StretchGrows ==
    ASSUME NEW s \in Seq(Messages), NEW e \in Messages, NEW b \in Seq(Messages),
           IsStretch(b, s, Len(s) - Len(b))
    PROVE  IsStretch(Append(b, e), Append(s, e), Len(Append(s, e)) - Len(Append(b, e)))
<1> DEFINE n == Len(b)
           k == Len(s) - Len(b)
           t == Append(s, e)
           d == Append(b, e)
<1>1. n \in Nat /\ Len(s) \in Nat /\ k \in Nat /\ k + n = Len(s)
  BY DEF IsStretch
<1>2. \A i \in 1 .. n : b[i] = s[k + i]
  BY DEF IsStretch
<1>3. /\ Len(t) = Len(s) + 1 /\ t[Len(s) + 1] = e
      /\ \A i \in 1 .. Len(s) : t[i] = s[i]
  BY AppendProperties
<1>4. /\ Len(d) = n + 1 /\ d[n + 1] = e
      /\ \A i \in 1 .. n : d[i] = b[i]
  BY AppendProperties
<1> HIDE DEF n, k, t, d
<1>5. Len(t) - Len(d) = k
  BY <1>1, <1>3, <1>4
<1>6. \A i \in 1 .. Len(d) : d[i] = t[k + i]
  <2> SUFFICES ASSUME NEW i \in 1 .. Len(d) PROVE d[i] = t[k + i]
    OBVIOUS
  <2>1. CASE i = n + 1
    BY <1>1, <1>3, <1>4, <2>1
  <2>2. CASE i \in 1 .. n
    <3>1. k + i \in 1 .. Len(s)
      BY <1>1, <2>2
    <3> QED BY <1>2, <1>3, <1>4, <2>2, <3>1
  <2> QED BY <1>1, <1>4, <2>1, <2>2
<1>7. IsStretch(d, t, k)
  BY <1>1, <1>3, <1>4, <1>6 DEF IsStretch
<1>8. IsStretch(d, t, Len(t) - Len(d))
  BY <1>5, <1>7
<1> QED BY <1>8 DEF t, d

LEMMA EmptyIsStretch ==
    ASSUME NEW s \in Seq(Messages)
    PROVE  IsStretch(<<>>, s, Len(s) - Len(<<>>))
BY DEF IsStretch

LEMMA NoGaps == SInv => GapFree
<1> SUFFICES ASSUME SInv, NEW c \in Conns, inbox[c] # <<>>
             PROVE  \E i \in 1 .. Len(spoken[room[c]]) - Len(inbox[c]) + 1 :
                        inbox[c] = SubSeq(spoken[room[c]], i, i + Len(inbox[c]) - 1)
  BY DEF GapFree
<1>1. IInv /\ SentInv /\ TypeOK
  BY DEF SInv, IInv
<1>2. handler[c] \in Registered \cup {"done"}
  BY <1>1 DEF SentInv, TypeOK, Registered
<1>3. PICK k \in Nat : IsStretch(inbox[c], spoken[room[c]], k)
  BY <1>1, <1>2 DEF SentInv
<1>4. inbox[c] \in Seq(Messages) /\ spoken[room[c]] \in Seq(Messages)
  BY <1>1, <1>2, SentType DEF Registered
<1>5. PICK b \in Seq(Messages), s \in Seq(Messages) : b = inbox[c] /\ s = spoken[room[c]]
  BY <1>4
<1>6. /\ Len(b) \in Nat /\ Len(s) \in Nat /\ k + Len(b) <= Len(s)
      /\ \A i \in 1 .. Len(b) : b[i] = s[k + i]
  BY <1>3, <1>5 DEF IsStretch
<1>7. b = SubSeq(s, k + 1, k + Len(b))
  <2> DEFINE t == SubSeq(s, k + 1, k + Len(b))
  <2>1. /\ t \in Seq(Messages)
        /\ Len(t) = IF k + 1 <= k + Len(b) THEN k + Len(b) - (k + 1) + 1 ELSE 0
        /\ \A i \in 1 .. k + Len(b) - (k + 1) + 1 : t[i] = s[k + 1 + i - 1]
    <3>1. \A i \in k + 1 .. k + Len(b) : s[i] \in Messages
      BY <1>6
    <3> QED BY <1>6, <3>1, SubSeqProperties
  <2>2. Len(t) = Len(b) /\ \A i \in 1 .. Len(b) : t[i] = b[i]
    BY <1>6, <2>1
  <2> HIDE DEF t
  <2>3. t = b
    BY <1>6, <2>1, <2>2, SeqEqual
  <2> QED BY <2>3 DEF t
<1>8. k + 1 \in 1 .. Len(s) - Len(b) + 1 /\ k + 1 + Len(b) - 1 = k + Len(b)
  BY <1>6
<1> QED BY <1>5, <1>7, <1>8

\* Steps that send nothing, and register and close as the handlers do.
LEMMA QuietSent ==
    ASSUME SInv, UNCHANGED <<inbox, spoken>>, hub' = hub \/ hub = "select",
           \A c \in Conns :
              /\ handler[c] # "idle" => room'[c] = room[c]
              /\ wire'[c] = wire[c] \/ wire'[c] # "open"
              /\ wire[c] = "closed" => wire'[c] = "closed"
              /\ \/ handler'[c] = handler[c]
                 \/ handler[c] = "idle" /\ handler'[c] = "registering"
                 \/ handler[c] = "registering" /\ handler'[c] \in Registered
                 \/ handler[c] \in Registered /\ handler'[c] \in Registered
                 \/ handler[c] \in Registered /\ handler'[c] = "done" /\ wire'[c] = "closed"
    PROVE  SentInv'
<1>1. IInv /\ SentInv /\ TypeOK
  BY DEF SInv, IInv
<1> SUFFICES ASSUME NEW c \in Conns
             PROVE  /\ handler'[c] \in {"idle", "registering"} => inbox[c] = <<>>
                    /\ handler'[c] = "done" => wire'[c] = "closed"
                    /\ handler'[c] \in Registered \cup {"done"} =>
                        \E k \in Nat : IsStretch(inbox[c], spoken[room'[c]], k)
                    /\ handler'[c] \in Registered /\ wire'[c] = "open" /\ hub' # "stopped" =>
                        IsStretch(inbox[c], spoken[room'[c]],
                                  Len(spoken[room'[c]]) - Len(inbox[c]))
  BY DEF SentInv
<1>2. CASE handler[c] \in {"idle", "registering"}
  <2>1. inbox[c] = <<>>
    BY <1>1, <1>2 DEF SentInv
  <2>2. CASE handler'[c] \in {"idle", "registering"}
    BY <2>1, <2>2 DEF Registered
  <2>3. CASE handler'[c] \notin {"idle", "registering"}
    <3>1. handler[c] = "registering" /\ handler'[c] \in Registered /\ room'[c] = room[c]
      BY <1>2, <2>3 DEF Registered
    <3>2. spoken[room[c]] \in Seq(Messages) /\ Len(spoken[room[c]]) \in Nat
      BY <1>1, <3>1, SentType
    <3>3. IsStretch(<<>>, spoken[room[c]], Len(spoken[room[c]]) - Len(<<>>))
      BY <3>2, EmptyIsStretch
    <3>4. Len(spoken[room[c]]) - Len(<<>>) \in Nat
      BY <3>2
    <3> QED BY <2>1, <3>1, <3>3, <3>4 DEF Registered
  <2> QED BY <2>2, <2>3
<1>3. CASE handler[c] \notin {"idle", "registering"}
  <2>1. handler[c] \in Registered \cup {"done"} /\ room'[c] = room[c]
    BY <1>1, <1>3 DEF TypeOK, Registered
  <2>2. \E k \in Nat : IsStretch(inbox[c], spoken[room[c]], k)
    BY <1>1, <2>1 DEF SentInv
  <2>3. handler'[c] = "done" => wire'[c] = "closed"
    BY <1>1, <1>3 DEF SentInv, Registered
  <2>4. handler'[c] \notin {"idle", "registering"}
    BY <2>1 DEF Registered
  <2>5. handler'[c] \in Registered /\ wire'[c] = "open" /\ hub' # "stopped" =>
          IsStretch(inbox[c], spoken[room[c]], Len(spoken[room[c]]) - Len(inbox[c]))
    BY <1>1, <2>1 DEF SentInv, Registered
  <2> QED BY <2>1, <2>2, <2>3, <2>4, <2>5
<1> QED BY <1>2, <1>3

LEMMA DeliverSent ==
    ASSUME SInv, Deliver
    PROVE  SentInv'
<1>1. IInv /\ SentInv /\ TypeOK /\ MapInv /\ ConnectedAreServed
  BY DEF SInv, IInv
<1>2. broadcast \in Seq(Messages) /\ broadcast # <<>> /\ spoken \in [Rooms -> Seq(Messages)]
  BY <1>1 DEF Deliver, TypeOK
<1>3. PICK e \in Messages : e = Head(broadcast)
  BY <1>2, HeadTailProperties
<1>4. e.room \in Rooms
  BY DEF Messages
<1>5. /\ hub = "select" /\ hub' = hub
      /\ spoken' = [spoken EXCEPT ![e.room] = Append(spoken[e.room], e)]
      /\ \A c \in Conns : inbox'[c] = IF c \in members[e.room] /\ wire[c] = "open"
                                        THEN Append(inbox[c], e) ELSE inbox[c]
      /\ UNCHANGED <<handler, room>>
  BY <1>3 DEF Deliver
<1>6. \A c \in Conns : wire'[c] = wire[c] \/ wire'[c] = "closed"
  BY DEF Deliver, Remove
<1>7. \A m \in Rooms : spoken'[m] = IF m = e.room THEN Append(spoken[m], e) ELSE spoken[m]
  BY <1>2, <1>4, <1>5
<1> SUFFICES ASSUME NEW c \in Conns
             PROVE  /\ handler[c] \in {"idle", "registering"} => inbox'[c] = <<>>
                    /\ handler[c] = "done" => wire'[c] = "closed"
                    /\ handler[c] \in Registered \cup {"done"} =>
                        \E k \in Nat : IsStretch(inbox'[c], spoken'[room[c]], k)
                    /\ handler[c] \in Registered /\ wire'[c] = "open" =>
                        IsStretch(inbox'[c], spoken'[room[c]],
                                  Len(spoken'[room[c]]) - Len(inbox'[c]))
  BY <1>5 DEF SentInv
<1>8. handler[c] = "done" => wire'[c] = "closed"
  BY <1>1, <1>6 DEF SentInv
<1>9. CASE handler[c] \in {"idle", "registering"}
  <2>1. c \notin members[e.room]
    BY <1>1, <1>4, <1>9 DEF MapInv, Registered
  <2> QED BY <1>1, <1>5, <1>9, <2>1 DEF SentInv, Registered
<1>10. CASE handler[c] \notin {"idle", "registering"}
  <2>1. handler[c] \in Registered \cup {"done"}
    BY <1>1, <1>10 DEF TypeOK, Registered
  <2>2. /\ room[c] \in Rooms /\ spoken[room[c]] \in Seq(Messages)
        /\ Len(spoken[room[c]]) \in Nat /\ inbox[c] \in Seq(Messages) /\ Len(inbox[c]) \in Nat
    BY <1>1, <1>10, SentType
  <2>3. PICK k \in Nat : IsStretch(inbox[c], spoken[room[c]], k)
    BY <1>1, <2>1 DEF SentInv
  <2>4. c \in members[e.room] => room[c] = e.room
    BY <1>1, <1>4, <1>5 DEF ConnectedAreServed, RoomsUsers, RoomUsers
  <2>5. handler[c] \in Registered /\ wire[c] = "open" => c \in members[room[c]]
    BY <1>1, <1>5, <2>2 DEF ConnectedAreServed, RoomsUsers, RoomUsers, Registered
  <2>6. CASE c \in members[e.room] /\ wire[c] = "open"
    <3>1. handler[c] \in Registered
      BY <1>1, <2>1, <2>6 DEF SentInv
    <3>2. IsStretch(inbox[c], spoken[room[c]], Len(spoken[room[c]]) - Len(inbox[c]))
      BY <1>1, <1>5, <2>6, <3>1 DEF SentInv
    <3>3. inbox'[c] = Append(inbox[c], e) /\ spoken'[room[c]] = Append(spoken[room[c]], e)
      BY <1>5, <1>7, <2>2, <2>4, <2>6
    <3>4. IsStretch(inbox'[c], spoken'[room[c]], Len(spoken'[room[c]]) - Len(inbox'[c]))
      BY <2>2, <3>2, <3>3, StretchGrows
    <3>5. Len(spoken'[room[c]]) - Len(inbox'[c]) \in Nat
      BY <3>4 DEF IsStretch
    <3> QED BY <1>8, <1>10, <3>4, <3>5
  <2>7. CASE ~(c \in members[e.room] /\ wire[c] = "open")
    <3>1. inbox'[c] = inbox[c]
      BY <1>5, <2>7
    <3>2. spoken'[room[c]] = spoken[room[c]] \/ spoken'[room[c]] = Append(spoken[room[c]], e)
      BY <1>7, <2>2
    <3>3. IsStretch(inbox[c], spoken'[room[c]], k)
      BY <2>2, <2>3, <3>2, StretchStays
    <3>4. ASSUME handler[c] \in Registered, wire'[c] = "open"
          PROVE  IsStretch(inbox'[c], spoken'[room[c]],
                           Len(spoken'[room[c]]) - Len(inbox'[c]))
      <4>1. wire[c] = "open" /\ room[c] # e.room
        BY <1>6, <2>5, <2>7, <3>4
      <4>2. spoken'[room[c]] = spoken[room[c]]
        BY <1>7, <2>2, <4>1
      <4> QED BY <1>1, <1>5, <3>1, <3>4, <4>1, <4>2 DEF SentInv
    <3> QED BY <1>8, <1>10, <3>1, <3>3, <3>4
  <2> QED BY <2>6, <2>7
<1> QED BY <1>9, <1>10

LEMMA NextSent == SInv /\ [Next]_vars => SInv'
<1> SUFFICES ASSUME SInv, [Next]_vars PROVE SInv'
  OBVIOUS
<1>1. IInv' /\ IInv /\ TypeOK
  BY NextInv DEF SInv, IInv
<1>2. DOMAIN handler = Conns /\ DOMAIN room = Conns /\ DOMAIN wire = Conns
  BY <1>1 DEF TypeOK
<1> USE DEF hubVars, queues, peers, delivered
<1>3. ASSUME NEW c \in Conns, NEW m \in Asks[c], Dial(c, m) PROVE SentInv'
  BY <1>2, <1>3, QuietSent DEF Dial, Goto
<1>4. ASSUME NEW c \in Conns, Read(c) PROVE SentInv'
  BY <1>2, <1>4, QuietSent DEF Read, Goto, Registered
<1>5. ASSUME NEW c \in Conns, Send(c) PROVE SentInv'
  BY <1>2, <1>5, QuietSent DEF Send, Goto, Registered
<1>6. ASSUME NEW c \in Conns, ReadError(c) \/ ReadMalformed(c) PROVE SentInv'
  BY <1>2, <1>6, QuietSent DEF ReadError, ReadMalformed, Goto, Registered
<1>7. ASSUME NEW c \in Conns, PeerLeaves(c) PROVE SentInv'
  BY <1>2, <1>7, QuietSent DEF PeerLeaves
<1>8. ASSUME NEW u \in Users, StorePM(u) \/ SendPM(u) PROVE SentInv'
  BY <1>8, QuietSent DEF StorePM, SendPM
<1>9. ASSUME QueueAnnouncement PROVE SentInv'
  <2>1. \A c \in Conns : handler[c] \in Registered /\ wire[c] = "open" =>
          IsStretch(inbox[c], spoken[room[c]], Len(spoken[room[c]]) - Len(inbox[c]))
    BY <1>9 DEF SInv, SentInv, QueueAnnouncement
  <2> QED BY <1>9, <2>1 DEF SInv, SentInv, QueueAnnouncement
<1>10. ASSUME NEW c \in Conns, Register(c) PROVE SentInv'
  BY <1>2, <1>10, QuietSent DEF Register, Goto, Registered
<1>11. ASSUME NEW c \in Conns, Unregister(c) PROVE SentInv'
  BY <1>2, <1>11, QuietSent DEF Unregister, Goto, Registered
<1>12. ASSUME DeliverPrivate PROVE SentInv'
  BY <1>12, QuietSent DEF DeliverPrivate, Remove
<1>13. ASSUME Stop PROVE SentInv'
  BY <1>13, QuietSent DEF Stop
<1>14. ASSUME UNCHANGED vars PROVE SentInv'
  BY <1>14, QuietSent DEF vars
<1>15. SentInv'
  BY <1>3, <1>4, <1>5, <1>6, <1>7, <1>8, <1>9, <1>10, <1>11, <1>12, <1>13, <1>14,
     DeliverSent DEF Next, HandlerStep
<1> QED BY <1>1, <1>15 DEF SInv

\* What a peer has been sent is a stretch of its room's conversation: nothing
\* is missing, repeated or out of order (broadcastMessage in hub.go), however
\* many peers come, go and fail while messages wait.
THEOREM NoGapsAlways == Spec => []GapFree
<1>1. Init => SInv
  <2> SUFFICES ASSUME Init PROVE SInv
    OBVIOUS
  <2>1. IInv
    BY InitInv
  <2> QED BY <2>1 DEF Init, SInv, SentInv, Registered
<1>2. SInv /\ [Next]_vars => SInv'
  BY NextSent
<1>3. SInv => GapFree
  BY NoGaps
<1> QED BY <1>1, <1>2, <1>3, PTL DEF Spec

-----------------------------------------------------------------------------
(* The rooms implement RoomFeed: nothing a connection says is lost.        *)

\* Whatever a registered connection has said and queued is in its room's
\* conversation or on its way there, and so is the news that it has joined.
CompleteInv ==
    /\ \A m \in Rooms : \A i \in SpokenAt(m) : spoken[m][i].room = m
    /\ \A e \in Messages : Emitted(e) =>
        /\ e.room = room[e.from]
        /\ e.kind = "said" => e.n \in 1 .. MaxSaid[e.from]
        /\ e.kind # "said" => e.n = 0
    /\ \A c \in Conns :
        /\ said[c] <= MaxSaid[c]
        /\ handler[c] \in {"idle", "registering"} => said[c] = 0
        /\ handler[c] = "sending" => said[c] > 0
        /\ handler[c] \in Registered \cup {"done"} => Emitted(Message(c, "joined", 0))
        /\ \A k \in 1 .. said[c] :
            k < said[c] \/ handler[c] # "sending" => Emitted(Message(c, "said", k))

FInv == OInv /\ CompleteInv

\* What each step adds to the messages that are spoken, queued or about to be.
LEMMA QuietEmits ==
    ASSUME UNCHANGED <<broadcast, spoken, announcing>>,
           hub' = hub \/ (hub = "select" /\ hub' = "stopped")
    PROVE  \A a \in Messages : Emitted(a)' <=> Emitted(a)
BY DEF Emitted, SpokenAt, QueuedAt

LEMMA AnnounceEmits ==
    ASSUME NEW e \in Messages, UNCHANGED <<broadcast, spoken>>,
           hub = "select", hub' = "announce", announcing' = e
    PROVE  \A a \in Messages : Emitted(a)' <=> Emitted(a) \/ a = e
BY DEF Emitted, SpokenAt, QueuedAt

LEMMA QueueEmits ==
    ASSUME IInv, NEW e \in Messages, UNCHANGED spoken, broadcast' = Append(broadcast, e),
           \/ UNCHANGED <<hub, announcing>>
           \/ hub = "announce" /\ announcing = e /\ hub' = "select"
    PROVE  \A a \in Messages : Emitted(a)' <=> Emitted(a) \/ a = e
<1>1. broadcast \in Seq(Messages)
  BY DEF IInv, TypeOK
<1>2. /\ Len(broadcast) \in Nat /\ Len(broadcast') = Len(broadcast) + 1
      /\ \A i \in 1 .. Len(broadcast) : broadcast'[i] = broadcast[i]
      /\ broadcast'[Len(broadcast) + 1] = e
  BY <1>1, AppendProperties
<1>3. \A a : (\E i \in QueuedAt' : a = broadcast'[i]) <=>
             (\E i \in QueuedAt : a = broadcast[i]) \/ a = e
  <2>1. QueuedAt' = QueuedAt \cup {Len(broadcast) + 1}
    BY <1>2 DEF QueuedAt
  <2> QED BY <1>2, <2>1 DEF QueuedAt
<1>4. \A a : (\E m \in Rooms : \E i \in SpokenAt(m)' : a = spoken'[m][i]) <=>
             (\E m \in Rooms : \E i \in SpokenAt(m) : a = spoken[m][i])
  BY DEF SpokenAt
<1> SUFFICES ASSUME NEW a \in Messages PROVE Emitted(a)' <=> Emitted(a) \/ a = e
  OBVIOUS
<1>5. Emitted(a)' <=> Emitted(a) \/ a = e
  <2>1. Emitted(a) <=> (\E m \in Rooms : \E i \in SpokenAt(m) : a = spoken[m][i]) \/
          (\E i \in QueuedAt : a = broadcast[i]) \/ (hub = "announce" /\ a = announcing)
    BY DEF Emitted
  <2>2. Emitted(a)' <=> (\E m \in Rooms : \E i \in SpokenAt(m)' : a = spoken'[m][i]) \/
          (\E i \in QueuedAt' : a = broadcast'[i]) \/ (hub' = "announce" /\ a = announcing')
    BY DEF Emitted
  <2>3. (hub' = "announce" /\ a = announcing') \/ a = e <=>
        (hub = "announce" /\ a = announcing) \/ a = e
    <3>1. CASE UNCHANGED <<hub, announcing>>
      BY <3>1
    <3>2. CASE hub = "announce" /\ announcing = e /\ hub' = "select"
      <4>1. ~(hub' = "announce")
        BY <3>2
      <4> QED BY <3>2, <4>1
    <3> QED BY <3>1, <3>2
  <2>4. (\E i \in QueuedAt' : a = broadcast'[i]) <=> (\E i \in QueuedAt : a = broadcast[i]) \/ a = e
    BY <1>3
  <2>5. (\E m \in Rooms : \E i \in SpokenAt(m)' : a = spoken'[m][i]) <=>
        (\E m \in Rooms : \E i \in SpokenAt(m) : a = spoken[m][i])
    BY <1>4
  <2> QED BY <2>1, <2>2, <2>3, <2>4, <2>5, Zenon
<1> QED BY <1>5

LEMMA DeliverEmits ==
    ASSUME IInv, Deliver
    PROVE  /\ \A a \in Messages : Emitted(a)' <=> Emitted(a)
           /\ \A m \in Rooms : \A i \in SpokenAt(m)' :
                \/ i \in SpokenAt(m) /\ spoken'[m][i] = spoken[m][i]
                \/ m = Head(broadcast).room /\ spoken'[m][i] = Head(broadcast)
<1>1. TypeOK
  BY DEF IInv
<1>2. broadcast \in Seq(Messages) /\ broadcast # <<>> /\ spoken \in [Rooms -> Seq(Messages)]
  BY <1>1 DEF Deliver, TypeOK
<1>3. PICK e \in Messages : e = Head(broadcast)
  BY <1>2, HeadTailProperties
<1>4. /\ broadcast' = Tail(broadcast) /\ hub = "select" /\ hub' = hub /\ e.room \in Rooms
      /\ spoken' = [spoken EXCEPT ![e.room] = Append(spoken[e.room], e)]
  BY <1>3 DEF Deliver, Messages
<1>5. /\ Len(broadcast) \in Nat \ {0} /\ Len(broadcast') = Len(broadcast) - 1
      /\ e = broadcast[1]
      /\ \A i \in 1 .. Len(broadcast') : broadcast'[i] = broadcast[i + 1]
  BY <1>2, <1>3, <1>4, HeadTailProperties, EmptySeq
<1>6. ASSUME NEW m \in Rooms
      PROVE  /\ m # e.room => spoken'[m] = spoken[m] /\ SpokenAt(m)' = SpokenAt(m)
             /\ m = e.room => /\ SpokenAt(m)' = SpokenAt(m) \cup {Len(spoken[m]) + 1}
                              /\ spoken'[m][Len(spoken[m]) + 1] = e
             /\ \A i \in SpokenAt(m) : spoken'[m][i] = spoken[m][i]
  <2>1. spoken[m] \in Seq(Messages) /\ Len(spoken[m]) \in Nat
    BY <1>2
  <2>2. CASE m = e.room
    <3>1. spoken'[m] = Append(spoken[m], e)
      BY <1>2, <1>4, <2>2
    <3>2. /\ Len(spoken'[m]) = Len(spoken[m]) + 1
          /\ \A i \in 1 .. Len(spoken[m]) : spoken'[m][i] = spoken[m][i]
          /\ spoken'[m][Len(spoken[m]) + 1] = e
      BY <2>1, <3>1, AppendProperties
    <3> QED BY <2>1, <2>2, <3>2 DEF SpokenAt
  <2>3. CASE m # e.room
    BY <1>2, <1>4, <2>3 DEF SpokenAt
  <2> QED BY <2>2, <2>3
<1>7. \A a : (\E m \in Rooms : \E i \in SpokenAt(m)' : a = spoken'[m][i]) <=>
             (\E m \in Rooms : \E i \in SpokenAt(m) : a = spoken[m][i]) \/ a = e
  <2> SUFFICES ASSUME NEW a
               PROVE  (\E m \in Rooms : \E i \in SpokenAt(m)' : a = spoken'[m][i]) <=>
                      (\E m \in Rooms : \E i \in SpokenAt(m) : a = spoken[m][i]) \/ a = e
    OBVIOUS
  <2>1. ASSUME NEW m \in Rooms, NEW i \in SpokenAt(m)', a = spoken'[m][i]
        PROVE  (\E r \in Rooms : \E j \in SpokenAt(r) : a = spoken[r][j]) \/ a = e
    BY <1>6, <2>1
  <2>2. ASSUME NEW m \in Rooms, NEW i \in SpokenAt(m), a = spoken[m][i]
        PROVE  \E r \in Rooms : \E j \in SpokenAt(r)' : a = spoken'[r][j]
    <3>1. i \in SpokenAt(m)' /\ spoken'[m][i] = a
      BY <1>6, <2>2
    <3> QED BY <3>1
  <2>3. ASSUME a = e PROVE \E m \in Rooms : \E i \in SpokenAt(m)' : a = spoken'[m][i]
    <3>1. PICK m \in Rooms : m = e.room
      BY <1>4
    <3>2. PICK k : k = Len(spoken[m]) + 1
      OBVIOUS
    <3>3. k \in SpokenAt(m)' /\ spoken'[m][k] = a
      BY <1>6, <2>3, <3>1, <3>2
    <3> QED BY <3>3
  <2> QED BY <2>1, <2>2, <2>3
<1>8. \A a : (\E i \in QueuedAt : a = broadcast[i]) <=>
             (\E i \in QueuedAt' : a = broadcast'[i]) \/ a = e
  <2> SUFFICES ASSUME NEW a
               PROVE  (\E i \in QueuedAt : a = broadcast[i]) <=>
                      (\E i \in QueuedAt' : a = broadcast'[i]) \/ a = e
    OBVIOUS
  <2>1. ASSUME NEW i \in QueuedAt, a = broadcast[i]
        PROVE  (\E j \in QueuedAt' : a = broadcast'[j]) \/ a = e
    <3>1. CASE i = 1
      BY <1>5, <2>1, <3>1
    <3>2. CASE i # 1
      <4>1. i - 1 \in QueuedAt' /\ (i - 1) + 1 = i
        BY <1>5, <3>2 DEF QueuedAt
      <4>2. broadcast'[i - 1] = broadcast[i]
        BY <1>5, <4>1 DEF QueuedAt
      <4> QED BY <2>1, <4>1, <4>2
    <3> QED BY <3>1, <3>2
  <2>2. ASSUME NEW i \in QueuedAt', a = broadcast'[i]
        PROVE  \E j \in QueuedAt : a = broadcast[j]
    <3>1. i + 1 \in QueuedAt /\ broadcast'[i] = broadcast[i + 1]
      BY <1>5 DEF QueuedAt
    <3> QED BY <2>2, <3>1
  <2>3. 1 \in QueuedAt
    BY <1>5 DEF QueuedAt
  <2> QED BY <1>5, <2>1, <2>2, <2>3
<1>9. \A a \in Messages : Emitted(a)' <=> Emitted(a)
  <2> SUFFICES ASSUME NEW a \in Messages PROVE Emitted(a)' <=> Emitted(a)
    OBVIOUS
  <2>1. Emitted(a) <=> (\E m \in Rooms : \E i \in SpokenAt(m) : a = spoken[m][i]) \/
          (\E i \in QueuedAt : a = broadcast[i]) \/ (hub = "announce" /\ a = announcing)
    BY DEF Emitted
  <2>2. Emitted(a)' <=> (\E m \in Rooms : \E i \in SpokenAt(m)' : a = spoken'[m][i]) \/
          (\E i \in QueuedAt' : a = broadcast'[i]) \/ (hub' = "announce" /\ a = announcing')
    BY DEF Emitted
  <2>3. ~(hub' = "announce") /\ ~(hub = "announce")
    BY <1>4
  <2> QED BY <1>7, <1>8, <2>1, <2>2, <2>3
<1>10. \A m \in Rooms : \A i \in SpokenAt(m)' :
          \/ i \in SpokenAt(m) /\ spoken'[m][i] = spoken[m][i]
          \/ m = e.room /\ spoken'[m][i] = e
  BY <1>6
<1> QED BY <1>3, <1>9, <1>10

\* A step that adds the messages new: what a handler says or the hub announces
\* of it is among them.
LEMMA CompleteStep ==
    ASSUME FInv, NEW new \in SUBSET Messages,
           \A a \in Messages : Emitted(a)' <=> Emitted(a) \/ a \in new,
           \A m \in Rooms : \A i \in SpokenAt(m)' : spoken'[m][i].room = m,
           \A c \in Conns : handler[c] # "idle" => room'[c] = room[c],
           \A a \in new :
              /\ handler[a.from] # "idle" /\ a.room = room[a.from]
              /\ a.kind = "said" => a.n \in 1 .. MaxSaid[a.from]
              /\ a.kind # "said" => a.n = 0,
           \A c \in Conns :
              \/ handler'[c] = handler[c] /\ said'[c] = said[c]
              \/ handler[c] = "idle" /\ handler'[c] = "registering" /\ said'[c] = said[c]
              \/ /\ handler[c] = "registering" /\ handler'[c] = "reading" /\ said'[c] = said[c]
                 /\ Message(c, "joined", 0) \in new
              \/ /\ handler[c] = "reading" /\ handler'[c] = "sending"
                 /\ said[c] < MaxSaid[c] /\ said'[c] = said[c] + 1
              \/ /\ handler[c] = "sending" /\ handler'[c] = "reading" /\ said'[c] = said[c]
                 /\ Message(c, "said", said[c]) \in new
              \/ /\ handler[c] = "reading" /\ handler'[c] = "unregistering"
                 /\ said'[c] = said[c]
              \/ /\ handler[c] = "unregistering" /\ handler'[c] = "done"
                 /\ said'[c] = said[c]
    PROVE  CompleteInv'
<1>1. IInv /\ TypeOK /\ EmittedInv /\ CompleteInv
  BY DEF FInv, OInv, IInv
<1>2. \A e \in Messages : e.from \in Conns
  BY DEF Messages
<1>3. ASSUME NEW e \in Messages, Emitted(e)'
      PROVE  /\ e.room = room'[e.from]
             /\ e.kind = "said" => e.n \in 1 .. MaxSaid[e.from]
             /\ e.kind # "said" => e.n = 0
  <2>1. CASE Emitted(e)
    <3>1. handler[e.from] # "idle"
      BY <1>1, <2>1 DEF EmittedInv, Registered
    <3> QED BY <1>1, <1>2, <2>1, <3>1 DEF CompleteInv
  <2>2. CASE e \in new
    BY <1>2, <2>2
  <2> QED BY <1>3, <2>1, <2>2
<1>4. ASSUME NEW c \in Conns
      PROVE  /\ said'[c] <= MaxSaid[c]
             /\ handler'[c] \in {"idle", "registering"} => said'[c] = 0
             /\ handler'[c] = "sending" => said'[c] > 0
             /\ handler'[c] \in Registered \cup {"done"} => Emitted(Message(c, "joined", 0))'
             /\ \A k \in 1 .. said'[c] :
                 k < said'[c] \/ handler'[c] # "sending" => Emitted(Message(c, "said", k))'
  <2>1. said[c] \in Nat /\ MaxSaid[c] \in Nat
    BY <1>1, BoundsAssumption DEF TypeOK
  <2>2. /\ said[c] <= MaxSaid[c]
        /\ handler[c] \in {"idle", "registering"} => said[c] = 0
        /\ handler[c] = "sending" => said[c] > 0
        /\ handler[c] \in Registered \cup {"done"} => Emitted(Message(c, "joined", 0))
        /\ \A k \in 1 .. said[c] :
            k < said[c] \/ handler[c] # "sending" => Emitted(Message(c, "said", k))
    BY <1>1 DEF CompleteInv
  <2>3. /\ said'[c] <= MaxSaid[c]
        /\ handler'[c] \in {"idle", "registering"} => said'[c] = 0
        /\ handler'[c] = "sending" => said'[c] > 0
    BY <2>1, <2>2 DEF Registered
  <2>4. handler'[c] \in Registered \cup {"done"} => handler[c] # "idle"
    BY <2>1 DEF Registered
  <2>5. ASSUME NEW kind \in {"joined", "said", "left"}, NEW n \in Nat, handler[c] # "idle",
               Emitted(Message(c, kind, n)) \/ Message(c, kind, n) \in new
        PROVE  Emitted(Message(c, kind, n))'
    <3>1. PICK a \in Messages : a = Message(c, kind, n)
      BY <1>1, <2>5, MessageType
    <3>2. Message(c, kind, n)' = a
      BY <2>5, <3>1 DEF Message
    <3>3. Emitted(a)'
      BY <2>5, <3>1
    <3> QED BY <3>2, <3>3 DEF Emitted
  <2>6. handler'[c] \in Registered \cup {"done"} => Emitted(Message(c, "joined", 0))'
    <3> SUFFICES ASSUME handler'[c] \in Registered \cup {"done"}
                 PROVE  Emitted(Message(c, "joined", 0))'
      OBVIOUS
    <3>1. Emitted(Message(c, "joined", 0)) \/ Message(c, "joined", 0) \in new
      BY <2>2, <2>4 DEF Registered
    <3> QED BY <2>4, <2>5, <3>1
  <2>7. ASSUME NEW k \in 1 .. said'[c], k < said'[c] \/ handler'[c] # "sending"
        PROVE  Emitted(Message(c, "said", k))'
    <3>1. k \in 1 .. said[c] /\ k \in Nat /\ handler[c] # "idle"
      BY <2>1, <2>2, <2>7
    <3>2. Emitted(Message(c, "said", k)) \/ Message(c, "said", k) \in new
      <4>1. CASE k < said[c] \/ handler[c] # "sending"
        BY <2>2, <3>1, <4>1
      <4>2. CASE ~(k < said[c]) /\ handler[c] = "sending"
        <5>1. k = said[c]
          BY <2>1, <3>1, <4>2
        <5>2. handler'[c] = "reading" /\ Message(c, "said", said[c]) \in new
          BY <2>1, <2>7, <4>2, <5>1
        <5> QED BY <5>1, <5>2
      <4> QED BY <4>1, <4>2
    <3> QED BY <2>5, <3>1, <3>2
  <2> QED BY <2>3, <2>6, <2>7
<1> QED BY <1>3, <1>4 DEF CompleteInv

\* Steps that add no message.
LEMMA QuietComplete ==
    ASSUME FInv, UNCHANGED <<broadcast, spoken, announcing>>,
           hub' = hub \/ (hub = "select" /\ hub' = "stopped"),
           \A c \in Conns :
              /\ handler[c] # "idle" => room'[c] = room[c]
              /\ \/ handler'[c] = handler[c] /\ said'[c] = said[c]
                 \/ handler[c] = "idle" /\ handler'[c] = "registering" /\ said'[c] = said[c]
                 \/ /\ handler[c] = "reading" /\ handler'[c] = "sending"
                    /\ said[c] < MaxSaid[c] /\ said'[c] = said[c] + 1
                 \/ /\ handler[c] = "reading" /\ handler'[c] = "unregistering"
                    /\ said'[c] = said[c]
                 \/ /\ handler[c] = "unregistering" /\ handler'[c] = "done"
                    /\ said'[c] = said[c]
    PROVE  CompleteInv'
<1>1. \A a \in Messages : Emitted(a)' <=> Emitted(a) \/ a \in {}
  BY QuietEmits
<1>2. \A m \in Rooms : \A i \in SpokenAt(m)' : spoken'[m][i].room = m
  BY DEF FInv, CompleteInv, SpokenAt
<1>3. {} \in SUBSET Messages
  OBVIOUS
<1> QED BY <1>1, <1>2, <1>3, CompleteStep

LEMMA NextComplete == FInv /\ [Next]_vars => FInv'
<1> SUFFICES ASSUME FInv, [Next]_vars PROVE FInv'
  OBVIOUS
<1>1. OInv' /\ IInv /\ TypeOK /\ CompleteInv
  BY NextOrder DEF FInv, OInv, IInv
<1>2. /\ handler \in [Conns -> {"idle", "registering", "reading", "sending",
                                "unregistering", "done"}]
      /\ said \in [Conns -> Nat] /\ DOMAIN room = Conns
      /\ \A m \in Rooms : \A i \in SpokenAt(m) : spoken[m][i].room = m
      /\ \A c \in Conns : said[c] <= MaxSaid[c] /\ (handler[c] = "sending" => said[c] > 0)
  BY <1>1 DEF TypeOK, CompleteInv
<1>3. {} \in SUBSET Messages /\ \A e \in Messages : {e} \in SUBSET Messages
  OBVIOUS
<1> USE DEF hubVars, queues, peers, delivered
<1>5. ASSUME NEW c \in Conns, NEW m \in Asks[c], Dial(c, m) PROVE CompleteInv'
  BY <1>2, <1>5, QuietComplete DEF Dial, Goto
<1>6. ASSUME NEW c \in Conns, Read(c) PROVE CompleteInv'
  BY <1>2, <1>6, QuietComplete DEF Read, Goto
<1>7. ASSUME NEW c \in Conns, ReadError(c) \/ ReadMalformed(c) PROVE CompleteInv'
  BY <1>2, <1>7, QuietComplete DEF ReadError, ReadMalformed, Goto
<1>8. ASSUME NEW c \in Conns, PeerLeaves(c) PROVE CompleteInv'
  BY <1>8, QuietComplete DEF PeerLeaves
<1>9. ASSUME NEW u \in Users, StorePM(u) \/ SendPM(u) PROVE CompleteInv'
  BY <1>9, QuietComplete DEF StorePM, SendPM
<1>10. ASSUME DeliverPrivate \/ Stop PROVE CompleteInv'
  BY <1>10, QuietComplete DEF DeliverPrivate, Stop
<1>11. ASSUME UNCHANGED vars PROVE CompleteInv'
  BY <1>11, QuietComplete DEF vars
<1>12. ASSUME NEW c \in Conns, Send(c) PROVE CompleteInv'
  <2>1. PICK e \in Messages : e = Message(c, "said", said[c])
    BY <1>1, <1>2, <1>12, MessageType DEF Send
  <2>2. /\ broadcast' = Append(broadcast, e) /\ UNCHANGED <<hub, announcing, spoken, said, room>>
        /\ handler[c] = "sending" /\ handler' = [handler EXCEPT ![c] = "reading"]
    BY <1>12, <2>1 DEF Send, Goto
  <2>3. \A a \in Messages : Emitted(a)' <=> Emitted(a) \/ a \in {e}
    BY <1>1, <2>2, QueueEmits
  <2>4. e.room = room[c] /\ e.from = c /\ e.kind = "said" /\ e.n = said[c]
    BY <2>1 DEF Message
  <2>5. \A m \in Rooms : \A i \in SpokenAt(m)' : spoken'[m][i].room = m
    BY <1>2, <2>2 DEF SpokenAt
  <2>6. said[c] \in 1 .. MaxSaid[c]
    BY <1>2, <2>2, BoundsAssumption
  <2>7. \A d \in Conns : \/ d # c /\ handler'[d] = handler[d]
                         \/ d = c /\ handler'[d] = "reading"
    BY <1>2, <2>2
  <2>8. Message(c, "said", said[c]) \in {e}
    BY <2>1
  <2> QED BY <1>3, <2>2, <2>3, <2>4, <2>5, <2>6, <2>7, <2>8, CompleteStep
<1>13. ASSUME QueueAnnouncement PROVE CompleteInv'
  <2>1. PICK e \in Messages : e = announcing
    BY <1>1, <1>13, EmittedType DEF QueueAnnouncement
  <2>2. /\ broadcast' = Append(broadcast, e) /\ UNCHANGED <<handler, spoken, said, room>>
        /\ hub = "announce" /\ hub' = "select"
    BY <1>13, <2>1 DEF QueueAnnouncement
  <2>3. \A a \in Messages : Emitted(a)' <=> Emitted(a) \/ a = e
    BY <1>1, <2>1, <2>2, QueueEmits
  <2>4. Emitted(e)
    BY <2>1, <2>2 DEF Emitted
  <2>5. \A a \in Messages : Emitted(a)' <=> Emitted(a) \/ a \in {}
    BY <2>3, <2>4
  <2>6. \A m \in Rooms : \A i \in SpokenAt(m)' : spoken'[m][i].room = m
    BY <1>2, <2>2 DEF SpokenAt
  <2> QED BY <1>3, <2>2, <2>5, <2>6, CompleteStep
<1>14. ASSUME NEW c \in Conns, Register(c) PROVE CompleteInv'
  <2>1. PICK e \in Messages : e = Message(c, "joined", 0)
    BY <1>1, <1>14, MessageType DEF Register
  <2>2. /\ hub = "select" /\ hub' = "announce" /\ announcing' = e
        /\ UNCHANGED <<broadcast, spoken, said, room>>
        /\ handler[c] = "registering" /\ handler' = [handler EXCEPT ![c] = "reading"]
    BY <1>14, <2>1 DEF Register, Announce, Goto
  <2>3. \A a \in Messages : Emitted(a)' <=> Emitted(a) \/ a \in {e}
    BY <2>2, AnnounceEmits
  <2>4. e.room = room[c] /\ e.from = c /\ e.kind = "joined" /\ e.n = 0
    BY <2>1 DEF Message
  <2>5. \A m \in Rooms : \A i \in SpokenAt(m)' : spoken'[m][i].room = m
    BY <1>2, <2>2 DEF SpokenAt
  <2>6. \A d \in Conns : \/ d # c /\ handler'[d] = handler[d]
                         \/ d = c /\ handler'[d] = "reading"
    BY <1>2, <2>2
  <2>7. Message(c, "joined", 0) \in {e}
    BY <2>1
  <2> QED BY <1>3, <2>2, <2>3, <2>4, <2>5, <2>6, <2>7, CompleteStep
<1>15. ASSUME NEW c \in Conns, Unregister(c) PROVE CompleteInv'
  <2>1. /\ hub = "select" /\ UNCHANGED <<broadcast, spoken, said, room>>
        /\ handler[c] = "unregistering" /\ handler' = [handler EXCEPT ![c] = "done"]
    BY <1>15 DEF Unregister, Goto
  <2>2. CASE c \notin clients
    BY <1>2, <1>15, <2>1, <2>2, QuietComplete DEF Unregister
  <2>3. CASE c \in clients
    <3>1. PICK e \in Messages : e = Message(c, "left", 0)
      BY <1>1, <2>1, MessageType
    <3>2. hub' = "announce" /\ announcing' = e
      BY <1>15, <2>3, <3>1 DEF Unregister, Announce
    <3>3. \A a \in Messages : Emitted(a)' <=> Emitted(a) \/ a \in {e}
      BY <2>1, <3>2, AnnounceEmits
    <3>4. e.room = room[c] /\ e.from = c /\ e.kind = "left" /\ e.n = 0
      BY <3>1 DEF Message
    <3>5. \A m \in Rooms : \A i \in SpokenAt(m)' : spoken'[m][i].room = m
      BY <1>2, <2>1 DEF SpokenAt
    <3>6. \A d \in Conns : \/ d # c /\ handler'[d] = handler[d]
                           \/ d = c /\ handler'[d] = "done"
      BY <1>2, <2>1
    <3> QED BY <1>3, <2>1, <3>3, <3>4, <3>5, <3>6, CompleteStep
  <2> QED BY <2>2, <2>3
<1>16. ASSUME Deliver PROVE CompleteInv'
  <2>1. \A a \in Messages : Emitted(a)' <=> Emitted(a) \/ a \in {}
    BY <1>1, <1>16, DeliverEmits
  <2>2. \A m \in Rooms : \A i \in SpokenAt(m)' : spoken'[m][i].room = m
    BY <1>1, <1>2, <1>16, DeliverEmits
  <2>3. UNCHANGED <<handler, said, room>>
    BY <1>16 DEF Deliver
  <2> QED BY <1>3, <2>1, <2>2, <2>3, CompleteStep
<1>17. CompleteInv'
  BY <1>5, <1>6, <1>7, <1>8, <1>9, <1>10, <1>11, <1>12, <1>13, <1>14, <1>15, <1>16
     DEF Next, HandlerStep
<1> QED BY <1>1, <1>17 DEF FInv

LEMMA InitComplete == Init => FInv
<1> SUFFICES ASSUME Init PROVE FInv
  OBVIOUS
<1>1. IInv
  BY InitInv
<1>2. QueuedAt = {} /\ (\A m \in Rooms : SpokenAt(m) = {}) /\ hub = "select"
  BY DEF Init, QueuedAt, SpokenAt
<1>3. OInv
  BY <1>1, <1>2 DEF OInv, EmittedInv, QueueInv, Emitted
<1>4. CompleteInv
  BY <1>2, BoundsAssumption DEF Init, CompleteInv, Emitted, Registered
<1> QED BY <1>3, <1>4 DEF FInv

\* Of what is first in the channel, everything that comes before it has been
\* spoken, and nothing that may not come before it has.
LEMMA HeadMayBeAdded ==
    ASSUME FInv, hub = "select", broadcast # <<>>, NEW e \in Messages, e = Head(broadcast)
    PROVE  Feed!MayAdd(spoken[e.room], e)
<1>1. IInv /\ TypeOK /\ EmittedInv /\ QueueInv /\ CompleteInv
  BY DEF FInv, OInv, IInv
<1>2. broadcast \in Seq(Messages) /\ spoken \in [Rooms -> Seq(Messages)]
  BY <1>1 DEF TypeOK
<1>3. Len(broadcast) \in Nat \ {0} /\ e = broadcast[1]
  BY <1>2, HeadTailProperties, EmptySeq
<1>4. PICK c \in Conns, m \in Rooms : c = e.from /\ m = e.room
  BY DEF Messages
<1>5. 1 \in QueuedAt /\ Emitted(e)
  BY <1>3 DEF QueuedAt, Emitted
<1>6. /\ m = room[c]
      /\ e.kind = "said" => e.n \in 1 .. MaxSaid[c]
      /\ handler[c] \in Registered \cup {"done"}
      /\ e.kind = "said" =>
          e.n <= said[c] /\ (handler[c] = "sending" => e.n < said[c])
  BY <1>1, <1>4, <1>5 DEF CompleteInv, EmittedInv
<1>7. /\ said[c] \in Nat /\ Len(spoken[m]) \in Nat
      /\ \A i \in SpokenAt(m) : spoken[m][i] \in Messages
  BY <1>1, EmittedType DEF TypeOK
<1>8. ASSUME NEW i \in SpokenAt(m), spoken[m][i].from = c
      PROVE  /\ spoken[m][i].kind # "left"
             /\ e.kind = "joined" => spoken[m][i].kind = "said"
             /\ spoken[m][i].kind = "said" /\ e.kind = "said" => spoken[m][i].n < e.n
  BY <1>1, <1>3, <1>4, <1>5, <1>8 DEF QueueInv, Ordered
\* What its sender emits before it waits neither behind it nor at the hub.
<1>9. ASSUME NEW a \in Messages, Emitted(a), a.from = c, a # e,
             \/ e.kind = "left"
             \/ e.kind = "said" /\ a.kind = "said" /\ a.n < e.n
      PROVE  \E i \in SpokenAt(m) : a = spoken[m][i]
  <2>1. a.room = m
    BY <1>1, <1>6, <1>9 DEF CompleteInv
  <2>2. ~ \E i \in QueuedAt : a = broadcast[i]
    <3> SUFFICES ASSUME NEW i \in QueuedAt, a = broadcast[i] PROVE FALSE
      OBVIOUS
    <3>1. 1 < i
      BY <1>3, <1>9 DEF QueuedAt
    <3>2. Ordered(e, a)
      BY <1>1, <1>3, <1>5, <3>1 DEF QueueInv
    <3>3. a.n \in Nat /\ e.n \in Nat
      BY DEF Messages
    <3> QED BY <1>4, <1>9, <3>2, <3>3 DEF Ordered
  <2>3. \E r \in Rooms : \E i \in SpokenAt(r) : a = spoken[r][i]
    BY <1>9, <2>2 DEF Emitted
  <2>4. PICK r \in Rooms : \E i \in SpokenAt(r) : a = spoken[r][i]
    BY <2>3
  <2>5. r = m
    BY <1>1, <2>1, <2>4 DEF CompleteInv
  <2> QED BY <2>4, <2>5
<1>10. ~ Feed!Has(spoken[m], c, "left")
  BY <1>8 DEF Feed!Has, SpokenAt
<1>11. e.kind = "joined" => ~ Feed!Has(spoken[m], c, "joined")
  BY <1>8 DEF Feed!Has, SpokenAt
<1>12. e.kind = "left" => Feed!Has(spoken[m], c, "joined")
  <2> SUFFICES ASSUME e.kind = "left" PROVE Feed!Has(spoken[m], c, "joined")
    OBVIOUS
  <2>1. PICK a \in Messages : a = Message(c, "joined", 0)
    BY <1>1, <1>6, MessageType DEF Registered
  <2>2. a.from = c /\ a.kind = "joined" /\ Emitted(a)
    BY <1>1, <1>6, <2>1 DEF CompleteInv, Message
  <2>3. \E i \in SpokenAt(m) : a = spoken[m][i]
    BY <1>9, <2>2
  <2> QED BY <2>2, <2>3 DEF Feed!Has, SpokenAt
<1>13. e.kind = "said" => Feed!Said(spoken[m], c) = 1 .. e.n - 1
  <2> SUFFICES ASSUME e.kind = "said" PROVE Feed!Said(spoken[m], c) = 1 .. e.n - 1
    OBVIOUS
  <2>1. e.n \in Nat
    BY DEF Messages
  <2>2. ASSUME NEW i \in SpokenAt(m), spoken[m][i].from = c, spoken[m][i].kind = "said"
        PROVE  spoken[m][i].n \in 1 .. e.n - 1
    <3>1. PICK a \in Messages : a = spoken[m][i]
      BY <1>7
    <3>2. Emitted(a)
      BY <3>1 DEF Emitted
    <3>3. a.n \in 1 .. MaxSaid[c] /\ MaxSaid[c] \in Nat /\ a.n < e.n
      BY <1>1, <1>8, <2>2, <3>1, <3>2, BoundsAssumption DEF CompleteInv
    <3> QED BY <2>1, <3>1, <3>3
  <2>3. ASSUME NEW k \in 1 .. e.n - 1
        PROVE  \E i \in SpokenAt(m) :
                  spoken[m][i].from = c /\ spoken[m][i].kind = "said" /\ k = spoken[m][i].n
    <3>1. k \in 1 .. said[c] /\ (k < said[c] \/ handler[c] # "sending") /\ k \in Nat /\ k < e.n
      BY <1>6, <1>7, <2>1
    <3>2. PICK a \in Messages : a = Message(c, "said", k)
      BY <1>1, <1>6, <3>1, MessageType DEF Registered
    <3>3. a.from = c /\ a.kind = "said" /\ a.n = k /\ Emitted(a)
      BY <1>1, <3>1, <3>2 DEF CompleteInv, Message
    <3>4. a # e
      BY <2>1, <3>1, <3>3
    <3>5. PICK i \in SpokenAt(m) : a = spoken[m][i]
      BY <1>9, <3>1, <3>3, <3>4
    <3> QED BY <3>3, <3>5
  <2> QED BY <2>2, <2>3 DEF Feed!Said, SpokenAt
<1> QED BY <1>4, <1>10, <1>11, <1>12, <1>13 DEF Feed!MayAdd

\* Steps that speak nothing: some peers are no longer served, nobody else moves.
LEMMA PartStep ==
    ASSUME UNCHANGED <<spoken, inbox>>,
           \A c \in Conns :
              /\ PlaceOf(c)' = PlaceOf(c) \/ (PlaceOf(c) = "inside" /\ PlaceOf(c)' = "gone")
              /\ PlaceOf(c) # "outside" => room'[c] = room[c]
    PROVE  Feed!Next
<1>1. PICK leaving \in SUBSET Conns :
        leaving = {c \in Conns : PlaceOf(c) = "inside" /\ PlaceOf(c)' = "gone"}
  <2>1. {c \in Conns : PlaceOf(c) = "inside" /\ PlaceOf(c)' = "gone"} \in SUBSET Conns
    OBVIOUS
  <2> QED BY <2>1
<1>2. \A c \in leaving : [d \in Conns |-> PlaceOf(d)][c] = "inside"
  BY <1>1
<1>3. [c \in Conns |-> PlaceOf(c)]' =
        [c \in Conns |-> IF c \in leaving THEN "gone" ELSE [d \in Conns |-> PlaceOf(d)][c]]
  BY <1>1
<1>4. [c \in Conns |-> IF PlaceOf(c) = "outside" THEN None ELSE room[c]]' =
        [c \in Conns |-> IF PlaceOf(c) = "outside" THEN None ELSE room[c]]
  OBVIOUS
<1>5. Feed!Part(leaving)
  BY <1>2, <1>3, <1>4 DEF Feed!Part
<1> QED BY <1>5 DEF Feed!Next

LEMMA RegisterEnters ==
    ASSUME IInv, NEW c \in Conns, Register(c)
    PROVE  Feed!Next
<1>1. TypeOK /\ MapInv /\ DialledInv
  BY DEF IInv
<1>2. /\ handler[c] = "registering" /\ room[c] \in Rooms
      /\ handler' = [handler EXCEPT ![c] = "reading"]
      /\ clients' = clients \cup {c} /\ UNCHANGED <<room, wire, spoken, inbox>>
  BY <1>1 DEF Register, Goto, DialledInv, peers, delivered
<1>3. PICK m \in Rooms : m = room[c]
  BY <1>2
<1>4. /\ PlaceOf(c) = "outside" /\ PlaceOf(c)' \in {"inside", "gone"}
      /\ \A d \in Conns : d # c => PlaceOf(d)' = PlaceOf(d)
  BY <1>1, <1>2 DEF PlaceOf, TypeOK
<1>5. PICK to \in {"inside", "gone"} : to = PlaceOf(c)'
  BY <1>4
<1>6. [d \in Conns |-> PlaceOf(d)]' = [[d \in Conns |-> PlaceOf(d)] EXCEPT ![c] = to]
  BY <1>4, <1>5
<1>7. [d \in Conns |-> IF PlaceOf(d) = "outside" THEN None ELSE room[d]]' =
        [[d \in Conns |-> IF PlaceOf(d) = "outside" THEN None ELSE room[d]] EXCEPT ![c] = m]
  BY <1>2, <1>3, <1>4
<1>8. [d \in Conns |-> PlaceOf(d)][c] = "outside"
  BY <1>4
<1>9. Feed!Enter(c, m)
  BY <1>2, <1>6, <1>7, <1>8 DEF Feed!Enter
<1> QED BY <1>9 DEF Feed!Next

LEMMA DeliverAdds ==
    ASSUME FInv, SInv, Deliver
    PROVE  Feed!Next
<1>1. IInv /\ TypeOK /\ EmittedInv /\ CompleteInv /\ MapInv /\ ConnectedAreServed /\ SentInv
  BY DEF FInv, SInv, OInv, IInv
<1>2. broadcast \in Seq(Messages) /\ broadcast # <<>> /\ hub = "select"
  BY <1>1 DEF Deliver, TypeOK
<1>3. PICK e \in Messages : e = Head(broadcast)
  BY <1>2, HeadTailProperties
<1>4. PICK c \in Conns, m \in Rooms, kind \in {"joined", "said", "left"}, n \in Nat :
        e = [room |-> m, from |-> c, kind |-> kind, n |-> n]
  BY DEF Messages
<1>5. e.from = c /\ e.room = m /\ e.kind = kind /\ e.n = n
  BY <1>4
<1>6. Emitted(e)
  <2>1. Len(broadcast) \in Nat \ {0} /\ e = broadcast[1]
    BY <1>2, <1>3, HeadTailProperties, EmptySeq
  <2> QED BY <2>1 DEF Emitted, QueuedAt
<1>7. /\ m = room[c] /\ handler[c] \in Registered \cup {"done"}
      /\ kind = "said" => n \in 1 .. MaxSaid[c]
      /\ kind # "said" => n = 0
  BY <1>1, <1>5, <1>6 DEF CompleteInv, EmittedInv
<1>8. Feed!MayAdd(spoken[m], e)
  BY <1>2, <1>3, <1>5, HeadMayBeAdded
<1>9. /\ spoken' = [spoken EXCEPT ![m] = Append(spoken[m], e)]
      /\ inbox' = [d \in Conns |-> IF d \in members[m] /\ wire[d] = "open"
                                     THEN Append(inbox[d], e) ELSE inbox[d]]
      /\ UNCHANGED <<handler, room>>
  BY <1>3, <1>5 DEF Deliver
\* Those the hub lists in the room and reaches are those inside it.
<1>10. \A d \in Conns : d \in members[m] /\ wire[d] = "open" <=>
            PlaceOf(d) = "inside" /\ room[d] = m
  <2> SUFFICES ASSUME NEW d \in Conns
               PROVE  d \in members[m] /\ wire[d] = "open" <=>
                      PlaceOf(d) = "inside" /\ room[d] = m
    OBVIOUS
  <2>1. ASSUME d \in members[m], wire[d] = "open" PROVE PlaceOf(d) = "inside" /\ room[d] = m
    <3>1. handler[d] \in Registered
      BY <1>1, <2>1 DEF MapInv, SentInv
    <3>2. d \in clients /\ room[d] = m
      BY <1>1, <1>2, <2>1, <3>1 DEF ConnectedAreServed, RoomsUsers, RoomUsers, Registered
    <3> QED BY <2>1, <3>1, <3>2 DEF PlaceOf, Registered
  <2>2. ASSUME PlaceOf(d) = "inside", room[d] = m PROVE d \in members[m] /\ wire[d] = "open"
    <3>1. d \in clients /\ wire[d] = "open"
      BY <2>2 DEF PlaceOf
    <3> QED BY <1>1, <1>2, <2>2, <3>1 DEF ConnectedAreServed, RoomsUsers, RoomUsers
  <2> QED BY <2>1, <2>2
<1>11. PICK failed \in Failures(members[m]) : Remove(failed)
  BY <1>3, <1>5 DEF Deliver
<1>12. \A d \in Conns : PlaceOf(d)' = PlaceOf(d)
  <2>1. /\ \A d \in failed : wire[d] # "open"
        /\ \A d \in Conns : wire'[d] = IF d \in failed THEN "closed" ELSE wire[d]
        /\ clients' = clients \ failed
    BY <1>11 DEF Failures, Remove
  <2> QED BY <1>9, <2>1 DEF PlaceOf
<1> DEFINE place == [d \in Conns |-> PlaceOf(d)]
           at == [d \in Conns |-> IF PlaceOf(d) = "outside" THEN None ELSE room[d]]
<1>13. place' = place /\ at' = at
  BY <1>9, <1>12
<1>14. at[c] = m /\ place[c] # "outside"
  BY <1>7 DEF PlaceOf, Registered
<1>15. inbox' = [d \in Conns |-> IF place[d] = "inside" /\ at[d] = m
                                   THEN Append(inbox[d], e) ELSE inbox[d]]
  BY <1>9, <1>10
<1>16. Feed!Add(e)
  BY <1>5, <1>8, <1>9, <1>13, <1>14, <1>15 DEF Feed!Add
<1> QED BY <1>4, <1>7, <1>16 DEF Feed!Next

LEMMA NextFeeds == FInv /\ SInv /\ [Next]_vars => [Feed!Next]_(Feed!vars)
<1> SUFFICES ASSUME FInv, SInv, [Next]_vars PROVE [Feed!Next]_(Feed!vars)
  OBVIOUS
<1>1. IInv /\ TypeOK
  BY DEF SInv, IInv
<1>2. DOMAIN handler = Conns /\ DOMAIN room = Conns /\ DOMAIN wire = Conns
  BY <1>1 DEF TypeOK
<1> USE DEF hubVars, queues, peers, delivered
<1>3. ASSUME NEW c \in Conns, NEW m \in Asks[c], Dial(c, m) PROVE Feed!Next
  BY <1>2, <1>3, PartStep DEF Dial, Goto, PlaceOf
<1>4. ASSUME NEW c \in Conns, Read(c) PROVE Feed!Next
  BY <1>2, <1>4, PartStep DEF Read, Goto, PlaceOf
<1>5. ASSUME NEW c \in Conns, Send(c) PROVE Feed!Next
  BY <1>2, <1>5, PartStep DEF Send, Goto, PlaceOf
<1>6. ASSUME NEW c \in Conns, ReadError(c) \/ ReadMalformed(c) PROVE Feed!Next
  BY <1>2, <1>6, PartStep DEF ReadError, ReadMalformed, Goto, PlaceOf
<1>7. ASSUME NEW c \in Conns, PeerLeaves(c) PROVE Feed!Next
  BY <1>2, <1>7, PartStep DEF PeerLeaves, PlaceOf
<1>8. ASSUME NEW u \in Users, StorePM(u) \/ SendPM(u) PROVE Feed!Next
  BY <1>8, PartStep DEF StorePM, SendPM, PlaceOf
<1>9. ASSUME QueueAnnouncement PROVE Feed!Next
  BY <1>9, PartStep DEF QueueAnnouncement, PlaceOf
<1>10. ASSUME NEW c \in Conns, Unregister(c) PROVE Feed!Next
  BY <1>2, <1>10, PartStep DEF Unregister, Goto, PlaceOf
<1>11. ASSUME DeliverPrivate PROVE Feed!Next
  <2>1. PICK failed : /\ \A c \in failed : wire[c] # "open"
                      /\ \A c \in Conns : wire'[c] = IF c \in failed THEN "closed" ELSE wire[c]
                      /\ clients' = clients \ failed
    BY <1>11 DEF DeliverPrivate, Failures, Remove
  <2>2. UNCHANGED <<handler, room, spoken, inbox>>
    BY <1>11 DEF DeliverPrivate
  <2>3. \A c \in Conns : PlaceOf(c)' = PlaceOf(c)
    BY <2>1, <2>2 DEF PlaceOf
  <2> QED BY <2>2, <2>3, PartStep
<1>12. ASSUME Stop PROVE Feed!Next
  <2>1. UNCHANGED <<handler, room, spoken, inbox>> /\ clients' = {}
    BY <1>12 DEF Stop
  <2> QED BY <2>1, PartStep DEF PlaceOf
<1>13. ASSUME UNCHANGED vars PROVE Feed!Next
  BY <1>13, PartStep DEF vars, PlaceOf
<1> QED BY <1>1, <1>3, <1>4, <1>5, <1>6, <1>7, <1>8, <1>9, <1>10, <1>11, <1>12, <1>13,
        RegisterEnters, DeliverAdds DEF Next, HandlerStep

\* The hub, its channels and its handlers implement RoomFeed, for any number of
\* connections and rooms and any capacity: every conversation has all that each
\* of its peers says, in order and once, and whoever is served is sent each
\* message of its room as it is added, and nothing else (hub.go and handler.go).
THEOREM FeedImplemented == Spec => ImplementsFeed
<1>1. Init => Feed!Init
  BY DEF Init, Feed!Init, PlaceOf
<1>2. Init => FInv /\ SInv
  <2>1. Init => SInv
    <3> SUFFICES ASSUME Init PROVE SInv
      OBVIOUS
    <3> QED BY InitInv DEF Init, SInv, SentInv, Registered
  <2> QED BY <2>1, InitComplete
<1>3. FInv /\ SInv /\ [Next]_vars => (FInv /\ SInv)'
  BY NextComplete, NextSent
<1>4. FInv /\ SInv /\ [Next]_vars => [Feed!Next]_(Feed!vars)
  BY NextFeeds
<1> QED BY <1>1, <1>2, <1>3, <1>4, PTL DEF Spec, ImplementsFeed, Feed!Spec
=============================================================================
