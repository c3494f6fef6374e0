--------------------------- MODULE ChatViewProofs ---------------------------
(***************************************************************************)
(* Proofs about what a reader of the chat sees, for any number of rooms,   *)
(* connections and messages and channels of any capacity.                  *)
(*                                                                         *)
(* A message keeps the room it was said in wherever it waits, a connection *)
(* keeps the room it was made for, and a message that is not on the screen *)
(* of its room yet is somewhere on its way there.                          *)
(***************************************************************************)
EXTENDS ChatView, SequenceTheorems, FiniteSetTheorems, TLAPS

States == {"none", "dialed", "joined", "broken", "closed"}
Conns == [room: Rooms \cup {None}, state: States, wire: Seq(SaidMessages)]
Stages == [message: SaidMessages, stage: {"save", "broadcast"}]
Parcels == [gen: Gens, msg: SaidMessages]
Lines == [msg: SaidMessages, in: Rooms]

Carried(s) == {s[i] : i \in DOMAIN s}

ClientShapes ==
    /\ pc \in {"start", "greet", "loop", "switch", "history", "lost", "ended"}
    /\ readerGen \in 0 .. MaxGen /\ roomID \in Rooms \cup {None}
    /\ reader \in [Gens -> {"none", "reading", "push", "fail", "ended"}]
    /\ hold \in [Gens -> SaidMessages \cup {None}]
    /\ \A g \in Gens : hold[g] = None <=> reader[g] # "push"
    /\ messages \in Seq(Parcels) /\ Len(messages) <= Messages
    /\ errors \in Seq(Gens) /\ Len(errors) <= Errors
    /\ shown \subseteq Lines
    /\ complete \in [Gens -> BOOLEAN]
    /\ beyond \in [Gens -> SUBSET (1 .. MaxSaid)]

ServerShapes ==
    /\ conn \in [Gens -> Conns]
    /\ saying \in [Speakers -> Stages \cup {None}]
    /\ history \in [Rooms -> SUBSET (1 .. MaxSaid)]
    /\ said \in 0 .. MaxSaid
    /\ unsaved \subseteq 1 .. MaxSaid
    /\ heard \subseteq SaidMessages

Alive == {"dialed", "joined", "broken"}

\* The connection in use is one to the room on the screen and is never closed.
InUse ==
    /\ pc = "start" <=> readerGen = 0
    /\ pc = "greet" => readerGen = 1 /\ reader[1] = "none"
    /\ pc = "switch" => readerGen < MaxGen
    /\ readerGen # 0 =>
        /\ roomID \in Rooms /\ conn[readerGen].room = roomID
        /\ conn[readerGen].state \in Alive

Entered(g) == pc = "switch" /\ g = readerGen + 1

\* Later connections have not been made, but for the one a switch has dialled.
Ahead ==
    \A g \in Gens : g > readerGen =>
        /\ reader[g] = "none" /\ ~complete[g]
        /\ Entered(g) => conn[g].room \in Rooms /\ conn[g].state \in Alive
        /\ ~Entered(g) => conn[g] = NoConn

\* Whatever a connection has delivered, is about to deliver or will deliver was
\* said in the room it was made for.
OwnRooms ==
    /\ \A g \in Gens : \A m \in Carried(conn[g].wire) : m.room = conn[g].room
    /\ \A g \in Gens : reader[g] = "push" => hold[g].room = conn[g].room
    /\ \A p \in Carried(messages) : p.gen <= readerGen /\ p.msg.room = conn[p.gen].room

Over(g) == conn[g].state \in {"broken", "closed"}

\* A reader fails only on a connection that is over.
EndsAreReal ==
    /\ \A g \in Gens : reader[g] \in {"fail", "ended"} => Over(g)
    /\ \A g \in Carried(errors) : Over(g)

Kept(m) == m.n \in history[m.room] \cup unsaved

\* A message is saved, or its insert has failed, before it is broadcast.
SavedFirst ==
    /\ \A x \in Speakers :
        saying[x] # None /\ saying[x].stage = "broadcast" => Kept(saying[x].message)
    /\ \A m \in heard : Kept(m)

OnScreen(m) == \E x \in shown : x.msg = m

OnItsWay(m, g) ==
    \/ m \in Carried(conn[g].wire)
    \/ reader[g] = "push" /\ hold[g] = m
    \/ [gen |-> g, msg |-> m] \in Carried(messages)

Followed(g) == complete[g] /\ conn[g].state = "joined"

Settled == {"joined", "broken", "closed"}

\* The history was read after registration only on a connection that has been registered.
ReadAfter == \A g \in Gens : complete[g] => conn[g].state \in Settled

\* On a connection that was registered before the history was read, no saved message
\* of the room that was broadcast is missing, but for what that history left out.
NothingMissing ==
    readerGen # 0 /\ Followed(readerGen) =>
        \A m \in heard :
            m.room = roomID /\ m.n \notin unsaved \cup beyond[readerGen]
                => OnScreen(m) \/ OnItsWay(m, readerGen)

ViewInv ==
    /\ ClientShapes /\ ServerShapes /\ InUse /\ Ahead /\ OwnRooms /\ EndsAreReal
    /\ SavedFirst /\ ReadAfter /\ NothingMissing
    /\ ScreenShowsItsRoom /\ LossIsReal

-----------------------------------------------------------------------------
(* Facts about the operators.                                              *)

LEMMA EmptyCarries == Carried(<<>>) = {}
BY DEF Carried

LEMMA TailCarries ==
    ASSUME NEW S, NEW s \in Seq(S), s # <<>>
    PROVE  /\ Head(s) \in S /\ Tail(s) \in Seq(S) /\ Len(Tail(s)) = Len(s) - 1
           /\ Carried(s) = {Head(s)} \cup Carried(Tail(s))
<1>1. /\ Head(s) \in S /\ Tail(s) \in Seq(S) /\ Len(Tail(s)) = Len(s) - 1
      /\ Len(s) \in Nat /\ Len(s) > 0 /\ Head(s) = s[1]
      /\ \A i \in 1 .. Len(Tail(s)) : Tail(s)[i] = s[i + 1]
      /\ DOMAIN s = 1 .. Len(s) /\ DOMAIN Tail(s) = 1 .. Len(Tail(s))
  BY HeadTailProperties, LenProperties, EmptySeq
<1>2. ASSUME NEW i \in DOMAIN s PROVE s[i] \in {Head(s)} \cup Carried(Tail(s))
  <2>1. CASE i = 1
    BY <1>1, <2>1
  <2>2. CASE i # 1
    <3>1. i - 1 \in DOMAIN Tail(s) /\ Tail(s)[i - 1] = s[i]
      BY <1>1, <2>2
    <3> QED BY <3>1 DEF Carried
  <2> QED BY <2>1, <2>2
<1>3. ASSUME NEW i \in DOMAIN Tail(s) PROVE Tail(s)[i] \in Carried(s)
  <2>1. i + 1 \in DOMAIN s /\ Tail(s)[i] = s[i + 1]
    BY <1>1
  <2> QED BY <2>1 DEF Carried
<1>4. Head(s) \in Carried(s)
  BY <1>1 DEF Carried
<1>5. Carried(s) = {Head(s)} \cup Carried(Tail(s))
  BY <1>2, <1>3, <1>4 DEF Carried
<1> QED BY <1>1, <1>5

LEMMA AppendCarries ==
    ASSUME NEW S, NEW s \in Seq(S), NEW a \in S
    PROVE  /\ Append(s, a) \in Seq(S) /\ Len(Append(s, a)) = Len(s) + 1
           /\ Carried(Append(s, a)) = Carried(s) \cup {a}
<1>1. /\ Append(s, a) \in Seq(S) /\ Len(Append(s, a)) = Len(s) + 1 /\ Len(s) \in Nat
      /\ \A i \in 1 .. Len(s) : Append(s, a)[i] = s[i]
      /\ Append(s, a)[Len(s) + 1] = a
      /\ DOMAIN s = 1 .. Len(s) /\ DOMAIN Append(s, a) = 1 .. Len(s) + 1
  BY AppendProperties, LenProperties
<1>2. ASSUME NEW i \in DOMAIN Append(s, a) PROVE Append(s, a)[i] \in Carried(s) \cup {a}
  BY <1>1 DEF Carried
<1>3. ASSUME NEW i \in DOMAIN s PROVE s[i] \in Carried(Append(s, a))
  <2>1. i \in DOMAIN Append(s, a) /\ Append(s, a)[i] = s[i]
    BY <1>1
  <2> QED BY <2>1 DEF Carried
<1>4. a \in Carried(Append(s, a))
  <2>1. Len(s) + 1 \in DOMAIN Append(s, a)
    BY <1>1
  <2> QED BY <1>1, <2>1 DEF Carried
<1>5. Carried(Append(s, a)) = Carried(s) \cup {a}
  BY <1>2, <1>3, <1>4 DEF Carried
<1> QED BY <1>1, <1>5

LEMMA CarriedType == ASSUME NEW S, NEW s \in Seq(S) PROVE Carried(s) \subseteq S
BY ElementOfSeq, LenProperties DEF Carried

LEMMA ConnType == ASSUME NEW c \in Conns
    PROVE c.room \in Rooms \cup {None} /\ c.state \in States /\ c.wire \in Seq(SaidMessages)
BY DEF Conns

LEMMA NoConnType == NoConn \in Conns /\ Carried(NoConn.wire) = {} /\ NoConn.state = "none"
<1>1. <<>> \in Seq(SaidMessages)
  BY EmptySeq
<1>2. NoConn \in Conns /\ NoConn.wire = <<>> /\ NoConn.state = "none"
  BY <1>1 DEF Conns, NoConn, States
<1> QED BY <1>2, EmptyCarries

LEMMA DialedType ==
    ASSUME NEW room \in Rooms
    PROVE  /\ Dialed(room) \in Conns /\ Dialed(room).room = room /\ Dialed(room).state = "dialed"
           /\ Carried(Dialed(room).wire) = {}
<1>1. <<>> \in Seq(SaidMessages)
  BY EmptySeq
<1>2. Dialed(room) \in Conns /\ Dialed(room).wire = <<>>
      /\ Dialed(room).room = room /\ Dialed(room).state = "dialed"
  BY <1>1 DEF Conns, Dialed, States
<1> QED BY <1>2, EmptyCarries

LEMMA GenType == 1 \in Gens /\ 0 \notin Gens /\ Gens \subseteq Nat /\ \A n \in 0 .. MaxGen : n # 0 => n \in Gens
BY BoundsAssumption DEF Gens

LEMMA ParcelTypes ==
    ViewInv =>
        /\ messages \in Seq(Parcels) /\ Carried(messages) \subseteq Parcels
        /\ \A p \in Carried(messages) : p.gen \in Gens /\ p.msg \in SaidMessages
<1> SUFFICES ASSUME ViewInv
             PROVE  /\ messages \in Seq(Parcels) /\ Carried(messages) \subseteq Parcels
                    /\ \A p \in Parcels : p.gen \in Gens /\ p.msg \in SaidMessages
  OBVIOUS
<1>1. messages \in Seq(Parcels)
  BY DEF ViewInv, ClientShapes
<1>2. Carried(messages) \subseteq Parcels
  BY <1>1, CarriedType
<1> QED BY <1>1, <1>2 DEF Parcels

\* The properties that the runs check follow.
LEMMA InvSafe == ViewInv => TypeOK /\ ScreenShowsItsRoom /\ LossIsReal /\ HistoryMeetsLive
<1> SUFFICES ASSUME ViewInv PROVE TypeOK /\ HistoryMeetsLive
  BY DEF ViewInv
<1>1. TypeOK
  <2>1. ASSUME NEW g \in Gens
        PROVE /\ conn[g].state \in {"none", "dialed", "joined", "broken", "closed"}
              /\ \A i \in DOMAIN conn[g].wire : conn[g].wire[i] \in SaidMessages
    <3>1. conn[g] \in Conns
      BY DEF ViewInv, ServerShapes
    <3>2. conn[g].state \in States /\ conn[g].wire \in Seq(SaidMessages)
      BY <3>1, ConnType
    <3>3. Carried(conn[g].wire) \subseteq SaidMessages
      BY <3>2, CarriedType
    <3> QED BY <3>2, <3>3 DEF States, Carried
  <2> QED BY <2>1 DEF ViewInv, ClientShapes, ServerShapes, TypeOK
<1>2. HistoryMeetsLive
  <2> SUFFICES ASSUME Drained, complete[readerGen], conn[readerGen].state = "joined",
                      NEW m \in heard, m.room = roomID, m.n \notin unsaved \cup beyond[readerGen]
               PROVE  OnScreen(m)
    BY DEF HistoryMeetsLive, OnScreen
  <2>1. readerGen # 0
    BY DEF ViewInv, InUse, Drained
  <2>2. OnScreen(m) \/ OnItsWay(m, readerGen)
    BY <2>1 DEF ViewInv, NothingMissing, Followed
  <2>3. ~OnItsWay(m, readerGen)
    BY EmptyCarries DEF OnItsWay, Drained
  <2> QED BY <2>2, <2>3
<1> QED BY <1>1, <1>2

-----------------------------------------------------------------------------
(* The server.                                                             *)

\* What a step of the server alone leaves of the client.
LEMMA ClientFrame ==
    UNCHANGED <<client, complete, beyond>> =>
        /\ ClientShapes => ClientShapes'
        /\ ScreenShowsItsRoom => ScreenShowsItsRoom'
BY DEF client, ClientShapes, ScreenShowsItsRoom

LEMMA ConnFrame ==
    UNCHANGED <<client, conn, complete, beyond>> =>
        /\ InUse => InUse'
        /\ Ahead => Ahead'
        /\ OwnRooms => OwnRooms'
        /\ EndsAreReal => EndsAreReal'
        /\ ReadAfter => ReadAfter'
        /\ LossIsReal => LossIsReal'
<1> SUFFICES ASSUME UNCHANGED <<client, conn, complete, beyond>>
             PROVE  /\ InUse => InUse'
                    /\ Ahead => Ahead'
                    /\ OwnRooms => OwnRooms'
                    /\ EndsAreReal => EndsAreReal'
                    /\ ReadAfter => ReadAfter'
                    /\ LossIsReal => LossIsReal'
  OBVIOUS
<1> USE DEF client
<1>1. InUse => InUse'
  BY DEF InUse
<1>2. Ahead => Ahead'
  BY DEF Ahead, Entered
<1>3. OwnRooms => OwnRooms'
  BY DEF OwnRooms, Carried
<1>4. EndsAreReal => EndsAreReal'
  BY DEF EndsAreReal, Over, Carried
<1>5. LossIsReal => LossIsReal'
  BY DEF LossIsReal
<1>6. ReadAfter => ReadAfter'
  BY DEF ReadAfter
<1> QED BY <1>1, <1>2, <1>3, <1>4, <1>5, <1>6

LEMMA ServerFrame ==
    UNCHANGED server /\ SavedFirst => SavedFirst'
BY DEF server, SavedFirst, Kept

LEMMA SayInv ==
    ASSUME ViewInv, NEW x \in Speakers, NEW room \in Rooms, Say(x, room),
           UNCHANGED <<client, conn, history, unsaved, heard, complete, beyond>>
    PROVE  ViewInv'
<1> DEFINE new == [message |-> Message(said + 1, room), stage |-> "save"]
<1>1. new \in Stages /\ new.stage = "save"
  BY BoundsAssumption DEF ViewInv, ServerShapes, Say, Stages, SaidMessages, Message
<1>2. saying' = [saying EXCEPT ![x] = new] /\ said' = said + 1 /\ said < MaxSaid
  BY DEF Say
<1> HIDE DEF new
<1>3. ServerShapes'
  BY <1>1, <1>2, BoundsAssumption DEF ViewInv, ServerShapes
<1>4. SavedFirst'
  <2>1. ASSUME NEW y \in Speakers, saying'[y] # None, saying'[y].stage = "broadcast"
        PROVE  Kept(saying[y].message) /\ saying'[y] = saying[y]
    BY <1>1, <1>2, <2>1 DEF ViewInv, ServerShapes, SavedFirst
  <2> QED BY <2>1 DEF ViewInv, SavedFirst, Kept
<1>5. NothingMissing'
  BY DEF ViewInv, NothingMissing, Followed, OnScreen, OnItsWay, Carried, client
<1> QED BY <1>3, <1>4, <1>5, ClientFrame, ConnFrame DEF ViewInv

LEMMA SaveInv == ASSUME ViewInv, NEW x \in Speakers, Save(x) PROVE ViewInv'
<1> DEFINE KeptThen(k) == k.n \in history'[k.room] \cup unsaved'
<1>1. saying[x] \in Stages
  BY DEF ViewInv, ServerShapes, Save
<1>2. PICK m \in SaidMessages : saying[x].message = m
  BY <1>1 DEF Stages
<1>3. m.n \in 1 .. MaxSaid /\ m.room \in Rooms
  BY <1>2 DEF SaidMessages
<1>4. /\ \/ history' = [history EXCEPT ![m.room] = @ \cup {m.n}] /\ unsaved' = unsaved
         \/ unsaved' = unsaved \cup {m.n} /\ history' = history
      /\ UNCHANGED <<client, conn, said, heard, complete, beyond>>
  BY <1>2 DEF Save, Stored
<1>5. /\ saying' = [saying EXCEPT ![x] = [saying[x] EXCEPT !.stage = "broadcast"]]
      /\ [saying[x] EXCEPT !.stage = "broadcast"] \in Stages
      /\ [saying[x] EXCEPT !.stage = "broadcast"].message = m
  BY <1>1, <1>2 DEF Stages, Save
<1>6. ServerShapes'
  <2>1. saying' \in [Speakers -> Stages \cup {None}]
    BY <1>5 DEF ViewInv, ServerShapes
  <2>2. history' \in [Rooms -> SUBSET (1 .. MaxSaid)] /\ unsaved' \subseteq 1 .. MaxSaid
    BY <1>3, <1>4 DEF ViewInv, ServerShapes
  <2> QED BY <1>4, <2>1, <2>2 DEF ViewInv, ServerShapes
<1>7. \A k \in SaidMessages : Kept(k) => KeptThen(k)
  <2>1. \A k \in SaidMessages : k.room \in Rooms
    BY DEF SaidMessages
  <2> QED BY <1>3, <1>4, <2>1 DEF Kept, ViewInv, ServerShapes
<1>8. KeptThen(m)
  BY <1>3, <1>4 DEF ViewInv, ServerShapes
<1>9. SavedFirst'
  <2>1. ASSUME NEW y \in Speakers, saying'[y] # None, saying'[y].stage = "broadcast"
        PROVE  KeptThen(saying'[y].message)
    <3>1. CASE y = x
      <4>1. saying'[x].message = m
        BY <1>5 DEF ViewInv, ServerShapes
      <4> QED BY <3>1, <4>1, <1>8
    <3>2. CASE y # x
      <4>1. saying'[y] = saying[y]
        BY <1>5, <3>2 DEF ViewInv, ServerShapes
      <4>2. saying[y] \in Stages /\ Kept(saying[y].message)
        BY <2>1, <4>1 DEF ViewInv, ServerShapes, SavedFirst
      <4>3. saying[y].message \in SaidMessages
        BY <4>2 DEF Stages
      <4> QED BY <4>1, <4>2, <4>3, <1>7
    <3> QED BY <3>1, <3>2
  <2>2. ASSUME NEW k \in heard' PROVE KeptThen(k)
    BY <1>4, <1>7 DEF ViewInv, ServerShapes, SavedFirst
  <2> QED BY <2>1, <2>2 DEF SavedFirst, Kept
<1>10. NothingMissing'
  <2>1. unsaved \subseteq unsaved'
    BY <1>4
  <2> QED BY <1>4, <2>1 DEF ViewInv, NothingMissing, Followed, OnScreen, OnItsWay, Carried, client
<1> QED BY <1>4, <1>6, <1>9, <1>10, ClientFrame, ConnFrame DEF ViewInv


\* A step that keeps the rooms of the connections, and the end of those that are over,
\* whatever it does to the readers that have been started.
LEMMA ConnectionFrame ==
    ASSUME ViewInv,
           UNCHANGED <<pc, readerGen, roomID, shown, complete, beyond>>,
           \A g \in Gens :
               /\ conn'[g].room = conn[g].room
               /\ conn[g].state \in Alive => conn'[g].state \in Alive
               /\ conn[g].state \in Settled => conn'[g].state \in Settled
               /\ Over(g) => conn'[g].state = conn[g].state
               /\ conn[g] = NoConn => conn'[g] = NoConn
               /\ \/ reader'[g] = reader[g]
                  \/ /\ reader[g] # "none" /\ reader'[g] # "none"
                     /\ reader'[g] \in {"fail", "ended"} => Over(g),
           \A g \in Carried(errors') : g \in Gens /\ Over(g)
    PROVE  InUse' /\ Ahead' /\ EndsAreReal' /\ ReadAfter' /\ LossIsReal' /\ ScreenShowsItsRoom'
<1>1. InUse'
  BY GenType DEF ViewInv, ClientShapes, InUse
<1>2. Ahead'
  BY DEF ViewInv, Ahead, Entered
<1>3. EndsAreReal'
  <2>1. ASSUME NEW g \in Gens, Over(g) PROVE conn'[g].state \in {"broken", "closed"}
    BY <2>1 DEF Over
  <2>2. ASSUME NEW g \in Gens, reader'[g] \in {"fail", "ended"} PROVE Over(g)
    BY <2>2 DEF ViewInv, EndsAreReal
  <2> QED BY <2>1, <2>2 DEF EndsAreReal, Over
<1>4. LossIsReal'
  <2> SUFFICES ASSUME pc = "lost" PROVE conn'[readerGen].state = "broken"
    BY DEF LossIsReal
  <2>1. readerGen \in Gens
    BY GenType DEF ViewInv, InUse, ClientShapes
  <2>2. conn[readerGen].state = "broken"
    BY DEF ViewInv, LossIsReal
  <2> QED BY <2>1, <2>2 DEF Over
<1>5. ScreenShowsItsRoom'
  BY DEF ViewInv, ScreenShowsItsRoom
<1>6. ReadAfter'
  BY DEF ViewInv, ReadAfter
<1> QED BY <1>1, <1>2, <1>3, <1>4, <1>5, <1>6

LEMMA InUseType == ViewInv /\ readerGen # 0 => readerGen \in Gens
BY GenType DEF ViewInv, ClientShapes

LEMMA ErrorsOver == ViewInv => \A g \in Carried(errors) : g \in Gens /\ Over(g)
BY CarriedType DEF ViewInv, ClientShapes, EndsAreReal

\* Register and Break change the state of a connection only.
LEMMA StateStep ==
    ASSUME ViewInv, NEW g \in Gens, NEW state \in {"joined", "broken"},
           conn' = [conn EXCEPT ![g].state = state],
           UNCHANGED <<client, server, complete, beyond>>,
           conn[g].state \in {"dialed", "joined"},
           state = "joined" => conn[g].state = "dialed"
    PROVE  ViewInv'
<1>1. conn[g] \in Conns /\ conn \in [Gens -> Conns]
  BY DEF ViewInv, ServerShapes
<1>2. /\ conn' = [conn EXCEPT ![g] = [conn[g] EXCEPT !.state = state]]
      /\ [conn[g] EXCEPT !.state = state] \in Conns
      /\ [conn[g] EXCEPT !.state = state].state = state
      /\ [conn[g] EXCEPT !.state = state].room = conn[g].room
      /\ [conn[g] EXCEPT !.state = state].wire = conn[g].wire
  BY <1>1 DEF Conns, States
<1>3. /\ conn' \in [Gens -> Conns]
      /\ \A h \in Gens : conn'[h].room = conn[h].room /\ conn'[h].wire = conn[h].wire
      /\ \A h \in Gens : h # g => conn'[h] = conn[h]
      /\ conn'[g].state = state
  BY <1>1, <1>2
<1>4. InUse' /\ Ahead' /\ EndsAreReal' /\ ReadAfter' /\ LossIsReal' /\ ScreenShowsItsRoom'
  <2>1. UNCHANGED <<pc, readerGen, roomID, shown, complete, beyond>> /\ errors' = errors /\ reader' = reader
    BY DEF client
  <2>2. conn[g] # NoConn /\ ~Over(g)
    BY DEF NoConn, Over
  <2> QED BY <1>3, <2>1, <2>2, ErrorsOver, ConnectionFrame DEF Alive, Settled, Over
<1>5. OwnRooms'
  <2>1. UNCHANGED <<reader, hold, messages, readerGen>>
    BY DEF client
  <2>2. \A p \in Carried(messages) : p.gen \in Gens
    BY ParcelTypes
  <2> QED BY <1>3, <2>1, <2>2 DEF ViewInv, OwnRooms, Carried
<1>6. ServerShapes'
  BY <1>3 DEF ViewInv, ServerShapes, server
<1>7. NothingMissing'
  <2>1. UNCHANGED <<reader, hold, messages, readerGen, roomID, shown, heard, unsaved, complete, beyond>>
    BY DEF client, server
  <2> SUFFICES ASSUME readerGen # 0, Followed(readerGen)',
                      NEW m \in heard, m.room = roomID, m.n \notin unsaved \cup beyond[readerGen]
               PROVE  OnScreen(m) \/ OnItsWay(m, readerGen)'
    BY <2>1 DEF NothingMissing, OnScreen
  <2>2. readerGen \in Gens
    BY InUseType
  <2>3. Followed(readerGen)
    <3>1. complete[readerGen] /\ conn'[readerGen].state = "joined"
      BY <2>1 DEF Followed
    <3>2. readerGen # g
      BY <3>1, <1>3 DEF ViewInv, ReadAfter, Settled
    <3> QED BY <3>1, <3>2, <1>3, <2>2 DEF Followed
  <2>4. OnScreen(m) \/ OnItsWay(m, readerGen)
    BY <2>3 DEF ViewInv, NothingMissing
  <2> QED BY <2>1, <2>2, <2>4, <1>3 DEF OnItsWay
<1> QED BY <1>4, <1>5, <1>6, <1>7, ClientFrame, ServerFrame DEF ViewInv

LEMMA RegisterInv == ASSUME ViewInv, NEW g \in Gens, Register(g) PROVE ViewInv'
BY StateStep DEF Register

LEMMA BreakInv == ASSUME ViewInv, NEW g \in Gens, Break(g) PROVE ViewInv'
BY StateStep DEF Break

LEMMA BroadcastInv == ASSUME ViewInv, NEW x \in Speakers, Broadcast(x) PROVE ViewInv'
<1>1. saying[x] \in Stages /\ saying[x].stage = "broadcast"
  BY DEF ViewInv, ServerShapes, Broadcast
<1>2. PICK m \in SaidMessages : saying[x].message = m
  BY <1>1 DEF Stages
<1> DEFINE Told(g) == conn[g].state = "joined" /\ conn[g].room = m.room
           Fuller(g) == [conn[g] EXCEPT !.wire = Append(conn[g].wire, m)]
<1>3. /\ conn' = [g \in Gens |-> IF Told(g) THEN Fuller(g) ELSE conn[g]]
      /\ heard' = heard \cup {m}
      /\ saying' = [saying EXCEPT ![x] = None]
      /\ UNCHANGED <<client, history, said, unsaved, complete, beyond>>
  BY <1>2 DEF Broadcast
<1>4. ASSUME NEW g \in Gens
      PROVE  /\ Fuller(g) \in Conns /\ Fuller(g).room = conn[g].room
             /\ Fuller(g).state = conn[g].state
             /\ Carried(Fuller(g).wire) = Carried(conn[g].wire) \cup {m}
             /\ conn[g] \in Conns
  <2>1. conn[g] \in Conns
    BY DEF ViewInv, ServerShapes
  <2>2. conn[g].wire \in Seq(SaidMessages)
    BY <2>1, ConnType
  <2>3. /\ Append(conn[g].wire, m) \in Seq(SaidMessages)
        /\ Carried(Append(conn[g].wire, m)) = Carried(conn[g].wire) \cup {m}
    BY <2>2, AppendCarries
  <2>4. /\ Fuller(g) \in Conns /\ Fuller(g).room = conn[g].room
        /\ Fuller(g).state = conn[g].state /\ Fuller(g).wire = Append(conn[g].wire, m)
    BY <2>1, <2>3 DEF Conns
  <2> QED BY <2>1, <2>3, <2>4
<1> HIDE DEF Fuller
<1>5. /\ conn' \in [Gens -> Conns]
      /\ \A g \in Gens :
            /\ conn'[g].room = conn[g].room /\ conn'[g].state = conn[g].state
            /\ Told(g) => Carried(conn'[g].wire) = Carried(conn[g].wire) \cup {m}
            /\ ~Told(g) => conn'[g] = conn[g]
  BY <1>3, <1>4
<1>6. InUse' /\ Ahead' /\ EndsAreReal' /\ ReadAfter' /\ LossIsReal' /\ ScreenShowsItsRoom'
  <2>1. UNCHANGED <<pc, readerGen, roomID, shown, complete, beyond>> /\ errors' = errors /\ reader' = reader
    BY <1>3 DEF client
  <2>2. \A g \in Gens : conn[g] = NoConn => ~Told(g)
    BY DEF NoConn
  <2> HIDE DEF Told
  <2> QED BY <1>5, <2>1, <2>2, ErrorsOver, ConnectionFrame
<1>7. OwnRooms'
  <2>1. UNCHANGED <<reader, hold, messages, readerGen>>
    BY <1>3 DEF client
  <2>2. \A p \in Carried(messages) : p.gen \in Gens
    BY ParcelTypes
  <2>3. ASSUME NEW g \in Gens, NEW k \in Carried(conn'[g].wire) PROVE k.room = conn'[g].room
    BY <1>5, <2>3 DEF ViewInv, OwnRooms
  <2> QED BY <1>5, <2>1, <2>2, <2>3 DEF ViewInv, OwnRooms
<1>8. ServerShapes'
  BY <1>3, <1>5 DEF ViewInv, ServerShapes
<1>9. SavedFirst'
  <2>1. Kept(m)
    BY <1>1, <1>2 DEF ViewInv, SavedFirst, Broadcast
  <2>2. ASSUME NEW y \in Speakers, saying'[y] # None PROVE saying'[y] = saying[y]
    BY <1>3, <2>2 DEF ViewInv, ServerShapes
  <2> QED BY <1>3, <2>1, <2>2 DEF ViewInv, SavedFirst, Kept
<1>10. NothingMissing'
  <2>1. UNCHANGED <<reader, hold, messages, readerGen, roomID, shown, unsaved, complete, beyond>>
    BY <1>3 DEF client
  <2> SUFFICES ASSUME readerGen # 0, Followed(readerGen)',
                      NEW k \in heard', k.room = roomID, k.n \notin unsaved \cup beyond[readerGen]
               PROVE  OnScreen(k) \/ OnItsWay(k, readerGen)'
    BY <2>1 DEF NothingMissing, OnScreen
  <2>2. readerGen \in Gens
    BY InUseType
  <2>3. Followed(readerGen)
    BY <1>5, <2>1, <2>2 DEF Followed
  <2>4. CASE k = m
    <3>1. Told(readerGen)
      BY <2>2, <2>3, <2>4 DEF Followed, ViewInv, InUse
    <3> QED BY <1>5, <2>1, <2>2, <2>4, <3>1 DEF OnItsWay
  <2>5. CASE k # m
    <3>1. OnScreen(k) \/ OnItsWay(k, readerGen)
      BY <1>3, <2>3, <2>5 DEF ViewInv, NothingMissing
    <3>2. Carried(conn[readerGen].wire) \subseteq Carried(conn'[readerGen].wire)
      BY <1>5, <2>2
    <3> QED BY <2>1, <3>1, <3>2 DEF OnItsWay
  <2> QED BY <2>4, <2>5
<1> QED BY <1>3, <1>6, <1>7, <1>8, <1>9, <1>10, ClientFrame DEF ViewInv

-----------------------------------------------------------------------------
(* The client's reader goroutines.                                         *)

LEMMA ReadMessageInv == ASSUME ViewInv, NEW g \in Gens, ReadMessage(g) PROVE ViewInv'
<1>1. conn[g] \in Conns /\ conn \in [Gens -> Conns] /\ conn[g].wire # <<>>
  BY DEF ViewInv, ServerShapes, ReadMessage
<1>2. conn[g].wire \in Seq(SaidMessages)
  BY <1>1, ConnType
<1>3. PICK m \in SaidMessages : m = Head(conn[g].wire)
  BY <1>1, <1>2, TailCarries
<1>4. /\ Tail(conn[g].wire) \in Seq(SaidMessages)
      /\ Carried(conn[g].wire) = {m} \cup Carried(Tail(conn[g].wire))
  BY <1>1, <1>2, <1>3, TailCarries
<1> DEFINE Emptier == [conn[g] EXCEPT !.wire = Tail(conn[g].wire)]
<1>5. /\ Emptier \in Conns /\ Emptier.room = conn[g].room /\ Emptier.state = conn[g].state
      /\ Emptier.wire = Tail(conn[g].wire)
  BY <1>1, <1>4 DEF Conns
<1>6. /\ reader[g] = "reading"
      /\ hold' = [hold EXCEPT ![g] = m]
      /\ conn' = [conn EXCEPT ![g] = Emptier]
      /\ reader' = [reader EXCEPT ![g] = "push"]
      /\ UNCHANGED <<pc, readerGen, roomID, messages, errors, shown, server, complete, beyond>>
  BY <1>3 DEF ReadMessage
<1> HIDE DEF Emptier
<1>7. /\ conn' \in [Gens -> Conns]
      /\ \A h \in Gens : conn'[h].room = conn[h].room /\ conn'[h].state = conn[h].state
      /\ \A h \in Gens : h # g => conn'[h] = conn[h]
      /\ Carried(conn[g].wire) = {m} \cup Carried(conn'[g].wire)
  BY <1>1, <1>4, <1>5, <1>6
<1>8. /\ \A h \in Gens : h # g => reader'[h] = reader[h] /\ hold'[h] = hold[h]
      /\ reader'[g] = "push" /\ hold'[g] = m
  BY <1>6 DEF ViewInv, ClientShapes
<1>9. ClientShapes'
  <2>1. m # None
    BY NoneAssumption DEF SaidMessages
  <2> QED BY <1>6, <1>8, <2>1 DEF ViewInv, ClientShapes
<1>10. ServerShapes'
  BY <1>6, <1>7 DEF ViewInv, ServerShapes, server
<1>11. InUse' /\ Ahead' /\ EndsAreReal' /\ ReadAfter' /\ LossIsReal' /\ ScreenShowsItsRoom'
  <2>1. conn[g] # NoConn
    BY <1>1 DEF NoConn
  <2> QED BY <1>6, <1>7, <1>8, <2>1, ErrorsOver, ConnectionFrame
<1>12. OwnRooms'
  <2>1. m.room = conn[g].room
    BY <1>4 DEF ViewInv, OwnRooms
  <2>2. ASSUME NEW h \in Gens PROVE Carried(conn'[h].wire) \subseteq Carried(conn[h].wire)
    BY <1>7
  <2> QED BY <1>6, <1>7, <1>8, <2>1, <2>2, ParcelTypes DEF ViewInv, OwnRooms
<1>13. NothingMissing'
  <2> SUFFICES ASSUME readerGen # 0, Followed(readerGen)',
                      NEW k \in heard, k.room = roomID, k.n \notin unsaved \cup beyond[readerGen]
               PROVE  OnScreen(k) \/ OnItsWay(k, readerGen)'
    BY <1>6 DEF NothingMissing, OnScreen, server
  <2>1. readerGen \in Gens
    BY InUseType
  <2>2. OnScreen(k) \/ OnItsWay(k, readerGen)
    BY <1>6, <1>7, <2>1 DEF ViewInv, NothingMissing, Followed
  <2>3. ASSUME OnItsWay(k, readerGen) PROVE OnItsWay(k, readerGen)'
    BY <1>6, <1>7, <1>8, <2>1, <2>3 DEF OnItsWay
  <2> QED BY <2>2, <2>3
<1> QED BY <1>6, <1>9, <1>10, <1>11, <1>12, <1>13, ServerFrame DEF ViewInv

\* A reader changes place, and the channels with it; nothing else does.
LEMMA ReaderFrame ==
    ASSUME ViewInv, NEW g \in Gens, NEW to \in {"reading", "fail", "ended"},
           reader[g] # "none", to \in {"fail", "ended"} => Over(g),
           reader' = [reader EXCEPT ![g] = to],
           Carried(errors') \subseteq Carried(errors) \cup (IF Over(g) THEN {g} ELSE {}),
           UNCHANGED <<pc, readerGen, roomID, shown, conn, server, complete, beyond>>
    PROVE  /\ InUse' /\ Ahead' /\ EndsAreReal' /\ ReadAfter' /\ LossIsReal'
           /\ ScreenShowsItsRoom' /\ ServerShapes' /\ SavedFirst'
<1>1. \A h \in Gens : h # g => reader'[h] = reader[h]
  BY DEF ViewInv, ClientShapes
<1>2. reader'[g] = to
  BY DEF ViewInv, ClientShapes
<1>3. \A h \in Carried(errors') : h \in Gens /\ Over(h)
  BY ErrorsOver
<1>4. InUse' /\ Ahead' /\ EndsAreReal' /\ ReadAfter' /\ LossIsReal' /\ ScreenShowsItsRoom'
  BY <1>1, <1>2, <1>3, ConnectionFrame
<1>5. ServerShapes'
  BY DEF ViewInv, ServerShapes, server
<1> QED BY <1>4, <1>5, ServerFrame DEF ViewInv

LEMMA ReadFailsInv == ASSUME ViewInv, NEW g \in Gens, ReadFails(g) PROVE ViewInv'
<1>1. /\ reader[g] = "reading" /\ Over(g)
      /\ reader' = [reader EXCEPT ![g] = "fail"]
      /\ UNCHANGED <<pc, readerGen, roomID, hold, messages, errors, shown, conn, server, complete, beyond>>
  BY DEF ReadFails, Over
<1>2. /\ \A h \in Gens : h # g => reader'[h] = reader[h]
      /\ reader'[g] = "fail"
  BY <1>1 DEF ViewInv, ClientShapes
<1>3. /\ InUse' /\ Ahead' /\ EndsAreReal' /\ ReadAfter' /\ LossIsReal'
      /\ ScreenShowsItsRoom' /\ ServerShapes' /\ SavedFirst'
  BY <1>1, ReaderFrame
<1>4. ClientShapes'
  BY <1>1, <1>2 DEF ViewInv, ClientShapes
<1>5. OwnRooms'
  BY <1>1, <1>2 DEF ViewInv, OwnRooms
<1>6. NothingMissing'
  <2>1. \A k : OnItsWay(k, readerGen) => OnItsWay(k, readerGen)'
    BY <1>1, <1>2, InUseType DEF OnItsWay, ViewInv, ClientShapes
  <2> QED BY <1>1, <2>1 DEF ViewInv, NothingMissing, Followed, OnScreen, server
<1> QED BY <1>3, <1>4, <1>5, <1>6 DEF ViewInv

LEMMA PushErrorInv == ASSUME ViewInv, NEW g \in Gens, PushError(g) PROVE ViewInv'
<1>1. /\ reader[g] = "fail" /\ Len(errors) < Errors
      /\ errors' = Append(errors, g)
      /\ reader' = [reader EXCEPT ![g] = "ended"]
      /\ UNCHANGED <<pc, readerGen, roomID, hold, messages, shown, conn, server, complete, beyond>>
  BY DEF PushError
<1>2. /\ \A h \in Gens : h # g => reader'[h] = reader[h]
      /\ reader'[g] = "ended" /\ Over(g)
  BY <1>1 DEF ViewInv, ClientShapes, EndsAreReal
<1>3. /\ errors' \in Seq(Gens) /\ Len(errors') = Len(errors) + 1 /\ Len(errors) \in Nat
      /\ Carried(errors') = Carried(errors) \cup {g}
  BY <1>1, AppendCarries, LenProperties DEF ViewInv, ClientShapes
<1>4. /\ InUse' /\ Ahead' /\ EndsAreReal' /\ ReadAfter' /\ LossIsReal'
      /\ ScreenShowsItsRoom' /\ ServerShapes' /\ SavedFirst'
  BY <1>1, <1>2, <1>3, ReaderFrame
<1>5. ClientShapes'
  BY <1>1, <1>2, <1>3, CapacityAssumption DEF ViewInv, ClientShapes
<1>6. OwnRooms'
  BY <1>1, <1>2 DEF ViewInv, OwnRooms
<1>7. NothingMissing'
  <2>1. \A k : OnItsWay(k, readerGen) => OnItsWay(k, readerGen)'
    BY <1>1, <1>2, InUseType DEF OnItsWay, ViewInv, ClientShapes
  <2> QED BY <1>1, <2>1 DEF ViewInv, NothingMissing, Followed, OnScreen, server
<1> QED BY <1>4, <1>5, <1>6, <1>7 DEF ViewInv

LEMMA PushMessageInv == ASSUME ViewInv, NEW g \in Gens, PushMessage(g) PROVE ViewInv'
<1>1. hold[g] \in SaidMessages /\ hold[g].room = conn[g].room
  BY DEF ViewInv, ClientShapes, OwnRooms, PushMessage
<1>2. PICK m \in SaidMessages : m = hold[g]
  BY <1>1
<1> DEFINE new == [gen |-> g, msg |-> m]
<1>3. new \in Parcels /\ new.gen = g /\ new.msg = m
  BY DEF Parcels
<1>4. /\ reader[g] = "push" /\ Len(messages) < Messages
      /\ messages' = Append(messages, new)
      /\ reader' = [reader EXCEPT ![g] = "reading"]
      /\ hold' = [hold EXCEPT ![g] = None]
      /\ UNCHANGED <<pc, readerGen, roomID, errors, shown, conn, server, complete, beyond>>
  BY <1>2 DEF PushMessage
<1>5. /\ messages' \in Seq(Parcels) /\ Len(messages') = Len(messages) + 1
      /\ Carried(messages') = Carried(messages) \cup {new} /\ Len(messages) \in Nat
  <2> HIDE DEF new
  <2> QED BY <1>3, <1>4, AppendCarries, ParcelTypes, LenProperties
<1>6. /\ \A h \in Gens : h # g => reader'[h] = reader[h] /\ hold'[h] = hold[h]
      /\ reader'[g] = "reading" /\ hold'[g] = None
  BY <1>4 DEF ViewInv, ClientShapes
<1>7. /\ InUse' /\ Ahead' /\ EndsAreReal' /\ ReadAfter' /\ LossIsReal'
      /\ ScreenShowsItsRoom' /\ ServerShapes' /\ SavedFirst'
  BY <1>4, ReaderFrame
<1>8. ClientShapes'
  <2>1. hold' \in [Gens -> SaidMessages \cup {None}]
    BY <1>4 DEF ViewInv, ClientShapes
  <2>2. reader' \in [Gens -> {"none", "reading", "push", "fail", "ended"}]
    BY <1>4 DEF ViewInv, ClientShapes
  <2>3. \A h \in Gens : hold'[h] = None <=> reader'[h] # "push"
    BY <1>6 DEF ViewInv, ClientShapes
  <2>4. Len(messages') <= Messages
    BY <1>4, <1>5, CapacityAssumption
  <2> QED BY <1>4, <1>5, <2>1, <2>2, <2>3, <2>4 DEF ViewInv, ClientShapes
<1>9. OwnRooms'
  <2>1. g <= readerGen
    BY <1>4, GenType DEF ViewInv, ClientShapes, Ahead
  <2>2. \A p \in Carried(messages') : p.gen <= readerGen /\ p.msg.room = conn[p.gen].room
    BY <1>1, <1>2, <1>3, <1>5, <2>1 DEF ViewInv, OwnRooms
  <2> QED BY <1>4, <1>6, <2>2 DEF ViewInv, OwnRooms
<1>10. NothingMissing'
  <2>1. ASSUME NEW k, readerGen \in Gens, OnItsWay(k, readerGen) PROVE OnItsWay(k, readerGen)'
    <3>1. CASE readerGen = g
      BY <1>2, <1>4, <1>5, <2>1, <3>1 DEF OnItsWay
    <3>2. CASE readerGen # g
      BY <1>4, <1>5, <1>6, <2>1, <3>2 DEF OnItsWay
    <3> QED BY <3>1, <3>2
  <2> QED BY <1>4, <2>1, InUseType DEF ViewInv, NothingMissing, Followed, OnScreen, server
<1> QED BY <1>7, <1>8, <1>9, <1>10 DEF ViewInv

-----------------------------------------------------------------------------
(* The client's main goroutine.                                            *)

LEMMA JoinInv == ViewInv /\ Join => ViewInv'
<1> SUFFICES ASSUME ViewInv, Join PROVE ViewInv'
  OBVIOUS
<1>1. /\ pc = "start" /\ pc' = "greet" /\ readerGen = 0 /\ readerGen' = 1 /\ roomID' = General
      /\ conn' = [conn EXCEPT ![1] = Dialed(General)]
      /\ UNCHANGED <<reader, hold, messages, errors, shown, server, complete, beyond>>
  BY DEF Join, ViewInv, InUse
<1>2. \A g \in Gens : reader[g] = "none" /\ ~complete[g] /\ conn[g] = NoConn
  BY <1>1, GenType DEF ViewInv, Ahead, Entered
<1>3. General \in Rooms
  BY RoomsAssumption
<1>4. /\ conn' \in [Gens -> Conns]
      /\ conn'[1].room = General /\ conn'[1].state = "dialed" /\ Carried(conn'[1].wire) = {}
      /\ \A g \in Gens : g # 1 => conn'[g] = NoConn
  <2>1. Dialed(General) \in Conns
    BY <1>3, DialedType
  <2> QED BY <1>1, <1>2, <1>3, <2>1, GenType, DialedType DEF ViewInv, ServerShapes
<1>5. Carried(messages) = {} /\ Carried(errors) = {}
  <2>1. \A p \in Carried(messages) : p.gen \in Gens /\ p.gen <= 0
    BY <1>1, ParcelTypes DEF ViewInv, OwnRooms
  <2>2. \A g \in Carried(errors) : FALSE
    BY <1>2, ErrorsOver, NoConnType DEF Over
  <2> QED BY <2>1, <2>2 DEF Gens
<1>6. ClientShapes'
  BY <1>1, <1>3, GenType, BoundsAssumption DEF ViewInv, ClientShapes
<1>7. ServerShapes'
  BY <1>1, <1>4 DEF ViewInv, ServerShapes, server
<1>8. InUse'
  BY <1>1, <1>2, <1>3, <1>4, GenType DEF InUse, Alive
<1>9. Ahead'
  BY <1>1, <1>2, <1>4 DEF Ahead, Entered
<1>10. OwnRooms'
  BY <1>1, <1>2, <1>4, <1>5, NoConnType DEF OwnRooms
<1>11. EndsAreReal' /\ ReadAfter' /\ LossIsReal'
  BY <1>1, <1>2, <1>5 DEF EndsAreReal, ReadAfter, LossIsReal
<1>12. ScreenShowsItsRoom' /\ SavedFirst'
  BY <1>1, ServerFrame DEF ViewInv, ScreenShowsItsRoom
<1>13. NothingMissing'
  BY <1>1, <1>2, GenType DEF NothingMissing, Followed
<1> QED BY <1>6, <1>7, <1>8, <1>9, <1>10, <1>11, <1>12, <1>13 DEF ViewInv

LEMMA LesserIsOne == ASSUME NEW a \in Nat, NEW b \in Nat PROVE Min({a, b}) \in {a, b}
<1>1. \E x \in {a, b} : \A y \in {a, b} : x <= y
  OBVIOUS
<1> QED BY <1>1 DEF Min

\* A page leaves out only what so many of its second or later follow.
LEMMA NewestHas ==
    ASSUME NEW rows \in SUBSET (1 .. MaxSaid), NEW page \in Newest(rows),
           NEW n \in rows, n \notin PastLimit(rows)
    PROVE  n \in page
<1> SUFFICES ASSUME n \notin page PROVE FALSE
  OBVIOUS
<1> DEFINE Later == {k \in rows : At[k] >= At[n]}
<1>1. IsFiniteSet(rows)
  <2>1. IsFiniteSet(1 .. MaxSaid)
    BY BoundsAssumption, FS_Interval
  <2> QED BY <2>1, FS_Subset
<1>2. page \subseteq rows /\ Later \subseteq rows
  BY DEF Newest
<1>3. /\ IsFiniteSet(page) /\ IsFiniteSet(Later)
      /\ Cardinality(page) \in Nat /\ Cardinality(Later) \in Nat /\ Cardinality(rows) \in Nat
  BY <1>1, <1>2, FS_Subset, FS_CardinalityType
<1>4. page \cup {n} \subseteq Later
  <2>1. \A k \in rows : At[k] \in Nat
    BY ClockAssumption
  <2>2. \A k \in page : At[n] <= At[k]
    BY DEF Newest
  <2> QED BY <1>2, <2>1, <2>2
<1>5. IsFiniteSet(page \cup {n}) /\ Cardinality(page \cup {n}) = Cardinality(page) + 1
  BY <1>3, FS_AddElement
<1>6. Cardinality(page) + 1 <= Cardinality(Later) /\ Cardinality(Later) <= Cardinality(rows)
  <2> HIDE DEF Later
  <2>1. Cardinality(page \cup {n}) <= Cardinality(Later)
    BY <1>3, <1>4, FS_Subset
  <2>2. Cardinality(Later) <= Cardinality(rows)
    BY <1>1, <1>2, FS_Subset
  <2> QED BY <1>5, <2>1, <2>2
<1>7. Cardinality(Later) <= HistoryLimit
  BY <1>3, LimitAssumption DEF PastLimit
<1>8. Cardinality(page) \in {HistoryLimit, Cardinality(rows)}
  BY <1>3, LimitAssumption, LesserIsOne DEF Newest
<1> QED BY <1>3, <1>6, <1>7, <1>8, LimitAssumption

\* What the screen gets is of the room it names, and a history read for the first time
\* after registration has every message of the room that was broadcast, unless its
\* insert failed or it lies beyond the limit.
LEMMA HistoryShape ==
    ASSUME ViewInv, readerGen # 0, FetchHistory
    PROVE  /\ complete' \in [Gens -> BOOLEAN] /\ beyond' \in [Gens -> SUBSET (1 .. MaxSaid)]
           /\ \A g \in Gens : g # readerGen => complete'[g] = complete[g] /\ beyond'[g] = beyond[g]
           /\ shown \subseteq shown' /\ shown' \subseteq Lines
           /\ \A x \in shown' : x.msg.room = x.in
           /\ \/ complete' = complete /\ beyond' = beyond
              \/ /\ complete'[readerGen] => conn[readerGen].state = "joined"
                 /\ \A m \in heard : m.room = roomID /\ m.n \notin unsaved \cup beyond'[readerGen]
                        => \E x \in shown' : x.msg = m
<1>1. readerGen \in Gens /\ roomID \in Rooms
  BY InUseType DEF ViewInv, InUse
<1>2. CASE UNCHANGED <<shown, complete, beyond>>
  BY <1>2 DEF ViewInv, ClientShapes, ScreenShowsItsRoom
<1>3. ASSUME NEW page \in Newest(history[roomID]), shown' = shown \cup Printed(page, roomID),
             \/ UNCHANGED <<complete, beyond>>
             \/ /\ conn[readerGen].state = "joined"
                /\ complete' = [complete EXCEPT ![readerGen] = TRUE]
                /\ beyond' = [beyond EXCEPT ![readerGen] = PastLimit(history[roomID]) \cap Known]
      PROVE  /\ complete' \in [Gens -> BOOLEAN] /\ beyond' \in [Gens -> SUBSET (1 .. MaxSaid)]
             /\ \A g \in Gens : g # readerGen => complete'[g] = complete[g] /\ beyond'[g] = beyond[g]
             /\ shown \subseteq shown' /\ shown' \subseteq Lines
             /\ \A x \in shown' : x.msg.room = x.in
             /\ \/ complete' = complete /\ beyond' = beyond
                \/ /\ complete'[readerGen] => conn[readerGen].state = "joined"
                   /\ \A m \in heard : m.room = roomID /\ m.n \notin unsaved \cup beyond'[readerGen]
                          => \E x \in shown' : x.msg = m
  <2>1. history[roomID] \subseteq 1 .. MaxSaid /\ page \subseteq history[roomID]
    BY <1>1 DEF ViewInv, ServerShapes, Newest
  <2>2. ASSUME NEW x \in Printed(page, roomID) PROVE x \in Lines /\ x.msg.room = x.in
    <3>1. PICK n \in page : x = [msg |-> Message(n, roomID), in |-> roomID]
      BY DEF Printed
    <3>2. n \in 1 .. MaxSaid
      BY <2>1
    <3>3. Message(n, roomID) \in SaidMessages /\ Message(n, roomID).room = roomID
      BY <1>1, <3>2 DEF Message, SaidMessages
    <3> QED BY <1>1, <3>1, <3>3 DEF Lines
  <2>3. ASSUME NEW m \in heard, m.room = roomID, m.n \notin unsaved,
               m.n \notin PastLimit(history[roomID]) \cap Known
        PROVE  \E x \in Printed(page, roomID) : x.msg = m
    <3>1. m \in SaidMessages /\ m.n \in history[roomID] /\ m.n \in Known
      BY <2>3 DEF ViewInv, ServerShapes, SavedFirst, Kept, Known
    <3>2. m = Message(m.n, roomID)
      BY <2>3, <3>1 DEF SaidMessages, Message
    <3>3. PICK n \in history[roomID] : n = m.n
      BY <3>1
    <3>4. n \in page
      BY <2>1, <2>3, <3>1, <3>3, NewestHas
    <3>5. [msg |-> Message(n, roomID), in |-> roomID] \in Printed(page, roomID)
      BY <3>4 DEF Printed
    <3> QED BY <3>2, <3>3, <3>5
  <2>4. shown \subseteq Lines /\ \A x \in shown : x.msg.room = x.in
    BY DEF ViewInv, ClientShapes, ScreenShowsItsRoom
  <2>5. shown' \subseteq Lines /\ \A x \in shown' : x.msg.room = x.in
    BY <1>3, <2>2, <2>4
  <2>6. complete \in [Gens -> BOOLEAN] /\ beyond \in [Gens -> SUBSET (1 .. MaxSaid)]
    BY DEF ViewInv, ClientShapes
  <2>7. CASE UNCHANGED <<complete, beyond>>
    BY <1>3, <2>5, <2>6, <2>7
  <2>8. CASE /\ conn[readerGen].state = "joined"
             /\ complete' = [complete EXCEPT ![readerGen] = TRUE]
             /\ beyond' = [beyond EXCEPT ![readerGen] = PastLimit(history[roomID]) \cap Known]
    <3>1. PastLimit(history[roomID]) \subseteq 1 .. MaxSaid
      BY <2>1 DEF PastLimit
    <3>2. /\ complete' \in [Gens -> BOOLEAN] /\ beyond' \in [Gens -> SUBSET (1 .. MaxSaid)]
          /\ beyond'[readerGen] = PastLimit(history[roomID]) \cap Known
          /\ \A g \in Gens : g # readerGen => complete'[g] = complete[g] /\ beyond'[g] = beyond[g]
      BY <1>1, <2>6, <2>8, <3>1
    <3>3. \A m \in heard : m.room = roomID /\ m.n \notin unsaved \cup beyond'[readerGen]
            => \E x \in shown' : x.msg = m
      BY <1>3, <2>3, <3>2
    <3> QED BY <1>3, <2>5, <2>8, <3>2, <3>3
  <2> QED BY <1>3, <2>7, <2>8
<1> QED BY <1>2, <1>3 DEF FetchHistory

\* Greet and PrintHistory: the reader of the connection is started, or runs already.
LEMMA FetchInv ==
    ASSUME ViewInv, readerGen # 0, FetchHistory,
           pc \in {"greet", "history", "loop"}, pc' = "loop",
           \/ reader' = reader /\ pc # "greet"
           \/ pc = "greet" /\ reader' = [reader EXCEPT ![1] = "reading"],
           UNCHANGED <<readerGen, roomID, hold, messages, errors, conn, server>>
    PROVE  ViewInv'
<1>1. readerGen \in Gens /\ roomID \in Rooms
  BY InUseType DEF ViewInv, InUse
<1>2. /\ complete' \in [Gens -> BOOLEAN] /\ beyond' \in [Gens -> SUBSET (1 .. MaxSaid)]
      /\ \A g \in Gens : g # readerGen => complete'[g] = complete[g] /\ beyond'[g] = beyond[g]
      /\ shown \subseteq shown' /\ shown' \subseteq Lines
      /\ \A x \in shown' : x.msg.room = x.in
      /\ \/ complete' = complete /\ beyond' = beyond
         \/ /\ complete'[readerGen] => conn[readerGen].state = "joined"
            /\ \A m \in heard : m.room = roomID /\ m.n \notin unsaved \cup beyond'[readerGen]
                   => \E x \in shown' : x.msg = m
  BY HistoryShape
<1>3. /\ reader' \in [Gens -> {"none", "reading", "push", "fail", "ended"}]
      /\ \A g \in Gens : g # readerGen => reader'[g] = reader[g]
      /\ \/ reader'[readerGen] = reader[readerGen]
         \/ reader[readerGen] = "none" /\ reader'[readerGen] = "reading"
  BY <1>1 DEF ViewInv, ClientShapes, InUse
<1>4. ClientShapes'
  <2>1. \A g \in Gens : hold[g] = None <=> reader'[g] # "push"
    BY <1>1, <1>3 DEF ViewInv, ClientShapes
  <2> QED BY <1>2, <1>3, <2>1 DEF ViewInv, ClientShapes
<1>5. ServerShapes' /\ SavedFirst'
  BY ServerFrame DEF ViewInv, ServerShapes, server
<1>6. InUse'
  BY DEF ViewInv, InUse
<1>7. Ahead'
  BY <1>1, <1>2, <1>3, GenType DEF ViewInv, Ahead, Entered
<1>8. OwnRooms'
  BY <1>1, <1>3 DEF ViewInv, OwnRooms
<1>9. EndsAreReal'
  BY <1>1, <1>3 DEF ViewInv, EndsAreReal, Over
<1>10. ReadAfter'
  BY <1>1, <1>2 DEF ViewInv, ReadAfter, Settled
<1>11. LossIsReal' /\ ScreenShowsItsRoom'
  BY <1>2 DEF LossIsReal, ScreenShowsItsRoom
<1>12. NothingMissing'
  <2> SUFFICES ASSUME Followed(readerGen)',
                      NEW m \in heard, m.room = roomID,
                      m.n \notin unsaved \cup beyond'[readerGen]
               PROVE  OnScreen(m)' \/ OnItsWay(m, readerGen)'
    BY DEF NothingMissing, server
  <2>1. CASE complete' = complete /\ beyond' = beyond
    <3>1. OnScreen(m) \/ OnItsWay(m, readerGen)
      BY <2>1 DEF ViewInv, NothingMissing, Followed
    <3>2. OnScreen(m) => OnScreen(m)'
      BY <1>2 DEF OnScreen
    <3>3. OnItsWay(m, readerGen) => OnItsWay(m, readerGen)'
      BY <1>3 DEF OnItsWay
    <3> QED BY <3>1, <3>2, <3>3
  <2>2. CASE ~(complete' = complete /\ beyond' = beyond)
    BY <1>2, <2>2 DEF OnScreen
  <2> QED BY <2>1, <2>2
<1> QED BY <1>4, <1>5, <1>6, <1>7, <1>8, <1>9, <1>10, <1>11, <1>12 DEF ViewInv

LEMMA GreetInv == ViewInv /\ Greet => ViewInv'
<1> SUFFICES ASSUME ViewInv, Greet PROVE ViewInv'
  OBVIOUS
<1>1. readerGen # 0
  BY DEF Greet, ViewInv, InUse
<1> QED BY <1>1, FetchInv DEF Greet

LEMMA PrintHistoryInv == ViewInv /\ PrintHistory => ViewInv'
<1> SUFFICES ASSUME ViewInv, PrintHistory PROVE ViewInv'
  OBVIOUS
<1>1. readerGen # 0
  BY DEF PrintHistory, ViewInv, InUse
<1> QED BY <1>1, FetchInv DEF PrintHistory

\* The loop goes on or ends, and errors only leave their channel.
LEMMA LoopStep ==
    ASSUME ViewInv, pc = "loop", pc' \in {"loop", "lost", "ended"},
           pc' = "lost" => conn[readerGen].state = "broken",
           errors' \in Seq(Gens), Len(errors') <= Errors, Carried(errors') \subseteq Carried(errors),
           UNCHANGED <<readerGen, roomID, reader, hold, messages, shown, conn, server, complete, beyond>>
    PROVE  ViewInv'
<1>1. ClientShapes'
  BY DEF ViewInv, ClientShapes
<1>2. ServerShapes' /\ SavedFirst'
  BY ServerFrame DEF ViewInv, ServerShapes, server
<1>3. InUse'
  BY DEF ViewInv, InUse
<1>4. Ahead'
  BY DEF ViewInv, Ahead, Entered
<1>5. OwnRooms'
  BY DEF ViewInv, OwnRooms, Carried
<1>6. EndsAreReal' /\ ReadAfter'
  BY DEF ViewInv, EndsAreReal, Over, ReadAfter
<1>7. LossIsReal' /\ ScreenShowsItsRoom'
  BY DEF ViewInv, LossIsReal, ScreenShowsItsRoom
<1>8. NothingMissing'
  BY DEF ViewInv, NothingMissing, Followed, OnScreen, OnItsWay, Carried, server
<1> QED BY <1>1, <1>2, <1>3, <1>4, <1>5, <1>6, <1>7, <1>8 DEF ViewInv

\* The reader in use fails only on a connection that broke: the client closes none
\* before it has left it.
LEMMA TakeErrorInv == ViewInv /\ TakeError => ViewInv'
<1> SUFFICES ASSUME ViewInv, TakeError PROVE ViewInv'
  OBVIOUS
<1>1. /\ pc = "loop" /\ errors # <<>> /\ errors' = Tail(errors)
      /\ pc' \in {"loop", "lost"}
      /\ pc' = "lost" => Head(errors) = readerGen
      /\ UNCHANGED <<readerGen, roomID, reader, hold, messages, shown, conn, server, complete, beyond>>
  BY DEF TakeError, IsCurrent
<1>2. /\ errors \in Seq(Gens) /\ Len(errors) <= Errors /\ Len(errors) \in Nat
  BY LenProperties DEF ViewInv, ClientShapes
<1>3. /\ errors' \in Seq(Gens) /\ Len(errors') = Len(errors) - 1
      /\ Carried(errors) = {Head(errors)} \cup Carried(errors')
  BY <1>1, <1>2, TailCarries
<1>4. pc' = "lost" => conn[readerGen].state = "broken"
  <2>1. Over(Head(errors))
    BY <1>3, ErrorsOver
  <2>2. conn[readerGen].state # "closed"
    BY <1>1 DEF ViewInv, InUse, Alive
  <2> QED BY <1>1, <2>1, <2>2 DEF Over
<1>5. Len(errors') <= Errors
  BY <1>2, <1>3, CapacityAssumption
<1> QED BY <1>1, <1>3, <1>4, <1>5, LoopStep

LEMMA InputClosesInv == ViewInv /\ InputCloses => ViewInv'
<1> SUFFICES ASSUME ViewInv, InputCloses PROVE ViewInv'
  OBVIOUS
<1>1. /\ pc = "loop" /\ pc' = "ended"
      /\ UNCHANGED <<readerGen, roomID, reader, hold, messages, errors, shown, conn, server, complete, beyond>>
  BY DEF InputCloses, End
<1> QED BY <1>1, LoopStep DEF ViewInv, ClientShapes

LEMMA TypeTextInv == ViewInv /\ TypeText => ViewInv'
<1> SUFFICES ASSUME ViewInv, TypeText PROVE ViewInv'
  OBVIOUS
<1>1. pc = "loop" /\ readerGen # 0 /\ readerGen \in Gens
  BY InUseType DEF TypeText, ViewInv, InUse
<1>2. CASE Say(readerGen, conn[readerGen].room) /\ UNCHANGED pc
  <2>1. PICK room \in Rooms : room = conn[readerGen].room
    BY <1>1 DEF ViewInv, InUse
  <2>2. PICK x \in Speakers : x = readerGen
    BY <1>1 DEF Speakers
  <2>3. Say(x, room)
    BY <1>2, <2>1, <2>2
  <2> QED BY <1>2, <2>3, SayInv DEF TypeText, client
<1>3. CASE End /\ UNCHANGED <<said, saying>>
  BY <1>1, <1>3, LoopStep DEF TypeText, End, ViewInv, ClientShapes, server
<1>4. CASE said < MaxSaid /\ said' = said + 1 /\ UNCHANGED <<saying, pc>>
  <2>1. UNCHANGED <<client, conn, saying, history, unsaved, heard, complete, beyond>>
    BY <1>4 DEF TypeText, client
  <2>2. ServerShapes'
    BY <1>4, <2>1, BoundsAssumption DEF ViewInv, ServerShapes
  <2>3. SavedFirst'
    BY <2>1 DEF ViewInv, SavedFirst, Kept
  <2>4. NothingMissing'
    BY <2>1 DEF ViewInv, NothingMissing, Followed, OnScreen, OnItsWay, Carried, client
  <2> QED BY <2>1, <2>2, <2>3, <2>4, ClientFrame, ConnFrame DEF ViewInv
<1> QED BY <1>2, <1>3, <1>4 DEF TypeText

\* A message that is skipped is one of a connection that was left.
LEMMA TakeMessageInv == ViewInv /\ TakeMessage => ViewInv'
<1> SUFFICES ASSUME ViewInv, TakeMessage PROVE ViewInv'
  OBVIOUS
<1>1. /\ messages \in Seq(Parcels) /\ Len(messages) <= Messages /\ Len(messages) \in Nat
      /\ messages # <<>> /\ messages' = Tail(messages)
  BY ParcelTypes, LenProperties DEF ViewInv, ClientShapes, TakeMessage
<1>2. PICK p \in Parcels : p = Head(messages)
  BY <1>1, TailCarries
<1>3. /\ messages' \in Seq(Parcels) /\ Len(messages') = Len(messages) - 1
      /\ Carried(messages) = {p} \cup Carried(messages')
  BY <1>1, <1>2, TailCarries
<1> DEFINE line == [msg |-> p.msg, in |-> roomID]
<1>4. /\ pc = "loop"
      /\ \/ p.gen = readerGen /\ shown' = shown \cup {line}
         \/ p.gen # readerGen /\ shown' = shown
      /\ UNCHANGED <<pc, readerGen, roomID, reader, hold, errors, conn, server, complete, beyond>>
  BY <1>2 DEF TakeMessage, IsCurrent
<1>5. readerGen # 0 /\ readerGen \in Gens /\ roomID \in Rooms /\ conn[readerGen].room = roomID
  BY <1>4, InUseType DEF ViewInv, InUse
<1>6. p.gen \in Gens /\ p.msg \in SaidMessages /\ p.msg.room = conn[p.gen].room
      /\ p = [gen |-> p.gen, msg |-> p.msg]
  BY <1>3 DEF Parcels, ViewInv, OwnRooms
<1>7. line \in Lines /\ line.msg = p.msg /\ line.in = roomID
  BY <1>5, <1>6 DEF Lines
<1> HIDE DEF line
<1>8. ClientShapes'
  BY <1>1, <1>3, <1>4, <1>7, CapacityAssumption DEF ViewInv, ClientShapes
<1>9. ServerShapes' /\ SavedFirst'
  BY <1>4, ServerFrame DEF ViewInv, ServerShapes, server
<1>10. InUse' /\ Ahead'
  BY <1>4 DEF ViewInv, InUse, Ahead, Entered
<1>11. OwnRooms'
  BY <1>3, <1>4 DEF ViewInv, OwnRooms
<1>12. EndsAreReal' /\ ReadAfter' /\ LossIsReal'
  BY <1>4 DEF ViewInv, EndsAreReal, Over, ReadAfter, LossIsReal
<1>13. ScreenShowsItsRoom'
  BY <1>4, <1>5, <1>6, <1>7 DEF ViewInv, ScreenShowsItsRoom
<1>14. NothingMissing'
  <2>1. ASSUME NEW m, OnScreen(m) \/ OnItsWay(m, readerGen)
        PROVE  OnScreen(m)' \/ OnItsWay(m, readerGen)'
    <3>1. CASE OnScreen(m)
      BY <1>4, <3>1 DEF OnScreen
    <3>2. CASE [gen |-> readerGen, msg |-> m] = p
      <4>1. p.gen = readerGen /\ p.msg = m
        BY <3>2
      <4>2. line \in shown' /\ line.msg = m
        BY <1>4, <1>7, <4>1
      <4> QED BY <4>2 DEF OnScreen
    <3>3. CASE OnItsWay(m, readerGen) /\ [gen |-> readerGen, msg |-> m] # p
      BY <1>3, <1>4, <3>3 DEF OnItsWay
    <3> QED BY <2>1, <3>1, <3>2, <3>3
  <2> QED BY <1>4, <2>1 DEF ViewInv, NothingMissing, Followed, server
<1> QED BY <1>8, <1>9, <1>10, <1>11, <1>12, <1>13, <1>14 DEF ViewInv

LEMMA TypeSwitchInv == ASSUME ViewInv, NEW room \in Rooms, TypeSwitch(room) PROVE ViewInv'
<1>1. /\ pc = "loop" /\ pc' = "switch" /\ readerGen < MaxGen
      /\ conn' = [conn EXCEPT ![readerGen + 1] = Dialed(room)]
      /\ UNCHANGED <<readerGen, roomID, reader, hold, messages, errors, shown, server, complete, beyond>>
  BY DEF TypeSwitch
<1>2. PICK g \in Gens : g = readerGen + 1
  BY <1>1, BoundsAssumption DEF Gens, ViewInv, ClientShapes
<1>3. g > readerGen /\ readerGen # 0 /\ readerGen \in Gens /\ readerGen # g
  BY <1>1, <1>2, InUseType DEF ViewInv, ClientShapes, InUse
<1>4. reader[g] = "none" /\ ~complete[g] /\ conn[g] = NoConn
  BY <1>1, <1>3 DEF ViewInv, Ahead, Entered
<1>5. /\ conn' \in [Gens -> Conns]
      /\ conn'[g].room = room /\ conn'[g].state = "dialed" /\ Carried(conn'[g].wire) = {}
      /\ \A h \in Gens : h # g => conn'[h] = conn[h]
  BY <1>1, <1>2, DialedType DEF ViewInv, ServerShapes
<1>6. ClientShapes'
  BY <1>1 DEF ViewInv, ClientShapes
<1>7. ServerShapes' /\ SavedFirst'
  BY <1>1, <1>5, ServerFrame DEF ViewInv, ServerShapes, server
<1>8. InUse'
  BY <1>1, <1>3, <1>5 DEF ViewInv, InUse
<1>9. Ahead'
  BY <1>1, <1>2, <1>4, <1>5 DEF ViewInv, Ahead, Entered, Alive
<1>10. OwnRooms'
  <2>1. \A p \in Carried(messages) : p.gen \in Gens /\ p.gen # g
    <3>1. \A p \in Carried(messages) : p.gen \in Gens /\ p.gen <= readerGen
      BY ParcelTypes DEF ViewInv, OwnRooms
    <3>2. g \in Nat /\ readerGen \in Nat
      BY <1>3, GenType
    <3> QED BY <1>3, <3>1, <3>2
  <2> QED BY <1>1, <1>4, <1>5, <2>1 DEF ViewInv, OwnRooms
<1>11. EndsAreReal'
  <2>1. \A h \in Carried(errors) : h \in Gens /\ h # g
    BY <1>4, ErrorsOver, NoConnType DEF Over
  <2> QED BY <1>1, <1>4, <1>5, <2>1 DEF ViewInv, EndsAreReal, Over
<1>12. ReadAfter' /\ LossIsReal' /\ ScreenShowsItsRoom'
  BY <1>1, <1>4, <1>5 DEF ViewInv, ReadAfter, LossIsReal, ScreenShowsItsRoom
<1>13. NothingMissing'
  <2>1. conn'[readerGen] = conn[readerGen]
    BY <1>3, <1>5
  <2> QED BY <1>1, <2>1 DEF ViewInv, NothingMissing, Followed, OnScreen, OnItsWay, server
<1> QED BY <1>6, <1>7, <1>8, <1>9, <1>10, <1>11, <1>12, <1>13 DEF ViewInv

\* What the old connection has still to deliver stays of its own room.
LEMMA SwitchInv == ViewInv /\ Switch => ViewInv'
<1> SUFFICES ASSUME ViewInv, Switch PROVE ViewInv'
  OBVIOUS
<1>1. pc = "switch" /\ readerGen < MaxGen /\ readerGen # 0 /\ readerGen \in Gens
  BY InUseType DEF Switch, ViewInv, InUse
<1>2. PICK g \in Gens : g = readerGen + 1
  BY <1>1, BoundsAssumption DEF Gens
<1>3. PICK old \in Gens : old = readerGen
  BY <1>1
<1>4. g > old /\ g # old /\ old \in Nat /\ g \in Nat /\ g = old + 1
  BY <1>2, <1>3, GenType
<1> DEFINE left == [conn[old] EXCEPT !.state = "closed"]
<1>5. /\ pc' = "history" /\ readerGen' = g /\ roomID' = conn[g].room
      /\ reader' = [reader EXCEPT ![g] = "reading"]
      /\ conn' = [conn EXCEPT ![old] = left]
      /\ UNCHANGED <<hold, messages, errors, shown, server, complete, beyond>>
  BY <1>2, <1>3 DEF Switch, Started, LeaveOld
<1>6. /\ reader[g] = "none" /\ ~complete[g]
      /\ conn[g].room \in Rooms /\ conn[g].state \in Alive
  BY <1>1, <1>2, <1>3, <1>4 DEF ViewInv, Ahead, Entered
<1>7. /\ left \in Conns /\ left.room = conn[old].room /\ left.wire = conn[old].wire
      /\ left.state = "closed"
  <2>1. conn[old] \in Conns
    BY DEF ViewInv, ServerShapes
  <2> QED BY <2>1 DEF Conns, States
<1> HIDE DEF left
<1>8. /\ conn' \in [Gens -> Conns]
      /\ \A h \in Gens : conn'[h].room = conn[h].room /\ conn'[h].wire = conn[h].wire
      /\ \A h \in Gens : h # old => conn'[h] = conn[h]
      /\ conn'[old].state = "closed"
  BY <1>5, <1>7 DEF ViewInv, ServerShapes
<1>9. /\ \A h \in Gens : h # g => reader'[h] = reader[h]
      /\ reader'[g] = "reading" /\ hold[g] = None
  BY <1>5, <1>6 DEF ViewInv, ClientShapes
<1>10. ClientShapes'
  <2>1. g \in 0 .. MaxGen
    BY DEF Gens
  <2>2. \A h \in Gens : hold[h] = None <=> reader'[h] # "push"
    BY <1>9 DEF ViewInv, ClientShapes
  <2> QED BY <1>5, <1>6, <2>1, <2>2 DEF ViewInv, ClientShapes
<1>11. ServerShapes' /\ SavedFirst'
  BY <1>5, <1>8, ServerFrame DEF ViewInv, ServerShapes, server
<1>12. InUse'
  BY <1>4, <1>5, <1>6, <1>8 DEF InUse
<1>13. Ahead'
  <2>1. ASSUME NEW h \in Gens, h > g
        PROVE  reader'[h] = "none" /\ ~complete[h] /\ conn'[h] = NoConn
    <3>1. h > readerGen /\ h # readerGen + 1 /\ h # old /\ h # g
      BY <1>2, <1>3, <1>4, <2>1, GenType
    <3> QED BY <1>8, <1>9, <3>1 DEF ViewInv, Ahead, Entered
  <2> QED BY <1>5, <2>1 DEF Ahead, Entered
<1>14. OwnRooms'
  <2>1. ASSUME NEW p \in Carried(messages) PROVE p.gen \in Gens /\ p.gen <= g
    <3>1. p.gen \in Gens /\ p.gen <= readerGen
      BY ParcelTypes DEF ViewInv, OwnRooms
    <3>2. p.gen \in Nat
      BY <3>1, GenType
    <3> QED BY <1>3, <1>4, <3>1, <3>2
  <2> QED BY <1>5, <1>8, <1>9, <2>1 DEF ViewInv, OwnRooms
<1>15. EndsAreReal'
  <2>1. ASSUME NEW h \in Gens, Over(h) PROVE conn'[h].state \in {"broken", "closed"}
    BY <1>8, <2>1 DEF Over
  <2> QED BY <1>5, <1>9, <2>1, ErrorsOver DEF ViewInv, EndsAreReal, Over
<1>16. ReadAfter'
  <2>1. ASSUME NEW h \in Gens, complete[h] PROVE conn'[h].state \in Settled
    BY <1>8, <2>1 DEF ViewInv, ReadAfter, Settled
  <2> QED BY <1>5, <2>1 DEF ReadAfter
<1>17. LossIsReal' /\ ScreenShowsItsRoom'
  BY <1>5 DEF ViewInv, LossIsReal, ScreenShowsItsRoom
<1>18. NothingMissing'
  BY <1>5, <1>6 DEF NothingMissing, Followed
<1> QED BY <1>10, <1>11, <1>12, <1>13, <1>14, <1>15, <1>16, <1>17, <1>18 DEF ViewInv

-----------------------------------------------------------------------------
(* The theorems.                                                           *)

LEMMA InitInv == Init => ViewInv
<1> SUFFICES ASSUME Init PROVE ViewInv
  OBVIOUS
<1>1. \A S : <<>> \in Seq(S) /\ Len(<<>>) = 0
  BY EmptySeq
<1>2. 0 \in 0 .. MaxGen /\ 0 \in 0 .. MaxSaid
  BY BoundsAssumption
<1>3. Carried(messages) = {} /\ Carried(errors) = {}
  BY EmptyCarries DEF Init
<1>4. ClientShapes
  BY <1>1, <1>2, CapacityAssumption DEF Init, ClientShapes
<1>5. ServerShapes
  BY <1>2, NoConnType DEF Init, ServerShapes
<1>6. InUse
  BY DEF Init, InUse
<1>7. Ahead
  BY DEF Init, Ahead, Entered
<1>8. OwnRooms
  BY <1>3, NoConnType DEF Init, OwnRooms
<1>9. EndsAreReal /\ ReadAfter /\ NothingMissing
  BY <1>3 DEF Init, EndsAreReal, ReadAfter, NothingMissing
<1>10. SavedFirst
  BY DEF Init, SavedFirst
<1>11. LossIsReal /\ ScreenShowsItsRoom
  BY DEF Init, LossIsReal, ScreenShowsItsRoom
<1> QED BY <1>4, <1>5, <1>6, <1>7, <1>8, <1>9, <1>10, <1>11 DEF ViewInv

LEMMA SameInv == ViewInv /\ UNCHANGED vars => ViewInv'
<1> SUFFICES ASSUME ViewInv, UNCHANGED vars PROVE ViewInv'
  OBVIOUS
<1>1. UNCHANGED <<client, conn, complete, beyond>> /\ UNCHANGED server
  BY DEF vars
<1>2. ServerShapes'
  BY <1>1 DEF ViewInv, ServerShapes, server
<1>3. NothingMissing'
  BY <1>1 DEF ViewInv, NothingMissing, Followed, OnScreen, OnItsWay, Carried, client, server
<1> QED BY <1>1, <1>2, <1>3, ClientFrame, ConnFrame, ServerFrame DEF ViewInv

LEMMA NextInv == ViewInv /\ [Next]_vars => ViewInv'
<1> SUFFICES ASSUME ViewInv, [Next]_vars PROVE ViewInv'
  OBVIOUS
<1>1. ASSUME NEW room \in Rooms, SomeoneSpeaks(room) PROVE ViewInv'
  <2>1. PICK x \in Speakers : x = Others
    BY DEF Speakers
  <2> QED BY <1>1, <2>1, SayInv DEF SomeoneSpeaks
<1>2. ASSUME NEW room \in Rooms, TypeSwitch(room) PROVE ViewInv'
  BY <1>2, TypeSwitchInv
<1>3. ASSUME NEW x \in Speakers, Serve(x) PROVE ViewInv'
  BY <1>3, SaveInv, BroadcastInv DEF Serve
<1>4. ASSUME NEW g \in Gens, ConnectionStep(g) PROVE ViewInv'
  BY <1>4, RegisterInv, BreakInv, ReadMessageInv, ReadFailsInv, PushMessageInv, PushErrorInv
  DEF ConnectionStep
<1>5. CASE Join \/ Greet \/ TakeError \/ TakeMessage \/ TypeText \/ InputCloses \/ Switch \/ PrintHistory
  BY <1>5, JoinInv, GreetInv, TakeErrorInv, TakeMessageInv, TypeTextInv, InputClosesInv,
     SwitchInv, PrintHistoryInv
<1>6. CASE UNCHANGED vars
  BY <1>6, SameInv
<1> QED BY <1>1, <1>2, <1>3, <1>4, <1>5, <1>6 DEF Next

\* The invariant: a message keeps its room wherever it waits, and what is not on
\* the screen yet is on its way there.
THEOREM ViewInvariance == Spec => []ViewInv
BY InitInv, NextInv, PTL DEF Spec

\* Types, and the capacities of the client's channels.
THEOREM ViewTypes == Spec => []TypeOK
BY ViewInvariance, InvSafe, PTL

\* The screen shows messages of the room it names and of no other, whatever was on
\* its way when the room was switched.
THEOREM ScreenShows == Spec => []ScreenShowsItsRoom
BY ViewInvariance, InvSafe, PTL

\* The client gives up only on a connection in use that broke.
THEOREM LossReal == Spec => []LossIsReal
BY ViewInvariance, InvSafe, PTL

\* Between the history and the live messages nothing is lost.
THEOREM HistoryMeets == Spec => []HistoryMeetsLive
BY ViewInvariance, InvSafe, PTL

=============================================================================
