---------------------------- MODULE NotifyProofs ----------------------------
(***************************************************************************)
(* Proofs about the notifications, for any number of clients, listeners    *)
(* and commands, and however many datagrams are lost.                      *)
(*                                                                         *)
(* What a listener may conclude from an answer rests on where its requests *)
(* and their answers are: the server's queue keeps their order, and the    *)
(* address of a listener is its own for ever.                              *)
(***************************************************************************)
EXTENDS Notify, SequenceTheorems, FiniteSetTheorems, TLAPS

Datagrams == [kind: Kinds, id: Ids, port: Ports]
Messages == [kind: Answers, epoch: Nat]
FreePorts == Ports \ LisPorts

Shapes ==
    /\ clients \in [Ids -> Ports \cup {None}] /\ IsFiniteSet(Registered(clients))
    /\ queue \in Seq(Datagrams)
    /\ owner \in [Ports -> Listeners \cup Commands \cup {None}]
    /\ rcv \in [Ports -> Seq(Messages)]
    /\ cmd \in [Commands -> [pc: {"idle", "waiting", "ok", "error", "sent"},
                             kind: Kinds \cup {None}, id: Ids \cup {None},
                             port: Ports \cup {None}]]
    /\ lis \in [Listeners -> [pc: {"off", "joining", "on", "leaving"}, epoch: Nat]]
    /\ sends \in [Listeners -> Nat]
    /\ restarts \in Nat
    /\ known \in [Commands -> SUBSET Ids]

\* Who has which socket.
SocketInv ==
    /\ \A p \in LisPorts : owner[p] \in Listeners
    /\ \A p \in FreePorts : owner[p] \in Commands \cup {None}
    /\ \A c \in Commands : Waiting(c) => cmd[c].port \in FreePorts
    /\ \A p \in FreePorts : \A c \in Commands : owner[p] = c <=> Waiting(c) /\ cmd[c].port = p
    /\ \A p \in Ports : owner[p] = None => rcv[p] = <<>>

\* Whose id a datagram bears: a command's, or that of the listener that sent it.
SenderInv ==
    /\ \A c \in Commands : cmd[c].pc = "idle" => cmd[c].id = None
    /\ \A i \in DOMAIN queue :
        \/ \E c \in Commands : cmd[c].id = queue[i].id
        \/ \E k \in Listeners : PortOf[k] = queue[i].port /\ IdOf[k] = queue[i].id

\* What is on the way from a command that waits is what it sent, and a test is
\* answered "ok" only if its id was registered.
CommandOf(c) ==
    Waiting(c) =>
        /\ \A i \in DOMAIN queue : queue[i].port = cmd[c].port =>
                queue[i] = Datagram(cmd[c].kind, cmd[c].id, cmd[c].port)
        /\ cmd[c].kind = "test" => \A i \in DOMAIN rcv[cmd[c].port] :
                rcv[cmd[c].port][i].kind = "ok" => cmd[c].id \in known[c]

\* The i-th datagram on its way to the server is l's; the i-th that l has received
\* is of the kind.
Sent(l, i) == i \in DOMAIN queue /\ queue[i].port = PortOf[l]
Got(l, i, kind) == i \in DOMAIN rcv[PortOf[l]] /\ rcv[PortOf[l]][i].kind = kind

\* Nothing of l's is on its way to the server.
Quiet(l) == \A i \in DOMAIN queue : queue[i].port # PortOf[l]

\* At its own address a listener registers its own id only, and while it is off
\* nothing is on its way to it or from it.
AddressOf(l) ==
    /\ \A i \in DOMAIN queue : Sent(l, i) =>
            queue[i].id = IdOf[l] /\ queue[i].kind \in {"register", "notify", "unregister"}
    /\ \A id \in Ids : clients[id] = PortOf[l] => id = IdOf[l]
    /\ lis[l].pc = "off" => /\ Quiet(l) /\ rcv[PortOf[l]] = <<>>
                            /\ clients[IdOf[l]] # PortOf[l]

\* It registers once at a time, and nothing else meanwhile.
JoiningOf(l) ==
    /\ \A i \in DOMAIN queue : Sent(l, i) /\ queue[i].kind = "register" =>
            /\ lis[l].pc = "joining"
            /\ \A j \in DOMAIN queue : Sent(l, j) => j = i
            /\ \A k \in DOMAIN rcv[PortOf[l]] : ~Got(l, k, "register_ack")
    /\ \A k \in DOMAIN rcv[PortOf[l]] : Got(l, k, "register_ack") =>
            /\ lis[l].pc = "joining" /\ Quiet(l)
            /\ \A j \in DOMAIN rcv[PortOf[l]] : Got(l, j, "register_ack") => j = k

\* Its unregister is the last that it sends, and the answer the last that it gets.
LeavingOf(l) ==
    /\ \A i \in DOMAIN queue : Sent(l, i) /\ queue[i].kind = "unregister" =>
            /\ lis[l].pc = "leaving"
            /\ \A j \in DOMAIN queue : Sent(l, j) => j <= i
            /\ \A k \in DOMAIN rcv[PortOf[l]] : ~Got(l, k, "unregister_ack")
    /\ \A k \in DOMAIN rcv[PortOf[l]] : Got(l, k, "unregister_ack") =>
            /\ lis[l].pc = "leaving" /\ Quiet(l)
            /\ clients[IdOf[l]] # PortOf[l]
            /\ k = Len(rcv[PortOf[l]])

\* An acknowledgement of this run of the server is true until it is taken back.
ServedOf(l) ==
    /\ lis[l].epoch <= restarts
    /\ \A k \in DOMAIN rcv[PortOf[l]] : rcv[PortOf[l]][k].epoch <= restarts
    /\ ~Disturbed(l) =>
        /\ lis[l].pc = "on" /\ lis[l].epoch = restarts => clients[IdOf[l]] = PortOf[l]
        /\ \A k \in DOMAIN rcv[PortOf[l]] :
            Got(l, k, "register_ack") /\ rcv[PortOf[l]][k].epoch = restarts
                => clients[IdOf[l]] = PortOf[l]

ListenerOf(l) == AddressOf(l) /\ JoiningOf(l) /\ LeavingOf(l) /\ ServedOf(l)

NInv ==
    /\ Shapes /\ SocketInv /\ SenderInv /\ OkMeansRegistered
    /\ \A c \in Commands : CommandOf(c)
    /\ \A l \in Listeners : ListenerOf(l)

-----------------------------------------------------------------------------
(* Facts about the operators.                                              *)

LEMMA ListenerType ==
    ASSUME NEW l \in Listeners
    PROVE  /\ PortOf[l] \in LisPorts /\ PortOf[l] \in Ports /\ IdOf[l] \in Ids
           /\ \A k \in Listeners : PortOf[k] = PortOf[l] => k = l
BY ListenersAssumption DEF LisPorts, Range

LEMMA Indices ==
    ASSUME NEW S, NEW s \in Seq(S)
    PROVE  DOMAIN s = 1 .. Len(s) /\ Len(s) \in Nat /\ \A i \in DOMAIN s : s[i] \in S
BY LenProperties, ElementOfSeq

\* What is left of a queue is one place further on.
LEMMA TailShifts ==
    ASSUME NEW S, NEW s \in Seq(S), s # <<>>
    PROVE  /\ Head(s) = s[1] /\ Head(s) \in S /\ 1 \in DOMAIN s
           /\ Tail(s) \in Seq(S) /\ Len(Tail(s)) = Len(s) - 1
           /\ \A i \in DOMAIN Tail(s) : i + 1 \in DOMAIN s /\ Tail(s)[i] = s[i + 1]
           /\ DOMAIN Tail(s) = 1 .. Len(s) - 1
<1>1. Head(s) \in S /\ Tail(s) \in Seq(S) /\ Len(Tail(s)) = Len(s) - 1
      /\ \A i \in 1 .. Len(Tail(s)) : Tail(s)[i] = s[i + 1]
  BY HeadTailProperties
<1>2. DOMAIN s = 1 .. Len(s) /\ Len(s) \in Nat
  BY Indices
<1>3. DOMAIN Tail(s) = 1 .. Len(s) - 1
  BY <1>1, Indices
<1>4. Len(s) >= 1
  BY <1>2, EmptySeq
<1>5. Head(s) = s[1]
  OBVIOUS
<1> QED BY <1>1, <1>2, <1>3, <1>4, <1>5

LEMMA AppendKeeps ==
    ASSUME NEW S, NEW s \in Seq(S), NEW x \in S
    PROVE  /\ Append(s, x) \in Seq(S)
           /\ DOMAIN s = 1 .. Len(s) /\ Len(s) \in Nat
           /\ DOMAIN Append(s, x) = 1 .. Len(s) + 1
           /\ \A i \in DOMAIN s : Append(s, x)[i] = s[i]
           /\ Append(s, x)[Len(s) + 1] = x
<1>1. Append(s, x) \in Seq(S) /\ Len(Append(s, x)) = Len(s) + 1
      /\ (\A i \in 1 .. Len(s) : Append(s, x)[i] = s[i]) /\ Append(s, x)[Len(s) + 1] = x
  BY AppendProperties
<1> QED BY <1>1, Indices

\* What a socket received is still there, and the rest is what the server sent.
Extended(p, out) ==
    /\ Len(rcv[p]) <= Len(rcv'[p])
    /\ \A i \in DOMAIN rcv[p] : rcv'[p][i] = rcv[p][i]
    /\ \A i \in DOMAIN rcv'[p] : i > Len(rcv[p]) =>
        /\ i - Len(rcv[p]) \in DOMAIN out
        /\ rcv'[p][i] = [kind |-> out[i - Len(rcv[p])], epoch |-> restarts]
    /\ out = <<>> => rcv'[p] = rcv[p]

LEMMA StampedType ==
    ASSUME Shapes, NEW s \in Seq(Answers)
    PROVE  [i \in DOMAIN s |-> [kind |-> s[i], epoch |-> restarts]] \in Seq(Messages)
<1>1. DOMAIN s = 1 .. Len(s) /\ Len(s) \in Nat /\ \A i \in DOMAIN s : s[i] \in Answers
  BY Indices
<1>2. [i \in DOMAIN s |-> [kind |-> s[i], epoch |-> restarts]] \in [1 .. Len(s) -> Messages]
  BY <1>1 DEF Shapes, Messages
<1> QED BY <1>1, <1>2, SeqDef

LEMMA AnswerExtends ==
    ASSUME Shapes, NEW out \in [Ports -> Seq(Answers)], Answer(out)
    PROVE  /\ rcv' \in [Ports -> Seq(Messages)]
           /\ \A p \in Ports : Extended(p, out[p])
           /\ \A p \in Ports : owner[p] = None => rcv'[p] = rcv[p]
<1> DEFINE Stamped(p) == [i \in DOMAIN out[p] |-> [kind |-> out[p][i], epoch |-> restarts]]
<1>1. PICK lost \in SUBSET Ports :
        rcv' = [p \in Ports |-> IF owner[p] = None \/ p \in lost THEN rcv[p] ELSE rcv[p] \o Stamped(p)]
  BY DEF Answer
<1>2. ASSUME NEW p \in Ports
      PROVE  /\ rcv'[p] \in Seq(Messages) /\ Extended(p, out[p])
             /\ owner[p] = None => rcv'[p] = rcv[p]
  <2>1. rcv[p] \in Seq(Messages) /\ Stamped(p) \in Seq(Messages)
    BY StampedType DEF Shapes
  <2>2. CASE owner[p] = None \/ p \in lost
    <3>1. rcv'[p] = rcv[p]
      BY <1>1, <2>2
    <3> QED BY <2>1, <3>1, Indices DEF Extended
  <2>3. CASE ~(owner[p] = None \/ p \in lost)
    <3>1. rcv'[p] = rcv[p] \o Stamped(p)
      BY <1>1, <2>3
    <3>2. DOMAIN Stamped(p) = DOMAIN out[p] /\ DOMAIN Stamped(p) = 1 .. Len(Stamped(p))
      BY <2>1, Indices
    <3>3. \A i \in DOMAIN out[p] : Stamped(p)[i] = [kind |-> out[p][i], epoch |-> restarts]
      OBVIOUS
    <3>4. out[p] = <<>> => Stamped(p) = <<>>
      <4>1. out[p] = <<>> => DOMAIN out[p] = {}
        BY EmptySeq
      <4>2. DOMAIN Stamped(p) = {} => Len(Stamped(p)) = 0
        BY <2>1, <3>2, LenProperties
      <4> QED BY <2>1, <3>2, <4>1, <4>2, EmptySeq
    <3> HIDE DEF Stamped
    <3>5. /\ rcv'[p] \in Seq(Messages) /\ Len(rcv'[p]) = Len(rcv[p]) + Len(Stamped(p))
          /\ \A i \in 1 .. Len(rcv[p]) + Len(Stamped(p)) : rcv'[p][i] =
                IF i <= Len(rcv[p]) THEN rcv[p][i] ELSE Stamped(p)[i - Len(rcv[p])]
      BY <2>1, <3>1, ConcatProperties
    <3>6. /\ DOMAIN rcv[p] = 1 .. Len(rcv[p]) /\ Len(rcv[p]) \in Nat /\ Len(Stamped(p)) \in Nat
          /\ DOMAIN rcv'[p] = 1 .. Len(rcv'[p])
      BY <2>1, <3>5, Indices
    <3>7. out[p] = <<>> => rcv'[p] = rcv[p]
      BY <2>1, <3>1, <3>4, ConcatEmptySeq
    <3>8. \A i \in DOMAIN rcv'[p] : i > Len(rcv[p]) => i - Len(rcv[p]) \in DOMAIN Stamped(p)
      BY <3>2, <3>5, <3>6
    <3>9. \A i \in DOMAIN rcv'[p] : i > Len(rcv[p]) =>
            rcv'[p][i] = [kind |-> out[p][i - Len(rcv[p])], epoch |-> restarts]
      BY <3>2, <3>3, <3>5, <3>6, <3>8
    <3> QED BY <2>3, <3>2, <3>5, <3>6, <3>7, <3>8, <3>9 DEF Extended
  <2> QED BY <2>2, <2>3
<1> QED BY <1>1, <1>2

\* A broadcast is a notification for each id, and each id has one address.
LEMMA BroadcastType ==
    ASSUME Shapes
    PROVE  /\ Broadcast \in [Ports -> Seq(Answers)]
           /\ \A p \in Ports : \A i \in DOMAIN Broadcast[p] : Broadcast[p][i] = "notification"
           /\ \A p \in Ports : (\A id \in Ids : clients[id] # p) => Broadcast[p] = <<>>
<1>1. ASSUME NEW p \in Ports
      PROVE  /\ Broadcast[p] \in Seq(Answers)
             /\ \A i \in DOMAIN Broadcast[p] : Broadcast[p][i] = "notification"
             /\ (\A id \in Ids : clients[id] # p) => Broadcast[p] = <<>>
  <2> DEFINE S == {id \in Ids : clients[id] = p}
  <2>1. IsFiniteSet(S) /\ Cardinality(S) \in Nat
    <3>1. S \subseteq Registered(clients)
      BY ListenersAssumption DEF Registered
    <3> QED BY <3>1, FS_Subset, FS_CardinalityType DEF Shapes
  <2>2. PICK n \in Nat : n = Cardinality(S)
    BY <2>1
  <2>3. Broadcast[p] = [i \in 1 .. n |-> "notification"]
    BY <2>2 DEF Broadcast
  <2>4. Broadcast[p] \in [1 .. n -> Answers]
    BY <2>3 DEF Answers
  <2>5. Broadcast[p] \in Seq(Answers)
    BY <2>4, SeqDef
  <2>6. ASSUME \A id \in Ids : clients[id] # p PROVE Broadcast[p] = <<>>
    <3>1. S = {}
      BY <2>6
    <3>2. n = 0
      BY <2>2, <3>1, FS_EmptySet
    <3>3. ~(1 \in DOMAIN Broadcast[p])
      BY <2>3, <3>2
    <3> HIDE DEF S
    <3>4. ~(Len(Broadcast[p]) \in Nat \ {0})
      BY <2>5, <3>3, LenProperties
    <3> QED BY <2>5, <3>4, EmptySeq
  <2> QED BY <2>3, <2>5, <2>6
<1>2. DOMAIN Broadcast = Ports /\ Broadcast = [p \in Ports |-> Broadcast[p]]
  BY DEF Broadcast
<1> QED BY <1>1, <1>2

LEMMA ToType ==
    ASSUME NEW port \in Ports, NEW kind \in Answers
    PROVE  /\ To(port, kind) \in [Ports -> Seq(Answers)]
           /\ \A p \in Ports : p # port => To(port, kind)[p] = <<>>
           /\ To(port, kind)[port] = <<kind>>
BY EmptySeq DEF To

-----------------------------------------------------------------------------
(* What the invariant says.                                                *)

LEMMA InvParts ==
    ASSUME NInv
    PROVE  /\ Shapes /\ SocketInv /\ SenderInv /\ OkMeansRegistered
           /\ \A c \in Commands : CommandOf(c)
           /\ \A l \in Listeners :
                AddressOf(l) /\ JoiningOf(l) /\ LeavingOf(l) /\ ServedOf(l)
BY DEF NInv, ListenerOf

LEMMA InvType == NInv => TypeOK
<1> SUFFICES ASSUME NInv PROVE TypeOK
  OBVIOUS
<1>1. Shapes /\ SocketInv
  BY InvParts
<1>2. \A i \in DOMAIN queue : queue[i] \in Datagrams
  BY <1>1, Indices DEF Shapes
<1>3. \A p \in Ports : \A i \in DOMAIN rcv[p] : rcv[p][i] \in Messages
  BY <1>1, Indices DEF Shapes
<1>4. \A p \in Ports \ LisPorts, c \in Commands : owner[p] = c <=> Waiting(c) /\ cmd[c].port = p
  BY <1>1 DEF SocketInv, FreePorts
<1>5. /\ \A c \in Commands : cmd[c].pc \in {"idle", "waiting", "ok", "error", "sent"}
      /\ \A l \in Listeners : lis[l].pc \in {"off", "joining", "on", "leaving"}
      /\ \A c \in Commands : known[c] \subseteq Ids
      /\ clients \in [Ids -> Ports \cup {None}]
  BY <1>1 DEF Shapes
<1> QED BY <1>2, <1>3, <1>4, <1>5 DEF TypeOK, Datagrams, Messages

LEMMA InvSafe == NInv => AckedAreServed /\ LeftAreNotTold /\ OkMeansRegistered
<1> SUFFICES ASSUME NInv PROVE AckedAreServed /\ LeftAreNotTold /\ OkMeansRegistered
  OBVIOUS
<1>1. AckedAreServed
  BY InvParts DEF ServedOf, AckedAreServed
<1>2. ASSUME NEW l \in Listeners, NEW i \in Received(l, "notification")
      PROVE  lis[l].pc # "off" /\ \A k \in Received(l, "unregister_ack") : i < k
  <2>1. AddressOf(l) /\ LeavingOf(l) /\ rcv[PortOf[l]] \in Seq(Messages)
    BY InvParts, ListenerType DEF Shapes
  <2>2. /\ i \in DOMAIN rcv[PortOf[l]] /\ rcv[PortOf[l]][i].kind = "notification"
        /\ DOMAIN rcv[PortOf[l]] = 1 .. Len(rcv[PortOf[l]]) /\ Len(rcv[PortOf[l]]) \in Nat
    BY <1>2, <2>1, Indices DEF Received
  <2>3. lis[l].pc # "off"
    BY <2>1, <2>2, EmptySeq DEF AddressOf
  <2>4. ASSUME NEW k \in Received(l, "unregister_ack") PROVE i < k
    <3>1. Got(l, k, "unregister_ack") /\ k \in DOMAIN rcv[PortOf[l]]
      BY DEF Received, Got
    <3>2. k = Len(rcv[PortOf[l]]) /\ i # k
      BY <2>1, <2>2, <3>1 DEF LeavingOf, Got
    <3> QED BY <2>2, <3>2
  <2> QED BY <2>3, <2>4
<1> QED BY <1>1, <1>2, InvParts DEF LeftAreNotTold

LEMMA InitInv == Init => NInv
<1> SUFFICES ASSUME Init PROVE NInv
  OBVIOUS
<1> USE DEF Init
<1>1. queue = <<>> /\ queue \in Seq(Datagrams) /\ DOMAIN queue = {}
      /\ \A p \in Ports : rcv[p] = <<>> /\ rcv[p] \in Seq(Messages) /\ DOMAIN rcv[p] = {}
  BY EmptySeq
<1>2. Registered(clients) = {}
  BY DEF Registered
<1>3. \A p \in LisPorts : \E l \in Listeners : PortOf[l] = p
  BY ListenersAssumption DEF LisPorts, Range
<1>4. \A p \in Ports : IF p \in LisPorts THEN owner[p] \in Listeners ELSE owner[p] = None
  BY <1>3
<1>5. Shapes
  <2>1. owner \in [Ports -> Listeners \cup Commands \cup {None}]
    BY <1>4
  <2> QED BY <1>1, <1>2, <2>1, FS_EmptySet DEF Shapes
<1>6. SocketInv
  <2>1. LisPorts \subseteq Ports
    BY ListenersAssumption DEF LisPorts, Range
  <2>2. \A c \in Commands : ~Waiting(c)
    BY DEF Waiting
  <2>3. \A p \in FreePorts : owner[p] = None
    BY <1>4 DEF FreePorts
  <2>4. \A p \in LisPorts : owner[p] \in Listeners
    BY <1>4, <2>1
  <2>5. \A p \in FreePorts : \A c \in Commands : owner[p] = c <=> Waiting(c) /\ cmd[c].port = p
    BY <2>2, <2>3, ListenersAssumption
  <2> QED BY <1>1, <2>2, <2>3, <2>4, <2>5 DEF SocketInv
<1>7. SenderInv /\ OkMeansRegistered /\ \A c \in Commands : CommandOf(c)
  BY <1>1 DEF SenderInv, OkMeansRegistered, CommandOf, Waiting
<1>8. ASSUME NEW l \in Listeners PROVE ListenerOf(l)
  <2>1. PortOf[l] \in Ports /\ IdOf[l] \in Ids /\ \A id \in Ids : clients[id] # PortOf[l]
    BY ListenerType, ListenersAssumption
  <2>2. lis[l].pc = "off" /\ lis[l].epoch = 0 /\ restarts = 0
    OBVIOUS
  <2>3. AddressOf(l) /\ JoiningOf(l)
    BY <1>1, <2>1, <2>2 DEF AddressOf, JoiningOf, Quiet
  <2>4. LeavingOf(l) /\ ServedOf(l)
    BY <1>1, <2>1, <2>2 DEF LeavingOf, ServedOf
  <2> QED BY <2>3, <2>4 DEF ListenerOf
<1> QED BY <1>5, <1>6, <1>7, <1>8 DEF NInv

-----------------------------------------------------------------------------
(* A listener, while the server takes a datagram from its queue.           *)

\* The acknowledgements, which a listener waits for.
Acks == {"register_ack", "unregister_ack"}

\* The queue moves up.
Taken == queue # <<>> /\ queue' = Tail(queue)

LEMMA TakenShape ==
    ASSUME Shapes, Taken
    PROVE  /\ Head(queue) \in Datagrams /\ Head(queue) = queue[1] /\ 1 \in DOMAIN queue
           /\ queue' \in Seq(Datagrams)
           /\ DOMAIN queue = 1 .. Len(queue) /\ Len(queue) \in Nat
           /\ DOMAIN queue' = 1 .. Len(queue) - 1
           /\ \A i \in DOMAIN queue' : i + 1 \in DOMAIN queue /\ queue'[i] = queue[i + 1]
BY TailShifts, Indices DEF Shapes, Taken

\* Its datagrams keep their order, and none comes to those it sent.
LEMMA SentShifts ==
    ASSUME Shapes, Taken, NEW l \in Listeners
    PROVE  /\ \A i \in DOMAIN queue' : Sent(l, i)' =>
                Sent(l, i + 1) /\ queue'[i] = queue[i + 1] /\ i + 1 \in DOMAIN queue
           /\ Quiet(l) => Quiet(l)'
BY TakenShape DEF Sent, Quiet

\* What it has got is what it had, or was sent by this step.
LEMMA GotShape ==
    ASSUME Shapes, NEW l \in Listeners, NEW out \in Seq(Answers), rcv' \in [Ports -> Seq(Messages)],
           Extended(PortOf[l], out)
    PROVE  /\ DOMAIN rcv[PortOf[l]] = 1 .. Len(rcv[PortOf[l]]) /\ Len(rcv[PortOf[l]]) \in Nat
           /\ DOMAIN rcv'[PortOf[l]] = 1 .. Len(rcv'[PortOf[l]]) /\ Len(rcv'[PortOf[l]]) \in Nat
           /\ \A k \in DOMAIN rcv'[PortOf[l]] :
                \/ k \in DOMAIN rcv[PortOf[l]] /\ rcv'[PortOf[l]][k] = rcv[PortOf[l]][k]
                \/ /\ k > Len(rcv[PortOf[l]]) /\ k - Len(rcv[PortOf[l]]) \in DOMAIN out
                   /\ rcv'[PortOf[l]][k].kind = out[k - Len(rcv[PortOf[l]])]
                   /\ rcv'[PortOf[l]][k].epoch = restarts
<1> DEFINE s == rcv[PortOf[l]]
           t == rcv'[PortOf[l]]
<1>1. s \in Seq(Messages) /\ t \in Seq(Messages)
  BY ListenerType DEF Shapes
<1>2. /\ \A i \in DOMAIN s : t[i] = s[i]
      /\ \A i \in DOMAIN t : i > Len(s) =>
            /\ i - Len(s) \in DOMAIN out
            /\ t[i] = [kind |-> out[i - Len(s)], epoch |-> restarts]
  BY DEF Extended
<1> HIDE DEF s, t
<1>3. DOMAIN s = 1 .. Len(s) /\ Len(s) \in Nat /\ DOMAIN t = 1 .. Len(t) /\ Len(t) \in Nat
  BY <1>1, Indices
<1>4. ASSUME NEW k \in DOMAIN t
      PROVE  \/ k \in DOMAIN s /\ t[k] = s[k]
             \/ /\ k > Len(s) /\ k - Len(s) \in DOMAIN out
                /\ t[k].kind = out[k - Len(s)] /\ t[k].epoch = restarts
  BY <1>2, <1>3
<1> QED BY <1>3, <1>4 DEF s, t

LEMMA DisturbedStays ==
    ASSUME NEW l \in Listeners, \A c \in Commands : cmd[c].id # None => cmd'[c].id = cmd[c].id,
           ~Disturbed(l)'
    PROVE  ~Disturbed(l)
BY ListenerType, ListenersAssumption DEF Disturbed

\* Nothing that matters to the listener is registered, taken back or acknowledged:
\* it may be told of a notification, if it is registered or has something on its way.
LEMMA UnconcernedListener ==
    ASSUME NInv, NEW l \in Listeners, Taken, UNCHANGED <<cmd, lis, restarts>>,
           NEW out \in Seq(Answers), rcv' \in [Ports -> Seq(Messages)], Extended(PortOf[l], out),
           \A j \in DOMAIN out : out[j] \notin Acks,
           out # <<>> => clients[IdOf[l]] = PortOf[l] \/ ~Quiet(l),
           \A id \in Ids : clients'[id] = PortOf[l] => clients[id] = PortOf[l],
           ~Disturbed(l) => clients'[IdOf[l]] = clients[IdOf[l]]
    PROVE  ListenerOf(l)'
<1>1. Shapes /\ AddressOf(l) /\ JoiningOf(l) /\ LeavingOf(l) /\ ServedOf(l)
  BY InvParts
<1> DEFINE s == rcv[PortOf[l]]
           t == rcv'[PortOf[l]]
<1>2. /\ DOMAIN s = 1 .. Len(s) /\ Len(s) \in Nat /\ DOMAIN t = 1 .. Len(t) /\ Len(t) \in Nat
      /\ \A k \in DOMAIN t :
            \/ k \in DOMAIN s /\ t[k] = s[k]
            \/ /\ k > Len(s) /\ k - Len(s) \in DOMAIN out
               /\ t[k].kind = out[k - Len(s)] /\ t[k].epoch = restarts
  BY <1>1, GotShape
<1>3. Extended(PortOf[l], out) /\ (out = <<>> => t = s)
  BY DEF Extended
<1>4. \A k \in DOMAIN t : \A kind \in Acks :
        t[k].kind = kind => k \in DOMAIN s /\ t[k] = s[k] /\ s[k].kind = kind
  BY <1>2
<1>5. /\ \A i \in DOMAIN queue' : Sent(l, i)' =>
            Sent(l, i + 1) /\ queue'[i] = queue[i + 1] /\ i + 1 \in DOMAIN queue
      /\ Quiet(l) => Quiet(l)'
  BY <1>1, SentShifts
<1>6. DOMAIN queue = 1 .. Len(queue) /\ Len(queue) \in Nat /\ DOMAIN queue' = 1 .. Len(queue) - 1
  BY <1>1, TakenShape
<1>7. IdOf[l] \in Ids /\ PortOf[l] \in Ports
  BY ListenerType
<1>8. AddressOf(l)'
  <2>1. lis'[l].pc = "off" => Quiet(l) /\ s = <<>> /\ clients[IdOf[l]] # PortOf[l]
    BY <1>1 DEF AddressOf
  <2>2. lis'[l].pc = "off" => t = <<>>
    BY <2>1, <1>3
  <2>3. \A i \in DOMAIN queue' : Sent(l, i)' =>
            queue'[i].id = IdOf[l] /\ queue'[i].kind \in {"register", "notify", "unregister"}
    BY <1>1, <1>5 DEF AddressOf
  <2>4. \A id \in Ids : clients'[id] = PortOf[l] => id = IdOf[l]
    BY <1>1 DEF AddressOf
  <2>5. lis'[l].pc = "off" => Quiet(l)' /\ clients'[IdOf[l]] # PortOf[l]
    BY <2>1, <1>5, <1>7
  <2> QED BY <2>2, <2>3, <2>4, <2>5 DEF AddressOf
<1> HIDE DEF s, t
<1>9. JoiningOf(l)'
  <2>1. ASSUME NEW i \in DOMAIN queue', Sent(l, i)', queue'[i].kind = "register"
        PROVE  /\ lis'[l].pc = "joining" /\ \A j \in DOMAIN queue' : Sent(l, j)' => j = i
               /\ \A k \in DOMAIN t : t[k].kind # "register_ack"
    <3>1. Sent(l, i + 1) /\ i + 1 \in DOMAIN queue /\ queue[i + 1].kind = "register"
      BY <1>5, <2>1
    <3>2. /\ lis[l].pc = "joining" /\ \A j \in DOMAIN queue : Sent(l, j) => j = i + 1
          /\ \A k \in DOMAIN s : s[k].kind # "register_ack"
      BY <1>1, <3>1 DEF JoiningOf, Got, s
    <3>3. ASSUME NEW j \in DOMAIN queue', Sent(l, j)' PROVE j = i
      BY <1>5, <1>6, <3>2, <3>3
    <3> QED BY <1>4, <3>2, <3>3 DEF Acks
  <2>2. ASSUME NEW k \in DOMAIN t, t[k].kind = "register_ack"
        PROVE  /\ lis'[l].pc = "joining" /\ Quiet(l)'
               /\ \A j \in DOMAIN t : t[j].kind = "register_ack" => j = k
    <3>1. \A j \in DOMAIN t : t[j].kind = "register_ack" => j \in DOMAIN s /\ s[j].kind = "register_ack"
      BY <1>4 DEF Acks
    <3>2. /\ lis[l].pc = "joining" /\ Quiet(l)
          /\ \A j \in DOMAIN s : s[j].kind = "register_ack" => j = k
      BY <1>1, <2>2, <3>1 DEF JoiningOf, Got, s
    <3> QED BY <1>5, <3>1, <3>2
  <2> QED BY <2>1, <2>2 DEF JoiningOf, Got, t
<1>10. LeavingOf(l)'
  <2>1. ASSUME NEW i \in DOMAIN queue', Sent(l, i)', queue'[i].kind = "unregister"
        PROVE  /\ lis'[l].pc = "leaving" /\ \A j \in DOMAIN queue' : Sent(l, j)' => j <= i
               /\ \A k \in DOMAIN t : t[k].kind # "unregister_ack"
    <3>1. Sent(l, i + 1) /\ i + 1 \in DOMAIN queue /\ queue[i + 1].kind = "unregister"
      BY <1>5, <2>1
    <3>2. /\ lis[l].pc = "leaving" /\ \A j \in DOMAIN queue : Sent(l, j) => j <= i + 1
          /\ \A k \in DOMAIN s : s[k].kind # "unregister_ack"
      BY <1>1, <3>1 DEF LeavingOf, Got, s
    <3>3. ASSUME NEW j \in DOMAIN queue', Sent(l, j)' PROVE j <= i
      BY <1>5, <1>6, <3>2, <3>3
    <3> QED BY <1>4, <3>2, <3>3 DEF Acks
  <2>2. ASSUME NEW k \in DOMAIN t, t[k].kind = "unregister_ack"
        PROVE  /\ lis'[l].pc = "leaving" /\ Quiet(l)' /\ clients'[IdOf[l]] # PortOf[l]
               /\ k = Len(t)
    <3>1. k \in DOMAIN s /\ s[k].kind = "unregister_ack"
      BY <1>4, <2>2 DEF Acks
    <3>2. lis[l].pc = "leaving" /\ Quiet(l) /\ clients[IdOf[l]] # PortOf[l] /\ k = Len(s)
      BY <1>1, <3>1 DEF LeavingOf, Got, s
    <3>3. t = s
      BY <1>3, <3>2
    <3> QED BY <1>5, <1>7, <3>2, <3>3
  <2> QED BY <2>1, <2>2 DEF LeavingOf, Got, t
<1>11. ServedOf(l)'
  <2>1. /\ lis[l].epoch <= restarts /\ \A k \in DOMAIN s : s[k].epoch <= restarts
        /\ ~Disturbed(l) =>
            /\ lis[l].pc = "on" /\ lis[l].epoch = restarts => clients[IdOf[l]] = PortOf[l]
            /\ \A k \in DOMAIN s : s[k].kind = "register_ack" /\ s[k].epoch = restarts
                    => clients[IdOf[l]] = PortOf[l]
    BY <1>1 DEF ServedOf, Got, s
  <2>2. Disturbed(l)' = Disturbed(l)
    BY DEF Disturbed
  <2>3. \A k \in DOMAIN t : t[k].epoch <= restarts
    BY <1>1, <1>2, <2>1 DEF Shapes
  <2>4. \A k \in DOMAIN t : t[k].kind = "register_ack" =>
            k \in DOMAIN s /\ s[k].kind = "register_ack" /\ s[k].epoch = t[k].epoch
    BY <1>4 DEF Acks
  <2> QED BY <2>1, <2>2, <2>3, <2>4 DEF ServedOf, Got, t
<1> QED BY <1>8, <1>9, <1>10, <1>11 DEF ListenerOf

\* What it means for a listener that the datagram the server takes is its own.
LEMMA OwnDatagram ==
    ASSUME NInv, NEW l \in Listeners, Taken, Head(queue).port = PortOf[l]
    PROVE  /\ Head(queue).id = IdOf[l] /\ lis[l].pc # "off" /\ ~Quiet(l)
           /\ \A k \in DOMAIN rcv[PortOf[l]] : rcv[PortOf[l]][k].kind \notin Acks
           /\ Head(queue).kind = "register" => lis[l].pc = "joining" /\ Quiet(l)'
           /\ Head(queue).kind = "unregister" => lis[l].pc = "leaving" /\ Quiet(l)'
           /\ Head(queue).kind \in {"register", "notify", "unregister"}
<1>1. Shapes /\ AddressOf(l) /\ JoiningOf(l) /\ LeavingOf(l)
  BY InvParts
<1>2. /\ Head(queue) = queue[1] /\ 1 \in DOMAIN queue
      /\ DOMAIN queue = 1 .. Len(queue) /\ Len(queue) \in Nat /\ DOMAIN queue' = 1 .. Len(queue) - 1
      /\ \A i \in DOMAIN queue' : i + 1 \in DOMAIN queue /\ queue'[i] = queue[i + 1]
  BY <1>1, TakenShape
<1>3. Sent(l, 1) /\ ~Quiet(l)
  BY <1>2 DEF Sent, Quiet
<1>4. ASSUME \A j \in DOMAIN queue : Sent(l, j) => j <= 1 PROVE Quiet(l)'
  <2>1. ASSUME NEW i \in DOMAIN queue', queue'[i].port = PortOf[l] PROVE FALSE
    <3>1. Sent(l, i + 1) /\ i + 1 \in DOMAIN queue /\ i \in 1 .. Len(queue) - 1
      BY <1>2, <2>1 DEF Sent
    <3> QED BY <1>2, <1>4, <3>1
  <2> QED BY <2>1 DEF Quiet
<1>5. Head(queue).kind = "register" => lis[l].pc = "joining" /\ Quiet(l)'
  BY <1>1, <1>2, <1>3, <1>4 DEF JoiningOf
<1>6. Head(queue).kind = "unregister" => lis[l].pc = "leaving" /\ Quiet(l)'
  BY <1>1, <1>2, <1>3, <1>4 DEF LeavingOf
<1>7. \A k \in DOMAIN rcv[PortOf[l]] : rcv[PortOf[l]][k].kind \notin Acks
  BY <1>1, <1>3 DEF JoiningOf, LeavingOf, Got, Acks
<1> QED BY <1>1, <1>2, <1>3, <1>5, <1>6, <1>7 DEF AddressOf

\* The server takes the register of the listener.
LEMMA RegisteredListener ==
    ASSUME NInv, NEW l \in Listeners, Taken, UNCHANGED <<cmd, lis, restarts>>,
           Head(queue).port = PortOf[l], Head(queue).kind = "register",
           clients' = Registry(IdOf[l], PortOf[l]),
           rcv' \in [Ports -> Seq(Messages)], Extended(PortOf[l], <<"register_ack">>)
    PROVE  ListenerOf(l)'
<1>1. Shapes /\ AddressOf(l) /\ ServedOf(l)
  BY InvParts
<1>2. /\ lis[l].pc = "joining" /\ Quiet(l)'
      /\ \A k \in DOMAIN rcv[PortOf[l]] : rcv[PortOf[l]][k].kind \notin Acks
  BY OwnDatagram
<1> DEFINE s == rcv[PortOf[l]]
           t == rcv'[PortOf[l]]
<1>3. <<"register_ack">> \in Seq(Answers) /\ DOMAIN <<"register_ack">> = {1}
      /\ <<"register_ack">>[1] = "register_ack"
  BY DEF Answers
<1>4. /\ DOMAIN s = 1 .. Len(s) /\ Len(s) \in Nat /\ DOMAIN t = 1 .. Len(t) /\ Len(t) \in Nat
      /\ \A k \in DOMAIN t :
            \/ k \in DOMAIN s /\ t[k] = s[k]
            \/ k = Len(s) + 1 /\ t[k].kind = "register_ack" /\ t[k].epoch = restarts
  <2>1. PICK out \in Seq(Answers) : out = <<"register_ack">>
    BY <1>3
  <2>2. /\ DOMAIN s = 1 .. Len(s) /\ Len(s) \in Nat /\ DOMAIN t = 1 .. Len(t) /\ Len(t) \in Nat
        /\ \A k \in DOMAIN t :
            \/ k \in DOMAIN s /\ t[k] = s[k]
            \/ /\ k > Len(s) /\ k - Len(s) \in DOMAIN out
               /\ t[k].kind = out[k - Len(s)] /\ t[k].epoch = restarts
    BY <1>1, <2>1, GotShape
  <2> HIDE DEF s, t
  <2> QED BY <1>3, <2>1, <2>2
<1>5. clients'[IdOf[l]] = PortOf[l] /\ \A id \in Ids : id # IdOf[l] => clients'[id] = clients[id]
  BY <1>1, ListenerType DEF Shapes, Registry
<1>6. AddressOf(l)'
  BY <1>1, <1>2, <1>5 DEF AddressOf, Quiet, Sent
<1> HIDE DEF s, t
<1>7. \A k \in DOMAIN t : t[k].kind \in Acks => k = Len(s) + 1 /\ t[k].kind = "register_ack"
  BY <1>2, <1>4 DEF s
<1>8. JoiningOf(l)'
  <2>1. \A i \in DOMAIN queue' : ~Sent(l, i)'
    BY <1>2 DEF Quiet, Sent
  <2>2. \A k, j \in DOMAIN t : t[k].kind = "register_ack" /\ t[j].kind = "register_ack" => j = k
    BY <1>7 DEF Acks
  <2> QED BY <1>2, <2>1, <2>2 DEF JoiningOf, Got, t
<1>9. LeavingOf(l)'
  <2>1. \A i \in DOMAIN queue' : ~Sent(l, i)'
    BY <1>2 DEF Quiet, Sent
  <2>2. \A k \in DOMAIN t : t[k].kind # "unregister_ack"
    BY <1>7 DEF Acks
  <2> QED BY <2>1, <2>2 DEF LeavingOf, Got, t
<1>10. ServedOf(l)'
  <2>1. \A k \in DOMAIN t : t[k].epoch <= restarts
    <3>1. restarts \in Nat /\ \A k \in DOMAIN s : s[k].epoch <= restarts
      BY <1>1 DEF ServedOf, Shapes, s
    <3>2. \A k \in DOMAIN t : (k \in DOMAIN s /\ t[k] = s[k]) \/ t[k].epoch = restarts
      BY <1>4
    <3> QED BY <3>1, <3>2
  <2>2. lis'[l].epoch <= restarts'
    BY <1>1 DEF ServedOf
  <2>3. \A k \in DOMAIN rcv'[PortOf[l]] : rcv'[PortOf[l]][k].epoch <= restarts'
    BY <2>1 DEF t
  <2> QED BY <1>5, <2>2, <2>3 DEF ServedOf
<1> QED BY <1>6, <1>8, <1>9, <1>10 DEF ListenerOf

\* The server takes the unregister of the listener, whose id is registered: with
\* its address or, if others use the id, with another.
LEMMA UnregisteredListener ==
    ASSUME NInv, NEW l \in Listeners, Taken, UNCHANGED <<cmd, lis, restarts>>,
           Head(queue).port = PortOf[l], Head(queue).kind = "unregister",
           clients' = Unregistered(IdOf[l]),
           rcv' \in [Ports -> Seq(Messages)], Extended(PortOf[l], <<"unregister_ack">>)
    PROVE  ListenerOf(l)'
<1>1. Shapes /\ AddressOf(l) /\ ServedOf(l)
  BY InvParts
<1>2. /\ lis[l].pc = "leaving" /\ Quiet(l)'
      /\ \A k \in DOMAIN rcv[PortOf[l]] : rcv[PortOf[l]][k].kind \notin Acks
  BY OwnDatagram
<1> DEFINE s == rcv[PortOf[l]]
           t == rcv'[PortOf[l]]
<1>3. <<"unregister_ack">> \in Seq(Answers) /\ DOMAIN <<"unregister_ack">> = {1}
      /\ <<"unregister_ack">>[1] = "unregister_ack"
  BY DEF Answers
<1>4. /\ DOMAIN s = 1 .. Len(s) /\ Len(s) \in Nat /\ DOMAIN t = 1 .. Len(t) /\ Len(t) \in Nat
      /\ \A k \in DOMAIN t :
            \/ k \in DOMAIN s /\ t[k] = s[k]
            \/ k = Len(s) + 1 /\ t[k].kind = "unregister_ack" /\ t[k].epoch = restarts
  <2>1. PICK out \in Seq(Answers) : out = <<"unregister_ack">>
    BY <1>3
  <2>2. /\ DOMAIN s = 1 .. Len(s) /\ Len(s) \in Nat /\ DOMAIN t = 1 .. Len(t) /\ Len(t) \in Nat
        /\ \A k \in DOMAIN t :
            \/ k \in DOMAIN s /\ t[k] = s[k]
            \/ /\ k > Len(s) /\ k - Len(s) \in DOMAIN out
               /\ t[k].kind = out[k - Len(s)] /\ t[k].epoch = restarts
    BY <1>1, <2>1, GotShape
  <2> HIDE DEF s, t
  <2> QED BY <1>3, <2>1, <2>2
<1>5. clients'[IdOf[l]] # PortOf[l] /\ \A id \in Ids : id # IdOf[l] => clients'[id] = clients[id]
  <2>1. clients'[IdOf[l]] = None /\ \A id \in Ids : id # IdOf[l] => clients'[id] = clients[id]
    BY <1>1, ListenerType DEF Shapes, Unregistered
  <2>2. PortOf[l] # None
    BY ListenersAssumption, ListenerType
  <2> QED BY <2>1, <2>2
<1>6. AddressOf(l)'
  BY <1>1, <1>2, <1>5 DEF AddressOf, Quiet, Sent
<1> HIDE DEF s, t
<1>7. \A k \in DOMAIN t : t[k].kind \in Acks => k = Len(s) + 1 /\ t[k].kind = "unregister_ack"
  BY <1>2, <1>4 DEF s
<1>8. \A i \in DOMAIN queue' : ~Sent(l, i)'
  BY <1>2 DEF Quiet, Sent
<1>9. JoiningOf(l)'
  <2>1. \A k \in DOMAIN t : t[k].kind # "register_ack"
    BY <1>7 DEF Acks
  <2> QED BY <1>8, <2>1 DEF JoiningOf, Got, t
<1>10. LeavingOf(l)'
  <2>1. \A k \in DOMAIN t : t[k].kind = "unregister_ack" => k = Len(t)
    <3>1. ASSUME NEW k \in DOMAIN t, t[k].kind = "unregister_ack" PROVE k = Len(t)
      <4>1. k = Len(s) + 1
        BY <1>7, <3>1 DEF Acks
      <4>2. k <= Len(t) /\ Len(s) \in Nat /\ Len(t) \in Nat
        BY <1>4, <4>1
      <4>3. Len(t) \in DOMAIN t
        BY <1>4, <4>1, <4>2
      <4>4. Len(t) <= Len(s) + 1
        BY <1>4, <4>2, <4>3
      <4> QED BY <4>1, <4>2, <4>4
    <3> QED BY <3>1
  <2>2. \A k \in DOMAIN rcv'[PortOf[l]] : Got(l, k, "unregister_ack")' => k = Len(rcv'[PortOf[l]])
    BY <2>1 DEF Got, t
  <2> QED BY <1>2, <1>5, <1>8, <2>2 DEF LeavingOf
<1>11. ServedOf(l)'
  <2>1. \A k \in DOMAIN t : t[k].epoch <= restarts
    <3>1. restarts \in Nat /\ \A k \in DOMAIN s : s[k].epoch <= restarts
      BY <1>1 DEF ServedOf, Shapes, s
    <3>2. \A k \in DOMAIN t : (k \in DOMAIN s /\ t[k] = s[k]) \/ t[k].epoch = restarts
      BY <1>4
    <3> QED BY <3>1, <3>2
  <2>2. \A k \in DOMAIN t : t[k].kind # "register_ack"
    BY <1>7 DEF Acks
  <2> QED BY <1>1, <1>2, <2>1, <2>2 DEF ServedOf, Got, t
<1> QED BY <1>6, <1>9, <1>10, <1>11 DEF ListenerOf

\* Nobody else's datagram bears the id of a listener whose id is its own.
LEMMA OtherId ==
    ASSUME NInv, NEW l \in Listeners, Taken, Head(queue).port # PortOf[l], ~Disturbed(l)
    PROVE  Head(queue).id # IdOf[l]
<1>1. Head(queue) = queue[1] /\ 1 \in DOMAIN queue
  BY InvParts, TakenShape
<1>2. \/ \E c \in Commands : cmd[c].id = Head(queue).id
      \/ \E k \in Listeners : PortOf[k] = Head(queue).port /\ IdOf[k] = Head(queue).id
  BY <1>1, InvParts DEF SenderInv
<1> QED BY <1>2 DEF Disturbed

\* The server takes a datagram that is not the listener's.
LEMMA OtherListener ==
    ASSUME NInv, NEW l \in Listeners, Taken, UNCHANGED <<cmd, lis, restarts>>,
           Head(queue).port # PortOf[l],
           \/ clients' = clients
           \/ clients' = Registry(Head(queue).id, Head(queue).port)
           \/ clients' = Unregistered(Head(queue).id),
           NEW out \in Seq(Answers), rcv' \in [Ports -> Seq(Messages)], Extended(PortOf[l], out),
           \A j \in DOMAIN out : out[j] \notin Acks,
           out # <<>> => clients[IdOf[l]] = PortOf[l] \/ ~Quiet(l)
    PROVE  ListenerOf(l)'
<1>1. PICK d \in Datagrams : d = Head(queue)
  BY InvParts, TakenShape
<1>2. /\ clients'[d.id] = clients[d.id] \/ clients'[d.id] = d.port \/ clients'[d.id] = None
      /\ \A id \in Ids : id # d.id => clients'[id] = clients[id]
  BY <1>1, InvParts DEF Shapes, Registry, Unregistered, Datagrams
<1>3. PortOf[l] # None /\ d.port # PortOf[l] /\ IdOf[l] \in Ids
  BY <1>1, ListenersAssumption, ListenerType
<1>4. \A id \in Ids : clients'[id] = PortOf[l] => clients[id] = PortOf[l]
  BY <1>2, <1>3
<1>5. ~Disturbed(l) => clients'[IdOf[l]] = clients[IdOf[l]]
  BY <1>1, <1>2, <1>3, OtherId
<1> QED BY <1>4, <1>5, UnconcernedListener

\* A listener that is told of a notification is registered.
LEMMA ToldAreRegistered ==
    ASSUME NInv, NEW l \in Listeners, Broadcast[PortOf[l]] # <<>>
    PROVE  clients[IdOf[l]] = PortOf[l]
BY InvParts, BroadcastType, ListenerType DEF AddressOf

-----------------------------------------------------------------------------
(* The server's step, from what it does to each listener.                  *)

LEMMA ServeInv ==
    ASSUME NInv, Taken, UNCHANGED peers,
           clients' \in [Ids -> Ports \cup {None}], IsFiniteSet(Registered(clients)'),
           known' \in [Commands -> SUBSET Ids], \A c \in Commands : known[c] \subseteq known'[c],
           NEW out \in [Ports -> Seq(Answers)], rcv' \in [Ports -> Seq(Messages)],
           \A p \in Ports : Extended(p, out[p]) /\ (owner[p] = None => rcv'[p] = rcv[p]),
           \A p \in Ports : \A j \in DOMAIN out[p] : out[p][j] = "ok" =>
                /\ p = Head(queue).port
                /\ Head(queue).kind = "test" =>
                        \A c \in Commands : Waiting(c) => Head(queue).id \in known'[c],
           \A l \in Listeners : ListenerOf(l)'
    PROVE  NInv'
<1> USE DEF peers
<1>1. /\ Shapes /\ SocketInv /\ SenderInv /\ OkMeansRegistered
      /\ \A c \in Commands : CommandOf(c)
  BY InvParts
<1>2. /\ Head(queue) = queue[1] /\ 1 \in DOMAIN queue /\ queue' \in Seq(Datagrams)
      /\ \A i \in DOMAIN queue' : i + 1 \in DOMAIN queue /\ queue'[i] = queue[i + 1]
  BY <1>1, TakenShape
<1>3. Shapes'
  BY <1>1, <1>2 DEF Shapes
<1>4. SocketInv'
  BY <1>1 DEF SocketInv, Waiting
<1>5. SenderInv'
  <2>1. ASSUME NEW i \in DOMAIN queue'
        PROVE  \/ \E c \in Commands : cmd'[c].id = queue'[i].id
               \/ \E k \in Listeners : PortOf[k] = queue'[i].port /\ IdOf[k] = queue'[i].id
    <3>1. PICK j \in DOMAIN queue : queue'[i] = queue[j]
      BY <1>2
    <3> QED BY <1>1, <3>1 DEF SenderInv
  <2> QED BY <1>1, <2>1 DEF SenderInv
<1>6. OkMeansRegistered'
  BY <1>1 DEF OkMeansRegistered
<1>7. ASSUME NEW c \in Commands, Waiting(c)' PROVE CommandOf(c)'
  <2>1. PICK p \in Ports : p = cmd[c].port
    BY <1>1, <1>7 DEF Waiting, SocketInv, FreePorts
  <2>2. Waiting(c) /\ CommandOf(c)
    BY <1>1, <1>7 DEF Waiting
  <2>3. \A i \in DOMAIN queue' : queue'[i].port = p => queue'[i] = Datagram(cmd[c].kind, cmd[c].id, p)
    BY <1>2, <2>1, <2>2 DEF CommandOf
  <2>4. ASSUME cmd[c].kind = "test", NEW i \in DOMAIN rcv'[p], rcv'[p][i].kind = "ok"
        PROVE  cmd[c].id \in known'[c]
    <3>1. Extended(p, out[p]) /\ rcv[p] \in Seq(Messages) /\ rcv'[p] \in Seq(Messages)
      BY <1>1 DEF Shapes
    <3>2. CASE i \in DOMAIN rcv[p]
      BY <2>1, <2>2, <2>4, <3>1, <3>2 DEF CommandOf, Extended
    <3>3. CASE i \notin DOMAIN rcv[p]
      <4>1. i > Len(rcv[p])
        <5>1. DOMAIN rcv[p] = 1 .. Len(rcv[p]) /\ DOMAIN rcv'[p] = 1 .. Len(rcv'[p])
              /\ Len(rcv[p]) \in Nat /\ Len(rcv'[p]) \in Nat
          BY <3>1, Indices
        <5> QED BY <2>4, <3>3, <5>1
      <4>2. /\ i - Len(rcv[p]) \in DOMAIN out[p]
            /\ rcv'[p][i].kind = out[p][i - Len(rcv[p])]
        BY <3>1, <4>1 DEF Extended
      <4>3. p = queue[1].port /\ (queue[1].kind = "test" => queue[1].id \in known'[c])
        BY <1>2, <2>2, <2>4, <4>2
      <4>4. queue[1] = Datagram(cmd[c].kind, cmd[c].id, p)
        BY <1>2, <2>1, <2>2, <4>3 DEF CommandOf
      <4> QED BY <2>4, <4>3, <4>4 DEF Datagram
    <3> QED BY <3>2, <3>3
  <2> QED BY <2>1, <2>3, <2>4 DEF CommandOf
<1>8. \A c \in Commands : CommandOf(c)'
  BY <1>7 DEF CommandOf
<1> QED BY <1>3, <1>4, <1>5, <1>6, <1>8 DEF NInv

\* What the handlers have in common.
LEMMA HandledShape ==
    ASSUME NInv, queue # <<>>, NEW registry \in [Ids -> Ports \cup {None}],
           IsFiniteSet(Registered(registry)), Handled(registry)
    PROVE  /\ Taken /\ UNCHANGED peers /\ UNCHANGED <<cmd, lis, restarts>>
           /\ clients' = registry
           /\ clients' \in [Ids -> Ports \cup {None}] /\ IsFiniteSet(Registered(clients)')
           /\ known' \in [Commands -> SUBSET Ids]
           /\ \A c \in Commands : known[c] \subseteq known'[c]
           /\ \A c \in Commands : Waiting(c) => Registered(registry) \subseteq known'[c]
<1>1. Taken /\ UNCHANGED peers /\ UNCHANGED <<cmd, lis, restarts>> /\ clients' = registry
  BY DEF Handled, Taken, peers
<1>2. known' = [c \in Commands |->
                IF Waiting(c) THEN known[c] \cup Registered(registry) ELSE known[c]]
  BY DEF Handled
<1>3. Registered(registry) \subseteq Ids
  BY DEF Registered
<1>4. known \in [Commands -> SUBSET Ids]
  BY InvParts DEF Shapes
<1>5. IsFiniteSet(Registered(clients)')
  BY <1>1 DEF Registered
<1> QED BY <1>1, <1>2, <1>3, <1>4, <1>5

-----------------------------------------------------------------------------
(* The server.                                                             *)

\* Maps of the clients that a handler may leave.
LEMMA RegistryType ==
    ASSUME Shapes, NEW id \in Ids, NEW port \in Ports
    PROVE  /\ Registry(id, port) \in [Ids -> Ports \cup {None}]
           /\ IsFiniteSet(Registered(Registry(id, port)))
           /\ Unregistered(id) \in [Ids -> Ports \cup {None}]
           /\ IsFiniteSet(Registered(Unregistered(id)))
<1>1. clients \in [Ids -> Ports \cup {None}] /\ IsFiniteSet(Registered(clients))
  BY DEF Shapes
<1>2. Registry(id, port) \in [Ids -> Ports \cup {None}]
  BY <1>1 DEF Registry
<1>3. Unregistered(id) \in [Ids -> Ports \cup {None}]
  BY <1>1 DEF Unregistered
<1>4. /\ IsFiniteSet(Registered(clients) \cup {id})
      /\ Registered(Registry(id, port)) \subseteq Registered(clients) \cup {id}
      /\ Registered(Unregistered(id)) \subseteq Registered(clients)
  BY <1>1, FS_AddElement DEF Registered, Registry, Unregistered
<1> QED BY <1>1, <1>2, <1>3, <1>4, FS_Subset

\* An answer to the sender only.
LEMMA AnswerTo ==
    ASSUME NInv, Taken, NEW port \in Ports, NEW kind \in Answers, Answer(To(port, kind))
    PROVE  /\ rcv' \in [Ports -> Seq(Messages)]
           /\ \A p \in Ports : Extended(p, To(port, kind)[p]) /\ (owner[p] = None => rcv'[p] = rcv[p])
           /\ Extended(port, <<kind>>)
           /\ \A p \in Ports : p # port => Extended(p, <<>>)
BY ToType, AnswerExtends, InvParts

LEMMA EmptyAnswer == <<>> \in Seq(Answers) /\ DOMAIN <<>> = {}
BY EmptySeq

LEMMA SingleAnswer ==
    ASSUME NEW kind \in Answers
    PROVE  <<kind>> \in Seq(Answers) /\ DOMAIN <<kind>> = {1} /\ <<kind>>[1] = kind
OBVIOUS

\* A handler that answers its sender, and no other listener has anything to do
\* with it.
LEMMA AnsweredSender ==
    ASSUME NInv, Taken, UNCHANGED peers, NEW kind \in Answers, Answer(To(Head(queue).port, kind)),
           \/ clients' = clients
           \/ clients' = Registry(Head(queue).id, Head(queue).port)
           \/ clients' = Unregistered(Head(queue).id),
           clients' \in [Ids -> Ports \cup {None}], IsFiniteSet(Registered(clients)'),
           known' \in [Commands -> SUBSET Ids], \A c \in Commands : known[c] \subseteq known'[c],
           kind = "ok" /\ Head(queue).kind = "test" =>
                \A c \in Commands : Waiting(c) => Head(queue).id \in known'[c],
           \A l \in Listeners :
                Head(queue).port = PortOf[l] /\ Extended(PortOf[l], <<kind>>) => ListenerOf(l)'
    PROVE  NInv'
<1>1. PICK port \in Ports : port = Head(queue).port
  BY InvParts, TakenShape DEF Datagrams
<1>2. PICK out \in [Ports -> Seq(Answers)] : out = To(port, kind)
  BY ToType
<1>3. /\ rcv' \in [Ports -> Seq(Messages)]
      /\ \A p \in Ports : Extended(p, out[p]) /\ (owner[p] = None => rcv'[p] = rcv[p])
      /\ Extended(port, <<kind>>)
      /\ \A p \in Ports : p # port => Extended(p, <<>>)
  BY <1>1, <1>2, AnswerTo
<1>4. ASSUME NEW p \in Ports, NEW j \in DOMAIN out[p], out[p][j] = "ok"
      PROVE  p = port /\ kind = "ok"
  BY <1>2, <1>4, ToType, EmptyAnswer, SingleAnswer
<1>5. ASSUME NEW l \in Listeners PROVE ListenerOf(l)'
  <2>1. CASE PortOf[l] = port
    BY <1>1, <1>3, <2>1
  <2>2. CASE PortOf[l] # port
    <3>1. PICK none \in Seq(Answers) : none = <<>> /\ DOMAIN none = {}
      BY EmptyAnswer
    <3>2. Extended(PortOf[l], none) /\ \A j \in DOMAIN none : none[j] \notin Acks
      BY <1>3, <2>2, <3>1, ListenerType
    <3> QED BY <1>1, <1>3, <2>2, <3>1, <3>2, OtherListener DEF peers
  <2> QED BY <2>1, <2>2
<1> QED BY <1>1, <1>3, <1>4, <1>5, ServeInv

LEMMA RegisterInv == NInv /\ Register => NInv'
<1> SUFFICES ASSUME NInv, Register PROVE NInv'
  OBVIOUS
<1>1. queue # <<>> /\ Head(queue).kind = "register" /\ Shapes
  BY InvParts DEF Register, Read
<1>2. PICK d \in Datagrams : d = Head(queue)
  BY <1>1, TailShifts DEF Shapes
<1>3. PICK registry \in [Ids -> Ports \cup {None}] :
        registry = Registry(d.id, d.port) /\ IsFiniteSet(Registered(registry))
  BY <1>1, RegistryType DEF Datagrams
<1>4. Handled(registry) /\ Answer(To(d.port, "register_ack"))
  BY <1>2, <1>3 DEF Register
<1>5. /\ Taken /\ UNCHANGED peers /\ UNCHANGED <<cmd, lis, restarts>> /\ clients' = registry
      /\ clients' \in [Ids -> Ports \cup {None}] /\ IsFiniteSet(Registered(clients)')
      /\ known' \in [Commands -> SUBSET Ids] /\ \A c \in Commands : known[c] \subseteq known'[c]
  BY <1>1, <1>3, <1>4, HandledShape
<1>6. "register_ack" \in Answers /\ d.port \in Ports
  BY DEF Answers, Datagrams
<1>7. rcv' \in [Ports -> Seq(Messages)]
  BY <1>4, <1>5, <1>6, AnswerTo
<1>8. ASSUME NEW l \in Listeners, d.port = PortOf[l], Extended(PortOf[l], <<"register_ack">>)
      PROVE  ListenerOf(l)'
  <2>1. d.id = IdOf[l]
    BY <1>2, <1>5, <1>8, OwnDatagram
  <2> QED BY <1>1, <1>2, <1>3, <1>5, <1>7, <1>8, <2>1, RegisteredListener
<1> QED BY <1>2, <1>3, <1>4, <1>5, <1>6, <1>8, AnsweredSender

\* An answer that is no acknowledgement leaves the sender what it was.
LEMMA PlainAnswer ==
    ASSUME NInv, Taken, UNCHANGED <<cmd, lis, restarts, clients>>, NEW l \in Listeners,
           Head(queue).port = PortOf[l], NEW kind \in Answers \ Acks,
           rcv' \in [Ports -> Seq(Messages)], Extended(PortOf[l], <<kind>>)
    PROVE  ListenerOf(l)'
<1>1. ~Quiet(l)
  BY OwnDatagram
<1>2. PICK out \in Seq(Answers) : out = <<kind>>
  BY SingleAnswer
<1>3. Extended(PortOf[l], out) /\ \A j \in DOMAIN out : out[j] \notin Acks
  BY <1>2, SingleAnswer
<1> QED BY <1>1, <1>3, UnconcernedListener

\* Handlers that leave the clients as they are and answer the sender.
LEMMA PlainHandler ==
    ASSUME NInv, queue # <<>>, Handled(clients), NEW kind \in Answers \ Acks,
           Answer(To(Head(queue).port, kind)),
           kind = "ok" => Head(queue).id \in Registered(clients)
    PROVE  NInv'
<1>1. PICK registry \in [Ids -> Ports \cup {None}] :
        registry = clients /\ IsFiniteSet(Registered(registry))
  BY InvParts DEF Shapes
<1>2. /\ Taken /\ UNCHANGED peers /\ UNCHANGED <<cmd, lis, restarts>> /\ clients' = registry
      /\ clients' \in [Ids -> Ports \cup {None}] /\ IsFiniteSet(Registered(clients)')
      /\ known' \in [Commands -> SUBSET Ids] /\ \A c \in Commands : known[c] \subseteq known'[c]
      /\ \A c \in Commands : Waiting(c) => Registered(registry) \subseteq known'[c]
  BY <1>1, HandledShape
<1>3. PICK port \in Ports : port = Head(queue).port
  BY <1>2, InvParts, TakenShape DEF Datagrams
<1>4. rcv' \in [Ports -> Seq(Messages)]
  BY <1>2, <1>3, AnswerTo
<1>5. ASSUME NEW l \in Listeners, Head(queue).port = PortOf[l], Extended(PortOf[l], <<kind>>)
      PROVE  ListenerOf(l)'
  BY <1>1, <1>2, <1>4, <1>5, PlainAnswer
<1>6. kind = "ok" => \A c \in Commands : Waiting(c) => Head(queue).id \in known'[c]
  BY <1>1, <1>2
<1>7. clients' = clients
  BY <1>1, <1>2
<1> QED BY <1>2, <1>5, <1>6, <1>7, AnsweredSender

LEMMA UnregisterInv == NInv /\ Unregister => NInv'
<1> SUFFICES ASSUME NInv, Unregister PROVE NInv'
  OBVIOUS
<1>1. queue # <<>> /\ Head(queue).kind = "unregister" /\ Shapes
  BY InvParts DEF Unregister, Read
<1>2. PICK d \in Datagrams : d = Head(queue)
  BY <1>1, TailShifts DEF Shapes
<1>3. CASE Handled(Unregistered(d.id)) /\ Answer(To(d.port, "unregister_ack"))
  <2>1. PICK registry \in [Ids -> Ports \cup {None}] :
          registry = Unregistered(d.id) /\ IsFiniteSet(Registered(registry))
    BY <1>1, RegistryType DEF Datagrams
  <2>2. /\ Taken /\ UNCHANGED peers /\ UNCHANGED <<cmd, lis, restarts>> /\ clients' = registry
        /\ clients' \in [Ids -> Ports \cup {None}] /\ IsFiniteSet(Registered(clients)')
        /\ known' \in [Commands -> SUBSET Ids] /\ \A c \in Commands : known[c] \subseteq known'[c]
    BY <1>1, <1>3, <2>1, HandledShape
  <2>3. "unregister_ack" \in Answers /\ d.port \in Ports
    BY DEF Answers, Datagrams
  <2>4. rcv' \in [Ports -> Seq(Messages)]
    BY <1>3, <2>2, <2>3, AnswerTo
  <2>5. ASSUME NEW l \in Listeners, d.port = PortOf[l], Extended(PortOf[l], <<"unregister_ack">>)
        PROVE  ListenerOf(l)'
    <3>1. d.id = IdOf[l]
      BY <1>2, <2>2, <2>5, OwnDatagram
    <3> QED BY <1>1, <1>2, <2>1, <2>2, <2>4, <2>5, <3>1, UnregisteredListener
  <2> QED BY <1>2, <1>3, <2>1, <2>2, <2>3, <2>5, AnsweredSender
<1>4. CASE Handled(clients) /\ Answer(To(d.port, "error"))
  <2>1. "error" \in Answers \ Acks
    BY DEF Answers, Acks
  <2> QED BY <1>1, <1>2, <1>4, <2>1, PlainHandler
<1> QED BY <1>2, <1>3, <1>4 DEF Unregister

LEMMA TestInv == NInv /\ Test => NInv'
<1> SUFFICES ASSUME NInv, Test PROVE NInv'
  OBVIOUS
<1>1. queue # <<>> /\ Handled(clients)
  BY DEF Test, Read
<1>2. PICK kind \in {"ok", "error"} :
        /\ Answer(To(Head(queue).port, kind))
        /\ kind = "ok" => Head(queue).id \in Registered(clients)
  BY DEF Test, IsRegistered
<1>3. kind \in Answers \ Acks
  BY DEF Answers, Acks
<1> QED BY <1>1, <1>2, <1>3, PlainHandler

LEMMA HealthInv == NInv /\ Health => NInv'
<1> SUFFICES ASSUME NInv, Health PROVE NInv'
  OBVIOUS
<1>1. "health_ok" \in Answers \ Acks
  BY DEF Answers, Acks
<1> QED BY <1>1, PlainHandler DEF Health, Read

\* A broadcast, whether its sender is answered too or not: a listener that hears
\* of it is registered.
LEMMA BroadcastHandler ==
    ASSUME NInv, queue # <<>>, Handled(clients), NEW out \in [Ports -> Seq(Answers)], Answer(out),
           Head(queue).kind # "test",
           \A p \in Ports : \A j \in DOMAIN out[p] : out[p][j] = "ok" => p = Head(queue).port,
           \A l \in Listeners : out[PortOf[l]] = Broadcast[PortOf[l]]
    PROVE  NInv'
<1>1. PICK registry \in [Ids -> Ports \cup {None}] :
        registry = clients /\ IsFiniteSet(Registered(registry))
  BY InvParts DEF Shapes
<1>2. /\ Taken /\ UNCHANGED peers /\ UNCHANGED <<cmd, lis, restarts>> /\ clients' = clients
      /\ clients' \in [Ids -> Ports \cup {None}] /\ IsFiniteSet(Registered(clients)')
      /\ known' \in [Commands -> SUBSET Ids] /\ \A c \in Commands : known[c] \subseteq known'[c]
  BY <1>1, HandledShape
<1>3. /\ rcv' \in [Ports -> Seq(Messages)]
      /\ \A p \in Ports : Extended(p, out[p]) /\ (owner[p] = None => rcv'[p] = rcv[p])
  BY InvParts, AnswerExtends
<1>4. ASSUME NEW l \in Listeners PROVE ListenerOf(l)'
  <2>1. PICK told \in Seq(Answers) : told = out[PortOf[l]]
    BY ListenerType
  <2>2. \A j \in DOMAIN told : told[j] = "notification"
    BY <2>1, BroadcastType, ListenerType, InvParts
  <2>3. \A j \in DOMAIN told : told[j] \notin Acks
    BY <2>2 DEF Acks
  <2>4. told # <<>> => clients[IdOf[l]] = PortOf[l]
    BY <2>1, ToldAreRegistered
  <2>5. Extended(PortOf[l], told)
    BY <1>3, <2>1, ListenerType
  <2> QED BY <1>2, <1>3, <2>3, <2>4, <2>5, UnconcernedListener
<1> QED BY <1>2, <1>3, <1>4, ServeInv

LEMMA NotificationInv == NInv /\ Notification => NInv'
<1> SUFFICES ASSUME NInv, Notification PROVE NInv'
  OBVIOUS
<1>1. queue # <<>> /\ Handled(clients) /\ Head(queue).kind = "notify"
  BY DEF Notification, Read
<1>2. CASE Answer(Broadcast)
  <2>1. PICK out \in [Ports -> Seq(Answers)] : out = Broadcast
    BY InvParts, BroadcastType
  <2>2. \A p \in Ports : \A j \in DOMAIN out[p] : out[p][j] # "ok"
    BY <2>1, InvParts, BroadcastType
  <2> QED BY <1>1, <1>2, <2>1, <2>2, BroadcastHandler
<1>3. CASE Answer(To(Head(queue).port, "error"))
  <2>1. "error" \in Answers \ Acks
    BY DEF Answers, Acks
  <2> QED BY <1>1, <1>3, <2>1, PlainHandler
<1> QED BY <1>2, <1>3 DEF Notification

LEMMA TestBroadcastInv == NInv /\ TestBroadcast => NInv'
<1> SUFFICES ASSUME NInv, TestBroadcast PROVE NInv'
  OBVIOUS
<1>1. queue # <<>> /\ Handled(clients) /\ Head(queue).kind = "test_broadcast"
  BY DEF TestBroadcast, Read
<1>2. PICK d \in Datagrams : d = Head(queue)
  BY <1>1, InvParts, TailShifts DEF Shapes
<1>3. PICK said \in [Ports -> Seq(Answers)] :
        /\ said = Broadcast
        /\ \A p \in Ports : \A i \in DOMAIN said[p] : said[p][i] = "notification"
  BY InvParts, BroadcastType
<1> DEFINE out == [p \in Ports |-> IF p = d.port THEN said[p] \o <<"ok">> ELSE said[p]]
<1>4. "ok" \in Answers /\ <<"ok">> \in Seq(Answers)
  BY DEF Answers
<1>5. out \in [Ports -> Seq(Answers)]
  <2>1. ASSUME NEW p \in Ports PROVE out[p] \in Seq(Answers)
    <3>1. said[p] \in Seq(Answers) /\ said[p] \o <<"ok">> \in Seq(Answers)
      BY <1>4, ConcatProperties
    <3> QED BY <3>1
  <2> QED BY <2>1
<1>6. Answer(out)
  BY <1>2, <1>3 DEF TestBroadcast
<1>7. \A p \in Ports : p # d.port => out[p] = said[p]
  OBVIOUS
<1>8. \A l \in Listeners : PortOf[l] # d.port
  <2>1. Taken
    BY <1>1 DEF Taken, Handled
  <2> QED BY <1>1, <1>2, <2>1, OwnDatagram
<1> HIDE DEF out
<1>9. \A p \in Ports : \A j \in DOMAIN out[p] : out[p][j] = "ok" => p = d.port
  BY <1>3, <1>7
<1>10. \A l \in Listeners : out[PortOf[l]] = Broadcast[PortOf[l]]
  BY <1>3, <1>7, <1>8, ListenerType
<1> QED BY <1>1, <1>2, <1>5, <1>6, <1>9, <1>10, BroadcastHandler

LEMMA LoseInv == NInv /\ Lose => NInv'
<1> SUFFICES ASSUME NInv, Lose PROVE NInv'
  OBVIOUS
<1>1. /\ Taken /\ UNCHANGED peers /\ UNCHANGED <<cmd, lis, restarts>>
      /\ clients' = clients /\ rcv' = rcv /\ known' = known
  BY DEF Lose, Taken, peers
<1>2. Shapes
  BY InvParts
<1>3. PICK none \in Seq(Answers) : none = <<>> /\ DOMAIN none = {}
  BY EmptyAnswer
<1>4. PICK out \in [Ports -> Seq(Answers)] : \A p \in Ports : out[p] = none
  <2>1. [p \in Ports |-> none] \in [Ports -> Seq(Answers)]
    OBVIOUS
  <2> QED BY <2>1
<1>5. \A p \in Ports : Extended(p, none)
  <2>1. ASSUME NEW p \in Ports PROVE Extended(p, none)
    <3>1. rcv[p] \in Seq(Messages) /\ rcv'[p] = rcv[p]
      BY <1>1, <1>2 DEF Shapes
    <3>2. DOMAIN rcv[p] = 1 .. Len(rcv[p]) /\ Len(rcv[p]) \in Nat
      BY <3>1, Indices
    <3> QED BY <3>1, <3>2 DEF Extended
  <2> QED BY <2>1
<1>6. /\ clients' \in [Ids -> Ports \cup {None}] /\ IsFiniteSet(Registered(clients)')
      /\ known' \in [Commands -> SUBSET Ids] /\ rcv' \in [Ports -> Seq(Messages)]
  BY <1>1, <1>2 DEF Shapes, Registered
<1>7. \A l \in Listeners : ListenerOf(l)'
  BY <1>1, <1>3, <1>5, <1>6, UnconcernedListener, ListenerType
<1>8. \A p \in Ports : Extended(p, out[p]) /\ DOMAIN out[p] = {}
  BY <1>3, <1>4, <1>5
<1> QED BY <1>1, <1>6, <1>7, <1>8, ServeInv

LEMMA RestartInv == NInv /\ Restart => NInv'
<1> SUFFICES ASSUME NInv, Restart PROVE NInv'
  OBVIOUS
<1>1. /\ restarts' = restarts + 1 /\ clients' = [id \in Ids |-> None] /\ queue' = <<>>
      /\ UNCHANGED <<owner, rcv, cmd, lis, sends, known>>
  BY DEF Restart
<1>2. /\ Shapes /\ SocketInv /\ OkMeansRegistered
      /\ \A c \in Commands : CommandOf(c)
      /\ \A l \in Listeners : AddressOf(l) /\ JoiningOf(l) /\ LeavingOf(l) /\ ServedOf(l)
  BY InvParts
<1>3. queue' \in Seq(Datagrams) /\ DOMAIN queue' = {}
  BY <1>1, EmptySeq
<1>4. Shapes'
  <2>1. Registered(clients)' = {}
    BY <1>1 DEF Registered
  <2>2. IsFiniteSet(Registered(clients)')
    BY <2>1, FS_EmptySet
  <2>3. clients' \in [Ids -> Ports \cup {None}] /\ restarts' \in Nat
    BY <1>1, <1>2 DEF Shapes
  <2> QED BY <1>1, <1>2, <1>3, <2>2, <2>3 DEF Shapes
<1>5. SocketInv' /\ OkMeansRegistered'
  BY <1>1, <1>2 DEF SocketInv, Waiting, OkMeansRegistered
<1>6. SenderInv'
  BY <1>1, <1>3, InvParts DEF SenderInv
<1>7. \A c \in Commands : CommandOf(c)'
  BY <1>1, <1>2, <1>3 DEF CommandOf, Waiting
<1>8. ASSUME NEW l \in Listeners PROVE ListenerOf(l)'
  <2>1. PortOf[l] # None /\ PortOf[l] \in Ports /\ IdOf[l] \in Ids
    BY ListenersAssumption, ListenerType
  <2>2. \A id \in Ids : clients'[id] # PortOf[l]
    BY <1>1, <2>1
  <2>3. AddressOf(l)'
    BY <1>1, <1>2, <1>3, <2>1, <2>2 DEF AddressOf, Quiet
  <2>4. JoiningOf(l)'
    BY <1>1, <1>2, <1>3 DEF JoiningOf, Quiet, Got
  <2>5. LeavingOf(l)'
    BY <1>1, <1>2, <1>3, <2>1, <2>2 DEF LeavingOf, Quiet, Got
  <2>6. ServedOf(l)'
    <3>1. /\ restarts \in Nat /\ lis[l].epoch \in Nat /\ lis[l].epoch <= restarts
          /\ \A k \in DOMAIN rcv[PortOf[l]] :
                rcv[PortOf[l]][k].epoch <= restarts /\ rcv[PortOf[l]][k].epoch \in Nat
      <4>1. \A k \in DOMAIN rcv[PortOf[l]] : rcv[PortOf[l]][k] \in Messages
        BY <1>2, <2>1, Indices DEF Shapes
      <4> QED BY <1>2, <4>1 DEF Shapes, ServedOf, Messages
    <3>2. /\ lis[l].epoch < restarts' /\ \A k \in DOMAIN rcv[PortOf[l]] :
                rcv[PortOf[l]][k].epoch < restarts' /\ rcv[PortOf[l]][k].epoch # restarts'
      BY <1>1, <3>1
    <3>3. /\ lis'[l].epoch <= restarts' /\ lis'[l].epoch # restarts'
          /\ \A k \in DOMAIN rcv'[PortOf[l]] :
                rcv'[PortOf[l]][k].epoch <= restarts' /\ rcv'[PortOf[l]][k].epoch # restarts'
      BY <1>1, <3>1, <3>2
    <3> QED BY <3>3 DEF ServedOf
  <2> QED BY <2>3, <2>4, <2>5, <2>6 DEF ListenerOf
<1> QED BY <1>4, <1>5, <1>6, <1>7, <1>8 DEF NInv

-----------------------------------------------------------------------------
(* The commands.                                                           *)

\* A step that leaves alone a listener's registration, what it received and what
\* it sent.
LEMMA SameListener ==
    ASSUME NInv, NEW l \in Listeners, UNCHANGED <<clients, restarts>>, lis'[l] = lis[l],
           rcv'[PortOf[l]] = rcv[PortOf[l]],
           \A i \in DOMAIN queue' : Sent(l, i)' => Sent(l, i) /\ queue'[i] = queue[i],
           ~Disturbed(l)' => ~Disturbed(l)
    PROVE  ListenerOf(l)'
<1>1. AddressOf(l) /\ JoiningOf(l) /\ LeavingOf(l) /\ ServedOf(l)
  BY InvParts
<1>2. Quiet(l) => Quiet(l)'
  BY DEF Quiet, Sent
<1>3. \A i \in DOMAIN queue' : Sent(l, i)' => i \in DOMAIN queue /\ Sent(l, i) /\ queue'[i] = queue[i]
  BY DEF Sent
<1>4. AddressOf(l)'
  BY <1>1, <1>2, <1>3 DEF AddressOf
<1>5. JoiningOf(l)'
  BY <1>1, <1>2, <1>3 DEF JoiningOf, Got
<1>6. LeavingOf(l)'
  BY <1>1, <1>2, <1>3 DEF LeavingOf, Got
<1>7. ServedOf(l)'
  BY <1>1 DEF ServedOf, Got
<1> QED BY <1>4, <1>5, <1>6, <1>7 DEF ListenerOf

LEMMA PortsType == LisPorts \subseteq Ports /\ FreePorts \subseteq Ports /\ LisPorts \cap FreePorts = {}
BY ListenersAssumption DEF LisPorts, FreePorts, Range

\* A command sends its datagram, from a port that nobody has and from which nothing
\* is on its way, and keeps the port if it waits for the answer.
LEMMA SendInv ==
    ASSUME NInv, NEW c \in Commands, NEW kind \in Kinds, NEW id \in Ids, NEW port \in Ports,
           NEW pc \in {"waiting", "sent"}, Send(c, kind, id, port, pc),
           owner' = IF pc = "waiting" THEN [owner EXCEPT ![port] = c] ELSE owner
    PROVE  NInv'
<1>1. /\ Shapes /\ SocketInv /\ SenderInv /\ OkMeansRegistered
      /\ \A e \in Commands : CommandOf(e)
  BY InvParts
<1>2. /\ cmd[c].pc = "idle" /\ owner[port] = None /\ \A i \in DOMAIN queue : queue[i].port # port
      /\ queue' = Append(queue, Datagram(kind, id, port))
      /\ UNCHANGED <<clients, rcv, lis, sends, restarts>>
  BY DEF Send
<1>3. /\ cmd'[c] = [pc |-> pc, kind |-> kind, id |-> id, port |-> port]
      /\ \A e \in Commands : e # c => cmd'[e] = cmd[e]
      /\ cmd' \in [Commands -> [pc: {"idle", "waiting", "ok", "error", "sent"},
                                kind: Kinds \cup {None}, id: Ids \cup {None},
                                port: Ports \cup {None}]]
  BY <1>1 DEF Shapes, Send
<1>4. known' \in [Commands -> SUBSET Ids] /\ \A e \in Commands : e # c => known'[e] = known[e]
  BY <1>1 DEF Shapes, Send, Registered
<1>5. PICK d \in Datagrams : d = Datagram(kind, id, port)
  BY DEF Datagram, Datagrams
<1>6. /\ queue' \in Seq(Datagrams) /\ DOMAIN queue = 1 .. Len(queue) /\ Len(queue) \in Nat
      /\ DOMAIN queue' = 1 .. Len(queue) + 1 /\ \A i \in DOMAIN queue : queue'[i] = queue[i]
      /\ queue'[Len(queue) + 1] = d
  BY <1>1, <1>2, <1>5, AppendKeeps DEF Shapes
<1>7. \A i \in DOMAIN queue' : queue'[i] = d \/ (i \in DOMAIN queue /\ queue'[i] = queue[i])
  BY <1>6
<1>8. port \in FreePorts /\ rcv[port] = <<>> /\ d.port = port /\ d.id = id
  BY <1>1, <1>2, <1>5, ListenersAssumption DEF SocketInv, FreePorts, Datagram
<1>9. Shapes'
  BY <1>1, <1>2, <1>3, <1>4, <1>6 DEF Shapes, Registered
<1>10. SocketInv'
  <2>1. \A e \in Commands : e # c => Waiting(e)' = Waiting(e)
    BY <1>3 DEF Waiting
  <2>2. ~Waiting(c) /\ Waiting(c)' = (pc = "waiting") /\ cmd'[c].port = port
    BY <1>2, <1>3 DEF Waiting
  <2>3. CASE pc = "waiting"
    <3>1. owner'[port] = c /\ \A p \in Ports : p # port => owner'[p] = owner[p]
      BY <1>1, <2>3 DEF Shapes
    <3>2. \A p \in LisPorts : owner'[p] \in Listeners
      BY <1>1, <1>8, <3>1, PortsType DEF SocketInv
    <3>3. \A p \in FreePorts : owner'[p] \in Commands \cup {None}
      BY <1>1, <1>8, <3>1, PortsType DEF SocketInv
    <3>4. \A e \in Commands : Waiting(e)' => cmd'[e].port \in FreePorts
      BY <1>1, <1>3, <1>8, <2>1, <2>2 DEF SocketInv
    <3>5. ASSUME NEW p \in FreePorts, NEW e \in Commands
          PROVE  owner'[p] = e <=> Waiting(e)' /\ cmd'[e].port = p
      <4>1. owner[p] = e <=> Waiting(e) /\ cmd[e].port = p
        BY <1>1 DEF SocketInv
      <4>2. CASE p = port /\ e = c
        <5>1. owner'[p] = e /\ cmd'[e].port = p
          BY <2>2, <3>1, <4>2
        <5>2. Waiting(e)'
          BY <2>2, <2>3, <4>2
        <5> QED BY <5>1, <5>2
      <4>3. CASE p = port /\ e # c
        <5>1. owner'[p] # e /\ owner[p] # e
          BY <1>2, <3>1, <4>3, ListenersAssumption
        <5> QED BY <1>3, <2>1, <4>1, <4>3, <5>1
      <4>4. CASE p # port
        BY <1>3, <2>1, <2>2, <3>1, <4>1, <4>4, PortsType
      <4> QED BY <4>2, <4>3, <4>4
    <3>6. \A p \in Ports : owner'[p] = None => rcv'[p] = <<>>
      BY <1>1, <1>2, <3>1, ListenersAssumption DEF SocketInv
    <3> QED BY <3>2, <3>3, <3>4, <3>5, <3>6 DEF SocketInv
  <2>4. CASE pc = "sent"
    <3>1. owner' = owner /\ \A e \in Commands : Waiting(e)' <=> Waiting(e)
      <4>1. pc # "waiting"
        BY <2>4
      <4> QED BY <2>1, <2>2, <4>1
    <3>2. \A e \in Commands : Waiting(e) => cmd'[e].port = cmd[e].port
      BY <1>3, <2>2
    <3> QED BY <1>1, <1>2, <3>1, <3>2 DEF SocketInv
  <2> QED BY <2>3, <2>4
<1>11. SenderInv'
  <2>1. ASSUME NEW i \in DOMAIN queue'
        PROVE  \/ \E e \in Commands : cmd'[e].id = queue'[i].id
               \/ \E k \in Listeners : PortOf[k] = queue'[i].port /\ IdOf[k] = queue'[i].id
    <3>1. CASE queue'[i] = d
      BY <1>3, <1>8, <3>1
    <3>2. CASE i \in DOMAIN queue /\ queue'[i] = queue[i]
      <4>1. queue[i].id \in Ids
        <5>1. queue[i] \in Datagrams
          BY <1>1, <3>2, Indices DEF Shapes
        <5> QED BY <5>1 DEF Datagrams
      <4>2. \A e \in Commands : cmd[e].id = queue[i].id => e # c
        BY <1>1, <1>2, <4>1, ListenersAssumption DEF SenderInv
      <4> QED BY <1>1, <1>3, <3>2, <4>2 DEF SenderInv
    <3> QED BY <1>7, <3>1, <3>2
  <2>2. \A e \in Commands : cmd'[e].pc = "idle" => cmd'[e].id = None
    BY <1>1, <1>3 DEF SenderInv
  <2> QED BY <2>1, <2>2 DEF SenderInv
<1>12. OkMeansRegistered'
  BY <1>1, <1>3, <1>4 DEF OkMeansRegistered
<1>13. ASSUME NEW e \in Commands, Waiting(e)' PROVE CommandOf(e)'
  <2>1. CASE e = c
    <3>1. \A i \in DOMAIN queue' : queue'[i].port = port => queue'[i] = d
      BY <1>2, <1>7
    <3>2. DOMAIN rcv'[port] = {}
      BY <1>2, <1>8, EmptySeq
    <3> QED BY <1>3, <1>5, <2>1, <3>1, <3>2 DEF CommandOf
  <2>2. CASE e # c
    <3>1. Waiting(e) /\ cmd'[e] = cmd[e] /\ known'[e] = known[e] /\ rcv' = rcv
      BY <1>2, <1>3, <1>4, <1>13, <2>2 DEF Waiting
    <3>2. cmd[e].port # port
      BY <1>1, <1>2, <1>8, <3>1, ListenersAssumption DEF SocketInv
    <3>3. \A i \in DOMAIN queue' : queue'[i].port = cmd[e].port =>
            queue'[i] = Datagram(cmd[e].kind, cmd[e].id, cmd[e].port)
      BY <1>1, <1>7, <1>8, <3>1, <3>2 DEF CommandOf
    <3> QED BY <1>1, <3>1, <3>3 DEF CommandOf
  <2> QED BY <2>1, <2>2
<1>14. ASSUME NEW l \in Listeners PROVE ListenerOf(l)'
  <2>1. d.port # PortOf[l]
    BY <1>8, ListenerType DEF FreePorts
  <2>2. \A i \in DOMAIN queue' : Sent(l, i)' => Sent(l, i) /\ queue'[i] = queue[i]
    BY <1>7, <2>1 DEF Sent
  <2>3. \A e \in Commands : cmd[e].id # None => cmd'[e].id = cmd[e].id
    BY <1>1, <1>2, <1>3 DEF SenderInv
  <2> QED BY <1>2, <2>2, <2>3, SameListener, DisturbedStays
<1>15. \A e \in Commands : CommandOf(e)'
  BY <1>13 DEF CommandOf
<1> QED BY <1>9, <1>10, <1>11, <1>12, <1>14, <1>15 DEF NInv

LEMMA SendAndWaitInv ==
    ASSUME NInv, NEW c \in Commands, NEW kind \in Kinds, NEW id \in Ids, NEW port \in Ports,
           SendAndWait(c, kind, id, port)
    PROVE  NInv'
BY SendInv DEF SendAndWait

LEMMA StartInv ==
    ASSUME NInv, NEW c \in Commands, NEW id \in Ids, NEW port \in Ports,
           \/ Subscribe(c, id, port) \/ Unsubscribe(c, id, port)
           \/ NotifyTest(c, id, port) \/ NotifyBroadcastTest(c, id, port)
           \/ CheckUDP(c, id, port)
    PROVE  NInv'
<1>1. CASE Subscribe(c, id, port)
  BY <1>1, SendAndWaitInv DEF Subscribe, Kinds
<1>2. CASE Unsubscribe(c, id, port)
  BY <1>2, SendInv DEF Unsubscribe, Kinds
<1>3. CASE NotifyTest(c, id, port)
  BY <1>3, SendAndWaitInv DEF NotifyTest, Kinds
<1>4. CASE NotifyBroadcastTest(c, id, port)
  BY <1>4, SendAndWaitInv DEF NotifyBroadcastTest, Kinds
<1>5. CASE CheckUDP(c, id, port)
  BY <1>5, SendAndWaitInv DEF CheckUDP, Kinds
<1> QED BY <1>1, <1>2, <1>3, <1>4, <1>5

\* A command ends, and its port is free again.
LEMMA FinishInv ==
    ASSUME NInv, NEW c \in Commands, Waiting(c), NEW verdict \in {"ok", "error", "sent"},
           Finish(c, verdict),
           verdict = "ok" /\ cmd[c].kind = "test" => cmd[c].id \in known[c]
    PROVE  NInv'
<1>1. /\ Shapes /\ SocketInv /\ SenderInv /\ OkMeansRegistered
      /\ \A e \in Commands : CommandOf(e)
  BY InvParts
<1>2. PICK port \in FreePorts : port = cmd[c].port
  BY <1>1 DEF SocketInv
<1>3. port \in Ports /\ port \notin LisPorts /\ owner[port] = c
  BY <1>1, <1>2, PortsType DEF SocketInv
<1>4. /\ UNCHANGED <<clients, queue, lis, sends, restarts, known>>
      /\ owner' = [owner EXCEPT ![port] = None] /\ rcv' = [rcv EXCEPT ![port] = <<>>]
      /\ cmd' = [cmd EXCEPT ![c].pc = verdict]
  BY <1>2 DEF Finish
<1>5. /\ owner'[port] = None /\ \A p \in Ports : p # port => owner'[p] = owner[p]
      /\ rcv'[port] = <<>> /\ \A p \in Ports : p # port => rcv'[p] = rcv[p]
  BY <1>1, <1>3, <1>4 DEF Shapes
<1>6. /\ cmd'[c].pc = verdict /\ cmd'[c].id = cmd[c].id /\ cmd'[c].kind = cmd[c].kind
      /\ \A e \in Commands : e # c => cmd'[e] = cmd[e]
      /\ cmd' \in [Commands -> [pc: {"idle", "waiting", "ok", "error", "sent"},
                                kind: Kinds \cup {None}, id: Ids \cup {None},
                                port: Ports \cup {None}]]
  <2> DEFINE Cmds == [pc: {"idle", "waiting", "ok", "error", "sent"}, kind: Kinds \cup {None},
                      id: Ids \cup {None}, port: Ports \cup {None}]
             new == [cmd[c] EXCEPT !.pc = verdict]
  <2>1. cmd \in [Commands -> Cmds] /\ cmd[c] \in Cmds
    BY <1>1 DEF Shapes
  <2>2. new \in Cmds /\ new.pc = verdict /\ new.id = cmd[c].id /\ new.kind = cmd[c].kind
    BY <2>1
  <2>3. cmd' = [cmd EXCEPT ![c] = new]
    BY <1>4
  <2> HIDE DEF Cmds, new
  <2>4. cmd'[c] = new /\ (\A e \in Commands : e # c => cmd'[e] = cmd[e]) /\ cmd' \in [Commands -> Cmds]
    BY <2>1, <2>2, <2>3
  <2> QED BY <2>2, <2>4 DEF Cmds
<1>7. Shapes'
  BY <1>1, <1>3, <1>4, <1>6, EmptySeq DEF Shapes, Registered
<1>8. ~Waiting(c)' /\ \A e \in Commands : e # c => Waiting(e)' = Waiting(e)
  BY <1>6 DEF Waiting
<1>9. SocketInv'
  <2>1. /\ \A p \in LisPorts : owner'[p] \in Listeners
        /\ \A p \in FreePorts : owner'[p] \in Commands \cup {None}
        /\ \A p \in Ports : owner'[p] = None => rcv'[p] = <<>>
    BY <1>1, <1>3, <1>5, PortsType DEF SocketInv
  <2>2. \A e \in Commands : Waiting(e)' => cmd'[e].port \in FreePorts
    BY <1>1, <1>6, <1>8 DEF SocketInv
  <2>3. ASSUME NEW p \in FreePorts, NEW e \in Commands
        PROVE  owner'[p] = e <=> Waiting(e)' /\ cmd'[e].port = p
    <3>1. owner[p] = e <=> Waiting(e) /\ cmd[e].port = p
      BY <1>1 DEF SocketInv
    <3>2. CASE e = c
      BY <1>2, <1>5, <1>8, <3>1, <3>2, PortsType, ListenersAssumption
    <3>3. CASE e # c
      BY <1>3, <1>5, <1>6, <1>8, <3>1, <3>3, PortsType, ListenersAssumption
    <3> QED BY <3>2, <3>3
  <2> QED BY <2>1, <2>2, <2>3 DEF SocketInv
<1>10. SenderInv'
  <2>1. \A e \in Commands : cmd'[e].id = cmd[e].id /\ (cmd'[e].pc = "idle" => cmd[e].pc = "idle")
    BY <1>6
  <2> QED BY <1>1, <1>4, <2>1 DEF SenderInv
<1>11. OkMeansRegistered'
  BY <1>1, <1>4, <1>6 DEF OkMeansRegistered
<1>12. ASSUME NEW e \in Commands, Waiting(e)' PROVE CommandOf(e)'
  <2>1. e # c /\ Waiting(e) /\ cmd'[e] = cmd[e]
    BY <1>6, <1>8, <1>12
  <2>2. cmd[e].port \in Ports /\ cmd[e].port # port
    BY <1>1, <1>3, <2>1, PortsType DEF SocketInv
  <2>3. rcv'[cmd[e].port] = rcv[cmd[e].port]
    BY <1>5, <2>2
  <2> QED BY <1>1, <1>4, <2>1, <2>3 DEF CommandOf
<1>13. ASSUME NEW l \in Listeners PROVE ListenerOf(l)'
  <2>1. rcv'[PortOf[l]] = rcv[PortOf[l]]
    BY <1>3, <1>5, ListenerType
  <2>2. ~Disturbed(l)' => ~Disturbed(l)
    BY <1>6, DisturbedStays
  <2>3. \A i \in DOMAIN queue' : Sent(l, i)' => Sent(l, i) /\ queue'[i] = queue[i]
    BY <1>4 DEF Sent
  <2> QED BY <1>4, <2>1, <2>2, <2>3, SameListener
<1>14. \A e \in Commands : CommandOf(e)'
  BY <1>12 DEF CommandOf
<1> QED BY <1>7, <1>9, <1>10, <1>11, <1>13, <1>14 DEF NInv

LEMMA ReadAnswerInv == ASSUME NInv, NEW c \in Commands, ReadAnswer(c) PROVE NInv'
<1>1. Waiting(c) /\ rcv[cmd[c].port] # <<>> /\ Shapes /\ SocketInv /\ CommandOf(c)
  BY InvParts DEF ReadAnswer
<1>2. PICK m : m = Head(rcv[cmd[c].port]) /\ 1 \in DOMAIN rcv[cmd[c].port]
               /\ m = rcv[cmd[c].port][1]
  <2>1. rcv[cmd[c].port] \in Seq(Messages)
    BY <1>1, PortsType DEF Shapes, SocketInv
  <2> QED BY <1>1, <2>1, TailShifts
<1>3. PICK verdict \in {"ok", "error", "sent"} : verdict = Verdict(cmd[c].kind, m.kind)
  BY DEF Verdict
<1>4. Finish(c, verdict)
  BY <1>2, <1>3 DEF ReadAnswer
<1>5. verdict = "ok" /\ cmd[c].kind = "test" => m.kind = "ok"
  BY <1>3 DEF Verdict
<1>6. verdict = "ok" /\ cmd[c].kind = "test" => cmd[c].id \in known[c]
  BY <1>1, <1>2, <1>5 DEF CommandOf
<1> QED BY <1>1, <1>4, <1>6, FinishInv

LEMMA TimeoutInv ==
    ASSUME NInv, NEW c \in Commands, Timeout(c) \/ EndSilently(c)
    PROVE  NInv'
<1>1. PICK verdict \in {"error", "sent"} : Finish(c, verdict)
  BY DEF Timeout, EndSilently
<1>2. Waiting(c)
  BY DEF Timeout, EndSilently, NoAnswer
<1> QED BY <1>1, <1>2, FinishInv

-----------------------------------------------------------------------------
(* The listeners' own steps.                                               *)

\* What a listener's step leaves to all others.
LEMMA OwnStepInv ==
    ASSUME NInv, NEW l \in Listeners, UNCHANGED <<clients, owner, cmd, restarts, known>>,
           Shapes', \A k \in Listeners : k # l => lis'[k] = lis[k],
           \A p \in Ports : p # PortOf[l] => rcv'[p] = rcv[p],
           \A i \in DOMAIN queue' : \/ i \in DOMAIN queue /\ queue'[i] = queue[i]
                                    \/ queue'[i].port = PortOf[l] /\ queue'[i].id = IdOf[l],
           ListenerOf(l)'
    PROVE  NInv'
<1>1. /\ SocketInv /\ SenderInv /\ OkMeansRegistered /\ \A c \in Commands : CommandOf(c)
      /\ PortOf[l] \in LisPorts /\ PortOf[l] \in Ports
  BY InvParts, ListenerType
<1>2. SocketInv'
  <2>1. \A c \in Commands : Waiting(c)' <=> Waiting(c)
    BY DEF Waiting
  <2>2. owner[PortOf[l]] # None
    BY <1>1, ListenersAssumption DEF SocketInv
  <2>3. \A p \in Ports : owner'[p] = None => rcv'[p] = <<>>
    BY <1>1, <2>2 DEF SocketInv
  <2> QED BY <1>1, <2>1, <2>3 DEF SocketInv
<1>3. SenderInv'
  <2>1. ASSUME NEW i \in DOMAIN queue'
        PROVE  \/ \E c \in Commands : cmd'[c].id = queue'[i].id
               \/ \E k \in Listeners : PortOf[k] = queue'[i].port /\ IdOf[k] = queue'[i].id
    BY <1>1 DEF SenderInv
  <2> QED BY <1>1, <2>1 DEF SenderInv
<1>4. OkMeansRegistered'
  BY <1>1 DEF OkMeansRegistered
<1>5. ASSUME NEW c \in Commands, Waiting(c)' PROVE CommandOf(c)'
  <2>1. Waiting(c) /\ CommandOf(c) /\ cmd[c].port \in FreePorts
    BY <1>1, <1>5 DEF Waiting, SocketInv
  <2>2. cmd[c].port # PortOf[l] /\ rcv'[cmd[c].port] = rcv[cmd[c].port]
    BY <1>1, <2>1, PortsType
  <2> QED BY <2>1, <2>2 DEF CommandOf
<1>6. ASSUME NEW k \in Listeners, k # l PROVE ListenerOf(k)'
  <2>1. PortOf[k] # PortOf[l] /\ PortOf[k] \in Ports
    BY <1>6, ListenerType
  <2>2. \A i \in DOMAIN queue' : Sent(k, i)' => Sent(k, i) /\ queue'[i] = queue[i]
    BY <2>1 DEF Sent
  <2>3. rcv'[PortOf[k]] = rcv[PortOf[k]] /\ lis'[k] = lis[k]
    BY <1>6, <2>1
  <2> QED BY <2>2, <2>3, DisturbedStays, SameListener
<1>7. \A c \in Commands : CommandOf(c)'
  BY <1>5 DEF CommandOf
<1>8. \A k \in Listeners : ListenerOf(k)'
  BY <1>6
<1> QED BY <1>2, <1>3, <1>4, <1>7, <1>8 DEF NInv

\* What a listener sends comes last.
LEMMA AskShape ==
    ASSUME NInv, NEW l \in Listeners, NEW kind \in Kinds, NEW from,
           NEW to \in {"joining", "on", "leaving"}, Ask(l, kind, from, to)
    PROVE  /\ Shapes' /\ UNCHANGED <<clients, owner, rcv, cmd, restarts, known>>
           /\ lis[l].pc = from /\ lis'[l].pc = to /\ lis'[l].epoch = lis[l].epoch
           /\ \A k \in Listeners : k # l => lis'[k] = lis[k]
           /\ DOMAIN queue = 1 .. Len(queue) /\ Len(queue) \in Nat
           /\ DOMAIN queue' = 1 .. Len(queue) + 1
           /\ \A i \in DOMAIN queue : queue'[i] = queue[i]
           /\ queue'[Len(queue) + 1] = Datagram(kind, IdOf[l], PortOf[l])
<1>1. Shapes
  BY InvParts
<1>2. PICK d \in Datagrams : d = Datagram(kind, IdOf[l], PortOf[l])
  BY ListenerType DEF Datagram, Datagrams
<1>3. /\ queue' = Append(queue, d) /\ lis' = [lis EXCEPT ![l].pc = to] /\ lis[l].pc = from
      /\ sends' = [sends EXCEPT ![l] = @ + 1] /\ UNCHANGED <<clients, owner, rcv, cmd, restarts, known>>
  BY <1>2 DEF Ask
<1>4. /\ queue' \in Seq(Datagrams) /\ DOMAIN queue = 1 .. Len(queue) /\ Len(queue) \in Nat
      /\ DOMAIN queue' = 1 .. Len(queue) + 1 /\ \A i \in DOMAIN queue : queue'[i] = queue[i]
      /\ queue'[Len(queue) + 1] = d
  BY <1>1, <1>3, AppendKeeps DEF Shapes
<1>5. /\ lis'[l].pc = to /\ lis'[l].epoch = lis[l].epoch
      /\ \A k \in Listeners : k # l => lis'[k] = lis[k]
      /\ lis' \in [Listeners -> [pc: {"off", "joining", "on", "leaving"}, epoch: Nat]]
  <2> DEFINE Stages == [pc: {"off", "joining", "on", "leaving"}, epoch: Nat]
             new == [lis[l] EXCEPT !.pc = to]
  <2>1. lis \in [Listeners -> Stages] /\ lis[l] \in Stages
    BY <1>1 DEF Shapes
  <2>2. new \in Stages /\ new.pc = to /\ new.epoch = lis[l].epoch
    BY <2>1
  <2>3. lis' = [lis EXCEPT ![l] = new]
    BY <1>3
  <2> HIDE DEF Stages, new
  <2>4. lis'[l] = new /\ (\A k \in Listeners : k # l => lis'[k] = lis[k]) /\ lis' \in [Listeners -> Stages]
    BY <2>1, <2>2, <2>3
  <2> QED BY <2>2, <2>4 DEF Stages
<1>6. sends' \in [Listeners -> Nat]
  BY <1>1, <1>3 DEF Shapes
<1>7. Shapes'
  BY <1>1, <1>3, <1>4, <1>5, <1>6 DEF Shapes, Registered
<1> QED BY <1>2, <1>3, <1>4, <1>5, <1>7

\* It asks where its protocol allows it.
LEMMA AskInv ==
    ASSUME NInv, NEW l \in Listeners,
           \/ Ask(l, "register", "off", "joining")
           \/ Ask(l, "notify", "on", "on")
           \/ Ask(l, "unregister", "on", "leaving")
    PROVE  NInv'
<1>1. PICK kind \in {"register", "notify", "unregister"}, from \in {"off", "on"},
           to \in {"joining", "on", "leaving"} :
        /\ Ask(l, kind, from, to)
        /\ kind = "register" => from = "off" /\ to = "joining"
        /\ kind = "notify" => from = "on" /\ to = "on"
        /\ kind = "unregister" => from = "on" /\ to = "leaving"
  OBVIOUS
<1>2. PICK n \in Nat :
        /\ Shapes' /\ UNCHANGED <<clients, owner, rcv, cmd, restarts, known>>
        /\ lis[l].pc = from /\ lis'[l].pc = to /\ lis'[l].epoch = lis[l].epoch
        /\ \A k \in Listeners : k # l => lis'[k] = lis[k]
        /\ DOMAIN queue = 1 .. n /\ DOMAIN queue' = 1 .. n + 1
        /\ \A i \in DOMAIN queue : queue'[i] = queue[i]
        /\ queue'[n + 1] = Datagram(kind, IdOf[l], PortOf[l])
  BY <1>1, AskShape DEF Kinds
<1>3. queue'[n + 1].kind = kind /\ queue'[n + 1].id = IdOf[l] /\ queue'[n + 1].port = PortOf[l]
  BY <1>2 DEF Datagram
<1>4. AddressOf(l) /\ JoiningOf(l) /\ LeavingOf(l) /\ ServedOf(l)
  BY InvParts
<1>5. \A i \in DOMAIN queue' : i = n + 1 \/ (i \in DOMAIN queue /\ queue'[i] = queue[i] /\ i <= n)
  BY <1>2
<1>6. \A i \in DOMAIN queue' : i = n + 1 \/ (Sent(l, i)' <=> Sent(l, i))
  BY <1>5 DEF Sent
<1>7. \A k \in DOMAIN rcv[PortOf[l]] : ~Got(l, k, "register_ack") /\ ~Got(l, k, "unregister_ack")
  <2>1. from = "off" => DOMAIN rcv[PortOf[l]] = {}
    BY <1>2, <1>4, EmptySeq DEF AddressOf
  <2> QED BY <1>2, <1>4, <2>1 DEF JoiningOf, LeavingOf
<1>8. \A i \in DOMAIN queue : Sent(l, i) => queue[i].kind = "notify" /\ from = "on"
  BY <1>2, <1>4 DEF AddressOf, JoiningOf, LeavingOf, Quiet, Sent
<1>9. \A i \in DOMAIN queue' : Sent(l, i)' =>
        \/ i = n + 1
        \/ i <= n /\ queue'[i].kind = "notify" /\ queue'[i].id = IdOf[l] /\ from = "on"
  BY <1>4, <1>5, <1>6, <1>8 DEF AddressOf
<1>10. AddressOf(l)'
  <2>1. \A i \in DOMAIN queue' : Sent(l, i)' =>
          queue'[i].id = IdOf[l] /\ queue'[i].kind \in {"register", "notify", "unregister"}
    BY <1>3, <1>9
  <2> QED BY <1>2, <1>4, <2>1 DEF AddressOf
<1>11. JoiningOf(l)'
  <2>1. ASSUME NEW i \in DOMAIN queue', Sent(l, i)', queue'[i].kind = "register"
        PROVE  lis'[l].pc = "joining" /\ \A j \in DOMAIN queue' : Sent(l, j)' => j = i
    <3>1. i = n + 1 /\ kind = "register"
      BY <1>3, <1>9, <2>1
    <3> QED BY <1>1, <1>2, <1>9, <3>1
  <2> QED BY <1>2, <1>7, <2>1 DEF JoiningOf, Got
<1>12. LeavingOf(l)'
  <2>1. ASSUME NEW i \in DOMAIN queue', Sent(l, i)', queue'[i].kind = "unregister"
        PROVE  lis'[l].pc = "leaving" /\ \A j \in DOMAIN queue' : Sent(l, j)' => j <= i
    <3>1. i = n + 1 /\ kind = "unregister"
      BY <1>3, <1>9, <2>1
    <3> QED BY <1>1, <1>2, <1>9, <3>1
  <2> QED BY <1>2, <1>7, <2>1 DEF LeavingOf, Got
<1>13. ServedOf(l)'
  <2>1. Disturbed(l)' <=> Disturbed(l)
    BY <1>2 DEF Disturbed
  <2>2. to = "on" => from = "on"
    BY <1>1
  <2>3. \A k \in DOMAIN rcv'[PortOf[l]] : ~Got(l, k, "register_ack")'
    BY <1>2, <1>7 DEF Got
  <2> QED BY <1>2, <1>4, <2>1, <2>2, <2>3 DEF ServedOf
<1>14. ListenerOf(l)'
  BY <1>10, <1>11, <1>12, <1>13 DEF ListenerOf
<1>15. \A i \in DOMAIN queue' : \/ i \in DOMAIN queue /\ queue'[i] = queue[i]
                                \/ queue'[i].port = PortOf[l] /\ queue'[i].id = IdOf[l]
  BY <1>3, <1>5
<1> QED BY <1>2, <1>14, <1>15, OwnStepInv

\* What a listener reads, and what that makes of it.
LEMMA ListenInv == ASSUME NInv, NEW l \in Listeners, Listen(l) PROVE NInv'
<1> DEFINE s == rcv[PortOf[l]]
           t == rcv'[PortOf[l]]
<1>1. /\ Shapes /\ AddressOf(l) /\ JoiningOf(l) /\ LeavingOf(l) /\ ServedOf(l)
      /\ PortOf[l] \in Ports /\ IdOf[l] \in Ids
  BY InvParts, ListenerType
<1>2. /\ s # <<>> /\ s \in Seq(Messages)
      /\ UNCHANGED <<clients, queue, owner, cmd, sends, restarts, known>>
      /\ rcv' = [rcv EXCEPT ![PortOf[l]] = Tail(@)]
  BY <1>1 DEF Listen, Shapes
<1>3. PICK m \in Messages : m = Head(s)
  BY <1>2, TailShifts
<1>4. /\ t = Tail(s) /\ t \in Seq(Messages) /\ \A p \in Ports : p # PortOf[l] => rcv'[p] = rcv[p]
      /\ rcv' \in [Ports -> Seq(Messages)]
  <2>1. Tail(s) \in Seq(Messages)
    BY <1>2, TailShifts
  <2> QED BY <1>1, <1>2, <2>1 DEF Shapes
<1>5. /\ m = s[1] /\ 1 \in DOMAIN s
      /\ DOMAIN s = 1 .. Len(s) /\ Len(s) \in Nat /\ DOMAIN t = 1 .. Len(s) - 1 /\ Len(t) = Len(s) - 1
      /\ \A k \in DOMAIN t : k + 1 \in DOMAIN s /\ t[k] = s[k + 1]
  BY <1>2, <1>3, <1>4, TailShifts, Indices
<1>6. PICK new \in [pc: {"off", "joining", "on", "leaving"}, epoch: Nat] :
        /\ lis'[l] = new
        /\ m.kind = "register_ack" => new.pc = "on" /\ new.epoch = m.epoch
        /\ m.kind = "unregister_ack" => new.pc = "off" /\ new.epoch = lis[l].epoch
        /\ m.kind \notin Acks => new = lis[l]
        /\ \A k \in Listeners : k # l => lis'[k] = lis[k]
        /\ lis' \in [Listeners -> [pc: {"off", "joining", "on", "leaving"}, epoch: Nat]]
  <2> DEFINE Stages == [pc: {"off", "joining", "on", "leaving"}, epoch: Nat]
             next == IF m.kind = "register_ack" THEN [pc |-> "on", epoch |-> m.epoch]
                       ELSE IF m.kind = "unregister_ack" THEN [lis[l] EXCEPT !.pc = "off"]
                                                         ELSE lis[l]
  <2>1. lis \in [Listeners -> Stages] /\ lis[l] \in Stages
    BY <1>1 DEF Shapes
  <2>2. m.epoch \in Nat
    BY DEF Messages
  <2>3. /\ next \in Stages
        /\ m.kind = "register_ack" => next.pc = "on" /\ next.epoch = m.epoch
        /\ m.kind = "unregister_ack" => next.pc = "off" /\ next.epoch = lis[l].epoch
        /\ m.kind \notin Acks => next = lis[l]
    BY <2>1, <2>2 DEF Acks
  <2>4. lis' = [lis EXCEPT ![l] = next]
    BY <1>3 DEF Listen
  <2> HIDE DEF Stages, next
  <2>5. lis'[l] = next /\ (\A k \in Listeners : k # l => lis'[k] = lis[k]) /\ lis' \in [Listeners -> Stages]
    BY <2>1, <2>3, <2>4
  <2> QED BY <2>3, <2>5 DEF Stages
<1>7. Shapes'
  BY <1>1, <1>2, <1>4, <1>6 DEF Shapes, Registered
<1> HIDE DEF s, t
<1>8. /\ Quiet(l)' <=> Quiet(l)
      /\ \A i \in DOMAIN queue' : Sent(l, i)' <=> Sent(l, i)
  BY <1>2 DEF Quiet, Sent
<1>9. \A k \in DOMAIN t : \A kind \in Acks :
        Got(l, k, kind)' => Got(l, k + 1, kind) /\ k + 1 \in DOMAIN s
  BY <1>5 DEF Got, s, t
<1>10. /\ m.kind = "register_ack" => Got(l, 1, "register_ack")
       /\ m.kind = "unregister_ack" => Got(l, 1, "unregister_ack")
  BY <1>5 DEF Got, s
<1>11. m.kind = "register_ack" =>
        /\ lis[l].pc = "joining" /\ Quiet(l) /\ \A k \in DOMAIN t : ~Got(l, k, "register_ack")'
  <2>1. ASSUME m.kind = "register_ack" PROVE lis[l].pc = "joining" /\ Quiet(l)
    BY <1>1, <1>5, <1>10, <2>1 DEF JoiningOf, s
  <2>2. ASSUME m.kind = "register_ack", NEW k \in DOMAIN t, Got(l, k, "register_ack")' PROVE FALSE
    <3>1. Got(l, k + 1, "register_ack") /\ k + 1 \in DOMAIN s
      BY <1>9, <2>2 DEF Acks
    <3>2. k + 1 = 1
      BY <1>1, <1>5, <1>10, <2>2, <3>1 DEF JoiningOf, s
    <3> QED BY <1>5, <2>2, <3>2
  <2> QED BY <2>1, <2>2
<1>12. m.kind = "unregister_ack" =>
        /\ lis[l].pc = "leaving" /\ Quiet(l) /\ clients[IdOf[l]] # PortOf[l]
        /\ t = <<>> /\ DOMAIN t = {}
  <2>1. ASSUME m.kind = "unregister_ack"
        PROVE  /\ lis[l].pc = "leaving" /\ Quiet(l) /\ clients[IdOf[l]] # PortOf[l]
               /\ Len(s) = 1
    BY <1>1, <1>5, <1>10, <2>1 DEF LeavingOf, s
  <2>2. ASSUME m.kind = "unregister_ack" PROVE t = <<>> /\ DOMAIN t = {}
    BY <1>4, <1>5, <2>1, <2>2, EmptySeq
  <2> QED BY <2>1, <2>2
<1>13. lis[l].pc # "off"
  BY <1>1, <1>2 DEF AddressOf, s
<1>14. AddressOf(l)'
  <2>1. \A i \in DOMAIN queue' : Sent(l, i)' =>
          queue'[i].id = IdOf[l] /\ queue'[i].kind \in {"register", "notify", "unregister"}
    BY <1>1, <1>2, <1>8 DEF AddressOf
  <2>2. lis'[l].pc = "off" => m.kind = "unregister_ack"
    BY <1>6, <1>13 DEF Acks
  <2> QED BY <1>1, <1>2, <1>8, <1>12, <2>1, <2>2 DEF AddressOf, t
<1>15. JoiningOf(l)'
  <2>1. ASSUME NEW i \in DOMAIN queue', Sent(l, i)', queue'[i].kind = "register"
        PROVE  /\ lis'[l].pc = "joining" /\ \A j \in DOMAIN queue' : Sent(l, j)' => j = i
               /\ \A k \in DOMAIN t : ~Got(l, k, "register_ack")'
    <3>1. /\ lis[l].pc = "joining" /\ \A j \in DOMAIN queue : Sent(l, j) => j = i
          /\ \A k \in DOMAIN s : ~Got(l, k, "register_ack")
      BY <1>1, <1>2, <1>8, <2>1 DEF JoiningOf, s
    <3>2. ~Quiet(l)
      BY <1>2, <1>8, <2>1 DEF Quiet, Sent
    <3>3. m.kind \notin Acks
      BY <1>11, <1>12, <3>2 DEF Acks
    <3>4. lis'[l].pc = "joining"
      BY <1>6, <3>1, <3>3
    <3> QED BY <1>2, <1>8, <1>9, <3>1, <3>4 DEF Acks
  <2>2. ASSUME NEW k \in DOMAIN t, Got(l, k, "register_ack")'
        PROVE  /\ lis'[l].pc = "joining" /\ Quiet(l)'
               /\ \A j \in DOMAIN t : Got(l, j, "register_ack")' => j = k
    <3>1. \A j \in DOMAIN t : Got(l, j, "register_ack")' => Got(l, j + 1, "register_ack") /\ j + 1 \in DOMAIN s
      BY <1>9 DEF Acks
    <3>2. /\ lis[l].pc = "joining" /\ Quiet(l)
          /\ \A j \in DOMAIN s : Got(l, j, "register_ack") => j = k + 1
      BY <1>1, <2>2, <3>1 DEF JoiningOf, s
    <3>3. m.kind # "register_ack" /\ m.kind # "unregister_ack"
      BY <1>11, <1>12, <2>2
    <3>4. lis'[l].pc = "joining"
      BY <1>6, <3>2, <3>3 DEF Acks
    <3>5. ASSUME NEW j \in DOMAIN t, Got(l, j, "register_ack")' PROVE j = k
      BY <1>5, <3>1, <3>2, <3>5
    <3> QED BY <1>8, <3>2, <3>4, <3>5
  <2> QED BY <2>1, <2>2 DEF JoiningOf, t
<1>16. LeavingOf(l)'
  <2>1. ASSUME NEW i \in DOMAIN queue', Sent(l, i)', queue'[i].kind = "unregister"
        PROVE  /\ lis'[l].pc = "leaving" /\ \A j \in DOMAIN queue' : Sent(l, j)' => j <= i
               /\ \A k \in DOMAIN t : ~Got(l, k, "unregister_ack")'
    <3>1. /\ lis[l].pc = "leaving" /\ \A j \in DOMAIN queue : Sent(l, j) => j <= i
          /\ \A k \in DOMAIN s : ~Got(l, k, "unregister_ack")
      BY <1>1, <1>2, <1>8, <2>1 DEF LeavingOf, s
    <3>2. ~Quiet(l)
      BY <1>2, <1>8, <2>1 DEF Quiet, Sent
    <3>3. m.kind \notin Acks
      BY <1>11, <1>12, <3>2 DEF Acks
    <3>4. lis'[l].pc = "leaving"
      BY <1>6, <3>1, <3>3
    <3> QED BY <1>2, <1>8, <1>9, <3>1, <3>4 DEF Acks
  <2>2. ASSUME NEW k \in DOMAIN t, Got(l, k, "unregister_ack")'
        PROVE  /\ lis'[l].pc = "leaving" /\ Quiet(l)' /\ clients'[IdOf[l]] # PortOf[l]
               /\ k = Len(t)
    <3>1. Got(l, k + 1, "unregister_ack") /\ k + 1 \in DOMAIN s
      BY <1>9, <2>2 DEF Acks
    <3>2. /\ lis[l].pc = "leaving" /\ Quiet(l) /\ clients[IdOf[l]] # PortOf[l]
          /\ k + 1 = Len(s)
      BY <1>1, <3>1 DEF LeavingOf, s
    <3>3. m.kind # "register_ack" /\ m.kind # "unregister_ack"
      BY <1>11, <1>12, <2>2, <3>2
    <3>4. lis'[l].pc = "leaving"
      BY <1>6, <3>2, <3>3 DEF Acks
    <3>5. k = Len(t)
      BY <1>5, <2>2, <3>2
    <3> QED BY <1>2, <1>8, <3>2, <3>4, <3>5
  <2> QED BY <2>1, <2>2 DEF LeavingOf, t
<1>17. ServedOf(l)'
  <2>1. Disturbed(l)' <=> Disturbed(l)
    BY <1>2 DEF Disturbed
  <2>2. /\ lis[l].epoch <= restarts /\ \A k \in DOMAIN s : s[k].epoch <= restarts
        /\ ~Disturbed(l) =>
            /\ lis[l].pc = "on" /\ lis[l].epoch = restarts => clients[IdOf[l]] = PortOf[l]
            /\ \A k \in DOMAIN s : Got(l, k, "register_ack") /\ s[k].epoch = restarts
                    => clients[IdOf[l]] = PortOf[l]
    BY <1>1 DEF ServedOf, s
  <2>3. lis'[l].epoch <= restarts
    BY <1>5, <1>6, <2>2 DEF Acks
  <2>4. \A k \in DOMAIN t : t[k].epoch <= restarts
    BY <1>5, <2>2
  <2>5. ASSUME ~Disturbed(l), lis'[l].pc = "on", lis'[l].epoch = restarts
        PROVE  clients[IdOf[l]] = PortOf[l]
    <3>1. CASE m.kind = "register_ack"
      BY <1>5, <1>6, <1>10, <2>2, <2>5, <3>1
    <3>2. CASE m.kind # "register_ack"
      BY <1>6, <2>2, <2>5, <3>2 DEF Acks
    <3> QED BY <3>1, <3>2
  <2>6. ASSUME ~Disturbed(l), NEW k \in DOMAIN t, Got(l, k, "register_ack")', t[k].epoch = restarts
        PROVE  clients[IdOf[l]] = PortOf[l]
    BY <1>5, <1>9, <2>2, <2>6 DEF Acks
  <2> QED BY <1>2, <2>1, <2>3, <2>4, <2>5, <2>6 DEF ServedOf, t
<1>18. ListenerOf(l)'
  BY <1>14, <1>15, <1>16, <1>17 DEF ListenerOf
<1> QED BY <1>2, <1>4, <1>6, <1>7, <1>18, OwnStepInv

-----------------------------------------------------------------------------
(* The theorems.                                                           *)

LEMMA SameInv == NInv /\ UNCHANGED vars => NInv'
<1> SUFFICES ASSUME NInv, UNCHANGED vars PROVE NInv'
  OBVIOUS
<1> USE DEF vars
<1>1. Shapes' /\ SocketInv' /\ SenderInv' /\ OkMeansRegistered'
  BY InvParts DEF Shapes, Registered, SocketInv, SenderInv, OkMeansRegistered, Waiting
<1>2. \A c \in Commands : CommandOf(c)'
  BY InvParts DEF CommandOf, Waiting
<1>3. ASSUME NEW l \in Listeners PROVE ListenerOf(l)'
  BY SameListener, DisturbedStays DEF Sent
<1> QED BY <1>1, <1>2, <1>3 DEF NInv

LEMMA NextInv == NInv /\ [Next]_vars => NInv'
<1> SUFFICES ASSUME NInv, [Next]_vars PROVE NInv'
  OBVIOUS
<1>1. CASE Register \/ Unregister \/ Notification \/ Test \/ TestBroadcast \/ Health
  BY <1>1, RegisterInv, UnregisterInv, NotificationInv, TestInv, TestBroadcastInv, HealthInv
<1>2. CASE Lose \/ Restart
  BY <1>2, LoseInv, RestartInv
<1>3. ASSUME NEW c \in Commands, ReadAnswer(c) \/ Timeout(c) \/ EndSilently(c) PROVE NInv'
  BY <1>3, ReadAnswerInv, TimeoutInv
<1>4. ASSUME NEW c \in Commands, NEW id \in Ids, NEW port \in Ports,
             \/ Subscribe(c, id, port) \/ Unsubscribe(c, id, port)
             \/ NotifyTest(c, id, port) \/ NotifyBroadcastTest(c, id, port)
             \/ CheckUDP(c, id, port)
      PROVE  NInv'
  BY <1>4, StartInv
<1>5. ASSUME NEW l \in Listeners,
             \/ Listen(l) \/ Ask(l, "register", "off", "joining")
             \/ Ask(l, "notify", "on", "on") \/ Ask(l, "unregister", "on", "leaving")
      PROVE  NInv'
  BY <1>5, ListenInv, AskInv
<1>6. CASE UNCHANGED vars
  BY <1>6, SameInv
<1> QED BY <1>1, <1>2, <1>3, <1>4, <1>5, <1>6 DEF Next

\* The inductive invariant holds in every reachable state.
THEOREM NotifyInvariance == Spec => []NInv
<1> QED BY InitInv, NextInv, PTL DEF Spec

\* Types, and a command's port is its own for as long as it waits.
THEOREM NotifyTypes == Spec => []TypeOK
<1> QED BY NotifyInvariance, InvType, PTL

\* A listener whose registration was acknowledged in this run of the server is
\* registered under its own address, unless others use its id.
THEOREM AckedServed == Spec => []AckedAreServed
<1> QED BY NotifyInvariance, InvSafe, PTL

\* No notification reaches a listener after the answer to its unregister.
THEOREM LeftNotTold == Spec => []LeftAreNotTold
<1> QED BY NotifyInvariance, InvSafe, PTL

\* A `notify test` that says OK was registered while it ran, whatever earlier
\* owners of its port had asked.
THEOREM OkRegistered == Spec => []OkMeansRegistered
<1> QED BY NotifyInvariance, InvSafe, PTL
=============================================================================
