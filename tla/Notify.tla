------------------------------- MODULE Notify -------------------------------
(***************************************************************************)
(* Notifications over UDP: the server's map of registered clients and its  *)
(* one read loop, the commands `mangahub notify ...`, each of which uses a *)
(* socket of its own for at most two seconds, and listeners, programs that *)
(* keep their socket.                                                      *)
(*                                                                         *)
(* Datagrams may be lost but not reordered or doubled: all parties are     *)
(* processes of one host, and the server reads them from one queue.        *)
(***************************************************************************)
EXTENDS Naturals, Sequences, FiniteSets, Functions

CONSTANTS
    Ids, Ports,   \* client ids and client addresses
    Commands,     \* runs of the command line client, and the API's health checks
    Listeners,
    IdOf, PortOf, \* what a listener registers, and from where
    MaxSends,     \* bound: datagrams each listener sends
    MaxRestarts,  \* bound: restarts of the server
    None

ASSUME ListenersAssumption ==
    /\ IdOf \in [Listeners -> Ids] /\ PortOf \in [Listeners -> Ports]
    /\ \A l, k \in Listeners : l # k => PortOf[l] # PortOf[k]
    /\ Listeners \cap Commands = {} /\ None \notin Ids \cup Ports \cup Listeners \cup Commands
ASSUME BoundsAssumption == MaxSends \in Nat /\ MaxRestarts \in Nat

VARIABLES
    clients,   \* clients[id]: its address, or None
    queue,     \* datagrams on their way to the server
    owner,     \* owner[p]: who has a socket on p, or None
    rcv,       \* rcv[p]: datagrams the socket on p has received
    cmd,       \* cmd[c]: the command, and what it has said
    lis,       \* lis[l]: what listener l is at
    sends,     \* sends[l]: datagrams it has sent
    restarts,
    known      \* history: known[c]: ids registered at some time while c waited

vars == <<clients, queue, owner, rcv, cmd, lis, sends, restarts, known>>
peers == <<owner, cmd, lis, sends, restarts>>

Datagram(kind, id, port) == [kind |-> kind, id |-> id, port |-> port]
Registered(registry) == {id \in Ids : registry[id] # None}
LisPorts == Range(PortOf)

Init ==
    /\ clients = [id \in Ids |-> None]
    /\ queue = <<>>
    /\ owner = [p \in Ports |->
                 IF p \in LisPorts THEN CHOOSE l \in Listeners : PortOf[l] = p ELSE None]
    /\ rcv = [p \in Ports |-> <<>>]
    /\ cmd = [c \in Commands |-> [pc |-> "idle", kind |-> None, id |-> None, port |-> None]]
    /\ lis = [l \in Listeners |-> [pc |-> "off", epoch |-> 0]]
    /\ sends = [l \in Listeners |-> 0]
    /\ restarts = 0
    /\ known = [c \in Commands |-> {}]

-----------------------------------------------------------------------------
(* The server.                                                             *)

Waiting(c) == cmd[c].pc = "waiting"

\* The datagrams a socket is sent; a port without one drops them, and so may
\* the network.
Answer(out) ==
    \E lost \in SUBSET Ports :
        rcv' = [p \in Ports |->
                 IF owner[p] = None \/ p \in lost THEN rcv[p]
                   ELSE rcv[p] \o [i \in DOMAIN out[p] |->
                                    [kind |-> out[p][i], epoch |-> restarts]]]

To(port, kind) == [p \in Ports |-> IF p = port THEN <<kind>> ELSE <<>>]

\* One notification for each registered id.
Broadcast ==
    [p \in Ports |->
      [i \in 1 .. Cardinality({id \in Ids : clients[id] = p}) |-> "notification"]]

\* Mutants: an unsubscribe clears the map, or leaves it as it is.
Unregistered_All(id) == [i \in Ids |-> None]
Unregistered_Kept(id) == clients

Registry(id, port) == [clients EXCEPT ![id] = port]
Unregistered(id) == [clients EXCEPT ![id] = None]
IsRegistered(id) == id \in Registered(clients)

Read(kind) == queue # <<>> /\ Head(queue).kind = kind
Handled(registry) ==
    /\ queue' = Tail(queue)
    /\ clients' = registry
    /\ known' = [c \in Commands |->
                  IF Waiting(c) THEN known[c] \cup Registered(registry) ELSE known[c]]
    /\ UNCHANGED peers

Register ==
    /\ Read("register")
    /\ LET d == Head(queue) IN
        /\ Handled(Registry(d.id, d.port))
        /\ Answer(To(d.port, "register_ack"))

Unregister ==
    /\ Read("unregister")
    /\ LET d == Head(queue) IN
        \/ /\ IsRegistered(d.id)
           /\ Handled(Unregistered(d.id))
           /\ Answer(To(d.port, "unregister_ack"))
        \/ /\ ~IsRegistered(d.id)
           /\ Handled(clients)
           /\ Answer(To(d.port, "error"))

Notification ==
    /\ Read("notify")
    /\ Handled(clients)
    /\ LET d == Head(queue) IN
        Answer(IF IsRegistered(d.id) THEN Broadcast ELSE To(d.port, "error"))

Test ==
    /\ Read("test")
    /\ Handled(clients)
    /\ LET d == Head(queue) IN
        Answer(To(d.port, IF IsRegistered(d.id) THEN "ok" ELSE "error"))

TestBroadcast ==
    /\ Read("test_broadcast")
    /\ Handled(clients)
    /\ LET port == Head(queue).port IN
        Answer([p \in Ports |-> IF p = port THEN Broadcast[p] \o <<"ok">> ELSE Broadcast[p]])

Health ==
    /\ Read("health")
    /\ Handled(clients)
    /\ Answer(To(Head(queue).port, "health_ok"))

Lose ==
    /\ queue # <<>>
    /\ queue' = Tail(queue)
    /\ UNCHANGED <<clients, rcv, known, peers>>

\* The registrations are kept in memory only.
Restart ==
    /\ restarts < MaxRestarts
    /\ restarts' = restarts + 1
    /\ clients' = [id \in Ids |-> None]
    /\ queue' = <<>>
    /\ UNCHANGED <<owner, rcv, cmd, lis, sends, known>>

-----------------------------------------------------------------------------
(* Commands.                                                               *)

\* DialUDP gives the command any free port, also one that an earlier command
\* has registered; datagrams to and from the earlier one are gone by then.
Send(c, kind, id, port, pc) ==
    /\ cmd[c].pc = "idle" /\ owner[port] = None
    /\ \A i \in DOMAIN queue : queue[i].port # port
    /\ queue' = Append(queue, Datagram(kind, id, port))
    /\ cmd' = [cmd EXCEPT ![c] = [pc |-> pc, kind |-> kind, id |-> id, port |-> port]]
    /\ known' = [known EXCEPT ![c] = Registered(clients)]
    /\ UNCHANGED <<clients, rcv, lis, sends, restarts>>

SendAndWait(c, kind, id, port) ==
    /\ Send(c, kind, id, port, "waiting")
    /\ owner' = [owner EXCEPT ![port] = c]

Subscribe(c, id, port) == SendAndWait(c, "register", id, port)

\* With an id, known or given, the test is about it, without one a broadcast.
NotifyTest(c, id, port) == SendAndWait(c, "test", id, port)
NotifyBroadcastTest(c, id, port) == SendAndWait(c, "test_broadcast", id, port)

\* The command waits for no answer.
Unsubscribe(c, id, port) ==
    Send(c, "unregister", id, port, "sent") /\ UNCHANGED owner

CheckUDP(c, id, port) == SendAndWait(c, "health", id, port)

\* Mutant: whatever comes first counts as a success.
Verdict_Any(kind, answer) == "ok"

Verdict(kind, answer) ==
    IF kind = "register" THEN IF answer = "error" THEN "error" ELSE "sent"
      ELSE IF answer = (IF kind = "health" THEN "health_ok" ELSE "ok") THEN "ok" ELSE "error"

Finish(c, verdict) ==
    /\ cmd' = [cmd EXCEPT ![c].pc = verdict]
    /\ owner' = [owner EXCEPT ![cmd[c].port] = None]
    /\ rcv' = [rcv EXCEPT ![cmd[c].port] = <<>>]
    /\ UNCHANGED <<clients, queue, lis, sends, restarts, known>>

\* The first datagram is taken for the answer.
ReadAnswer(c) ==
    /\ Waiting(c) /\ rcv[cmd[c].port] # <<>>
    /\ Finish(c, Verdict(cmd[c].kind, Head(rcv[cmd[c].port]).kind))

NoAnswer(c) == Waiting(c) /\ rcv[cmd[c].port] = <<>>

\* Two seconds without an answer are an error of the broadcast test and of the
\* API's check of the server's health.
Timeout(c) ==
    /\ NoAnswer(c) /\ cmd[c].kind \in {"test_broadcast", "health"}
    /\ Finish(c, "error")

\* A subscription, and a test of an id, end as if nothing were wrong.
EndSilently(c) ==
    /\ NoAnswer(c) /\ cmd[c].kind \notin {"test_broadcast", "health"}
    /\ Finish(c, "sent")

-----------------------------------------------------------------------------
(* Listeners wait for the answer to what they send.                        *)

Ask(l, kind, from, to) ==
    /\ lis[l].pc = from /\ sends[l] < MaxSends
    /\ queue' = Append(queue, Datagram(kind, IdOf[l], PortOf[l]))
    /\ sends' = [sends EXCEPT ![l] = @ + 1]
    /\ lis' = [lis EXCEPT ![l].pc = to]
    /\ UNCHANGED <<clients, owner, rcv, cmd, restarts, known>>

Listen(l) ==
    /\ rcv[PortOf[l]] # <<>>
    /\ LET m == Head(rcv[PortOf[l]]) IN
        lis' = [lis EXCEPT ![l] =
                 IF m.kind = "register_ack" THEN [pc |-> "on", epoch |-> m.epoch]
                   ELSE IF m.kind = "unregister_ack" THEN [@ EXCEPT !.pc = "off"] ELSE @]
    /\ rcv' = [rcv EXCEPT ![PortOf[l]] = Tail(@)]
    /\ UNCHANGED <<clients, queue, owner, cmd, sends, restarts, known>>

-----------------------------------------------------------------------------
Next ==
    \/ Register \/ Unregister \/ Notification \/ Test \/ TestBroadcast \/ Health
    \/ Lose \/ Restart
    \/ \E c \in Commands :
        \/ ReadAnswer(c) \/ Timeout(c) \/ EndSilently(c)
        \/ \E id \in Ids, port \in Ports :
            \/ Subscribe(c, id, port) \/ Unsubscribe(c, id, port)
            \/ NotifyTest(c, id, port) \/ NotifyBroadcastTest(c, id, port)
            \/ CheckUDP(c, id, port)
    \/ \E l \in Listeners :
        \/ Listen(l)
        \/ Ask(l, "register", "off", "joining")
        \/ Ask(l, "notify", "on", "on")
        \/ Ask(l, "unregister", "on", "leaving")

Spec == Init /\ [][Next]_vars

-----------------------------------------------------------------------------
(* Properties.                                                             *)

Kinds == {"register", "unregister", "notify", "test", "test_broadcast", "health"}
Answers == {"register_ack", "unregister_ack", "ok", "health_ok", "error", "notification"}

\* Types; a port belongs to the command that waits on it, and to no other.
TypeOK ==
    /\ clients \in [Ids -> Ports \cup {None}]
    /\ \A i \in DOMAIN queue :
        queue[i] \in [kind: Kinds, id: Ids, port: Ports]
    /\ \A p \in Ports \ LisPorts, c \in Commands :
        owner[p] = c <=> Waiting(c) /\ cmd[c].port = p
    /\ \A p \in Ports : \A i \in DOMAIN rcv[p] : rcv[p][i] \in [kind: Answers, epoch: Nat]
    /\ \A c \in Commands : cmd[c].pc \in {"idle", "waiting", "ok", "error", "sent"}
    /\ \A l \in Listeners : lis[l].pc \in {"off", "joining", "on", "leaving"}
    /\ \A c \in Commands : known[c] \subseteq Ids

Disturbed(l) ==
    \/ \E c \in Commands : cmd[c].id = IdOf[l]
    \/ \E k \in Listeners \ {l} : IdOf[k] = IdOf[l]

\* A listener that has its register_ack is sent every notification, at its own
\* address, as long as the server runs and nobody else uses its id.
AckedAreServed ==
    \A l \in Listeners :
        lis[l].pc = "on" /\ lis[l].epoch = restarts /\ ~Disturbed(l)
            => clients[IdOf[l]] = PortOf[l]

Received(l, kind) == {i \in DOMAIN rcv[PortOf[l]] : rcv[PortOf[l]][i].kind = kind}

\* A listener hears no notification after its unregister_ack.
LeftAreNotTold ==
    \A l \in Listeners :
        \A i \in Received(l, "notification") :
            /\ lis[l].pc # "off"
            /\ \A k \in Received(l, "unregister_ack") : i < k

\* When `notify test` says OK, its id was registered while it ran.
OkMeansRegistered ==
    \A c \in Commands : cmd[c].kind = "test" /\ cmd[c].pc = "ok" => cmd[c].id \in known[c]
=============================================================================
