------------------------------ MODULE TCPSync ------------------------------
(***************************************************************************)
(* The progress synchronization server: the map of connected clients, one  *)
(* handler goroutine per connection, and the broadcasts they make.  The    *)
(* HTTP API writes progress in a process of its own and relays it over a   *)
(* connection that it dials when it has none.  The server does not ask who *)
(* sends a progress_broadcast: a device may relay any chapter.             *)
(*                                                                         *)
(* All traffic is about one library entry, so that users, manga and the    *)
(* contents of a message other than its chapter are left out.  Whether the *)
(* timestamp of a message is older than the entry is an input: clients     *)
(* choose it freely.                                                       *)
(***************************************************************************)
EXTENDS Naturals, Sequences, Functions

CONSTANTS
    Devices,      \* connections of devices
    Relays,       \* connections the API dials, one after another
    Requests,     \* requests served by the HTTP and gRPC servers
    Addrs,        \* remote addresses
    AddrOf,       \* AddrOf[c]: the address connection c comes from
    Chapters,     \* chapters that exist
    Strategies,   \* conflict strategies a message may name
    MaxMessages,  \* bound: MaxMessages[c] messages are read from device c
    None

Conns == Devices \cup Relays
Workers == Conns \cup Requests

ASSUME ConnsAssumption == Devices \cap Relays = {} /\ Conns \cap Requests = {}
ASSUME AddrAssumption == AddrOf \in [Conns -> Addrs]
ASSUME ChapterAssumption == Chapters \subseteq Nat
ASSUME MessageAssumption == MaxMessages \in [Devices -> Nat]
ASSUME NoneAssumption == None \notin Conns /\ None \notin Chapters \cup {0}

VARIABLES
    entry,    \* the chapter stored in the library entry, or None
    stored,   \* every chapter the entry has held
    claimed,  \* every chapter a device has asked to relay
    clients,  \* clients[a]: the connection registered under address a, or None
    wire,     \* wire[c]: "none", "open", or "gone" when the peer has left
    job,      \* job[w]: where the handler or the request is, and its chapters
    todo,     \* todo[c]: the snapshot of clients a broadcast still has to reach
    heard,    \* heard[c]: messages read from c
    inbox,    \* inbox[d]: what device d has been sent; the API never reads
    rb,       \* the connection the API holds, whether it still stands, or None
    relayed,  \* relayed[r]: updates written to connection r and not yet read
    astray    \* history: since the last update that was on its way alone, the
              \* entry or the devices were told something else, or nothing

vars == <<entry, stored, claimed, clients, wire, job, todo, heard, inbox, rb, relayed, astray>>
store == <<entry, stored, claimed, astray>>
net == <<clients, wire, heard, rb, relayed>>

Job(pc, n) == [pc |-> pc, chapter |-> n, answer |-> "ack", force |-> FALSE]
Answering(kind) == [Job("reply", 0) EXCEPT !.answer = kind]
Message(kind, n) == [kind |-> kind, chapter |-> n]

Init ==
    /\ entry = 0 /\ stored = {0} /\ claimed = {}
    /\ clients = [a \in Addrs |-> None]
    /\ wire = [c \in Conns |-> "none"]
    /\ job = [w \in Workers |-> Job("none", 0)]
    /\ todo = [c \in Conns |-> {}]
    /\ heard = [c \in Conns |-> 0]
    /\ inbox = [d \in Devices |-> <<>>]
    /\ rb = None
    /\ relayed = [r \in Relays |-> <<>>]
    /\ astray = FALSE

\* m is written to d; the write fails when the peer has left.
Deliver(d, m) ==
    inbox' = [e \in Devices |->
               IF e = d /\ wire[e] = "open" THEN Append(inbox[e], m) ELSE inbox[e]]

-----------------------------------------------------------------------------
(* Connections.                                                            *)

\* The API dials when it has an update to relay and no connection.
MayDial == rb = None /\ \E p \in Requests : job[p].pc = "publish"

\* An address is free for a new connection once the peer has let go of it,
\* whether or not the handler of the old connection has noticed.  The dial and
\* the accept are one step: what is written in between waits to be read.
Accept(c) ==
    /\ wire[c] = "none"
    /\ c \in Relays => MayDial
    /\ \A d \in Conns \ {c} : AddrOf[d] = AddrOf[c] => wire[d] # "open"
    /\ wire' = [wire EXCEPT ![c] = "open"]
    /\ clients' = [clients EXCEPT ![AddrOf[c]] = c]
    /\ job' = [job EXCEPT ![c].pc = "reading"]
    /\ rb' = IF c \in Relays THEN c ELSE rb
    /\ UNCHANGED <<store, todo, heard, inbox, relayed>>

\* A device disconnects, or a connection breaks; the API does not notice.
PeerLeaves(c) ==
    /\ wire[c] = "open"
    /\ wire' = [wire EXCEPT ![c] = "gone"]
    /\ UNCHANGED <<store, clients, job, todo, heard, inbox, rb, relayed>>

\* The scanner ends and the deferred function deletes the address.  What was
\* written to a broken connection and not read is lost.
End(c) ==
    /\ job[c].pc = "reading" /\ wire[c] = "gone"
    /\ clients' = [clients EXCEPT ![AddrOf[c]] = None]
    /\ job' = [job EXCEPT ![c].pc = "ended"]
    /\ relayed' = [r \in Relays |-> IF r = c THEN <<>> ELSE relayed[r]]
    /\ astray' = (astray \/ relayed' # relayed)
    /\ UNCHANGED <<entry, stored, claimed, wire, todo, heard, inbox, rb>>

-----------------------------------------------------------------------------
(* Messages of a device.                                                   *)

Hear(c) ==
    /\ c \in Devices /\ job[c].pc = "reading" /\ heard[c] < MaxMessages[c]
    /\ heard' = [heard EXCEPT ![c] = @ + 1]
    /\ UNCHANGED <<entry, stored, clients, wire, todo, inbox, rb, relayed>>

\* hello, ping, health, disconnect, and every message refused as invalid.
HearOther(c) ==
    /\ Hear(c)
    /\ job' = [job EXCEPT ![c] = Answering("other")]
    /\ UNCHANGED <<claimed, astray>>

Conflict(n, strategy, older) ==
    /\ entry # None
    /\ n < entry \/ (older /\ ~(strategy = "merge" /\ n > entry))

\* Where the entry cannot be read, the conflict check is left out.
HearProgress(c) ==
    /\ Hear(c)
    /\ \E n \in Chapters, strategy \in Strategies, older, read \in BOOLEAN :
        job' = [job EXCEPT ![c] = IF read /\ Conflict(n, strategy, older)
                                    THEN Answering("conflict") ELSE Job("checked", n)]
    /\ UNCHANGED <<claimed, astray>>

\* Whoever sends a progress_broadcast has it broadcast, and "broadcast relayed".
Relaying(n) == [Job("publish", n) EXCEPT !.answer = "relayed"]

HearBroadcast(c) ==
    /\ Hear(c)
    /\ \E n \in Chapters :
        /\ job' = [job EXCEPT ![c] = Relaying(n)]
        /\ claimed' = claimed \cup {n}
    /\ astray' = TRUE

-----------------------------------------------------------------------------
(* UpdateProgress, for the handler of a device and for a request.          *)

Request(p) ==
    /\ p \in Requests /\ job[p].pc = "none"
    /\ \E n \in Chapters, force \in BOOLEAN :
        job' = [job EXCEPT ![p] = [Job("checked", n) EXCEPT !.force = force]]
    /\ UNCHANGED <<store, net, todo, inbox>>

\* The other writers of the entry: adding, updating and removing it, deleting its
\* manga, and the gRPC server's UpdateProgress.  None of them broadcasts.
EditLibrary(p) ==
    /\ p \in Requests /\ job[p].pc = "none"
    /\ entry' \in Chapters \cup {0, None}
    /\ stored' = stored \cup ({entry'} \ {None})
    /\ astray' = TRUE
    /\ job' = [job EXCEPT ![p] = Job("ended", 0)]
    /\ UNCHANGED <<claimed, net, todo, inbox>>

Behind(w) == job[w].chapter < entry /\ ~job[w].force

\* Mutant: an update that is behind is not stored but published.
CheckProgress_Forgotten(w) ==
    /\ job[w].pc = "checked" /\ entry # None
    /\ job' = [job EXCEPT ![w].pc = IF Behind(w) THEN "publish" ELSE "allowed"]
    /\ UNCHANGED <<store, net, todo, inbox>>

CheckProgress(w) ==
    /\ job[w].pc = "checked" /\ entry # None /\ ~Behind(w)
    /\ job' = [job EXCEPT ![w].pc = "allowed"]
    /\ UNCHANGED <<store, net, todo, inbox>>

Failed(w) == IF w \in Requests THEN Job("ended", 0) ELSE Answering("other")

\* The update is behind, the entry or the manga is not there, the chapter is past
\* the last one, or a statement fails.
RefuseProgress(w) ==
    /\ job[w].pc \in {"checked", "allowed"}
    /\ job' = [job EXCEPT ![w] = Failed(w)]
    /\ UNCHANGED <<store, net, todo, inbox>>

\* Stored, and not yet sent to every connection of the snapshot.
OnItsWay(w) == job[w].pc \in {"written", "publish", "broadcast"}
Waits(r) == relayed[r] # <<>>
Overlaps(w) == (\E r \in Relays : Waits(r)) \/ \E v \in Workers \ {w} : OnItsWay(v)

WriteProgress(w) ==
    /\ job[w].pc = "allowed"
    /\ entry' = job[w].chapter
    /\ stored' = stored \cup {job[w].chapter}
    /\ astray' = Overlaps(w)
    /\ job' = [job EXCEPT ![w].pc = "written"]
    /\ UNCHANGED <<claimed, net, todo, inbox>>

\* The upsert reads its row back in a second statement.
ReadBack(w) ==
    /\ job[w].pc = "written" /\ entry # None
    /\ job' = [job EXCEPT ![w].pc = "publish", ![w].chapter = entry]
    /\ UNCHANGED <<store, net, todo, inbox>>

\* The statement fails or the row is gone: the update is stored and not broadcast.
ReadBackFails(w) ==
    /\ job[w].pc = "written"
    /\ job' = [job EXCEPT ![w] = Failed(w)]
    /\ astray' = TRUE
    /\ UNCHANGED <<entry, stored, claimed, net, todo, inbox>>

-----------------------------------------------------------------------------
(* Broadcasts.                                                             *)

Registered == Range(clients) \ {None}

Snapshot(c) ==
    /\ c \in Conns /\ job[c].pc = "publish"
    /\ todo' = [todo EXCEPT ![c] = Registered]
    /\ job' = [job EXCEPT ![c].pc = "broadcast"]
    /\ UNCHANGED <<store, net, inbox>>

\* A dead connection that comes first in the walk would be waited for.
SendTo_NoDeadline(c, d) ==
    /\ job[c].pc = "broadcast" /\ d \in todo[c]
    /\ \A e \in todo[c] : wire[e] = "open"
    /\ todo' = [todo EXCEPT ![c] = @ \ {d}]
    /\ Deliver(d, Message("progress_broadcast", job[c].chapter))
    /\ UNCHANGED <<store, net, job>>

\* The map is walked in any order; a failed write is logged.
SendTo(c, d) ==
    /\ job[c].pc = "broadcast" /\ d \in todo[c]
    /\ todo' = [todo EXCEPT ![c] = @ \ {d}]
    /\ Deliver(d, Message("progress_broadcast", job[c].chapter))
    /\ UNCHANGED <<store, net, job>>

Broadcasted(c) ==
    /\ job[c].pc = "broadcast" /\ todo[c] = {}
    /\ job' = [job EXCEPT ![c].pc = "reply"]
    /\ UNCHANGED <<store, net, todo, inbox>>

Reply(c) ==
    /\ c \in Conns /\ job[c].pc = "reply"
    /\ Deliver(c, Message(job[c].answer, job[c].chapter))
    /\ job' = [job EXCEPT ![c] = Job("reading", 0)]
    /\ UNCHANGED <<store, net, todo>>

-----------------------------------------------------------------------------
(* The API's side.                                                         *)

\* The broadcaster's lock makes the write one step.  A write to a connection that
\* has just broken succeeds, too, and the update is lost.
PublishProgress(p) ==
    /\ p \in Requests /\ job[p].pc = "publish" /\ rb # None
    /\ relayed' = [r \in Relays |-> IF r = rb /\ wire[r] = "open"
                                     THEN Append(relayed[r], job[p].chapter) ELSE relayed[r]]
    /\ astray' = (astray \/ wire[rb] # "open")
    /\ job' = [job EXCEPT ![p] = Job("ended", 0)]
    /\ UNCHANGED <<entry, stored, claimed, clients, wire, heard, rb, todo, inbox>>

\* The dial or the write fails; the update is dropped, the connection closed.
PublishFails(p) ==
    /\ p \in Requests /\ job[p].pc = "publish"
    /\ wire' = [c \in Conns |-> IF c = rb THEN "gone" ELSE wire[c]]
    /\ rb' = None
    /\ astray' = TRUE
    /\ job' = [job EXCEPT ![p] = Job("ended", 0)]
    /\ UNCHANGED <<entry, stored, claimed, clients, heard, relayed, todo, inbox>>

\* Mutant: an update of the API server is acknowledged and not passed on.
HearRelay_Unbroadcast(r) ==
    /\ job[r].pc = "reading" /\ Waits(r)
    /\ relayed' = [relayed EXCEPT ![r] = Tail(@)]
    /\ job' = [job EXCEPT ![r] = Answering("relayed")]
    /\ UNCHANGED <<store, clients, wire, heard, rb, todo, inbox>>

HearRelay(r) ==
    /\ job[r].pc = "reading" /\ Waits(r)
    /\ relayed' = [relayed EXCEPT ![r] = Tail(@)]
    /\ job' = [job EXCEPT ![r] = Relaying(Head(relayed[r]))]
    /\ UNCHANGED <<store, clients, wire, heard, rb, todo, inbox>>

-----------------------------------------------------------------------------
Update(w) ==
    \/ CheckProgress(w) \/ RefuseProgress(w) \/ WriteProgress(w)
    \/ ReadBack(w) \/ ReadBackFails(w)
Handle(c) ==
    \/ Update(c) \/ Snapshot(c) \/ Broadcasted(c) \/ Reply(c) \/ End(c)
    \/ \E d \in Conns : SendTo(c, d)

Next ==
    \/ \E c \in Conns : Accept(c) \/ PeerLeaves(c) \/ Handle(c)
    \/ \E c \in Devices : HearOther(c) \/ HearProgress(c) \/ HearBroadcast(c)
    \/ \E p \in Requests : \/ Request(p) \/ EditLibrary(p) \/ Update(p)
                           \/ PublishProgress(p) \/ PublishFails(p)
    \/ \E r \in Relays : HearRelay(r)

\* A handler that has read a message goes on with it, and one whose peer has
\* left notices: every write has a deadline of two seconds.
Fairness ==
    /\ \A c \in Conns : WF_vars(Handle(c))
    /\ \A r \in Relays : WF_vars(HearRelay(r))

Spec == Init /\ [][Next]_vars /\ Fairness

-----------------------------------------------------------------------------
Kinds == {"progress_broadcast", "ack", "relayed", "conflict", "other"}
Messages == [kind: Kinds, chapter: Chapters \cup {0}]

TypeOK ==
    /\ entry \in stored \cup {None}
    /\ stored \subseteq Chapters \cup {0} /\ claimed \subseteq Chapters
    /\ clients \in [Addrs -> Conns \cup {None}]
    /\ wire \in [Conns -> {"none", "open", "gone"}]
    /\ job \in [Workers ->
                 [pc: {"none", "reading", "checked", "allowed", "written", "publish",
                       "broadcast", "reply", "ended"},
                  chapter: Chapters \cup {0}, answer: Kinds, force: BOOLEAN]]
    /\ todo \in [Conns -> SUBSET Conns]
    /\ heard \in [Conns -> Nat] /\ \A c \in Devices : heard[c] <= MaxMessages[c]
    /\ \A c \in Devices : \A i \in DOMAIN inbox[c] : inbox[c][i] \in Messages
    /\ rb \in Relays \cup {None}
    /\ \A r \in Relays : \A i \in DOMAIN relayed[r] : relayed[r][i] \in Chapters \cup {0}
    /\ astray \in BOOLEAN

\* What is broadcast was once stored in the entry, or some device said so itself in
\* a progress_broadcast: a refused, conflicting or unstored update of the progress
\* route is never shown to anyone.  And what is acknowledged to a device as updated
\* was stored, and shown to it before the ack.
OnlyStoredIsShown ==
    \A c \in Devices : \A i \in DOMAIN inbox[c] :
        /\ inbox[c][i].kind = "progress_broadcast" => inbox[c][i].chapter \in stored \cup claimed
        /\ inbox[c][i].kind = "ack" =>
            /\ inbox[c][i].chapter \in stored
            /\ \E k \in 1 .. i - 1 :
                inbox[c][k] = Message("progress_broadcast", inbox[c][i].chapter)

Shown(d, n) ==
    \E i \in DOMAIN inbox[d] :
        inbox[d][i].kind = "progress_broadcast" /\ inbox[d][i].chapter = n

\* Once the server has an update to broadcast, every connection that is registered then
\* and stays sees it, whoever else leaves while it is sent out.
StoredIsShown ==
    \A c \in Conns, d \in Devices, n \in Chapters :
        job[c].pc = "publish" /\ job[c].chapter = n /\ d \in Registered
            ~> Shown(d, n) \/ wire[d] = "gone"

\* When nothing is on its way, the last broadcast a connected device saw is what
\* the library holds, unless since the last update that was stored while no other
\* was on its way the entry or the devices were told otherwise: an update overlapped
\* it (the handlers then store in one order and may broadcast in the other), was
\* lost between the servers or after its upsert, was made without a broadcast, or a
\* device relayed a chapter.  One more lone update puts every device right again.
Quiet ==
    /\ \A r \in Relays : ~Waits(r)
    /\ \A w \in Workers : job[w].pc \in {"none", "reading", "ended"}
Broadcasts(d) == {i \in DOMAIN inbox[d] : inbox[d][i].kind = "progress_broadcast"}

DevicesAgreeUnlessAstray ==
    Quiet /\ ~astray => \A d \in Devices :
        wire[d] = "open" /\ Broadcasts(d) # {} =>
            \E i \in Broadcasts(d) :
                inbox[d][i].chapter = entry /\ \A k \in Broadcasts(d) : k <= i
=============================================================================
