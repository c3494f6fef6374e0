--------------------------- MODULE TCPSyncProofs ---------------------------
(***************************************************************************)
(* Proofs about both ends of the synchronization.                          *)
(*                                                                         *)
(* TCPSync, for any number of devices, requests, chapters and messages:    *)
(* types, what is shown of an update, and that devices agree with the      *)
(* library after an update that none overlaps.  That a device is acknowledged     *)
(* only what it was shown before, and that it agrees, hold when            *)
(* connections come from addresses of their own: where two follow one      *)
(* another at one address, the end of the first unregisters the second.    *)
(*                                                                         *)
(* SyncDevice, in the second half, for any number of terminals and         *)
(* broadcasts, however the reads cut the lines.                            *)
(***************************************************************************)
EXTENDS TCPSync, SyncDevice, SequenceTheorems, TLAPS

OwnAddresses == \A c, d \in Conns : AddrOf[c] = AddrOf[d] => c = d

\* No other connection ever comes from c's address.
Sole(c) == \A d \in Conns : AddrOf[d] = AddrOf[c] => d = c

Jobs ==
    [pc: {"none", "reading", "checked", "allowed", "written", "publish",
          "broadcast", "reply", "ended"},
     chapter: Chapters \cup {0}, answer: {"ack", "relayed", "conflict", "other"}, force: BOOLEAN]

\* TypeOK in the form that the steps preserve.
TypeInv ==
    /\ entry \in stored \cup {None}
    /\ stored \subseteq Chapters \cup {0} /\ claimed \subseteq Chapters
    /\ clients \in [Addrs -> Conns \cup {None}]
    /\ wire \in [Conns -> {"none", "open", "gone"}]
    /\ job \in [Workers -> Jobs]
    /\ todo \in [Conns -> SUBSET Conns]
    /\ heard \in [Conns -> Nat] /\ \A c \in Devices : heard[c] <= MaxMessages[c]
    /\ inbox \in [Devices -> Seq(Messages)]
    /\ rb \in Relays \cup {None}
    /\ relayed \in [Relays -> Seq(Chapters \cup {0})]
    /\ astray \in BOOLEAN

\* The update of a progress message or a request, from its upsert to the ack.
HasUpdate(w) ==
    \/ job[w].pc = "written"
    \/ job[w].pc \in {"publish", "broadcast", "reply"} /\ job[w].answer = "ack"

\* What is on its way was stored, or a device asked to relay it.
Known == stored \cup claimed
StoredInv ==
    /\ \A w \in Workers :
        /\ HasUpdate(w) => job[w].chapter \in stored
        /\ job[w].pc \in {"publish", "broadcast"} => job[w].chapter \in Known
    /\ \A r \in Relays : \A i \in 1 .. Len(relayed[r]) : relayed[r][i] \in Known
    /\ \A c \in Devices : \A i \in 1 .. Len(inbox[c]) :
        /\ inbox[c][i].kind = "progress_broadcast" => inbox[c][i].chapter \in Known
        /\ inbox[c][i].kind = "ack" => inbox[c][i].chapter \in stored

\* An open connection is registered under its address.
ClientsInv == \A c \in Conns : Sole(c) /\ wire[c] = "open" => clients[AddrOf[c]] = c

Told(c, n) ==
    \E i \in 1 .. Len(inbox[c]) : inbox[c][i] = Message("progress_broadcast", n)

\* A device whose update has been sent round has been sent it, too.
ToldInv ==
    \A c \in Devices : Sole(c) /\ wire[c] = "open" =>
        /\ job[c].pc = "broadcast" => c \in todo[c] \/ Told(c, job[c].chapter)
        /\ job[c].pc = "reply" /\ job[c].answer = "ack" => Told(c, job[c].chapter)

AckInv ==
    \A c \in Devices : Sole(c) => \A i \in 1 .. Len(inbox[c]) : inbox[c][i].kind = "ack" =>
        \E k \in 1 .. i - 1 :
            inbox[c][k] = Message("progress_broadcast", inbox[c][i].chapter)

IInv == TypeInv /\ StoredInv /\ ClientsInv /\ ToldInv /\ AckInv

LEMMA InvTypes == IInv => TypeOK
BY DEF IInv, TypeInv, TypeOK, Jobs, Kinds

LEMMA InvShown == OwnAddresses /\ IInv => OnlyStoredIsShown
<1> SUFFICES ASSUME OwnAddresses, IInv PROVE OnlyStoredIsShown
  OBVIOUS
<1> \A c \in Devices : Sole(c)
  BY DEF OwnAddresses, Sole, Conns
<1>1. \A c \in Devices : DOMAIN inbox[c] = 1 .. Len(inbox[c])
  BY DEF IInv, TypeInv
<1> QED BY <1>1 DEF IInv, StoredInv, Known, AckInv, OnlyStoredIsShown

LEMMA JobTypes ==
    ASSUME NEW n \in Chapters \cup {0}
    PROVE  /\ \A pc \in {"none", "reading", "checked", "allowed", "written", "publish",
                         "broadcast", "reply", "ended"} : Job(pc, n) \in Jobs
           /\ \A kind \in {"ack", "relayed", "conflict", "other"} : Answering(kind) \in Jobs
           /\ \A kind \in Kinds : Message(kind, n) \in Messages
BY DEF Job, Answering, Jobs, Message, Messages, Kinds

LEMMA InitInv == Init => IInv
<1> SUFFICES ASSUME Init PROVE IInv
  OBVIOUS
<1>1. Job("none", 0) \in Jobs /\ Job("none", 0).pc = "none"
  BY JobTypes DEF Job
<1>2. \A w \in Workers : job[w] = Job("none", 0)
  BY DEF Init
<1>3. TypeInv
  <2>1. \A c \in Devices : heard[c] = 0 /\ MaxMessages[c] \in Nat
    BY MessageAssumption DEF Init, Conns
  <2>2. job \in [Workers -> Jobs]
    BY <1>1 DEF Init
  <2>3. /\ inbox \in [Devices -> Seq(Messages)]
        /\ relayed \in [Relays -> Seq(Chapters \cup {0})]
        /\ todo \in [Conns -> SUBSET Conns] /\ heard \in [Conns -> Nat]
    BY DEF Init
  <2>4. /\ entry \in stored \cup {None}
        /\ stored \subseteq Chapters \cup {0} /\ claimed \subseteq Chapters
        /\ clients \in [Addrs -> Conns \cup {None}]
        /\ wire \in [Conns -> {"none", "open", "gone"}]
        /\ rb \in Relays \cup {None} /\ astray \in BOOLEAN
    BY DEF Init
  <2>5. \A c \in Devices : heard[c] <= MaxMessages[c]
    BY <2>1
  <2> QED BY <2>2, <2>3, <2>4, <2>5 DEF TypeInv
<1>4. \A c \in Devices : inbox[c] = <<>> /\ Len(inbox[c]) = 0
  BY DEF Init
<1>5. \A r \in Relays : Len(relayed[r]) = 0
  BY DEF Init
<1>6. StoredInv /\ ToldInv /\ AckInv /\ ClientsInv
  BY <1>1, <1>2, <1>4, <1>5
    DEF Init, StoredInv, HasUpdate, ToldInv, AckInv, ClientsInv, Workers, Conns
<1> QED BY <1>3, <1>6 DEF IInv

-----------------------------------------------------------------------------
(* What steps leave alone.                                                 *)

\* A step of one worker that sends nothing.
LEMMA LocalInv ==
    ASSUME IInv, UNCHANGED inbox, stored \subseteq stored', claimed \subseteq claimed',
           \A r \in Relays : relayed'[r] \in {relayed[r], <<>>},
           NEW w \in Workers, \A v \in Workers \ {w} : job'[v] = job[v],
           \A c \in Conns \ {w} : /\ todo'[c] = todo[c]
                                  /\ wire'[c] = "open" => wire[c] = "open",
           HasUpdate(w)' => job'[w].chapter \in stored',
           job'[w].pc \in {"publish", "broadcast"} => job'[w].chapter \in Known',
           w \in Devices /\ Sole(w) /\ wire'[w] = "open" =>
              /\ job'[w].pc = "broadcast" => w \in todo'[w] \/ Told(w, job'[w].chapter)
              /\ job'[w].pc = "reply" /\ job'[w].answer = "ack" => Told(w, job'[w].chapter)
    PROVE  StoredInv' /\ ToldInv' /\ AckInv'
<1>1. StoredInv /\ ToldInv /\ AckInv /\ Devices \subseteq Conns /\ Conns \subseteq Workers
  BY DEF IInv, Conns, Workers
<1>2. StoredInv'
  <2>1. \A v \in Workers : v # w => (HasUpdate(v)' <=> HasUpdate(v))
    BY DEF HasUpdate
  <2>2. Known \subseteq Known'
    BY DEF Known
  <2>3. \A r \in Relays : \A i \in 1 .. Len(relayed'[r]) : relayed'[r][i] \in Known'
    <3> SUFFICES ASSUME NEW r \in Relays, NEW i \in 1 .. Len(relayed'[r])
                 PROVE  relayed'[r][i] \in Known'
      OBVIOUS
    <3>1. relayed'[r] = relayed[r]
      OBVIOUS
    <3> QED BY <1>1, <2>2, <3>1 DEF StoredInv
  <2>4. \A v \in Workers : /\ HasUpdate(v)' => job'[v].chapter \in stored'
                           /\ job'[v].pc \in {"publish", "broadcast"}
                                => job'[v].chapter \in Known'
    BY <1>1, <2>1, <2>2 DEF StoredInv
  <2>5. \A c \in Devices : \A i \in 1 .. Len(inbox'[c]) :
          /\ inbox'[c][i].kind = "progress_broadcast" => inbox'[c][i].chapter \in Known'
          /\ inbox'[c][i].kind = "ack" => inbox'[c][i].chapter \in stored'
    BY <1>1, <2>2 DEF StoredInv
  <2> QED BY <2>3, <2>4, <2>5 DEF StoredInv
<1>3. \A n : \A c \in Devices : Told(c, n)' <=> Told(c, n)
  BY DEF Told
<1>4. ToldInv'
  <2> SUFFICES ASSUME NEW c \in Devices, Sole(c), wire'[c] = "open"
               PROVE  /\ job'[c].pc = "broadcast" => c \in todo'[c] \/ Told(c, job'[c].chapter)
                      /\ job'[c].pc = "reply" /\ job'[c].answer = "ack"
                            => Told(c, job'[c].chapter)
    BY <1>3 DEF ToldInv
  <2>1. CASE c = w
    BY <2>1
  <2>2. CASE c # w
    BY <1>1, <2>2 DEF ToldInv
  <2> QED BY <2>1, <2>2
<1>5. AckInv'
  BY <1>1 DEF AckInv
<1> QED BY <1>2, <1>4, <1>5

\* A message is delivered.
LEMMA DeliverStep ==
    ASSUME TypeInv, NEW d, NEW m \in Messages, Deliver(d, m)
    PROVE  /\ inbox' \in [Devices -> Seq(Messages)]
           /\ \A c \in Devices :
                /\ Len(inbox[c]) \in Nat
                /\ ~(c = d /\ wire[c] = "open") => inbox'[c] = inbox[c]
                /\ c = d /\ wire[c] = "open" =>
                    /\ Len(inbox'[c]) = Len(inbox[c]) + 1
                    /\ inbox'[c][Len(inbox[c]) + 1] = m
                    /\ \A i \in 1 .. Len(inbox[c]) : inbox'[c][i] = inbox[c][i]
<1>1. \A c \in Devices : inbox[c] \in Seq(Messages) /\ Len(inbox[c]) \in Nat
  BY DEF TypeInv
<1>2. inbox' = [c \in Devices |->
        IF c = d /\ wire[c] = "open" THEN Append(inbox[c], m) ELSE inbox[c]]
  BY DEF Deliver
<1>3. \A c \in Devices : Append(inbox[c], m) \in Seq(Messages)
  BY <1>1, AppendProperties
<1>4. inbox' \in [Devices -> Seq(Messages)]
  BY <1>1, <1>2, <1>3
<1> QED BY <1>1, <1>2, <1>4, AppendProperties

\* What a device was told it stays told.
LEMMA StaysTold ==
    ASSUME TypeInv, NEW d, NEW m \in Messages, Deliver(d, m),
           NEW c \in Devices, NEW n, Told(c, n)
    PROVE  Told(c, n)'
<1>1. PICK i \in 1 .. Len(inbox[c]) : inbox[c][i] = Message("progress_broadcast", n)
  BY DEF Told
<1>2. i \in 1 .. Len(inbox'[c]) /\ inbox'[c][i] = inbox[c][i]
  BY DeliverStep
<1> QED BY <1>1, <1>2 DEF Told

-----------------------------------------------------------------------------
(* Connections and messages.                                               *)

LEMMA AcceptInv ==
    ASSUME IInv, NEW c \in Conns, Accept(c)
    PROVE  IInv'
<1>1. TypeInv /\ ClientsInv /\ c \in Workers /\ AddrOf[c] \in Addrs
  BY AddrAssumption DEF IInv, Workers
<1>2. /\ wire' = [wire EXCEPT ![c] = "open"]
      /\ clients' = [clients EXCEPT ![AddrOf[c]] = c]
      /\ job' = [job EXCEPT ![c].pc = "reading"]
      /\ rb' = (IF c \in Relays THEN c ELSE rb)
      /\ UNCHANGED <<entry, stored, claimed, astray, todo, heard, inbox, relayed>>
  BY DEF Accept, store
<1>3. job[c] \in Jobs
  BY <1>1 DEF TypeInv
<1>4. /\ job'[c].pc = "reading" /\ job' \in [Workers -> Jobs]
      /\ \A v \in Workers \ {c} : job'[v] = job[v]
  BY <1>1, <1>2, <1>3 DEF TypeInv, Jobs
<1>5. TypeInv'
  BY <1>1, <1>2, <1>4 DEF TypeInv
<1>6. ClientsInv'
  BY <1>1, <1>2, AddrAssumption DEF Sole, ClientsInv, TypeInv
<1>7. StoredInv' /\ ToldInv' /\ AckInv'
  BY <1>1, <1>2, <1>4, LocalInv DEF HasUpdate, TypeInv
<1> QED BY <1>5, <1>6, <1>7 DEF IInv

LEMMA PeerLeavesInv ==
    ASSUME IInv, NEW c \in Conns, PeerLeaves(c)
    PROVE  IInv'
<1>1. TypeInv /\ ClientsInv /\ StoredInv /\ c \in Workers
  BY DEF IInv, Workers
<1>2. /\ wire' = [wire EXCEPT ![c] = "gone"]
      /\ UNCHANGED <<entry, stored, claimed, astray, clients, job, todo, heard, inbox, rb, relayed>>
  BY DEF PeerLeaves, store
<1>3. TypeInv' /\ ClientsInv'
  BY <1>1, <1>2 DEF TypeInv, ClientsInv
<1>4. StoredInv' /\ ToldInv' /\ AckInv'
  BY <1>1, <1>2, LocalInv DEF HasUpdate, StoredInv, Known, TypeInv
<1> QED BY <1>3, <1>4 DEF IInv

LEMMA EndInv ==
    ASSUME IInv, NEW c \in Conns, End(c)
    PROVE  IInv'
<1>1. TypeInv /\ ClientsInv /\ c \in Workers /\ AddrOf[c] \in Addrs
  BY AddrAssumption DEF IInv, Workers
<1>2. /\ clients' = [clients EXCEPT ![AddrOf[c]] = None]
      /\ job' = [job EXCEPT ![c].pc = "ended"] /\ wire[c] = "gone"
      /\ relayed' = [r \in Relays |-> IF r = c THEN <<>> ELSE relayed[r]]
      /\ astray' \in BOOLEAN
      /\ UNCHANGED <<entry, stored, claimed, wire, todo, heard, inbox, rb>>
  BY DEF End
<1>3. job[c] \in Jobs
  BY <1>1 DEF TypeInv
<1>4. /\ job'[c].pc = "ended" /\ job' \in [Workers -> Jobs]
      /\ \A v \in Workers \ {c} : job'[v] = job[v]
  BY <1>1, <1>2, <1>3 DEF TypeInv, Jobs
<1>5. /\ relayed' \in [Relays -> Seq(Chapters \cup {0})]
      /\ \A r \in Relays : relayed'[r] \in {relayed[r], <<>>}
  BY <1>1, <1>2 DEF TypeInv
<1>6. TypeInv'
  BY <1>1, <1>2, <1>4, <1>5 DEF TypeInv
<1>7. ClientsInv'
  BY <1>1, <1>2, AddrAssumption DEF Sole, ClientsInv, TypeInv
<1>8. StoredInv' /\ ToldInv' /\ AckInv'
  BY <1>1, <1>2, <1>4, <1>5, LocalInv DEF HasUpdate
<1> QED BY <1>6, <1>7, <1>8 DEF IInv

\* A step of worker w that neither connects, sends nor relays; at most a connection
\* is closed.
LEMMA WorkerInv ==
    ASSUME IInv, NEW w \in Workers, NEW j \in Jobs, job' = [job EXCEPT ![w] = j],
           UNCHANGED <<clients, inbox, relayed>>,
           wire' \in [Conns -> {"none", "open", "gone"}],
           \A c \in Conns : wire'[c] = "open" => wire[c] = "open",
           rb' \in Relays \cup {None},
           entry' \in stored' \cup {None}, stored' \subseteq Chapters \cup {0},
           stored \subseteq stored', claimed \subseteq claimed', claimed' \subseteq Chapters,
           astray' \in BOOLEAN,
           heard' \in [Conns -> Nat], \A c \in Devices : heard'[c] <= MaxMessages[c],
           todo' \in [Conns -> SUBSET Conns], \A c \in Conns \ {w} : todo'[c] = todo[c],
           j.pc = "written" => j.chapter \in stored',
           j.pc \in {"publish", "broadcast", "reply"} /\ j.answer = "ack" => j.chapter \in stored',
           j.pc \in {"publish", "broadcast"} => j.chapter \in stored' \cup claimed',
           w \in Devices /\ Sole(w) /\ wire[w] = "open" =>
              /\ j.pc = "broadcast" => w \in todo'[w] \/ Told(w, j.chapter)
              /\ j.pc = "reply" /\ j.answer = "ack" => Told(w, j.chapter)
    PROVE  IInv'
<1>1. TypeInv /\ ClientsInv /\ Devices \subseteq Conns
  BY DEF IInv, Conns
<1>2. job'[w] = j /\ job' \in [Workers -> Jobs] /\ \A v \in Workers \ {w} : job'[v] = job[v]
  BY <1>1 DEF TypeInv
<1>3. TypeInv' /\ ClientsInv'
  BY <1>1, <1>2 DEF TypeInv, ClientsInv
<1>4. StoredInv' /\ ToldInv' /\ AckInv'
  <2>1. /\ HasUpdate(w)' => job'[w].chapter \in stored'
        /\ job'[w].pc \in {"publish", "broadcast"} => job'[w].chapter \in Known'
    BY <1>2 DEF HasUpdate, Known
  <2>2. w \in Devices /\ Sole(w) /\ wire'[w] = "open" =>
          /\ job'[w].pc = "broadcast" => w \in todo'[w] \/ Told(w, job'[w].chapter)
          /\ job'[w].pc = "reply" /\ job'[w].answer = "ack" => Told(w, job'[w].chapter)
    BY <1>1, <1>2
  <2> QED BY <1>2, <2>1, <2>2, LocalInv
<1> QED BY <1>3, <1>4 DEF IInv

\* A message is read; nothing else happens yet.
LEMMA HearStep ==
    ASSUME TypeInv, NEW c \in Conns, Hear(c)
    PROVE  /\ c \in Devices /\ c \in Workers
           /\ heard' \in [Conns -> Nat] /\ \A d \in Devices : heard'[d] <= MaxMessages[d]
<1>1. c \in Devices /\ heard[c] < MaxMessages[c] /\ heard' = [heard EXCEPT ![c] = @ + 1]
  BY DEF Hear
<1>2. heard[c] \in Nat /\ MaxMessages[c] \in Nat
  BY <1>1, MessageAssumption DEF TypeInv
<1>3. Devices \subseteq Conns
  BY DEF Conns
<1> QED BY <1>1, <1>2, <1>3 DEF TypeInv, Workers

LEMMA HearOtherInv ==
    ASSUME IInv, NEW c \in Devices, HearOther(c)
    PROVE  IInv'
<1>1. TypeInv /\ c \in Conns
  BY DEF IInv, Conns
<1>2. PICK j \in Jobs : j = Answering("other") /\ j.pc = "reply" /\ j.answer = "other"
  BY JobTypes DEF Answering, Job, Kinds
<1>3. /\ job' = [job EXCEPT ![c] = j]
      /\ UNCHANGED <<entry, stored, claimed, astray, clients, wire, todo, inbox, rb, relayed>>
  BY <1>2 DEF HearOther, Hear
<1>4. /\ c \in Workers /\ heard' \in [Conns -> Nat]
      /\ \A d \in Devices : heard'[d] <= MaxMessages[d]
  BY <1>1, HearStep DEF HearOther
<1> QED BY <1>1, <1>2, <1>3, <1>4, WorkerInv DEF TypeInv

LEMMA HearProgressInv ==
    ASSUME IInv, NEW c \in Devices, HearProgress(c)
    PROVE  IInv'
<1>1. TypeInv /\ c \in Conns
  BY DEF IInv, Conns
<1>2. PICK n \in Chapters, strategy \in Strategies, older, read \in BOOLEAN :
        job' = [job EXCEPT ![c] = IF read /\ Conflict(n, strategy, older)
                                    THEN Answering("conflict") ELSE Job("checked", n)]
  BY DEF HearProgress
<1>3. PICK j \in Jobs : /\ job' = [job EXCEPT ![c] = j]
                        /\ j.pc \in {"reply", "checked"}
                        /\ j.pc = "reply" => j.answer = "conflict"
  <2>1. Answering("conflict") \in Jobs /\ Job("checked", n) \in Jobs
    BY JobTypes DEF Kinds
  <2>2. /\ Answering("conflict").pc = "reply" /\ Answering("conflict").answer = "conflict"
        /\ Job("checked", n).pc = "checked"
    BY DEF Answering, Job
  <2> QED BY <1>2, <2>1, <2>2
<1>4. UNCHANGED <<entry, stored, claimed, astray, clients, wire, todo, inbox, rb, relayed>>
  BY DEF HearProgress, Hear
<1>5. /\ c \in Workers /\ heard' \in [Conns -> Nat]
      /\ \A d \in Devices : heard'[d] <= MaxMessages[d]
  BY <1>1, HearStep DEF HearProgress
<1> QED BY <1>1, <1>3, <1>4, <1>5, WorkerInv DEF TypeInv

LEMMA RelayingJob ==
    ASSUME NEW n \in Chapters \cup {0}
    PROVE  /\ Relaying(n) \in Jobs /\ Relaying(n).pc = "publish"
           /\ Relaying(n).chapter = n /\ Relaying(n).answer = "relayed"
BY DEF Relaying, Job, Jobs

LEMMA HearBroadcastInv ==
    ASSUME IInv, NEW c \in Devices, HearBroadcast(c)
    PROVE  IInv'
<1>1. TypeInv /\ c \in Conns
  BY DEF IInv, Conns
<1>2. PICK n \in Chapters : /\ job' = [job EXCEPT ![c] = Relaying(n)]
                            /\ claimed' = claimed \cup {n}
  BY DEF HearBroadcast
<1>3. PICK j \in Jobs : /\ j = Relaying(n)
                        /\ j.pc = "publish" /\ j.chapter = n /\ j.answer = "relayed"
  BY RelayingJob
<1>4. /\ job' = [job EXCEPT ![c] = j] /\ astray' \in BOOLEAN
      /\ UNCHANGED <<entry, stored, clients, wire, todo, inbox, rb, relayed>>
  BY <1>2, <1>3 DEF HearBroadcast, Hear
<1>5. /\ c \in Workers /\ heard' \in [Conns -> Nat]
      /\ \A d \in Devices : heard'[d] <= MaxMessages[d]
  BY <1>1, HearStep DEF HearBroadcast
<1>6. claimed \subseteq claimed' /\ claimed' \subseteq Chapters /\ j.chapter \in claimed'
  BY <1>1, <1>2, <1>3 DEF TypeInv
<1> QED BY <1>1, <1>3, <1>4, <1>5, <1>6, WorkerInv DEF TypeInv

-----------------------------------------------------------------------------
(* Updates.                                                                *)

LEMMA RequestInv ==
    ASSUME IInv, NEW p \in Requests, Request(p)
    PROVE  IInv'
<1>1. TypeInv /\ p \in Workers
  BY DEF IInv, Workers
<1>2. PICK n \in Chapters, force \in BOOLEAN :
        job' = [job EXCEPT ![p] = [Job("checked", n) EXCEPT !.force = force]]
  BY DEF Request
<1>3. PICK j \in Jobs : job' = [job EXCEPT ![p] = j] /\ j.pc = "checked"
  <2> DEFINE j == [Job("checked", n) EXCEPT !.force = force]
  <2>1. j \in Jobs /\ j.pc = "checked"
    BY DEF Job, Jobs
  <2> QED BY <1>2, <2>1
<1>4. UNCHANGED <<entry, stored, claimed, astray, clients, wire, heard, todo, inbox, rb, relayed>>
  BY DEF Request, store, net
<1> QED BY <1>1, <1>3, <1>4, WorkerInv DEF TypeInv

LEMMA EndedJob == Job("ended", 0) \in Jobs /\ Job("ended", 0).pc = "ended"
BY JobTypes DEF Job

LEMMA EditLibraryInv ==
    ASSUME IInv, NEW p \in Requests, EditLibrary(p)
    PROVE  IInv'
<1>1. TypeInv /\ p \in Workers
  BY DEF IInv, Workers
<1>2. PICK j \in Jobs : j = Job("ended", 0) /\ j.pc = "ended"
  BY EndedJob
<1>3. /\ job' = [job EXCEPT ![p] = j] /\ astray' \in BOOLEAN
      /\ entry' \in Chapters \cup {0, None} /\ stored' = stored \cup ({entry'} \ {None})
      /\ UNCHANGED <<claimed, clients, wire, heard, todo, inbox, rb, relayed>>
  BY <1>2 DEF EditLibrary, net
<1>4. /\ entry' \in stored' \cup {None} /\ stored \subseteq stored'
      /\ stored' \subseteq Chapters \cup {0}
  BY <1>1, <1>3 DEF TypeInv
<1> QED BY <1>1, <1>2, <1>3, <1>4, WorkerInv DEF TypeInv

LEMMA FailedJob ==
    ASSUME NEW w \in Workers
    PROVE  \E j \in Jobs : /\ j = Failed(w) /\ j.pc \in {"ended", "reply"}
                           /\ j.pc = "reply" => j.answer = "other"
<1>1. Answering("other") \in Jobs
  BY JobTypes
<1>2. Answering("other").pc = "reply" /\ Answering("other").answer = "other"
  BY DEF Answering, Job
<1> QED BY <1>1, <1>2, EndedJob DEF Failed

LEMMA UpdateInv ==
    ASSUME IInv, NEW w \in Workers, Update(w)
    PROVE  IInv'
<1>1. TypeInv /\ StoredInv /\ job[w] \in Jobs
  BY DEF IInv, TypeInv
<1>2. CASE CheckProgress(w)
  <2>1. PICK j \in Jobs : j = [job[w] EXCEPT !.pc = "allowed"]
    BY <1>1 DEF Jobs
  <2>2. j.pc = "allowed" /\ job' = [job EXCEPT ![w] = j]
    BY <1>1, <1>2, <2>1 DEF CheckProgress, Jobs
  <2>3. UNCHANGED <<entry, stored, claimed, astray, clients, wire, heard, todo, inbox, rb, relayed>>
    BY <1>2 DEF CheckProgress, store, net
  <2> QED BY <1>1, <2>2, <2>3, WorkerInv DEF TypeInv
<1>3. CASE RefuseProgress(w)
  <2>1. PICK j \in Jobs : /\ j = Failed(w) /\ j.pc \in {"ended", "reply"}
                          /\ j.pc = "reply" => j.answer = "other"
    BY FailedJob
  <2>2. /\ job' = [job EXCEPT ![w] = j]
        /\ UNCHANGED <<entry, stored, claimed, astray, clients, wire, heard, todo, inbox, rb, relayed>>
    BY <1>3, <2>1 DEF RefuseProgress, store, net
  <2> QED BY <1>1, <2>1, <2>2, WorkerInv DEF TypeInv
<1>4. CASE WriteProgress(w)
  <2>1. PICK j \in Jobs : j = [job[w] EXCEPT !.pc = "written"]
    BY <1>1 DEF Jobs
  <2>2. j.pc = "written" /\ j.chapter = job[w].chapter /\ job' = [job EXCEPT ![w] = j]
    BY <1>1, <1>4, <2>1 DEF WriteProgress, Jobs
  <2>3. /\ entry' = j.chapter /\ stored' = stored \cup {j.chapter}
        /\ astray' \in BOOLEAN
        /\ UNCHANGED <<claimed, clients, wire, heard, todo, inbox, rb, relayed>>
    BY <1>4, <2>2 DEF WriteProgress, Overlaps, net
  <2>4. stored' \subseteq Chapters \cup {0} /\ entry' \in stored'
    BY <1>1, <2>2, <2>3 DEF TypeInv, Jobs
  <2> QED BY <1>1, <2>2, <2>3, <2>4, WorkerInv DEF TypeInv
<1>5. CASE ReadBack(w)
  <2>0. entry \in stored /\ entry \in Chapters \cup {0}
    BY <1>1, <1>5 DEF ReadBack, TypeInv
  <2>1. PICK j \in Jobs : j = [job[w] EXCEPT !.pc = "publish", !.chapter = entry]
    BY <1>1, <2>0 DEF Jobs
  <2>2. j.pc = "publish" /\ j.chapter = entry /\ job' = [job EXCEPT ![w] = j]
    BY <1>1, <1>5, <2>1 DEF ReadBack, Jobs
  <2>3. UNCHANGED <<entry, stored, claimed, astray, clients, wire, heard, todo, inbox, rb, relayed>>
    BY <1>5 DEF ReadBack, store, net
  <2> QED BY <1>1, <2>0, <2>2, <2>3, WorkerInv DEF TypeInv
<1>6. CASE ReadBackFails(w)
  <2>1. PICK j \in Jobs : /\ j = Failed(w) /\ j.pc \in {"ended", "reply"}
                          /\ j.pc = "reply" => j.answer = "other"
    BY FailedJob
  <2>2. /\ job' = [job EXCEPT ![w] = j] /\ astray' \in BOOLEAN
        /\ UNCHANGED <<entry, stored, claimed, clients, wire, heard, todo, inbox, rb, relayed>>
    BY <1>6, <2>1 DEF ReadBackFails, net
  <2> QED BY <1>1, <2>1, <2>2, WorkerInv DEF TypeInv
<1> QED BY <1>2, <1>3, <1>4, <1>5, <1>6 DEF Update

LEMMA SnapshotInv ==
    ASSUME IInv, NEW c \in Conns, Snapshot(c)
    PROVE  IInv'
<1>1. /\ TypeInv /\ StoredInv /\ ClientsInv /\ c \in Workers /\ job[c] \in Jobs
      /\ AddrOf[c] \in Addrs
  BY AddrAssumption DEF IInv, TypeInv, Workers
<1>2. PICK j \in Jobs : j = [job[c] EXCEPT !.pc = "broadcast"]
  BY <1>1 DEF Jobs
<1>3. /\ j.pc = "broadcast" /\ j.chapter = job[c].chapter /\ job' = [job EXCEPT ![c] = j]
      /\ job[c].pc = "publish"
  BY <1>1, <1>2 DEF Snapshot, Jobs
<1>4. /\ todo' = [todo EXCEPT ![c] = Registered]
      /\ UNCHANGED <<entry, stored, claimed, astray, clients, wire, heard, inbox, rb, relayed>>
  BY DEF Snapshot, store, net
<1>5. Registered \subseteq Conns
  BY <1>1 DEF Registered, Range, TypeInv
<1>6. Sole(c) /\ wire[c] = "open" => c \in Registered
  BY <1>1, NoneAssumption DEF Registered, Range, ClientsInv, TypeInv
<1>7. j.chapter \in stored \cup claimed /\ (j.answer = "ack" => j.chapter \in stored)
  BY <1>1, <1>2, <1>3 DEF StoredInv, Known, HasUpdate, Jobs
<1>8. /\ todo' \in [Conns -> SUBSET Conns] /\ \A d \in Conns \ {c} : todo'[d] = todo[d]
      /\ todo'[c] = Registered
  BY <1>1, <1>4, <1>5 DEF TypeInv
<1> QED BY <1>1, <1>3, <1>4, <1>6, <1>7, <1>8, WorkerInv DEF TypeInv

LEMMA BroadcastedInv ==
    ASSUME IInv, NEW c \in Conns, Broadcasted(c)
    PROVE  IInv'
<1>1. TypeInv /\ StoredInv /\ ToldInv /\ c \in Workers /\ job[c] \in Jobs
  BY DEF IInv, TypeInv, Workers
<1>2. PICK j \in Jobs : j = [job[c] EXCEPT !.pc = "reply"]
  BY <1>1 DEF Jobs
<1>3. /\ j.pc = "reply" /\ j.chapter = job[c].chapter /\ job' = [job EXCEPT ![c] = j]
      /\ job[c].pc = "broadcast" /\ todo[c] = {}
      /\ UNCHANGED <<entry, stored, claimed, astray, clients, wire, heard, todo, inbox, rb, relayed>>
  BY <1>1, <1>2 DEF Broadcasted, Jobs, store, net
<1>4. j.answer = "ack" => j.chapter \in stored
  BY <1>1, <1>2, <1>3 DEF StoredInv, HasUpdate, Jobs
<1>5. c \in Devices /\ Sole(c) /\ wire[c] = "open" => Told(c, j.chapter)
  BY <1>1, <1>3 DEF ToldInv
<1> QED BY <1>1, <1>3, <1>4, <1>5, WorkerInv DEF TypeInv

LEMMA PublishFailsInv ==
    ASSUME IInv, NEW p \in Requests, PublishFails(p)
    PROVE  IInv'
<1>1. TypeInv /\ p \in Workers
  BY DEF IInv, Workers
<1>2. PICK j \in Jobs : j = Job("ended", 0) /\ j.pc = "ended"
  BY EndedJob
<1>3. /\ job' = [job EXCEPT ![p] = j] /\ astray' \in BOOLEAN /\ rb' = None
      /\ UNCHANGED <<entry, stored, claimed, clients, heard, todo, inbox, relayed>>
  BY <1>2 DEF PublishFails
<1>4. /\ wire' \in [Conns -> {"none", "open", "gone"}]
      /\ \A c \in Conns : wire'[c] = "open" => wire[c] = "open"
  BY <1>1 DEF PublishFails, TypeInv
<1>5. p \notin Devices
  BY ConnsAssumption DEF Conns
<1> QED BY <1>1, <1>2, <1>3, <1>4, <1>5, WorkerInv DEF TypeInv

-----------------------------------------------------------------------------
(* Deliveries, and the API's connection.                                   *)

LEMMA SendToInv ==
    ASSUME IInv, NEW c \in Conns, NEW d \in Conns, SendTo(c, d)
    PROVE  IInv'
<1>1. /\ TypeInv /\ StoredInv /\ ClientsInv /\ ToldInv /\ AckInv
      /\ c \in Workers /\ job[c] \in Jobs /\ Devices \subseteq Conns
  BY DEF IInv, TypeInv, Workers, Conns
<1>2. job[c].chapter \in Chapters \cup {0} /\ job[c].chapter \in Known
  BY <1>1 DEF Jobs, SendTo, StoredInv
<1>3. PICK m \in Messages : /\ m = Message("progress_broadcast", job[c].chapter)
                            /\ m.kind = "progress_broadcast" /\ m.chapter = job[c].chapter
  <2>1. Message("progress_broadcast", job[c].chapter) \in Messages
    BY <1>2, JobTypes DEF Kinds
  <2> QED BY <2>1 DEF Message
<1>4. /\ Deliver(d, m) /\ todo' = [todo EXCEPT ![c] = @ \ {d}] /\ job[c].pc = "broadcast"
      /\ UNCHANGED <<entry, stored, claimed, astray, clients, wire, heard, rb, relayed, job>>
  BY <1>3 DEF SendTo, store, net
<1>5. TypeInv'
  BY <1>1, <1>4, DeliverStep DEF TypeInv
<1>6. \A e \in Devices : \A i \in 1 .. Len(inbox'[e]) :
        (i \in 1 .. Len(inbox[e]) /\ inbox'[e][i] = inbox[e][i]) \/ inbox'[e][i] = m
  BY <1>1, <1>4, DeliverStep
<1>7. StoredInv'
  <2>1. Known' = Known /\ stored' = stored /\ \A w : HasUpdate(w)' <=> HasUpdate(w)
    BY <1>4 DEF Known, HasUpdate
  <2>2. \A e \in Devices : \A i \in 1 .. Len(inbox'[e]) :
          /\ inbox'[e][i].kind = "progress_broadcast" => inbox'[e][i].chapter \in Known
          /\ inbox'[e][i].kind = "ack" => inbox'[e][i].chapter \in stored
    BY <1>1, <1>2, <1>3, <1>6 DEF StoredInv
  <2> QED BY <1>1, <1>4, <2>1, <2>2 DEF StoredInv
<1>8. AckInv'
  <2> SUFFICES ASSUME NEW e \in Devices, Sole(e), NEW i \in 1 .. Len(inbox'[e]),
                      inbox'[e][i].kind = "ack"
               PROVE  \E k \in 1 .. i - 1 : inbox'[e][k] =
                        Message("progress_broadcast", inbox'[e][i].chapter)
    BY DEF AckInv
  <2>1. i \in 1 .. Len(inbox[e]) /\ inbox'[e][i] = inbox[e][i] /\ Len(inbox[e]) \in Nat
    BY <1>1, <1>3, <1>4, <1>6, DeliverStep
  <2>2. PICK k \in 1 .. i - 1 :
          inbox[e][k] = Message("progress_broadcast", inbox[e][i].chapter)
    BY <1>1, <2>1 DEF AckInv
  <2>3. k \in 1 .. Len(inbox[e])
    BY <2>1, <2>2
  <2>4. inbox'[e][k] = inbox[e][k]
    BY <1>1, <1>4, <2>3, DeliverStep
  <2> QED BY <2>1, <2>2, <2>4
<1>9. ToldInv'
  <2> SUFFICES ASSUME NEW e \in Devices, Sole(e), wire[e] = "open"
               PROVE  /\ job[e].pc = "broadcast" => e \in todo'[e] \/ Told(e, job[e].chapter)'
                      /\ job[e].pc = "reply" /\ job[e].answer = "ack"
                            => Told(e, job[e].chapter)'
    BY <1>4 DEF ToldInv, Told
  <2>1. \A n : Told(e, n) => Told(e, n)'
    BY <1>1, <1>4, StaysTold
  <2>2. /\ job[e].pc = "broadcast" => e \in todo[e] \/ Told(e, job[e].chapter)
        /\ job[e].pc = "reply" /\ job[e].answer = "ack" => Told(e, job[e].chapter)
    BY <1>1 DEF ToldInv
  <2>3. todo'[e] = IF e = c THEN todo[e] \ {d} ELSE todo[e]
    BY <1>1, <1>4 DEF TypeInv
  <2>4. CASE e = c /\ d = c
    <3>1. /\ Len(inbox[e]) \in Nat /\ Len(inbox'[e]) = Len(inbox[e]) + 1
          /\ inbox'[e][Len(inbox[e]) + 1] = m
      BY <1>1, <1>4, <2>4, DeliverStep
    <3>2. Told(c, job[c].chapter)'
      BY <1>3, <1>4, <2>4, <3>1 DEF Told
    <3> QED BY <1>4, <2>4, <3>2
  <2>5. CASE ~(e = c /\ d = c)
    BY <1>4, <2>1, <2>2, <2>3, <2>5
  <2> QED BY <2>4, <2>5
<1>10. ClientsInv'
  BY <1>1, <1>4 DEF ClientsInv
<1> QED BY <1>5, <1>7, <1>8, <1>9, <1>10 DEF IInv

LEMMA ReplyInv ==
    ASSUME IInv, NEW c \in Conns, Reply(c)
    PROVE  IInv'
<1>1. /\ TypeInv /\ StoredInv /\ ClientsInv /\ ToldInv /\ AckInv
      /\ c \in Workers /\ job[c] \in Jobs /\ Devices \subseteq Conns /\ Conns \subseteq Workers
  BY DEF IInv, TypeInv, Workers, Conns
<1>2. PICK m \in Messages :
        /\ m.kind = job[c].answer /\ m.chapter = job[c].chapter
        /\ m = Message(job[c].answer, job[c].chapter)
  <2>1. job[c].chapter \in Chapters \cup {0} /\ job[c].answer \in Kinds
    BY <1>1 DEF Jobs, Kinds
  <2>2. Message(job[c].answer, job[c].chapter) \in Messages
    BY <2>1, JobTypes
  <2> QED BY <2>2 DEF Message
<1>3. m.kind # "progress_broadcast"
  BY <1>1, <1>2 DEF Jobs
<1>4. PICK j \in Jobs : j = Job("reading", 0) /\ j.pc = "reading"
  <2>1. Job("reading", 0) \in Jobs
    BY JobTypes
  <2>2. Job("reading", 0).pc = "reading"
    BY DEF Job
  <2> QED BY <2>1, <2>2
<1>5. /\ Deliver(c, m) /\ job[c].pc = "reply" /\ job' = [job EXCEPT ![c] = j]
      /\ UNCHANGED <<entry, stored, claimed, astray, clients, wire, heard, rb, relayed, todo>>
  BY <1>2, <1>4 DEF Reply, store, net
<1>6. job'[c] = j /\ job' \in [Workers -> Jobs] /\ \A v \in Workers \ {c} : job'[v] = job[v]
  BY <1>1, <1>5 DEF TypeInv
<1>7. TypeInv' /\ ClientsInv'
  BY <1>1, <1>5, <1>6, DeliverStep DEF TypeInv, ClientsInv
<1>8. \A e \in Devices : \A i \in 1 .. Len(inbox'[e]) :
        \/ i \in 1 .. Len(inbox[e]) /\ inbox'[e][i] = inbox[e][i]
        \/ /\ e = c /\ wire[c] = "open" /\ i = Len(inbox[e]) + 1
           /\ inbox'[e][i] = m
  BY <1>1, <1>5, DeliverStep
<1>9. StoredInv'
  <2>1. Known' = Known /\ stored' = stored
    BY <1>5 DEF Known
  <2>2. m.kind = "ack" => m.chapter \in stored
    BY <1>1, <1>2, <1>5 DEF StoredInv, HasUpdate
  <2>3. \A e \in Devices : \A i \in 1 .. Len(inbox'[e]) :
          /\ inbox'[e][i].kind = "progress_broadcast" => inbox'[e][i].chapter \in Known
          /\ inbox'[e][i].kind = "ack" => inbox'[e][i].chapter \in stored
    BY <1>1, <1>3, <1>8, <2>2 DEF StoredInv
  <2>4. \A w \in Workers : /\ HasUpdate(w)' => job'[w].chapter \in stored
                           /\ job'[w].pc \in {"publish", "broadcast"} => job'[w].chapter \in Known
    BY <1>1, <1>4, <1>6 DEF StoredInv, HasUpdate
  <2> QED BY <1>1, <1>5, <2>1, <2>3, <2>4 DEF StoredInv
<1>10. AckInv'
  <2> SUFFICES ASSUME NEW e \in Devices, Sole(e), NEW i \in 1 .. Len(inbox'[e]),
                      inbox'[e][i].kind = "ack"
               PROVE  \E k \in 1 .. i - 1 : inbox'[e][k] =
                        Message("progress_broadcast", inbox'[e][i].chapter)
    BY DEF AckInv
  <2>1. Len(inbox[e]) \in Nat
    BY <1>1, <1>5, DeliverStep
  <2>2. PICK k \in 1 .. i - 1 : /\ k \in 1 .. Len(inbox[e])
                                /\ inbox[e][k] = Message("progress_broadcast",
                                                         inbox'[e][i].chapter)
    <3>1. CASE i \in 1 .. Len(inbox[e]) /\ inbox'[e][i] = inbox[e][i]
      <4>1. \E k \in 1 .. i - 1 :
              inbox[e][k] = Message("progress_broadcast", inbox[e][i].chapter)
        BY <1>1, <3>1 DEF AckInv
      <4> QED BY <2>1, <3>1, <4>1
    <3>2. CASE /\ e = c /\ wire[c] = "open" /\ i = Len(inbox[e]) + 1
               /\ inbox'[e][i] = m
      <4>1. Told(c, m.chapter)
        BY <1>1, <1>2, <1>5, <3>2 DEF ToldInv
      <4> QED BY <2>1, <3>2, <4>1 DEF Told
    <3> QED BY <1>8, <3>1, <3>2
  <2>3. inbox'[e][k] = inbox[e][k]
    BY <1>1, <1>5, <2>2, DeliverStep
  <2> QED BY <2>2, <2>3
<1>11. ToldInv'
  <2> SUFFICES ASSUME NEW e \in Devices, Sole(e), wire[e] = "open"
               PROVE  LET wasShown == \E i \in 1 .. Len(inbox'[e]) :
                            inbox'[e][i] = Message("progress_broadcast", job'[e].chapter)
                      IN  /\ job'[e].pc = "broadcast" => e \in todo[e] \/ wasShown
                          /\ job'[e].pc = "reply" /\ job'[e].answer = "ack" => wasShown
    BY <1>5 DEF ToldInv, Told
  <2>1. CASE e = c
    BY <1>4, <1>6, <2>1
  <2>2. CASE e # c
    <3>1. job'[e] = job[e]
      BY <1>1, <1>6, <2>2
    <3>2. PICK n : n = job[e].chapter
      OBVIOUS
    <3>3. Told(e, n) => Told(e, n)'
      BY <1>1, <1>5, StaysTold
    <3>4. Told(e, n) => \E i \in 1 .. Len(inbox'[e]) :
                            inbox'[e][i] = Message("progress_broadcast", n)
      BY <3>3 DEF Told
    <3>5. /\ job[e].pc = "broadcast" => e \in todo[e] \/ Told(e, n)
          /\ job[e].pc = "reply" /\ job[e].answer = "ack" => Told(e, n)
      BY <1>1, <3>2 DEF ToldInv
    <3> QED BY <3>1, <3>2, <3>4, <3>5
  <2> QED BY <2>1, <2>2
<1> QED BY <1>7, <1>9, <1>10, <1>11 DEF IInv

\* A step of worker w that changes what is relayed, by what is known.
LEMMA RelayInv ==
    ASSUME IInv, NEW w \in Workers \ Devices, NEW j \in Jobs, job' = [job EXCEPT ![w] = j],
           UNCHANGED <<entry, stored, claimed, clients, wire, heard, rb, todo, inbox>>,
           astray' \in BOOLEAN,
           relayed' \in [Relays -> Seq(Chapters \cup {0})],
           \A r \in Relays : \A i \in 1 .. Len(relayed'[r]) : relayed'[r][i] \in Known,
           j.pc = "ended" \/ (j.pc = "publish" /\ j.answer = "relayed" /\ j.chapter \in Known)
    PROVE  IInv'
<1>1. TypeInv /\ StoredInv /\ ClientsInv /\ ToldInv /\ AckInv /\ Devices \subseteq Workers
  BY DEF IInv, Workers, Conns
<1>2. job'[w] = j /\ job' \in [Workers -> Jobs] /\ \A v \in Workers \ {w} : job'[v] = job[v]
  BY <1>1 DEF TypeInv
<1>3. TypeInv' /\ ClientsInv'
  BY <1>1, <1>2 DEF TypeInv, ClientsInv
<1>4. StoredInv'
  <2>1. Known' = Known
    BY DEF Known
  <2>2. ~HasUpdate(w)' /\ \A v \in Workers \ {w} : HasUpdate(v)' <=> HasUpdate(v)
    BY <1>2 DEF HasUpdate
  <2>3. \A v \in Workers : /\ HasUpdate(v)' => job'[v].chapter \in stored
                           /\ job'[v].pc \in {"publish", "broadcast"} => job'[v].chapter \in Known
    BY <1>1, <1>2, <2>2 DEF StoredInv
  <2> QED BY <1>1, <2>1, <2>3 DEF StoredInv
<1>5. \A c \in Devices : job'[c] = job[c]
  BY <1>1, <1>2
<1>6. ToldInv' /\ AckInv'
  BY <1>1, <1>5 DEF ToldInv, AckInv, Told
<1> QED BY <1>3, <1>4, <1>6 DEF IInv

LEMMA PublishProgressInv ==
    ASSUME IInv, NEW p \in Requests, PublishProgress(p)
    PROVE  IInv'
<1>1. /\ TypeInv /\ StoredInv /\ p \in Workers \ Devices /\ job[p] \in Jobs
  BY ConnsAssumption DEF IInv, TypeInv, Workers, Conns
<1>2. PICK j \in Jobs : j = Job("ended", 0) /\ j.pc = "ended"
  BY EndedJob
<1>3. /\ relayed' = [r \in Relays |-> IF r = rb /\ wire[r] = "open"
                        THEN Append(relayed[r], job[p].chapter) ELSE relayed[r]]
      /\ job' = [job EXCEPT ![p] = j] /\ astray' \in BOOLEAN
      /\ UNCHANGED <<entry, stored, claimed, clients, wire, heard, rb, todo, inbox>>
  BY <1>2 DEF PublishProgress
<1>4. PICK n \in Chapters \cup {0} : n = job[p].chapter /\ n \in Known
  BY <1>1 DEF PublishProgress, StoredInv, Jobs
<1>5. ASSUME NEW r \in Relays
      PROVE  /\ relayed'[r] \in Seq(Chapters \cup {0})
             /\ \A i \in 1 .. Len(relayed'[r]) : relayed'[r][i] \in Known
  <2>1. PICK s \in Seq(Chapters \cup {0}) : s = relayed[r]
    BY <1>1 DEF TypeInv
  <2>2. \A i \in 1 .. Len(s) : s[i] \in Known
    BY <1>1, <2>1 DEF StoredInv
  <2>3. relayed'[r] = s \/ relayed'[r] = Append(s, n)
    BY <1>3, <1>4, <2>1
  <2>4. /\ Append(s, n) \in Seq(Chapters \cup {0})
        /\ \A i \in 1 .. Len(Append(s, n)) : Append(s, n)[i] \in Known
    BY <1>4, <2>2, AppendProperties
  <2> QED BY <2>2, <2>3, <2>4
<1>6. relayed' \in [Relays -> Seq(Chapters \cup {0})]
  BY <1>3, <1>5
<1> QED BY <1>1, <1>2, <1>3, <1>5, <1>6, RelayInv

LEMMA HearRelayInv ==
    ASSUME IInv, NEW r \in Relays, HearRelay(r)
    PROVE  IInv'
<1>1. TypeInv /\ StoredInv /\ r \in Workers \ Devices
  BY ConnsAssumption DEF IInv, Workers, Conns
<1>2. PICK s \in Seq(Chapters \cup {0}) : s = relayed[r]
  BY <1>1 DEF TypeInv
<1>3. s # <<>> /\ \A i \in 1 .. Len(s) : s[i] \in Known
  BY <1>1, <1>2 DEF StoredInv, HearRelay, Waits
<1>4. PICK n \in Chapters \cup {0} : n = Head(s) /\ n \in Known
  BY <1>3, HeadTailProperties
<1>5. Tail(s) \in Seq(Chapters \cup {0}) /\ \A i \in 1 .. Len(Tail(s)) : Tail(s)[i] \in Known
  BY <1>3, HeadTailProperties
<1>6. PICK j \in Jobs : /\ j = Relaying(n)
                        /\ j.pc = "publish" /\ j.chapter = n /\ j.answer = "relayed"
  BY RelayingJob
<1>7. /\ relayed' = [relayed EXCEPT ![r] = Tail(s)] /\ job' = [job EXCEPT ![r] = j]
      /\ UNCHANGED <<entry, stored, claimed, astray, clients, wire, heard, rb, todo, inbox>>
  BY <1>2, <1>4, <1>6 DEF HearRelay, store
<1>8. /\ relayed' \in [Relays -> Seq(Chapters \cup {0})] /\ astray' \in BOOLEAN
      /\ \A q \in Relays : \A i \in 1 .. Len(relayed'[q]) : relayed'[q][i] \in Known
  BY <1>1, <1>5, <1>7 DEF TypeInv, StoredInv
<1> QED BY <1>1, <1>4, <1>6, <1>7, <1>8, RelayInv

-----------------------------------------------------------------------------
LEMMA NextInv == IInv /\ [Next]_vars => IInv'
<1> SUFFICES ASSUME IInv, [Next]_vars PROVE IInv'
  OBVIOUS
<1>1. Devices \subseteq Conns /\ Conns \subseteq Workers /\ Requests \subseteq Workers
  BY DEF Conns, Workers
<1>2. ASSUME NEW c \in Conns, Accept(c) \/ PeerLeaves(c) PROVE IInv'
  BY <1>2, AcceptInv, PeerLeavesInv
<1>3. ASSUME NEW c \in Conns, Handle(c) PROVE IInv'
  BY <1>1, <1>3, UpdateInv, SnapshotInv, BroadcastedInv, ReplyInv, EndInv, SendToInv DEF Handle
<1>4. ASSUME NEW c \in Devices, HearOther(c) \/ HearProgress(c) \/ HearBroadcast(c) PROVE IInv'
  BY <1>4, HearOtherInv, HearProgressInv, HearBroadcastInv
<1>5. ASSUME NEW p \in Requests, \/ Request(p) \/ EditLibrary(p) \/ Update(p)
                                 \/ PublishProgress(p) \/ PublishFails(p)
      PROVE  IInv'
  BY <1>1, <1>5, RequestInv, EditLibraryInv, UpdateInv, PublishProgressInv, PublishFailsInv
<1>6. CASE UNCHANGED vars
  <2> USE DEF vars
  <2>1. TypeInv' /\ ClientsInv'
    BY <1>6 DEF IInv, TypeInv, ClientsInv
  <2>2. StoredInv' /\ ToldInv' /\ AckInv'
    BY <1>6 DEF IInv, StoredInv, Known, HasUpdate, ToldInv, Told, AckInv
  <2> QED BY <2>1, <2>2 DEF IInv
<1> QED BY <1>2, <1>3, <1>4, <1>5, <1>6, HearRelayInv DEF Next

\* The inductive invariant: what is on its way was stored or put on the wire by a
\* device, what will be acknowledged as updated was stored, an open connection that
\* has its address to itself is registered under it, and such a device has been sent
\* its own update when that has been sent round (handleMessage and broadcast in
\* internal/tcp).
THEOREM Invariance == Spec => []IInv
<1>1. Init => IInv
  BY InitInv
<1>2. IInv /\ [Next]_vars => IInv'
  BY NextInv
<1> QED BY <1>1, <1>2, PTL DEF Spec

\* For any number of devices, relay connections, requests and chapters, only what the
\* library entry has held is broadcast, but for what a device relays itself, and only
\* that is acknowledged; and a device is shown its own update before the ack, when
\* connections come from addresses of their own.
THEOREM StoredAndShown == ASSUME OwnAddresses PROVE Spec => []OnlyStoredIsShown
<1>1. IInv => OnlyStoredIsShown
  BY InvShown
<1>2. Spec => []IInv
  BY Invariance
<1> QED BY <1>1, <1>2, PTL

\* Types, wherever connections come from.
THEOREM TypeCorrect == Spec => []TypeOK
<1>1. IInv => TypeOK
  BY InvTypes
<1>2. Spec => []IInv
  BY Invariance
<1> QED BY <1>1, <1>2, PTL
-----------------------------------------------------------------------------
(* Devices agree unless they went astray.                                  *)

\* A handler starts with its connection, and nothing is sent before.
Fresh ==
    /\ \A c \in Conns : wire[c] = "none" => job[c].pc = "none"
    /\ \A d \in Devices : wire[d] = "none" => inbox[d] = <<>>

\* After an update that was stored alone it alone is on its way, and is the entry.
Single ==
    /\ \A v, w \in Workers : OnItsWay(v) /\ OnItsWay(w) => v = w
    /\ \A w \in Workers : OnItsWay(w) =>
        job[w].chapter = entry /\ \A r \in Relays : ~Waits(r)
    /\ \A r \in Relays : Waits(r) => Len(relayed[r]) = 1 /\ relayed[r][1] = entry
    /\ \A q, r \in Relays : Waits(q) /\ Waits(r) => q = r

\* What is on its way will still be written to d.
Coming(d) ==
    \/ \E r \in Relays : Waits(r)
    \/ \E w \in Workers : job[w].pc \in {"written", "publish"}
    \/ \E c \in Conns : job[c].pc = "broadcast" /\ d \in todo[c]

LastIs(d, n) ==
    \E i \in Broadcasts(d) : inbox[d][i].chapter = n /\ \A k \in Broadcasts(d) : k <= i

Agrees(d) ==
    Sole(d) /\ wire[d] = "open" /\ Broadcasts(d) # {} => LastIs(d, entry) \/ Coming(d)

AInv == IInv /\ Fresh /\ (~astray => Single /\ \A d \in Devices : Agrees(d))

LEMMA InvAgree == OwnAddresses /\ AInv => DevicesAgreeUnlessAstray
<1> SUFFICES ASSUME OwnAddresses, AInv, Quiet, ~astray,
                    NEW d \in Devices, wire[d] = "open", Broadcasts(d) # {}
             PROVE  LastIs(d, entry)
  BY DEF DevicesAgreeUnlessAstray, LastIs
<1>1. Sole(d) /\ Conns \subseteq Workers
  BY DEF OwnAddresses, Sole, Conns, Workers
<1>2. ~Coming(d)
  BY <1>1 DEF Quiet, Coming
<1> QED BY <1>1, <1>2 DEF AInv, Agrees

LEMMA AstrayInv == IInv' /\ Fresh' /\ astray' => AInv'
BY DEF AInv

LEMMA WorkerTypes ==
    Devices \subseteq Conns /\ Relays \subseteq Conns /\ Conns \subseteq Workers /\ Requests \subseteq Workers
BY DEF Conns, Workers

\* A worker moves on, or starts on something else.
LEMMA Moves ==
    ASSUME TypeInv, NEW w \in Workers, NEW p, job' = [job EXCEPT ![w].pc = p]
    PROVE  /\ job'[w].pc = p /\ job'[w].chapter = job[w].chapter
           /\ \A v \in Workers : v # w => job'[v] = job[v]
<1>1. job[w] \in Jobs /\ job \in [Workers -> Jobs]
  BY DEF TypeInv
<1> QED BY <1>1 DEF Jobs

LEMMA Replaces ==
    ASSUME TypeInv, NEW w \in Workers, NEW j, job' = [job EXCEPT ![w] = j]
    PROVE  /\ job'[w] = j
           /\ \A v \in Workers : v # w => job'[v] = job[v]
BY DEF TypeInv

LEMMA FreshInv == ASSUME IInv, Fresh, [Next]_vars PROVE Fresh'
<1> USE WorkerTypes
<1>1. TypeInv
  BY DEF IInv
\* Only a request moves that was not begun.
<1> DEFINE Keeps == /\ \A c \in Conns : job[c].pc = "none" => job'[c] = job[c]
                    /\ \A c \in Conns : wire'[c] = "none" => wire[c] = "none"
                    /\ \A d \in Devices : wire[d] = "none" => inbox'[d] = inbox[d]
<1>2. ASSUME Keeps PROVE Fresh'
  BY <1>2 DEF Fresh
<1>3. ASSUME NEW c \in Conns, Accept(c) PROVE Fresh'
  <2>1. /\ job'[c].pc = "reading" /\ \A v \in Workers : v # c => job'[v] = job[v]
        /\ wire' = [wire EXCEPT ![c] = "open"] /\ inbox' = inbox
    BY <1>1, <1>3, Moves DEF Accept
  <2> QED BY <1>1, <2>1 DEF Fresh, TypeInv
<1>4. ASSUME NEW c \in Conns, PeerLeaves(c) PROVE Keeps
  BY <1>1, <1>4 DEF PeerLeaves, TypeInv
<1>5. ASSUME NEW c \in Conns, End(c) PROVE Keeps
  BY <1>1, <1>5, Moves DEF End
<1>6. ASSUME NEW w \in Workers, Update(w) PROVE Keeps
  <2>1. job[w].pc # "none" /\ UNCHANGED <<wire, inbox>>
    BY <1>6 DEF Update, CheckProgress, RefuseProgress, WriteProgress, ReadBack,
                ReadBackFails, net
  <2>2. \A v \in Workers : v # w => job'[v] = job[v]
    BY <1>1, <1>6 DEF Update, CheckProgress, RefuseProgress, WriteProgress, ReadBack,
                      ReadBackFails, TypeInv
  <2> QED BY <2>1, <2>2
<1>7. ASSUME NEW c \in Conns, Snapshot(c) \/ Broadcasted(c) PROVE Keeps
  BY <1>1, <1>7, Moves DEF Snapshot, Broadcasted, net
<1>8. ASSUME NEW c \in Conns, Reply(c) PROVE Keeps
  <2>1. \A v \in Workers : v # c => job'[v] = job[v]
    BY <1>1, <1>8, Replaces DEF Reply
  <2>2. job[c].pc # "none" /\ wire' = wire
    BY <1>8 DEF Reply, net
  <2>3. \A d \in Devices : wire[d] = "none" => inbox'[d] = inbox[d]
    BY <1>8 DEF Reply, Deliver
  <2> QED BY <2>1, <2>2, <2>3
<1>9. ASSUME NEW c \in Conns, NEW d \in Conns, SendTo(c, d) PROVE Keeps
  <2>1. job' = job /\ wire' = wire
    BY <1>9 DEF SendTo, net
  <2>2. \A e \in Devices : wire[e] = "none" => inbox'[e] = inbox[e]
    BY <1>9 DEF SendTo, Deliver
  <2> QED BY <2>1, <2>2
<1>10. ASSUME NEW c \in Devices, HearOther(c) \/ HearProgress(c) \/ HearBroadcast(c) PROVE Keeps
  <2>1. job[c].pc = "reading" /\ UNCHANGED <<wire, inbox>>
    BY <1>10 DEF HearOther, HearProgress, HearBroadcast, Hear
  <2>2. \A v \in Workers : v # c => job'[v] = job[v]
    BY <1>1, <1>10 DEF HearOther, HearProgress, HearBroadcast, TypeInv
  <2> QED BY <2>1, <2>2
<1>11. ASSUME NEW p \in Requests,
              Request(p) \/ EditLibrary(p) \/ PublishProgress(p) \/ PublishFails(p)
       PROVE  Keeps
  <2>1. inbox' = inbox /\ \A c \in Conns : wire'[c] = "none" => wire[c] = "none"
    BY <1>1, <1>11 DEF Request, EditLibrary, PublishProgress, PublishFails, net, TypeInv
  <2>2. \A v \in Workers : v # p => job'[v] = job[v]
    BY <1>1, <1>11 DEF Request, EditLibrary, PublishProgress, PublishFails, TypeInv
  <2> QED BY <2>1, <2>2, ConnsAssumption
<1>12. ASSUME NEW r \in Relays, HearRelay(r) PROVE Keeps
  <2>1. r \in Workers /\ job[r].pc = "reading" /\ UNCHANGED <<wire, inbox>>
    BY <1>12 DEF HearRelay
  <2>2. \A v \in Workers : v # r => job'[v] = job[v]
    BY <1>1, <1>12, <2>1, Replaces DEF HearRelay
  <2> QED BY <2>1, <2>2
<1>13. CASE UNCHANGED vars
  BY <1>13 DEF vars, Fresh
<1> HIDE DEF Keeps
<1>14. ASSUME NEW c \in Conns, Handle(c) PROVE Fresh'
  BY <1>2, <1>5, <1>6, <1>7, <1>8, <1>9, <1>14 DEF Handle
<1> QED BY <1>2, <1>3, <1>4, <1>6, <1>10, <1>11, <1>12, <1>13, <1>14 DEF Next

\* A step aside from updates on their way and from what was broadcast.
LEMMA AsideInv ==
    ASSUME AInv, IInv', Fresh',
           UNCHANGED <<entry, astray, todo, relayed>>,
           \A v \in Workers : OnItsWay(v) \/ OnItsWay(v)' => job'[v] = job[v],
           \A d \in Devices : wire'[d] = "open" /\ Broadcasts(d)' # {} =>
               /\ wire[d] = "open" /\ Broadcasts(d)' = Broadcasts(d)
               /\ \A i \in Broadcasts(d) : inbox'[d][i] = inbox[d][i]
    PROVE  AInv'
<1> USE WorkerTypes
<1> SUFFICES ASSUME ~astray PROVE Single' /\ \A d \in Devices : Agrees(d)'
  BY DEF AInv
<1>1. Single /\ \A d \in Devices : Agrees(d)
  BY DEF AInv
<1>2. \A v \in Workers : OnItsWay(v)' <=> OnItsWay(v)
  BY DEF OnItsWay
<1>3. Single'
  BY <1>1, <1>2 DEF Single, Waits, OnItsWay
<1>4. ASSUME NEW d \in Devices, Sole(d), wire'[d] = "open", Broadcasts(d)' # {}
      PROVE  LastIs(d, entry)' \/ Coming(d)'
  <2>1. LastIs(d, entry) \/ Coming(d)
    BY <1>1, <1>4 DEF Agrees
  <2>2. LastIs(d, entry) => LastIs(d, entry)'
    BY <1>4 DEF LastIs
  <2>3. Coming(d) => Coming(d)'
    BY DEF Coming, OnItsWay, Waits
  <2> QED BY <2>1, <2>2, <2>3
<1> QED BY <1>3, <1>4 DEF Agrees

\* An update goes on, unseen by the devices.
LEMMA OnwardInv ==
    ASSUME AInv, IInv', Fresh', UNCHANGED <<entry, astray, wire, inbox>>,
           ~astray => Single',
           \A d \in Devices : Sole(d) /\ wire[d] = "open" /\ Coming(d) => Coming(d)'
    PROVE  AInv'
<1> SUFFICES ASSUME ~astray, NEW d \in Devices PROVE Agrees(d)'
  BY DEF AInv
<1>1. Agrees(d)
  BY DEF AInv
<1>2. Broadcasts(d)' = Broadcasts(d) /\ (LastIs(d, entry) <=> LastIs(d, entry)')
  BY DEF Broadcasts, LastIs
<1> QED BY <1>1, <1>2 DEF Agrees

\* Where nothing was delivered, the broadcasts are the same.
LEMMA SameBroadcasts ==
    ASSUME UNCHANGED <<wire, inbox>>
    PROVE  \A d \in Devices : wire'[d] = "open" /\ Broadcasts(d)' # {} =>
               /\ wire[d] = "open" /\ Broadcasts(d)' = Broadcasts(d)
               /\ \A i \in Broadcasts(d) : inbox'[d][i] = inbox[d][i]
BY DEF Broadcasts

LEMMA ConnectionAgrees ==
    ASSUME AInv, IInv', Fresh', NEW c \in Conns, Accept(c) \/ PeerLeaves(c) \/ End(c)
    PROVE  AInv'
<1> USE WorkerTypes
<1> SUFFICES ASSUME ~astray' PROVE AInv'
  BY AstrayInv
<1>1. TypeInv /\ Fresh
  BY DEF AInv, IInv
<1>2. UNCHANGED <<entry, astray, todo, relayed, inbox>>
  <2>1. UNCHANGED <<entry, todo, inbox>>
    BY DEF Accept, PeerLeaves, End, store
  <2>2. CASE Accept(c) \/ PeerLeaves(c)
    BY <2>1, <2>2 DEF Accept, PeerLeaves, store
  <2>3. CASE End(c)
    <3>1. ~(astray \/ relayed' # relayed)
      BY <2>3, Zenon DEF End
    <3>2. relayed' = relayed /\ ~astray
      BY <3>1, Zenon
    <3>3. astray \in BOOLEAN /\ astray' \in BOOLEAN
      BY <1>1 DEF IInv, TypeInv
    <3> QED BY <2>1, <3>2, <3>3
  <2> QED BY <2>2, <2>3
<1>3. ASSUME NEW v \in Workers, OnItsWay(v) \/ OnItsWay(v)' PROVE job'[v] = job[v]
  <2>1. CASE Accept(c)
    <3>1. job[c].pc = "none" /\ job' = [job EXCEPT ![c].pc = "reading"] /\ c \in Workers
      BY <1>1, <2>1 DEF Accept, Fresh
    <3>2. job'[c].pc = "reading" /\ (v # c => job'[v] = job[v])
      BY <1>1, <3>1, Moves
    <3> QED BY <1>3, <3>1, <3>2 DEF OnItsWay
  <2>2. CASE PeerLeaves(c)
    BY <2>2 DEF PeerLeaves
  <2>3. CASE End(c)
    <3>1. job[c].pc = "reading" /\ job' = [job EXCEPT ![c].pc = "ended"] /\ c \in Workers
      BY <2>3 DEF End
    <3>2. job'[c].pc = "ended" /\ (v # c => job'[v] = job[v])
      BY <1>1, <3>1, Moves
    <3> QED BY <1>3, <3>1, <3>2 DEF OnItsWay
  <2> QED BY <2>1, <2>2, <2>3
<1>4. ASSUME NEW d \in Devices, wire'[d] = "open", Broadcasts(d)' # {}
      PROVE  /\ wire[d] = "open" /\ Broadcasts(d)' = Broadcasts(d)
             /\ \A i \in Broadcasts(d) : inbox'[d][i] = inbox[d][i]
  <2>1. Broadcasts(d)' = Broadcasts(d) /\ inbox[d] # <<>>
    BY <1>2, <1>4 DEF Broadcasts
  <2>2. wire[d] # "none"
    BY <1>1, <2>1 DEF Fresh
  <2>3. wire[d] = "open"
    BY <1>1, <1>4, <2>2 DEF Accept, PeerLeaves, End, TypeInv
  <2> QED BY <1>2, <2>1, <2>3
<1> QED BY <1>2, <1>3, <1>4, AsideInv

LEMMA HearAgrees ==
    ASSUME AInv, IInv', Fresh', NEW c \in Devices, HearOther(c) \/ HearProgress(c)
    PROVE  AInv'
<1> USE WorkerTypes
<1>1. TypeInv
  BY DEF AInv, IInv
<1>2. UNCHANGED <<entry, astray, todo, relayed, inbox, wire>> /\ job[c].pc = "reading"
  BY DEF HearOther, HearProgress, Hear
<1>3. job'[c].pc \in {"reply", "checked"} /\ \A v \in Workers : v # c => job'[v] = job[v]
  <2>1. CASE HearOther(c)
    <3>1. PICK j \in Jobs : j = Answering("other") /\ j.pc = "reply"
      BY JobTypes DEF Answering, Job
    <3> QED BY <1>1, <2>1, <3>1, Replaces DEF HearOther
  <2>2. CASE HearProgress(c)
    <3>1. PICK n \in Chapters, strategy \in Strategies, older, read \in BOOLEAN :
            job' = [job EXCEPT ![c] = IF read /\ Conflict(n, strategy, older)
                                        THEN Answering("conflict") ELSE Job("checked", n)]
      BY <2>2 DEF HearProgress
    <3>2. Answering("conflict").pc = "reply" /\ Job("checked", n).pc = "checked"
      BY DEF Answering, Job
    <3> QED BY <1>1, <3>1, <3>2 DEF TypeInv
  <2> QED BY <2>1, <2>2
<1>4. \A v \in Workers : OnItsWay(v) \/ OnItsWay(v)' => job'[v] = job[v]
  BY <1>2, <1>3 DEF OnItsWay
<1> QED BY <1>2, <1>4, SameBroadcasts, AsideInv

LEMMA RequestAgrees ==
    ASSUME AInv, IInv', Fresh', NEW p \in Requests,
           Request(p) \/ EditLibrary(p) \/ PublishFails(p)
    PROVE  AInv'
<1> USE WorkerTypes
<1>1. TypeInv
  BY DEF AInv, IInv
<1>2. CASE EditLibrary(p) \/ PublishFails(p)
  BY <1>2, AstrayInv DEF EditLibrary, PublishFails
<1>3. CASE Request(p)
  <2>1. UNCHANGED <<entry, astray, todo, relayed, inbox, wire>> /\ job[p].pc = "none"
    BY <1>3 DEF Request, store, net
  <2>2. job'[p].pc = "checked" /\ \A v \in Workers : v # p => job'[v] = job[v]
    <3>1. PICK n \in Chapters, force \in BOOLEAN :
            job' = [job EXCEPT ![p] = [Job("checked", n) EXCEPT !.force = force]]
      BY <1>3 DEF Request
    <3>2. [Job("checked", n) EXCEPT !.force = force].pc = "checked"
      BY DEF Job
    <3> QED BY <1>1, <3>1, <3>2 DEF TypeInv
  <2>3. \A v \in Workers : OnItsWay(v) \/ OnItsWay(v)' => job'[v] = job[v]
    BY <2>1, <2>2 DEF OnItsWay
  <2> QED BY <2>1, <2>3, SameBroadcasts, AsideInv
<1> QED BY <1>2, <1>3

\* An update is written while no other is on its way, or the two have overlapped.
LEMMA UpdateAgrees ==
    ASSUME AInv, IInv', Fresh', NEW w \in Workers, Update(w)
    PROVE  AInv'
<1>1. TypeInv
  BY DEF AInv, IInv
<1>2. CASE CheckProgress(w)
  <2>1. UNCHANGED <<entry, astray, todo, relayed, inbox, wire>> /\ job[w].pc = "checked"
    BY <1>2 DEF CheckProgress, store, net
  <2>2. job'[w].pc = "allowed" /\ \A v \in Workers : v # w => job'[v] = job[v]
    BY <1>1, <1>2, Moves DEF CheckProgress
  <2>3. \A v \in Workers : OnItsWay(v) \/ OnItsWay(v)' => job'[v] = job[v]
    BY <2>1, <2>2 DEF OnItsWay
  <2> QED BY <2>1, <2>3, SameBroadcasts, AsideInv
<1>3. CASE RefuseProgress(w)
  <2>1. UNCHANGED <<entry, astray, todo, relayed, inbox, wire>> /\ job[w].pc \in {"checked", "allowed"}
    BY <1>3 DEF RefuseProgress, store, net
  <2>2. PICK j \in Jobs : j = Failed(w) /\ j.pc \in {"ended", "reply"}
    BY FailedJob
  <2>3. job'[w].pc \in {"ended", "reply"} /\ \A v \in Workers : v # w => job'[v] = job[v]
    BY <1>1, <1>3, <2>2 DEF RefuseProgress, TypeInv
  <2>4. \A v \in Workers : OnItsWay(v) \/ OnItsWay(v)' => job'[v] = job[v]
    BY <2>1, <2>3 DEF OnItsWay
  <2> QED BY <2>1, <2>4, SameBroadcasts, AsideInv
<1>4. CASE WriteProgress(w)
  <2>1. /\ entry' = job[w].chapter /\ astray' = Overlaps(w)
        /\ UNCHANGED <<clients, wire, heard, todo, inbox, relayed>>
    BY <1>4 DEF WriteProgress, net
  <2>2. /\ job'[w].pc = "written" /\ job'[w].chapter = job[w].chapter
        /\ \A v \in Workers : v # w => job'[v] = job[v]
    BY <1>1, <1>4, Moves DEF WriteProgress
  <2> SUFFICES ASSUME ~astray' PROVE Single' /\ \A d \in Devices : Agrees(d)'
    BY DEF AInv
  <2>3. (\A r \in Relays : ~Waits(r)) /\ \A v \in Workers : v # w => ~OnItsWay(v)
    BY <2>1 DEF Overlaps
  <2>4. \A v \in Workers : OnItsWay(v)' => v = w
    BY <2>2, <2>3 DEF OnItsWay
  <2>5. Single'
    BY <2>1, <2>2, <2>3, <2>4 DEF Single, Waits
  <2>6. \A d \in Devices : Coming(d)'
    BY <2>2 DEF Coming
  <2> QED BY <2>5, <2>6 DEF Agrees
<1>5. CASE ReadBack(w)
  <2>1. UNCHANGED <<entry, astray, todo, relayed, inbox, wire>> /\ job[w].pc = "written"
    BY <1>5 DEF ReadBack, store, net
  <2>0. entry \in Chapters \cup {0}
    BY <1>1, <1>5 DEF ReadBack, TypeInv
  <2>2. PICK j \in Jobs : j = [job[w] EXCEPT !.pc = "publish", !.chapter = entry]
    BY <1>1, <2>0 DEF Jobs, TypeInv
  <2>3. j.pc = "publish" /\ j.chapter = entry /\ job' = [job EXCEPT ![w] = j]
    BY <1>1, <1>5, <2>2 DEF ReadBack, Jobs, TypeInv
  <2>4. job'[w] = j /\ \A v \in Workers : v # w => job'[v] = job[v]
    BY <1>1, <2>3, Replaces
  <2>5. \A v \in Workers : OnItsWay(v)' <=> OnItsWay(v)
    BY <2>1, <2>3, <2>4 DEF OnItsWay
  <2>6. ~astray => Single'
    BY <2>1, <2>3, <2>4, <2>5 DEF AInv, Single, OnItsWay, Waits
  <2>7. \A d : Coming(d)'
    BY <2>3, <2>4 DEF Coming
  <2> QED BY <2>1, <2>6, <2>7, OnwardInv
<1>6. CASE ReadBackFails(w)
  BY <1>6, AstrayInv DEF ReadBackFails
<1> QED BY <1>2, <1>3, <1>4, <1>5, <1>6 DEF Update

\* The snapshot holds every connected device, and each is written to.
LEMMA SnapshotAgrees ==
    ASSUME AInv, IInv', Fresh', NEW c \in Conns, Snapshot(c)
    PROVE  AInv'
<1> USE WorkerTypes
<1>1. TypeInv /\ ClientsInv
  BY DEF AInv, IInv
<1>2. /\ UNCHANGED <<entry, astray, relayed, inbox, wire>> /\ job[c].pc = "publish"
      /\ todo' = [todo EXCEPT ![c] = Registered]
  BY DEF Snapshot, store, net
<1>3. /\ job'[c].pc = "broadcast" /\ job'[c].chapter = job[c].chapter
      /\ \A v \in Workers : v # c => job'[v] = job[v]
  BY <1>1, Moves DEF Snapshot
<1>4. todo'[c] = Registered /\ \A b \in Conns : b # c => todo'[b] = todo[b]
  BY <1>1, <1>2 DEF TypeInv
<1>5. \A v \in Workers : OnItsWay(v)' <=> OnItsWay(v)
  BY <1>2, <1>3 DEF OnItsWay
<1>6. ~astray => Single'
  BY <1>2, <1>3, <1>5 DEF AInv, Single, OnItsWay, Waits
<1>7. ASSUME NEW d \in Devices, Sole(d), wire[d] = "open" PROVE Coming(d)'
  <2>1. AddrOf[d] \in Addrs /\ clients[AddrOf[d]] = d /\ d # None
    BY <1>1, <1>7, AddrAssumption, NoneAssumption DEF ClientsInv
  <2>2. d \in Registered
    BY <1>1, <2>1 DEF Registered, Range, TypeInv
  <2> QED BY <1>3, <1>4, <2>2 DEF Coming
<1> QED BY <1>2, <1>6, <1>7, OnwardInv

LEMMA BroadcastedAgrees ==
    ASSUME AInv, IInv', Fresh', NEW c \in Conns, Broadcasted(c)
    PROVE  AInv'
<1> USE WorkerTypes
<1>1. TypeInv
  BY DEF AInv, IInv
<1>2. /\ UNCHANGED <<entry, astray, relayed, inbox, wire, todo>> /\ job[c].pc = "broadcast"
      /\ todo[c] = {}
  BY DEF Broadcasted, store, net
<1>3. job'[c].pc = "reply" /\ \A v \in Workers : v # c => job'[v] = job[v]
  BY <1>1, Moves DEF Broadcasted
<1>4. \A v \in Workers : OnItsWay(v)' => OnItsWay(v) /\ job'[v] = job[v]
  BY <1>3 DEF OnItsWay
<1>5. ~astray => Single'
  BY <1>2, <1>4 DEF AInv, Single, Waits
<1>6. \A d : Coming(d) => Coming(d)'
  BY <1>2, <1>3 DEF Coming, Waits
<1> QED BY <1>2, <1>5, <1>6, OnwardInv

\* What is delivered to a connected device is the last that it has.
LEMMA DeliverKeeps ==
    ASSUME TypeInv, NEW d, NEW m \in Messages, Deliver(d, m), NEW e \in Devices
    PROVE  /\ ~(e = d /\ wire[e] = "open") \/ m.kind # "progress_broadcast"
                => /\ Broadcasts(e)' = Broadcasts(e)
                   /\ \A i \in Broadcasts(e) : inbox'[e][i] = inbox[e][i]
           /\ e = d /\ wire[e] = "open" /\ m.kind = "progress_broadcast"
                => LastIs(e, m.chapter)'
<1>1. /\ inbox'[e] \in Seq(Messages) /\ inbox[e] \in Seq(Messages) /\ Len(inbox[e]) \in Nat
      /\ ~(e = d /\ wire[e] = "open") => inbox'[e] = inbox[e]
      /\ e = d /\ wire[e] = "open" =>
           /\ Len(inbox'[e]) = Len(inbox[e]) + 1
           /\ inbox'[e][Len(inbox[e]) + 1] = m
           /\ \A i \in 1 .. Len(inbox[e]) : inbox'[e][i] = inbox[e][i]
  BY DeliverStep DEF TypeInv
<1>2. DOMAIN inbox[e] = 1 .. Len(inbox[e]) /\ DOMAIN inbox'[e] = 1 .. Len(inbox'[e])
  BY <1>1
<1>3. CASE ~(e = d /\ wire[e] = "open")
  BY <1>1, <1>3 DEF Broadcasts
<1>4. CASE e = d /\ wire[e] = "open" /\ m.kind # "progress_broadcast"
  <2>1. \A i \in DOMAIN inbox'[e] : inbox'[e][i].kind = "progress_broadcast" => i \in DOMAIN inbox[e]
    BY <1>1, <1>2, <1>4
  <2>2. \A i \in DOMAIN inbox[e] : i \in DOMAIN inbox'[e] /\ inbox'[e][i] = inbox[e][i]
    BY <1>1, <1>2, <1>4
  <2>3. Broadcasts(e)' = Broadcasts(e)
    BY <2>1, <2>2 DEF Broadcasts
  <2>4. \A i \in Broadcasts(e) : inbox'[e][i] = inbox[e][i]
    BY <2>2 DEF Broadcasts
  <2> QED BY <1>4, <2>3, <2>4
<1>5. CASE e = d /\ wire[e] = "open" /\ m.kind = "progress_broadcast"
  <2>1. PICK n \in Nat : n = Len(inbox[e]) + 1
    BY <1>1
  <2>2. DOMAIN inbox'[e] = 1 .. n /\ inbox'[e][n] = m
    BY <1>1, <1>2, <1>5, <2>1
  <2>3. n \in Broadcasts(e)' /\ \A k \in Broadcasts(e)' : k <= n
    BY <1>1, <1>5, <2>1, <2>2 DEF Broadcasts
  <2>4. LastIs(e, m.chapter)'
    BY <2>2, <2>3 DEF LastIs
  <2> QED BY <1>5, <2>4
<1> QED BY <1>3, <1>4, <1>5

LEMMA SendToAgrees ==
    ASSUME AInv, IInv', Fresh', NEW c \in Conns, NEW d \in Conns, SendTo(c, d)
    PROVE  AInv'
<1> USE WorkerTypes
<1>1. TypeInv /\ job[c] \in Jobs
  BY DEF AInv, IInv, TypeInv
<1>2. PICK m \in Messages : /\ m = Message("progress_broadcast", job[c].chapter)
                            /\ m.kind = "progress_broadcast" /\ m.chapter = job[c].chapter
  <2>1. job[c].chapter \in Chapters \cup {0}
    BY <1>1 DEF Jobs
  <2>2. Message("progress_broadcast", job[c].chapter) \in Messages
    BY <2>1, JobTypes DEF Kinds
  <2> QED BY <2>2 DEF Message
<1>3. /\ Deliver(d, m) /\ todo' = [todo EXCEPT ![c] = @ \ {d}] /\ job[c].pc = "broadcast"
      /\ UNCHANGED <<entry, astray, clients, wire, heard, relayed, job>>
  BY <1>2 DEF SendTo, store, net
<1>4. todo'[c] = todo[c] \ {d} /\ \A b \in Conns : b # c => todo'[b] = todo[b]
  BY <1>1, <1>3 DEF TypeInv
<1> SUFFICES ASSUME ~astray PROVE Single' /\ \A e \in Devices : Agrees(e)'
  BY <1>3 DEF AInv
<1>5. Single /\ \A e \in Devices : Agrees(e)
  BY DEF AInv
<1>6. Single'
  BY <1>3, <1>5 DEF Single, OnItsWay, Waits
<1>7. m.chapter = entry
  BY <1>2, <1>3, <1>5 DEF Single, OnItsWay
<1>8. ASSUME NEW e \in Devices, Sole(e), wire[e] = "open", Broadcasts(e)' # {}
      PROVE  LastIs(e, entry)' \/ Coming(e)'
  <2>1. CASE e = d
    <3>1. LastIs(e, m.chapter)'
      BY <1>1, <1>2, <1>3, <1>8, <2>1, DeliverKeeps
    <3> QED BY <1>3, <1>7, <3>1 DEF LastIs
  <2>2. CASE e # d
    <3>1. /\ Broadcasts(e)' = Broadcasts(e)
          /\ \A i \in Broadcasts(e) : inbox'[e][i] = inbox[e][i]
      BY <1>1, <1>3, <2>2, DeliverKeeps
    <3>2. LastIs(e, entry) \/ Coming(e)
      BY <1>5, <1>8, <3>1 DEF Agrees
    <3>3. LastIs(e, entry) => LastIs(e, entry)'
      BY <1>3, <3>1 DEF LastIs
    <3>4. Coming(e) => Coming(e)'
      BY <1>3, <1>4, <2>2 DEF Coming, Waits
    <3> QED BY <3>2, <3>3, <3>4
  <2> QED BY <2>1, <2>2
<1> QED BY <1>3, <1>6, <1>8 DEF Agrees

LEMMA ReplyAgrees ==
    ASSUME AInv, IInv', Fresh', NEW c \in Conns, Reply(c)
    PROVE  AInv'
<1> USE WorkerTypes
<1>1. TypeInv /\ job[c] \in Jobs
  BY DEF AInv, IInv, TypeInv
<1>2. PICK m \in Messages : m.kind # "progress_broadcast" /\ Deliver(c, m)
  <2>1. job[c].chapter \in Chapters \cup {0} /\ job[c].answer \in Kinds
        /\ job[c].answer # "progress_broadcast"
    BY <1>1 DEF Jobs, Kinds
  <2>2. Message(job[c].answer, job[c].chapter) \in Messages
    BY <2>1, JobTypes
  <2>3. Message(job[c].answer, job[c].chapter).kind = job[c].answer
    BY DEF Message
  <2> QED BY <2>1, <2>2, <2>3 DEF Reply
<1>3. UNCHANGED <<entry, astray, todo, relayed, wire>> /\ job[c].pc = "reply"
  BY DEF Reply, store, net
<1>4. job'[c].pc = "reading" /\ \A v \in Workers : v # c => job'[v] = job[v]
  <2>1. PICK j \in Jobs : j = Job("reading", 0) /\ j.pc = "reading"
    <3>1. Job("reading", 0) \in Jobs
      BY JobTypes
    <3>2. Job("reading", 0).pc = "reading"
      BY DEF Job
    <3> QED BY <3>1, <3>2
  <2> QED BY <1>1, <2>1, Replaces DEF Reply
<1>5. \A v \in Workers : OnItsWay(v) \/ OnItsWay(v)' => job'[v] = job[v]
  BY <1>3, <1>4 DEF OnItsWay
<1>6. \A d \in Devices : /\ Broadcasts(d)' = Broadcasts(d)
                         /\ \A i \in Broadcasts(d) : inbox'[d][i] = inbox[d][i]
  BY <1>1, <1>2, DeliverKeeps
<1> QED BY <1>3, <1>5, <1>6, AsideInv

\* An update passes from the request to the API's connection, alone, or is lost.
LEMMA PublishProgressAgrees ==
    ASSUME AInv, IInv', Fresh', NEW p \in Requests, PublishProgress(p)
    PROVE  AInv'
<1> USE WorkerTypes
<1> SUFFICES ASSUME ~astray' PROVE AInv'
  BY AstrayInv
<1>1. TypeInv /\ job[p] \in Jobs
  BY DEF AInv, IInv, TypeInv
<1>2. PICK b \in Relays : b = rb /\ wire[b] = "open"
  BY <1>1 DEF PublishProgress, TypeInv
<1>3. /\ UNCHANGED <<entry, astray, todo, inbox, wire>> /\ job[p].pc = "publish"
      /\ ~astray
  BY <1>1, <1>2 DEF PublishProgress, TypeInv
<1>4. job'[p].pc = "ended" /\ \A v \in Workers : v # p => job'[v] = job[v]
  BY <1>1, EndedJob, Replaces DEF PublishProgress
<1>5. PICK n \in Chapters \cup {0} : n = job[p].chapter
  BY <1>1 DEF Jobs
<1>6. PICK s \in Seq(Chapters \cup {0}) : s = relayed[b]
  BY <1>1 DEF TypeInv
<1>7. relayed'[b] = Append(s, n) /\ \A r \in Relays : r # b => relayed'[r] = relayed[r]
  BY <1>2, <1>5, <1>6 DEF PublishProgress
<1>8. /\ Len(Append(s, n)) = Len(s) + 1 /\ Append(s, n)[Len(s) + 1] = n
      /\ Len(s) \in Nat /\ Append(s, n) # <<>>
  BY AppendProperties, LenProperties, EmptySeq
<1>9. Waits(b)'
  BY <1>7, <1>8 DEF Waits
<1>10. Single'
  <2>1. Single
    BY <1>3 DEF AInv
  <2>2. OnItsWay(p) /\ \A v \in Workers : OnItsWay(v) => v = p
    BY <1>3, <2>1 DEF Single, OnItsWay
  <2>3. (\A r \in Relays : ~Waits(r)) /\ n = entry
    BY <1>5, <2>1, <2>2 DEF Single
  <2>4. \A v \in Workers : ~OnItsWay(v)'
    BY <1>4, <2>2 DEF OnItsWay
  <2>5. s = <<>> /\ \A r \in Relays : r # b => ~Waits(r)'
    BY <1>6, <1>7, <2>3 DEF Waits
  <2>6. Len(relayed'[b]) = 1 /\ relayed'[b][1] = entry
    BY <1>7, <1>8, <2>3, <2>5, EmptySeq
  <2> QED BY <1>3, <2>4, <2>5, <2>6 DEF Single
<1> QED BY <1>3, <1>9, <1>10, OnwardInv DEF Coming

LEMMA HearRelayAgrees ==
    ASSUME AInv, IInv', Fresh', NEW b \in Relays, HearRelay(b)
    PROVE  AInv'
<1> USE WorkerTypes
<1>1. TypeInv
  BY DEF AInv, IInv
<1>2. PICK s \in Seq(Chapters \cup {0}) : s = relayed[b] /\ s # <<>>
  BY <1>1 DEF HearRelay, Waits, TypeInv
<1>3. /\ UNCHANGED <<entry, astray, todo, inbox, wire>> /\ job[b].pc = "reading" /\ Waits(b)
      /\ relayed'[b] = Tail(s) /\ \A r \in Relays : r # b => relayed'[r] = relayed[r]
  BY <1>1, <1>2 DEF HearRelay, store, TypeInv
<1>4. /\ Len(s) \in Nat /\ Head(s) = s[1] /\ Head(s) \in Chapters \cup {0}
      /\ Tail(s) \in Seq(Chapters \cup {0}) /\ Len(Tail(s)) = Len(s) - 1
  BY <1>2, HeadTailProperties, LenProperties
<1>5. /\ job'[b].pc = "publish" /\ job'[b].chapter = Head(s)
      /\ \A v \in Workers : v # b => job'[v] = job[v]
  <2>1. Relaying(Head(s)).pc = "publish" /\ Relaying(Head(s)).chapter = Head(s)
    BY <1>4, RelayingJob
  <2> QED BY <1>1, <1>2, <2>1, Replaces DEF HearRelay
<1>6. ASSUME ~astray PROVE Single'
  <2>1. Single
    BY <1>6 DEF AInv
  <2>2. /\ Len(s) = 1 /\ s[1] = entry /\ \A v \in Workers : ~OnItsWay(v)
        /\ \A r \in Relays : r # b => ~Waits(r)
    BY <1>2, <1>3, <2>1 DEF Single
  <2>3. Tail(s) = <<>>
    <3>1. PICK t \in Seq(Chapters \cup {0}) : t = Tail(s)
      BY <1>4
    <3>2. Len(t) = 0
      BY <1>4, <2>2, <3>1
    <3> QED BY <3>1, <3>2, EmptySeq
  <2>4. \A r \in Relays : ~Waits(r)'
    BY <1>3, <2>2, <2>3 DEF Waits
  <2>5. \A v \in Workers : OnItsWay(v)' => v = b
    BY <1>5, <2>2 DEF OnItsWay
  <2> QED BY <1>3, <1>4, <1>5, <2>2, <2>4, <2>5 DEF Single
<1>7. \A d : Coming(d)'
  BY <1>5 DEF Coming
<1> QED BY <1>3, <1>6, <1>7, OnwardInv

LEMMA NextAgrees == AInv /\ [Next]_vars => AInv'
<1> SUFFICES ASSUME AInv, [Next]_vars PROVE AInv'
  OBVIOUS
<1> USE WorkerTypes
<1>1. IInv' /\ Fresh'
  BY NextInv, FreshInv DEF AInv
<1>2. ASSUME NEW c \in Conns, Accept(c) \/ PeerLeaves(c) PROVE AInv'
  BY <1>1, <1>2, ConnectionAgrees
<1>3. ASSUME NEW c \in Conns, Handle(c) PROVE AInv'
  BY <1>1, <1>3, ConnectionAgrees, UpdateAgrees, SnapshotAgrees, BroadcastedAgrees,
     ReplyAgrees, SendToAgrees
  DEF Handle
<1>4. ASSUME NEW c \in Devices, HearOther(c) \/ HearProgress(c) \/ HearBroadcast(c) PROVE AInv'
  BY <1>1, <1>4, HearAgrees, AstrayInv DEF HearBroadcast
<1>5. ASSUME NEW p \in Requests, \/ Request(p) \/ EditLibrary(p) \/ Update(p)
                                 \/ PublishProgress(p) \/ PublishFails(p)
      PROVE  AInv'
  BY <1>1, <1>5, RequestAgrees, UpdateAgrees, PublishProgressAgrees
<1>6. CASE UNCHANGED vars
  <2>1. UNCHANGED <<entry, astray, todo, relayed, wire, inbox, job>>
    BY <1>6 DEF vars
  <2> QED BY <1>1, <2>1, SameBroadcasts, AsideInv
<1> QED BY <1>1, <1>2, <1>3, <1>4, <1>5, <1>6, HearRelayAgrees DEF Next

\* Whoever broadcasts, in whatever order connections come and go and however often
\* the API dials again: once nothing is on its way, each connected device was last
\* shown what the library holds, if since the last update that was stored alone none
\* was lost, was made silently, overlapped it or was claimed by a device, and when
\* connections come from addresses of their own.
THEOREM DevicesAgree == ASSUME OwnAddresses PROVE Spec => []DevicesAgreeUnlessAstray
<1>1. Init => AInv
  <2> SUFFICES ASSUME Init PROVE AInv
    OBVIOUS
  <2>1. IInv
    BY InitInv
  <2>2. /\ \A w \in Workers : job[w].pc = "none"
        /\ \A d \in Devices : inbox[d] = <<>>
    BY DEF Init, Job
  <2>3. Fresh
    BY <2>2, WorkerTypes DEF Fresh
  <2>4. Single
    BY <2>2 DEF Init, Single, OnItsWay, Waits
  <2>5. \A d \in Devices : Agrees(d)
    BY WorkerTypes DEF Init, Agrees
  <2> QED BY <2>1, <2>3, <2>4, <2>5 DEF AInv
<1>2. AInv /\ [Next]_vars => AInv'
  BY NextAgrees
<1>3. AInv => DevicesAgreeUnlessAstray
  BY InvAgree
<1> QED BY <1>1, <1>2, <1>3, PTL DEF Spec

-----------------------------------------------------------------------------
(* The command of one terminal: where it may be, and what it has read.     *)

LineKinds == {"hello_ack", "error", "pong", "health_ok", "ack", "progress_broadcast", "torn"}
LineSet == [kind: LineKinds, n: Nat]
DeviceMessages == {"hello", "hello of nobody", "ping", "health", "disconnect"}

DeviceShapes ==
    /\ command \in [Terminals -> {Nothing, "connect", "monitor", "disconnect", "check"}]
    /\ stage \in [Terminals -> {"off", "hello", "saving", "unsaved", "ping", "counting",
                                "deaf", "printing", "checking", "closing", "ended"}]
    /\ link \in [Terminals -> {"none", "open", "down", "closed"}]
    /\ verdict \in [Terminals -> {Nothing, "refused", "healthy", "doubtful", "timeout"}]
    /\ asked \in [Terminals -> Seq(DeviceMessages)]
    /\ stream \in [Terminals -> Seq(LineSet)] /\ ahead \in [Terminals -> Seq(LineSet)]
    /\ half \in [Terminals -> BOOLEAN]
    /\ shown \in [Terminals -> Seq(Nat)]
    /\ counted \in [Terminals -> Nat] /\ told \in [Terminals -> Nat]
    /\ sent \in [Terminals -> Nat] /\ lost \in [Terminals -> Nat]

Before(t) ==
    /\ link[t] = "none" /\ asked[t] = <<>> /\ stream[t] = <<>> /\ ahead[t] = <<>>
    /\ verdict[t] = Nothing /\ shown[t] = <<>>
    /\ counted[t] = 0 /\ told[t] = 0 /\ sent[t] = 0 /\ lost[t] = 0
    /\ t \notin early /\ t \notin granted

Running == {"hello", "saving", "unsaved", "ping", "counting", "deaf", "printing",
            "checking", "closing"}

Placed(t) ==
    /\ command[t] = Nothing => stage[t] = "off" /\ Before(t)
    /\ stage[t] = "off" => command[t] = Nothing
    /\ stage[t] = "hello" => command[t] \in {"connect", "monitor"}
    /\ stage[t] \in {"saving", "unsaved", "ping", "counting", "deaf"} =>
        command[t] = "connect"
    /\ stage[t] = "printing" => command[t] = "monitor"
    /\ stage[t] = "checking" => command[t] = "check"
    /\ stage[t] = "closing" => command[t] = "disconnect"
    /\ stage[t] \in Running <=> link[t] = "open" \/ (link[t] = "down" /\ stage[t] # "ended")
    /\ half[t] => stream[t] # <<>>

\* Who has a hello_ack before it, or was taken for connected, was granted it.
Acked(t) ==
    /\ \A i \in DOMAIN Lines(t) : Lines(t)[i].kind = "hello_ack" => t \in granted
    /\ stage[t] = "saving" => t \in granted

\* Until it has read anything, a command has before it all it was sent: the
\* answer to its one message, and the broadcasts.
Unread(t) ==
    link[t] = "open" /\ stage[t] \in {"hello", "checking"} =>
        /\ Len(Lines(t)) = sent[t] /\ counted[t] = 0 /\ lost[t] = 0 /\ shown[t] = <<>>
        /\ asked[t] = <<>> \/ \E m \in DeviceMessages : asked[t] = <<m>>
        /\ command[t] = "check" =>
            t \notin granted /\ \A i \in DOMAIN asked[t] : asked[t][i] = "health"
        /\ command[t] = "monitor" => \A i \in DOMAIN asked[t] : asked[t][i] = "hello"
        /\ t \in granted => asked[t] = <<>> /\ Lines(t) # <<>>
        /\ t \notin early /\ Lines(t) # <<>> =>
            /\ asked[t] = <<>> /\ Lines(t)[1].kind # "progress_broadcast"
            /\ t \in granted => Lines(t)[1].kind = "hello_ack"
            /\ command[t] = "check" => Lines(t)[1].kind = "health_ok"

\* Every line is counted, before the command or lost.
Accounted(t) ==
    link[t] = "open" =>
        /\ stage[t] \in {"saving", "unsaved"} =>
            counted[t] = 0 /\ lost[t] + Len(Lines(t)) + 1 = sent[t]
        /\ stage[t] \in {"ping", "counting"} =>
            counted[t] + lost[t] + Len(Lines(t)) = sent[t]

\* Where nothing was broadcast, sync connect gets the answers it asks for.
Undisturbed(t) ==
    link[t] = "open" /\ told[t] = 0 =>
        /\ stage[t] = "hello" => Len(Lines(t)) + Len(asked[t]) = 1
        /\ stage[t] \in {"saving", "unsaved"} => asked[t] = <<>> /\ Lines(t) = <<>>
        /\ stage[t] = "ping" =>
            \/ asked[t] = <<"ping">> /\ Lines(t) = <<>>
            \/ asked[t] = <<>> /\ Len(Lines(t)) = 1 /\ Lines(t)[1].kind = "pong"

\* What was printed is in order and comes before the updates that wait, which are
\* in order too; together they are all that there were, but for the first f.
UpdatesIn(ls) == {i \in DOMAIN ls : ls[i].kind = "progress_broadcast"}
InOrder(sh, ls, n, f) ==
    /\ \A i \in DOMAIN sh : sh[i] \in 1 .. n
    /\ \A i \in UpdatesIn(ls) : ls[i].n \in 1 .. n
    /\ \A i, k \in DOMAIN sh : i < k => sh[i] < sh[k]
    /\ \A i, k \in UpdatesIn(ls) : i < k => ls[i].n < ls[k].n
    /\ \A i \in DOMAIN sh, k \in UpdatesIn(ls) : sh[i] < ls[k].n
    /\ \A m \in 1 .. n :
        (\E i \in DOMAIN sh : sh[i] = m) \/ (\E k \in UpdatesIn(ls) : ls[k].n = m) \/ m <= f

Printed(t) ==
    link[t] = "open" /\ command[t] = "monitor" =>
        InOrder(shown[t], Lines(t), told[t],
                IF t \in early /\ stage[t] = "printing" THEN 1 ELSE 0)

\* The two conjuncts of RefusalsHaveCause.
Caused(t) ==
    /\ verdict[t] = "refused" =>
        /\ stage[t] = "ended"
        /\ \/ link[t] \in {"none", "down"} \/ t \in early
           \/ command[t] = "connect" /\ t \notin granted
    /\ verdict[t] = "doubtful" => link[t] = "down" \/ told[t] > 0

Sound(t) ==
    /\ Placed(t) /\ Acked(t) /\ Unread(t) /\ Accounted(t)
    /\ Undisturbed(t) /\ Printed(t) /\ Caused(t)

\* The file names nobody who was not granted a session.
FileGranted == file \in granted \cup {Nothing, "torn"}

DeviceInv == DeviceShapes /\ FileGranted /\ \A t \in Terminals : Sound(t)

-----------------------------------------------------------------------------
(* Sequences of lines.                                                     *)

\* A read moves lines from the socket to the buffer; together they are the same.
LEMMA SplitLines ==
    ASSUME NEW S, NEW s \in Seq(S), NEW k \in 0 .. Len(s)
    PROVE  /\ SubSeq(s, 1, k) \in Seq(S) /\ SubSeq(s, k + 1, Len(s)) \in Seq(S)
           /\ Len(SubSeq(s, k + 1, Len(s))) = Len(s) - k
           /\ SubSeq(s, 1, k) \o SubSeq(s, k + 1, Len(s)) = s
<1> DEFINE a == SubSeq(s, 1, k)
           b == SubSeq(s, k + 1, Len(s))
<1>1. /\ a \in Seq(S) /\ Len(a) = k /\ \A i \in 1 .. k : a[i] = s[i]
      /\ b \in Seq(S) /\ Len(b) = Len(s) - k /\ \A i \in 1 .. Len(s) - k : b[i] = s[k + i]
  OBVIOUS
<1> HIDE DEF a, b
<1>2. /\ a \o b \in Seq(S) /\ Len(a \o b) = Len(s)
      /\ \A i \in 1 .. Len(s) : (a \o b)[i] = IF i <= k THEN a[i] ELSE b[i - k]
  BY <1>1
<1>3. ASSUME NEW i \in 1 .. Len(s) PROVE (a \o b)[i] = s[i]
  <2>1. CASE i <= k
    BY <1>1, <1>2, <2>1
  <2>2. CASE i > k
    <3>1. i - k \in 1 .. Len(s) - k /\ k + (i - k) = i
      BY <2>2
    <3> QED BY <1>1, <1>2, <2>2, <3>1
  <2>3. i <= k \/ i > k
    OBVIOUS
  <2> QED BY <2>1, <2>2, <2>3
<1>4. a \o b = s
  BY <1>2, <1>3, SeqEqual
<1> QED BY <1>1, <1>4 DEF a, b

LEMMA TakeLine ==
    ASSUME NEW S, NEW a \in Seq(S), NEW b \in Seq(S), a # <<>>
    PROVE  /\ Tail(a) \in Seq(S) /\ Head(a) \in S /\ a \o b # <<>>
           /\ Head(a) = (a \o b)[1] /\ Len(Tail(a) \o b) = Len(a \o b) - 1
           /\ \A i \in DOMAIN (Tail(a) \o b) :
                i + 1 \in DOMAIN (a \o b) /\ (Tail(a) \o b)[i] = (a \o b)[i + 1]
<1>1. /\ Tail(a) \in Seq(S) /\ Head(a) \in S /\ Len(Tail(a)) = Len(a) - 1 /\ Len(a) \in Nat \ {0}
      /\ Head(a) = a[1] /\ \A i \in 1 .. Len(a) - 1 : Tail(a)[i] = a[i + 1]
  OBVIOUS
<1>2. PICK r \in Seq(S) : r = Tail(a)
  BY <1>1
<1>3. /\ a \o b \in Seq(S) /\ Len(a \o b) = Len(a) + Len(b)
      /\ \A i \in 1 .. Len(a) + Len(b) : (a \o b)[i] = IF i <= Len(a) THEN a[i] ELSE b[i - Len(a)]
  OBVIOUS
<1>4. /\ r \o b \in Seq(S) /\ Len(r \o b) = Len(r) + Len(b)
      /\ \A i \in 1 .. Len(r) + Len(b) : (r \o b)[i] = IF i <= Len(r) THEN r[i] ELSE b[i - Len(r)]
  OBVIOUS
<1>5. a \o b # <<>> /\ Head(a) = (a \o b)[1] /\ Len(r \o b) = Len(a \o b) - 1
  BY <1>1, <1>2, <1>3, <1>4
<1>6. ASSUME NEW i \in DOMAIN (r \o b)
      PROVE  i + 1 \in DOMAIN (a \o b) /\ (r \o b)[i] = (a \o b)[i + 1]
  <2>1. i \in 1 .. Len(a) + Len(b) - 1 /\ i + 1 \in 1 .. Len(a) + Len(b)
    BY <1>1, <1>2, <1>4
  <2>2. CASE i <= Len(a) - 1
    BY <1>1, <1>2, <1>3, <1>4, <2>1, <2>2
  <2>3. CASE i > Len(a) - 1
    <3>1. i - Len(r) = (i + 1) - Len(a)
      BY <1>1, <1>2
    <3> QED BY <1>1, <1>2, <1>3, <1>4, <2>1, <2>3, <3>1
  <2> QED BY <2>2, <2>3
<1> QED BY <1>1, <1>2, <1>5, <1>6

LEMMA AddLine ==
    ASSUME NEW S, NEW a \in Seq(S), NEW b \in Seq(S), NEW x \in S
    PROVE  /\ Append(b, x) \in Seq(S)
           /\ a \o Append(b, x) = Append(a \o b, x)
           /\ a \o b \in Seq(S) /\ Len(a \o b) = Len(a) + Len(b)
<1>1. Append(b, x) \in Seq(S) /\ <<x>> \in Seq(S)
  OBVIOUS
<1>2. a \o b \in Seq(S) /\ Len(a \o b) = Len(a) + Len(b)
  BY ConcatProperties
<1>3. Append(b, x) = b \o <<x>> /\ Append(a \o b, x) = (a \o b) \o <<x>>
  BY <1>2, AppendIsConcat
<1>4. (a \o b) \o <<x>> = a \o (b \o <<x>>)
  BY <1>1, ConcatAssociative
<1> QED BY <1>1, <1>2, <1>3, <1>4

-----------------------------------------------------------------------------
(* Updates in their order.                                                 *)

LEMMA AppendedLine ==
    ASSUME NEW ls \in Seq(LineSet), NEW x \in LineSet
    PROVE  /\ Append(ls, x) \in Seq(LineSet) /\ Len(Append(ls, x)) = Len(ls) + 1
           /\ Append(ls, x)[Len(ls) + 1] = x
           /\ \A i \in DOMAIN ls : i \in DOMAIN Append(ls, x) /\ Append(ls, x)[i] = ls[i]
           /\ \A i \in DOMAIN Append(ls, x) : i \in DOMAIN ls \/ i = Len(ls) + 1
           /\ \A i \in DOMAIN ls : i < Len(ls) + 1
OBVIOUS

LEMMA OrderNothing == InOrder(<<>>, <<>>, 0, 0)
<1>1. UpdatesIn(<<>>) = {} /\ 1 .. 0 = {} /\ DOMAIN <<>> = {}
  BY DEF UpdatesIn
<1> QED BY <1>1 DEF InOrder

LEMMA OrderAnswer ==
    ASSUME NEW sh, NEW ls \in Seq(LineSet), NEW n, NEW f, NEW x \in LineSet,
           InOrder(sh, ls, n, f), x.kind # "progress_broadcast"
    PROVE  InOrder(sh, Append(ls, x), n, f)
<1>1. PICK ms \in Seq(LineSet) : ms = Append(ls, x)
  BY AppendedLine
<1>2. UpdatesIn(ms) = UpdatesIn(ls) /\ \A i \in UpdatesIn(ls) : ms[i] = ls[i]
  <2>1. /\ \A i \in DOMAIN ls : i \in DOMAIN ms /\ ms[i] = ls[i]
        /\ \A i \in DOMAIN ms : i \in DOMAIN ls \/ ms[i] = x
    BY <1>1, AppendedLine
  <2> QED BY <2>1 DEF UpdatesIn
<1>3. InOrder(sh, ms, n, f)
  BY <1>2 DEF InOrder
<1> QED BY <1>1, <1>3

LEMMA OrderBroadcast ==
    ASSUME NEW sh, NEW ls \in Seq(LineSet), NEW n \in Nat, NEW f, NEW x \in LineSet,
           InOrder(sh, ls, n, f), x.kind = "progress_broadcast", x.n = n + 1
    PROVE  InOrder(sh, Append(ls, x), n + 1, f)
<1>1. PICK ms \in Seq(LineSet) : ms = Append(ls, x)
  BY AppendedLine
<1>2. PICK last \in Nat : last = Len(ls) + 1
  OBVIOUS
<1>3. /\ UpdatesIn(ms) = UpdatesIn(ls) \cup {last} /\ ms[last].n = n + 1
      /\ \A i \in UpdatesIn(ls) : ms[i] = ls[i] /\ i \in Nat /\ i < last
  <2>1. /\ \A i \in DOMAIN ls : i \in DOMAIN ms /\ ms[i] = ls[i] /\ i < last /\ i \in Nat
        /\ \A i \in DOMAIN ms : i \in DOMAIN ls \/ i = last
        /\ ms[last] = x /\ last \in DOMAIN ms
    BY <1>1, <1>2, AppendedLine
  <2> QED BY <2>1 DEF UpdatesIn
<1>4. \A i \in DOMAIN sh : sh[i] \in 1 .. n
  BY DEF InOrder
<1>5. \A i \in UpdatesIn(ls) : ls[i].n \in 1 .. n
  BY DEF InOrder
<1>6. \A i \in UpdatesIn(ms) : ms[i].n \in 1 .. n + 1
  BY <1>3, <1>5
<1>7. \A i, k \in UpdatesIn(ms) : i < k => ms[i].n < ms[k].n
  <2> SUFFICES ASSUME NEW i \in UpdatesIn(ms), NEW k \in UpdatesIn(ms), i < k
               PROVE  ms[i].n < ms[k].n
    OBVIOUS
  <2>1. i \in UpdatesIn(ls)
    BY <1>2, <1>3
  <2>2. CASE k = last
    <3>1. ms[i].n \in 1 .. n
      BY <1>3, <1>5, <2>1
    <3>2. ms[k].n = n + 1
      BY <1>3, <2>2
    <3> QED BY <3>1, <3>2
  <2>3. CASE k \in UpdatesIn(ls)
    BY <1>3, <2>1, <2>3 DEF InOrder
  <2> QED BY <1>3, <2>2, <2>3
<1>8. \A i \in DOMAIN sh, k \in UpdatesIn(ms) : sh[i] < ms[k].n
  <2> SUFFICES ASSUME NEW i \in DOMAIN sh, NEW k \in UpdatesIn(ms) PROVE sh[i] < ms[k].n
    OBVIOUS
  <2>1. CASE k = last
    BY <1>3, <1>4, <2>1
  <2>2. CASE k \in UpdatesIn(ls)
    BY <1>3, <2>2 DEF InOrder
  <2> QED BY <1>3, <2>1, <2>2
<1>9. ASSUME NEW m \in 1 .. n + 1
      PROVE  (\E i \in DOMAIN sh : sh[i] = m) \/ (\E k \in UpdatesIn(ms) : ms[k].n = m) \/ m <= f
  <2>1. CASE m = n + 1
    BY <1>3, <2>1
  <2>2. CASE m \in 1 .. n
    BY <1>3, <2>2 DEF InOrder
  <2> QED BY <2>1, <2>2
<1>10. \A i \in DOMAIN sh : sh[i] \in 1 .. n + 1
  BY <1>4
<1>11. \A i, k \in DOMAIN sh : i < k => sh[i] < sh[k]
  BY DEF InOrder
<1>12. InOrder(sh, ms, n + 1, f)
  BY <1>6, <1>7, <1>8, <1>9, <1>10, <1>11 DEF InOrder
<1> QED BY <1>1, <1>12

\* The first line goes; the rest moves up by one.
LEMMA OrderTake ==
    ASSUME NEW sh \in Seq(Nat), NEW ls \in Seq(LineSet), ls # <<>>, NEW n, NEW f,
           NEW rest \in Seq(LineSet), Len(rest) = Len(ls) - 1,
           \A i \in DOMAIN rest : i + 1 \in DOMAIN ls /\ rest[i] = ls[i + 1],
           InOrder(sh, ls, n, f)
    PROVE  InOrder(IF ls[1].kind = "progress_broadcast" THEN Append(sh, ls[1].n) ELSE sh,
                   rest, n, f)
<1>1. \A i \in UpdatesIn(rest) : i \in Nat /\ i + 1 \in UpdatesIn(ls) /\ rest[i] = ls[i + 1] /\ 1 < i + 1
  BY DEF UpdatesIn
<1>2. ASSUME NEW k \in UpdatesIn(ls), k # 1 PROVE k - 1 \in UpdatesIn(rest) /\ rest[k - 1] = ls[k]
  <2>1. k - 1 \in DOMAIN rest /\ (k - 1) + 1 = k
    BY <1>2 DEF UpdatesIn
  <2>2. rest[k - 1] = ls[k]
    BY <2>1
  <2> QED BY <2>1, <2>2 DEF UpdatesIn
<1>3. /\ \A i \in UpdatesIn(rest) : rest[i].n \in 1 .. n
      /\ \A i, k \in UpdatesIn(rest) : i < k => rest[i].n < rest[k].n
      /\ \A i \in DOMAIN sh, k \in UpdatesIn(rest) : sh[i] < rest[k].n
  <2>1. \A i \in UpdatesIn(rest) : rest[i].n \in 1 .. n
    BY <1>1 DEF InOrder
  <2>2. ASSUME NEW i \in UpdatesIn(rest), NEW k \in UpdatesIn(rest), i < k
        PROVE  rest[i].n < rest[k].n
    <3>1. i + 1 < k + 1
      BY <1>1, <2>2
    <3> QED BY <1>1, <3>1 DEF InOrder
  <2>3. \A i \in DOMAIN sh, k \in UpdatesIn(rest) : sh[i] < rest[k].n
    BY <1>1 DEF InOrder
  <2> QED BY <2>1, <2>2, <2>3
<1>4. CASE ls[1].kind # "progress_broadcast"
  <2>1. 1 \notin UpdatesIn(ls)
    BY <1>4 DEF UpdatesIn
  <2>2. \A m \in 1 .. n : (\E i \in DOMAIN sh : sh[i] = m)
                          \/ (\E k \in UpdatesIn(rest) : rest[k].n = m) \/ m <= f
    BY <1>2, <2>1 DEF InOrder
  <2>3. InOrder(sh, rest, n, f)
    BY <1>3, <2>2 DEF InOrder
  <2> QED BY <1>4, <2>3
<1>5. CASE ls[1].kind = "progress_broadcast"
  <2>1. 1 \in UpdatesIn(ls)
    BY <1>5 DEF UpdatesIn
  <2>2. PICK new \in Nat : new = ls[1].n /\ new \in 1 .. n
    <3>1. ls[1].n \in 1 .. n
      BY <2>1 DEF InOrder
    <3>2. ls[1] \in LineSet
      OBVIOUS
    <3> QED BY <3>1, <3>2 DEF LineSet
  <2>3. PICK ts \in Seq(Nat) : ts = Append(sh, new)
    <3>1. Append(sh, new) \in Seq(Nat)
      OBVIOUS
    <3> QED BY <3>1
  <2>4. PICK last \in Nat : last = Len(sh) + 1
    OBVIOUS
  <2>5. /\ DOMAIN ts = DOMAIN sh \cup {last} /\ ts[last] = new
        /\ \A i \in DOMAIN sh : ts[i] = sh[i] /\ i \in Nat /\ i < last
    BY <2>3, <2>4
  <2>6. \A i \in DOMAIN ts : ts[i] \in 1 .. n
    BY <2>2, <2>5 DEF InOrder
  <2>7. ASSUME NEW i \in DOMAIN ts, NEW k \in DOMAIN ts, i < k PROVE ts[i] < ts[k]
    <3>1. i \in DOMAIN sh
      BY <2>4, <2>5, <2>7
    <3>2. CASE k = last
      BY <2>1, <2>2, <2>5, <3>1, <3>2 DEF InOrder
    <3>3. CASE k \in DOMAIN sh
      BY <2>5, <2>7, <3>1, <3>3 DEF InOrder
    <3> QED BY <2>5, <3>2, <3>3
  <2>8. ASSUME NEW i \in DOMAIN ts, NEW k \in UpdatesIn(rest) PROVE ts[i] < rest[k].n
    <3>1. CASE i = last
      <4>1. ls[1].n < ls[k + 1].n
        BY <1>1, <2>1 DEF InOrder
      <4> QED BY <1>1, <2>2, <2>5, <3>1, <4>1
    <3>2. CASE i \in DOMAIN sh
      BY <1>3, <2>5, <3>2
    <3> QED BY <2>5, <3>1, <3>2
  <2>9. ASSUME NEW m \in 1 .. n
        PROVE  (\E i \in DOMAIN ts : ts[i] = m) \/ (\E k \in UpdatesIn(rest) : rest[k].n = m) \/ m <= f
    <3>1. CASE \E i \in DOMAIN sh : sh[i] = m
      BY <2>5, <3>1
    <3>2. ASSUME NEW k \in UpdatesIn(ls), ls[k].n = m
          PROVE  (\E i \in DOMAIN ts : ts[i] = m) \/ (\E j \in UpdatesIn(rest) : rest[j].n = m)
      BY <1>2, <2>2, <2>5, <3>2
    <3> QED BY <3>1, <3>2 DEF InOrder
  <2>10. InOrder(ts, rest, n, f)
    BY <1>3, <2>6, <2>7, <2>8, <2>9 DEF InOrder
  <2> QED BY <1>5, <2>2, <2>3, <2>10
<1> QED BY <1>4, <1>5

\* Where nothing was printed and the first line is an update, it is the first of
\* all, and all but the first are still to be printed.
LEMMA OrderSkip ==
    ASSUME NEW ls \in Seq(LineSet), ls # <<>>, NEW n \in Nat, NEW f \in {0, 1},
           NEW rest \in Seq(LineSet), Len(rest) = Len(ls) - 1,
           \A i \in DOMAIN rest : i + 1 \in DOMAIN ls /\ rest[i] = ls[i + 1],
           InOrder(<<>>, ls, n, 0), ls[1].kind = "progress_broadcast" => f = 1
    PROVE  InOrder(<<>>, rest, n, f)
<1>1. \A i \in UpdatesIn(rest) : i \in Nat /\ i + 1 \in UpdatesIn(ls) /\ rest[i] = ls[i + 1]
  BY DEF UpdatesIn
<1>2. ASSUME NEW k \in UpdatesIn(ls), k # 1 PROVE k - 1 \in UpdatesIn(rest) /\ rest[k - 1] = ls[k]
  <2>1. k - 1 \in DOMAIN rest /\ (k - 1) + 1 = k
    BY <1>2 DEF UpdatesIn
  <2>2. rest[k - 1] = ls[k]
    BY <2>1
  <2> QED BY <2>1, <2>2 DEF UpdatesIn
<1>3. \A i \in UpdatesIn(rest) : rest[i].n \in 1 .. n
  BY <1>1 DEF InOrder
<1>4. ASSUME NEW i \in UpdatesIn(rest), NEW k \in UpdatesIn(rest), i < k
      PROVE  rest[i].n < rest[k].n
  <2>1. i + 1 < k + 1
    BY <1>1, <1>4
  <2> QED BY <1>1, <2>1 DEF InOrder
<1>5. ASSUME NEW m \in 1 .. n PROVE (\E k \in UpdatesIn(rest) : rest[k].n = m) \/ m <= f
  <2>1. PICK k \in UpdatesIn(ls) : ls[k].n = m
    BY DEF InOrder
  <2>2. CASE k # 1
    BY <1>2, <2>1, <2>2
  <2>3. CASE k = 1
    <3>1. f = 1
      BY <2>1, <2>3 DEF UpdatesIn
    <3>2. PICK j \in UpdatesIn(ls) : ls[j].n = 1
      <4>1. 1 \in 1 .. n
        OBVIOUS
      <4> QED BY <4>1 DEF InOrder
    <3>3. CASE j = 1
      BY <2>1, <2>3, <3>1, <3>2, <3>3
    <3>4. CASE j # 1
      <4>1. 1 < j
        BY <3>4 DEF UpdatesIn
      <4>2. ls[1].n < ls[j].n
        BY <2>3, <4>1 DEF InOrder
      <4> QED BY <2>1, <2>3, <3>2, <4>2
    <3> QED BY <3>3, <3>4
  <2> QED BY <2>2, <2>3
<1> QED BY <1>3, <1>4, <1>5 DEF InOrder

-----------------------------------------------------------------------------
(* An action of one terminal leaves the others as they were.               *)

Same(u) ==
    /\ command'[u] = command[u] /\ stage'[u] = stage[u] /\ link'[u] = link[u]
    /\ asked'[u] = asked[u] /\ stream'[u] = stream[u] /\ half'[u] = half[u]
    /\ ahead'[u] = ahead[u] /\ verdict'[u] = verdict[u] /\ counted'[u] = counted[u]
    /\ shown'[u] = shown[u] /\ told'[u] = told[u] /\ sent'[u] = sent[u]
    /\ lost'[u] = lost[u]
    /\ u \in early' <=> u \in early
    /\ u \in granted' <=> u \in granted

LEMMA SameSound ==
    ASSUME NEW u, Sound(u), Same(u)
    PROVE  Sound(u)'
<1>1. Lines(u)' = Lines(u)
  BY DEF Same, Lines
<1>2. Placed(u)'
  BY DEF Same, Sound, Placed, Before
<1>3. Acked(u)'
  BY <1>1 DEF Same, Sound, Acked
<1>4. Unread(u)'
  BY <1>1 DEF Same, Sound, Unread
<1>5. Accounted(u)'
  BY <1>1 DEF Same, Sound, Accounted
<1>6. Undisturbed(u)'
  BY <1>1 DEF Same, Sound, Undisturbed
<1>7. Printed(u)'
  BY <1>1 DEF Same, Sound, Printed
<1>8. Caused(u)'
  BY DEF Same, Sound, Caused
<1> QED BY <1>2, <1>3, <1>4, <1>5, <1>6, <1>7, <1>8 DEF Sound

LEMMA OneTerminal ==
    ASSUME DeviceInv, NEW t \in Terminals, DeviceShapes', FileGranted', Sound(t)',
           \A u \in Terminals : u # t => Same(u)
    PROVE  DeviceInv'
<1>1. ASSUME NEW u \in Terminals PROVE Sound(u)'
  <2>1. CASE u = t
    BY <2>1
  <2>2. CASE u # t
    BY <2>2, SameSound DEF DeviceInv
  <2> QED BY <2>1, <2>2
<1> QED BY <1>1 DEF DeviceInv

LEMMA EndCommandStep ==
    ASSUME DeviceInv, NEW t \in Terminals, NEW what, EndCommand(t, what),
           what \in {Nothing, "refused", "healthy", "doubtful", "timeout"},
           stage[t] \in Running,
           what = "refused" => \/ link[t] = "down" \/ t \in early
                               \/ command[t] = "connect" /\ t \notin granted,
           what = "doubtful" => link[t] = "down" \/ told[t] > 0
    PROVE  DeviceInv'
<1>1. DeviceShapes /\ Sound(t) /\ FileGranted
  BY DEF DeviceInv
<1>2. DeviceShapes'
  BY <1>1 DEF DeviceShapes, EndCommand
<1>3. FileGranted'
  BY <1>1 DEF FileGranted, EndCommand
<1>4. \A u \in Terminals : u # t => Same(u)
  BY <1>1 DEF DeviceShapes, EndCommand, Same
<1>5. /\ stage'[t] = "ended" /\ verdict'[t] = what /\ ahead'[t] = <<>> /\ stream'[t] = <<>>
      /\ link'[t] = IF link[t] = "open" THEN "closed" ELSE link[t]
      /\ half'[t] = FALSE
      /\ UNCHANGED <<command, told, early, granted>>
  BY <1>1 DEF DeviceShapes, EndCommand
<1>6. link'[t] # "open"
  BY <1>5
<1>7. command[t] # Nothing
  BY <1>1 DEF Sound, Placed, Running
<1>8. Placed(t)'
  BY <1>5, <1>6, <1>7 DEF Placed, Running
<1>9. Acked(t)'
  <2>1. Lines(t)' = <<>>
    BY <1>5 DEF Lines
  <2> QED BY <1>5, <2>1 DEF Acked
<1>10. Unread(t)' /\ Accounted(t)' /\ Undisturbed(t)' /\ Printed(t)'
  BY <1>6 DEF Unread, Accounted, Undisturbed, Printed
<1>11. Caused(t)'
  BY <1>5 DEF Caused
<1> QED BY <1>2, <1>3, <1>4, <1>8, <1>9, <1>10, <1>11, OneTerminal DEF Sound

Opening(what, next, messages) ==
    \/ what = "connect" /\ next = "hello" /\ messages = <<"hello">>
    \/ what = "connect" /\ next = "hello" /\ messages = <<"hello of nobody">>
    \/ what = "monitor" /\ next = "hello" /\ messages = <<"hello">>
    \/ what = "disconnect" /\ next = "closing" /\ messages = <<"hello", "disconnect">>
    \/ what = "check" /\ next = "checking" /\ messages = <<"health">>

LEMMA OpeningMessages ==
    ASSUME NEW what, NEW next, NEW messages, Opening(what, next, messages)
    PROVE  /\ messages \in Seq(DeviceMessages)
           /\ next \in {"hello", "checking"} =>
                /\ \E m \in DeviceMessages : messages = <<m>>
                /\ Len(messages) = 1
                /\ what = "check" => \A i \in DOMAIN messages : messages[i] = "health"
                /\ what = "monitor" => \A i \in DOMAIN messages : messages[i] = "hello"
<1>1. CASE what = "connect" /\ next = "hello" /\ messages = <<"hello">>
  BY <1>1 DEF DeviceMessages
<1>2. CASE what = "connect" /\ next = "hello" /\ messages = <<"hello of nobody">>
  <2>1. PICK m \in DeviceMessages : messages = <<m>>
    BY <1>2 DEF DeviceMessages
  <2>2. messages \in Seq(DeviceMessages) /\ Len(messages) = 1
    BY <2>1
  <2> QED BY <1>2, <2>1, <2>2
<1>3. CASE what = "monitor" /\ next = "hello" /\ messages = <<"hello">>
  BY <1>3 DEF DeviceMessages
<1>4. CASE what = "disconnect" /\ next = "closing" /\ messages = <<"hello", "disconnect">>
  BY <1>4 DEF DeviceMessages
<1>5. CASE what = "check" /\ next = "checking" /\ messages = <<"health">>
  BY <1>5 DEF DeviceMessages
<1> QED BY <1>1, <1>2, <1>3, <1>4, <1>5 DEF Opening

LEMMA DialStep ==
    ASSUME DeviceInv, NEW t \in Terminals, NEW what, NEW messages, NEW next,
           Dial(t, what, messages, next), Opening(what, next, messages)
    PROVE  DeviceInv'
<1>1. DeviceShapes /\ Sound(t) /\ FileGranted
  BY DEF DeviceInv
<1>2. /\ \/ what \in {"connect", "monitor"} /\ next = "hello"
         \/ what = "disconnect" /\ next = "closing"
         \/ what = "check" /\ next = "checking"
      /\ what \in {"connect", "monitor", "disconnect", "check"}
      /\ what # Nothing /\ next \in {"hello", "closing", "checking"}
  BY NothingAssumption DEF Opening
<1>3. messages \in Seq(DeviceMessages)
  BY OpeningMessages
<1>4. DeviceShapes'
  BY <1>1, <1>2, <1>3 DEF DeviceShapes, Dial, scan, user
<1>5. FileGranted'
  BY <1>1 DEF FileGranted, Dial
<1>6. \A u \in Terminals : u # t => Same(u)
  BY <1>1 DEF DeviceShapes, Dial, Same, scan, user
<1>7. /\ command'[t] = what /\ stage'[t] = next /\ link'[t] = "open" /\ asked'[t] = messages
      /\ UNCHANGED <<stream, half, ahead, verdict, counted, shown, file, told, sent, lost,
                     early, granted>>
  BY <1>1 DEF DeviceShapes, Dial, scan, user
<1>8. Before(t)
  BY <1>1 DEF Sound, Placed, Dial
<1>9. Lines(t)' = <<>> /\ Len(Lines(t)') = 0
  <2>1. Lines(t)' = <<>>
    BY <1>7, <1>8 DEF Lines, Before
  <2> QED BY <2>1
<1>10. half'[t] = FALSE
  BY <1>1, <1>7, <1>8 DEF Before, Sound, Placed, DeviceShapes
<1>11. Placed(t)'
  BY <1>2, <1>7, <1>10 DEF Placed, Running
<1>12. Acked(t)'
  BY <1>2, <1>7, <1>9 DEF Acked
<1>13. Unread(t)'
  <2> SUFFICES ASSUME stage'[t] \in {"hello", "checking"} PROVE Unread(t)'
    BY DEF Unread
  <2>1. /\ Len(Lines(t)') = sent'[t] /\ counted'[t] = 0 /\ lost'[t] = 0 /\ shown'[t] = <<>>
        /\ t \notin granted' /\ t \notin early'
    BY <1>7, <1>8, <1>9 DEF Before
  <2>2. /\ \E m \in DeviceMessages : asked'[t] = <<m>>
        /\ command'[t] = "check" => \A i \in DOMAIN asked'[t] : asked'[t][i] = "health"
        /\ command'[t] = "monitor" => \A i \in DOMAIN asked'[t] : asked'[t][i] = "hello"
    BY <1>7, OpeningMessages
  <2> QED BY <1>9, <2>1, <2>2 DEF Unread
<1>14. Accounted(t)'
  BY <1>2, <1>7 DEF Accounted
<1>15. Undisturbed(t)'
  <2>1. stage'[t] = "hello" => Len(Lines(t)') + Len(asked'[t]) = 1
    BY <1>7, <1>9, OpeningMessages
  <2> QED BY <1>2, <1>7, <2>1 DEF Undisturbed
<1>16. Printed(t)'
  <2>1. shown'[t] = <<>> /\ told'[t] = 0
    BY <1>7, <1>8 DEF Before
  <2>2. stage'[t] # "printing"
    BY <1>2, <1>7
  <2> QED BY <1>9, <2>1, <2>2, OrderNothing DEF Printed
<1>17. Caused(t)'
  BY <1>7, <1>8, NothingAssumption DEF Caused, Before
<1> QED BY <1>4, <1>5, <1>6, <1>11, <1>12, <1>13, <1>14, <1>15, <1>16, <1>17, OneTerminal
        DEF Sound

LEMMA DialFailsStep ==
    ASSUME DeviceInv, NEW t \in Terminals, 
           NEW what \in {"connect", "monitor", "disconnect", "check"}, DialFails(t, what)
    PROVE  DeviceInv'
<1>1. DeviceShapes /\ Sound(t) /\ FileGranted
  BY DEF DeviceInv
<1>2. DeviceShapes'
  BY <1>1 DEF DeviceShapes, DialFails, traffic
<1>3. FileGranted'
  BY <1>1 DEF FileGranted, DialFails, traffic
<1>4. \A u \in Terminals : u # t => Same(u)
  BY <1>1 DEF DeviceShapes, DialFails, Same, traffic
<1>5. /\ command'[t] = what /\ stage'[t] = "ended" /\ verdict'[t] = "refused"
      /\ UNCHANGED <<traffic, half, ahead, counted, shown, file, lost>>
  BY <1>1 DEF DeviceShapes, DialFails
<1>6. Before(t)
  BY <1>1 DEF Sound, Placed, DialFails
<1>7. link'[t] = "none" /\ Lines(t)' = <<>>
  BY <1>5, <1>6 DEF Before, traffic, Lines
<1>8. Placed(t)'
  BY <1>1, <1>5, <1>6, NothingAssumption DEF Placed, Running, Before, traffic, Sound
<1>9. Acked(t)'
  BY <1>5, <1>7 DEF Acked
<1>10. Unread(t)' /\ Accounted(t)' /\ Undisturbed(t)' /\ Printed(t)'
  BY <1>7 DEF Unread, Accounted, Undisturbed, Printed
<1>11. Caused(t)'
  BY <1>5, <1>7 DEF Caused
<1> QED BY <1>2, <1>3, <1>4, <1>8, <1>9, <1>10, <1>11, OneTerminal DEF Sound

LEMMA LinesAreLines ==
    ASSUME DeviceShapes, NEW t \in Terminals
    PROVE  /\ ahead[t] \in Seq(LineSet) /\ stream[t] \in Seq(LineSet)
           /\ Lines(t) \in Seq(LineSet) /\ Len(Lines(t)) = Len(ahead[t]) + Len(stream[t])
<1>1. ahead[t] \in Seq(LineSet) /\ stream[t] \in Seq(LineSet)
  BY DEF DeviceShapes
<1>2. PICK a \in Seq(LineSet), b \in Seq(LineSet) : a = ahead[t] /\ b = stream[t]
  BY <1>1
<1>3. a \o b \in Seq(LineSet) /\ Len(a \o b) = Len(a) + Len(b)
  BY ConcatProperties
<1> QED BY <1>1, <1>2, <1>3 DEF Lines

LEMMA LoseStep ==
    ASSUME DeviceInv, NEW t \in Terminals, Lose(t)
    PROVE  DeviceInv'
<1>1. DeviceShapes /\ Sound(t) /\ FileGranted
  BY DEF DeviceInv
<1>2. Line("torn", 0) \in LineSet
  BY DEF Line, LineSet, LineKinds
<1>3. ahead[t] \in Seq(LineSet) /\ Append(ahead[t], Line("torn", 0)) \in Seq(LineSet)
  BY <1>1, <1>2 DEF DeviceShapes
<1>4. /\ UNCHANGED <<command, stage, verdict, counted, shown, file, told, sent, lost,
                     early, granted>>
      /\ link[t] = "open" /\ link'[t] = "down"
      /\ link' = [link EXCEPT ![t] = "down"] /\ asked' = [asked EXCEPT ![t] = <<>>]
  BY <1>1 DEF Lose, user, DeviceShapes
<1>5. \/ UNCHANGED <<stream, half, ahead>>
      \/ /\ stream' = [stream EXCEPT ![t] = <<>>] /\ half' = [half EXCEPT ![t] = FALSE]
         /\ \/ ahead' = [ahead EXCEPT ![t] = Append(ahead[t], Line("torn", 0))]
            \/ ahead' = [ahead EXCEPT ![t] = ahead[t]]
  BY <1>1 DEF Lose, scan
<1>6. DeviceShapes'
  <2>1. stream' \in [Terminals -> Seq(LineSet)] /\ half' \in [Terminals -> BOOLEAN]
    <3>1. <<>> \in Seq(LineSet)
      OBVIOUS
    <3>2. stream' \in [Terminals -> Seq(LineSet)]
      BY <1>1, <1>5, <3>1 DEF DeviceShapes
    <3>3. half' \in [Terminals -> BOOLEAN]
      BY <1>1, <1>5 DEF DeviceShapes
    <3> QED BY <3>2, <3>3
  <2>2. ahead' \in [Terminals -> Seq(LineSet)]
    BY <1>1, <1>3, <1>5 DEF DeviceShapes
  <2>3. asked' \in [Terminals -> Seq(DeviceMessages)]
    BY <1>1, <1>4 DEF DeviceShapes
  <2> QED BY <1>1, <1>4, <2>1, <2>2, <2>3 DEF DeviceShapes
<1>7. FileGranted'
  BY <1>1, <1>4 DEF FileGranted
<1>8. \A u \in Terminals : u # t => Same(u)
  BY <1>1, <1>4, <1>5 DEF DeviceShapes, Same
<1>9. Placed(t)'
  <2>1. half'[t] => stream'[t] # <<>>
    BY <1>1, <1>5 DEF DeviceShapes, Sound, Placed
  <2>2. command[t] # Nothing /\ stage[t] # "ended" /\ stage[t] \in Running
    BY <1>1, <1>4 DEF Sound, Placed, Running, Before
  <2> QED BY <1>1, <1>4, <2>1, <2>2 DEF Sound, Placed
<1>10. Acked(t)'
  <2>1. CASE UNCHANGED <<stream, half, ahead>>
    BY <1>1, <1>4, <2>1 DEF Sound, Acked, Lines
  <2>2. CASE stream'[t] = <<>> /\ ahead'[t] \in {ahead[t], Append(ahead[t], Line("torn", 0))}
    <3>1. PICK a \in Seq(LineSet), b \in Seq(LineSet), c \in Seq(LineSet) :
                a = ahead[t] /\ b = stream[t] /\ c = ahead'[t]
      BY <1>1, <1>3, <2>2 DEF DeviceShapes
    <3>2. \A i \in DOMAIN a : i \in DOMAIN (a \o b) /\ (a \o b)[i] = a[i]
      OBVIOUS
    <3>3. c \o <<>> = c
      BY ConcatEmptySeq
    <3>4. \A i \in DOMAIN c : \/ i \in DOMAIN a /\ c[i] = a[i]
                              \/ c[i].kind = "torn"
      <4>1. PICK x \in LineSet : x = Line("torn", 0)
        BY <1>2
      <4>2. x.kind = "torn" /\ (c = a \/ c = Append(a, x))
        BY <2>2, <3>1, <4>1 DEF Line
      <4>3. CASE c = a
        BY <4>3
      <4>4. CASE c = Append(a, x)
        BY <4>2, <4>4, AppendedLine
      <4> QED BY <4>2, <4>3, <4>4
    <3>5. Lines(t) = a \o b /\ Lines(t)' = c
      BY <2>2, <3>1, <3>3 DEF Lines
    <3>6. \A i \in DOMAIN c : c[i].kind = "hello_ack" => t \in granted
      BY <1>1, <3>2, <3>4, <3>5 DEF Sound, Acked
    <3> QED BY <1>1, <1>4, <3>5, <3>6 DEF Sound, Acked
  <2> QED BY <1>1, <1>5, <2>1, <2>2 DEF DeviceShapes
<1>11. Unread(t)' /\ Accounted(t)' /\ Undisturbed(t)' /\ Printed(t)'
  BY <1>4 DEF Unread, Accounted, Undisturbed, Printed
<1>12. Caused(t)'
  BY <1>1, <1>4 DEF Sound, Caused
<1> QED BY <1>6, <1>7, <1>8, <1>9, <1>10, <1>11, <1>12, OneTerminal DEF Sound

LEMMA FillStep ==
    ASSUME DeviceInv, NEW t \in Terminals, Fill(t)
    PROVE  DeviceInv'
<1>1. DeviceShapes /\ Sound(t) /\ FileGranted
  BY DEF DeviceInv
<1>2. stream[t] \in Seq(LineSet) /\ ahead[t] = <<>>
  BY <1>1 DEF DeviceShapes, Fill
<1>3. PICK s \in Seq(LineSet) : s = stream[t]
  BY <1>2
<1>4. PICK k \in 0 .. Len(s), cut \in BOOLEAN :
        /\ cut => k < Len(s)
        /\ ahead' = [ahead EXCEPT ![t] = SubSeq(s, 1, k)]
        /\ stream' = [stream EXCEPT ![t] = SubSeq(s, k + 1, Len(s))]
        /\ half' = [half EXCEPT ![t] = cut]
  BY <1>3 DEF Fill
<1>5. PICK a \in Seq(LineSet), b \in Seq(LineSet) :
        /\ a = SubSeq(s, 1, k) /\ b = SubSeq(s, k + 1, Len(s)) /\ a \o b = s
        /\ Len(b) = Len(s) - k
  BY SplitLines
<1>6. /\ UNCHANGED <<command, stage, link, asked, verdict, counted, shown, file, told, sent,
                     lost, early, granted>>
      /\ ahead' = [ahead EXCEPT ![t] = a] /\ stream' = [stream EXCEPT ![t] = b]
  BY <1>4, <1>5 DEF Fill, user
<1>7. DeviceShapes'
  <2>1. ahead' \in [Terminals -> Seq(LineSet)]
    BY <1>1, <1>6 DEF DeviceShapes
  <2>2. stream' \in [Terminals -> Seq(LineSet)]
    BY <1>1, <1>6 DEF DeviceShapes
  <2>3. half' \in [Terminals -> BOOLEAN]
    BY <1>1, <1>4 DEF DeviceShapes
  <2> QED BY <1>1, <1>6, <2>1, <2>2, <2>3 DEF DeviceShapes
<1>8. FileGranted'
  BY <1>1, <1>6 DEF FileGranted
<1>9. \A u \in Terminals : u # t => Same(u)
  BY <1>1, <1>4, <1>6 DEF DeviceShapes, Same
<1>10. Lines(t)' = Lines(t)
  <2>1. Lines(t)' = a \o b
    BY <1>1, <1>6 DEF DeviceShapes, Lines
  <2>2. <<>> \o s = s
    BY ConcatEmptySeq
  <2>3. Lines(t) = s
    BY <1>2, <1>3, <2>2 DEF Lines
  <2> QED BY <1>5, <2>1, <2>3
<1>11. Placed(t)'
  <2>1. half'[t] => stream'[t] # <<>>
    <3>1. half'[t] => Len(b) # 0
      BY <1>1, <1>4, <1>5 DEF DeviceShapes
    <3>2. stream'[t] = b
      BY <1>1, <1>6 DEF DeviceShapes
    <3> QED BY <3>1, <3>2
  <2>2. command[t] # Nothing
    BY <1>1 DEF Fill, Reading, Sound, Placed
  <2> QED BY <1>1, <1>6, <2>1, <2>2 DEF Sound, Placed
<1>12. Acked(t)' /\ Unread(t)'
  BY <1>1, <1>6, <1>10 DEF Sound, Acked, Unread
<1>13. Accounted(t)' /\ Undisturbed(t)'
  BY <1>1, <1>6, <1>10 DEF Sound, Accounted, Undisturbed
<1>14. Printed(t)' /\ Caused(t)'
  BY <1>1, <1>6, <1>10 DEF Sound, Printed, Caused
<1> QED BY <1>7, <1>8, <1>9, <1>11, <1>12, <1>13, <1>14, OneTerminal DEF Sound

LEMMA PingStep ==
    ASSUME DeviceInv, NEW t \in Terminals, Ping(t)
    PROVE  DeviceInv'
<1>1. DeviceShapes /\ Sound(t) /\ FileGranted
  BY DEF DeviceInv
<1>2. /\ UNCHANGED <<command, link, stream, half, ahead, shown, told, sent, lost, early,
                     granted>>
      /\ stage[t] \in {"saving", "unsaved"} /\ counted' = [counted EXCEPT ![t] = @ + 1]
  BY DEF Ping, scan
<1>3. \/ /\ stage' = [stage EXCEPT ![t] = "ping"]
         /\ asked' = [asked EXCEPT ![t] =
                        IF link[t] = "open" THEN Append(asked[t], "ping") ELSE asked[t]]
         /\ UNCHANGED verdict
      \/ /\ link[t] = "down" /\ UNCHANGED asked
         /\ stage' = [stage EXCEPT ![t] = "counting"]
         /\ verdict' = [verdict EXCEPT ![t] = "doubtful"]
  BY DEF Ping
<1>4. asked[t] \in Seq(DeviceMessages) /\ Append(asked[t], "ping") \in Seq(DeviceMessages)
  <2>1. "ping" \in DeviceMessages
    BY DEF DeviceMessages
  <2>2. asked[t] \in Seq(DeviceMessages)
    BY <1>1 DEF DeviceShapes
  <2> QED BY <2>1, <2>2
<1>5. DeviceShapes'
  <2>1. asked' \in [Terminals -> Seq(DeviceMessages)]
    <3>1. PICK q \in Seq(DeviceMessages) :
              q = IF link[t] = "open" THEN Append(asked[t], "ping") ELSE asked[t]
      BY <1>4
    <3>2. asked' = [asked EXCEPT ![t] = q] \/ asked' = asked
      BY <1>3, <3>1
    <3> QED BY <1>1, <3>1, <3>2 DEF DeviceShapes
  <2>2. counted' \in [Terminals -> Nat]
    BY <1>1, <1>2 DEF DeviceShapes
  <2> QED BY <1>1, <1>2, <1>3, <2>1, <2>2 DEF DeviceShapes
<1>6. FileGranted'
  BY <1>1, <1>2 DEF Ping, FileGranted, Sound, Acked
<1>7. \A u \in Terminals : u # t => Same(u)
  BY <1>1, <1>2, <1>3 DEF DeviceShapes, Same
<1>8. /\ counted'[t] = counted[t] + 1 /\ stage'[t] \in {"ping", "counting"}
      /\ Lines(t)' = Lines(t)
  BY <1>1, <1>2, <1>3 DEF DeviceShapes, Lines
<1>9. command[t] = "connect" /\ (link[t] = "open" \/ link[t] = "down")
  BY <1>1, <1>2 DEF Sound, Placed, Running
<1>10. Placed(t)'
  BY <1>1, <1>2, <1>8, <1>9, NothingAssumption DEF Sound, Placed, Running
<1>11. Acked(t)'
  BY <1>1, <1>2, <1>8 DEF Sound, Acked
<1>12. Unread(t)' /\ Printed(t)'
  BY <1>2, <1>8, <1>9 DEF Unread, Printed
<1>13. Accounted(t)'
  <2> SUFFICES ASSUME link'[t] = "open" PROVE Accounted(t)'
    BY DEF Accounted
  <2>1. counted[t] = 0 /\ lost[t] + Len(Lines(t)) + 1 = sent[t]
    BY <1>1, <1>2 DEF Sound, Accounted
  <2>2. lost[t] \in Nat /\ Len(Lines(t)) \in Nat
    BY <1>1, LinesAreLines DEF DeviceShapes
  <2>3. counted'[t] + lost'[t] + Len(Lines(t)') = sent'[t]
    BY <1>2, <1>8, <2>1, <2>2
  <2> QED BY <1>8, <2>3 DEF Accounted
<1>14. Undisturbed(t)'
  <2> SUFFICES ASSUME link'[t] = "open", told'[t] = 0 PROVE Undisturbed(t)'
    BY DEF Undisturbed
  <2>1. asked[t] = <<>> /\ Lines(t) = <<>>
    BY <1>1, <1>2 DEF Sound, Undisturbed
  <2>2. stage'[t] = "ping" /\ asked'[t] = Append(asked[t], "ping")
    BY <1>1, <1>2, <1>3 DEF DeviceShapes
  <2>3. asked'[t] = <<"ping">>
    BY <2>1, <2>2
  <2> QED BY <1>8, <2>1, <2>2, <2>3 DEF Undisturbed
<1>15. Caused(t)'
  BY <1>1, <1>2, <1>3 DEF DeviceShapes, Sound, Caused
<1> QED BY <1>5, <1>6, <1>7, <1>10, <1>11, <1>12, <1>13, <1>14, <1>15, OneTerminal DEF Sound

\* A goroutine that finds its connection lost moves on.
LEMMA LostStep ==
    ASSUME DeviceInv, NEW t \in Terminals, NoPong(t) \/ GoesDeaf(t)
    PROVE  DeviceInv'
<1>1. DeviceShapes /\ Sound(t) /\ FileGranted
  BY DEF DeviceInv
<1>2. /\ UNCHANGED <<command, link, asked, stream, half, ahead, counted, shown, file, told,
                     sent, lost, early, granted>>
      /\ link[t] = "down"
      /\ \/ /\ stage[t] = "ping" /\ stage' = [stage EXCEPT ![t] = "counting"]
            /\ verdict' = [verdict EXCEPT ![t] = "doubtful"]
         \/ /\ stage[t] = "counting" /\ stage' = [stage EXCEPT ![t] = "deaf"]
            /\ UNCHANGED verdict
  BY DEF NoPong, GoesDeaf, AtEOF, traffic, user
<1>3. DeviceShapes'
  BY <1>1, <1>2 DEF DeviceShapes
<1>4. FileGranted'
  BY <1>1, <1>2 DEF FileGranted
<1>5. \A u \in Terminals : u # t => Same(u)
  BY <1>1, <1>2 DEF DeviceShapes, Same
<1>6. stage'[t] \in {"counting", "deaf"} /\ Lines(t)' = Lines(t) /\ command[t] = "connect"
  BY <1>1, <1>2 DEF DeviceShapes, Lines, Sound, Placed
<1>7. Placed(t)'
  BY <1>1, <1>2, <1>6, NothingAssumption DEF Sound, Placed, Running
<1>8. Acked(t)'
  BY <1>1, <1>2, <1>6 DEF Sound, Acked
<1>9. Unread(t)' /\ Accounted(t)' /\ Undisturbed(t)' /\ Printed(t)'
  BY <1>2 DEF Unread, Accounted, Undisturbed, Printed
<1>10. Caused(t)'
  BY <1>1, <1>2 DEF DeviceShapes, Sound, Caused
<1> QED BY <1>3, <1>4, <1>5, <1>7, <1>8, <1>9, <1>10, OneTerminal DEF Sound

-----------------------------------------------------------------------------
(* The server sends a line.                                                *)

LEMMA SentLine ==
    ASSUME DeviceShapes, NEW t \in Terminals, NEW x \in LineSet,
           Write(t, x), UNCHANGED ahead
    PROVE  /\ stream' \in [Terminals -> Seq(LineSet)] /\ sent' \in [Terminals -> Nat]
           /\ stream'[t] # <<>> /\ sent'[t] = sent[t] + 1
           /\ Lines(t) \in Seq(LineSet) /\ Lines(t)' = Append(Lines(t), x)
           /\ Len(Lines(t)') = Len(Lines(t)) + 1
<1>1. PICK a \in Seq(LineSet), b \in Seq(LineSet) : a = ahead[t] /\ b = stream[t]
  BY DEF DeviceShapes
<1>2. PICK c \in Seq(LineSet) : c = Append(b, x) /\ c # <<>> /\ a \o c = Append(a \o b, x)
  <2>1. Append(b, x) \in Seq(LineSet) /\ Append(b, x) # <<>>
    OBVIOUS
  <2>2. a \o Append(b, x) = Append(a \o b, x)
    BY AddLine
  <2> QED BY <2>1, <2>2
<1>3. stream' = [stream EXCEPT ![t] = c]
  BY <1>1, <1>2 DEF Write
<1>4. stream' \in [Terminals -> Seq(LineSet)] /\ stream'[t] = c /\ ahead'[t] = a
  BY <1>1, <1>3 DEF DeviceShapes
<1>5. sent' \in [Terminals -> Nat] /\ sent'[t] = sent[t] + 1
  BY DEF DeviceShapes, Write
<1>6. Lines(t) = a \o b /\ Lines(t)' = Append(a \o b, x) /\ a \o b \in Seq(LineSet)
  BY <1>1, <1>2, <1>4, ConcatProperties DEF Lines
<1>7. Len(Append(a \o b, x)) = Len(a \o b) + 1
  BY <1>6
<1> QED BY <1>2, <1>4, <1>5, <1>6, <1>7

LEMMA AnswerStep ==
    ASSUME DeviceInv, NEW t \in Terminals, Answer(t)
    PROVE  DeviceInv'
<1>1. DeviceShapes /\ Sound(t) /\ FileGranted
  BY DEF DeviceInv
<1>2. PICK q \in Seq(DeviceMessages) : q = asked[t]
  BY <1>1 DEF DeviceShapes
<1>3. q # <<>> /\ link[t] = "open"
  BY <1>2 DEF Answer
<1>4. PICK m \in DeviceMessages, r \in Seq(DeviceMessages) : m = Head(q) /\ r = Tail(q)
  <2>1. Head(q) \in DeviceMessages /\ Tail(q) \in Seq(DeviceMessages)
    BY <1>3
  <2> QED BY <2>1
<1>5. PICK x \in LineSet : x = Line(AnswerTo(m), 0)
  <2>1. AnswerTo(m) \in LineKinds
    BY <1>4 DEF AnswerTo, DeviceMessages, LineKinds
  <2>2. Line(AnswerTo(m), 0) \in LineSet
    BY <2>1 DEF Line, LineSet
  <2> QED BY <2>2
<1>6. /\ x.kind # "progress_broadcast"
      /\ x.kind = "hello_ack" <=> m = "hello"
      /\ m = "health" => x.kind = "health_ok"
      /\ m = "ping" => x.kind = "pong"
  BY <1>5 DEF Line, AnswerTo, DeviceMessages
<1>7. /\ Write(t, x) /\ asked' = [asked EXCEPT ![t] = r]
      /\ granted' = IF m = "hello" THEN granted \cup {t} ELSE granted
      /\ UNCHANGED <<command, stage, link, half, ahead, verdict, counted, shown, file, told,
                     lost, early>>
  BY <1>2, <1>4, <1>5 DEF Answer, user
<1>8. /\ stream' \in [Terminals -> Seq(LineSet)] /\ sent' \in [Terminals -> Nat]
      /\ stream'[t] # <<>> /\ sent'[t] = sent[t] + 1
      /\ Lines(t) \in Seq(LineSet) /\ Lines(t)' = Append(Lines(t), x)
      /\ Len(Lines(t)') = Len(Lines(t)) + 1
  BY <1>1, <1>7, SentLine
<1>9. PICK ls \in Seq(LineSet), ms \in Seq(LineSet) :
        /\ ls = Lines(t) /\ ms = Lines(t)' /\ ms = Append(ls, x)
  <2>1. Append(Lines(t), x) \in Seq(LineSet)
    BY <1>8
  <2> QED BY <1>8, <2>1
<1>10. DeviceShapes'
  <2>1. asked' \in [Terminals -> Seq(DeviceMessages)]
    BY <1>1, <1>7 DEF DeviceShapes
  <2> QED BY <1>1, <1>7, <1>8, <2>1 DEF DeviceShapes
<1>11. FileGranted'
  BY <1>1, <1>7 DEF FileGranted
<1>12. \A u \in Terminals : u # t => Same(u)
  BY <1>1, <1>7 DEF DeviceShapes, Same, Write
<1>13. asked'[t] = r /\ (t \in granted' <=> t \in granted \/ m = "hello")
  BY <1>1, <1>7 DEF DeviceShapes
<1>14. stage[t] \in Running /\ stage[t] # "ended" /\ command[t] # Nothing
  BY <1>1, <1>3 DEF Sound, Placed, Running, Before
<1>15. Placed(t)'
  BY <1>1, <1>7, <1>8, <1>14 DEF Sound, Placed
<1>16. Acked(t)'
  <2>1. \A i \in DOMAIN ls : ls[i].kind = "hello_ack" => t \in granted
    BY <1>1, <1>9 DEF Sound, Acked
  <2>2. \A i \in DOMAIN ms : ms[i].kind = "hello_ack" => t \in granted'
    BY <1>6, <1>9, <1>13, <2>1, AppendedLine
  <2> QED BY <1>1, <1>7, <1>9, <1>13, <2>2 DEF Sound, Acked
<1>17. Unread(t)'
  <2> SUFFICES ASSUME stage[t] \in {"hello", "checking"} PROVE Unread(t)'
    BY <1>7 DEF Unread
  <2>1. PICK n \in DeviceMessages : q = <<n>>
    BY <1>1, <1>2, <1>3 DEF Sound, Unread
  <2>2. n = m /\ r = <<>> /\ DOMAIN r = {} /\ q[1] = m /\ 1 \in DOMAIN q
    BY <1>4, <2>1
  <2>3. Len(ms) = sent'[t] /\ counted'[t] = 0 /\ lost'[t] = 0 /\ shown'[t] = <<>>
    BY <1>1, <1>3, <1>7, <1>8, <1>9 DEF Sound, Unread
  <2>4. command[t] = "check" => t \notin granted' /\ m = "health"
    <3>1. command[t] = "check" => t \notin granted /\ q[1] = "health"
      BY <1>1, <1>2, <1>3, <2>2 DEF Sound, Unread
    <3> QED BY <1>13, <2>2, <3>1
  <2>5. t \notin granted
    BY <1>1, <1>2, <1>3 DEF Sound, Unread
  <2>6. ms # <<>>
    BY <1>9, AppendedLine
  <2>7. t \notin early => ms[1] = x
    <3>1. t \notin early => ls = <<>>
      BY <1>1, <1>2, <1>3, <1>9 DEF Sound, Unread
    <3>2. ls = <<>> => ms[1] = x
      BY <1>9
    <3> QED BY <3>1, <3>2
  <2> QED BY <1>6, <1>7, <1>9, <1>13, <2>2, <2>3, <2>4, <2>5, <2>6, <2>7 DEF Unread
<1>18. Accounted(t)'
  <2>1. Len(ls) \in Nat /\ Len(ms) = Len(ls) + 1
    BY <1>8, <1>9
  <2>2. counted[t] \in Nat /\ lost[t] \in Nat /\ sent[t] \in Nat
    BY <1>1 DEF DeviceShapes
  <2>3. stage[t] \in {"saving", "unsaved"} =>
            counted[t] = 0 /\ lost[t] + Len(ms) + 1 = sent'[t]
    <3>1. stage[t] \in {"saving", "unsaved"} =>
            counted[t] = 0 /\ lost[t] + Len(ls) + 1 = sent[t]
      BY <1>1, <1>3, <1>9 DEF Sound, Accounted
    <3>2. PICK l \in Nat, k \in Nat, all \in Nat :
            l = lost[t] /\ k = Len(ls) /\ all = sent[t]
      BY <2>1, <2>2
    <3>3. Len(ms) = k + 1 /\ sent'[t] = all + 1
      BY <1>8, <2>1, <3>2
    <3>4. l + k + 1 = all => l + (k + 1) + 1 = all + 1
      OBVIOUS
    <3> QED BY <3>1, <3>2, <3>3, <3>4
  <2>4. stage[t] \in {"ping", "counting"} => counted[t] + lost[t] + Len(ms) = sent'[t]
    <3>1. stage[t] \in {"ping", "counting"} => counted[t] + lost[t] + Len(ls) = sent[t]
      BY <1>1, <1>3, <1>9 DEF Sound, Accounted
    <3>2. PICK c \in Nat, l \in Nat, k \in Nat, all \in Nat :
            c = counted[t] /\ l = lost[t] /\ k = Len(ls) /\ all = sent[t]
      BY <2>1, <2>2
    <3>3. Len(ms) = k + 1 /\ sent'[t] = all + 1
      BY <1>8, <2>1, <3>2
    <3>4. c + l + k = all => c + l + (k + 1) = all + 1
      OBVIOUS
    <3> QED BY <3>1, <3>2, <3>3, <3>4
  <2> QED BY <1>7, <1>9, <2>3, <2>4 DEF Accounted
<1>19. Undisturbed(t)'
  <2> SUFFICES ASSUME told[t] = 0 PROVE Undisturbed(t)'
    BY <1>7 DEF Undisturbed
  <2>1. stage[t] = "hello" => Len(ms) + Len(r) = 1
    <3>1. stage[t] = "hello" => Len(ls) + Len(q) = 1
      BY <1>1, <1>2, <1>3, <1>9 DEF Sound, Undisturbed
    <3>2. Len(r) = Len(q) - 1 /\ Len(q) \in Nat /\ Len(ls) \in Nat /\ Len(ms) = Len(ls) + 1
      BY <1>3, <1>4, <1>8, <1>9
    <3> QED BY <3>1, <3>2
  <2>2. stage[t] \notin {"saving", "unsaved"}
    BY <1>1, <1>2, <1>3 DEF Sound, Undisturbed
  <2>3. stage[t] = "ping" => r = <<>> /\ Len(ms) = 1 /\ ms[1].kind = "pong"
    <3> SUFFICES ASSUME stage[t] = "ping" PROVE r = <<>> /\ Len(ms) = 1 /\ ms[1].kind = "pong"
      OBVIOUS
    <3>1. q = <<"ping">> /\ ls = <<>>
      BY <1>1, <1>2, <1>3, <1>9 DEF Sound, Undisturbed
    <3>2. m = "ping" /\ r = <<>>
      BY <1>4, <3>1
    <3>3. ms[1] = x /\ Len(ms) = 1
      BY <1>9, <3>1
    <3> QED BY <1>6, <3>2, <3>3
  <2> QED BY <1>7, <1>9, <1>13, <2>1, <2>2, <2>3 DEF Undisturbed
<1>20. Printed(t)'
  <2> SUFFICES ASSUME command[t] = "monitor" PROVE Printed(t)'
    BY <1>7 DEF Printed
  <2>1. PICK sh, n, f : /\ sh = shown[t] /\ n = told[t]
                        /\ f = IF t \in early /\ stage[t] = "printing" THEN 1 ELSE 0
    OBVIOUS
  <2>2. InOrder(sh, ls, n, f)
    BY <1>1, <1>3, <1>9, <2>1 DEF Sound, Printed
  <2>3. InOrder(sh, ms, n, f)
    BY <1>6, <1>9, <2>2, OrderAnswer
  <2> QED BY <1>7, <1>9, <2>1, <2>3 DEF Printed
<1>21. Caused(t)'
  BY <1>1, <1>7, <1>14 DEF Sound, Caused
<1> QED BY <1>10, <1>11, <1>12, <1>15, <1>16, <1>17, <1>18, <1>19, <1>20, <1>21, OneTerminal
        DEF Sound

LEMMA OrderWeaken ==
    ASSUME NEW sh, NEW ls, NEW n \in Nat, InOrder(sh, ls, n, 0)
    PROVE  InOrder(sh, ls, n, 1)
<1>1. \A m \in 1 .. n : m <= 0 => m <= 1
  OBVIOUS
<1> QED BY <1>1 DEF InOrder

LEMMA BroadcastStep ==
    ASSUME DeviceInv, NEW t \in Terminals, Broadcast(t)
    PROVE  DeviceInv'
<1>1. DeviceShapes /\ Sound(t) /\ FileGranted
  BY DEF DeviceInv
<1>2. PICK n \in Nat : n = told[t]
  BY <1>1 DEF DeviceShapes
<1>3. PICK x \in LineSet : x = Line("progress_broadcast", n + 1)
  <2>1. Line("progress_broadcast", n + 1) \in LineSet
    BY DEF Line, LineSet, LineKinds
  <2> QED BY <2>1
<1>4. x.kind = "progress_broadcast" /\ x.n = n + 1
  BY <1>3 DEF Line
<1>5. /\ Write(t, x) /\ told' = [told EXCEPT ![t] = n + 1] /\ link[t] = "open"
      /\ early' = IF t \in granted THEN early ELSE early \cup {t}
      /\ UNCHANGED <<command, stage, link, asked, half, ahead, verdict, counted, shown, file,
                     lost, granted>>
  BY <1>2, <1>3 DEF Broadcast, user
<1>6. /\ stream' \in [Terminals -> Seq(LineSet)] /\ sent' \in [Terminals -> Nat]
      /\ stream'[t] # <<>> /\ sent'[t] = sent[t] + 1
      /\ Lines(t) \in Seq(LineSet) /\ Lines(t)' = Append(Lines(t), x)
      /\ Len(Lines(t)') = Len(Lines(t)) + 1
  BY <1>1, <1>5, SentLine
<1>7. PICK ls \in Seq(LineSet), ms \in Seq(LineSet) :
        /\ ls = Lines(t) /\ ms = Lines(t)' /\ ms = Append(ls, x)
  <2>1. Append(Lines(t), x) \in Seq(LineSet)
    BY <1>6
  <2> QED BY <1>6, <2>1
<1>8. DeviceShapes'
  <2>1. told' \in [Terminals -> Nat]
    BY <1>1, <1>5 DEF DeviceShapes
  <2> QED BY <1>1, <1>5, <1>6, <2>1 DEF DeviceShapes
<1>9. FileGranted'
  BY <1>1, <1>5 DEF FileGranted
<1>10. \A u \in Terminals : u # t => Same(u)
  BY <1>1, <1>5 DEF DeviceShapes, Same, Write
<1>11. told'[t] = n + 1 /\ (t \in early' <=> t \in early \/ t \notin granted)
  BY <1>1, <1>5 DEF DeviceShapes
<1>12. stage[t] \in Running /\ stage[t] # "ended" /\ command[t] # Nothing
  BY <1>1, <1>5 DEF Sound, Placed, Running, Before
<1>13. Placed(t)'
  BY <1>1, <1>5, <1>6, <1>12 DEF Sound, Placed
<1>14. Acked(t)'
  <2>1. \A i \in DOMAIN ls : ls[i].kind = "hello_ack" => t \in granted
    BY <1>1, <1>7 DEF Sound, Acked
  <2>2. \A i \in DOMAIN ms : ms[i].kind = "hello_ack" => t \in granted
    BY <1>4, <1>7, <2>1, AppendedLine
  <2> QED BY <1>1, <1>5, <1>7, <2>2 DEF Sound, Acked
<1>15. Unread(t)'
  <2> SUFFICES ASSUME stage[t] \in {"hello", "checking"} PROVE Unread(t)'
    BY <1>5 DEF Unread
  <2>1. /\ Len(ms) = sent'[t] /\ counted'[t] = 0 /\ lost'[t] = 0 /\ shown'[t] = <<>>
        /\ asked'[t] = asked[t] /\ (asked[t] = <<>> \/ \E m \in DeviceMessages : asked[t] = <<m>>)
        /\ command'[t] = "check" =>
             t \notin granted' /\ \A i \in DOMAIN asked'[t] : asked'[t][i] = "health"
        /\ command'[t] = "monitor" => \A i \in DOMAIN asked'[t] : asked'[t][i] = "hello"
    BY <1>1, <1>5, <1>6, <1>7 DEF Sound, Unread
  <2>2. t \in granted => asked[t] = <<>> /\ ls # <<>>
    BY <1>1, <1>5, <1>7 DEF Sound, Unread
  <2>3. ms # <<>> /\ (ls # <<>> => ms[1] = ls[1])
    <3>1. ls # <<>> => 1 \in DOMAIN ls
      OBVIOUS
    <3> QED BY <1>7, <3>1, AppendedLine
  <2>4. t \notin early' => t \in granted /\ t \notin early
    BY <1>11
  <2>5. t \in granted /\ t \notin early =>
            /\ ls[1].kind # "progress_broadcast" /\ ls[1].kind = "hello_ack"
            /\ command[t] = "check" => ls[1].kind = "health_ok"
    BY <1>1, <1>5, <1>7, <2>2 DEF Sound, Unread
  <2> QED BY <1>5, <1>7, <2>1, <2>2, <2>3, <2>4, <2>5 DEF Unread
<1>16. Accounted(t)'
  <2>1. Len(ls) \in Nat /\ Len(ms) = Len(ls) + 1
    BY <1>6, <1>7
  <2>2. counted[t] \in Nat /\ lost[t] \in Nat /\ sent[t] \in Nat
    BY <1>1 DEF DeviceShapes
  <2>3. stage[t] \in {"saving", "unsaved"} =>
            counted[t] = 0 /\ lost[t] + Len(ms) + 1 = sent'[t]
    <3>1. stage[t] \in {"saving", "unsaved"} =>
            counted[t] = 0 /\ lost[t] + Len(ls) + 1 = sent[t]
      BY <1>1, <1>5, <1>7 DEF Sound, Accounted
    <3>2. PICK l \in Nat, k \in Nat, all \in Nat :
            l = lost[t] /\ k = Len(ls) /\ all = sent[t]
      BY <2>1, <2>2
    <3>3. Len(ms) = k + 1 /\ sent'[t] = all + 1
      BY <1>6, <2>1, <3>2
    <3>4. l + k + 1 = all => l + (k + 1) + 1 = all + 1
      OBVIOUS
    <3> QED BY <3>1, <3>2, <3>3, <3>4
  <2>4. stage[t] \in {"ping", "counting"} => counted[t] + lost[t] + Len(ms) = sent'[t]
    <3>1. stage[t] \in {"ping", "counting"} => counted[t] + lost[t] + Len(ls) = sent[t]
      BY <1>1, <1>5, <1>7 DEF Sound, Accounted
    <3>2. PICK c \in Nat, l \in Nat, k \in Nat, all \in Nat :
            c = counted[t] /\ l = lost[t] /\ k = Len(ls) /\ all = sent[t]
      BY <2>1, <2>2
    <3>3. Len(ms) = k + 1 /\ sent'[t] = all + 1
      BY <1>6, <2>1, <3>2
    <3>4. c + l + k = all => c + l + (k + 1) = all + 1
      OBVIOUS
    <3> QED BY <3>1, <3>2, <3>3, <3>4
  <2> QED BY <1>5, <1>7, <2>3, <2>4 DEF Accounted
<1>17. Undisturbed(t)'
  BY <1>2, <1>11 DEF Undisturbed
<1>18. Printed(t)'
  <2> SUFFICES ASSUME command[t] = "monitor" PROVE Printed(t)'
    BY <1>5 DEF Printed
  <2>1. PICK sh, f, g : /\ sh = shown[t]
                        /\ f = IF t \in early /\ stage[t] = "printing" THEN 1 ELSE 0
                        /\ g = IF t \in early' /\ stage[t] = "printing" THEN 1 ELSE 0
    OBVIOUS
  <2>2. InOrder(sh, ls, n, f)
    BY <1>1, <1>2, <1>5, <1>7, <2>1 DEF Sound, Printed
  <2>3. InOrder(sh, ms, n + 1, f)
    BY <1>4, <1>7, <2>2, OrderBroadcast
  <2>4. f = g \/ (f = 0 /\ g = 1)
    BY <1>11, <2>1
  <2>5. n + 1 \in Nat
    OBVIOUS
  <2>6. InOrder(sh, ms, n + 1, g)
    BY <2>3, <2>4, <2>5, OrderWeaken
  <2> QED BY <1>5, <1>7, <1>11, <2>1, <2>6 DEF Printed
<1>19. Caused(t)'
  BY <1>1, <1>2, <1>5, <1>11, <1>12 DEF Sound, Caused
<1> QED BY <1>8, <1>9, <1>10, <1>13, <1>14, <1>15, <1>16, <1>17, <1>18, <1>19, OneTerminal
        DEF Sound

-----------------------------------------------------------------------------
(* A command takes a line.                                                 *)

LEMMA TakenLine ==
    ASSUME DeviceShapes, NEW t \in Terminals, Take(t)
    PROVE  /\ ahead' \in [Terminals -> Seq(LineSet)] /\ UNCHANGED <<stream, half>>
           /\ \A u \in Terminals : u # t => ahead'[u] = ahead[u]
           /\ Lines(t) \in Seq(LineSet) /\ Lines(t)' \in Seq(LineSet) /\ Lines(t) # <<>>
           /\ NextLine(t) = Lines(t)[1] /\ Len(Lines(t)') = Len(Lines(t)) - 1
           /\ \A i \in DOMAIN (Lines(t)') :
                i + 1 \in DOMAIN Lines(t) /\ (Lines(t)')[i] = Lines(t)[i + 1]
<1>1. PICK a \in Seq(LineSet), b \in Seq(LineSet) : a = ahead[t] /\ b = stream[t]
  BY DEF DeviceShapes
<1>2. a # <<>> /\ ahead' = [ahead EXCEPT ![t] = Tail(a)] /\ UNCHANGED <<stream, half>>
  BY <1>1 DEF Take
<1>3. PICK r \in Seq(LineSet) : r = Tail(a)
  BY <1>2, TakeLine
<1>4. /\ Head(a) = (a \o b)[1] /\ Len(r \o b) = Len(a \o b) - 1 /\ a \o b # <<>>
      /\ \A i \in DOMAIN (r \o b) :
            i + 1 \in DOMAIN (a \o b) /\ (r \o b)[i] = (a \o b)[i + 1]
  BY <1>2, <1>3, TakeLine
<1>5. /\ ahead' \in [Terminals -> Seq(LineSet)] /\ ahead'[t] = r
      /\ \A u \in Terminals : u # t => ahead'[u] = ahead[u]
  BY <1>2, <1>3 DEF DeviceShapes
<1>6. Lines(t) = a \o b /\ Lines(t)' = r \o b
  BY <1>1, <1>2, <1>5 DEF Lines
<1>7. a \o b \in Seq(LineSet) /\ r \o b \in Seq(LineSet)
  BY ConcatProperties
<1> QED BY <1>1, <1>2, <1>4, <1>5, <1>6, <1>7 DEF NextLine

LEMMA Abandoned ==
    ASSUME DeviceShapes, NEW t \in Terminals, TakeAndAbandon(t),
           half[t] => stream[t] # <<>>
    PROVE  /\ ahead' \in [Terminals -> Seq(LineSet)] /\ stream' \in [Terminals -> Seq(LineSet)]
           /\ half' \in [Terminals -> BOOLEAN] /\ lost' \in [Terminals -> Nat]
           /\ \A u \in Terminals : u # t =>
                /\ ahead'[u] = ahead[u] /\ stream'[u] = stream[u] /\ half'[u] = half[u]
                /\ lost'[u] = lost[u]
           /\ half'[t] = FALSE
           /\ Lines(t) \in Seq(LineSet) /\ Lines(t)' \in Seq(LineSet) /\ Lines(t) # <<>>
           /\ NextLine(t) = Lines(t)[1] /\ lost'[t] >= lost[t]
           /\ lost'[t] + Len(Lines(t)') + 1 = lost[t] + Len(Lines(t))
           /\ \A i \in DOMAIN (Lines(t)') :
                \/ (Lines(t)')[i].kind = "torn"
                \/ \E k \in DOMAIN Lines(t) : (Lines(t)')[i] = Lines(t)[k]
<1>1. PICK a \in Seq(LineSet), b \in Seq(LineSet), l \in Nat :
            a = ahead[t] /\ b = stream[t] /\ l = lost[t]
  BY DEF DeviceShapes
<1>2. a # <<>> /\ Len(a) \in Nat \ {0}
  BY <1>1 DEF TakeAndAbandon
<1>3. PICK x \in LineSet : x = Line("torn", 0) /\ x.kind = "torn"
  <2>1. Line("torn", 0) \in LineSet
    BY DEF Line, LineSet, LineKinds
  <2>2. Line("torn", 0).kind = "torn"
    BY DEF Line
  <2> QED BY <2>1, <2>2
<1>4. PICK c \in Seq(LineSet) :
        /\ c = (IF half[t] THEN <<x>> \o Tail(b) ELSE b) /\ Len(c) = Len(b)
        /\ \A i \in DOMAIN c : c[i] = x \/ (i \in DOMAIN b /\ c[i] = b[i])
  <2>1. CASE half[t]
    <3>1. b # <<>>
      BY <1>1, <2>1
    <3>2. PICK r \in Seq(LineSet) :
            /\ r = Tail(b) /\ Len(r) = Len(b) - 1
            /\ \A i \in 1 .. Len(b) - 1 : r[i] = b[i + 1]
      <4>1. Tail(b) \in Seq(LineSet) /\ Len(Tail(b)) = Len(b) - 1
        BY <3>1
      <4>2. \A i \in 1 .. Len(b) - 1 : Tail(b)[i] = b[i + 1]
        BY <3>1
      <4> QED BY <4>1, <4>2
    <3>3. PICK d \in Seq(LineSet) : d = <<x>> /\ Len(d) = 1 /\ d[1] = x
      <4>1. <<x>> \in Seq(LineSet) /\ Len(<<x>>) = 1 /\ <<x>>[1] = x
        OBVIOUS
      <4> QED BY <4>1
    <3>4. /\ d \o r \in Seq(LineSet) /\ Len(d \o r) = 1 + (Len(b) - 1)
          /\ \A i \in 1 .. Len(d \o r) : (d \o r)[i] = IF i <= 1 THEN d[i] ELSE r[i - 1]
      BY <3>2, <3>3, ConcatProperties
    <3>5. Len(d \o r) = Len(b)
      BY <3>1, <3>4
    <3>6. ASSUME NEW i \in DOMAIN (d \o r)
          PROVE  (d \o r)[i] = x \/ (i \in DOMAIN b /\ (d \o r)[i] = b[i])
      <4>1. i \in 1 .. Len(b) /\ i \in DOMAIN b
        BY <3>4, <3>5
      <4>2. CASE i = 1
        BY <3>3, <3>4, <3>5, <4>1, <4>2
      <4>3. CASE i # 1
        <5>1. i - 1 \in 1 .. Len(b) - 1 /\ (i - 1) + 1 = i /\ ~(i <= 1)
          BY <4>1, <4>3
        <5> QED BY <3>2, <3>4, <3>5, <4>1, <5>1
      <4> QED BY <4>2, <4>3
    <3> QED BY <2>1, <3>2, <3>3, <3>4, <3>5, <3>6
  <2>2. CASE ~half[t]
    BY <2>2
  <2> QED BY <2>1, <2>2
<1>5. /\ lost' = [lost EXCEPT ![t] = l + Len(a) - 1]
      /\ ahead' = [ahead EXCEPT ![t] = <<>>]
      /\ stream' = [stream EXCEPT ![t] = c]
      /\ half' = [half EXCEPT ![t] = FALSE]
  BY <1>1, <1>3, <1>4 DEF TakeAndAbandon
<1>6. l + Len(a) - 1 \in Nat
  BY <1>2
<1>7. /\ ahead' \in [Terminals -> Seq(LineSet)] /\ ahead'[t] = <<>>
      /\ \A u \in Terminals : u # t => ahead'[u] = ahead[u]
  BY <1>5 DEF DeviceShapes
<1>8. /\ stream' \in [Terminals -> Seq(LineSet)] /\ stream'[t] = c
      /\ \A u \in Terminals : u # t => stream'[u] = stream[u]
  BY <1>4, <1>5 DEF DeviceShapes
<1>9. /\ half' \in [Terminals -> BOOLEAN] /\ half'[t] = FALSE
      /\ \A u \in Terminals : u # t => half'[u] = half[u]
  BY <1>5 DEF DeviceShapes
<1>10. /\ lost' \in [Terminals -> Nat] /\ lost'[t] = l + Len(a) - 1
       /\ \A u \in Terminals : u # t => lost'[u] = lost[u]
  BY <1>5, <1>6 DEF DeviceShapes
<1>11. <<>> \o c = c
  BY ConcatEmptySeq
<1>12. Lines(t) = a \o b /\ Lines(t)' = c
  BY <1>1, <1>7, <1>8, <1>11 DEF Lines
<1>13. /\ a \o b \in Seq(LineSet) /\ Len(a \o b) = Len(a) + Len(b) /\ a \o b # <<>>
       /\ Head(a) = (a \o b)[1]
  BY <1>2, TakeLine, ConcatProperties
<1>14. l + Len(a) - 1 + Len(c) + 1 = l + Len(a \o b) /\ l + Len(a) - 1 >= l
  <2>1. PICK m \in Nat, k \in Nat : m = Len(a) /\ k = Len(b) /\ m # 0
    BY <1>2
  <2>2. l + m - 1 + k + 1 = l + (m + k) /\ l + m - 1 >= l
    BY <2>1
  <2> QED BY <1>4, <1>13, <2>1, <2>2
<1>15. ASSUME NEW i \in DOMAIN c
       PROVE  c[i].kind = "torn" \/ \E k \in DOMAIN (a \o b) : c[i] = (a \o b)[k]
  <2>1. CASE c[i] = x
    BY <1>3, <2>1
  <2>2. CASE i \in DOMAIN b /\ c[i] = b[i]
    <3>1. /\ Len(a) + i \in DOMAIN (a \o b)
          /\ (a \o b)[Len(a) + i] = b[i]
      <4>1. i \in 1 .. Len(b) /\ Len(a) + i \in 1 .. Len(a) + Len(b)
        BY <2>2
      <4>2. ~(Len(a) + i <= Len(a)) /\ (Len(a) + i) - Len(a) = i
        BY <4>1
      <4> QED BY <1>13, <4>1, <4>2, ConcatProperties
    <3> QED BY <2>2, <3>1
  <2> QED BY <1>4, <2>1, <2>2
<1>16. NextLine(t) = Lines(t)[1]
  BY <1>1, <1>12, <1>13 DEF NextLine
<1>17. \A i \in DOMAIN (Lines(t)') :
         \/ (Lines(t)')[i].kind = "torn"
         \/ \E k \in DOMAIN Lines(t) : (Lines(t)')[i] = Lines(t)[k]
  BY <1>12, <1>15
<1>18. /\ Lines(t) \in Seq(LineSet) /\ Lines(t)' \in Seq(LineSet) /\ Lines(t) # <<>>
       /\ lost'[t] >= lost[t]
       /\ lost'[t] + Len(Lines(t)') + 1 = lost[t] + Len(Lines(t))
  BY <1>1, <1>10, <1>12, <1>13, <1>14
<1> QED BY <1>7, <1>8, <1>9, <1>10, <1>16, <1>17, <1>18

LEMMA AcceptedStep ==
    ASSUME DeviceInv, NEW t \in Terminals, Accepted(t)
    PROVE  DeviceInv'
<1>1. DeviceShapes /\ Sound(t) /\ FileGranted
  BY DEF DeviceInv
<1>2. /\ UNCHANGED <<command, link, asked, verdict, counted, shown, told, sent, early, granted>>
      /\ command[t] = "connect" /\ stage[t] = "hello" /\ TakeAndAbandon(t)
      /\ NextLine(t).kind = "hello_ack"
      /\ \/ file' = "torn" /\ stage' = [stage EXCEPT ![t] = "saving"]
         \/ file' = file /\ stage' = [stage EXCEPT ![t] = "unsaved"]
  BY DEF Accepted, Waiting, user
<1>3. half[t] => stream[t] # <<>>
  BY <1>1 DEF Sound, Placed
<1>4. /\ ahead' \in [Terminals -> Seq(LineSet)] /\ stream' \in [Terminals -> Seq(LineSet)]
      /\ half' \in [Terminals -> BOOLEAN] /\ lost' \in [Terminals -> Nat]
      /\ \A u \in Terminals : u # t =>
            /\ ahead'[u] = ahead[u] /\ stream'[u] = stream[u] /\ half'[u] = half[u]
            /\ lost'[u] = lost[u]
      /\ half'[t] = FALSE
  BY <1>1, <1>2, <1>3, Abandoned
<1>5. PICK ls \in Seq(LineSet), ms \in Seq(LineSet) :
        /\ ls = Lines(t) /\ ms = Lines(t)' /\ ls # <<>> /\ NextLine(t) = ls[1]
        /\ lost'[t] >= lost[t] /\ lost'[t] + Len(ms) + 1 = lost[t] + Len(ls)
        /\ \A i \in DOMAIN ms : \/ ms[i].kind = "torn"
                                \/ \E k \in DOMAIN ls : ms[i] = ls[k]
  BY <1>1, <1>2, <1>3, Abandoned
<1>6. stage'[t] \in {"saving", "unsaved"}
  BY <1>1, <1>2 DEF DeviceShapes
<1>7. DeviceShapes'
  BY <1>1, <1>2, <1>4 DEF DeviceShapes
<1>8. FileGranted'
  BY <1>1, <1>2 DEF FileGranted
<1>9. \A u \in Terminals : u # t => Same(u)
  BY <1>1, <1>2, <1>4 DEF DeviceShapes, Same
<1>10. link[t] \in {"open", "down"}
  BY <1>1, <1>2 DEF Sound, Placed, Running
<1>11. Placed(t)'
  BY <1>2, <1>4, <1>6, <1>10, NothingAssumption DEF Placed, Running
<1>12. Acked(t)'
  <2>1. \A i \in DOMAIN ls : ls[i].kind = "hello_ack" => t \in granted
    BY <1>1, <1>5 DEF Sound, Acked
  <2>2. \A i \in DOMAIN ms : ms[i].kind = "hello_ack" => t \in granted
    BY <1>5, <2>1
  <2>3. 1 \in DOMAIN ls
    BY <1>5
  <2>4. t \in granted
    BY <1>2, <1>5, <2>1, <2>3
  <2> QED BY <1>2, <2>4 DEF Acked
<1>13. Unread(t)' /\ Printed(t)'
  BY <1>2, <1>6 DEF Unread, Printed
<1>14. Accounted(t)'
  <2> SUFFICES ASSUME link[t] = "open" PROVE Accounted(t)'
    BY <1>2 DEF Accounted
  <2>1. Len(ls) = sent[t] /\ counted[t] = 0 /\ lost[t] = 0
    BY <1>1, <1>2, <1>5 DEF Sound, Unread
  <2>2. lost'[t] + Len(ms) + 1 = sent[t]
    BY <1>5, <2>1
  <2> QED BY <1>2, <1>5, <1>6, <2>1, <2>2 DEF Accounted
<1>15. Undisturbed(t)'
  <2> SUFFICES ASSUME link[t] = "open", told[t] = 0 PROVE Undisturbed(t)'
    BY <1>2 DEF Undisturbed
  <2>1. Len(ls) + Len(asked[t]) = 1
    BY <1>1, <1>2, <1>5 DEF Sound, Undisturbed
  <2>2. PICK q \in Seq(DeviceMessages), l \in Nat, m \in Nat :
            q = asked[t] /\ l = lost[t] /\ m = lost'[t]
    BY <1>1, <1>4 DEF DeviceShapes
  <2>3. Len(ls) \in Nat \ {0} /\ Len(ms) \in Nat /\ Len(q) \in Nat
    BY <1>5
  <2>4. Len(ls) = 1 /\ Len(q) = 0
    <3>1. Len(ls) + Len(q) = 1
      BY <2>1, <2>2
    <3>2. PICK i \in Nat, k \in Nat : i = Len(ls) /\ k = Len(q) /\ i # 0
      BY <2>3
    <3>3. i + k = 1 => i = 1 /\ k = 0
      BY <3>2
    <3> QED BY <3>1, <3>2, <3>3
  <2>5. Len(ms) = 0
    BY <1>5, <2>2, <2>3, <2>4
  <2>6. asked'[t] = <<>> /\ Lines(t)' = <<>>
    BY <1>2, <1>5, <2>2, <2>4, <2>5
  <2> QED BY <1>6, <2>6 DEF Undisturbed
<1>16. Caused(t)'
  BY <1>1, <1>2 DEF Sound, Caused
<1> QED BY <1>7, <1>8, <1>9, <1>11, <1>12, <1>13, <1>14, <1>15, <1>16, OneTerminal DEF Sound

LEMMA PongStep ==
    ASSUME DeviceInv, NEW t \in Terminals, Pong(t)
    PROVE  DeviceInv'
<1>1. DeviceShapes /\ Sound(t) /\ FileGranted
  BY DEF DeviceInv
<1>2. /\ UNCHANGED <<command, link, asked, shown, file, told, sent, early, granted>>
      /\ stage[t] = "ping" /\ TakeAndAbandon(t)
      /\ counted' = [counted EXCEPT ![t] = @ + 1]
      /\ verdict' = [verdict EXCEPT ![t] =
                        IF NextLine(t).kind = "pong" THEN "healthy" ELSE "doubtful"]
      /\ stage' = [stage EXCEPT ![t] = "counting"]
  BY DEF Pong
<1>3. half[t] => stream[t] # <<>>
  BY <1>1 DEF Sound, Placed
<1>4. /\ ahead' \in [Terminals -> Seq(LineSet)] /\ stream' \in [Terminals -> Seq(LineSet)]
      /\ half' \in [Terminals -> BOOLEAN] /\ lost' \in [Terminals -> Nat]
      /\ \A u \in Terminals : u # t =>
            /\ ahead'[u] = ahead[u] /\ stream'[u] = stream[u] /\ half'[u] = half[u]
            /\ lost'[u] = lost[u]
      /\ half'[t] = FALSE
  BY <1>1, <1>2, <1>3, Abandoned
<1>5. PICK ls \in Seq(LineSet), ms \in Seq(LineSet) :
        /\ ls = Lines(t) /\ ms = Lines(t)' /\ ls # <<>> /\ NextLine(t) = ls[1]
        /\ lost'[t] + Len(ms) + 1 = lost[t] + Len(ls)
        /\ \A i \in DOMAIN ms : \/ ms[i].kind = "torn"
                                \/ \E k \in DOMAIN ls : ms[i] = ls[k]
  BY <1>1, <1>2, <1>3, Abandoned
<1>6. /\ stage'[t] = "counting" /\ counted'[t] = counted[t] + 1
      /\ verdict'[t] = IF ls[1].kind = "pong" THEN "healthy" ELSE "doubtful"
  BY <1>1, <1>2, <1>5 DEF DeviceShapes
<1>7. DeviceShapes'
  <2>1. counted' \in [Terminals -> Nat]
    BY <1>1, <1>2 DEF DeviceShapes
  <2>2. verdict' \in [Terminals -> {Nothing, "refused", "healthy", "doubtful", "timeout"}]
    BY <1>1, <1>2 DEF DeviceShapes
  <2> QED BY <1>1, <1>2, <1>4, <2>1, <2>2 DEF DeviceShapes
<1>8. FileGranted'
  BY <1>1, <1>2 DEF FileGranted
<1>9. \A u \in Terminals : u # t => Same(u)
  BY <1>1, <1>2, <1>4 DEF DeviceShapes, Same
<1>10. link[t] \in {"open", "down"} /\ command[t] = "connect"
  BY <1>1, <1>2 DEF Sound, Placed, Running
<1>11. Placed(t)'
  BY <1>2, <1>4, <1>6, <1>10, NothingAssumption DEF Placed, Running
<1>12. Acked(t)'
  <2>1. \A i \in DOMAIN ls : ls[i].kind = "hello_ack" => t \in granted
    BY <1>1, <1>5 DEF Sound, Acked
  <2>2. \A i \in DOMAIN ms : ms[i].kind = "hello_ack" => t \in granted
    BY <1>5, <2>1
  <2> QED BY <1>2, <1>5, <1>6, <2>2 DEF Acked
<1>13. Unread(t)' /\ Printed(t)' /\ Undisturbed(t)'
  BY <1>2, <1>6, <1>10 DEF Unread, Printed, Undisturbed
<1>14. Accounted(t)'
  <2> SUFFICES ASSUME link[t] = "open" PROVE Accounted(t)'
    BY <1>2 DEF Accounted
  <2>1. counted[t] + lost[t] + Len(ls) = sent[t]
    BY <1>1, <1>2, <1>5 DEF Sound, Accounted
  <2>2. PICK c \in Nat, l \in Nat, k \in Nat, m \in Nat, n \in Nat :
            /\ c = counted[t] /\ l = lost[t] /\ k = lost'[t] /\ m = Len(ls) /\ n = Len(ms)
    <3>1. counted[t] \in Nat /\ lost[t] \in Nat /\ lost'[t] \in Nat
      BY <1>1, <1>4 DEF DeviceShapes
    <3>2. Len(ls) \in Nat /\ Len(ms) \in Nat
      OBVIOUS
    <3> QED BY <3>1, <3>2
  <2>3. k + n + 1 = l + m => c + 1 + k + n = c + l + m
    OBVIOUS
  <2>4. counted'[t] + lost'[t] + Len(ms) = sent'[t]
    BY <1>2, <1>5, <1>6, <2>1, <2>2, <2>3
  <2> QED BY <1>5, <1>6, <2>4 DEF Accounted
<1>15. Caused(t)'
  <2>1. verdict'[t] = "doubtful" => link[t] = "down" \/ told[t] > 0
    <3> SUFFICES ASSUME link[t] = "open", told[t] = 0 PROVE ls[1].kind = "pong"
      BY <1>1, <1>6, <1>10 DEF DeviceShapes
    <3> QED BY <1>1, <1>2, <1>5 DEF Sound, Undisturbed
  <2>2. verdict'[t] # "refused"
    BY <1>6
  <2> QED BY <1>2, <2>1, <2>2 DEF Caused
<1> QED BY <1>7, <1>8, <1>9, <1>11, <1>12, <1>13, <1>14, <1>15, OneTerminal DEF Sound

LEMMA CountStep ==
    ASSUME DeviceInv, NEW t \in Terminals, Count(t)
    PROVE  DeviceInv'
<1>1. DeviceShapes /\ Sound(t) /\ FileGranted
  BY DEF DeviceInv
<1>2. /\ UNCHANGED <<command, stage, link, asked, verdict, shown, file, told, sent, lost,
                     early, granted>>
      /\ stage[t] = "counting" /\ Take(t) /\ counted' = [counted EXCEPT ![t] = @ + 1]
  BY DEF Count
<1>3. /\ ahead' \in [Terminals -> Seq(LineSet)] /\ UNCHANGED <<stream, half>>
      /\ \A u \in Terminals : u # t => ahead'[u] = ahead[u]
  BY <1>1, <1>2, TakenLine
<1>4. PICK ls \in Seq(LineSet), ms \in Seq(LineSet) :
        /\ ls = Lines(t) /\ ms = Lines(t)' /\ ls # <<>> /\ Len(ms) = Len(ls) - 1
        /\ \A i \in DOMAIN ms : i + 1 \in DOMAIN ls /\ ms[i] = ls[i + 1]
  BY <1>1, <1>2, TakenLine
<1>5. counted'[t] = counted[t] + 1 /\ counted' \in [Terminals -> Nat]
  BY <1>1, <1>2 DEF DeviceShapes
<1>6. DeviceShapes'
  BY <1>1, <1>2, <1>3, <1>5 DEF DeviceShapes
<1>7. FileGranted'
  BY <1>1, <1>2 DEF FileGranted
<1>8. \A u \in Terminals : u # t => Same(u)
  BY <1>1, <1>2, <1>3 DEF DeviceShapes, Same
<1>9. Placed(t)'
  BY <1>1, <1>2, <1>3, NothingAssumption DEF Sound, Placed, Running
<1>10. Acked(t)'
  <2>1. \A i \in DOMAIN ls : ls[i].kind = "hello_ack" => t \in granted
    BY <1>1, <1>4 DEF Sound, Acked
  <2>2. \A i \in DOMAIN ms : ms[i].kind = "hello_ack" => t \in granted
    BY <1>4, <2>1
  <2> QED BY <1>2, <1>4, <2>2 DEF Acked
<1>11. Unread(t)' /\ Printed(t)' /\ Undisturbed(t)'
  BY <1>1, <1>2 DEF Sound, Placed, Unread, Printed, Undisturbed
<1>12. Accounted(t)'
  <2> SUFFICES ASSUME link[t] = "open" PROVE Accounted(t)'
    BY <1>2 DEF Accounted
  <2>1. counted[t] + lost[t] + Len(ls) = sent[t]
    BY <1>1, <1>2, <1>4 DEF Sound, Accounted
  <2>2. PICK c \in Nat, l \in Nat, m \in Nat, n \in Nat :
            /\ c = counted[t] /\ l = lost[t] /\ m = Len(ls) /\ n = Len(ms)
    BY <1>1 DEF DeviceShapes
  <2>3. n = m - 1 => c + 1 + l + n = c + l + m
    OBVIOUS
  <2>4. counted'[t] + lost'[t] + Len(ms) = sent'[t]
    BY <1>2, <1>4, <1>5, <2>1, <2>2, <2>3
  <2> QED BY <1>2, <1>4, <2>4 DEF Accounted
<1>13. Caused(t)'
  BY <1>1, <1>2 DEF Sound, Caused
<1> QED BY <1>6, <1>7, <1>8, <1>9, <1>10, <1>11, <1>12, <1>13, OneTerminal DEF Sound

LEMMA MonitorStep ==
    ASSUME DeviceInv, NEW t \in Terminals, MonitorStarts(t) \/ PrintUpdate(t)
    PROVE  DeviceInv'
<1>1. DeviceShapes /\ Sound(t) /\ FileGranted
  BY DEF DeviceInv
<1>2. /\ UNCHANGED <<command, link, asked, verdict, counted, file, told, sent, lost, early,
                     granted>>
      /\ command[t] = "monitor" /\ Take(t)
      /\ stage[t] \in {"hello", "printing"} /\ stage' = [stage EXCEPT ![t] = "printing"]
      /\ stage[t] = "hello" => shown' = shown
      /\ stage[t] = "printing" =>
            shown' = [shown EXCEPT ![t] = IF NextLine(t).kind = "progress_broadcast"
                                          THEN Append(@, NextLine(t).n) ELSE @]
  <2>1. CASE MonitorStarts(t)
    BY <2>1 DEF MonitorStarts, Waiting, user
  <2>2. CASE PrintUpdate(t)
    <3>1. stage' = [stage EXCEPT ![t] = "printing"]
      BY <1>1, <2>2 DEF DeviceShapes, PrintUpdate
    <3> QED BY <1>1, <2>2, <3>1 DEF PrintUpdate, Sound, Placed
  <2> QED BY <2>1, <2>2
<1>3. /\ ahead' \in [Terminals -> Seq(LineSet)] /\ UNCHANGED <<stream, half>>
      /\ \A u \in Terminals : u # t => ahead'[u] = ahead[u]
  BY <1>1, <1>2, TakenLine
<1>4. PICK ls \in Seq(LineSet), ms \in Seq(LineSet) :
        /\ ls = Lines(t) /\ ms = Lines(t)' /\ ls # <<>> /\ Len(ms) = Len(ls) - 1
        /\ NextLine(t) = ls[1]
        /\ \A i \in DOMAIN ms : i + 1 \in DOMAIN ls /\ ms[i] = ls[i + 1]
  BY <1>1, <1>2, TakenLine
<1>5. PICK sh \in Seq(Nat), ts \in Seq(Nat) :
        /\ sh = shown[t] /\ shown' = [shown EXCEPT ![t] = ts]
        /\ stage[t] = "hello" => ts = sh
        /\ stage[t] = "printing" =>
             ts = IF ls[1].kind = "progress_broadcast" THEN Append(sh, ls[1].n) ELSE sh
  <2>1. PICK sh \in Seq(Nat) : sh = shown[t]
    BY <1>1 DEF DeviceShapes
  <2>2. PICK new \in Nat : new = ls[1].n
    <3>1. ls[1] \in LineSet
      BY <1>4
    <3> QED BY <3>1 DEF LineSet
  <2>3. PICK ts \in Seq(Nat) :
          /\ stage[t] = "hello" => ts = sh
          /\ stage[t] = "printing" =>
               ts = IF ls[1].kind = "progress_broadcast" THEN Append(sh, new) ELSE sh
    <3>1. Append(sh, new) \in Seq(Nat)
      OBVIOUS
    <3> QED BY <1>2, <3>1
  <2>4. shown' = [shown EXCEPT ![t] = ts]
    <3>1. CASE stage[t] = "hello"
      BY <1>1, <1>2, <2>1, <2>3, <3>1 DEF DeviceShapes
    <3>2. CASE stage[t] = "printing"
      BY <1>2, <1>4, <2>1, <2>2, <2>3, <3>2
    <3> QED BY <1>2, <3>1, <3>2
  <2> QED BY <2>1, <2>2, <2>3, <2>4
<1>6. shown' \in [Terminals -> Seq(Nat)] /\ shown'[t] = ts /\ stage'[t] = "printing"
  BY <1>1, <1>2, <1>5 DEF DeviceShapes
<1>7. DeviceShapes'
  BY <1>1, <1>2, <1>3, <1>6 DEF DeviceShapes
<1>8. FileGranted'
  BY <1>1, <1>2 DEF FileGranted
<1>9. \A u \in Terminals : u # t => Same(u)
  BY <1>1, <1>2, <1>3, <1>5 DEF DeviceShapes, Same
<1>10. Placed(t)'
  BY <1>1, <1>2, <1>3, <1>6, NothingAssumption DEF Sound, Placed, Running
<1>11. Acked(t)'
  <2>1. \A i \in DOMAIN ls : ls[i].kind = "hello_ack" => t \in granted
    BY <1>1, <1>4 DEF Sound, Acked
  <2>2. \A i \in DOMAIN ms : ms[i].kind = "hello_ack" => t \in granted
    BY <1>4, <2>1
  <2> QED BY <1>2, <1>4, <1>6, <2>2 DEF Acked
<1>12. Unread(t)' /\ Accounted(t)' /\ Undisturbed(t)'
  BY <1>6 DEF Unread, Accounted, Undisturbed
<1>13. Printed(t)'
  <2> SUFFICES ASSUME link[t] = "open" PROVE Printed(t)'
    BY <1>2 DEF Printed
  <2>1. PICK n \in Nat, f \in {0, 1} : n = told[t] /\ f = IF t \in early THEN 1 ELSE 0
    BY <1>1 DEF DeviceShapes
  <2>2. CASE stage[t] = "hello"
    <3>1. sh = <<>> /\ (t \notin early => ls[1].kind # "progress_broadcast")
      BY <1>1, <1>4, <1>5, <2>2 DEF Sound, Unread
    <3>2. InOrder(sh, ls, n, 0)
      BY <1>1, <1>2, <1>4, <1>5, <2>1, <2>2 DEF Sound, Printed
    <3>3. InOrder(<<>>, ms, n, f)
      BY <1>4, <2>1, <3>1, <3>2, OrderSkip
    <3> QED BY <1>2, <1>4, <1>5, <1>6, <2>1, <2>2, <3>1, <3>3 DEF Printed
  <2>3. CASE stage[t] = "printing"
    <3>1. InOrder(sh, ls, n, f)
      BY <1>1, <1>2, <1>4, <1>5, <2>1, <2>3 DEF Sound, Printed
    <3>2. InOrder(IF ls[1].kind = "progress_broadcast" THEN Append(sh, ls[1].n) ELSE sh,
                  ms, n, f)
      BY <1>4, <3>1, OrderTake
    <3>3. InOrder(ts, ms, n, f)
      BY <1>5, <2>3, <3>2
    <3> QED BY <1>2, <1>4, <1>6, <2>1, <3>3 DEF Printed
  <2> QED BY <1>2, <2>2, <2>3
<1>14. Caused(t)'
  BY <1>1, <1>2 DEF Sound, Caused
<1> QED BY <1>7, <1>8, <1>9, <1>10, <1>11, <1>12, <1>13, <1>14, OneTerminal DEF Sound

\* Every way a command returns: its user, the end of the connection, a line that
\* tells it to, or a timer.
LEMMA ReturnStep ==
    ASSUME DeviceInv, NEW t \in Terminals,
           Refused(t) \/ Leaves(t) \/ Checked(t) \/ Interrupt(t)
    PROVE  DeviceInv'
<1>1. DeviceShapes /\ Sound(t)
  BY DEF DeviceInv
<1>2. PICK ls \in Seq(LineSet) : ls = Lines(t) /\ (ahead[t] # <<>> => ls # <<>> /\ NextLine(t) = ls[1])
  <2>1. Lines(t) \in Seq(LineSet)
    BY <1>1, LinesAreLines
  <2>2. ahead[t] # <<>> => Lines(t) # <<>> /\ NextLine(t) = Lines(t)[1]
    <3>1. PICK a \in Seq(LineSet), b \in Seq(LineSet) : a = ahead[t] /\ b = stream[t]
      BY <1>1 DEF DeviceShapes
    <3>2. a # <<>> => Head(a) = (a \o b)[1] /\ a \o b # <<>>
      BY TakeLine
    <3>3. NextLine(t) = Head(a) /\ Lines(t) = a \o b
      BY <3>1 DEF Lines, NextLine
    <3> QED BY <3>1, <3>2, <3>3
  <2> QED BY <2>1, <2>2
<1>3. stage[t] \in Running => link[t] \in {"open", "down"} /\ verdict[t] # "refused"
  BY <1>1 DEF Sound, Placed, Caused, Running
<1>4. verdict[t] \in {Nothing, "refused", "healthy", "doubtful", "timeout"}
      /\ (verdict[t] = "doubtful" => link[t] = "down" \/ told[t] > 0)
  BY <1>1 DEF DeviceShapes, Sound, Caused
<1>5. CASE Refused(t)
  <2>1. /\ command[t] = "connect" /\ stage[t] = "hello" /\ EndCommand(t, "refused")
        /\ link[t] = "down" \/ (ahead[t] # <<>> /\ NextLine(t).kind # "hello_ack")
    BY <1>5 DEF Refused, Waiting, AtEOF
  <2>2. stage[t] \in Running
    BY <2>1 DEF Running
  <2>3. link[t] = "down" \/ t \in early \/ t \notin granted
    <3> SUFFICES ASSUME link[t] = "open", t \notin early, t \in granted PROVE FALSE
      BY <1>3, <2>2
    <3>1. ls # <<>> /\ ls[1].kind # "hello_ack"
      BY <1>2, <2>1
    <3> QED BY <1>1, <1>2, <2>1, <3>1 DEF Sound, Unread
  <2> QED BY <2>1, <2>2, <2>3, EndCommandStep
<1>6. CASE Leaves(t) \/ Interrupt(t)
  <2>1. EndCommand(t, verdict[t]) /\ stage[t] \in Running
    <3>1. CASE Leaves(t)
      <4>1. CASE stage[t] = "closing"
        BY <3>1, <4>1 DEF Leaves, Running
      <4>2. CASE command[t] = "monitor" /\ AtEOF(t) /\ stage[t] # "ended"
        BY <1>1, <3>1, <4>2 DEF Leaves, AtEOF, Sound, Placed
      <4> QED BY <3>1, <4>1, <4>2 DEF Leaves
    <3>2. CASE Interrupt(t)
      <4>1. stage[t] # "ended" /\ stage[t] # "off" /\ EndCommand(t, verdict[t])
        BY <1>1, <3>2, NothingAssumption DEF Interrupt, Sound, Placed
      <4> QED BY <1>1, <4>1 DEF DeviceShapes, Running
    <3> QED BY <1>6, <3>1, <3>2
  <2>2. PICK what : what = verdict[t]
    OBVIOUS
  <2> QED BY <1>3, <1>4, <2>1, <2>2, EndCommandStep
<1>7. CASE Checked(t)
  <2>1. stage[t] = "checking" /\ stage[t] \in Running /\ command[t] = "check"
    BY <1>1, <1>7 DEF Checked, Running, Sound, Placed
  <2>2. CASE AtEOF(t) /\ EndCommand(t, "refused")
    BY <2>1, <2>2, EndCommandStep DEF AtEOF
  <2>3. CASE EndCommand(t, "timeout")
    BY <2>1, <2>3, EndCommandStep
  <2>4. CASE EndCommand(t, "healthy")
    BY <2>1, <2>4, EndCommandStep
  <2>5. CASE ahead[t] # <<>> /\ NextLine(t).kind # "health_ok" /\ EndCommand(t, "refused")
    <3>1. link[t] = "down" \/ t \in early
      <4> SUFFICES ASSUME link[t] = "open", t \notin early PROVE FALSE
        BY <1>3, <2>1
      <4>1. ls # <<>> /\ ls[1].kind # "health_ok"
        BY <1>2, <2>5
      <4> QED BY <1>1, <1>2, <2>1, <4>1 DEF Sound, Unread
    <3> QED BY <2>1, <2>5, <3>1, EndCommandStep
  <2> QED BY <1>7, <2>2, <2>3, <2>4, <2>5 DEF Checked
<1> QED BY <1>5, <1>6, <1>7

-----------------------------------------------------------------------------
(* The device.                                                             *)

LEMMA DeviceInitInv ==
    ASSUME DeviceInit
    PROVE  DeviceInv
<1>1. DeviceShapes
  <2>1. /\ <<>> \in Seq(DeviceMessages) /\ <<>> \in Seq(LineSet) /\ <<>> \in Seq(Nat)
    OBVIOUS
  <2> QED BY <2>1 DEF DeviceInit, DeviceShapes
<1>2. FileGranted
  BY DEF DeviceInit, FileGranted
<1>3. ASSUME NEW t \in Terminals PROVE Sound(t)
  <2>1. /\ command[t] = Nothing /\ stage[t] = "off" /\ link[t] = "none" /\ half[t] = FALSE
        /\ verdict[t] = Nothing /\ Before(t)
    BY DEF DeviceInit, Before
  <2>2. Lines(t) = <<>>
    BY DEF DeviceInit, Lines
  <2>3. Placed(t)
    BY <2>1, NothingAssumption DEF Placed, Running
  <2>4. Acked(t)
    BY <2>1, <2>2 DEF Acked
  <2>5. Unread(t) /\ Accounted(t) /\ Undisturbed(t) /\ Printed(t)
    BY <2>1 DEF Unread, Accounted, Undisturbed, Printed
  <2>6. Caused(t)
    BY <2>1, NothingAssumption DEF Caused
  <2> QED BY <2>3, <2>4, <2>5, <2>6 DEF Sound
<1> QED BY <1>1, <1>2, <1>3 DEF DeviceInv

LEMMA DeviceNextInv ==
    ASSUME DeviceInv, DeviceNext
    PROVE  DeviceInv'
<1>1. PICK t \in Terminals :
        \/ Connect(t) \/ Monitor(t) \/ Disconnect(t) \/ CheckTCP(t)
        \/ \E what \in {"connect", "monitor", "disconnect", "check"} : DialFails(t, what)
        \/ Answer(t) \/ Broadcast(t) \/ Lose(t) \/ Step(t) \/ Interrupt(t)
  BY DEF DeviceNext
<1>2. CASE Connect(t)
  <2>1. PICK messages : /\ Dial(t, "connect", messages, "hello")
                        /\ Opening("connect", "hello", messages)
    BY <1>2 DEF Connect, Opening
  <2> QED BY <2>1, DialStep
<1>3. CASE Monitor(t)
  <2>1. PICK messages : /\ Dial(t, "monitor", messages, "hello")
                        /\ Opening("monitor", "hello", messages)
    BY <1>3 DEF Monitor, Opening
  <2> QED BY <2>1, DialStep
<1>4. CASE Disconnect(t)
  <2>1. PICK messages : /\ Dial(t, "disconnect", messages, "closing")
                        /\ Opening("disconnect", "closing", messages)
    BY <1>4 DEF Disconnect, Opening
  <2> QED BY <2>1, DialStep
<1>5. CASE CheckTCP(t)
  <2>1. PICK messages : /\ Dial(t, "check", messages, "checking")
                        /\ Opening("check", "checking", messages)
    BY <1>5 DEF CheckTCP, Opening
  <2> QED BY <2>1, DialStep
<1>6. CASE \E what \in {"connect", "monitor", "disconnect", "check"} : DialFails(t, what)
  BY <1>6, DialFailsStep
<1>7. CASE Answer(t)
  BY <1>7, AnswerStep
<1>8. CASE Broadcast(t)
  BY <1>8, BroadcastStep
<1>9. CASE Lose(t)
  BY <1>9, LoseStep
<1>10. CASE Step(t) \/ Interrupt(t)
  BY <1>10, FillStep, AcceptedStep, PingStep, PongStep, LostStep, CountStep, MonitorStep,
     ReturnStep DEF Step
<1> QED BY <1>1, <1>2, <1>3, <1>4, <1>5, <1>6, <1>7, <1>8, <1>9, <1>10

\* In every state of the device every terminal's lines are accounted for: what it
\* has read, what is before it, what it lost.
THEOREM DeviceInvariance == DeviceSpec => []DeviceInv
<1>1. DeviceInit => DeviceInv
  BY DeviceInitInv
<1>2. DeviceInv /\ [DeviceNext]_deviceVars => DeviceInv'
  <2> SUFFICES ASSUME DeviceInv, [DeviceNext]_deviceVars PROVE DeviceInv'
    OBVIOUS
  <2>1. CASE DeviceNext
    BY <2>1, DeviceNextInv
  <2>2. CASE UNCHANGED deviceVars
    <3>1. DeviceShapes' /\ FileGranted'
      BY <2>2 DEF deviceVars, DeviceInv, DeviceShapes, FileGranted
    <3>2. \A t \in Terminals : Sound(t)'
      BY <2>2, SameSound DEF deviceVars, DeviceInv, Same
    <3> QED BY <3>1, <3>2 DEF DeviceInv
  <2> QED BY <2>1, <2>2
<1> QED BY <1>1, <1>2, PTL DEF DeviceSpec

\* Types, and no line is unaccounted for: what sync connect has counted, what its
\* abandoned scanners lost and what is still before it are all it was sent.
THEOREM DeviceTypes == DeviceSpec => []DeviceTypeOK
<1>1. ASSUME DeviceInv PROVE DeviceTypeOK
  <2>1. DeviceShapes
    BY <1>1 DEF DeviceInv
  <2>2. ASSUME NEW t \in Terminals
        PROVE  /\ half[t] => stream[t] # <<>>
               /\ stage[t] \in {"ping", "counting"} /\ link[t] = "open" =>
                    counted[t] + lost[t] + Len(ahead[t]) + Len(stream[t]) = sent[t]
    <3>1. half[t] => stream[t] # <<>>
      BY <1>1 DEF DeviceInv, Sound, Placed
    <3>2. stage[t] \in {"ping", "counting"} /\ link[t] = "open" =>
            counted[t] + lost[t] + Len(Lines(t)) = sent[t]
      BY <1>1 DEF DeviceInv, Sound, Accounted
    <3>3. PICK a \in Seq(LineSet), b \in Seq(LineSet), c \in Nat, l \in Nat :
            /\ a = ahead[t] /\ b = stream[t] /\ c = counted[t] /\ l = lost[t]
            /\ Len(Lines(t)) = Len(a) + Len(b)
      BY <2>1, LinesAreLines DEF DeviceShapes
    <3>4. c + l + (Len(a) + Len(b)) = c + l + Len(a) + Len(b)
      OBVIOUS
    <3> QED BY <3>1, <3>2, <3>3, <3>4
  <2> QED BY <2>1, <2>2 DEF DeviceTypeOK, DeviceShapes
<1> QED BY <1>1, DeviceInvariance, PTL

\* A refusal or a doubtful ping has its cause.
THEOREM RefusedForCause == DeviceSpec => []RefusalsHaveCause
<1>1. ASSUME DeviceInv PROVE RefusalsHaveCause
  BY <1>1 DEF DeviceInv, Sound, Caused, RefusalsHaveCause
<1> QED BY <1>1, DeviceInvariance, PTL

\* What sync status shows was granted by the server.
THEOREM ShownWasGranted == DeviceSpec => []ShownSessionIsGranted
<1>1. ASSUME DeviceInv PROVE ShownSessionIsGranted
  BY <1>1 DEF DeviceInv, FileGranted, ShownSessionIsGranted, Status
<1> QED BY <1>1, DeviceInvariance, PTL

\* A monitor prints every broadcast, in order, but possibly the first of all.
THEOREM MonitorPrintsAll == DeviceSpec => []MonitorShowsAll
<1>1. ASSUME DeviceInv PROVE MonitorShowsAll
  <2> SUFFICES ASSUME NEW t \in Terminals, stage[t] = "printing", link[t] = "open"
               PROVE
            /\ \A i, k \in DOMAIN shown[t] : i < k => shown[t][i] < shown[t][k]
            /\ \A i, k \in Updates(t) : i < k => Lines(t)[i].n < Lines(t)[k].n
            /\ \A i \in DOMAIN shown[t], k \in Updates(t) : shown[t][i] < Lines(t)[k].n
            /\ \A n \in 1 .. told[t] :
                \/ \E i \in DOMAIN shown[t] : shown[t][i] = n
                \/ \E k \in Updates(t) : Lines(t)[k].n = n
                \/ n = 1 /\ t \in early
    BY DEF MonitorShowsAll
  <2>1. PICK sh, ls, n, f : /\ sh = shown[t] /\ ls = Lines(t) /\ n = told[t]
                            /\ f = IF t \in early THEN 1 ELSE 0
    OBVIOUS
  <2>2. InOrder(sh, ls, n, f)
    BY <1>1, <2>1 DEF DeviceInv, Sound, Placed, Printed
  <2>3. Updates(t) = UpdatesIn(ls)
    BY <2>1 DEF Updates, UpdatesIn
  <2>4. \A m \in 1 .. n : m <= f => m = 1 /\ t \in early
    <3>1. n \in Nat
      BY <1>1, <2>1 DEF DeviceInv, DeviceShapes
    <3>2. f \in {0, 1} /\ (f = 1 => t \in early)
      BY <2>1
    <3> QED BY <3>1, <3>2
  <2> QED BY <2>1, <2>2, <2>3, <2>4 DEF InOrder
<1> QED BY <1>1, DeviceInvariance, PTL

=============================================================================
