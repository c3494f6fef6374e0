# MangaHub, specified and verified

TLA+ specifications of MangaHub, the manga tracker of this repository: what its
parts do between any two steps of one another, which of the properties a reader
would expect of them hold, and which do not. TLC checks every specification on
small instances; TLAPS proves the safety properties of every part (the reading
library, the cache, the catalogue, the data collector, reviews, accounts and
sessions, a terminal's token file, the chat hub and its client, both ends of the
synchronization, notifications) for every number of users, manga, requests,
connections, terminals, messages and keys.

- [The system](#the-system): parts, state, interaction, what is hard
- [The specifications](#the-specifications): module by module, how state and
  actions correspond to the code, what is checked and with which bounds
- [Fairness](#fairness)
- [Proofs](#proofs)
- [What the checks found](#what-the-checks-found)
- [What is left out](#what-is-left-out)
- [Plan](#plan)
- [Running it](#running-it)

## The system

Four Go servers, a command line client and a batch tool. `docker-compose.yml`
runs the HTTP, TCP and gRPC servers as separate processes on **one** SQLite
file, with `restart: unless-stopped`; the UDP server has no database, Redis is
optional.

| Part | State it keeps | Operations | Module |
|---|---|---|---|
| Reading library (`internal/user`, `pkg/database/library_repository.go`, `progress_repository.go`) | tables `user_progress`, `user_progress_history` | add, update progress, update status or rating, remove, read | Library, LibraryContract |
| Websocket chat (`internal/websocket`) | the hub's `clients` and `Rooms`, channels `Register`, `Unregister`, `Broadcast`, `Private` | connect, say, leave, private delivery, room listings, stop | ChatHub, RoomFeed |
| Chat history and chat client (`internal/chat`, `chat_repository.go`, `cmd/cli/commands/chat`) | table `chat_messages`; the client's connection, generation and channels | save, read history, join, switch room, quit | ChatView |
| Read cache (`internal/cache`, `*/cache.go`) | in Redis: one version per service and the answers stored under it | look up, store, invalidate | VersionedCache |
| TCP synchronization (`internal/tcp`) | map of connections by remote address; the API's connection to it | hello, progress, progress_broadcast, ping, health, disconnect; dial, publish | TCPSync |
| Device side of the synchronization (`cmd/cli/commands/sync`) | a connection, the buffers of its scanners, the file `.sync_session` | connect, monitor, disconnect, status; the API's health check | SyncDevice |
| Catalogue and start-up (`internal/manga`, `manga_repository.go`, `schema_repository.go`) | table `manga`, its full-text index `manga_fts`, the schema itself | create (replace), update, delete, search; migrate, rebuild, seed | Catalogue |
| Data collector (`internal/data-collector`, `mangahub manga import`) | the seed file | load, fetch, merge, write | Collector, Catalogue (the file) |
| Reviews (`internal/review`, `review_repository.go`, `cmd/cli/commands/review`) | table `reviews` | write, vote, list | Reviews |
| Accounts and sessions (`internal/auth`) | table `users`; revoked tokens in memory | register, login, change password, logout, middleware | Auth |
| Sessions of a terminal (`cmd/cli/commands/auth`) | the token file | login, register, logout, change password, status | Session |
| Notifications (`internal/udp`, `cmd/cli/commands/notify`) | map of addresses by client id, in memory | register, unregister, notify, test, health | Notify |
| gRPC server (`internal/grpc`) | none of its own | the library's update in another process; reads | Library (the update) |
| HTTP shell (`internal/api`) | none | bind, call one service, answer | the module of each service |
| Other commands, configuration, models, generated code | none | one request, one answer | none |

**How the parts interact.** An HTTP request runs in a goroutine, passes the
middleware (Auth), and calls one service. A service issues SQL statements one by
one, *never in a transaction*: each is atomic, also across the three processes,
and any statement of any other request may fall between two of them. After a
write the service increments its cache version in Redis (VersionedCache), and
after a progress update the HTTP handler writes the new progress to its one TCP
connection to the synchronization server (TCPSync), dialled when there is none, which
forwards it to every connected device (SyncDevice); a progress update that reaches the TCP server
itself goes through the same service and is broadcast likewise. Deleting or
replacing a catalogue row cascades through foreign keys into libraries, histories
and reviews (Library, Reviews). The chat handler saves a message and then hands
it to the hub (ChatView over ChatHub). The collector rewrites the file that each
server reads when it finds an empty catalogue (Collector, Catalogue). The
commands of a terminal keep their token in a file that each loads before its
request and some replace after their answer (Session over Auth).

**What is hard here**: check-then-act over two SQL statements; three processes
that bring up one database from a file a fourth truncates; a hub goroutine that
is reader and writer of one channel; broadcasts made by several goroutines for
stores that other goroutines ordered; reads that store into a cache what an
invalidation has overtaken; tokens tested in two steps around a list that is
being purged; a client that switches between connections whose readers still run,
and another that reads one connection through three scanners; a token file
written by commands that are answered in any order; datagrams that are lost.
`PROJECT.json` lists these hazards at their lines with the properties that
would catch them, or why none does.

## The specifications

Each module states at its head what it abstracts. One action is one atomic step
of the code: one SQL statement, one Redis call, one arm of a `select`, one
channel operation, one read or write of a connection or a file, together with
the sequential code up to the next such step. Everything a request or goroutine
remembers between two steps is a variable. `PROJECT.json` maps each definition
to the lines it stands for. A definition whose comment begins with *Mutant* is a
plausible bug; each property is known to fail once the mutant stands in for the
definition that follows it. Variables described as history (ghosts) record the
past for the properties and guard nothing.

Each module has a type invariant, which holds what its variables say of one
another beyond their types: `TypeOK`, in VersionedCache `CacheTypeOK`, in SyncDevice
`DeviceTypeOK` and in Collector `CollectorTypeOK`, since these three are proved about
together with another module and the names would meet. All are proved; the runs
of SyncDevice, Collector, Reviews and Session check theirs besides.

### Library and its contract

`Library` has the three tables as functions and a set, and per request a program
counter, what was read (`limit`, `seen`), what is about to be written (`draft`)
and the row read back (`reply`). `UpdateProgress` (`user/service.go`) is the
chain `ReadManga`, `ReadEntry` (with all checks), `Upsert`, `Reread`,
`InsertHistory`; `AddToLibrary`, `UpdateLibrary` and `RemoveFromLibrary` are
shorter chains. `StatementError` lets any statement fail. `CreateManga`
(`INSERT OR REPLACE`: deletes first, with its cascade), `UpdateManga` and
`DeleteManga` come at any time. Rows keep chapter, volume, status, rating.

`LibraryContract` is what a client may rely on: a request takes effect at most
once and only on its own entry, the row then carries what was asked, "ok" means
it took effect, "refused" that it did not, "failed" that it did although the
client sees an error. `Library` implements it (`ImplementsContract`) under the
mapping at its end.

*Run `library`*: one user, one manga, two requests of six kinds (add beyond the
end, progress back, progress to the end with a volume back, forced progress
beyond the end, a new status, a removal), `total_chapters` 0 (unknown) or 2, the
entry at chapter 1, volume 2, or absent. 20 477 states. Entries of different
keys share no state but the catalogue row, and a race needs two requests and one
entry, so one key shows all pairs; more requests, users and manga are what the
proofs add.

- `ForeignKeys`: nothing outlives its manga, however catalogue statements fall
  between a request's look-up and its insert.
- `HistoryIsProgress`: a history row is the advance its own request checked and
  stored, also when others wrote the entry in between.
- `FreshWritesKeepPlace`, `FreshWritesStayInBounds`: an unforced update can
  regress an entry, and a progress write can pass the last chapter, *only* if the
  row it was computed from has changed since.
- `ImplementsContract`: all of this is one request, taking effect at most once.

### ChatHub

The hub goroutine (`hub.go`) is the variable `hub`: it is at its `select`, or in
the arm that is about to queue an announcement, or stopped. The unbuffered
channels are joint steps of handler and hub (`Register`, `Unregister`); the
buffered ones are sequences of at most `Capacity`. `Deliver` writes a message to
the members of its room, `DeliverPrivate` to the connections of a user; which
writes fail is chosen among the connections whose peer has left. A failed write
ends in `removeClient`, which forgets the connection but not its place in the
room, as the code does. `Stop` is `closeAll`. Handlers move through
`registering`, `reading`, `sending`, `unregistering`; one stops reading when its
connection ends (`ReadError`) or an open one sends what is no message
(`ReadMalformed`). `RoomsUsers` is what the listing of a room returns in a state.

`RoomFeed` is what the peers of a room may rely on. A room has one conversation; of
each peer that has entered it holds "joined" once, "left" at most once and only
after that, and messages 1, 2, ... up to the last, none missing, repeated or out of
place, until it has left. Whoever is `inside` is sent each message of its room in the
step that adds it, and of no other room; a peer that is `gone` is sent nothing more
and does not come back. There are no channels, handlers or failing writes in it.
`ChatHub` implements it under the mapping at its end: a peer is inside while the hub
has its connection and that is open, and a conversation is what `Deliver` has sent.

*Run `chat_hub`*: two connections of two users, of which the second may go to
either of two rooms, channels of two slots so that they fill, one message and
one private message; 129 864 states. Two connections are the least that can be
in one room or in two.

- `ImplementsFeed`: every step is a step of `RoomFeed`, or none of its steps. More
  than the next two: what was said and waits in the channel is *all* delivered,
  whoever fails or leaves meanwhile, as long as the hub runs; an announcement that
  were dropped when the channel is full, as a cure for `JoinIsShown` below, would
  leave a "left" without its "joined".
- `GapFree`: what a peer was sent is a contiguous stretch of its room's
  conversation, while peers come, go and fail.
- `SpokenInOrder`: in a conversation each connection speaks in its own order, is
  announced at most once each way and is silent after it has left.
- `ConnectedAreServed`: an open registered connection is in the map and in its
  room, and in no other; a listing shows a connection that has ended only after
  a write to it has failed (recorded by the history `unreached`).
- `HandlersEnd`: the handler of a peer that has left ends, unless the hub stands
  still or was stopped.

Deadlock is not checked: a stopped hub and the self-blocked hub of the next run
are real ends.

*Run `chat_hub_full`* (channels of one slot): `JoinIsShown`, which the tests
assume, fails. See [findings](#what-the-checks-found).

### ChatView

What appears on a reader's screen. The server side saves and then broadcasts
(`Save`, `Broadcast`, in `handler.go`'s order) to the connections registered by
then; for the hub's part the module takes what ChatHub shows. The client
(`chat_join.go`) has a generation per connection, a reader goroutine per
generation (`ReadMessage`, `ReadFails`, `PushMessage`, `PushError`), two channels
and the main loop (`TakeError`, `TakeMessage`, `TypeText`, `TypeSwitch`, `Switch`,
`PrintHistory`, `InputCloses`). A history is a page of at most `HistoryLimit`
messages (fifty in the code), the newest by the second the server stamped them with
(`Newest`; `At` gives each message its second, in any order, since a clock may be set
back); of messages of one second the query may leave out any. A text written to a
connection that has broken ends the client, or is lost without an error.

*Run `chat_view`*: two rooms, one switch, two messages by the client or others,
channels of one slot (16 and 4 in the code; the shorter, the more they block),
a history of one message, failing inserts, failing history requests, breaking
connections. 221 902 states.
`ScreenShowsItsRoom` (nothing of a room that was left is printed),
`LossIsReal` (the client ends for a lost connection only if the one in use is),
`HistoryMeetsLive` (history and live messages leave no gap, if the history was
read after the registration: what is not on the screen was broadcast before that and
was already followed by so many that the limit left it out), `OldReadersEnd` (the reader of a connection that
was left comes to its end, also when it holds a message no channel has room for).
One switch is enough to have an old and a new generation; both directions of
every overtaking between two channels need one message each. Deadlock is not
checked: the client ends.

### VersionedCache

(`CacheSpec`, `CacheInit`, `CacheNext`.) The protocol the manga, review and user services share: look up the version,
look up the key of that version, on a miss read the database, look up the
version *again*, store under the key made with it; a write commits and then
increments. Every Redis call may fail and the code ignores it (a failed version
look-up reads as 0). A row is the number of writes it reflects. `promised` is
the latest write whose request has ended, its invalidation included.
`WriteUnannounced` stands for the writers that do not invalidate: AddToLibrary,
the TCP and gRPC servers, cascades. A user looked up by name is cached under a key
without a version (`usernameKey`) and is not modelled: no name or id ever changes.

*Run `cache`*: two readers, one announcing writer, one key, two writes; 424 360
states. `ReadsSeePromised`: a read that begins after a write's request has ended
returns that write or a later one, unless its own version look-up failed or it
hits an answer that was stored late, that is after an invalidation had overtaken
the read of the database. `CacheConverges`: when the writes stop, expiry removes
what is stale. Two readers are needed for one to find what the other stored
late; two writes for an answer between them.

### TCPSync

`clients` is the server's map by remote address, `job` where each handler and
each API request is. A progress message runs `HearProgress` (conflict check
against the entry, left out where the entry cannot be read), `CheckProgress`,
`WriteProgress`, `ReadBack` (the upsert's own second statement, which may fail:
`ReadBackFails`), `Snapshot`, one `SendTo` per connection, `Reply`. A
`progress_broadcast` is relayed whoever sends it (`conn.go:199`): `HearBroadcast`
from a device, with any chapter, `HearRelay` from the API. `rb` is the connection
the API holds: it dials when it has none (`MayDial`, `Accept`), a write to one that
has broken may succeed and be lost (`PublishProgress`) or fail and close it
(`PublishFails`), and what was written and not read goes with the connection
(`End`). `EditLibrary` is everyone else who writes the entry: adding, updating and
removing it, deleting the manga, and the gRPC server's update, none of which is
broadcast. `End` deletes by address, as the deferred function does. Whether a
message is older than the entry is chosen freely; it decides only together with the
strategy.

*Run `tcp`*: one device with two messages, one request, two connections for the API
to dial, every connection at an address of its own, chapters 1 and 2, strategies
`last_write_wins` and `merge`; 400 417 states. The device's handler and the API's
connection are the two writers and the two broadcasters that a race takes; a second
message lets an update be lost or made silently and the next repair it; the second
connection is the one that is dialled after the first broke. A second
device would only run the same handler once more; the theorems hold for any number.

- `OnlyStoredIsShown`: what is shown was once in the entry or is what a device itself
  relayed, so that a refused or conflicting update is shown to nobody; an ack
  "progress updated" names a chapter that was stored and that its device has been
  sent before, although it may be another request's.
- `StoredIsShown`: whoever is registered when the server has an update to broadcast
  and stays is shown it, though another connection dies in the middle.
- `DevicesAgreeUnlessAstray`: when nothing is on its way, the last broadcast a
  connected device saw is what the library holds, unless the two went astray since
  the last update that was stored while no other was on its way: another overlapped
  it, an update was lost between the servers or in its read-back, the entry was
  written without a broadcast, or a device relayed a chapter of its own. Each is
  recorded by the history `astray`, which a later update, stored alone, clears: so
  the property also says that one such update puts every device right.

Deadlock is not checked: when all have left and said all, nothing is left to do.

### SyncDevice

(`DeviceSpec`, `DeviceInit`, `DeviceNext`.) The commands at the other end of those
connections. `stream` is what the server
has sent and no scanner has taken, `ahead` and `half` what a `bufio.Scanner`
holds: a read (`Fill`) takes any number of whole lines and possibly a part of the
next. `sync connect` makes three scanners in turn on one connection: one for the
`hello_ack` (`Accepted`, `Refused`), one for the answer to its ping (`Pong`), one
that counts lines (`Count`); what a scanner holds when the next is made is lost,
and the next one begins within a cut line (`TakeAndAbandon`). `sync monitor` keeps
its one scanner (`MonitorStarts`, `PrintUpdate`), `sync disconnect` writes two
messages and never reads, the API's health check waits for one line (`Checked`).
`.sync_session` is emptied and written by `Accepted` and `Ping`, and read by
`Status`. The server answers in turn and broadcasts from the accept on; it or the
network may be lost at any time (`Lose`), and a user interrupts (`Interrupt`).

*Run `sync_device`*: two terminals in one directory, one that runs any command
and is sent two broadcasts, one that connects; 163 323 states. Two broadcasts
put lines before, between and after the answers; a second terminal is only
needed for the shared file. `DeviceTypeOK` accounts for every line (counted, under way
or lost with a scanner), `RefusalsHaveCause` (a handshake, ping or health check
fails only because the connection was lost, the hello named nobody, or a
broadcast came between), `ShownSessionIsGranted` (status shows no session the
server has not granted), `MonitorShowsAll` (a monitor prints every broadcast in
order, but for one that came before the `hello_ack`), `CommandsSettle` (a command
that waits for an answer comes to an end, whatever scanners have lost). Deadlock
is not checked: commands end.

### Catalogue

`manga` with rowids, the index `manga_fts` as pairs of rowid and term, the seed
file. `InsertManga` is `INSERT OR REPLACE` under the triggers of
`schema_repository.go`: it gives a new rowid, fires the insert trigger, and not
the delete trigger. `Start`, `Inspect`, `Alter`, `Rebuild`, `Count`, `ReadSeed`,
`SeedOne` are the statements of `InitSchema` and `SeedMangaFromJSON` in each
server. A server brings one table after the other up to date (`NextTable`): it
inspects the table, then adds each column it found missing by a statement of its
own, so that other servers' statements come between any two; `Schema` says which
columns later versions gave to which table (in the code one to users, four to
user_progress, three to manga). The second server to add a column, and one that finds the
seed file truncated by a collector (`TruncateSeed`, `WriteSeed`), fails and exits,
and is restarted. `Fail` kills a server anywhere. The seed file and the one a
collector puts in its place are any two lists: a collector drops what is not whole
and all but one of a title, so that neither need contain the other.

*Run `catalogue`*: two manga, two texts over two terms, two servers, two rowids,
two tables with one and two new columns, one failure; 71 686 states. Two servers
make every start-up race, also between two columns of a table and between tables;
two manga let one inherit the rowid of another; the collector drops one of the two
from the file. `SearchIsExact` (while a server is up, a search
finds every manga by every term of its text, and by another term only through a
rowid that a replaced row has left behind), `SeedIsWhole` (unless a process died
while seeding, everything of the old seed file or everything of the new one is or
was there, though servers may have seeded from both), `ServersComeUp`.

### Collector

One run of the collector (`Load`, `FetchGroup` or `FetchPage`, `Truncate`,
`Write`) with its options. What the sources hold is given; that a call fails is
not (`FallBack` to Jikan, `SourceFails`). The normal form of a list, its merge by
title, the division of the limit among MangaDex's demographics and Jikan's pages
are operators (`Sanitized`, `Merged`, `PerGroup`, `PageCount`); a merged list is a set,
since the code sorts it before anyone looks at it, and a part of a list is what it
has at some positions, in their order (`Picked`), rather than a fold over it. `os.WriteFile` is two
steps; a second collector, or a death, may come between them (`WriteOver`,
`Die`).

*Run `collector`*: two collectors, limits 0 (the default), 1 and 3, both sources
and an unknown one, a hand made file that is unsorted, doubled and not whole, or
none; 13 238 states. `CollectorTypeOK` (a file that a collector wrote has every manga
once, in order, with a known status), `NothingIsLost` (unless runs overlap or one
dies while it writes, nothing that was in the file leaves it or is retold),
`TakesWhatIsAsked` (a run adds at most as many manga as the limit asks for, and
every titled entry that the limit reaches, in Jikan's list or in its share of each
of MangaDex's, has its title in what is written). Untitled entries, entries without a
genre (from Jikan) and second ones of a title use up the limit and are not written,
as in the code. Deadlock is not checked.

### Reviews

A request is one command of `mangahub review` or a call of another client:
`Command` makes the checks of the command, `Handle` those of the handler and the
service (a limit that is missing, too large or none, a sort it does not know), then
the statements follow: the look-up of the manga, the upsert, the
vote's update and its reread, the listings. Catalogue statements end reviews by
cascade. `epoch` numbers the rows a key has had.

*Run `reviews`*: four symmetric requests of eight kinds, one manga, two authors,
ratings to 2 (10 in the code), listings of 1, at most 2 (50 and 200); 2 548 581
states. Four requests are a review, a vote for it, its rewriting and another
vote, which is what a lost vote takes. `TypeOK` (no rating out of range, no review
outlives its manga), `VotesAreCounted` (every vote counts once, none of the
author, and none goes over to a later review of the same author), `AnswersShowVotes`
(a vote's answer, read back in a second statement, shows at least itself and
what was answered before). Deadlock is not checked: requests end.

### Auth and Session

`Auth` has `users`, the revoked list, the clock in seconds, one record per
request. A token is its claims, user and second of issue; two logins in one
second yield the same token, and since the signature is a function of the claims, so
do the strings the service lists as revoked. A registration stores its account and
then reads it back (`GetUserByID`); when that fails the account is there and its
owner was told that it is not. The middleware tests expiry (`Verify`) and then the
list (`IsRevoked`, which also purges); a logout repeats both and revokes; a change
of password updates and then logs out, ignoring whether that succeeded (`leg`).

`Session` adds one terminal to it: `saved` is the token file, `cmd` and `held`
what each command under way has loaded. A command loads the file once and writes
or deletes it after its answer (`LoginAnswered`, `LogoutAnswered`,
`ChangeAnswered`); commands of one terminal run side by side, any answer may be
lost (`Unanswered`), and other clients act as they please (`Other`). Every step
of the server is one of Auth's.

*Run `auth`* (of `Session`): two requests at a time (symmetric), one user, two
passwords, tokens that live two seconds, a clock of three, four requests;
4 767 854 states. Two seconds let a token expire while another lives; four
requests are a login, its logout, another login and a use. Users meet in nothing
but names. `TypeOK` (one account to a name, though registrations race),
`EndedSessionsStayEnded` (the middleware admits no token of an ended session
before it expires), `OtherSessionsLiveOn` (ending one session leaves the others
alone), `SavedSessionLives` (a terminal does not go on with a session that its
own commands have ended, in whatever order they are answered). Deadlock is not
checked: the bounds end the run.

### Notify

`clients` is the UDP server's map, `queue` the datagrams on their way to it,
`rcv` those on their way back. The six kinds of message are the six actions of
the server. The commands (`mangahub notify subscribe`, `test`, `unsubscribe`, and the
API's health check) use a socket of their own that is closed at the end: the port
may be given to the next, though not while a datagram of its earlier owner is on its
way to the server (`Send`; the system promises no such thing, it hands out ephemeral
ports far apart in time). After two seconds of silence a broadcast test and a health
check report an error (`Timeout`), a subscription and a test of an id nothing
(`EndSilently`). A listener is a program that keeps its socket, waits
for the answer to what it sends, and obeys it. Each answer carries the server's
epoch, a ghost. Datagrams are lost at will, not reordered: the processes share a
host and the server has one queue.

*Run `notify`*: one listener, two commands, two ids, two ports, three datagrams
of the listener (join, notify or leave, join again), one restart; 830 342 states.
`AckedAreServed` (an acknowledged listener is in the map at its own address until
the restart, if nobody else uses its id), `LeftAreNotTold` (no notification after
the unregister_ack), `OkMeansRegistered` (a test that prints OK found its id
registered while it ran). Deadlock is not checked: the bounds end the run.

## Fairness

Nothing is owed by users, peers, the network or failures: dialling, typing,
leaving, errors, crashes and loss have no fairness anywhere.

- Goroutines are scheduled and SQL, Redis and channel operations that can
  proceed do: weak fairness of the step a goroutine is at (`Handle`, `Boot`, and
  `Answer` and `Step` of SyncDevice). A database call returns because SQLite's
  busy time-out ends it.
- Go's `select` picks among ready cases at random: a case ready again and again is
  picked, strong fairness of the hub's arms and of the client's two channels.
- A sender on a full buffered channel is queued and served in turn: strong
  fairness of the client's pushes.
- The TCP server writes under a deadline of two seconds, so that a write ends:
  weak fairness of `SendTo` and `Reply`.
- Docker restarts a server that exits: weak fairness of `Start`.
- Redis drops a key whose time has run out: weak fairness of `Expire`.

Library, Collector, Reviews, Auth, Session and Notify state safety only, and no
fairness.

## Proofs

Eight modules hold theorems that TLAPS checks for all values of the constants that
meet the assumptions their modules name. The assumptions say that inputs are well
formed (`InputsAssumption`: the handlers bind them as required; `CommandAssumption`:
a line the server cannot read is none of its answers), that chapters, clocks,
capacities and bounds are natural numbers (`TotalsAssumption`, `ChapterAssumption`,
`ClockAssumption`, `BoundsAssumption`, `CapacityAssumption`, ...), that what is
given as a function or a finite set is one (`UserOfAssumption`, `AsksAssumption`,
`AddrAssumption`, `RoomsAssumption`, `ListenersAssumption`, `MangaAssumption`,
`SeedAssumption`, `SchemaAssumption`), and that "none" is none of the things it is not
(`AbsenceAssumption`, `NoneAssumption`, `NoAnswerAssumption`, `NoAccountAssumption`,
`NoTokenAssumption`, `NothingAssumption`, `BroadcastAssumption`); those of Collector
(`SourcesAssumption`, `StatusAssumption`, `FileAssumption`, ...) are of these kinds.
TLC evaluates each in the runs. In every module a step's proof has one lemma per action and below it
one step per conjunct that the action can disturb.

**Library** (`LibraryProofs`). `HistoryIsProgress` is not inductive: that the row
a request will insert is an advance follows from what the request checked
*before* its write and still holds in its local state. The invariant

    IInv == TypeOK /\ ForeignKeys /\ RequestInv /\ HistoryIsProgress

adds `RequestInv`: a request is only at statements of its own chain, and from
`Allowed` on, its `draft` is the advance of the row it has `seen` within the
`limit` it has read. From it follow

- `TypeCorrect`, `NoOrphans`, `HistoryCorrect`: `Spec => []TypeOK`,
  `[]ForeignKeys`, `[]HistoryIsProgress`;
- `FreshWritesSafe`, `FreshBoundsSafe`: the two action properties;
- `ContractImplemented`: `Spec => Contract!Spec`. Each action is mapped to
  `Apply`, `Refuse`, `Fail`, `Answer`, `Withdraw` or a stutter.

**Cache** (second half of `CatalogueProofs`). `ReadsSeePromised` needs what Redis
may hold, and what a reader that is under way may still find or store:

    CacheInv == CacheTypeOK /\ VersionsIssued /\ CurrentEntriesKeepPromise
                  /\ ReadersKeepPromise /\ ReadsSeePromised

No entry has a version not yet issued, an entry under the current version that
was not stored late is as fresh as all that was promised, and an entry under the
version a reader looks for is as fresh as what was promised when that reader
began. Incrementing the version is what makes the second conjunct survive a new
promise: nothing is stored yet under the new version. `CacheInvariance`,
`CacheTypes`, `PromiseKept`.

**Catalogue** (`CatalogueProofs`). `CatInv == Shapes /\ IndexInv /\ SeedInv`. Once a server
has rebuilt the index it has every term of every row; whatever else is in it was
left behind by a row that was replaced (`IndexInv`). A replaced row comes back under
a rowid larger than all others, so that no stale term is taken for a live one; that
there is a largest needs an induction over a finite set of numbers (`SetInduction`),
which the proof derives from their being well founded. `SeedInv`: a server that
seeds still has before it whatever the catalogue lacks of the seed file it read, the
old or the new one, and nobody has begun to serve, or inserted anything, without
someone seeding.
`CatalogueInvariance`, `CatalogueTypes`, `SearchExact`, `SeedWhole`.

**Reviews** (`ReviewsProofs`).

    RInv == Shapes /\ Anchored /\ StageInv /\ VoteInv /\ EpochInv /\ BeforeInv
              /\ VotesAreCounted /\ AnswersShowVotes

The number on a row counts the votes for *that* row: one that is deleted and written
again is another, which epochs tell apart (`VoteInv`: a vote is given once, by
another than the author, to a row that had begun). Counting is the cardinality of a
finite set that grows by one. `BeforeInv` says that what was answered before a request
began stays answered, which an answer's number must show. `ReviewsInvariance`,
`ReviewsAreSound`, `VotesCounted`, `AnsweredVotesShow`.

**Accounts and sessions** (`SessionProofs`). `EndedSessionsStayEnded`
rests on `ListInv`: an ended session is on the list of revoked tokens *until it
expires*, and nothing is on the list that was not ended. It survives the purge
because that drops only what has expired, and a restart because the sessions it
forgets are no longer counted as ended. `RequestInv` says what a request holds at
each place of its code; in particular a request marked as coming with an ended
token came with one. `Invariance`, `TypeCorrect`, `EndedSessions`,
`OtherSessions`. `SessionUsesAuth` shows that the commands of terminals do
nothing to the server but begin requests of `Auth`, so that these theorems hold
with them. On top of it `SavedSession` needs

    SInv == IInv /\ CommandInv /\ FreshInv /\ FileInv

where `FreshInv` is the reason: what a login was answered and has not saved yet is
a token no other command holds, so that saving it cannot bring an ended session
back, unless it was issued twice in one second.

**Chat hub** (`ChatHubProofs`), for any number of connections, rooms and users and
any capacity. Four invariants, each on an earlier one:

- `IInv`: types, what the handler of a connection says of the hub's map and
  rooms (`MapInv`), and `ConnectedAreServed`. Theorems `Invariance`,
  `TypeCorrect`, `Served`.
- `OInv` adds the order of what was spoken, is queued and is about to be queued
  (`QueueInv`), and how far a handler must be that has emitted a message
  (`EmittedInv`). Theorem `InOrderAlways`: `Spec => []SpokenInOrder`.
- `SInv` adds that a connection being served has been sent the *end* of its room's
  conversation, from the moment it was registered on (`SentInv`); an inbox that
  grows no longer stays a stretch of a conversation that does. Theorem
  `NoGapsAlways`: `Spec => []GapFree`.
- `FInv` adds to `OInv` that whatever a registered connection has said and queued is
  in its room's conversation or on its way there (`CompleteInv`). With `QueueInv`,
  nothing that comes before the head of the channel can wait behind it, so all of it
  has been spoken and `Deliver` may add the head (`HeadMayBeAdded`); with `SInv`,
  the open connections listed in a room are those inside it (`DeliverAdds`).
  Theorem `FeedImplemented`: `Spec => ImplementsFeed`. `Register` maps to `Enter`,
  `Deliver` to `Add`, every other step to `Part` or to none.

**Chat client** (`ChatViewProofs`).

    ViewInv == ClientShapes /\ ServerShapes /\ InUse /\ Ahead /\ OwnRooms
                 /\ EndsAreReal /\ SavedFirst /\ ReadAfter /\ NothingMissing
                 /\ ScreenShowsItsRoom /\ LossIsReal

The connection in use is one to the room on the screen (`InUse`), later ones do not
exist yet but for the one a switch has dialled (`Ahead`), and whatever a connection
carries was said in its own room (`OwnRooms`). A message is saved, or its insert has
failed, before it is broadcast (`SavedFirst`); so on a connection that was registered
before the history was read (`ReadAfter`) each saved message of the room is on the
screen or on its way there, or lay beyond that history's limit (`NothingMissing`). That
a page has every message which fewer than the limit follow, whatever the clock said,
is a lemma about cardinalities (`NewestHas`). A reader fails only on a connection
that is over (`EndsAreReal`), for which the generation of its error is what makes
the loss the client reports its own. `ViewInvariance`, `ViewTypes`, `ScreenShows`,
`LossReal`, `HistoryMeets`.

**Synchronization** (`TCPSyncProofs`). `OnlyStoredIsShown` in both its parts:

    IInv == TypeInv /\ StoredInv /\ ClientsInv /\ ToldInv /\ AckInv
    AInv == IInv /\ Fresh /\ (~astray => Single /\ \A d \in Devices : Agrees(d))

Whatever a handler, an API request or its connection carries past a write was
stored, or a device asked to relay it, and what is going to be acknowledged as
updated was stored (`StoredInv`); an open connection that has its address to itself is
registered (`ClientsInv`), so that it is in the snapshot of its own broadcast, and
has either been sent it or is still to be (`ToldInv`) when its ack is due. `Invariance`
and `TypeCorrect` need no hypothesis. `StoredAndShown` and `DevicesAgree` have one,
`OwnAddresses`: where two connections follow one another at one address, the
deferred function of the first unregisters the second, which is then acknowledged
updates it is not shown. After an update that was stored alone one at most is on its
way, and it is what the library holds (`Single`); the last broadcast that a device was
sent is of that chapter, or it is still to be sent one (`Agrees`). An update that is
stored alone needs no more of the states before it, which is why it heals.

**Devices** (second half of `TCPSyncProofs`, about SyncDevice).

    DeviceInv == DeviceShapes /\ FileGranted /\ \A t \in Terminals : Sound(t)

`Sound(t)` is about the command a terminal runs and the lines it was sent and has not
read: which command is at which stage (`Placed`); who has a `hello_ack` before it was
granted the session (`Acked`); until a command has read anything, all that it was
sent is before it, and unless a broadcast came first, its answer leads (`Unread`);
every line is counted, before the command or lost (`Accounted`); where nothing was
broadcast, `sync connect` gets the answers it asks for (`Undisturbed`); what the
monitor printed and what waits are in order, together all that there were, but for
one that came before its answer (`Printed`). The last is kept by four lemmas on such
sequences: an answer or a broadcast is added at the end, a line is taken or skipped
at the front. `DeviceInvariance`, `DeviceTypes`, `RefusedForCause`,
`ShownWasGranted`, `MonitorPrintsAll`.

**Notifications** (`NotifyProofs`).

    NInv == Shapes /\ SocketInv /\ SenderInv /\ OkMeansRegistered
              /\ \A c \in Commands : CommandOf(c)
              /\ \A l \in Listeners : ListenerOf(l)

At its own address a listener registers its own id only (`AddressOf`); it registers
once at a time, and nothing else meanwhile (`JoiningOf`); its unregister is the last
that it sends, and the answer the last that it gets (`LeavingOf`). Hence what the
server acknowledged is true until it is taken back or the server restarts
(`ServedOf`), and what comes after the answer to an unregister is not a notification.
`NotifyInvariance`, `NotifyTypes`, `AckedServed`, `LeftNotTold`, `OkRegistered`.

**Collector** (last part of `CatalogueProofs`).

    ColInv == RunInv /\ FileInv /\ KeptInv

`RunInv`: what a run has read is clean, what it is to write is tidy, and among what it
has received is every titled entry that was listed before its page or demographic, no
later than at its place there (`HeardOf`), so that the cut to the limit spares it.
`KeptInv`: unless runs overlapped, whoever has read the file has before him all that was
ever in it, and he alone writes. `CollectorInvariance`, `FileParses`, `KeepsAll`,
`TakesWhatItShould`. The lemmas beneath say what its operators yield for lists of every
length (`AscendingIsOrder`, `PickedIsPart`, `SanitizedIsClean`, `FirstsAreDistinct`,
`SortedHasAll`). They need no induction: to count how many of a finite set of numbers
are less than a number maps the set one to one to as many places, hence onto them,
and that is its order. `ReceivedHas`, `FirstHas`, `ResultHasTitles` and `HasIsWritten`
follow one entry from its page to the file: the places of titled entries among the
received ones, the cut, the dropping of doubles and the merge.

**Only model-checked**: liveness (`HandlersEnd`, `CacheConverges`, `StoredIsShown`, `CommandsSettle`,
`ServersComeUp`, `OldReadersEnd`), because fairness and ENABLED are out of the provers'
reach; and that the runs which expect a violation find one. The library's induction
theorems take an operator as a parameter, which the provers cannot instantiate:
where the proofs need induction they take a set of numbers instead (`SetInduction`),
and where a definition would have been a fold or a recursion it is stated by the
positions or the set it yields.

## What the checks found

One expectation of the repository is refuted, by a run of its own:
`chat_hub_full`. The hub sends "joined" and "left" to the channel only it reads
(`hub.go:63`). With the channel full it waits for itself, and nobody is served
again; the test at `handler_test.go:86` waits for its join message. The run uses
one slot, the code has 32: it takes 32 queued messages.

Other behaviour the models show plainly. Some of it the properties had to
exempt, which is how it came to light:

- *Lost regression* (`FreshWritesKeepPlace`): two unforced progress updates both
  read chapter 1, one stores 2, the other then stores 1. The check at
  `user/service.go:57` and the write at 74 are two statements; the test at
  `service_test.go:139` expects an error whenever a chapter decreases without
  force, of updates that follow one another.
- *Devices that disagree* (`DevicesAgreeUnlessAstray`): two handlers store in one
  order and broadcast in the other, and a device's last word is a chapter the
  library does not hold; an update whose read-back fails is stored and not broadcast;
  one the API writes to a connection that has just broken is lost without an error;
  updates over gRPC and changes of the library are not broadcast at all. And a
  `progress_broadcast`, which the comment at `conn.go:200` expects "from remote
  broadcaster", is relayed from whoever sends it, stored or not.
- A progress update writes rating 0 over the rating (`AdvancedRow`); a status
  update writes back the chapter it has read (`PatchedRow`); an
  entry stored as "plan-to-read", which is what the API's description calls it, is
  listed on the reading shelf (`user_handler.go:397`).
- `INSERT OR REPLACE` of an existing manga empties the shelves, histories and
  reviews that hang on it (`CreateManga`); seeding does so too when two servers
  find the table empty together (`SeedOne`); a server that dies while seeding leaves
  half a catalogue for good (`Count`). Terms of a replaced row stay in the index
  until the next start, and its rowid may be given to another (`SearchIsExact`
  says exactly when).
- An ack may carry the chapter another request stored (`ReadBack`);
  `last_write_wins` refuses what is older like any other strategy (`Conflict`); a
  device that reconnects from the same address is unregistered by its old handler
  (`End`); `progress update` prints "Broadcasted" whatever became of the broadcast
  (`progress_update.go:75`).
- `sync connect` takes a broadcast that comes before the `hello_ack` for a refusal,
  and one that comes before the pong for a bad connection; lines that a scanner
  has read ahead are lost (`TakeAndAbandon`); a monitor takes whatever comes first
  for its greeting.
- An answer stored late lives in the cache until it expires; a listing's key has
  no page (`listKey`); the life of a cached review, 120 "seconds" passed as a
  `time.Duration`, is 120 nanoseconds (`review/cache.go:13`), so that in practice
  reviews are not cached at all; the model lets any answer expire at any time.
- A vote for a review that is not there is answered 500, where the API's
  description says 404 (`IncrementReviewHelpful`).
- A login in the second of an ended session's login gets the ended token again
  (`IssueToken`); ended sessions revive with a restart (`Restart`); `auth status`
  shows "Active" for a dead token, because it asks `/health`, which admits
  everybody (`HandleStatus`).
- The collector recognizes a manga by its title, the database by its id
  (`Merged`); a status it does not know becomes "ongoing" (`NormalStatus`); two
  overlapping runs, or one that is killed while it writes, lose the file
  (`lossy`), and a server that starts then exits until the file is whole.
- A chat message broadcast between the reading of the history and the hub's
  registration is not seen (`complete`); a room lists members that were closed
  after a failed write, where `user_handler.go:78` speaks of active users
  (`RoomsUsers`).
- `mangahub notify subscribe` registers a socket it closes at once, so nobody
  hears; the next command on that port does (`Send`).

## What is left out

- Binding, status codes, formatting, CORS, logging: no property is about them.
- Contents: manga texts but for their terms, message texts, timestamps where only
  their order matters, hashing and signing (taken as exact).
- Peers that stop reading without leaving: websocket writes have no deadline, so
  one such peer stalls the hub; TCP writes that time out half way leave a torn
  line.
- Signals, graceful shutdown, ports; the Redis server restarting from an older
  snapshot.
- The contents of the table of private messages (their number is in ChatHub), a
  catalogue listing's filters, orders and pages.
- gRPC reads and the health checks of gRPC and Redis; commands that send one
  request, print the answer and keep nothing.
- Configuration, plain data types and generated code.

## Plan

Done, in this order: Library with its contract and proofs (the core: every other
part reads or forwards what it stores); ChatHub; VersionedCache with proofs;
TCPSync; Catalogue; Auth; ChatView; Notify; then SyncDevice, Collector, Reviews
and Session, the seed file in Catalogue, the listings in ChatHub; the proofs about
Auth, Session, ChatHub and TCPSync; then those about Reviews, Notify, ChatView,
Catalogue, SyncDevice and Collector, and the second property of TCPSync; RoomFeed and
the proof that ChatHub implements it.

Next, in order of value:

1. Abstract specifications of what Auth and Notify promise, as LibraryContract and
   RoomFeed are for the library and the chat; and a ChatView whose hub is RoomFeed.
2. An API update through the library, the cache version and the relay
   connection, with a device that reads the library after a broadcast.
3. A hub whose peer stops reading, and what a deadline would repair.
4. `OnlyStoredIsShown` for chapters only, without `OwnAddresses`.

## Running it

    tlc -workers 2 -config MCLibrary.cfg MCLibrary
    tlapm LibraryProofs.tla

The `MC*` modules give the constants their values; `PROJECT.json` names the runs,
the mutants, the map from definitions to lines, the hazards and the theorems.
All runs end within five minutes.
