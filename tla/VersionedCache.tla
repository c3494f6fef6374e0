--------------------------- MODULE VersionedCache ---------------------------
(***************************************************************************)
(* The read cache of the manga, review and user services.                  *)
(*                                                                         *)
(* Redis keeps one version number per service and, under keys that name a  *)
(* version, the answers of earlier reads.  A read looks up the version,    *)
(* then the key; when that misses it reads the database, looks up the      *)
(* version once more and stores the answer under the key it finds then.  A *)
(* write commits to the database and then increments the version, so that  *)
(* the answers stored so far are no longer found.  No step is atomic with  *)
(* the next, each Redis call may fail, and the services ignore the errors. *)
(*                                                                         *)
(* What a row holds is left out: an answer is the number of writes it      *)
(* reflects and the query it was computed for.  CacheInit, CacheNext and   *)
(* their like are named so that a module may extend this one and that of a *)
(* service which uses the cache.                                           *)
(***************************************************************************)
EXTENDS Naturals

CONSTANTS
    Readers,    \* requests that read through a service
    Writers,    \* requests that write through a service
    Asks,       \* the part of a query that is part of its key
    Pages,      \* page numbers
    MaxWrites,  \* bound on the writes to the database
    NoAnswer

ASSUME BoundAssumption == MaxWrites \in Nat

VARIABLES
    db,       \* number of writes committed to the database
    version,  \* the service's version key in Redis, 0 when absent
    entries,  \* the answers stored in Redis
    read,     \* read[r]: where request r is and the answer it has
    write,    \* write[w]: where request w is and the write it made
    promised  \* the latest write whose request has invalidated the cache

cacheVars == <<db, version, entries, read, write, promised>>

Queries == [ask: Asks, page: Pages]

\* The page is not part of the key.
listKey(q) == q.ask

Answers == [at: Nat, of: Queries]
Reads ==
    [pc: {"idle", "get", "fetch", "rekey", "set"}, query: Queries, version: Nat,
     since: Nat, failed: BOOLEAN, late: BOOLEAN, answer: Answers \cup {NoAnswer}]

ASSUME NoAnswerAssumption == NoAnswer \notin Answers

Entries == [version: Nat, key: Asks, answer: Answers, late: BOOLEAN, expires: BOOLEAN]

CacheInit ==
    /\ db = 0 /\ version = 0 /\ entries = {} /\ promised = 0
    /\ \E q \in Queries :
        read = [r \in Readers |->
                 [pc |-> "idle", query |-> q, version |-> 0,
                  since |-> 0, failed |-> FALSE, late |-> FALSE, answer |-> NoAnswer]]
    /\ write = [w \in Writers |-> [pc |-> "idle", mine |-> 0]]

Found(v, q) == {e \in entries : e.version = v /\ e.key = listKey(q)}

-----------------------------------------------------------------------------
(* Reads.                                                                  *)

\* GetInt64 answers 0 when the call fails.
LookUpVersion(r) ==
    /\ read[r].pc = "idle"
    /\ \E q \in Queries, failed \in BOOLEAN :
        read' = [read EXCEPT ![r] =
                  [pc |-> "get", query |-> q,
                   version |-> IF failed THEN 0 ELSE version,
                   since |-> promised, failed |-> failed, late |-> FALSE,
                   answer |-> NoAnswer]]
    /\ UNCHANGED <<db, version, entries, write, promised>>

Hit(r) ==
    /\ read[r].pc = "get"
    /\ \E e \in Found(read[r].version, read[r].query) :
        read' = [read EXCEPT ![r].pc = "idle", ![r].version = 0,
                             ![r].answer = e.answer, ![r].late = e.late]
    /\ UNCHANGED <<db, version, entries, write, promised>>

\* The key is not there, or the call fails, which is treated alike.
Miss(r) ==
    /\ read[r].pc = "get"
    /\ read' = [read EXCEPT ![r].pc = "fetch"]
    /\ UNCHANGED <<db, version, entries, write, promised>>

Fetch(r) ==
    /\ read[r].pc = "fetch"
    /\ read' = [read EXCEPT ![r].pc = "rekey",
                            ![r].answer = [at |-> db, of |-> read[r].query]]
    /\ UNCHANGED <<db, version, entries, write, promised>>

FetchFails(r) ==
    /\ read[r].pc = "fetch"
    /\ read' = [read EXCEPT ![r].pc = "idle", ![r].version = 0]
    /\ UNCHANGED <<db, version, entries, write, promised>>

\* The key is made anew, with the version of now.
LookUpVersionAgain(r) ==
    /\ read[r].pc = "rekey"
    /\ \E failed \in BOOLEAN :
        read' = [read EXCEPT ![r].pc = "set",
                             ![r].version = IF failed THEN 0 ELSE version]
    /\ UNCHANGED <<db, version, entries, write, promised>>

\* An invalidation passed since the database was read.
IsLate(r) == read[r].answer.at < promised

\* Mutant: an answer is stored without an expiry.
Set_Forever(r) ==
    /\ read[r].pc = "set"
    /\ entries' = (entries \ Found(read[r].version, read[r].query)) \cup
                    {[version |-> read[r].version, key |-> listKey(read[r].query),
                      answer |-> read[r].answer,
                      late |-> IsLate(r), expires |-> FALSE]}
    /\ read' = [read EXCEPT ![r].pc = "idle", ![r].version = 0]
    /\ UNCHANGED <<db, version, write, promised>>

Set(r) ==
    /\ read[r].pc = "set"
    /\ entries' = (entries \ Found(read[r].version, read[r].query)) \cup
                    {[version |-> read[r].version, key |-> listKey(read[r].query),
                      answer |-> read[r].answer,
                      late |-> IsLate(r), expires |-> TRUE]}
    /\ read' = [read EXCEPT ![r].pc = "idle", ![r].version = 0]
    /\ UNCHANGED <<db, version, write, promised>>

SetFails(r) ==
    /\ read[r].pc = "set"
    /\ read' = [read EXCEPT ![r].pc = "idle", ![r].version = 0]
    /\ UNCHANGED <<db, version, entries, write, promised>>

-----------------------------------------------------------------------------
(* Writes.                                                                 *)

Commit(w) ==
    /\ write[w].pc = "idle" /\ db < MaxWrites
    /\ db' = db + 1
    /\ write' = [write EXCEPT ![w] = [pc |-> "invalidate", mine |-> db + 1]]
    /\ UNCHANGED <<version, entries, read, promised>>

\* Mutant: the version is set on the first write and not counted up.
Invalidate_SetsOne(w) ==
    /\ write[w].pc = "invalidate"
    /\ version' = IF version = 0 THEN 1 ELSE version
    /\ promised' = IF promised < write[w].mine THEN write[w].mine ELSE promised
    /\ write' = [write EXCEPT ![w] = [pc |-> "idle", mine |-> 0]]
    /\ UNCHANGED <<db, entries, read>>

Invalidate(w) ==
    /\ write[w].pc = "invalidate"
    /\ version' = version + 1
    /\ promised' = IF promised < write[w].mine THEN write[w].mine ELSE promised
    /\ write' = [write EXCEPT ![w] = [pc |-> "idle", mine |-> 0]]
    /\ UNCHANGED <<db, entries, read>>

InvalidateFails(w) ==
    /\ write[w].pc = "invalidate"
    /\ write' = [write EXCEPT ![w] = [pc |-> "idle", mine |-> 0]]
    /\ UNCHANGED <<db, version, entries, read, promised>>

\* AddToLibrary, the TCP and gRPC servers and the cascades of a deleted manga
\* write to the database and leave the version alone.
WriteUnannounced ==
    /\ db < MaxWrites
    /\ db' = db + 1
    /\ UNCHANGED <<version, entries, read, write, promised>>

\* The time an answer was stored with has run out.
Expire(v, k) ==
    /\ \E e \in entries :
        /\ e.version = v /\ e.key = k /\ e.expires
        /\ entries' = entries \ {e}
    /\ UNCHANGED <<db, version, read, write, promised>>

-----------------------------------------------------------------------------
Proceed(r) ==
    \/ Hit(r) \/ Miss(r) \/ Fetch(r) \/ FetchFails(r)
    \/ LookUpVersionAgain(r) \/ Set(r) \/ SetFails(r)

CacheNext ==
    \/ \E r \in Readers : LookUpVersion(r) \/ Proceed(r)
    \/ \E w \in Writers : Commit(w) \/ Invalidate(w) \/ InvalidateFails(w)
    \/ WriteUnannounced
    \/ \E e \in entries : Expire(e.version, e.key)

\* A started request goes on, and Redis drops what has outlived its time.
Fairness ==
    /\ \A r \in Readers : WF_cacheVars(Proceed(r))
    /\ \A v \in 0 .. MaxWrites, k \in Asks : WF_cacheVars(Expire(v, k))

CacheSpec == CacheInit /\ [][CacheNext]_cacheVars /\ Fairness

-----------------------------------------------------------------------------
CacheTypeOK ==
    /\ db \in Nat /\ version \in Nat /\ promised \in 0 .. db
    /\ entries \subseteq Entries
    /\ read \in [Readers -> Reads]
    /\ write \in [Writers -> [pc: {"idle", "invalidate"}, mine: 0 .. db]]

\* A read that starts when a write's request has ended returns that write or a
\* later one, whatever reads, writes and failures of Redis go on around it.  It
\* is excused when its own look-up of the version failed, or when it hits an
\* answer that was stored late.
ReadsSeePromised ==
    \A r \in Readers :
        read[r].answer # NoAnswer /\ ~read[r].failed /\ ~read[r].late
            => read[r].answer.at >= read[r].since

\* Once the writes stop, the stale answers go, those stored late or after a
\* failed call included: what Redis holds ends up agreeing with the database.
CacheConverges == <>[](\A e \in entries : e.answer.at = db)

-----------------------------------------------------------------------------
(* The inductive invariant behind the promise.                             *)

\* Versions only come from the version key, so none is ahead of it.
VersionsIssued ==
    /\ \A r \in Readers : read[r].version <= version
    /\ \A e \in entries : e.version <= version

\* What a reader can find under the version of now is no older than the promise.
CurrentEntriesKeepPromise ==
    \A e \in entries :
        e.version = version /\ ~e.late => e.answer.at >= promised

\* A reader on its way keeps what it was promised when it started, although the
\* version it looks for may have been left behind meanwhile.
FindsPromised(r) ==
    read[r].pc = "get" /\ ~read[r].failed =>
        \A e \in entries :
            e.version = read[r].version /\ ~e.late => e.answer.at >= read[r].since

ReadersKeepPromise ==
    \A r \in Readers :
        /\ read[r].since <= promised
        /\ read[r].pc \in {"rekey", "set"} => read[r].answer \in Answers
        /\ FindsPromised(r)

CacheInv ==
    /\ CacheTypeOK
    /\ VersionsIssued
    /\ CurrentEntriesKeepPromise
    /\ ReadersKeepPromise
    /\ ReadsSeePromised
=============================================================================
