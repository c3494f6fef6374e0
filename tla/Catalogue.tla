----------------------------- MODULE Catalogue -----------------------------
(***************************************************************************)
(* The catalogue that the HTTP, TCP and gRPC servers share: how each of    *)
(* them brings the database up when it starts (columns, search index, seed *)
(* file) while the data collector may be writing that file anew, and the   *)
(* manga table with the full-text index its triggers maintain.             *)
(*                                                                         *)
(* A text is the set of its terms; the other columns, and the filters and  *)
(* orders of a listing, are left out.  Every action is one SQL statement,  *)
(* which SQLite makes atomic across the processes, or one access to the    *)
(* file.                                                                   *)
(***************************************************************************)
EXTENDS Naturals, Sequences, FiniteSets, FiniteSetsExt

CONSTANTS
    Servers,      \* the processes that open the database
    Api,          \* the one that serves the catalogue's requests
    Manga,        \* manga ids
    Texts,        \* what a manga can say of itself: sets of terms
    Schema,       \* Schema[t]: the columns later versions added to table t
    Seed,         \* the seed file: a sequence of [id, text]
    Collected,    \* the seed file after a run of the collector
    MaxRowid,     \* bound: requests create no row beyond it
    MaxFailures,  \* bound: statements that fail and processes that die
    None

ASSUME ServersAssumption == Api \in Servers
ASSUME SeedAssumption == {Seed, Collected} \subseteq Seq([id: Manga, text: Texts])
ASSUME BoundsAssumption == MaxRowid \in Nat /\ MaxFailures \in Nat
ASSUME MangaAssumption == IsFiniteSet(Manga)
ASSUME SchemaAssumption == Schema \in Seq(SUBSET Nat) /\ Schema # <<>>
ASSUME AbsenceAssumption == None \notin [rowid: Nat, text: Texts]

VARIABLES
    columns,   \* the columns of later versions that are there
    todo,      \* todo[s]: the table s brings up to date, and what it found it lacks
    manga,     \* manga[m]: the row of m, with its rowid, or None
    manga_fts, \* the index: pairs of a rowid and a term
    seed_file, \* what the file holds: a list, or None when it is cut off
    server,    \* server[s]: the statement s starts with next, "up" or "down"
    seeds,     \* seeds[s]: what s has read of the seed file and not yet inserted
    failures,  \* failures so far
    \* history
    replaced,  \* rowids whose row was replaced since the index was rebuilt
    removed,   \* manga that a request has deleted
    torn       \* a server has died while it seeded

table == <<manga, manga_fts, replaced>>
startup == <<columns, todo, server, seeds, failures, torn>>
vars == <<table, startup, seed_file, removed>>

Live == {m \in Manga : manga[m] # None}
TermsOf(row) == {row.rowid} \X row.text
Row(rowid, text) == [rowid |-> rowid, text |-> text]

\* INTEGER PRIMARY KEY without AUTOINCREMENT: one more than the largest.
NextRowid == 1 + Max({0} \cup {manga[m].rowid : m \in Live})

AllColumns == UNION {Schema[t] : t \in DOMAIN Schema}
Ready == [table |-> 1, lacks |-> {}]

\* A new database, or one of an older version, some of whose columns and whose
\* index are still to be made.
Init ==
    /\ \/ columns = AllColumns /\ manga = [m \in Manga |-> None]
       \/ /\ columns \in SUBSET AllColumns \ {AllColumns}
          /\ \E order \in [1 .. Cardinality(Manga) -> Manga], text \in Texts :
                /\ \A m \in Manga : \E i \in DOMAIN order : order[i] = m
                /\ manga = [m \in Manga |->
                              Row(CHOOSE i \in DOMAIN order : order[i] = m, text)]
    /\ manga_fts = {}
    /\ seed_file = Seed
    /\ server = [s \in Servers |-> "down"]
    /\ todo = [s \in Servers |-> Ready]
    /\ seeds = [s \in Servers |-> <<>>]
    /\ failures = 0
    /\ replaced = {} /\ removed = {} /\ torn = FALSE

-----------------------------------------------------------------------------
(* Statements on the manga table, with its triggers.                       *)

\* INSERT OR REPLACE.  The insert trigger fires; the row it replaces goes
\* without its delete trigger, so that its terms stay in the index.
InsertManga(m, text) ==
    /\ manga' = [manga EXCEPT ![m] = Row(NextRowid, text)]
    /\ manga_fts' = manga_fts \cup TermsOf(Row(NextRowid, text))
    /\ replaced' = IF m \in Live THEN replaced \cup {manga[m].rowid} ELSE replaced

\* The update trigger drops the old text, then indexes the new one.
Reindexed(old, new) == (manga_fts \ TermsOf(old)) \cup TermsOf(new)

\* Mutant: there is no delete trigger.
Unindexed_Never(old) == manga_fts

\* The delete trigger.
Unindexed(old) == manga_fts \ TermsOf(old)

-----------------------------------------------------------------------------
(* Start-up of a server.                                                   *)

Goto(s, next) == server' = [server EXCEPT ![s] = next]

\* Docker starts a process and starts it again when it has exited; the tables
\* and triggers are there from the first statement on.
Start(s) ==
    /\ server[s] = "down"
    /\ Goto(s, "inspect")
    /\ UNCHANGED <<columns, todo, seeds, failures, torn, table, seed_file, removed>>

\* The three tables are brought up to date one after the other.
NextTable(s) ==
    LET next == todo[s].table + 1
    IN  \/ /\ next \in DOMAIN Schema
           /\ todo' = [todo EXCEPT ![s] = [table |-> next, lacks |-> {}]]
           /\ Goto(s, "inspect")
        \/ /\ next \notin DOMAIN Schema
           /\ todo' = [todo EXCEPT ![s] = Ready]
           /\ Goto(s, "rebuild")

Adds(s, lacks) ==
    \/ lacks = {} /\ NextTable(s)
    \/ /\ lacks # {}
       /\ todo' = [todo EXCEPT ![s].lacks = lacks]
       /\ Goto(s, "alter")

\* Mutant: the columns are added whether or not they are there.
Inspect_Never(s) ==
    /\ server[s] = "inspect"
    /\ Adds(s, Schema[todo[s].table])
    /\ UNCHANGED <<columns, seeds, failures, torn, table, seed_file, removed>>

\* PRAGMA table_info.
Inspect(s) ==
    /\ server[s] = "inspect"
    /\ Adds(s, Schema[todo[s].table] \ columns)
    /\ UNCHANGED <<columns, seeds, failures, torn, table, seed_file, removed>>

\* ALTER TABLE ADD COLUMN fails when another server has added it by now, and
\* then the process exits.
Alter(s) ==
    /\ server[s] = "alter"
    /\ LET column == Min(todo[s].lacks)
       IN  /\ columns' = columns \cup {column}
           /\ \/ column \notin columns /\ Adds(s, todo[s].lacks \ {column})
              \/ /\ column \in columns
                 /\ todo' = [todo EXCEPT ![s] = Ready]
                 /\ Goto(s, "down")
    /\ UNCHANGED <<seeds, failures, torn, table, seed_file, removed>>

Rebuild(s) ==
    /\ server[s] = "rebuild"
    /\ manga_fts' = UNION {TermsOf(manga[m]) : m \in Live}
    /\ replaced' = {}
    /\ Goto(s, "count")
    /\ UNCHANGED <<columns, todo, seeds, failures, torn, manga, seed_file, removed>>

\* SELECT COUNT(*): only an empty catalogue is seeded.
Count(s) ==
    /\ server[s] = "count"
    /\ Goto(s, IF Live = {} THEN "read" ELSE "up")
    /\ UNCHANGED <<columns, todo, seeds, failures, torn, table, seed_file, removed>>

\* A file that does not parse ends the process.
ReadSeed(s) ==
    /\ server[s] = "read"
    /\ \/ seed_file = None /\ Goto(s, "down") /\ UNCHANGED seeds
       \/ /\ seed_file # None
          /\ seeds' = [seeds EXCEPT ![s] = seed_file]
          /\ Goto(s, IF seed_file = <<>> THEN "up" ELSE "seed")
    /\ UNCHANGED <<columns, todo, failures, torn, table, seed_file, removed>>

\* Mutant: the last line of the file is taken for its end.
SeedOne_OffByOne(s) ==
    /\ server[s] = "seed"
    /\ InsertManga(Head(seeds[s]).id, Head(seeds[s]).text)
    /\ seeds' = [seeds EXCEPT ![s] = Tail(@)]
    /\ Goto(s, IF Len(seeds[s]) <= 2 THEN "up" ELSE "seed")
    /\ UNCHANGED <<columns, todo, failures, torn, seed_file, removed>>

\* One line of the seed file; other servers and requests run in between.
SeedOne(s) ==
    /\ server[s] = "seed"
    /\ InsertManga(Head(seeds[s]).id, Head(seeds[s]).text)
    /\ seeds' = [seeds EXCEPT ![s] = Tail(@)]
    /\ Goto(s, IF Len(seeds[s]) = 1 THEN "up" ELSE "seed")
    /\ UNCHANGED <<columns, todo, failures, torn, seed_file, removed>>

\* A statement fails, as on a locked database, and the process exits, or it
\* is killed.
Fail(s) ==
    /\ server[s] # "down" /\ failures < MaxFailures
    /\ Goto(s, "down")
    /\ failures' = failures + 1
    /\ torn' = (torn \/ server[s] = "seed")
    /\ seeds' = [seeds EXCEPT ![s] = <<>>]
    /\ todo' = [todo EXCEPT ![s] = Ready]
    /\ UNCHANGED <<columns, table, seed_file, removed>>

-----------------------------------------------------------------------------
(* The collector writes the file anew: it truncates it, then fills it.      *)

TruncateSeed ==
    /\ seed_file = Seed /\ seed_file # Collected
    /\ seed_file' = None
    /\ UNCHANGED <<table, startup, removed>>

WriteSeed ==
    /\ seed_file = None
    /\ seed_file' = Collected
    /\ UNCHANGED <<table, startup, removed>>

-----------------------------------------------------------------------------
(* Requests.                                                               *)

CreateManga(m, text) ==
    /\ server[Api] = "up" /\ NextRowid <= MaxRowid
    /\ InsertManga(m, text)
    /\ UNCHANGED <<startup, seed_file, removed>>

UpdateManga(m, text) ==
    /\ server[Api] = "up" /\ m \in Live
    /\ manga' = [manga EXCEPT ![m].text = text]
    /\ manga_fts' = Reindexed(manga[m], Row(manga[m].rowid, text))
    /\ UNCHANGED <<replaced, startup, seed_file, removed>>

DeleteManga(m) ==
    /\ server[Api] = "up" /\ m \in Live
    /\ manga' = [manga EXCEPT ![m] = None]
    /\ manga_fts' = Unindexed(manga[m])
    /\ removed' = removed \cup {m}
    /\ UNCHANGED <<replaced, startup, seed_file>>

-----------------------------------------------------------------------------
Boot(s) ==
    \/ Start(s) \/ Inspect(s) \/ Alter(s) \/ Rebuild(s) \/ Count(s)
    \/ ReadSeed(s) \/ SeedOne(s)

Next ==
    \/ \E s \in Servers : Boot(s) \/ Fail(s)
    \/ \E m \in Manga :
        \/ \E text \in Texts : CreateManga(m, text) \/ UpdateManga(m, text)
        \/ DeleteManga(m)
    \/ TruncateSeed \/ WriteSeed

\* A process runs, and restart: unless-stopped brings it back; a collector that
\* has truncated the file fills it.
Spec ==
    /\ Init /\ [][Next]_vars
    /\ \A s \in Servers : WF_vars(Boot(s))
    /\ WF_vars(WriteSeed)

-----------------------------------------------------------------------------
(* Properties.                                                             *)

\* Types; rowids are unique, and a server that seeds has something to insert.
TypeOK ==
    /\ columns \subseteq AllColumns /\ torn \in BOOLEAN
    /\ todo \in [Servers -> [table: DOMAIN Schema, lacks: SUBSET AllColumns]]
    /\ \A s \in Servers : server[s] = "alter" <=> todo[s].lacks # {}
    /\ \A m \in Live : manga[m].rowid \in Nat /\ manga[m].text \in Texts
    /\ \A m, n \in Live : manga[m].rowid = manga[n].rowid => m = n
    /\ manga_fts \subseteq Nat \X UNION Texts
    /\ seed_file \in {Seed, Collected, None}
    /\ server \in [Servers -> {"down", "inspect", "alter", "rebuild", "count", "read",
                               "seed", "up"}]
    /\ \A s \in Servers : server[s] = "seed" <=> seeds[s] # <<>>
    /\ failures \in 0 .. MaxFailures
    /\ removed \subseteq Manga

Serving == \E s \in Servers : server[s] = "up"

\* ListManga joins the index with the table.
Search(t) == {m \in Live : <<manga[m].rowid, t>> \in manga_fts}

\* As long as a server is up, whatever has been replaced, updated, deleted,
\* seeded twice or rebuilt, a search finds every manga by each term of its
\* text, and by another term only through a rowid that a replaced manga has
\* left to it since the index was last rebuilt.
SearchIsExact ==
    Serving => \A m \in Live : \A t \in UNION Texts :
        /\ t \in manga[m].text => m \in Search(t)
        /\ m \in Search(t) => t \in manga[m].text \/ manga[m].rowid \in replaced

\* Once the seeding of a catalogue is over and nobody died in it, all of the seed
\* file is there, of the old one or of the new one, and no half of each, however
\* many servers have counted and seeded at once, requests apart.
SeedIsWhole ==
    Serving /\ ~torn /\ (\A s \in Servers : server[s] # "seed") =>
        \E file \in {Seed, Collected} : \A i \in DOMAIN file : file[i].id \in Live \cup removed

\* Every server comes up, although one that loses the race for a column, or
\* finds the seed file cut off, exits.
ServersComeUp == \A s \in Servers : <>(server[s] = "up")
=============================================================================
