------------------------------ MODULE Library ------------------------------
(***************************************************************************)
(* The reading library: the tables manga, user_progress and                *)
(* user_progress_history, the user service that writes them on behalf of   *)
(* concurrent requests, and the catalogue statements whose foreign-key     *)
(* cascades reach them.                                                    *)
(*                                                                         *)
(* The service opens no transaction: every SQL statement is atomic and     *)
(* statements of different requests, in one process or in several (the     *)
(* API, TCP and gRPC servers open the same file), interleave freely.  One  *)
(* action below is one statement of one request, with the code that runs   *)
(* between it and the next statement.                                      *)
(***************************************************************************)
EXTENDS Integers

CONSTANTS
    Users,      \* user ids; users are never deleted
    Manga,      \* manga ids
    Requests,   \* request goroutines; each serves one request
    Inputs,     \* the request bodies clients may send
    Shelved,    \* the rows user_progress may hold when the servers start
    Totals,     \* values of total_chapters; 0 means unknown
    NoManga,    \* "no such row" in the manga table
    NoEntry     \* "no such row" in user_progress

Keys == Users \X Manga
Statuses == {"reading", "completed", "plan-to-read", "on-hold", "dropped"}
Entries == [chapter: Int, volume: Int, status: Statuses, rating: Int]

Requested ==
    [op: {"add", "progress", "library", "remove"}, key: Keys, chapter: Int,
     volume: Int, status: Statuses \cup {""}, rating: Int, force: BOOLEAN]

\* Adding to a library requires a status.
ASSUME InputsAssumption ==
    /\ Inputs \subseteq Requested
    /\ \A in \in Inputs : in.op = "add" => in.status \in Statuses
ASSUME ShelvedAssumption == Shelved \subseteq Entries
ASSUME TotalsAssumption  == Totals \subseteq Nat
ASSUME AbsenceAssumption == NoManga \notin Nat /\ NoEntry \notin Entries

\* A row of user_progress_history; its id is the request that inserted it.
Rows == [id: Requests, key: Keys, previous: Int, current: Int,
         previousVolume: Int, currentVolume: Int]

VARIABLES
    totals,     \* totals[m]: total_chapters of manga m, or NoManga
    progress,   \* progress[k]: the user_progress row of k, or NoEntry
    history,    \* the rows of user_progress_history
    pc,         \* pc[r]: the statement request r executes next, or its outcome
    req,        \* req[r]: what request r asks for, once it has started
    limit,      \* limit[r]: the total_chapters r has read
    seen,       \* seen[r]: the row r has read
    draft,      \* draft[r]: the row r is about to write
    reply       \* reply[r]: the row r read back after writing

tables == <<totals, progress, history>>
vars == <<totals, progress, history, pc, req, limit, seen, draft, reply>>

Statements == {"manga", "entry", "upsert", "reread", "history", "delete"}
Outcomes == {"ok", "refused", "failed"}

FirstStatement ==
    [add |-> "manga", progress |-> "manga", library |-> "entry", remove |-> "delete"]

Init ==
    /\ totals \in [Manga -> Totals \cup {NoManga}]
    /\ progress \in [Keys -> Shelved \cup {NoEntry}]
    /\ \A k \in Keys : progress[k] # NoEntry => totals[k[2]] # NoManga
    /\ history = {}
    /\ req \in [Requests -> Inputs]
    /\ pc = [r \in Requests |-> FirstStatement[req[r].op]]
    /\ limit = [r \in Requests |-> 0]
    /\ seen = [r \in Requests |-> NoEntry]
    /\ draft = [r \in Requests |-> NoEntry]
    /\ reply = [r \in Requests |-> NoEntry]

Goto(r, next) == pc' = [pc EXCEPT ![r] = next]

Exists(m) == totals[m] # NoManga
MangaOf(r) == req[r].key[2]
Current(r) == progress[req[r].key]

-----------------------------------------------------------------------------
(* What the service computes between two statements.                       *)

\* The row AddToLibrary writes: the request's fields, whatever is stored.
AddedRow(in) ==
    [chapter |-> in.chapter, volume |-> in.volume,
     status |-> in.status, rating |-> in.rating]

\* Mutant: one chapter too many is let through.
BeyondEnd_OffByOne(in, total) == total > 0 /\ in.chapter > total + 1

BeyondEnd(in, total) == total > 0 /\ in.chapter > total

\* Mutant: the volume is not checked.
Backwards_ChapterOnly(in, row) == ~in.force /\ in.chapter < row.chapter

Backwards(in, row) ==
    /\ ~in.force
    /\ \/ in.chapter < row.chapter
       \/ in.volume > 0 /\ in.volume < row.volume

\* The checks of UpdateProgress, in their order.
Allowed(in, total, row) ==
    row # NoEntry /\ ~BeyondEnd(in, total) /\ ~Backwards(in, row)

\* The row UpdateProgress writes over row.  It carries no rating.
AdvancedRow(in, row) ==
    [chapter |-> in.chapter,
     volume  |-> IF in.volume > 0 THEN in.volume ELSE row.volume,
     status  |-> IF in.status = "" THEN "reading" ELSE in.status,
     rating  |-> 0]

\* The row UpdateLibrary writes over row: all of it, with two fields patched.
PatchedRow(in, row) ==
    [row EXCEPT !.status = IF in.status = "" THEN @ ELSE in.status,
                !.rating = IF in.rating > 0 THEN in.rating ELSE @]

-----------------------------------------------------------------------------
(* The statements of a request.                                            *)

\* GetMangaByID, the first read of AddToLibrary and of UpdateProgress.
ReadManga(r) ==
    /\ pc[r] = "manga"
    /\ \/ /\ ~Exists(MangaOf(r))
          /\ Goto(r, "refused")
          /\ UNCHANGED <<limit, draft>>
       \/ /\ Exists(MangaOf(r))
          /\ req[r].op = "add"
          /\ draft' = [draft EXCEPT ![r] = AddedRow(req[r])]
          /\ Goto(r, "upsert")
          /\ UNCHANGED limit
       \/ /\ Exists(MangaOf(r))
          /\ req[r].op = "progress"
          /\ limit' = [limit EXCEPT ![r] = totals[MangaOf(r)]]
          /\ Goto(r, "entry")
          /\ UNCHANGED draft
    /\ UNCHANGED <<tables, req, seen, reply>>

\* GetLibraryEntry and the checks of UpdateProgress.
ReadEntry(r) ==
    /\ pc[r] = "entry"
    /\ req[r].op = "progress"
    /\ \/ /\ ~Allowed(req[r], limit[r], Current(r))
          /\ Goto(r, "refused")
          /\ UNCHANGED <<seen, draft>>
       \/ /\ Allowed(req[r], limit[r], Current(r))
          /\ seen' = [seen EXCEPT ![r] = Current(r)]
          /\ draft' = [draft EXCEPT ![r] = AdvancedRow(req[r], Current(r))]
          /\ Goto(r, "upsert")
    /\ UNCHANGED <<tables, req, limit, reply>>

\* GetUserLibrary and the patch of UpdateLibrary.
ReadLibrary(r) ==
    /\ pc[r] = "entry"
    /\ req[r].op = "library"
    /\ \/ /\ Current(r) = NoEntry
          /\ Goto(r, "refused")
          /\ UNCHANGED <<seen, draft>>
       \/ /\ Current(r) # NoEntry
          /\ seen' = [seen EXCEPT ![r] = Current(r)]
          /\ draft' = [draft EXCEPT ![r] = PatchedRow(req[r], Current(r))]
          /\ Goto(r, "upsert")
    /\ UNCHANGED <<tables, req, limit, reply>>

\* Mutant: the connection does not enforce foreign keys.
Upsert_NoForeignKey(r) ==
    /\ pc[r] = "upsert"
    /\ progress' = [progress EXCEPT ![req[r].key] = draft[r]]
    /\ Goto(r, "reread")
    /\ UNCHANGED <<totals, history, req, limit, seen, draft, reply>>

\* INSERT ... ON CONFLICT DO UPDATE; the foreign key refuses a missing manga.
Upsert(r) ==
    /\ pc[r] = "upsert"
    /\ \/ /\ ~Exists(MangaOf(r))
          /\ Goto(r, "refused")
          /\ UNCHANGED progress
       \/ /\ Exists(MangaOf(r))
          /\ progress' = [progress EXCEPT ![req[r].key] = draft[r]]
          /\ Goto(r, "reread")
    /\ UNCHANGED <<totals, history, req, limit, seen, draft, reply>>

\* The row is looked up again in the user's library for the answer.
Reread(r) ==
    /\ pc[r] = "reread"
    /\ \/ /\ Current(r) = NoEntry
          /\ Goto(r, "failed")
          /\ UNCHANGED reply
       \/ /\ Current(r) # NoEntry
          /\ reply' = [reply EXCEPT ![r] = Current(r)]
          /\ Goto(r, IF req[r].op = "progress" THEN "history" ELSE "ok")
    /\ UNCHANGED <<tables, req, limit, seen, draft>>

\* Mutant: the previous place is taken from the entry read back.
HistoryRow_FromReply(r) ==
    [id |-> r, key |-> req[r].key,
     previous |-> reply[r].chapter, current |-> req[r].chapter,
     previousVolume |-> reply[r].volume, currentVolume |-> draft[r].volume]

HistoryRow(r) ==
    [id |-> r, key |-> req[r].key,
     previous |-> seen[r].chapter, current |-> req[r].chapter,
     previousVolume |-> seen[r].volume, currentVolume |-> draft[r].volume]

\* InsertProgressHistory; its error, a foreign key's here, is discarded.
InsertHistory(r) ==
    /\ pc[r] = "history"
    /\ history' = IF Exists(MangaOf(r)) THEN history \cup {HistoryRow(r)} ELSE history
    /\ Goto(r, "ok")
    /\ UNCHANGED <<totals, progress, req, limit, seen, draft, reply>>

\* DELETE FROM user_progress, refused when no row was affected.
DeleteEntry(r) ==
    /\ pc[r] = "delete"
    /\ Goto(r, IF Current(r) = NoEntry THEN "refused" ELSE "ok")
    /\ progress' = [progress EXCEPT ![req[r].key] = NoEntry]
    /\ UNCHANGED <<totals, history, req, limit, seen, draft, reply>>

\* Mutant: a failing read-back is answered as if nothing had been written.
StatementError_Denied(r) ==
    /\ pc[r] \in Statements
    /\ Goto(r, IF pc[r] = "history" THEN "ok" ELSE "refused")
    /\ UNCHANGED <<tables, req, limit, seen, draft, reply>>

\* A statement returns an error (SQLITE_BUSY, a cancelled context) and changes
\* nothing: the request ends there, except that the error of the history
\* insert is discarded and that of the read-back comes after the write.
StatementError(r) ==
    /\ pc[r] \in Statements
    /\ Goto(r, CASE pc[r] = "history" -> "ok"
                 [] pc[r] = "reread"  -> "failed"
                 [] OTHER             -> "refused")
    /\ UNCHANGED <<tables, req, limit, seen, draft, reply>>

Proceed(r) ==
    \/ ReadManga(r) \/ ReadEntry(r) \/ ReadLibrary(r) \/ Upsert(r)
    \/ Reread(r) \/ InsertHistory(r) \/ DeleteEntry(r)

Step(r) == Proceed(r) \/ StatementError(r)

-----------------------------------------------------------------------------
(* The catalogue, as far as it reaches the library.                        *)

\* ON DELETE CASCADE of the manga row m.
Cascade(m) ==
    /\ progress' = [k \in Keys |-> IF k[2] = m THEN NoEntry ELSE progress[k]]
    /\ history' = {h \in history : h.key[2] # m}

\* INSERT OR REPLACE: a row that exists is deleted, with its cascade, first.
CreateManga(m, total) ==
    /\ totals' = [totals EXCEPT ![m] = total]
    /\ Cascade(m)
    /\ UNCHANGED <<pc, req, limit, seen, draft, reply>>

UpdateManga(m, total) ==
    /\ Exists(m)
    /\ totals' = [totals EXCEPT ![m] = total]
    /\ UNCHANGED <<progress, history, pc, req, limit, seen, draft, reply>>

DeleteManga(m) ==
    /\ Exists(m)
    /\ totals' = [totals EXCEPT ![m] = NoManga]
    /\ Cascade(m)
    /\ UNCHANGED <<pc, req, limit, seen, draft, reply>>

Catalogue ==
    \E m \in Manga :
        \/ \E total \in Totals : CreateManga(m, total) \/ UpdateManga(m, total)
        \/ DeleteManga(m)

Next == Catalogue \/ \E r \in Requests : Step(r)

\* What holds of the library is safety: no statement waits for another request,
\* so that a request whose goroutine runs comes to its answer.
Spec == Init /\ [][Next]_vars

-----------------------------------------------------------------------------
(* Properties.                                                             *)

\* The types of the tables and of what each request holds.
TypeOK ==
    /\ totals \in [Manga -> Nat \cup {NoManga}]
    /\ progress \in [Keys -> Entries \cup {NoEntry}]
    /\ history \subseteq Rows
    /\ pc \in [Requests -> Statements \cup Outcomes]
    /\ req \in [Requests -> Inputs]
    /\ limit \in [Requests -> Nat]
    /\ seen \in [Requests -> Entries \cup {NoEntry}]
    /\ draft \in [Requests -> Entries \cup {NoEntry}]
    /\ reply \in [Requests -> Entries \cup {NoEntry}]

\* No library entry and no history row outlives its manga, whatever the
\* order in which catalogue statements fall between a request's check that
\* the manga exists and its later inserts.
ForeignKeys ==
    /\ \A k \in Keys : progress[k] # NoEntry => Exists(k[2])
    /\ \A h \in history : Exists(h.key[2])

\* Every history row is the advance its request checked and then stored:
\* the chapter it was asked for and, unless forced, none of it backwards,
\* even when other requests wrote the entry in between.
HistoryIsProgress ==
    \A h \in history :
        /\ pc[h.id] = "ok"
        /\ req[h.id].op = "progress"
        /\ h.key = req[h.id].key
        /\ h.current = req[h.id].chapter
        /\ ~req[h.id].force => h.previous <= h.current
        /\ ~req[h.id].force => h.previousVolume <= h.currentVolume

Writes(r) == pc[r] = "upsert" /\ pc'[r] = "reread"

\* What UpdateProgress checked and what UpdateLibrary must leave alone still
\* hold of the row it writes over whenever that row is the one it read:
\* only a write that lands on a changed row can regress an entry.
FreshWritesKeepPlace ==
    [][\A r \in Requests :
        Writes(r) /\ Current(r) = seen[r] =>
            LET row == progress'[req[r].key] IN
            /\ req[r].op = "progress" /\ ~req[r].force =>
                   row.chapter >= Current(r).chapter /\ row.volume >= Current(r).volume
            /\ req[r].op = "library" =>
                   row.chapter = Current(r).chapter /\ row.volume = Current(r).volume
      ]_vars

\* A progress write lands beyond the manga's last chapter only if the
\* catalogue changed total_chapters after the request had read it.
FreshWritesStayInBounds ==
    [][\A r \in Requests :
        /\ Writes(r) /\ req[r].op = "progress"
        /\ totals[MangaOf(r)] = limit[r] /\ limit[r] > 0
        => progress'[req[r].key].chapter <= totals[MangaOf(r)]
      ]_vars

OutcomeOf(r) ==
    CASE pc[r] \in {"reread", "history"} -> "applied"
      [] pc[r] \in Outcomes -> pc[r]
      [] OTHER -> "pending"

Contract == INSTANCE LibraryContract WITH
    catalogue <- {m \in Manga : Exists(m)},
    shelf <- progress,
    log <- {<<h.id, h.key, h.current>> : h \in history},
    asked <- req,
    outcome <- [r \in Requests |-> OutcomeOf(r)]

\* The library implements its contract: under every interleaving a request
\* takes effect at most once, on its own entry only, "ok" means it did and
\* "refused" that it did not.
ImplementsContract == Contract!Spec

=============================================================================
