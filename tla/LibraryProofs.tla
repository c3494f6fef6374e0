--------------------------- MODULE LibraryProofs ---------------------------
(***************************************************************************)
(* Proofs about Library for any users, manga, requests, bodies and stored  *)
(* rows: types, the foreign keys, the history, the writes that land on the *)
(* row they were computed from, and the contract.                          *)
(***************************************************************************)
EXTENDS Library, TLAPS

-----------------------------------------------------------------------------
(* What a request holds between its reads and its last statement.          *)

Writing(r) == pc[r] \in {"upsert", "reread", "history"}

\* Each statement belongs to the operations that execute it.
Routed(r) ==
    /\ pc[r] = "manga" => req[r].op \in {"add", "progress"}
    /\ pc[r] = "entry" => req[r].op \in {"progress", "library"}
    /\ Writing(r) => req[r].op # "remove"
    /\ pc[r] = "delete" => req[r].op = "remove"
    /\ pc[r] = "history" => req[r].op = "progress"

\* The row about to be written was computed from the row that was read, and
\* passed the checks made on it.
Prepared(r) ==
    Writing(r) =>
        /\ req[r].op = "add" => draft[r] = AddedRow(req[r])
        /\ req[r].op = "progress" =>
              /\ seen[r] \in Entries
              /\ Allowed(req[r], limit[r], seen[r])
              /\ draft[r] = AdvancedRow(req[r], seen[r])
        /\ req[r].op = "library" =>
              /\ seen[r] \in Entries
              /\ draft[r] = PatchedRow(req[r], seen[r])

RequestInv == \A r \in Requests : Routed(r) /\ Prepared(r)

IInv == TypeOK /\ ForeignKeys /\ RequestInv /\ HistoryIsProgress

-----------------------------------------------------------------------------
(* The rows the service computes are rows.                                 *)

LEMMA AddedRowType ==
    ASSUME NEW in \in Requested, in.status \in Statuses
    PROVE  AddedRow(in) \in Entries
BY DEF Requested, AddedRow, Entries

LEMMA AdvancedRowType ==
    ASSUME NEW in \in Requested, NEW row \in Entries
    PROVE  /\ AdvancedRow(in, row) \in Entries
           /\ AdvancedRow(in, row).chapter = in.chapter
           /\ AdvancedRow(in, row).volume =
                  IF in.volume > 0 THEN in.volume ELSE row.volume
<1> DEFINE volume == IF in.volume > 0 THEN in.volume ELSE row.volume
           status == IF in.status = "" THEN "reading" ELSE in.status
<1>1. in.chapter \in Int /\ volume \in Int
  BY DEF Requested, Entries
<1>2. status \in Statuses
  BY DEF Requested, Statuses
<1>3. AdvancedRow(in, row) =
        [chapter |-> in.chapter, volume |-> volume, status |-> status, rating |-> 0]
  BY DEF AdvancedRow
<1>4. /\ AdvancedRow(in, row) \in Entries
      /\ AdvancedRow(in, row).chapter = in.chapter
      /\ AdvancedRow(in, row).volume = volume
  <2> HIDE DEF volume, status
  <2> QED
    BY <1>1, <1>2, <1>3 DEF Entries
<1> QED
  BY <1>4

LEMMA AdvancedRowRest ==
    ASSUME NEW in \in Requested, NEW row \in Entries
    PROVE  /\ AdvancedRow(in, row).status =
                  IF in.status = "" THEN "reading" ELSE in.status
           /\ AdvancedRow(in, row).rating = 0
<1> DEFINE volume == IF in.volume > 0 THEN in.volume ELSE row.volume
           status == IF in.status = "" THEN "reading" ELSE in.status
<1>1. AdvancedRow(in, row) =
        [chapter |-> in.chapter, volume |-> volume, status |-> status, rating |-> 0]
  BY DEF AdvancedRow
<1>2. AdvancedRow(in, row).status = status /\ AdvancedRow(in, row).rating = 0
  <2> HIDE DEF volume, status
  <2> QED
    BY <1>1
<1> QED
  BY <1>2

LEMMA PatchedRowType ==
    ASSUME NEW in \in Requested, NEW row \in Entries
    PROVE  /\ PatchedRow(in, row) \in Entries
           /\ PatchedRow(in, row).chapter = row.chapter
           /\ PatchedRow(in, row).volume = row.volume
BY DEF Requested, PatchedRow, Entries

-----------------------------------------------------------------------------
(* What a step leaves alone stays as it was.                               *)

LEMMA KeyManga ==
    ASSUME TypeOK, NEW r \in Requests
    PROVE  /\ req[r] \in Requested /\ req[r].key \in Keys /\ MangaOf(r) \in Manga
           /\ req[r].op = "add" => req[r].status \in Statuses
<1>1. req[r] \in Requested /\ (req[r].op = "add" => req[r].status \in Statuses)
  BY InputsAssumption DEF TypeOK
<1>2. req[r].key \in Keys
  BY <1>1 DEF Requested
<1> QED
  BY <1>1, <1>2 DEF Keys, MangaOf

LEMMA RequestFrame ==
    ASSUME NEW q \in Requests, Routed(q), Prepared(q),
           pc'[q] = pc[q], req' = req, limit'[q] = limit[q],
           seen'[q] = seen[q], draft'[q] = draft[q]
    PROVE  Routed(q)' /\ Prepared(q)'
BY DEF Routed, Prepared, Writing

LEMMA HistoryFrame ==
    ASSUME HistoryIsProgress, history' \subseteq history, req' = req,
           \A q \in Requests : pc[q] = "ok" => pc'[q] = "ok", TypeOK
    PROVE  HistoryIsProgress'
<1> SUFFICES ASSUME NEW h \in history'
             PROVE  HistoryIsProgress!(h)'
  BY DEF HistoryIsProgress
<1>1. h \in history /\ h.id \in Requests
  BY DEF TypeOK, Rows
<1> QED
  BY <1>1 DEF HistoryIsProgress

LEMMA ForeignKeysFrame ==
    ASSUME ForeignKeys, UNCHANGED tables
    PROVE  ForeignKeys'
BY DEF ForeignKeys, tables, Exists

\* A step of r that touches no table: only r's own part is left to show.
LEMMA LocalStep ==
    ASSUME IInv, NEW r \in Requests, UNCHANGED <<tables, req>>, pc[r] # "ok",
           TypeOK', Routed(r)', Prepared(r)',
           \A q \in Requests \ {r} :
               /\ pc'[q] = pc[q] /\ limit'[q] = limit[q]
               /\ seen'[q] = seen[q] /\ draft'[q] = draft[q]
    PROVE  IInv'
<1>1. RequestInv'
  <2> SUFFICES ASSUME NEW q \in Requests
               PROVE  Routed(q)' /\ Prepared(q)'
    BY DEF RequestInv
  <2>1. CASE q = r
    BY <2>1
  <2>2. CASE q # r
    BY <2>2, RequestFrame DEF IInv, RequestInv
  <2> QED
    BY <2>1, <2>2
<1>2. HistoryIsProgress'
  <2>1. \A q \in Requests : pc[q] = "ok" => pc'[q] = "ok"
    OBVIOUS
  <2> QED
    BY <2>1, HistoryFrame DEF IInv, tables
<1>3. ForeignKeys'
  BY ForeignKeysFrame DEF IInv
<1> QED
  BY <1>1, <1>2, <1>3 DEF IInv

-----------------------------------------------------------------------------
(* The invariant holds initially and every action preserves it.            *)

LEMMA InitInv == Init => IInv
<1> SUFFICES ASSUME Init
             PROVE  IInv
  OBVIOUS
<1> USE DEF Init
<1>1. ASSUME NEW r \in Requests
      PROVE  /\ req[r] \in Requested
             /\ pc[r] \in {"manga", "entry", "delete"}
             /\ Routed(r)
  <2>1. req[r] \in Requested
    BY InputsAssumption
  <2>2. req[r].op \in {"add", "progress", "library", "remove"}
    BY <2>1 DEF Requested
  <2>3. pc[r] = FirstStatement[req[r].op]
    OBVIOUS
  <2> QED
    BY <2>1, <2>2, <2>3 DEF FirstStatement, Routed, Writing
<1>2. TypeOK
  BY <1>1, TotalsAssumption, ShelvedAssumption DEF TypeOK, Statements, Rows
<1>3. ForeignKeys
  BY DEF ForeignKeys, Exists
<1>4. RequestInv
  BY <1>1 DEF RequestInv, Prepared, Writing
<1>5. HistoryIsProgress
  BY DEF HistoryIsProgress
<1> QED
  BY <1>2, <1>3, <1>4, <1>5 DEF IInv

LEMMA ReadMangaInv ==
    ASSUME IInv, NEW r \in Requests, ReadManga(r)
    PROVE  IInv'
<1> USE DEF ReadManga, Goto
<1>1. req[r] \in Requested /\ MangaOf(r) \in Manga /\ TypeOK
  BY KeyManga DEF IInv
<1>2. CASE ~Exists(MangaOf(r))
  <2>1. TypeOK'
    BY <1>1, <1>2 DEF TypeOK, tables, Outcomes
  <2>2. Routed(r)' /\ Prepared(r)'
    BY <1>1, <1>2 DEF Routed, Prepared, Writing, TypeOK
  <2> QED
    BY <1>2, <1>1, <2>1, <2>2, LocalStep DEF TypeOK
<1>3. CASE Exists(MangaOf(r)) /\ req[r].op = "add"
  <2>1. draft'[r] = AddedRow(req[r]) /\ draft'[r] \in Entries
    BY <1>1, <1>3, KeyManga, AddedRowType DEF IInv, TypeOK
  <2>2. TypeOK'
    BY <1>1, <1>3, <2>1 DEF TypeOK, tables, Statements
  <2>3. Routed(r)' /\ Prepared(r)'
    BY <1>1, <1>3, <2>1 DEF Routed, Prepared, Writing, TypeOK
  <2> QED
    BY <1>1, <1>3, <2>2, <2>3, LocalStep DEF TypeOK
<1>4. CASE Exists(MangaOf(r)) /\ req[r].op = "progress"
  <2>1. TypeOK'
    BY <1>1, <1>4 DEF TypeOK, tables, Statements, Exists
  <2>2. Routed(r)' /\ Prepared(r)'
    BY <1>1, <1>4 DEF Routed, Prepared, Writing, TypeOK
  <2> QED
    BY <1>1, <1>4, <2>1, <2>2, LocalStep DEF TypeOK
<1> QED
  BY <1>2, <1>3, <1>4

LEMMA ReadEntryInv ==
    ASSUME IInv, NEW r \in Requests, ReadEntry(r)
    PROVE  IInv'
<1> USE DEF ReadEntry, Goto
<1>1. req[r] \in Requested /\ req[r].key \in Keys /\ TypeOK
  BY KeyManga DEF IInv
<1>2. CASE ~Allowed(req[r], limit[r], Current(r))
  <2>1. TypeOK'
    BY <1>1, <1>2 DEF TypeOK, tables, Outcomes
  <2>2. Routed(r)' /\ Prepared(r)'
    BY <1>1, <1>2 DEF Routed, Prepared, Writing, TypeOK
  <2> QED
    BY <1>1, <1>2, <2>1, <2>2, LocalStep DEF TypeOK
<1>3. CASE Allowed(req[r], limit[r], Current(r))
  <2>1. Current(r) \in Entries
    BY <1>1, <1>3 DEF Allowed, Current, TypeOK
  <2>2. /\ seen'[r] = Current(r)
        /\ draft'[r] = AdvancedRow(req[r], Current(r))
        /\ draft'[r] \in Entries
    BY <1>1, <1>3, <2>1, AdvancedRowType DEF TypeOK
  <2>3. TypeOK'
    BY <1>1, <1>3, <2>1, <2>2 DEF TypeOK, tables, Statements
  <2>4. Routed(r)' /\ Prepared(r)'
    BY <1>1, <1>3, <2>1, <2>2 DEF Routed, Prepared, Writing, TypeOK
  <2> QED
    BY <1>1, <1>3, <2>3, <2>4, LocalStep DEF TypeOK
<1> QED
  BY <1>2, <1>3

LEMMA ReadLibraryInv ==
    ASSUME IInv, NEW r \in Requests, ReadLibrary(r)
    PROVE  IInv'
<1> USE DEF ReadLibrary, Goto
<1>1. req[r] \in Requested /\ req[r].key \in Keys /\ TypeOK
  BY KeyManga DEF IInv
<1>2. CASE Current(r) = NoEntry
  <2>1. TypeOK'
    BY <1>1, <1>2 DEF TypeOK, tables, Outcomes
  <2>2. Routed(r)' /\ Prepared(r)'
    BY <1>1, <1>2 DEF Routed, Prepared, Writing, TypeOK
  <2> QED
    BY <1>1, <1>2, <2>1, <2>2, LocalStep DEF TypeOK
<1>3. CASE Current(r) # NoEntry
  <2>1. Current(r) \in Entries
    BY <1>1, <1>3 DEF Current, TypeOK
  <2>2. /\ seen'[r] = Current(r)
        /\ draft'[r] = PatchedRow(req[r], Current(r))
        /\ draft'[r] \in Entries
    BY <1>1, <1>3, <2>1, PatchedRowType DEF TypeOK
  <2>3. TypeOK'
    BY <1>1, <1>3, <2>1, <2>2 DEF TypeOK, tables, Statements
  <2>4. Routed(r)' /\ Prepared(r)'
    BY <1>1, <1>3, <2>1, <2>2 DEF Routed, Prepared, Writing, TypeOK
  <2> QED
    BY <1>1, <1>3, <2>3, <2>4, LocalStep DEF TypeOK
<1> QED
  BY <1>2, <1>3

LEMMA RereadInv ==
    ASSUME IInv, NEW r \in Requests, Reread(r)
    PROVE  IInv'
<1> USE DEF Reread, Goto
<1>1. req[r] \in Requested /\ req[r].key \in Keys /\ TypeOK
  BY KeyManga DEF IInv
<1>2. Current(r) \in Entries \cup {NoEntry}
  BY <1>1 DEF Current, TypeOK
<1>3. TypeOK'
  BY <1>1, <1>2 DEF TypeOK, tables, Statements, Outcomes
<1>4. Routed(r)' /\ Prepared(r)'
  BY <1>1 DEF Routed, Prepared, Writing, TypeOK, IInv, RequestInv
<1> QED
  BY <1>1, <1>3, <1>4, LocalStep DEF TypeOK

LEMMA StatementErrorInv ==
    ASSUME IInv, NEW r \in Requests, StatementError(r)
    PROVE  IInv'
<1> USE DEF StatementError, Goto
<1>1. TypeOK /\ pc[r] # "ok"
  BY DEF IInv, Statements
<1>2. pc'[r] \in Outcomes
  BY <1>1 DEF TypeOK, Outcomes
<1>3. TypeOK'
  BY <1>1, <1>2 DEF TypeOK, tables
<1>4. Routed(r)' /\ Prepared(r)'
  BY <1>2 DEF Routed, Prepared, Writing, Outcomes
<1> QED
  BY <1>1, <1>3, <1>4, LocalStep DEF TypeOK

\* The same for a step of r that writes a table: the foreign keys and the
\* history are for the step to show.
LEMMA WritingStep ==
    ASSUME IInv, NEW r \in Requests, req' = req, UNCHANGED <<limit, seen, draft>>,
           \A q \in Requests \ {r} : pc'[q] = pc[q],
           TypeOK', Routed(r)', Prepared(r)', ForeignKeys', HistoryIsProgress'
    PROVE  IInv'
<1>1. RequestInv'
  <2> SUFFICES ASSUME NEW q \in Requests
               PROVE  Routed(q)' /\ Prepared(q)'
    BY DEF RequestInv
  <2>1. CASE q = r
    BY <2>1
  <2>2. CASE q # r
    BY <2>2, RequestFrame DEF IInv, RequestInv
  <2> QED
    BY <2>1, <2>2
<1> QED
  BY <1>1 DEF IInv

LEMMA UpsertInv ==
    ASSUME IInv, NEW r \in Requests, Upsert(r)
    PROVE  IInv'
<1> USE DEF Upsert, Goto
<1>1. /\ req[r] \in Requested /\ req[r].key \in Keys /\ TypeOK
      /\ req[r].op = "add" => req[r].status \in Statuses
  BY KeyManga DEF IInv
<1>2. /\ req[r].op \in {"add", "progress", "library"}
      /\ Prepared(r) /\ Writing(r)
  BY <1>1 DEF IInv, RequestInv, Routed, Writing, Requested
<1>3. draft[r] \in Entries
  BY <1>1, <1>2, AddedRowType, AdvancedRowType, PatchedRowType DEF Prepared
<1>4. TypeOK'
  BY <1>1, <1>3 DEF TypeOK, Statements, Outcomes
<1>5. Routed(r)' /\ Prepared(r)'
  BY <1>1, <1>2 DEF Routed, Prepared, Writing, TypeOK
<1>6. ForeignKeys'
  BY <1>1 DEF IInv, ForeignKeys, Exists, TypeOK, MangaOf
<1>7. HistoryIsProgress'
  BY <1>1, HistoryFrame DEF IInv, TypeOK
<1> QED
  BY <1>1, <1>4, <1>5, <1>6, <1>7, WritingStep DEF TypeOK

LEMMA HistoryRowFacts ==
    ASSUME IInv, NEW r \in Requests, pc[r] = "history"
    PROVE  /\ HistoryRow(r) \in Rows
           /\ req[r].op = "progress"
           /\ ~req[r].force => /\ seen[r].chapter <= req[r].chapter
                               /\ seen[r].volume <= draft[r].volume
<1>1. req[r] \in Requested /\ req[r].key \in Keys
  BY KeyManga DEF IInv
<1>2. /\ req[r].op = "progress" /\ seen[r] \in Entries
      /\ Allowed(req[r], limit[r], seen[r])
      /\ draft[r] = AdvancedRow(req[r], seen[r])
  BY DEF IInv, RequestInv, Routed, Prepared, Writing
<1>3. draft[r] \in Entries
  BY <1>1, <1>2, AdvancedRowType
<1>4. HistoryRow(r) \in Rows
  BY <1>1, <1>2, <1>3 DEF HistoryRow, Rows, Entries, Requested
<1>5. ASSUME ~req[r].force
      PROVE  seen[r].chapter <= req[r].chapter /\ seen[r].volume <= draft[r].volume
  <2>1. /\ ~(req[r].chapter < seen[r].chapter)
        /\ ~(req[r].volume > 0 /\ req[r].volume < seen[r].volume)
    BY <1>2, <1>5 DEF Allowed, Backwards
  <2>2. /\ req[r].chapter \in Int /\ req[r].volume \in Int
        /\ seen[r].chapter \in Int /\ seen[r].volume \in Int
    BY <1>1, <1>2 DEF Requested, Entries
  <2>3. draft[r].volume = IF req[r].volume > 0 THEN req[r].volume ELSE seen[r].volume
    BY <1>1, <1>2, AdvancedRowType
  <2> QED
    BY <2>1, <2>2, <2>3
<1> QED
  BY <1>2, <1>4, <1>5

LEMMA InsertHistoryInv ==
    ASSUME IInv, NEW r \in Requests, InsertHistory(r)
    PROVE  IInv'
<1> USE DEF InsertHistory, Goto
<1>1. req[r].key \in Keys /\ TypeOK
  BY KeyManga DEF IInv
<1>2. TypeOK'
  BY <1>1, HistoryRowFacts DEF TypeOK, Outcomes
<1>3. Routed(r)' /\ Prepared(r)'
  BY <1>1 DEF Routed, Prepared, Writing, TypeOK
<1>4. ForeignKeys'
  BY <1>1 DEF IInv, ForeignKeys, Exists, HistoryRow, MangaOf
<1>5. HistoryIsProgress'
  <2> SUFFICES ASSUME NEW h \in history'
               PROVE  HistoryIsProgress!(h)'
    BY DEF HistoryIsProgress
  <2>1. CASE h \in history
    BY <2>1, <1>1 DEF IInv, HistoryIsProgress, TypeOK, Rows
  <2>2. CASE h = HistoryRow(r)
    <3>1. /\ h.id = r /\ h.key = req[r].key
          /\ h.previous = seen[r].chapter /\ h.current = req[r].chapter
          /\ h.previousVolume = seen[r].volume /\ h.currentVolume = draft[r].volume
      BY <2>2 DEF HistoryRow
    <3> QED
      BY <3>1, <1>1, HistoryRowFacts DEF TypeOK
  <2> QED
    BY <2>1, <2>2
<1> QED
  BY <1>1, <1>2, <1>3, <1>4, <1>5, WritingStep DEF TypeOK

LEMMA DeleteEntryInv ==
    ASSUME IInv, NEW r \in Requests, DeleteEntry(r)
    PROVE  IInv'
<1> USE DEF DeleteEntry, Goto
<1>1. req[r].key \in Keys /\ TypeOK
  BY KeyManga DEF IInv
<1>2. TypeOK'
  BY <1>1 DEF TypeOK, Outcomes
<1>3. Routed(r)' /\ Prepared(r)'
  BY <1>1 DEF Routed, Prepared, Writing, TypeOK
<1>4. ForeignKeys'
  BY <1>1 DEF IInv, ForeignKeys, Exists, TypeOK
<1>5. HistoryIsProgress'
  BY <1>1, HistoryFrame DEF IInv, TypeOK
<1> QED
  BY <1>1, <1>2, <1>3, <1>4, <1>5, WritingStep DEF TypeOK

LEMMA CatalogueInv ==
    ASSUME IInv, Catalogue
    PROVE  IInv'
<1>1. PICK m \in Manga :
          \/ \E total \in Totals : CreateManga(m, total)
          \/ \E total \in Totals : UpdateManga(m, total)
          \/ DeleteManga(m)
  BY DEF Catalogue
<1>2. UNCHANGED <<pc, req, limit, seen, draft, reply>>
  BY <1>1 DEF CreateManga, UpdateManga, DeleteManga
<1>3. RequestInv'
  BY <1>2, RequestFrame DEF IInv, RequestInv
<1>4. history' \subseteq history
  BY <1>1 DEF CreateManga, UpdateManga, DeleteManga, Cascade
<1>5. HistoryIsProgress'
  BY <1>2, <1>4, HistoryFrame DEF IInv
<1>6. TypeOK /\ ForeignKeys
  BY DEF IInv
<1>7. totals' \in [Manga -> Nat \cup {NoManga}]
  BY <1>1, <1>6, TotalsAssumption DEF CreateManga, UpdateManga, DeleteManga, TypeOK
<1>8. progress' \in [Keys -> Entries \cup {NoEntry}]
  BY <1>1, <1>6 DEF CreateManga, UpdateManga, DeleteManga, Cascade, TypeOK
<1>9. TypeOK'
  BY <1>2, <1>4, <1>6, <1>7, <1>8 DEF TypeOK
<1>10. ForeignKeys'
  <2>1. ASSUME NEW total \in Totals, UpdateManga(m, total)
        PROVE  ForeignKeys'
    BY <2>1, <1>6, TotalsAssumption, AbsenceAssumption
    DEF UpdateManga, ForeignKeys, Exists, TypeOK
  <2>2. ASSUME Cascade(m), \A n \in Manga \ {m} : totals'[n] = totals[n]
        PROVE  ForeignKeys'
    <3>1. ASSUME NEW k \in Keys, progress'[k] # NoEntry
          PROVE  totals'[k[2]] # NoManga
      BY <3>1, <2>2, <1>6 DEF Cascade, ForeignKeys, Exists, Keys
    <3>2. ASSUME NEW h \in history'
          PROVE  totals'[h.key[2]] # NoManga
      BY <3>2, <2>2, <1>6 DEF Cascade, ForeignKeys, Exists, TypeOK, Rows, Keys
    <3> QED
      BY <3>1, <3>2 DEF ForeignKeys, Exists
  <2> QED
    BY <1>1, <1>6, <2>1, <2>2 DEF CreateManga, DeleteManga, TypeOK
<1> QED
  BY <1>3, <1>5, <1>9, <1>10 DEF IInv

LEMMA NextInv == IInv /\ [Next]_vars => IInv'
<1> SUFFICES ASSUME IInv, [Next]_vars
             PROVE  IInv'
  OBVIOUS
<1>1. CASE UNCHANGED vars
  <2>1. \A r \in Requests : Routed(r)' /\ Prepared(r)'
    BY <1>1, RequestFrame DEF vars, IInv, RequestInv
  <2>2. TypeOK' /\ ForeignKeys' /\ HistoryIsProgress'
    BY <1>1 DEF vars, IInv, TypeOK, ForeignKeys, Exists, HistoryIsProgress
  <2> QED
    BY <2>1, <2>2 DEF IInv, RequestInv
<1>2. ASSUME NEW r \in Requests, Step(r)
      PROVE  IInv'
  BY <1>2, ReadMangaInv, ReadEntryInv, ReadLibraryInv, UpsertInv, RereadInv,
     InsertHistoryInv, DeleteEntryInv, StatementErrorInv DEF Step, Proceed
<1> QED
  BY <1>1, <1>2, CatalogueInv DEF Next

\* The inductive invariant holds in every reachable state, for any users,
\* manga, requests and request bodies: it is what the service's checks and
\* SQLite's foreign keys together guarantee between any two statements.
THEOREM Invariance == Spec => []IInv
BY InitInv, NextInv, PTL DEF Spec

\* The tables and what every request holds keep their types.
THEOREM TypeCorrect == Spec => []TypeOK
<1>1. IInv => TypeOK
  BY DEF IInv
<1> QED
  BY <1>1, Invariance, PTL

\* No entry and no history row outlives its manga: the catalogue's cascades
\* and the requests' late inserts cannot leave an orphan behind.
THEOREM NoOrphans == Spec => []ForeignKeys
<1>1. IInv => ForeignKeys
  BY DEF IInv
<1> QED
  BY <1>1, Invariance, PTL

\* Every history row is an advance that its own request checked and wrote,
\* and none recorded without force goes backwards.
THEOREM HistoryCorrect == Spec => []HistoryIsProgress
<1>1. IInv => HistoryIsProgress
  BY DEF IInv
<1> QED
  BY <1>1, Invariance, PTL

-----------------------------------------------------------------------------
(* Writes that land on the row they were computed from.                    *)

LEMMA WriteStep ==
    ASSUME IInv, Next, NEW r \in Requests, Writes(r)
    PROVE  /\ req[r].key \in Keys /\ req[r] \in Requested /\ Prepared(r) /\ Writing(r)
           /\ progress'[req[r].key] = draft[r]
<1>1. req[r].key \in Keys /\ req[r] \in Requested /\ TypeOK
  BY KeyManga DEF IInv
<1>2. Prepared(r) /\ Writing(r)
  BY DEF IInv, RequestInv, Writing, Writes
<1>3. ~Catalogue
  BY DEF Catalogue, CreateManga, UpdateManga, DeleteManga, Writes
<1>4. PICK q \in Requests : Step(q)
  BY <1>3 DEF Next
<1>5. q = r
  BY <1>1, <1>4 DEF Step, Proceed, ReadManga, ReadEntry, ReadLibrary, Upsert, Reread,
     InsertHistory, DeleteEntry, StatementError, Goto, Writes, TypeOK
<1>6. pc[r] = "upsert" /\ pc'[r] = "reread"
  BY DEF Writes
<1>7. Upsert(r)
  BY <1>1, <1>4, <1>5, <1>6 DEF Step, Proceed, ReadManga, ReadEntry, ReadLibrary, Reread,
     InsertHistory, DeleteEntry, StatementError, Goto, TypeOK
<1>8. progress' = [progress EXCEPT ![req[r].key] = draft[r]]
  BY <1>1, <1>6, <1>7 DEF Upsert, Goto, TypeOK
<1> QED
  BY <1>1, <1>2, <1>8 DEF TypeOK

\* A write that lands on the row its request read never moves the reader
\* back without force, and an update of status or rating leaves chapter and
\* volume as they were: the regressions TLC finds are all stale writes.
THEOREM FreshWritesSafe == Spec => FreshWritesKeepPlace
<1> DEFINE Fresh == \A r \in Requests :
        Writes(r) /\ Current(r) = seen[r] =>
            LET row == progress'[req[r].key] IN
            /\ req[r].op = "progress" /\ ~req[r].force =>
                   row.chapter >= Current(r).chapter /\ row.volume >= Current(r).volume
            /\ req[r].op = "library" =>
                   row.chapter = Current(r).chapter /\ row.volume = Current(r).volume
<1>1. ASSUME IInv, Next
      PROVE  Fresh
  <2> SUFFICES ASSUME NEW r \in Requests, Writes(r), Current(r) = seen[r]
               PROVE  /\ req[r].op = "progress" /\ ~req[r].force =>
                            /\ draft[r].chapter >= seen[r].chapter
                            /\ draft[r].volume >= seen[r].volume
                      /\ req[r].op = "library" =>
                            /\ draft[r].chapter = seen[r].chapter
                            /\ draft[r].volume = seen[r].volume
    BY <1>1, WriteStep
  <2>1. req[r] \in Requested /\ Prepared(r) /\ Writing(r)
    BY <1>1, WriteStep
  <2>2. CASE req[r].op = "progress" /\ ~req[r].force
    <3>1. seen[r] \in Entries /\ draft[r] = AdvancedRow(req[r], seen[r])
      BY <2>1, <2>2 DEF Prepared
    <3>2. /\ ~(req[r].chapter < seen[r].chapter)
          /\ ~(req[r].volume > 0 /\ req[r].volume < seen[r].volume)
      BY <2>1, <2>2 DEF Prepared, Allowed, Backwards
    <3>3. /\ req[r].chapter \in Int /\ req[r].volume \in Int
          /\ seen[r].chapter \in Int /\ seen[r].volume \in Int
      BY <2>1, <3>1 DEF Requested, Entries
    <3>4. /\ draft[r].chapter = req[r].chapter
          /\ draft[r].volume =
               IF req[r].volume > 0 THEN req[r].volume ELSE seen[r].volume
      BY <2>1, <3>1, AdvancedRowType
    <3> QED
      BY <2>2, <3>2, <3>3, <3>4
  <2>3. CASE req[r].op = "library"
    BY <2>1, <2>3, PatchedRowType DEF Prepared
  <2> QED
    BY <2>2, <2>3
<1>2. ASSUME UNCHANGED vars
      PROVE  Fresh
  BY <1>2 DEF vars, Writes
<1>3. IInv /\ [Next]_vars => [Fresh]_vars
  BY <1>1, <1>2
<1> QED
  BY <1>3, Invariance, PTL DEF Spec, FreshWritesKeepPlace

\* A progress write beyond the last chapter means the catalogue has changed
\* the number of chapters since the request read it.
THEOREM FreshBoundsSafe == Spec => FreshWritesStayInBounds
<1> DEFINE Bounded == \A r \in Requests :
        /\ Writes(r) /\ req[r].op = "progress"
        /\ totals[MangaOf(r)] = limit[r] /\ limit[r] > 0
        => progress'[req[r].key].chapter <= totals[MangaOf(r)]
<1>1. ASSUME IInv, Next
      PROVE  Bounded
  <2> SUFFICES ASSUME NEW r \in Requests, Writes(r), req[r].op = "progress",
                      totals[MangaOf(r)] = limit[r], limit[r] > 0
               PROVE  draft[r].chapter <= limit[r]
    BY <1>1, WriteStep
  <2>1. /\ req[r] \in Requested /\ seen[r] \in Entries /\ limit[r] \in Nat
        /\ draft[r] = AdvancedRow(req[r], seen[r])
        /\ ~(limit[r] > 0 /\ req[r].chapter > limit[r])
    BY <1>1, WriteStep DEF Prepared, Allowed, BeyondEnd, IInv, TypeOK
  <2>2. draft[r].chapter = req[r].chapter /\ req[r].chapter \in Int
    BY <2>1, AdvancedRowType DEF Requested
  <2> QED
    BY <2>1, <2>2
<1>2. IInv /\ [Next]_vars => [Bounded]_vars
  BY <1>1
<1> QED
  BY <1>2, Invariance, PTL DEF Spec, FreshWritesStayInBounds

-----------------------------------------------------------------------------
(* The library implements its contract.                                    *)

LEMMA OutcomeValues ==
    ASSUME NEW r \in Requests
    PROVE  /\ pc[r] \in {"manga", "entry", "upsert", "delete"} => OutcomeOf(r) = "pending"
           /\ pc[r] \in {"reread", "history"} => OutcomeOf(r) = "applied"
           /\ pc[r] \in Outcomes => OutcomeOf(r) = pc[r]
BY DEF OutcomeOf, Outcomes

\* The same after a step.
LEMMA OutcomeValuesNext ==
    ASSUME NEW r \in Requests
    PROVE  /\ pc'[r] \in {"manga", "entry", "upsert", "delete"} => OutcomeOf(r)' = "pending"
           /\ pc'[r] \in {"reread", "history"} => OutcomeOf(r)' = "applied"
           /\ pc'[r] \in Outcomes => OutcomeOf(r)' = pc'[r]
BY DEF OutcomeOf, Outcomes

\* Only the outcome of the request that steps changes.
LEMMA OutcomeUpdate ==
    ASSUME TypeOK, NEW r \in Requests, NEW next,
           pc' = [pc EXCEPT ![r] = next]
    PROVE  [q \in Requests |-> OutcomeOf(q)]' =
             [[q \in Requests |-> OutcomeOf(q)] EXCEPT ![r] = OutcomeOf(r)']
<1>1. ASSUME NEW q \in Requests \ {r}
      PROVE  OutcomeOf(q)' = OutcomeOf(q)
  <2>1. pc'[q] = pc[q]
    BY DEF TypeOK
  <2> QED
    BY <2>1 DEF OutcomeOf
<1> QED
  BY <1>1

\* What a request writes carries what it asks for.
LEMMA DraftCarries ==
    ASSUME IInv, NEW r \in Requests, pc[r] = "upsert"
    PROVE  Contract!Carries(req[r], draft[r])
<1>1. /\ req[r] \in Requested /\ Prepared(r) /\ Writing(r)
      /\ req[r].op \in {"add", "progress", "library"}
  BY KeyManga DEF IInv, RequestInv, Routed, Writing, Requested
<1>2. CASE req[r].op = "add"
  BY <1>1, <1>2 DEF Prepared, Contract!Carries, AddedRow
<1>3. CASE req[r].op = "progress"
  <2>1. seen[r] \in Entries /\ draft[r] = AdvancedRow(req[r], seen[r])
    BY <1>1, <1>3 DEF Prepared
  <2>2. draft[r] \in Entries
    BY <1>1, <2>1, AdvancedRowType
  <2>3. /\ draft[r] # NoEntry
        /\ draft[r].chapter = req[r].chapter
        /\ req[r].volume > 0 => draft[r].volume = req[r].volume
    BY <1>1, <2>1, <2>2, AdvancedRowType, AbsenceAssumption
  <2>4. /\ draft[r].status = IF req[r].status = "" THEN "reading" ELSE req[r].status
        /\ draft[r].rating = 0
    BY <1>1, <2>1, AdvancedRowRest
  <2> QED
    BY <1>3, <2>3, <2>4 DEF Contract!Carries
<1>4. CASE req[r].op = "library"
  <2>1. seen[r] \in Entries /\ draft[r] = PatchedRow(req[r], seen[r])
    BY <1>1, <1>4 DEF Prepared
  <2>2. draft[r] # NoEntry
    BY <1>1, <2>1, PatchedRowType, AbsenceAssumption
  <2>3. /\ req[r].status # "" => draft[r].status = req[r].status
        /\ req[r].rating > 0 => draft[r].rating = req[r].rating
    BY <1>1, <2>1 DEF PatchedRow, Entries, Requested
  <2> QED
    BY <1>4, <2>2, <2>3 DEF Contract!Carries
<1> QED
  BY <1>1, <1>2, <1>3, <1>4

\* A step of r that moves it between two statements of the same phase, or a
\* step of the catalogue that drops nothing, is invisible to the contract.
LEMMA InvisibleStep ==
    ASSUME TypeOK, NEW r \in Requests, NEW next, pc' = [pc EXCEPT ![r] = next],
           UNCHANGED <<tables, req>>, OutcomeOf(r)' = OutcomeOf(r)
    PROVE  UNCHANGED Contract!vars
<1>1. [q \in Requests |-> OutcomeOf(q)]' = [q \in Requests |-> OutcomeOf(q)]
  BY OutcomeUpdate
<1> QED
  BY <1>1 DEF Contract!vars, tables, Exists

LEMMA RefusedStep ==
    ASSUME TypeOK, NEW r \in Requests, OutcomeOf(r) = "pending",
           pc' = [pc EXCEPT ![r] = "refused"], UNCHANGED <<tables, req>>
    PROVE  Contract!Refuse(r)
<1>1. OutcomeOf(r)' = "refused"
  BY OutcomeValuesNext DEF TypeOK, Outcomes
<1>2. [q \in Requests |-> OutcomeOf(q)]' =
        [[q \in Requests |-> OutcomeOf(q)] EXCEPT ![r] = "refused"]
  BY <1>1, OutcomeUpdate
<1> QED
  BY <1>2 DEF Contract!Refuse, tables, Exists

LEMMA FailedStep ==
    ASSUME TypeOK, NEW r \in Requests, pc[r] = "reread",
           pc' = [pc EXCEPT ![r] = "failed"], UNCHANGED <<tables, req>>
    PROVE  Contract!Fail(r)
<1>1. OutcomeOf(r) = "applied" /\ OutcomeOf(r)' = "failed"
  BY OutcomeValues, OutcomeValuesNext DEF TypeOK, Outcomes
<1>2. [q \in Requests |-> OutcomeOf(q)]' =
        [[q \in Requests |-> OutcomeOf(q)] EXCEPT ![r] = "failed"]
  BY <1>1, OutcomeUpdate
<1> QED
  BY <1>1, <1>2 DEF Contract!Fail, tables, Exists

\* r is answered "ok"; the history keeps its row, or does not.
LEMMA AnsweredStep ==
    ASSUME TypeOK, NEW r \in Requests, pc[r] \in {"reread", "history"},
           pc' = [pc EXCEPT ![r] = "ok"], UNCHANGED <<totals, progress, req>>,
           \/ history' = history
           \/ /\ req[r].op = "progress"
              /\ history' = history \cup {HistoryRow(r)}
    PROVE  Contract!Answer(r)
<1>1. OutcomeOf(r) = "applied" /\ OutcomeOf(r)' = "ok"
  BY OutcomeValues, OutcomeValuesNext DEF TypeOK, Outcomes
<1>2. [q \in Requests |-> OutcomeOf(q)]' =
        [[q \in Requests |-> OutcomeOf(q)] EXCEPT ![r] = "ok"]
  BY <1>1, OutcomeUpdate
<1>3. /\ HistoryRow(r).id = r /\ HistoryRow(r).key = req[r].key
      /\ HistoryRow(r).current = req[r].chapter
  BY DEF HistoryRow
<1>4. \/ {<<h.id, h.key, h.current>> : h \in history}' =
           {<<h.id, h.key, h.current>> : h \in history}
      \/ /\ req[r].op = "progress"
         /\ {<<h.id, h.key, h.current>> : h \in history}' =
              {<<h.id, h.key, h.current>> : h \in history}
                \cup {<<r, req[r].key, req[r].chapter>>}
  BY <1>3
<1> QED
  BY <1>1, <1>2, <1>4 DEF Contract!Answer, Exists

\* r writes its own entry, the one step that its outcome reports.
LEMMA AppliedStep ==
    ASSUME TypeOK, NEW r \in Requests, OutcomeOf(r) = "pending", NEW row,
           Exists(MangaOf(r)), Contract!Carries(req[r], row),
           req[r].op = "remove" => Current(r) # NoEntry,
           progress' = [progress EXCEPT ![req[r].key] = row],
           UNCHANGED <<totals, history, req>>,
           \/ pc' = [pc EXCEPT ![r] = "reread"]
           \/ pc' = [pc EXCEPT ![r] = "ok"]
    PROVE  Contract!Apply(r)
<1>1. /\ req[r].key \in Keys /\ req[r].key[2] \in Manga
      /\ MangaOf(r) = req[r].key[2]
  BY KeyManga DEF MangaOf
<1>2. progress'[req[r].key] = row
  BY <1>1 DEF TypeOK
<1>3. req[r].key[2] \in {m \in Manga : Exists(m)}
  BY <1>1
<1>4. OutcomeOf(r)' \in {"applied", "ok"}
  BY OutcomeValuesNext DEF TypeOK, Outcomes
<1>5. [q \in Requests |-> OutcomeOf(q)]' =
        [[q \in Requests |-> OutcomeOf(q)] EXCEPT ![r] = OutcomeOf(r)']
  BY OutcomeUpdate
<1>6. {m \in Manga : Exists(m)}' = {m \in Manga : Exists(m)}
  BY DEF Exists
<1>7. /\ {<<h.id, h.key, h.current>> : h \in history}' =
           {<<h.id, h.key, h.current>> : h \in history}
      /\ progress' = [progress EXCEPT ![req[r].key] = progress'[req[r].key]]
      /\ req' = req
      /\ req[r].op = "remove" => progress[req[r].key] # NoEntry
  BY <1>2 DEF Current
<1> QED
  BY <1>2, <1>3, <1>4, <1>5, <1>6, <1>7 DEF Contract!Apply

LEMMA ContractInit == Init => Contract!Init
<1> SUFFICES ASSUME Init
             PROVE  Contract!Init
  OBVIOUS
<1>1. TypeOK /\ RequestInv /\ ForeignKeys
  BY InitInv DEF IInv
<1>2. DOMAIN progress = Keys /\ \A k \in Keys : k[2] \in Manga
  BY <1>1 DEF TypeOK, Keys
<1>3. \A r \in Requests : OutcomeOf(r) = "pending"
  <2> SUFFICES ASSUME NEW r \in Requests
               PROVE  OutcomeOf(r) = "pending"
    OBVIOUS
  <2>1. req[r].op \in {"add", "progress", "library", "remove"}
    BY <1>1, KeyManga DEF Requested
  <2>2. pc[r] \in {"manga", "entry", "delete"}
    BY <2>1 DEF Init, FirstStatement
  <2> QED
    BY <2>2, OutcomeValues
<1>4. {<<h.id, h.key, h.current>> : h \in history} = {}
  BY DEF Init
<1>5. \A k \in Keys : progress[k] # NoEntry => k[2] \in {m \in Manga : Exists(m)}
  BY <1>1, <1>2 DEF ForeignKeys
<1>6. [r \in Requests |-> OutcomeOf(r)] = [r \in Requests |-> "pending"]
  BY <1>3
<1> QED
  BY <1>2, <1>4, <1>5, <1>6 DEF Contract!Init

LEMMA ContractStep ==
    ASSUME IInv, NEW r \in Requests, Step(r)
    PROVE  \/ UNCHANGED Contract!vars
           \/ Contract!Apply(r) \/ Contract!Refuse(r) \/ Contract!Fail(r) \/ Contract!Answer(r)
<1> USE DEF Goto
<1>1. TypeOK /\ Routed(r) /\ req[r].key \in Keys
  BY KeyManga DEF IInv, RequestInv
<1>2. CASE ReadManga(r)
  <2>1. /\ OutcomeOf(r) = "pending" /\ UNCHANGED <<tables, req>>
        /\ \E next \in {"upsert", "entry", "refused"} : pc' = [pc EXCEPT ![r] = next]
    BY <1>2, OutcomeValues DEF ReadManga
  <2>2. PICK next \in {"upsert", "entry", "refused"} : pc' = [pc EXCEPT ![r] = next]
    BY <2>1
  <2>3. CASE next = "refused"
    BY <1>1, <2>1, <2>2, <2>3, RefusedStep
  <2>4. CASE next # "refused"
    <3>1. OutcomeOf(r)' = "pending"
      BY <1>1, <2>2, <2>4, OutcomeValuesNext DEF TypeOK
    <3> QED
      BY <1>1, <2>1, <2>2, <3>1, InvisibleStep
  <2> QED
    BY <2>3, <2>4
<1>3. CASE ReadEntry(r) \/ ReadLibrary(r)
  <2>1. /\ OutcomeOf(r) = "pending" /\ UNCHANGED <<tables, req>>
        /\ \/ pc' = [pc EXCEPT ![r] = "refused"]
           \/ pc' = [pc EXCEPT ![r] = "upsert"]
    BY <1>3, OutcomeValues DEF ReadEntry, ReadLibrary
  <2>2. CASE pc' = [pc EXCEPT ![r] = "refused"]
    BY <1>1, <2>1, <2>2, RefusedStep
  <2>3. CASE pc' = [pc EXCEPT ![r] = "upsert"]
    <3>1. OutcomeOf(r)' = "pending"
      BY <1>1, <2>3, OutcomeValuesNext DEF TypeOK
    <3> QED
      BY <1>1, <2>1, <2>3, <3>1, InvisibleStep
  <2> QED
    BY <2>1, <2>2, <2>3
<1>4. CASE Upsert(r)
  <2>1. OutcomeOf(r) = "pending" /\ pc[r] = "upsert"
    BY <1>4, OutcomeValues DEF Upsert
  <2>2. CASE ~Exists(MangaOf(r))
    BY <1>1, <1>4, <2>1, <2>2, RefusedStep DEF Upsert, tables
  <2>3. CASE Exists(MangaOf(r))
    <3>1. req[r].op # "remove"
      BY <1>1, <2>1 DEF Routed, Writing
    <3> QED
      BY <1>1, <1>4, <2>1, <2>3, <3>1, DraftCarries, AppliedStep DEF Upsert
  <2> QED
    BY <2>2, <2>3
<1>5. CASE Reread(r)
  <2>1. OutcomeOf(r) = "applied" /\ pc[r] = "reread" /\ UNCHANGED <<tables, req>>
    BY <1>5, OutcomeValues DEF Reread
  <2>2. CASE pc' = [pc EXCEPT ![r] = "failed"]
    BY <1>1, <2>1, <2>2, FailedStep
  <2>3. CASE pc' = [pc EXCEPT ![r] = "history"]
    <3>1. OutcomeOf(r)' = "applied"
      BY <1>1, <2>3, OutcomeValuesNext DEF TypeOK
    <3> QED
      BY <1>1, <2>1, <2>3, <3>1, InvisibleStep
  <2>4. CASE pc' = [pc EXCEPT ![r] = "ok"]
    BY <1>1, <2>1, <2>4, AnsweredStep DEF tables
  <2> QED
    BY <1>5, <2>2, <2>3, <2>4 DEF Reread
<1>6. CASE InsertHistory(r)
  BY <1>1, <1>6, AnsweredStep DEF InsertHistory, Routed
<1>7. CASE DeleteEntry(r)
  <2>1. OutcomeOf(r) = "pending" /\ req[r].op = "remove"
    BY <1>1, <1>7, OutcomeValues DEF DeleteEntry, Routed
  <2>2. CASE Current(r) = NoEntry
    <3>1. progress' = progress
      BY <1>1, <1>7, <2>2 DEF DeleteEntry, Current, TypeOK
    <3> QED
      BY <1>1, <1>7, <2>1, <2>2, <3>1, RefusedStep DEF DeleteEntry, tables
  <2>3. CASE Current(r) # NoEntry
    <3>1. Exists(MangaOf(r))
      BY <1>1, <2>3 DEF IInv, ForeignKeys, Current, MangaOf
    <3>2. Contract!Carries(req[r], NoEntry)
      BY <2>1 DEF Contract!Carries
    <3> QED
      BY <1>1, <1>7, <2>1, <2>3, <3>1, <3>2, AppliedStep DEF DeleteEntry
  <2> QED
    BY <2>2, <2>3
<1>8. CASE StatementError(r)
  <2>1. UNCHANGED <<tables, req>> /\ pc[r] \in Statements
    BY <1>8 DEF StatementError
  <2>2. CASE pc[r] = "history"
    <3>1. pc' = [pc EXCEPT ![r] = "ok"]
      BY <1>8, <2>2 DEF StatementError
    <3> QED
      BY <1>1, <2>1, <2>2, <3>1, AnsweredStep DEF tables
  <2>3. CASE pc[r] = "reread"
    <3>1. pc' = [pc EXCEPT ![r] = "failed"]
      BY <1>8, <2>3 DEF StatementError
    <3> QED
      BY <1>1, <2>1, <2>3, <3>1, FailedStep
  <2>4. CASE pc[r] \notin {"history", "reread"}
    <3>1. pc' = [pc EXCEPT ![r] = "refused"] /\ OutcomeOf(r) = "pending"
      BY <1>8, <2>1, <2>4, OutcomeValues DEF StatementError, Statements
    <3> QED
      BY <1>1, <2>1, <3>1, RefusedStep
  <2> QED
    BY <2>2, <2>3, <2>4
<1> QED
  BY <1>2, <1>3, <1>4, <1>5, <1>6, <1>7, <1>8 DEF Step, Proceed

LEMMA ContractCatalogue ==
    ASSUME IInv, Catalogue
    PROVE  UNCHANGED Contract!vars \/ \E m \in Manga : Contract!Withdraw(m)
<1>1. TypeOK /\ ForeignKeys
  BY DEF IInv
<1>2. PICK m \in Manga :
          \/ \E total \in Totals : CreateManga(m, total)
          \/ \E total \in Totals : UpdateManga(m, total)
          \/ DeleteManga(m)
  BY DEF Catalogue
<1>3. UNCHANGED <<pc, req>>
  BY <1>2 DEF CreateManga, UpdateManga, DeleteManga
<1>4. [q \in Requests |-> OutcomeOf(q)]' = [q \in Requests |-> OutcomeOf(q)]
  BY <1>3 DEF OutcomeOf
<1>5. ASSUME NEW total \in Totals, UpdateManga(m, total)
      PROVE  UNCHANGED Contract!vars
  <2>1. \A n \in Manga : totals'[n] # NoManga <=> totals[n] # NoManga
    BY <1>1, <1>5, TotalsAssumption, AbsenceAssumption DEF UpdateManga, Exists, TypeOK
  <2> QED
    BY <1>3, <1>4, <1>5, <2>1 DEF UpdateManga, Contract!vars, Exists
<1>6. ASSUME Cascade(m), \A n \in Manga \ {m} : totals'[n] = totals[n]
      PROVE  Contract!Withdraw(m)
  <2>1. progress' = [k \in DOMAIN progress |->
                        IF k[2] = m THEN NoEntry ELSE progress[k]]
    BY <1>1, <1>6 DEF Cascade, TypeOK
  <2>2. {<<h.id, h.key, h.current>> : h \in history}' =
          {entry \in {<<h.id, h.key, h.current>> : h \in history} : entry[2][2] # m}
    BY <1>6 DEF Cascade
  <2>3. {n \in Manga : Exists(n)}' \in
          {{n \in Manga : Exists(n)} \ {m}, {n \in Manga : Exists(n)} \cup {m}}
    BY <1>6 DEF Exists
  <2> QED
    BY <1>3, <1>4, <2>1, <2>2, <2>3 DEF Contract!Withdraw
<1> QED
  BY <1>1, <1>2, <1>5, <1>6 DEF CreateManga, DeleteManga, TypeOK

\* Under every interleaving of requests, catalogue changes and failing
\* statements a request takes effect at most once, on its own entry, with a
\* row that carries what it asked for, and is answered accordingly.
THEOREM ContractImplemented == Spec => ImplementsContract
<1>1. IInv /\ [Next]_vars => [Contract!Next]_(Contract!vars)
  <2> SUFFICES ASSUME IInv, [Next]_vars
               PROVE  [Contract!Next]_(Contract!vars)
    OBVIOUS
  <2>1. ASSUME NEW r \in Requests, Step(r)
        PROVE  [Contract!Next]_(Contract!vars)
    BY <2>1, ContractStep DEF Contract!Next
  <2>2. CASE Catalogue
    BY <2>2, ContractCatalogue DEF Contract!Next
  <2>3. CASE UNCHANGED vars
    <3>1. [q \in Requests |-> OutcomeOf(q)]' = [q \in Requests |-> OutcomeOf(q)]
      BY <2>3 DEF vars, OutcomeOf
    <3> QED
      BY <2>3, <3>1 DEF vars, Contract!vars, Exists
  <2> QED
    BY <2>1, <2>2, <2>3 DEF Next
<1> QED
  BY <1>1, ContractInit, Invariance, PTL DEF Spec, ImplementsContract, Contract!Spec

=============================================================================
