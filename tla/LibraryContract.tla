-------------------------- MODULE LibraryContract --------------------------
(***************************************************************************)
(* What the reading library promises the clients of its requests: a        *)
(* request changes at most its own entry, at most once, to a row that      *)
(* carries what it asked for; an answer "ok" means that it did, "refused"  *)
(* that it did not, and "failed" that it did although the client sees an   *)
(* error.  Entries and history otherwise change only when the catalogue    *)
(* withdraws a manga.                                                      *)
(***************************************************************************)
EXTENDS Integers

CONSTANTS Manga, Requests, NoEntry

VARIABLES
    catalogue,  \* the manga that exist
    shelf,      \* shelf[k]: the entry of k, a <<user, manga>> pair, or NoEntry
    log,        \* the advances on record: <<request, key, chapter>>
    asked,      \* asked[r]: the body of request r
    outcome     \* outcome[r]: pending, applied, or how r was answered

vars == <<catalogue, shelf, log, asked, outcome>>

Init ==
    /\ \A k \in DOMAIN shelf : shelf[k] # NoEntry => k[2] \in catalogue
    /\ log = {}
    /\ outcome = [r \in Requests |-> "pending"]

\* row carries what the request body in asks for.  A progress update keeps no
\* rating; one without a volume, and an update of status or rating, may carry
\* the rest of the row from any time.
Carries(in, row) ==
    CASE in.op = "add" ->
            row = [chapter |-> in.chapter, volume |-> in.volume,
                   status |-> in.status, rating |-> in.rating]
      [] in.op = "progress" ->
            /\ row # NoEntry
            /\ row.chapter = in.chapter
            /\ row.status = IF in.status = "" THEN "reading" ELSE in.status
            /\ in.volume > 0 => row.volume = in.volume
            /\ row.rating = 0
      [] in.op = "library" ->
            /\ row # NoEntry
            /\ in.status # "" => row.status = in.status
            /\ in.rating > 0 => row.rating = in.rating
      [] OTHER -> row = NoEntry

Apply(r) ==
    /\ outcome[r] = "pending"
    /\ LET k == asked[r].key IN
        /\ k[2] \in catalogue
        /\ shelf' = [shelf EXCEPT ![k] = shelf'[k]]
        /\ Carries(asked[r], shelf'[k])
        /\ asked[r].op = "remove" => shelf[k] # NoEntry
    /\ \/ outcome' = [outcome EXCEPT ![r] = "applied"]
       \/ outcome' = [outcome EXCEPT ![r] = "ok"]
    /\ UNCHANGED <<catalogue, log, asked>>

Refuse(r) ==
    /\ outcome[r] = "pending"
    /\ outcome' = [outcome EXCEPT ![r] = "refused"]
    /\ UNCHANGED <<catalogue, shelf, log, asked>>

Fail(r) ==
    /\ outcome[r] = "applied"
    /\ outcome' = [outcome EXCEPT ![r] = "failed"]
    /\ UNCHANGED <<catalogue, shelf, log, asked>>

\* Only a progress update leaves a trace, and not always.
Answer(r) ==
    /\ outcome[r] = "applied"
    /\ outcome' = [outcome EXCEPT ![r] = "ok"]
    /\ \/ UNCHANGED log
       \/ /\ asked[r].op = "progress"
          /\ log' = log \cup {<<r, asked[r].key, asked[r].chapter>>}
    /\ UNCHANGED <<catalogue, shelf, asked>>

\* The catalogue drops m, with all that hangs on it, and may take it back
\* in the same step; or it takes in a new manga.
Withdraw(m) ==
    /\ shelf' = [k \in DOMAIN shelf |-> IF k[2] = m THEN NoEntry ELSE shelf[k]]
    /\ log' = {entry \in log : entry[2][2] # m}
    /\ catalogue' \in {catalogue \ {m}, catalogue \cup {m}}
    /\ UNCHANGED <<asked, outcome>>

Next ==
    \/ \E r \in Requests : Apply(r) \/ Refuse(r) \/ Fail(r) \/ Answer(r)
    \/ \E m \in Manga : Withdraw(m)

Spec == Init /\ [][Next]_vars
=============================================================================
