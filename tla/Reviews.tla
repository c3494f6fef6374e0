------------------------------ MODULE Reviews ------------------------------
(***************************************************************************)
(* Reviews of manga and the votes that call them helpful, from the command *)
(* line or any other HTTP client over the handlers and the service to the  *)
(* statements on the table reviews, with the catalogue statements whose    *)
(* cascades end reviews.                                                   *)
(*                                                                         *)
(* One action is one statement of one request and the code up to the next. *)
(* Texts and times are left out: "recent" may list any reviews.  The cache *)
(* the reads go through is VersionedCache's.                               *)
(***************************************************************************)
EXTENDS Naturals, FiniteSets

CONSTANTS
    Users, Manga,
    Requests,     \* each is one command, or one call of another client
    Inputs,       \* what a request may ask for
    MaxRating,    \* 10 in the code
    DefaultLimit, MaxLimit,  \* 50 and 200 in the code
    NoReview,
    NoLimit       \* a list without a limit of its own

Keys == Users \X Manga   \* <<author, manga>>, the primary key

ASSUME InputsAssumption == Inputs \subseteq
    [op: {"write", "vote", "list", "mine"}, user: Users, key: Keys, cli: BOOLEAN,
     rating: Nat, limit: Nat \cup {NoLimit}, sort: {"recent", "helpful", "other"}]

VARIABLES
    listed,   \* manga that exist
    reviews,  \* reviews[k]: the row of k, or NoReview
    epoch,    \* history: epoch[k] counts the rows k has had
    pc,       \* pc[r]: the statement r executes next, or its answer
    req,      \* req[r]: what r asks for
    reply,    \* reply[r]: the rows r answers with
    voted,    \* history: voted[r] is the epoch of the row r's vote went to
    before    \* history: before[r] holds the requests answered when r began

vars == <<listed, reviews, epoch, pc, req, reply, voted, before>>
tables == <<listed, reviews, epoch>>
ghosts == <<voted, before>>

Answers == {"stopped", "ok", "notfound", "refused", "failed"}
Statements == {"manga", "upsert", "vote", "reread", "list", "mine"}

Init ==
    /\ listed \in SUBSET Manga
    /\ reviews = [k \in Keys |-> NoReview]
    /\ epoch = [k \in Keys |-> 0]
    /\ req \in [Requests -> Inputs]
    /\ pc = [r \in Requests |-> "typed"]
    /\ reply = [r \in Requests |-> {}]
    /\ voted = [r \in Requests |-> 0]
    /\ before = [r \in Requests |-> {}]

At(r, statement) == pc[r] = statement
Goto(r, next) == pc' = [pc EXCEPT ![r] = next]
Row(r) == reviews[req[r].key]
MangaOf(r) == req[r].key[2]

-----------------------------------------------------------------------------
(* The command and the handler.                                            *)

Op(r, op) == req[r].op = op

\* "mangahub review add" looks at the rating before it sends anything.
Add(r) ==
    /\ Op(r, "write")
    /\ Goto(r, IF req[r].rating \in 1 .. MaxRating THEN "sent" ELSE "stopped")
    /\ UNCHANGED req

\* A missing limit is the default one, and one above the maximum is cut to it.
CutLimit(limit) ==
    IF limit = NoLimit THEN DefaultLimit ELSE IF limit > MaxLimit THEN MaxLimit ELSE limit

\* "mangahub review list" always sends a limit, and never one that is refused.
Listing(in) == [in EXCEPT !.limit = IF @ = 0 THEN DefaultLimit ELSE CutLimit(@)]

List(r) ==
    /\ Op(r, "list")
    /\ \/ req[r].sort = "other" /\ Goto(r, "stopped") /\ UNCHANGED req
       \/ req[r].sort # "other" /\ Goto(r, "sent") /\ req' = [req EXCEPT ![r] = Listing(@)]

\* "mangahub review helpful" and "mine" look at nothing.
Helpful(r) == Op(r, "vote") /\ Goto(r, "sent") /\ UNCHANGED req
Mine(r) == Op(r, "mine") /\ Goto(r, "sent") /\ UNCHANGED req

Command(r) ==
    /\ At(r, "typed")
    /\ \/ req[r].cli /\ (Add(r) \/ List(r) \/ Helpful(r) \/ Mine(r))
       \/ ~req[r].cli /\ Goto(r, "sent") /\ UNCHANGED req
    /\ before' = [before EXCEPT ![r] = {v \in Requests : At(v, "ok")}]
    /\ UNCHANGED <<tables, reply, voted>>

\* Mutant: a rating is not bounded from above.
Bound_NoMaximum(in) == in.rating >= 1

\* The binding of a write's body refuses a rating that is none.
Bound(in) == in.rating \in 1 .. MaxRating

HandleUpsertReview(r) ==
    /\ Op(r, "write")
    /\ Goto(r, IF Bound(req[r]) THEN "manga" ELSE "refused")

\* Nobody votes for a review of their own.
HandleMarkHelpful(r) ==
    /\ Op(r, "vote")
    /\ Goto(r, IF req[r].user = req[r].key[1] THEN "refused" ELSE "vote")

HandleListReviews(r) ==
    /\ Op(r, "list")
    /\ Goto(r, IF req[r].limit = 0 \/ req[r].sort = "other" THEN "refused" ELSE "manga")

HandleGetMyReview(r) == Op(r, "mine") /\ Goto(r, "mine")

Handle(r) ==
    /\ At(r, "sent")
    /\ \/ HandleUpsertReview(r) \/ HandleMarkHelpful(r)
       \/ HandleListReviews(r) \/ HandleGetMyReview(r)
    /\ UNCHANGED <<tables, req, reply, ghosts>>

-----------------------------------------------------------------------------
(* The statements.                                                         *)

ReadManga(r) ==
    /\ At(r, "manga")
    /\ Goto(r, IF MangaOf(r) \notin listed THEN "notfound"
               ELSE IF req[r].op = "write" THEN "upsert" ELSE "list")
    /\ UNCHANGED <<tables, req, reply, ghosts>>

\* Mutant: a rewritten review starts again without votes.
Written_Anew(row, in) == [rating |-> in.rating, helpful |-> 0]

\* A review that is there keeps its votes.
Written(row, in) ==
    [rating |-> in.rating, helpful |-> IF row = NoReview THEN 0 ELSE row.helpful]

\* The manga may have gone since: the foreign key refuses the row then.
UpsertReview(r) ==
    /\ At(r, "upsert") /\ MangaOf(r) \in listed
    /\ reviews' = [reviews EXCEPT ![req[r].key] = Written(@, req[r])]
    /\ epoch' = [epoch EXCEPT ![req[r].key] = IF Row(r) = NoReview THEN @ + 1 ELSE @]
    /\ Goto(r, "reread")
    /\ UNCHANGED <<listed, req, reply, ghosts>>

\* A vote for a review that is not there: its error is not one of those the
\* handler takes for "not found".
IncrementReviewHelpful(r) ==
    /\ At(r, "vote")
    /\ \/ /\ Row(r) = NoReview
          /\ Goto(r, "failed")
          /\ UNCHANGED <<reviews, voted>>
       \/ /\ Row(r) # NoReview
          /\ reviews' = [reviews EXCEPT ![req[r].key].helpful = @ + 1]
          /\ voted' = [voted EXCEPT ![r] = epoch[req[r].key]]
          /\ Goto(r, "reread")
    /\ UNCHANGED <<listed, epoch, req, reply, before>>

\* Mutant: the answer is the row as it was found.
GetReview_WithoutVote(r) ==
    /\ pc[r] \in {"reread", "mine"}
    /\ \/ Row(r) = NoReview /\ Goto(r, "notfound") /\ UNCHANGED reply
       \/ /\ Row(r) # NoReview
          /\ reply' = [reply EXCEPT ![r] = {[key |-> req[r].key, epoch |-> epoch[req[r].key],
                helpful |-> IF voted[r] > 0 THEN Row(r).helpful - 1 ELSE Row(r).helpful]}]
          /\ Goto(r, "ok")
    /\ UNCHANGED <<tables, req, ghosts>>

Shown(k) == [key |-> k, epoch |-> epoch[k], helpful |-> reviews[k].helpful]

\* The read that follows a write, and the one that answers "mine".
GetReview(r) ==
    /\ pc[r] \in {"reread", "mine"}
    /\ \/ Row(r) = NoReview /\ Goto(r, "notfound") /\ UNCHANGED reply
       \/ /\ Row(r) # NoReview
          /\ reply' = [reply EXCEPT ![r] = {Shown(req[r].key)}]
          /\ Goto(r, "ok")
    /\ UNCHANGED <<tables, req, ghosts>>

RowsOf(m) == {k \in Keys : k[2] = m /\ reviews[k] # NoReview}

\* The handler cuts the limit; the statement takes the default for one out of
\* bounds, which no cut limit is.
Limit(in) == IF CutLimit(in.limit) \in 1 .. MaxLimit THEN CutLimit(in.limit) ELSE DefaultLimit

Page(in, rows) ==
    {page \in SUBSET rows :
        /\ Cardinality(page) = IF Limit(in) < Cardinality(rows) THEN Limit(in)
                                                                ELSE Cardinality(rows)
        /\ in.sort = "helpful" => \A k \in page, l \in rows \ page :
                                    reviews[k].helpful >= reviews[l].helpful}

ListReviews(r) ==
    /\ At(r, "list")
    /\ \E page \in Page(req[r], RowsOf(MangaOf(r))) :
        reply' = [reply EXCEPT ![r] = {Shown(k) : k \in page}]
    /\ Goto(r, "ok")
    /\ UNCHANGED <<tables, req, ghosts>>

\* A statement fails, or the upsert's foreign key has refused the row.
StatementError(r) ==
    /\ pc[r] \in Statements
    /\ Goto(r, "failed")
    /\ UNCHANGED <<tables, req, reply, ghosts>>

-----------------------------------------------------------------------------
(* The catalogue, as far as it reaches the reviews.                        *)

Cascade(m) == reviews' = [k \in Keys |-> IF k[2] = m THEN NoReview ELSE reviews[k]]

\* INSERT OR REPLACE: a row that exists is deleted first.
CreateManga(m) ==
    /\ listed' = listed \cup {m}
    /\ Cascade(m)
    /\ UNCHANGED <<epoch, pc, req, reply, ghosts>>

DeleteManga(m) ==
    /\ m \in listed
    /\ listed' = listed \ {m}
    /\ Cascade(m)
    /\ UNCHANGED <<epoch, pc, req, reply, ghosts>>

Step(r) ==
    \/ Command(r) \/ Handle(r) \/ ReadManga(r) \/ UpsertReview(r)
    \/ IncrementReviewHelpful(r) \/ GetReview(r) \/ ListReviews(r) \/ StatementError(r)

Next ==
    \/ \E r \in Requests : Step(r)
    \/ \E m \in Manga : CreateManga(m) \/ DeleteManga(m)

Spec == Init /\ [][Next]_vars

-----------------------------------------------------------------------------
(* Properties.                                                             *)

\* Types; whatever client asks for it, no rating outside 1 .. MaxRating is stored,
\* and no review outlives its manga.
TypeOK ==
    /\ \A k \in Keys : reviews[k] # NoReview =>
        /\ reviews[k] \in [rating: 1 .. MaxRating, helpful: Nat]
        /\ k[2] \in listed
    /\ epoch \in [Keys -> Nat] /\ voted \in [Requests -> Nat]
    /\ pc \in [Requests -> Statements \cup Answers \cup {"typed", "sent"}]
    /\ req \in [Requests -> Inputs \cup {Listing(in) : in \in Inputs}]

VotesFor(k) == {r \in Requests : voted[r] # 0 /\ voted[r] = epoch[k] /\ req[r].key = k}

\* A review counts every vote given to it, each once, and none of its author,
\* however votes race each other and the author's rewriting of the review; a
\* review that went with its manga leaves no vote behind to the next one.
VotesAreCounted ==
    \A k \in Keys : reviews[k] # NoReview =>
        /\ reviews[k].helpful = Cardinality(VotesFor(k))
        /\ \A r \in VotesFor(k) : req[r].user # k[1]

\* A vote that is answered shows at least itself and every vote for the same
\* review that was answered before it was given.
AnswersShowVotes ==
    \A r \in Requests : At(r, "ok") /\ req[r].op = "vote" =>
        \A row \in reply[r] : row.epoch = voted[r] =>
            row.helpful > Cardinality(
                {v \in before[r] : voted[v] = voted[r] /\ req[v].key = req[r].key})
=============================================================================
