--------------------------- MODULE ReviewsProofs ---------------------------
(***************************************************************************)
(* Proofs about reviews and the votes for them, for any number of requests,*)
(* authors and manga.                                                      *)
(*                                                                         *)
(* A vote bears the epoch of the row it went to.  Epochs only grow, so a   *)
(* row that begins has no votes, and the votes of a row that has gone are  *)
(* told from those of the row that came after it.                          *)
(***************************************************************************)
EXTENDS Reviews, FiniteSetTheorems, TLAPS

Places == Statements \cup Answers \cup {"typed", "sent"}
Asked == Inputs \cup {Listing(in) : in \in Inputs}
Rows == [rating: 1 .. MaxRating, helpful: Nat]
ShownRows == [key: Keys, epoch: Nat, helpful: Nat]

Shapes ==
    /\ listed \subseteq Manga
    /\ reviews \in [Keys -> Rows \cup {NoReview}]
    /\ epoch \in [Keys -> Nat]
    /\ pc \in [Requests -> Places]
    /\ req \in [Requests -> Asked]
    /\ reply \in [Requests -> SUBSET ShownRows]
    /\ voted \in [Requests -> Nat]
    /\ before \in [Requests -> SUBSET Requests]

\* No review outlives its manga.
Anchored == \A k \in Keys : reviews[k] # NoReview => k[2] \in listed

\* What brought a request to where it is.
StageOf(r) ==
    /\ At(r, "typed") => req[r] \in Inputs
    /\ At(r, "manga") => Op(r, "list") \/ (Op(r, "write") /\ Bound(req[r]))
    /\ At(r, "upsert") => Op(r, "write") /\ Bound(req[r])
    /\ At(r, "vote") => Op(r, "vote") /\ req[r].user # req[r].key[1]
    /\ At(r, "list") => Op(r, "list")
    /\ At(r, "mine") => Op(r, "mine")
    /\ pc[r] \in {"reread", "ok"} /\ Op(r, "vote") => voted[r] # 0

StageInv == \A r \in Requests : StageOf(r)

\* A vote is given once, by another than the author, to a row that had begun.
VoteOf(r) ==
    voted[r] # 0 =>
        /\ Op(r, "vote") /\ req[r].user # req[r].key[1]
        /\ pc[r] \in Answers \cup {"reread"}
        /\ voted[r] <= epoch[req[r].key]

Voters == {r \in Requests : voted[r] # 0}

VoteInv == IsFiniteSet(Voters) /\ \A r \in Requests : VoteOf(r)

\* A row that is there has begun.
EpochInv == \A k \in Keys : reviews[k] # NoReview => epoch[k] # 0

\* Requests answered before one began stay answered, and it is none of them.
BeforeInv ==
    \A r \in Requests :
        /\ \A v \in before[r] : At(v, "ok")
        /\ r \notin before[r]

RInv ==
    /\ Shapes /\ Anchored /\ StageInv /\ VoteInv /\ EpochInv /\ BeforeInv
    /\ VotesAreCounted /\ AnswersShowVotes

\* The votes for the same row as r's that had been answered when r began.
Earlier(r) == {v \in before[r] : voted[v] = voted[r] /\ req[v].key = req[r].key}

\* What AnswersShowVotes says of one request.
Shows(r) ==
    At(r, "ok") /\ Op(r, "vote") =>
        \A row \in reply[r] : row.epoch = voted[r] => row.helpful > Cardinality(Earlier(r))

-----------------------------------------------------------------------------
(* Facts about the operators.                                              *)

LEMMA ShowsAll == AnswersShowVotes <=> \A r \in Requests : Shows(r)
BY DEF AnswersShowVotes, Shows, Earlier, Op

LEMMA AskedType ==
    ASSUME NEW in \in Asked
    PROVE  /\ in.key \in Keys /\ in.rating \in Nat
           /\ in.op \in {"write", "vote", "list", "mine"}
BY InputsAssumption DEF Asked, Listing

\* The limit is all that the command changes.
LEMMA ListingKeeps ==
    ASSUME NEW in \in Inputs
    PROVE  /\ Listing(in) \in Asked
           /\ Listing(in).key = in.key /\ Listing(in).op = in.op
           /\ Listing(in).user = in.user /\ Listing(in).rating = in.rating
BY InputsAssumption DEF Asked, Listing

LEMMA KeysType == \A k \in Keys : k[1] \in Users /\ k[2] \in Manga
BY DEF Keys

\* A vote is counted as long as the epochs and the votes stay.
LEMMA SameVotes ==
    ASSUME UNCHANGED <<epoch, voted>>, \A s \in Requests : req'[s].key = req[s].key
    PROVE  \A k \in Keys : VotesFor(k)' = VotesFor(k)
BY DEF VotesFor

LEMMA VotesAreFinite ==
    ASSUME RInv, NEW k \in Keys
    PROVE  IsFiniteSet(VotesFor(k)) /\ Cardinality(VotesFor(k)) \in Nat
<1>1. VotesFor(k) \subseteq Voters /\ IsFiniteSet(Voters)
  BY DEF RInv, VoteInv, Voters, VotesFor
<1> QED BY <1>1, FS_Subset, FS_CardinalityType

\* The types and the anchoring are what the run calls TypeOK.
LEMMA InvType == RInv => TypeOK
BY DEF RInv, Shapes, Anchored, Rows, TypeOK, Places, Asked

-----------------------------------------------------------------------------
(* The initial states.                                                     *)

LEMMA InitInv == Init => RInv
<1> SUFFICES ASSUME Init PROVE RInv
  OBVIOUS
<1> USE DEF Init
<1>1. Shapes
  BY DEF Shapes, Places, Asked
<1>2. Anchored /\ EpochInv
  BY DEF Anchored, EpochInv
<1>3. StageInv
  BY DEF StageInv, StageOf, At
<1>4. VoteInv
  <2>1. Voters = {}
    BY DEF Voters
  <2> QED BY <2>1, FS_EmptySet DEF VoteInv, VoteOf
<1>5. BeforeInv
  BY DEF BeforeInv
<1>6. VotesAreCounted
  BY DEF VotesAreCounted
<1>7. AnswersShowVotes
  BY DEF AnswersShowVotes, At
<1> QED BY <1>1, <1>2, <1>3, <1>4, <1>5, <1>6, <1>7 DEF RInv

-----------------------------------------------------------------------------
(* A request that moves and touches neither the tables nor the votes.      *)

LEMMA MoveInv ==
    ASSUME RInv, NEW r \in Requests, NEW next \in Places, Goto(r, next), ~At(r, "ok"),
           UNCHANGED <<tables, req, ghosts>>,
           pc[r] \in Answers \cup {"reread"} => next \in Answers,
           reply' \in [Requests -> SUBSET ShownRows],
           \A s \in Requests : s # r => reply'[s] = reply[s],
           StageOf(r)', Shows(r)'
    PROVE  RInv'
<1> USE DEF tables, ghosts
<1>1. Shapes /\ Shapes'
  BY DEF RInv, Shapes, Goto
<1>2. pc'[r] = next /\ \A s \in Requests : s # r => pc'[s] = pc[s]
  BY <1>1 DEF Shapes, Goto
<1>3. Anchored' /\ EpochInv'
  BY DEF RInv, Anchored, EpochInv
<1>4. StageInv'
  BY <1>2 DEF RInv, StageInv, StageOf, At, Op, Bound
<1>5. VoteInv'
  <2>1. Voters' = Voters
    BY DEF Voters
  <2>2. \A s \in Requests : VoteOf(s)'
    BY <1>2 DEF RInv, VoteInv, VoteOf, Op
  <2> QED BY <2>1, <2>2 DEF RInv, VoteInv
<1>6. BeforeInv'
  BY <1>2 DEF RInv, BeforeInv, Shapes, At
<1>7. VotesAreCounted'
  BY SameVotes DEF RInv, VotesAreCounted
<1>8. AnswersShowVotes'
  <2>1. ASSUME NEW s \in Requests, s # r PROVE Shows(s)'
    BY <1>2, <2>1, ShowsAll DEF RInv, Shows, At, Op, Earlier
  <2>2. \A s \in Requests : Shows(s)'
    BY <2>1
  <2> QED BY <2>2 DEF AnswersShowVotes, Shows, Earlier, Op
<1> QED BY <1>1, <1>3, <1>4, <1>5, <1>6, <1>7, <1>8 DEF RInv

\* The moves that answer with no rows.
LEMMA PlainMoveInv ==
    ASSUME RInv, NEW r \in Requests, NEW next \in Places \ {"ok"}, Goto(r, next), ~At(r, "ok"),
           UNCHANGED <<tables, req, reply, ghosts>>,
           pc[r] \in Answers \cup {"reread"} => next \in Answers,
           StageOf(r)'
    PROVE  RInv'
<1>1. reply' = reply /\ pc'[r] = next
  BY DEF RInv, Shapes, Goto
<1>2. Shows(r)'
  BY <1>1 DEF Shows, At
<1> QED BY <1>1, <1>2, MoveInv DEF RInv, Shapes

LEMMA HandleInv == ASSUME RInv, NEW r \in Requests, Handle(r) PROVE RInv'
<1> USE DEF Handle, Op, At
<1>1. req[r] \in Asked /\ StageOf(r) /\ pc[r] = "sent" /\ req' = req
  BY DEF RInv, Shapes, StageInv
<1>2. ASSUME NEW next \in {"manga", "refused", "vote", "mine"}, Goto(r, next), StageOf(r)'
      PROVE  RInv'
  BY <1>1, <1>2, PlainMoveInv DEF Places, Statements, Answers
<1>3. ASSUME NEW next \in {"manga", "refused", "vote", "mine"}, Goto(r, next) PROVE pc'[r] = next
  BY <1>3 DEF RInv, Shapes, Goto
<1>4. CASE HandleUpsertReview(r)
  <2>1. PICK next \in {"manga", "refused"} :
          Goto(r, next) /\ (next = "manga" => Bound(req[r])) /\ req[r].op = "write"
    BY <1>4 DEF HandleUpsertReview
  <2> QED BY <1>1, <1>2, <1>3, <2>1 DEF StageOf, Bound
<1>5. CASE HandleMarkHelpful(r)
  <2>1. PICK next \in {"vote", "refused"} :
          /\ Goto(r, next) /\ req[r].op = "vote"
          /\ next = "vote" => req[r].user # req[r].key[1]
    BY <1>5 DEF HandleMarkHelpful
  <2> QED BY <1>1, <1>2, <1>3, <2>1 DEF StageOf
<1>6. CASE HandleListReviews(r)
  <2>1. PICK next \in {"manga", "refused"} : Goto(r, next) /\ req[r].op = "list"
    BY <1>6 DEF HandleListReviews
  <2> QED BY <1>1, <1>2, <1>3, <2>1 DEF StageOf
<1>7. CASE HandleGetMyReview(r)
  BY <1>1, <1>2, <1>3, <1>7 DEF HandleGetMyReview, StageOf
<1> QED BY <1>4, <1>5, <1>6, <1>7

LEMMA ReadMangaInv == ASSUME RInv, NEW r \in Requests, ReadManga(r) PROVE RInv'
<1> USE DEF ReadManga, Op, At
<1>1. pc[r] = "manga" /\ StageOf(r) /\ req' = req
  BY DEF RInv, StageInv
<1>2. PICK next \in {"notfound", "upsert", "list"} :
        /\ Goto(r, next)
        /\ next = "upsert" => req[r].op = "write"
        /\ next = "list" => req[r].op # "write"
  BY <1>1
<1>3. pc'[r] = next
  BY <1>2 DEF RInv, Shapes, Goto
<1>4. StageOf(r)'
  BY <1>1, <1>2, <1>3 DEF StageOf, Bound
<1> QED BY <1>1, <1>2, <1>4, PlainMoveInv DEF Places, Statements, Answers

LEMMA StatementErrorInv == ASSUME RInv, NEW r \in Requests, StatementError(r) PROVE RInv'
<1> USE DEF StatementError, At
<1>1. pc[r] \in Statements /\ Goto(r, "failed") /\ pc'[r] = "failed"
  BY DEF RInv, Shapes, Goto
<1>2. StageOf(r)'
  BY <1>1 DEF StageOf
<1> QED BY <1>1, <1>2, PlainMoveInv DEF Places, Statements, Answers

\* The command sends its request, or stops with it.
LEMMA CommandInv == ASSUME RInv, NEW r \in Requests, Command(r) PROVE RInv'
<1> USE DEF tables
<1>1. Shapes /\ pc[r] = "typed" /\ req[r] \in Inputs
  BY DEF RInv, Shapes, StageInv, StageOf, Command, At
<1>2. PICK next \in {"sent", "stopped"} : Goto(r, next)
  BY DEF Command, Add, List, Helpful, Mine
<1>3. /\ \A s \in Requests : req'[s].key = req[s].key /\ req'[s].op = req[s].op
      /\ \A s \in Requests : req'[s].user = req[s].user /\ req'[s].rating = req[s].rating
      /\ req' \in [Requests -> Asked]
      /\ \A s \in Requests : s # r => req'[s] = req[s]
  <2>1. CASE req' = req
    BY <1>1, <2>1 DEF Shapes
  <2>2. CASE req' = [req EXCEPT ![r] = Listing(@)]
    <3>1. req'[r] = Listing(req[r]) /\ \A s \in Requests : s # r => req'[s] = req[s]
      BY <1>1, <2>2 DEF Shapes
    <3>2. req' \in [Requests -> Asked]
      BY <1>1, <2>2, ListingKeeps DEF Shapes
    <3> QED BY <1>1, <3>1, <3>2, ListingKeeps
  <2> QED BY <2>1, <2>2 DEF Command, Add, List, Helpful, Mine
<1>4. pc'[r] = next /\ \A s \in Requests : s # r => pc'[s] = pc[s]
  BY <1>1, <1>2 DEF Shapes, Goto
<1>5. /\ before'[r] = {v \in Requests : At(v, "ok")}
      /\ \A s \in Requests : s # r => before'[s] = before[s]
  BY <1>1 DEF Shapes, Command
<1>6. Shapes'
  BY <1>1, <1>2, <1>3 DEF Shapes, Command, Goto, Places, Answers
<1>7. Anchored' /\ EpochInv'
  BY DEF RInv, Anchored, EpochInv, Command
<1>8. StageInv'
  BY <1>3, <1>4 DEF RInv, StageInv, StageOf, At, Op, Bound, Command
<1>9. VoteInv'
  <2>1. Voters' = Voters
    BY DEF Voters, Command
  <2>2. VoteOf(r)'
    BY <1>1 DEF RInv, VoteInv, VoteOf, Answers, Command
  <2>3. ASSUME NEW s \in Requests, s # r PROVE VoteOf(s)'
    BY <1>3, <1>4, <2>3 DEF RInv, VoteInv, VoteOf, Op, Command
  <2> QED BY <2>1, <2>2, <2>3 DEF RInv, VoteInv
<1>10. BeforeInv'
  BY <1>1, <1>4, <1>5 DEF RInv, BeforeInv, Shapes, At
<1>11. VotesAreCounted'
  <2>1. \A k \in Keys : VotesFor(k)' = VotesFor(k)
    BY <1>3, SameVotes DEF Command
  <2> QED BY <1>3, <2>1 DEF RInv, VotesAreCounted, VotesFor, Command
<1>12. AnswersShowVotes'
  <2>1. ASSUME NEW s \in Requests, s # r, Shows(s) PROVE Shows(s)'
    <3>1. Earlier(s)' = Earlier(s)
      BY <1>1, <1>3, <1>5, <2>1 DEF Earlier, Command, Shapes
    <3> QED BY <1>3, <1>4, <2>1, <3>1 DEF Shows, At, Op, Command
  <2>2. Shows(r)'
    BY <1>4 DEF Shows, At
  <2>3. \A s \in Requests : Shows(s)'
    BY <2>1, <2>2, ShowsAll DEF RInv
  <2> QED BY <2>3 DEF AnswersShowVotes, Shows, Earlier, Op
<1> QED BY <1>6, <1>7, <1>8, <1>9, <1>10, <1>11, <1>12 DEF RInv

-----------------------------------------------------------------------------
(* The reads.                                                              *)

\* A vote that finds its row as it left it reads itself, and every vote for that
\* row that had been answered when it began.
LEMMA ReadShowsVotes ==
    ASSUME RInv, NEW r \in Requests, pc[r] \in {"reread", "mine"}, Op(r, "vote"),
           Row(r) # NoReview, epoch[req[r].key] = voted[r]
    PROVE  Row(r).helpful > Cardinality(Earlier(r))
<1> DEFINE k == req[r].key
<1>1. k \in Keys /\ voted[r] # 0
  BY AskedType DEF RInv, Shapes, StageInv, StageOf, At, Op
<1>2. Row(r).helpful = Cardinality(VotesFor(k))
  BY <1>1 DEF RInv, VotesAreCounted, Row
<1>3. Earlier(r) \cup {r} \subseteq VotesFor(k) /\ r \notin Earlier(r)
  BY <1>1 DEF Earlier, VotesFor, RInv, BeforeInv, Shapes
<1>4. IsFiniteSet(VotesFor(k))
  BY <1>1, VotesAreFinite
<1> HIDE DEF k
<1>5. /\ IsFiniteSet(Earlier(r)) /\ IsFiniteSet(Earlier(r) \cup {r})
      /\ Cardinality(Earlier(r) \cup {r}) <= Cardinality(VotesFor(k))
  BY <1>3, <1>4, FS_Subset
<1>6. Cardinality(Earlier(r) \cup {r}) = Cardinality(Earlier(r)) + 1
  BY <1>3, <1>5, FS_AddElement
<1>7. Cardinality(Earlier(r)) \in Nat /\ Cardinality(VotesFor(k)) \in Nat
  BY <1>4, <1>5, FS_CardinalityType
<1> QED BY <1>2, <1>5, <1>6, <1>7

LEMMA ShownType ==
    ASSUME RInv, NEW k \in Keys, reviews[k] # NoReview
    PROVE  Shown(k) \in ShownRows
BY DEF RInv, Shapes, Rows, Shown, ShownRows

LEMMA GetReviewInv == ASSUME RInv, NEW r \in Requests, GetReview(r) PROVE RInv'
<1> USE DEF GetReview
<1>1. Shapes /\ StageOf(r) /\ pc[r] \in {"reread", "mine"} /\ req' = req /\ voted' = voted
  BY DEF RInv, StageInv, ghosts
<1>2. CASE Row(r) = NoReview /\ Goto(r, "notfound") /\ UNCHANGED reply
  <2>1. StageOf(r)'
    BY <1>1, <1>2 DEF StageOf, At, Goto, Shapes
  <2> QED BY <1>1, <1>2, <2>1, PlainMoveInv DEF Places, Answers, At
<1>3. CASE /\ Row(r) # NoReview
           /\ reply' = [reply EXCEPT ![r] = {Shown(req[r].key)}]
           /\ Goto(r, "ok")
  <2>1. req[r].key \in Keys
    BY <1>1, AskedType DEF Shapes
  <2>2. pc'[r] = "ok" /\ reply'[r] = {Shown(req[r].key)}
    BY <1>1, <1>3 DEF Shapes, Goto
  <2>3. /\ reply' \in [Requests -> SUBSET ShownRows]
        /\ \A s \in Requests : s # r => reply'[s] = reply[s]
    <3>1. {Shown(req[r].key)} \in SUBSET ShownRows
      BY <1>3, <2>1, ShownType DEF Row
    <3> QED BY <1>1, <1>3, <3>1 DEF Shapes
  <2>4. StageOf(r)'
    BY <1>1, <2>2 DEF StageOf, At, Op
  <2>5. Shows(r)'
    <3>1. Earlier(r)' = Earlier(r)
      BY DEF Earlier, ghosts
    <3>2. ASSUME Op(r, "vote"), epoch[req[r].key] = voted[r]
          PROVE  reviews[req[r].key].helpful > Cardinality(Earlier(r))
      BY <1>1, <1>3, <3>2, ReadShowsVotes DEF Row
    <3>3. \A row \in reply'[r] : /\ row.epoch = epoch[req[r].key]
                                 /\ row.helpful = reviews[req[r].key].helpful
      BY <2>2 DEF Shown
    <3>4. ASSUME Op(r, "vote") PROVE
            \A row \in reply'[r] : row.epoch = voted[r] => row.helpful > Cardinality(Earlier(r))
      BY <3>2, <3>3, <3>4
    <3> QED BY <1>1, <3>1, <3>4 DEF Shows, Op
  <2> QED BY <1>1, <1>3, <2>3, <2>4, <2>5, MoveInv DEF Places, Answers, At
<1> QED BY <1>2, <1>3

LEMMA ListReviewsInv == ASSUME RInv, NEW r \in Requests, ListReviews(r) PROVE RInv'
<1>1. /\ Shapes /\ StageOf(r) /\ pc[r] = "list" /\ Goto(r, "ok")
      /\ UNCHANGED <<tables, req, ghosts>>
  BY DEF RInv, StageInv, ListReviews, At
<1>2. PICK page \in SUBSET RowsOf(MangaOf(r)) :
        reply' = [reply EXCEPT ![r] = {Shown(k) : k \in page}]
  BY DEF ListReviews, Page
<1>3. {Shown(k) : k \in page} \in SUBSET ShownRows
  BY ShownType DEF RowsOf
<1>4. /\ reply' \in [Requests -> SUBSET ShownRows]
      /\ \A s \in Requests : s # r => reply'[s] = reply[s]
  BY <1>1, <1>2, <1>3 DEF Shapes
<1>5. ~Op(r, "vote") /\ req' = req /\ pc'[r] = "ok"
  BY <1>1 DEF StageOf, At, Op, Goto, Shapes
<1>6. StageOf(r)' /\ Shows(r)'
  BY <1>5 DEF StageOf, Shows, At, Op
<1> QED BY <1>1, <1>4, <1>6, MoveInv DEF Places, Answers, At

-----------------------------------------------------------------------------
(* The writes.                                                             *)

\* Answers that are out are not touched by what happens to the rows: a step that
\* moves a request which is not answered, and no vote but its own, keeps them.
LEMMA AnswersStay ==
    ASSUME RInv, NEW r \in Requests, ~At(r, "ok"), ~At(r, "ok")',
           UNCHANGED <<req, reply, before>>,
           \A s \in Requests : s # r => pc'[s] = pc[s] /\ voted'[s] = voted[s]
    PROVE  AnswersShowVotes'
<1>1. ASSUME NEW s \in Requests, s # r PROVE Shows(s)'
  <2>1. CASE ~At(s, "ok")
    BY <1>1, <2>1 DEF Shows, At
  <2>2. CASE At(s, "ok")
    <3>1. r \notin before[s] /\ before[s] \subseteq Requests
      BY DEF RInv, BeforeInv, Shapes, At
    <3>2. Earlier(s)' = Earlier(s)
      BY <1>1, <3>1 DEF Earlier
    <3>3. Shows(s)
      BY ShowsAll DEF RInv
    <3> QED BY <1>1, <2>2, <3>2, <3>3 DEF Shows, At, Op
  <2> QED BY <2>1, <2>2
<1>2. Shows(r)'
  BY DEF Shows, At
<1>3. \A s \in Requests : Shows(s)'
  BY <1>1, <1>2
<1> QED BY <1>3 DEF AnswersShowVotes, Shows, Earlier, Op

LEMMA BeforeStays ==
    ASSUME RInv, NEW r \in Requests, ~At(r, "ok"), UNCHANGED before,
           \A s \in Requests : s # r => pc'[s] = pc[s]
    PROVE  BeforeInv'
BY DEF RInv, BeforeInv, Shapes, At

LEMMA UpsertReviewInv == ASSUME RInv, NEW r \in Requests, UpsertReview(r) PROVE RInv'
<1> DEFINE k == req[r].key
           new == Written(reviews[k], req[r])
<1>1. /\ Shapes /\ StageOf(r) /\ pc[r] = "upsert" /\ k[2] \in listed
      /\ UNCHANGED <<listed, req, reply, voted, before>>
  BY DEF RInv, StageInv, UpsertReview, At, MangaOf, ghosts
<1>2. k \in Keys /\ new \in Rows
  <2>1. k \in Keys /\ Bound(req[r])
    BY <1>1, AskedType DEF Shapes, StageOf, At
  <2>2. reviews[k] # NoReview => reviews[k].helpful \in Nat
    BY <1>1, <2>1 DEF Shapes, Rows
  <2> QED BY <2>1, <2>2 DEF Written, Rows, Bound
<1>3. /\ pc'[r] = "reread" /\ \A s \in Requests : s # r => pc'[s] = pc[s]
      /\ pc' \in [Requests -> Places]
  BY <1>1 DEF Shapes, UpsertReview, Goto, Places, Statements
<1>4. /\ reviews'[k] = new /\ \A l \in Keys : l # k => reviews'[l] = reviews[l]
      /\ reviews' \in [Keys -> Rows \cup {NoReview}]
  <2>1. reviews' = [reviews EXCEPT ![k] = new]
    BY DEF UpsertReview
  <2> HIDE DEF new, k
  <2> QED BY <1>1, <1>2, <2>1 DEF Shapes
<1>5. /\ epoch'[k] = IF reviews[k] = NoReview THEN epoch[k] + 1 ELSE epoch[k]
      /\ \A l \in Keys : l # k => epoch'[l] = epoch[l]
      /\ epoch' \in [Keys -> Nat]
  BY <1>1, <1>2 DEF Shapes, UpsertReview, Row
<1> USE <1>1, <1>2
<1> HIDE DEF new
<1>6. Shapes'
  BY <1>3, <1>4, <1>5 DEF Shapes
<1>7. Anchored'
  BY <1>4 DEF RInv, Anchored
<1>8. EpochInv'
  BY <1>4, <1>5 DEF RInv, EpochInv, Shapes
<1>9. StageInv'
  BY <1>3 DEF RInv, StageInv, StageOf, At, Op, Bound
<1>10. VoteInv'
  <2>1. Voters' = Voters
    BY DEF Voters
  <2>2. \A l \in Keys : epoch[l] <= epoch'[l] /\ epoch[l] \in Nat /\ epoch'[l] \in Nat
    BY <1>5 DEF Shapes
  <2>3. ASSUME NEW s \in Requests PROVE VoteOf(s)'
    <3>1. VoteOf(s) /\ req[s].key \in Keys /\ voted[s] \in Nat
      BY AskedType DEF RInv, VoteInv, Shapes
    <3>2. voted[s] # 0 => s # r
      BY <3>1 DEF VoteOf, Answers
    <3>3. voted[s] <= epoch[req[s].key] => voted[s] <= epoch'[req[s].key]
      BY <2>2, <3>1
    <3> QED BY <1>3, <3>1, <3>2, <3>3 DEF VoteOf, Op
  <2> QED BY <2>1, <2>3 DEF RInv, VoteInv
<1>11. BeforeInv'
  BY <1>3, BeforeStays DEF At
<1>12. VotesAreCounted'
  <2>1. ASSUME NEW l \in Keys, l # k, reviews'[l] # NoReview
        PROVE  /\ reviews'[l].helpful = Cardinality(VotesFor(l)')
               /\ \A s \in VotesFor(l)' : req'[s].user # l[1]
    <3>1. VotesFor(l)' = VotesFor(l)
      BY <1>5, <2>1 DEF VotesFor
    <3> QED BY <1>4, <2>1, <3>1 DEF RInv, VotesAreCounted
  <2>2. /\ reviews'[k].helpful = Cardinality(VotesFor(k)')
        /\ \A s \in VotesFor(k)' : req'[s].user # k[1]
    <3>1. CASE reviews[k] # NoReview
      <4>1. VotesFor(k)' = VotesFor(k)
        BY <1>5, <3>1 DEF VotesFor
      <4>2. reviews'[k].helpful = reviews[k].helpful
        BY <1>4, <3>1 DEF new, Written
      <4> QED BY <3>1, <4>1, <4>2 DEF RInv, VotesAreCounted
    <3>2. CASE reviews[k] = NoReview
      <4>1. ASSUME NEW s \in Requests, voted[s] # 0, req[s].key = k PROVE voted[s] # epoch'[k]
        <5>1. voted[s] <= epoch[k] /\ voted[s] \in Nat /\ epoch[k] \in Nat
          BY <4>1 DEF RInv, VoteInv, VoteOf, Shapes
        <5>2. epoch'[k] = epoch[k] + 1
          BY <1>5, <3>2
        <5> QED BY <5>1, <5>2
      <4>2. VotesFor(k)' = {}
        BY <4>1 DEF VotesFor
      <4>3. reviews'[k].helpful = 0
        BY <1>4, <3>2 DEF new, Written
      <4> QED BY <4>2, <4>3, FS_EmptySet
    <3> QED BY <3>1, <3>2
  <2> QED BY <2>1, <2>2 DEF VotesAreCounted
<1>13. AnswersShowVotes'
  BY <1>3, AnswersStay DEF At
<1> QED BY <1>6, <1>7, <1>8, <1>9, <1>10, <1>11, <1>12, <1>13 DEF RInv

\* The statement finds no row.
LEMMA NoVoteInv ==
    ASSUME RInv, NEW r \in Requests, At(r, "vote"), Goto(r, "failed"),
           UNCHANGED <<tables, req, reply, ghosts>>
    PROVE  RInv'
<1>1. pc'[r] = "failed" /\ pc[r] = "vote"
  BY DEF RInv, Shapes, Goto, At
<1>2. StageOf(r)'
  BY <1>1 DEF StageOf, At
<1> QED BY <1>1, <1>2, PlainMoveInv DEF Places, Answers, At

LEMMA IncrementReviewHelpfulInv ==
    ASSUME RInv, NEW r \in Requests, IncrementReviewHelpful(r)
    PROVE  RInv'
<1>k. PICK k \in Keys : k = req[r].key
  BY AskedType DEF RInv, Shapes
<1>1. CASE Row(r) = NoReview
  BY <1>1, NoVoteInv DEF IncrementReviewHelpful, tables, ghosts
<1>2. CASE Row(r) # NoReview
  <2>1. /\ Shapes /\ StageOf(r) /\ VoteOf(r) /\ pc[r] = "vote" /\ Goto(r, "reread")
        /\ UNCHANGED <<listed, epoch, req, reply, before>>
        /\ reviews' = [reviews EXCEPT ![k].helpful = @ + 1]
        /\ voted' = [voted EXCEPT ![r] = epoch[k]]
    BY <1>k, <1>2 DEF RInv, StageInv, VoteInv, IncrementReviewHelpful, At
  <2>2. /\ k \in Keys /\ reviews[k] \in Rows /\ reviews[k] # NoReview /\ epoch[k] \in Nat \ {0}
        /\ req[r].op = "vote" /\ req[r].user # k[1] /\ voted[r] = 0 /\ k[2] \in listed
    BY <1>k, <1>2, <2>1
    DEF RInv, Shapes, EpochInv, Anchored, Row, StageOf, VoteOf, At, Op, Answers
  <2>3. /\ pc'[r] = "reread" /\ \A s \in Requests : s # r => pc'[s] = pc[s]
        /\ pc' \in [Requests -> Places]
    BY <2>1 DEF Shapes, Goto, Places, Statements
  <2>4. /\ reviews'[k].helpful = reviews[k].helpful + 1
        /\ \A l \in Keys : l # k => reviews'[l] = reviews[l]
        /\ reviews' \in [Keys -> Rows \cup {NoReview}]
    <3>1. [reviews[k] EXCEPT !.helpful = @ + 1] \in Rows
      BY <2>2 DEF Rows
    <3>2. reviews' = [reviews EXCEPT ![k] = [reviews[k] EXCEPT !.helpful = @ + 1]]
      BY <2>1
    <3>3. [reviews[k] EXCEPT !.helpful = @ + 1].helpful = reviews[k].helpful + 1
      BY <2>2 DEF Rows
    <3> DEFINE new == [reviews[k] EXCEPT !.helpful = @ + 1]
    <3> HIDE DEF new
    <3> QED BY <2>1, <2>2, <3>1, <3>2, <3>3 DEF Shapes, new
  <2>5. /\ voted'[r] = epoch[k] /\ \A s \in Requests : s # r => voted'[s] = voted[s]
        /\ voted' \in [Requests -> Nat]
    BY <2>1, <2>2 DEF Shapes
  <2> USE <1>k, <2>1, <2>2
  <2>6. Shapes'
    BY <2>3, <2>4, <2>5 DEF Shapes
  <2>7. Anchored' /\ EpochInv'
    BY <2>4 DEF RInv, Anchored, EpochInv
  <2>8. StageInv'
    BY <2>3, <2>5 DEF RInv, StageInv, StageOf, At, Op, Bound
  <2>9. VoteInv'
    <3>1. Voters' = Voters \cup {r}
      BY <2>5 DEF Voters, Shapes
    <3>2. IsFiniteSet(Voters')
      BY <3>1, FS_AddElement DEF RInv, VoteInv
    <3>3. VoteOf(r)'
      BY <2>3, <2>5 DEF VoteOf, Op, Shapes
    <3>4. ASSUME NEW s \in Requests, s # r PROVE VoteOf(s)'
      BY <2>3, <2>5, <3>4 DEF RInv, VoteInv, VoteOf, Op
    <3> QED BY <3>2, <3>3, <3>4 DEF VoteInv
  <2>10. BeforeInv'
    BY <2>3, BeforeStays DEF At
  <2>11. VotesAreCounted'
    <3>1. ASSUME NEW l \in Keys, l # k, reviews'[l] # NoReview
          PROVE  /\ reviews'[l].helpful = Cardinality(VotesFor(l)')
                 /\ \A s \in VotesFor(l)' : req'[s].user # l[1]
      <4>1. VotesFor(l)' = VotesFor(l)
        BY <2>5, <3>1 DEF VotesFor
      <4> QED BY <2>4, <3>1, <4>1 DEF RInv, VotesAreCounted
    <3>2. VotesFor(k)' = VotesFor(k) \cup {r} /\ r \notin VotesFor(k)
      BY <2>5 DEF VotesFor
    <3>3. Cardinality(VotesFor(k)') = Cardinality(VotesFor(k)) + 1
      <4>1. IsFiniteSet(VotesFor(k))
        BY VotesAreFinite
      <4>2. Cardinality(VotesFor(k) \cup {r}) = Cardinality(VotesFor(k)) + 1
        BY <3>2, <4>1, FS_AddElement
      <4> QED BY <3>2, <4>2
    <3>4. reviews[k].helpful = Cardinality(VotesFor(k)) /\ \A s \in VotesFor(k) : req[s].user # k[1]
      BY DEF RInv, VotesAreCounted
    <3>5. /\ reviews'[k].helpful = Cardinality(VotesFor(k)')
          /\ \A s \in VotesFor(k)' : req'[s].user # k[1]
      BY <2>4, <3>2, <3>3, <3>4
    <3>6. ASSUME NEW l \in Keys, reviews'[l] # NoReview
          PROVE  /\ reviews'[l].helpful = Cardinality(VotesFor(l)')
                 /\ \A s \in VotesFor(l)' : req'[s].user # l[1]
      BY <3>1, <3>5, <3>6
    <3> QED BY <3>6 DEF VotesAreCounted
  <2>12. AnswersShowVotes'
    BY <2>3, <2>5, AnswersStay DEF At
  <2> QED BY <2>6, <2>7, <2>8, <2>9, <2>10, <2>11, <2>12 DEF RInv
<1> QED BY <1>1, <1>2

-----------------------------------------------------------------------------
(* The catalogue.                                                          *)

\* The rows of one manga go, and what is left is as it was.
LEMMA CascadeInv ==
    ASSUME RInv, NEW m \in Manga, Cascade(m), UNCHANGED <<epoch, pc, req, reply, ghosts>>,
           listed' \subseteq Manga, listed \ {m} \subseteq listed'
    PROVE  RInv'
<1> USE DEF ghosts
<1>1. Shapes
  BY DEF RInv
<1>2. \A k \in Keys : reviews'[k] # NoReview => reviews'[k] = reviews[k] /\ k[2] # m
  BY DEF Cascade
<1>3. Shapes'
  BY <1>1 DEF Shapes, Cascade
<1>4. Anchored' /\ EpochInv'
  BY <1>2 DEF RInv, Anchored, EpochInv
<1>5. StageInv' /\ BeforeInv'
  BY DEF RInv, StageInv, StageOf, At, Op, Bound, BeforeInv
<1>6. VoteInv'
  BY DEF RInv, VoteInv, VoteOf, Voters, Op
<1>7. VotesAreCounted'
  BY <1>2, SameVotes DEF RInv, VotesAreCounted
<1>8. AnswersShowVotes'
  BY DEF RInv, AnswersShowVotes, At
<1> QED BY <1>3, <1>4, <1>5, <1>6, <1>7, <1>8 DEF RInv

LEMMA CreateMangaInv == ASSUME RInv, NEW m \in Manga, CreateManga(m) PROVE RInv'
BY CascadeInv DEF CreateManga, RInv, Shapes

LEMMA DeleteMangaInv == ASSUME RInv, NEW m \in Manga, DeleteManga(m) PROVE RInv'
BY CascadeInv DEF DeleteManga, RInv, Shapes

-----------------------------------------------------------------------------
(* The theorems.                                                           *)

LEMMA NextInv == RInv /\ [Next]_vars => RInv'
<1> SUFFICES ASSUME RInv, [Next]_vars PROVE RInv'
  OBVIOUS
<1>1. ASSUME NEW r \in Requests, Step(r) PROVE RInv'
  BY <1>1, CommandInv, HandleInv, ReadMangaInv, UpsertReviewInv, IncrementReviewHelpfulInv,
     GetReviewInv, ListReviewsInv, StatementErrorInv DEF Step
<1>2. ASSUME NEW m \in Manga, CreateManga(m) \/ DeleteManga(m) PROVE RInv'
  BY <1>2, CreateMangaInv, DeleteMangaInv
<1>3. CASE UNCHANGED vars
  <2> USE <1>3 DEF vars
  <2>1. Shapes' /\ Anchored' /\ EpochInv' /\ BeforeInv'
    BY DEF RInv, Shapes, Anchored, EpochInv, BeforeInv, At
  <2>2. StageInv' /\ VoteInv'
    BY DEF RInv, StageInv, StageOf, VoteInv, VoteOf, Voters, At, Op, Bound
  <2>3. VotesAreCounted' /\ AnswersShowVotes'
    BY SameVotes DEF RInv, VotesAreCounted, AnswersShowVotes, At
  <2> QED BY <2>1, <2>2, <2>3 DEF RInv
<1> QED BY <1>1, <1>2, <1>3 DEF Next

\* The inductive invariant holds in every reachable state.
THEOREM ReviewsInvariance == Spec => []RInv
<1> QED BY InitInv, NextInv, PTL DEF Spec

\* Whatever client asks for it, no rating outside its bounds is stored, and no
\* review outlives its manga (the binding of the body, and the foreign key).
THEOREM ReviewsAreSound == Spec => []TypeOK
<1> QED BY ReviewsInvariance, InvType, PTL

\* A review counts every vote for it once, none of its author's, and none that
\* went to a review of the same author and manga before it.
THEOREM VotesCounted == Spec => []VotesAreCounted
<1>1. RInv => VotesAreCounted
  BY DEF RInv
<1> QED BY <1>1, ReviewsInvariance, PTL

\* An answered vote shows itself and those answered before it was given, unless
\* the review it went to has gone.
THEOREM AnsweredVotesShow == Spec => []AnswersShowVotes
<1>1. RInv => AnswersShowVotes
  BY DEF RInv
<1> QED BY <1>1, ReviewsInvariance, PTL
=============================================================================
