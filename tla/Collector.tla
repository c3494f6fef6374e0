----------------------------- MODULE Collector -----------------------------
(***************************************************************************)
(* The data collector: one run loads the seed file, fetches a list of      *)
(* manga from MangaDex, or from Jikan when MangaDex fails, merges what is  *)
(* new into what was there, and writes the file.  Two front ends start it, *)
(* the data-collector program and "mangahub manga import", and nothing     *)
(* keeps two runs from working on one file.                                *)
(*                                                                         *)
(* A manga is its id, its title (a number, in the order titles sort), its  *)
(* status and whether it has every field it must have.  What the two       *)
(* sources hold is given; that a call to them fails is not.                *)
(* CollectorInit, CollectorNext and their like are named so that a module  *)
(* may extend this one and that of the catalogue which reads the file.     *)
(***************************************************************************)
EXTENDS Integers, Sequences, FiniteSets, Functions

CONSTANTS
    Collectors,    \* runs of the collector
    Limits,        \* values of the limit option
    Sources,       \* values of the source option
    MangaDex,      \* MangaDex[g]: what MangaDex lists for demographic g
    Jikan,         \* what Jikan lists
    HandMade,      \* a seed file nobody's collector wrote
    Statuses,      \* statuses the catalogue knows
    DefaultLimit, DefaultGroup, PageSize,
    Missing, Empty, Garbled  \* a file that does not exist or does not parse

Groups == Len(MangaDex)

\* What a source lists, and what is in the file.
Listed == [id: Nat, title: Nat, titled: BOOLEAN, status: STRING, genre: BOOLEAN]
Records == [id: Nat, title: Nat, status: STRING, whole: BOOLEAN]

ASSUME SizeAssumption == {DefaultLimit, DefaultGroup, PageSize} \subseteq Nat \ {0}
ASSUME SourcesAssumption == MangaDex \in Seq(Seq(Listed)) /\ Jikan \in Seq(Listed)
ASSUME GroupAssumption == Groups > 0
ASSUME LimitAssumption == Limits \subseteq Int
ASSUME StatusAssumption == Statuses \subseteq STRING /\ "ongoing" \in Statuses
ASSUME FileAssumption ==
    HandMade \in Seq(Records) /\ \A f \in {Missing, Empty, Garbled} : f \notin Seq(Records)

VARIABLES
    file,   \* the seed file: a sequence of manga, or why it is none
    run,    \* run[c]: how far collector c is, and what it works with
    lossy,  \* history: two runs overlapped, or one ended while it wrote
    kept    \* history: what every whole file held, in its normal form

collectorVars == <<file, run, lossy, kept>>

\* One collector's options and local variables; its source is, once it fetches,
\* the one it fetches from.
Run(stage, source, limit) ==
    [stage |-> stage, source |-> source, limit |-> limit, base |-> <<>>, at |-> 1,
     items |-> <<>>, result |-> <<>>]

-----------------------------------------------------------------------------
(* The list.                                                               *)

\* A finite set of numbers, the smallest first.
Ascending(K) ==
    [n \in 1 .. Cardinality(K) |-> CHOOSE k \in K : Cardinality({j \in K : j < k}) = n - 1]

\* What a list has at the positions K, in its order.
Picked(list, K) ==
    LET at == Ascending(K) IN [n \in DOMAIN at |-> list[at[n]]]

NormalStatus(s) == IF s \in Statuses THEN s ELSE "ongoing"
Normal(m) == [m EXCEPT !.status = NormalStatus(@)]
\* Mutant: incomplete entries are kept.
Sanitized_KeepsAll(list) == [i \in DOMAIN list |-> Normal(list[i])]
Sanitized(list) ==
    Sanitized_KeepsAll(Picked(list, {i \in DOMAIN list : list[i].whole}))

\* Of each title what comes first.
FirstOfTitle(list) ==
    {list[i] : i \in {k \in DOMAIN list :
                        \A j \in 1 .. k - 1 : list[j].title # list[k].title}}

\* The order that merging leaves is not kept: the list is sorted next.
\* Mutant: the second list wins.
Merged_NewFirst(a, b) == FirstOfTitle(b \o a)
Merged(a, b) == FirstOfTitle(a \o b)

Sorted(S) ==
    LET titles == Ascending({m.title : m \in S})
    IN  [n \in DOMAIN titles |-> CHOOSE m \in S : m.title = titles[n]]

First(n, list) == SubSeq(list, 1, IF n < Len(list) THEN n ELSE Len(list))

-----------------------------------------------------------------------------
(* What the sources answer.                                                *)

Requested(c) == IF run[c].limit <= 0 THEN DefaultLimit ELSE run[c].limit

PerGroup(c) ==
    IF Requested(c) \div Groups > 0 THEN Requested(c) \div Groups ELSE DefaultGroup

\* Mutant: the last, partial page is not asked for.
PageCount_WholeOnly(c) == Requested(c) \div PageSize
PageCount(c) ==
    (Requested(c) \div PageSize) + (IF Requested(c) % PageSize # 0 THEN 1 ELSE 0)

\* An entry without a title is dropped; MangaDex's entries always have a genre,
\* the demographic they were asked by, and Jikan's only when it names one.
Titled(list) == Picked(list, {i \in DOMAIN list : list[i].titled})
Entry(m, genre) ==
    [id |-> m.id, title |-> m.title, status |-> m.status, whole |-> m.genre \/ genre]
Received(list, genre) ==
    [i \in DOMAIN Titled(list) |-> Entry(Titled(list)[i], genre)]

Group(c) == First(PerGroup(c), MangaDex[run[c].at])
Page(c) == SubSeq(Jikan, (run[c].at - 1) * PageSize + 1,
                  IF run[c].at * PageSize < Len(Jikan) THEN run[c].at * PageSize
                                                       ELSE Len(Jikan))

-----------------------------------------------------------------------------
\* What counts of a file: what a collector that reads it takes it to hold.
Content(f) == IF f = Missing THEN {} ELSE Merged(Sanitized(f), <<>>)

CollectorInit ==
    /\ file \in {Missing, HandMade}
    /\ run = [c \in Collectors |-> Run("idle", "", 0)]
    /\ lossy = FALSE
    /\ kept = Content(file)

Goes(c, stage) == run' = [run EXCEPT ![c].stage = stage]

\* From environment variables in the one front end, from flags in the other.
Options == [source: Sources, limit: Limits]

Begin(c) ==
    /\ run[c].stage = "idle"
    /\ \E o \in Options : run' = [run EXCEPT ![c] = Run("load", o.source, o.limit)]
    /\ UNCHANGED <<file, lossy, kept>>

\* The file is read before the source option is looked at.
Load(c) ==
    /\ run[c].stage = "load" /\ file \notin {Empty, Garbled}
    /\ run' = [run EXCEPT
                ![c].base = IF file = Missing THEN <<>> ELSE Sanitized(file),
                ![c].stage = IF run[c].source \in {"mangadex", "jikan"}
                               THEN run[c].source ELSE "failed"]
    /\ UNCHANGED <<file, lossy, kept>>

LoadFails(c) ==
    /\ run[c].stage = "load" /\ file \in {Empty, Garbled}
    /\ Goes(c, "failed")
    /\ UNCHANGED <<file, lossy, kept>>

Receive(c, list, genre) ==
    /\ run' = [run EXCEPT ![c].items = @ \o Received(list, genre), ![c].at = @ + 1]
    /\ UNCHANGED <<file, lossy, kept>>

FetchGroup(c) ==
    /\ run[c].stage = "mangadex" /\ run[c].at <= Groups
    /\ Receive(c, Group(c), TRUE)

FetchPage(c) ==
    /\ run[c].stage = "jikan" /\ run[c].at <= PageCount(c)
    /\ Receive(c, Page(c), FALSE)

\* One failed call loses what MangaDex has sent so far.
FallBack(c) ==
    /\ run[c].stage = "mangadex" /\ run[c].at <= Groups
    /\ run' = [run EXCEPT ![c].stage = "jikan", ![c].source = "jikan", ![c].at = 1,
                          ![c].items = <<>>]
    /\ UNCHANGED <<file, lossy, kept>>

SourceFails(c) ==
    /\ run[c].stage = "jikan" /\ run[c].at <= PageCount(c)
    /\ Goes(c, "failed")
    /\ UNCHANGED <<file, lossy, kept>>

Fetched(c) ==
    \/ run[c].stage = "mangadex" /\ run[c].at > Groups
    \/ run[c].stage = "jikan" /\ run[c].at > PageCount(c)

Loaded == {"mangadex", "jikan", "writing"}
Alone(c) == \A d \in Collectors \ {c} : run[d].stage \notin Loaded

\* The write of the file opens it with O_TRUNC and then writes.
Truncate(c) ==
    /\ Fetched(c)
    /\ LET fetched == First(Requested(c), run[c].items) IN
        run' = [run EXCEPT ![c].stage = "writing", ![c].items = fetched,
                  ![c].result = Sorted(Merged(run[c].base, Sanitized(fetched)))]
    /\ file' = Empty
    /\ lossy' = (lossy \/ ~Alone(c))
    /\ UNCHANGED kept

\* Another collector has written since the truncation: the end of what is longer
\* than this one's text stays behind it.
WriteOver(c) ==
    /\ run[c].stage = "writing" /\ file \notin {Empty, run[c].result}
    /\ file' = Garbled
    /\ Goes(c, "done")
    /\ lossy' = TRUE
    /\ UNCHANGED kept

Write(c) ==
    /\ run[c].stage = "writing"
    /\ file' = run[c].result
    /\ Goes(c, "done")
    /\ lossy' = (lossy \/ ~Alone(c))
    /\ kept' = kept \cup Range(run[c].result)

\* The process is killed, or its disk is full.
Die(c) ==
    /\ run[c].stage \in Loaded
    /\ Goes(c, "failed")
    /\ lossy' = (lossy \/ run[c].stage = "writing")
    /\ file' \in IF run[c].stage = "writing" THEN {file, Garbled} ELSE {file}
    /\ UNCHANGED kept

CollectorNext == \E c \in Collectors :
    \/ Begin(c) \/ Load(c) \/ LoadFails(c)
    \/ FetchGroup(c) \/ FetchPage(c) \/ FallBack(c) \/ SourceFails(c)
    \/ Truncate(c) \/ Write(c) \/ WriteOver(c) \/ Die(c)

CollectorSpec == CollectorInit /\ [][CollectorNext]_collectorVars

-----------------------------------------------------------------------------
RunStages == Loaded \cup {"idle", "load", "failed", "done"}

\* Every manga has all its fields and a known status, and is there once, in the
\* order of titles.
Tidy(list) ==
    /\ \A i \in DOMAIN list : list[i].whole /\ list[i].status \in Statuses
    /\ \A i, k \in DOMAIN list : i < k => list[i].title < list[k].title

\* A file that a collector has written parses and is tidy.
CollectorTypeOK ==
    /\ file \in {Missing, Empty, Garbled, HandMade} \/ (file \in Seq(Records) /\ Tidy(file))
    /\ \A c \in Collectors :
        /\ run[c].stage \in RunStages
        /\ run[c].at \in 1 .. Groups + PageCount(c) + 1
    /\ lossy \in BOOLEAN

\* Unless two runs overlap or one ends while it writes, no manga that was ever in
\* a whole file leaves it or is replaced by what a source says of that title.
NothingIsLost ==
    ~lossy /\ (\A c \in Collectors : run[c].stage # "writing") => kept \subseteq Content(file)

HasTitle(c, t) == \E m \in Range(run[c].result) : m.title = t

Takes(c) ==
    /\ Len(run[c].result) <= Len(run[c].base) + Requested(c)
    /\ run[c].source = "jikan" =>
        \A k \in DOMAIN Jikan :
            k <= Requested(c) /\ Jikan[k].titled /\ Jikan[k].genre => HasTitle(c, Jikan[k].title)
    /\ run[c].source = "mangadex" =>
        \A g \in DOMAIN MangaDex : \A k \in DOMAIN MangaDex[g] :
            /\ k <= PerGroup(c) /\ (g - 1) * PerGroup(c) + k <= Requested(c)
            /\ MangaDex[g][k].titled
            => HasTitle(c, MangaDex[g][k].title)

\* A run adds no more manga to the file than it was asked for.  Every entry that
\* the limit reaches, of Jikan's list or of its share of each demographic's, is in
\* what it writes, or another of its title is, unless it has no title or genre.
TakesWhatIsAsked == \A c \in Collectors : run[c].stage = "writing" => Takes(c)
=============================================================================
