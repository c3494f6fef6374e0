-------------------------- MODULE CatalogueProofs --------------------------
(***************************************************************************)
(* Proofs about the catalogue, for every finite set of manga, any number   *)
(* of servers and terms and every seed file; about the read cache, which   *)
(* the catalogue's service puts in front of it; and about the collector,   *)
(* which writes the seed file.                                             *)
(*                                                                         *)
(* That a search is exact rests on two facts about the index: it has every *)
(* term of every row from the moment the first server has rebuilt it, and  *)
(* what else it has belongs to a rowid whose row was replaced.  Both need  *)
(* rowids to be unique, and so the next rowid to be a new one.             *)
(*                                                                         *)
(* That a collector loses nothing rests on its being alone: it has read    *)
(* all that was ever in the file, and what comes first of a title stays.   *)
(***************************************************************************)
EXTENDS Catalogue, VersionedCache, Collector, SequenceTheorems,
        FiniteSetTheorems, TLAPS

Rows == [rowid: Nat, text: Texts]
Lines == [id: Manga, text: Texts]

Shapes ==
    /\ manga \in [Manga -> Rows \cup {None}]
    /\ seeds \in [Servers -> Seq(Lines)]
    /\ TypeOK

\* A term in the index is of a row's text, or was left behind by a replacement.
StaleIsReplaced ==
    \A p \in manga_fts : p[1] \in replaced \/ \E m \in Live : p \in TermsOf(manga[m])

Indexed == \A m \in Live : TermsOf(manga[m]) \subseteq manga_fts

\* One server that has rebuilt the index is enough.
Rebuilt == \E s \in Servers : server[s] \in {"count", "read", "seed", "up"}

IndexInv == StaleIsReplaced /\ (Rebuilt => Indexed)

\* What a list names, and what the catalogue has or has had.
Ids(list) == {list[i].id : i \in DOMAIN list}
Had == Live \cup removed
Whole == \E f \in {Seed, Collected} : Ids(f) \subseteq Had

Seeding == \E s \in Servers : server[s] = "seed"

\* A server that seeds still has before it whatever is missing of the file it has
\* read, the old or the new one; and where there is a manga at all, or a server
\* that serves, somebody has begun to seed.
SeedInv ==
    /\ \A s \in Servers : server[s] = "seed" =>
          \E f \in {Seed, Collected} : Ids(f) \subseteq Had \cup Ids(seeds[s])
    /\ Serving \/ Live # {} => torn \/ Whole \/ Seeding

CatInv == Shapes /\ IndexInv /\ SeedInv

-----------------------------------------------------------------------------
(* Numbers: a finite set of them has a largest.  The library's induction   *)
(* theorems take an operator; this one takes a set, and rests on there     *)
(* being no infinite descent.                                              *)

LEMMA LeastNumber ==
    ASSUME NEW T \in SUBSET Nat, T # {}
    PROVE  \E x \in T : \A y \in T : x <= y
<1>1. IsWellFoundedOn(OpToRel(<, Nat), Nat)
  BY NatLessThanWellFounded
<1>2. PICK x \in T : \A y \in T : ~ (<<y, x>> \in OpToRel(<, Nat))
  BY <1>1, WFMin
<1>3. \A y \in T : ~(y < x)
  BY <1>2 DEF OpToRel
<1> QED BY <1>3

\* A set that has 0, and n + 1 with every n, has every number.
LEMMA SetInduction ==
    ASSUME NEW T, 0 \in T, \A n \in Nat : n \in T => n + 1 \in T
    PROVE  Nat \subseteq T
<1> SUFFICES ASSUME Nat \ T # {} PROVE FALSE
  OBVIOUS
<1>1. PICK x \in Nat \ T : \A y \in Nat \ T : x <= y
  BY LeastNumber
<1>2. x # 0 /\ x - 1 \in Nat
  BY <1>1
<1>3. x - 1 \in T
  BY <1>1, <1>2
<1> QED BY <1>1, <1>2, <1>3

LEMMA FiniteIsBounded ==
    ASSUME NEW S \in SUBSET Nat, IsFiniteSet(S)
    PROVE  \E b \in Nat : \A x \in S : x <= b
<1>1. PICK n \in Nat : ExistsSurjection(1 .. n, S)
  BY FS_NatSurjection
<1>2. PICK f \in [1 .. n -> S] : \A x \in S : \E i \in 1 .. n : f[i] = x
  BY <1>1 DEF ExistsSurjection, Surjection
<1> DEFINE T == {k \in Nat : \E b \in Nat : \A i \in 1 .. n : i <= k => f[i] <= b}
<1>3. 0 \in T
  <2>1. \A i \in 1 .. n : i <= 0 => f[i] <= 0
    OBVIOUS
  <2> QED BY <2>1
<1>4. ASSUME NEW k \in Nat, k \in T PROVE k + 1 \in T
  <2>1. PICK b \in Nat : \A i \in 1 .. n : i <= k => f[i] <= b
    BY <1>4
  <2>2. CASE k + 1 \in 1 .. n
    <3>1. f[k + 1] \in Nat
      BY <1>2, <2>2
    <3>2. PICK top \in Nat : b <= top /\ f[k + 1] <= top
      BY <3>1
    <3>3. ASSUME NEW i \in 1 .. n, i <= k + 1 PROVE f[i] <= top
      <4>1. f[i] \in Nat
        BY <1>2
      <4>2. CASE i <= k
        <5>1. f[i] <= b
          BY <2>1, <4>2
        <5> QED BY <3>2, <4>1, <5>1
      <4>3. CASE i = k + 1
        BY <3>2, <4>3
      <4>4. i <= k \/ i = k + 1
        BY <3>3
      <4> QED BY <4>2, <4>3, <4>4
    <3> QED BY <3>3
  <2>3. CASE k + 1 \notin 1 .. n
    <3>1. \A i \in 1 .. n : i <= k + 1 => i <= k
      BY <2>3
    <3>2. \A i \in 1 .. n : i <= k + 1 => f[i] <= b
      BY <2>1, <3>1
    <3> QED BY <3>2
  <2> QED BY <2>2, <2>3
<1>5. n \in T
  <2> HIDE DEF T
  <2> QED BY <1>3, <1>4, SetInduction
<1>6. PICK b \in Nat : \A i \in 1 .. n : i <= n => f[i] <= b
  BY <1>5
<1>7. \A i \in 1 .. n : f[i] <= b
  BY <1>6
<1> QED BY <1>2, <1>7

LEMMA MaxIsLargest ==
    ASSUME NEW S \in SUBSET Nat, IsFiniteSet(S), S # {}
    PROVE  Max(S) \in S /\ \A x \in S : x <= Max(S)
<1>1. PICK b \in Nat : \A x \in S : x <= b
  BY FiniteIsBounded
<1> DEFINE Below == {d \in Nat : \E x \in S : d = b - x}
<1>2. Below # {} /\ Below \in SUBSET Nat
  <2>1. PICK x \in S : TRUE
    OBVIOUS
  <2>2. b - x \in Below
    BY <1>1
  <2> QED BY <2>2
<1>3. PICK d \in Below : \A e \in Below : d <= e
  <2> HIDE DEF Below
  <2> QED BY <1>2, LeastNumber
<1>4. PICK x \in S : d = b - x
  BY <1>3
<1>5. ASSUME NEW y \in S PROVE y <= x
  <2>1. b - y \in Below
    BY <1>1
  <2>2. d <= b - y
    BY <1>3, <2>1
  <2> QED BY <1>4, <2>2
<1>6. \E z \in S : \A y \in S : z >= y
  BY <1>5
<1> QED BY <1>6 DEF Max

-----------------------------------------------------------------------------
(* Rows.                                                                   *)

LEMMA RowTypes ==
    ASSUME Shapes
    PROVE  \A m \in Live : /\ manga[m] \in Rows /\ manga[m].rowid \in Nat
                           /\ manga[m].text \in Texts
<1> SUFFICES ASSUME NEW m \in Live PROVE manga[m] \in Rows
  BY DEF Rows
<1> QED BY DEF Shapes, Live

\* The next rowid is a new one.
LEMMA NextIsNew ==
    ASSUME Shapes
    PROVE  NextRowid \in Nat /\ \A m \in Live : manga[m].rowid < NextRowid
<1> DEFINE Used == {manga[m].rowid : m \in Live}
<1>1. Used \in SUBSET Nat
  BY RowTypes
<1>2. IsFiniteSet(Live)
  BY MangaAssumption, FS_Subset DEF Live
<1>3. IsFiniteSet(Used)
  <2> DEFINE rowidOf == [m \in Live |-> manga[m].rowid]
  <2>1. rowidOf \in Surjection(Live, Used)
    BY DEF Surjection
  <2> QED BY <1>2, <2>1, FS_Surjection
<1>4. IsFiniteSet({0} \cup Used)
  BY <1>3, FS_Singleton, FS_Union
<1>5. Max({0} \cup Used) \in {0} \cup Used /\ \A x \in {0} \cup Used : x <= Max({0} \cup Used)
  <2> HIDE DEF Used
  <2> QED BY <1>1, <1>4, MaxIsLargest
<1>6. Max({0} \cup Used) \in Nat
  BY <1>1, <1>5
<1>7. NextRowid = 1 + Max({0} \cup Used)
  BY DEF NextRowid
<1>8. \A m \in Live : manga[m].rowid \in Used
  OBVIOUS
<1>9. ASSUME NEW m \in Live PROVE manga[m].rowid < NextRowid
  <2>1. manga[m].rowid \in Nat /\ manga[m].rowid <= Max({0} \cup Used)
    BY <1>1, <1>5, <1>8
  <2> QED BY <1>6, <1>7, <2>1
<1>10. NextRowid \in Nat
  <2> HIDE DEF Used
  <2> QED BY <1>6, <1>7
<1> QED BY <1>9, <1>10

\* What an insert leaves of the catalogue.
LEMMA InsertTypes ==
    ASSUME Shapes, NEW m \in Manga, NEW text \in Texts, InsertManga(m, text)
    PROVE  /\ manga' \in [Manga -> Rows \cup {None}]
           /\ Live' = Live \cup {m}
           /\ manga'[m] = Row(NextRowid, text)
           /\ \A n \in Manga : n # m => manga'[n] = manga[n]
           /\ \A n, o \in Live' : manga'[n].rowid = manga'[o].rowid => n = o
           /\ manga_fts' \subseteq Nat \X UNION Texts
<1>1. NextRowid \in Nat /\ \A n \in Live : manga[n].rowid < NextRowid /\ manga[n].rowid \in Nat
  BY NextIsNew, RowTypes
<1>2. Row(NextRowid, text) \in Rows /\ Row(NextRowid, text) # None
  BY <1>1, AbsenceAssumption DEF Row, Rows
<1>3. /\ manga' \in [Manga -> Rows \cup {None}] /\ manga'[m] = Row(NextRowid, text)
      /\ \A n \in Manga : n # m => manga'[n] = manga[n]
  BY <1>2 DEF Shapes, InsertManga
<1>4. Live' = Live \cup {m}
  BY <1>2, <1>3 DEF Live
<1>5. ASSUME NEW n \in Live', NEW o \in Live', manga'[n].rowid = manga'[o].rowid PROVE n = o
  <2>1. Row(NextRowid, text).rowid = NextRowid
    BY DEF Row
  <2>2. \A k \in Live' : k # m => k \in Live /\ k \in Manga
    BY <1>4 DEF Live
  <2>3. CASE n # m /\ o # m
    BY <1>3, <1>5, <2>2, <2>3 DEF Shapes, TypeOK
  <2>4. CASE n = m /\ o # m
    BY <1>1, <1>3, <1>5, <2>1, <2>2, <2>4
  <2>5. CASE n # m /\ o = m
    BY <1>1, <1>3, <1>5, <2>1, <2>2, <2>5
  <2> QED BY <2>3, <2>4, <2>5
<1>6. TermsOf(Row(NextRowid, text)) \subseteq Nat \X UNION Texts
  BY <1>1 DEF TermsOf, Row
<1>7. manga_fts' \subseteq Nat \X UNION Texts
  BY <1>6 DEF InsertManga, Shapes, TypeOK
<1> QED BY <1>3, <1>4, <1>5, <1>7

\* An insert leaves the index as complete as it was, and leaves stale only what
\* belongs to the row it replaces.
LEMMA InsertIndexed ==
    ASSUME Shapes, NEW m \in Manga, NEW text \in Texts, InsertManga(m, text)
    PROVE  (StaleIsReplaced => StaleIsReplaced') /\ (Indexed => Indexed')
<1> DEFINE new == Row(NextRowid, text)
<1>1. /\ Live' = Live \cup {m} /\ m \in Live' /\ manga'[m] = new
      /\ \A n \in Live : n # m => n \in Live' /\ manga'[n] = manga[n]
  BY InsertTypes DEF Live
<1>2. /\ manga_fts' = manga_fts \cup TermsOf(new)
      /\ replaced \subseteq replaced' /\ (m \in Live => manga[m].rowid \in replaced')
  BY DEF InsertManga
<1>3. ASSUME StaleIsReplaced, NEW p \in manga_fts'
      PROVE  p[1] \in replaced' \/ \E n \in Live' : p \in TermsOf(manga'[n])
  <2>1. CASE p \in TermsOf(new)
    BY <1>1, <2>1
  <2>2. CASE p \in manga_fts
    <3>1. CASE p[1] \in replaced
      BY <1>2, <3>1
    <3>2. ASSUME NEW n \in Live, p \in TermsOf(manga[n])
          PROVE  p[1] \in replaced' \/ \E o \in Live' : p \in TermsOf(manga'[o])
      <4>1. CASE n = m
        BY <1>2, <3>2, <4>1 DEF TermsOf
      <4>2. CASE n # m
        BY <1>1, <3>2, <4>2
      <4> QED BY <4>1, <4>2
    <3> QED BY <1>3, <2>2, <3>1, <3>2 DEF StaleIsReplaced
  <2> QED BY <1>2, <2>1, <2>2
<1>4. ASSUME Indexed, NEW n \in Live' PROVE TermsOf(manga'[n]) \subseteq manga_fts'
  <2> HIDE DEF new
  <2>1. CASE n = m
    BY <1>1, <1>2, <2>1
  <2>2. CASE n # m
    BY <1>1, <1>2, <1>4, <2>2 DEF Indexed
  <2> QED BY <2>1, <2>2
<1> QED BY <1>3, <1>4 DEF StaleIsReplaced, Indexed

-----------------------------------------------------------------------------
(* Initial states.                                                         *)

\* A server that has not begun, or is past the tables, lacks nothing.
LEMMA ReadyIsTidy ==
    Ready \in [table: DOMAIN Schema, lacks: SUBSET AllColumns] /\ Ready.lacks = {}
<1>1. 1 \in DOMAIN Schema
  BY SchemaAssumption
<1> QED BY <1>1 DEF Ready

\* Manga of an older version have the rowids of the order they came in.
LEMMA InitCat == Init => CatInv
<1> SUFFICES ASSUME Init PROVE CatInv
  OBVIOUS
<1>1. \/ manga = [m \in Manga |-> None]
      \/ \E order \in [1 .. Cardinality(Manga) -> Manga], text \in Texts :
            /\ \A m \in Manga : \E i \in DOMAIN order : order[i] = m
            /\ manga = [m \in Manga |-> Row(CHOOSE i \in DOMAIN order : order[i] = m, text)]
  BY DEF Init
<1>2. /\ columns \subseteq AllColumns /\ todo = [s \in Servers |-> Ready] /\ manga_fts = {} /\ server = [s \in Servers |-> "down"]
      /\ seed_file = Seed /\ seeds = [s \in Servers |-> <<>>] /\ failures = 0
      /\ replaced = {} /\ removed = {} /\ torn = FALSE
  BY DEF Init
<1> DEFINE Good == /\ manga \in [Manga -> Rows \cup {None}] /\ (Live = {} \/ Live = Manga)
                   /\ \A m, n \in Live : manga[m].rowid = manga[n].rowid => m = n
<1>3. Good
  <2>1. CASE manga = [m \in Manga |-> None]
    BY <2>1 DEF Live
  <2>2. ASSUME NEW order \in [1 .. Cardinality(Manga) -> Manga], NEW text \in Texts,
               \A m \in Manga : \E i \in DOMAIN order : order[i] = m,
               manga = [m \in Manga |-> Row(CHOOSE i \in DOMAIN order : order[i] = m, text)]
        PROVE  Good
    <3> DEFINE place(m) == CHOOSE i \in DOMAIN order : order[i] = m
    <3>1. \A m \in Manga : place(m) \in DOMAIN order /\ order[place(m)] = m
      BY <2>2
    <3>2. DOMAIN order \subseteq Nat
      BY <2>2
    <3>3. \A m \in Manga : manga[m] = Row(place(m), text)
      BY <2>2
    <3> HIDE DEF place
    <3>4. \A m \in Manga : manga[m] \in Rows /\ manga[m] # None /\ manga[m].rowid = place(m)
      <4>1. ASSUME NEW m \in Manga
            PROVE  manga[m] \in Rows /\ manga[m].rowid = place(m)
        <5>1. place(m) \in Nat
          BY <3>1, <3>2
        <5>2. manga[m] = [rowid |-> place(m), text |-> text]
          BY <3>3 DEF Row
        <5> QED BY <5>1, <5>2 DEF Rows
      <4> QED BY <4>1, AbsenceAssumption DEF Rows
    <3>5. manga \in [Manga -> Rows \cup {None}]
      BY <2>2, <3>4
    <3>6. Live = Manga
      BY <3>4 DEF Live
    <3> QED BY <3>1, <3>4, <3>5, <3>6
  <2> QED BY <1>1, <2>1, <2>2
<1>4. Shapes
  <2>1. seeds \in [Servers -> Seq(Lines)] /\ failures \in 0 .. MaxFailures
    BY <1>2, BoundsAssumption
  <2>2. \A m \in Live : manga[m].rowid \in Nat /\ manga[m].text \in Texts
    BY <1>3, AbsenceAssumption DEF Live, Rows
  <2>3. /\ todo \in [Servers -> [table: DOMAIN Schema, lacks: SUBSET AllColumns]]
        /\ \A s \in Servers : server[s] = "alter" <=> todo[s].lacks # {}
    BY <1>2, ReadyIsTidy
  <2> QED BY <1>2, <1>3, <2>1, <2>2, <2>3 DEF Shapes, TypeOK
<1>5. IndexInv
  BY <1>2 DEF IndexInv, StaleIsReplaced, Rebuilt
<1>6. SeedInv
  <2>1. Ids(Seed) \subseteq Manga
    <3>1. Seed \in Seq(Lines)
      BY SeedAssumption DEF Lines
    <3>2. \A i \in DOMAIN Seed : Seed[i] \in Lines
      BY <3>1
    <3> QED BY <3>2 DEF Ids, Lines
  <2> QED BY <1>2, <1>3, <2>1 DEF SeedInv, Serving, Whole, Had
<1> QED BY <1>4, <1>5, <1>6 DEF CatInv

-----------------------------------------------------------------------------
(* Start-up.                                                               *)

Stages == {"down", "inspect", "alter", "rebuild", "count", "read", "seed", "up"}

LEMMA Moved ==
    ASSUME Shapes, NEW s \in Servers, NEW next \in Stages, Goto(s, next)
    PROVE  /\ server' \in [Servers -> Stages] /\ server'[s] = next
           /\ \A r \in Servers : r # s => server'[r] = server[r]
BY DEF Shapes, TypeOK, Stages, Goto

\* Before its index is rebuilt a server touches no manga.
LEMMA EarlyInv ==
    ASSUME CatInv, NEW s \in Servers, NEW next \in {"down", "inspect", "alter", "rebuild"},
           server[s] \in {"down", "inspect", "alter"}, Goto(s, next),
           columns' \subseteq AllColumns,
           todo' \in [Servers -> [table: DOMAIN Schema, lacks: SUBSET AllColumns]],
           next = "alter" <=> todo'[s].lacks # {},
           \A r \in Servers : r # s => todo'[r] = todo[r],
           UNCHANGED <<seeds, failures, torn, table, seed_file, removed>>
    PROVE  CatInv'
<1>1. Shapes /\ IndexInv /\ SeedInv
  BY DEF CatInv
<1>2. /\ server' \in [Servers -> Stages] /\ server'[s] = next
      /\ \A r \in Servers : r # s => server'[r] = server[r]
  BY <1>1, Moved DEF Stages
<1>3. Live' = Live /\ Had' = Had /\ Whole' = Whole
  BY DEF Live, Had, Whole, table
<1>4. Shapes'
  BY <1>1, <1>2, <1>3 DEF Shapes, TypeOK, table, Stages
<1>5. IndexInv'
  BY <1>1, <1>2, <1>3 DEF IndexInv, StaleIsReplaced, Indexed, Rebuilt, table
<1>6. SeedInv'
  BY <1>1, <1>2, <1>3 DEF SeedInv, Seeding, Serving
<1> QED BY <1>4, <1>5, <1>6 DEF CatInv

Going(s, next) ==
    /\ Goto(s, next)
    /\ todo' \in [Servers -> [table: DOMAIN Schema, lacks: SUBSET AllColumns]]
    /\ next = "alter" <=> todo'[s].lacks # {}
    /\ \A r \in Servers : r # s => todo'[r] = todo[r]

\* A server goes on with the columns that are left, the next table or the index.
LEMMA AddsGoesOn ==
    ASSUME Shapes, NEW s \in Servers, NEW lacks \in SUBSET AllColumns, Adds(s, lacks)
    PROVE  \E next \in {"inspect", "alter", "rebuild"} : Going(s, next)
<1>1. /\ todo \in [Servers -> [table: DOMAIN Schema, lacks: SUBSET AllColumns]]
      /\ todo[s] \in [table: DOMAIN Schema, lacks: SUBSET AllColumns]
  BY DEF Shapes, TypeOK
<1>2. CASE lacks # {}
  <2>1. [todo[s] EXCEPT !.lacks = lacks] \in [table: DOMAIN Schema, lacks: SUBSET AllColumns]
        /\ [todo[s] EXCEPT !.lacks = lacks].lacks = lacks
    BY <1>1
  <2>2. todo' = [todo EXCEPT ![s] = [todo[s] EXCEPT !.lacks = lacks]] /\ Goto(s, "alter")
    BY <1>2 DEF Adds
  <2> QED BY <1>1, <1>2, <2>1, <2>2 DEF Going
<1>3. CASE lacks = {}
  <2>1. NextTable(s)
    BY <1>3 DEF Adds
  <2>2. CASE /\ todo[s].table + 1 \in DOMAIN Schema /\ Goto(s, "inspect")
             /\ todo' = [todo EXCEPT ![s] = [table |-> todo[s].table + 1, lacks |-> {}]]
    BY <1>1, <2>2 DEF Going
  <2>3. CASE todo' = [todo EXCEPT ![s] = Ready] /\ Goto(s, "rebuild")
    BY <1>1, <2>3, ReadyIsTidy DEF Going
  <2> QED BY <2>1, <2>2, <2>3 DEF NextTable
<1> QED BY <1>2, <1>3

LEMMA TableOfSchema ==
    ASSUME NEW t \in DOMAIN Schema
    PROVE  Schema[t] \subseteq AllColumns /\ AllColumns \subseteq Nat
BY SchemaAssumption DEF AllColumns

\* What is added is a column of the schema.
LEMMA LeastIsColumn ==
    ASSUME NEW lacks \in SUBSET AllColumns, lacks # {}
    PROVE  Min(lacks) \in lacks
<1>1. lacks \in SUBSET Nat
  BY SchemaAssumption DEF AllColumns
<1>2. \E x \in lacks : \A y \in lacks : x <= y
  BY <1>1, LeastNumber
<1> QED BY <1>2 DEF Min

LEMMA SchemaStep ==
    ASSUME CatInv, NEW s \in Servers, Start(s) \/ Inspect(s) \/ Alter(s)
    PROVE  CatInv'
<1>1. /\ Shapes /\ columns \subseteq AllColumns
      /\ todo \in [Servers -> [table: DOMAIN Schema, lacks: SUBSET AllColumns]]
      /\ server[s] = "alter" <=> todo[s].lacks # {}
      /\ todo[s] \in [table: DOMAIN Schema, lacks: SUBSET AllColumns]
  BY DEF CatInv, Shapes, TypeOK
<1>2. CASE Start(s)
  BY <1>1, <1>2, EarlyInv DEF Start
<1>3. CASE Inspect(s)
  <2>1. Schema[todo[s].table] \ columns \subseteq AllColumns
    BY <1>1, TableOfSchema
  <2>2. PICK next \in {"inspect", "alter", "rebuild"} : Going(s, next)
    BY <1>1, <1>3, <2>1, AddsGoesOn DEF Inspect
  <2> QED BY <1>1, <1>3, <2>2, EarlyInv DEF Inspect, Going
<1>4. CASE Alter(s)
  <2>1. PICK column \in todo[s].lacks : column = Min(todo[s].lacks)
    BY <1>1, <1>4, LeastIsColumn DEF Alter
  <2>2. /\ server[s] = "alter" /\ columns' = columns \cup {column} /\ columns' \subseteq AllColumns
        /\ UNCHANGED <<seeds, failures, torn, table, seed_file, removed>>
    BY <1>1, <1>4, <2>1 DEF Alter
  <2>3. \E next \in {"down", "inspect", "alter", "rebuild"} : Going(s, next)
    <3>1. CASE Adds(s, todo[s].lacks \ {column})
      <4>1. todo[s].lacks \ {column} \in SUBSET AllColumns
        BY <1>1
      <4> QED BY <1>1, <3>1, <4>1, AddsGoesOn
    <3>2. CASE todo' = [todo EXCEPT ![s] = Ready] /\ Goto(s, "down")
      BY <1>1, <3>2, ReadyIsTidy DEF Going
    <3> QED BY <1>4, <2>1, <3>1, <3>2 DEF Alter
  <2> QED BY <2>2, <2>3, EarlyInv DEF Going
<1> QED BY <1>2, <1>3, <1>4

\* Rebuilding makes the index exact.
LEMMA RebuildInv ==
    ASSUME CatInv, NEW s \in Servers, Rebuild(s)
    PROVE  CatInv'
<1>1. Shapes /\ SeedInv
  BY DEF CatInv
<1>2. /\ server' \in [Servers -> Stages] /\ server'[s] = "count" /\ server[s] = "rebuild"
      /\ \A r \in Servers : r # s => server'[r] = server[r]
  BY <1>1, Moved DEF Stages, Rebuild
<1>3. Live' = Live /\ Had' = Had /\ Whole' = Whole
  BY DEF Live, Had, Whole, Rebuild
<1>4. manga_fts' = UNION {TermsOf(manga[m]) : m \in Live}
  BY DEF Rebuild
<1>5. Shapes'
  <2>1. \A m \in Live : TermsOf(manga[m]) \subseteq Nat \X UNION Texts
    BY <1>1, RowTypes DEF TermsOf
  <2>2. manga_fts' \subseteq Nat \X UNION Texts
    BY <1>4, <2>1
  <2> QED BY <1>1, <1>2, <1>3, <2>2 DEF Shapes, TypeOK, Rebuild, Stages
<1>6. IndexInv'
  BY <1>3, <1>4 DEF IndexInv, StaleIsReplaced, Indexed, Rebuild
<1>7. SeedInv'
  BY <1>1, <1>2, <1>3 DEF SeedInv, Seeding, Serving, Rebuild
<1> QED BY <1>5, <1>6, <1>7 DEF CatInv

LEMMA CountInv ==
    ASSUME CatInv, NEW s \in Servers, Count(s)
    PROVE  CatInv'
<1>1. Shapes /\ IndexInv /\ SeedInv
  BY DEF CatInv
<1>2. PICK next \in {"read", "up"} : Goto(s, next) /\ (next = "up" <=> Live # {})
  BY DEF Count
<1>3. /\ server' \in [Servers -> Stages] /\ server'[s] = next /\ server[s] = "count"
      /\ \A r \in Servers : r # s => server'[r] = server[r]
  BY <1>1, <1>2, Moved DEF Stages, Count
<1>4. Live' = Live /\ Had' = Had /\ Whole' = Whole
  BY DEF Live, Had, Whole, Count, table
<1>5. Shapes'
  BY <1>1, <1>3, <1>4 DEF Shapes, TypeOK, Count, table, Stages
<1>6. IndexInv'
  BY <1>1, <1>3, <1>4 DEF IndexInv, StaleIsReplaced, Indexed, Rebuilt, Count, table
<1>7. SeedInv'
  BY <1>1, <1>2, <1>3, <1>4 DEF SeedInv, Seeding, Serving, Count
<1> QED BY <1>5, <1>6, <1>7 DEF CatInv

\* What is read is a list of lines.
LEMMA FilesAreLists ==
    ASSUME NEW list \in {Seed, Collected}
    PROVE  list \in Seq(Lines)
BY SeedAssumption DEF Lines

LEMMA ReadSeedInv ==
    ASSUME CatInv, NEW s \in Servers, ReadSeed(s)
    PROVE  CatInv'
<1>1. Shapes /\ IndexInv /\ SeedInv
  BY DEF CatInv
<1>2. Live' = Live /\ Had' = Had /\ Whole' = Whole
  BY DEF Live, Had, Whole, ReadSeed, table
<1>3. PICK next \in {"down", "up", "seed"} :
        /\ Goto(s, next)
        /\ \/ next = "down" /\ UNCHANGED seeds
           \/ /\ seed_file \in {Seed, Collected} /\ seeds' = [seeds EXCEPT ![s] = seed_file]
              /\ next = IF seed_file = <<>> THEN "up" ELSE "seed"
  BY <1>1 DEF ReadSeed, Shapes, TypeOK
<1>4. /\ server' \in [Servers -> Stages] /\ server'[s] = next /\ server[s] = "read"
      /\ \A r \in Servers : r # s => server'[r] = server[r]
  BY <1>1, <1>3, Moved DEF Stages, ReadSeed
<1>5. /\ seeds' \in [Servers -> Seq(Lines)]
      /\ next = "seed" <=> seeds'[s] # <<>>
      /\ next # "down" => seeds'[s] \in {Seed, Collected}
      /\ \A r \in Servers : r # s => seeds'[r] = seeds[r]
  <2>1. CASE UNCHANGED seeds /\ next = "down"
    BY <1>1, <1>4, <2>1 DEF Shapes, TypeOK
  <2>2. CASE /\ seed_file \in {Seed, Collected} /\ seeds' = [seeds EXCEPT ![s] = seed_file]
             /\ next = IF seed_file = <<>> THEN "up" ELSE "seed"
    BY <1>1, <2>2, FilesAreLists DEF Shapes
  <2> QED BY <1>3, <2>1, <2>2
<1>6. Shapes'
  BY <1>1, <1>2, <1>4, <1>5 DEF Shapes, TypeOK, ReadSeed, table, Stages
<1>7. IndexInv'
  BY <1>1, <1>2, <1>4 DEF IndexInv, StaleIsReplaced, Indexed, Rebuilt, ReadSeed, table
<1>8. SeedInv'
  <2>1. next = "up" => Whole
    <3>1. next = "up" => <<>> \in {Seed, Collected}
      BY <1>3
    <3> QED BY <3>1 DEF Whole, Ids
  <2>2. \A r \in Servers : server'[r] = "seed" =>
          \E f \in {Seed, Collected} : Ids(f) \subseteq Had \cup Ids(seeds'[r])
    BY <1>1, <1>4, <1>5 DEF SeedInv
  <2>3. Serving' \/ Live' # {} => torn' \/ Whole \/ Seeding'
    BY <1>1, <1>2, <1>3, <1>4, <2>1 DEF SeedInv, Seeding, Serving, ReadSeed
  <2> QED BY <1>2, <2>2, <2>3 DEF SeedInv, Seeding
<1> QED BY <1>6, <1>7, <1>8 DEF CatInv

\* What is inserted is missing no longer.
LEMMA SeedOneInv ==
    ASSUME CatInv, NEW s \in Servers, SeedOne(s)
    PROVE  CatInv'
<1>1. Shapes /\ IndexInv /\ SeedInv
  BY DEF CatInv
<1>2. PICK list \in Seq(Lines) : list = seeds[s] /\ list # <<>>
  BY <1>1 DEF SeedOne, Shapes, TypeOK
<1>3. PICK m \in Manga, text \in Texts : m = Head(list).id /\ text = Head(list).text
  <2>1. Head(list) \in Lines
    BY <1>2
  <2> QED BY <2>1 DEF Lines
<1>4. InsertManga(m, text)
  BY <1>2, <1>3 DEF SeedOne
<1>5. PICK next \in {"up", "seed"} : Goto(s, next) /\ (next = "up" <=> Len(list) = 1)
  BY <1>2 DEF SeedOne
<1>6. /\ server' \in [Servers -> Stages] /\ server'[s] = next /\ server[s] = "seed"
      /\ \A r \in Servers : r # s => server'[r] = server[r]
  BY <1>1, <1>5, Moved DEF Stages, SeedOne
<1>7. /\ manga' \in [Manga -> Rows \cup {None}] /\ Live' = Live \cup {m}
      /\ \A n, o \in Live' : manga'[n].rowid = manga'[o].rowid => n = o
      /\ manga_fts' \subseteq Nat \X UNION Texts
  BY <1>1, <1>4, InsertTypes
<1>8. /\ seeds' \in [Servers -> Seq(Lines)] /\ seeds'[s] = Tail(list)
      /\ \A r \in Servers : r # s => seeds'[r] = seeds[r]
      /\ Tail(list) = <<>> <=> next = "up"
  <2>1. Tail(list) \in Seq(Lines) /\ Len(Tail(list)) = Len(list) - 1
    BY <1>2
  <2>2. seeds' = [seeds EXCEPT ![s] = Tail(list)]
    BY <1>2 DEF SeedOne
  <2>3. Tail(list) = <<>> <=> Len(list) = 1
    <3>1. PICK tail \in Seq(Lines) : tail = Tail(list)
      BY <2>1
    <3>2. tail = <<>> <=> Len(tail) = 0
      OBVIOUS
    <3> QED BY <1>2, <2>1, <3>1, <3>2
  <2> QED BY <1>1, <1>5, <2>1, <2>2, <2>3 DEF Shapes
<1>9. Shapes'
  <2>1. \A n \in Live' : manga'[n].rowid \in Nat /\ manga'[n].text \in Texts
    BY <1>7 DEF Live, Rows
  <2> QED BY <1>1, <1>6, <1>7, <1>8, <2>1 DEF Shapes, TypeOK, SeedOne, Stages
<1>10. IndexInv'
  <2>1. Rebuilt
    BY <1>6 DEF Rebuilt
  <2> QED BY <1>1, <1>4, <2>1, InsertIndexed DEF IndexInv
<1>11. SeedInv'
  <2>1. Had' = Had \cup {m}
    BY <1>7 DEF Had, SeedOne
  <2>2. Ids(list) \subseteq {m} \cup Ids(Tail(list))
    <3> SUFFICES ASSUME NEW i \in DOMAIN list PROVE list[i].id \in {m} \cup Ids(Tail(list))
      BY DEF Ids
    <3>1. CASE i = 1
      BY <1>2, <1>3, <3>1
    <3>2. CASE i # 1
      <4>1. i - 1 \in DOMAIN Tail(list) /\ Tail(list)[i - 1] = list[i]
        BY <1>2, <3>2
      <4> QED BY <4>1 DEF Ids
    <3> QED BY <3>1, <3>2
  <2>3. \E f \in {Seed, Collected} : Ids(f) \subseteq Had' \cup Ids(Tail(list))
    BY <1>1, <1>2, <1>6, <2>1, <2>2 DEF SeedInv
  <2>4. \A r \in Servers : server'[r] = "seed" =>
          \E f \in {Seed, Collected} : Ids(f) \subseteq Had' \cup Ids(seeds'[r])
    BY <1>1, <1>6, <1>8, <2>1, <2>3 DEF SeedInv
  <2>5. Whole' \/ Seeding'
    <3>1. next = "up" => Whole'
      BY <1>8, <2>3 DEF Ids, Whole
    <3> QED BY <1>6, <3>1 DEF Seeding
  <2> QED BY <2>4, <2>5 DEF SeedInv
<1> QED BY <1>9, <1>10, <1>11 DEF CatInv

LEMMA FailInv ==
    ASSUME CatInv, NEW s \in Servers, Fail(s)
    PROVE  CatInv'
<1>1. Shapes /\ IndexInv /\ SeedInv
  BY DEF CatInv
<1>2. /\ server' \in [Servers -> Stages] /\ server'[s] = "down"
      /\ \A r \in Servers : r # s => server'[r] = server[r]
  BY <1>1, Moved DEF Stages, Fail
<1>3. Live' = Live /\ Had' = Had /\ Whole' = Whole
  BY DEF Live, Had, Whole, Fail, table
<1>4. Shapes'
  <2>1. failures' \in 0 .. MaxFailures /\ torn' \in BOOLEAN
    BY <1>1, BoundsAssumption DEF Fail, Shapes, TypeOK
  <2>2. seeds' \in [Servers -> Seq(Lines)] /\ seeds'[s] = <<>>
        /\ \A r \in Servers : r # s => seeds'[r] = seeds[r]
    BY <1>1 DEF Fail, Shapes
  <2>3. /\ todo' \in [Servers -> [table: DOMAIN Schema, lacks: SUBSET AllColumns]]
        /\ \A r \in Servers : server'[r] = "alter" <=> todo'[r].lacks # {}
    BY <1>1, <1>2, ReadyIsTidy DEF Fail, Shapes, TypeOK
  <2> QED BY <1>1, <1>2, <1>3, <2>1, <2>2, <2>3 DEF Shapes, TypeOK, Fail, table, Stages
<1>5. IndexInv'
  BY <1>1, <1>2, <1>3 DEF IndexInv, StaleIsReplaced, Indexed, Rebuilt, Fail, table
<1>6. SeedInv'
  <2>1. \A r \in Servers : r # s => seeds'[r] = seeds[r]
    BY <1>1 DEF Fail, Shapes
  <2>2. torn' = (torn \/ server[s] = "seed")
    BY DEF Fail
  <2> QED BY <1>1, <1>2, <1>3, <2>1, <2>2 DEF SeedInv, Seeding, Serving
<1> QED BY <1>4, <1>5, <1>6 DEF CatInv

-----------------------------------------------------------------------------
(* The collector and the requests.                                         *)

LEMMA CollectorInv ==
    ASSUME CatInv, TruncateSeed \/ WriteSeed
    PROVE  CatInv'
<1>1. UNCHANGED <<table, startup, removed>> /\ seed_file' \in {Seed, Collected, None}
  BY DEF TruncateSeed, WriteSeed
<1>2. Live' = Live /\ Had' = Had /\ Whole' = Whole
  BY <1>1 DEF Live, Had, Whole, table
<1>3. Shapes'
  BY <1>1, <1>2 DEF CatInv, Shapes, TypeOK, table, startup
<1>4. IndexInv'
  BY <1>1, <1>2 DEF CatInv, IndexInv, StaleIsReplaced, Indexed, Rebuilt, table, startup
<1>5. SeedInv'
  BY <1>1, <1>2 DEF CatInv, SeedInv, Seeding, Serving, startup
<1> QED BY <1>3, <1>4, <1>5 DEF CatInv

LEMMA CreateInv ==
    ASSUME CatInv, NEW m \in Manga, NEW text \in Texts, CreateManga(m, text)
    PROVE  CatInv'
<1>1. /\ Shapes /\ IndexInv /\ SeedInv
      /\ InsertManga(m, text) /\ UNCHANGED <<startup, seed_file, removed>>
  BY DEF CatInv, CreateManga
<1>2. /\ manga' \in [Manga -> Rows \cup {None}] /\ Live' = Live \cup {m}
      /\ \A n, o \in Live' : manga'[n].rowid = manga'[o].rowid => n = o
      /\ manga_fts' \subseteq Nat \X UNION Texts
  BY <1>1, InsertTypes
<1>3. Had' = Had \cup {m} /\ Serving
  BY <1>1, <1>2, ServersAssumption DEF Had, Serving, CreateManga
<1>4. Shapes'
  <2>1. \A n \in Live' : manga'[n].rowid \in Nat /\ manga'[n].text \in Texts
    BY <1>2 DEF Live, Rows
  <2> QED BY <1>1, <1>2, <2>1 DEF Shapes, TypeOK, startup
<1>5. IndexInv'
  BY <1>1, InsertIndexed DEF IndexInv, Rebuilt, startup
<1>6. SeedInv'
  BY <1>1, <1>3 DEF SeedInv, Seeding, Serving, Whole, startup
<1> QED BY <1>4, <1>5, <1>6 DEF CatInv

\* The terms that go are those of one rowid, and so of one manga.
LEMMA UpdateInv ==
    ASSUME CatInv, NEW m \in Manga, NEW text \in Texts, UpdateManga(m, text)
    PROVE  CatInv'
<1> DEFINE new == Row(manga[m].rowid, text)
<1>1. /\ Shapes /\ IndexInv /\ SeedInv
      /\ m \in Live /\ UNCHANGED <<replaced, startup, seed_file, removed>>
  BY DEF CatInv, UpdateManga
<1>2. manga[m] \in Rows /\ new \in Rows /\ new # None
  BY <1>1, RowTypes, AbsenceAssumption DEF Row, Rows
<1>3. manga' = [manga EXCEPT ![m] = new]
  <2>1. manga' = [manga EXCEPT ![m] = [manga[m] EXCEPT !.text = text]]
    BY DEF UpdateManga
  <2>2. [manga[m] EXCEPT !.text = text] = new
    BY <1>2 DEF Row, Rows
  <2> QED BY <2>1, <2>2
<1>4. /\ manga' \in [Manga -> Rows \cup {None}] /\ manga'[m] = new /\ Live' = Live
      /\ \A n \in Manga : n # m => manga'[n] = manga[n]
  <2>1. /\ manga' \in [Manga -> Rows \cup {None}] /\ manga'[m] = new
        /\ \A n \in Manga : n # m => manga'[n] = manga[n]
    <3> HIDE DEF new
    <3> QED BY <1>1, <1>2, <1>3 DEF Shapes
  <2> QED BY <1>1, <1>2, <2>1 DEF Live
<1>5. new.rowid = manga[m].rowid /\ \A n \in Live : manga'[n].rowid = manga[n].rowid
  BY <1>4 DEF Row, Live
<1>6. manga_fts' = (manga_fts \ TermsOf(manga[m])) \cup TermsOf(new)
  BY DEF UpdateManga, Reindexed
<1>7. Live \subseteq Manga /\ \A n \in Live : n # m => manga[n].rowid # manga[m].rowid
  BY <1>1 DEF Shapes, TypeOK, Live
<1> HIDE DEF new
<1>8. Shapes'
  <2>1. TermsOf(new) \subseteq Nat \X UNION Texts
    BY <1>2 DEF TermsOf, Rows
  <2>2. manga_fts' \subseteq Nat \X UNION Texts
    BY <1>1, <1>6, <2>1 DEF Shapes, TypeOK
  <2>3. \A n \in Live' : manga'[n].rowid \in Nat /\ manga'[n].text \in Texts
    BY <1>4 DEF Live, Rows
  <2>4. \A n, o \in Live' : manga'[n].rowid = manga'[o].rowid => n = o
    BY <1>1, <1>4, <1>5 DEF Shapes, TypeOK
  <2> QED BY <1>1, <1>4, <2>2, <2>3, <2>4 DEF Shapes, TypeOK, startup
<1>9. IndexInv'
  <2>1. ASSUME NEW p \in manga_fts'
        PROVE  p[1] \in replaced \/ \E n \in Live : p \in TermsOf(manga'[n])
    <3>1. CASE p \in TermsOf(new)
      BY <1>1, <1>4, <3>1
    <3>2. CASE p \in manga_fts \ TermsOf(manga[m])
      <4>1. ASSUME NEW n \in Live, p \in TermsOf(manga[n]) PROVE p \in TermsOf(manga'[n])
        BY <1>4, <1>7, <3>2, <4>1
      <4> QED BY <1>1, <3>2, <4>1 DEF IndexInv, StaleIsReplaced
    <3> QED BY <1>6, <2>1, <3>1, <3>2
  <2>2. ASSUME Rebuilt, NEW n \in Live PROVE TermsOf(manga'[n]) \subseteq manga_fts'
    <3>1. CASE n = m
      BY <1>4, <1>6, <3>1, <1>1
    <3>2. CASE n # m
      <4>1. TermsOf(manga[n]) \subseteq manga_fts
        BY <1>1, <2>2 DEF IndexInv, Indexed
      <4>2. TermsOf(manga[n]) \cap TermsOf(manga[m]) = {}
        BY <1>7, <3>2 DEF TermsOf
      <4> QED BY <1>4, <1>6, <1>7, <3>2, <4>1, <4>2
    <3> QED BY <3>1, <3>2
  <2>3. Rebuilt' = Rebuilt
    BY <1>1 DEF Rebuilt, startup
  <2> QED BY <1>1, <1>4, <2>1, <2>2, <2>3 DEF IndexInv, StaleIsReplaced, Indexed
<1>10. SeedInv'
  BY <1>1, <1>4 DEF SeedInv, Seeding, Serving, Had, Whole, startup
<1> QED BY <1>8, <1>9, <1>10 DEF CatInv

LEMMA DeleteInv ==
    ASSUME CatInv, NEW m \in Manga, DeleteManga(m)
    PROVE  CatInv'
<1>1. /\ Shapes /\ IndexInv /\ SeedInv
      /\ m \in Live /\ UNCHANGED <<replaced, startup, seed_file>>
  BY DEF CatInv, DeleteManga
<1>2. /\ manga' \in [Manga -> Rows \cup {None}] /\ manga'[m] = None
      /\ \A n \in Manga : n # m => manga'[n] = manga[n]
  BY <1>1 DEF DeleteManga, Shapes
<1>3. Live' = Live \ {m} /\ Live \subseteq Manga
  BY <1>2 DEF Live
<1>4. manga_fts' = manga_fts \ TermsOf(manga[m]) /\ removed' = removed \cup {m}
  BY DEF DeleteManga, Unindexed
<1>5. \A n \in Live' : manga'[n] = manga[n] /\ manga[n].rowid # manga[m].rowid
  BY <1>1, <1>2, <1>3 DEF Shapes, TypeOK
<1>6. Shapes'
  BY <1>1, <1>2, <1>3, <1>4, <1>5 DEF Shapes, TypeOK, startup
<1>7. IndexInv'
  <2>1. ASSUME NEW p \in manga_fts'
        PROVE  p[1] \in replaced \/ \E n \in Live' : p \in TermsOf(manga'[n])
    <3>1. ASSUME NEW n \in Live, p \in TermsOf(manga[n])
          PROVE  n \in Live' /\ p \in TermsOf(manga'[n])
      BY <1>3, <1>4, <1>5, <3>1
    <3> QED BY <1>1, <1>4, <3>1 DEF IndexInv, StaleIsReplaced
  <2>2. ASSUME Rebuilt, NEW n \in Live' PROVE TermsOf(manga'[n]) \subseteq manga_fts'
    <3>1. TermsOf(manga[n]) \subseteq manga_fts
      BY <1>1, <1>3, <2>2 DEF IndexInv, Indexed
    <3>2. TermsOf(manga[n]) \cap TermsOf(manga[m]) = {}
      BY <1>5 DEF TermsOf
    <3> QED BY <1>4, <1>5, <3>1, <3>2
  <2>3. Rebuilt' = Rebuilt
    BY <1>1 DEF Rebuilt, startup
  <2> QED BY <1>1, <2>1, <2>2, <2>3 DEF IndexInv, StaleIsReplaced, Indexed
<1>8. SeedInv'
  <2>1. Had' = Had /\ Live' \subseteq Live
    BY <1>1, <1>3, <1>4 DEF Had
  <2> QED BY <1>1, <2>1 DEF SeedInv, Seeding, Serving, Whole, startup
<1> QED BY <1>6, <1>7, <1>8 DEF CatInv

-----------------------------------------------------------------------------
(* Theorems.                                                               *)

LEMMA CatStep == ASSUME CatInv, [Next]_vars PROVE CatInv'
<1>2. ASSUME NEW s \in Servers, Boot(s) \/ Fail(s) PROVE CatInv'
  BY <1>2, SchemaStep, RebuildInv, CountInv, ReadSeedInv, SeedOneInv, FailInv DEF Boot
<1>3. CASE UNCHANGED vars
  BY <1>3 DEF vars, table, startup, CatInv, Shapes, TypeOK, IndexInv, StaleIsReplaced, Indexed,
      Rebuilt, SeedInv, Serving, Seeding, Whole, Had, Live
<1> QED BY <1>2, <1>3, CreateInv, UpdateInv, DeleteInv, CollectorInv DEF Next

\* Every reachable state of the catalogue satisfies the invariant.
THEOREM CatalogueInvariance == Spec => []CatInv
<1>1. Init => CatInv
  BY InitCat
<1>2. CatInv /\ [Next]_vars => CatInv'
  BY CatStep
<1> QED BY <1>1, <1>2, PTL DEF Spec

\* The types hold; rowids are unique, though rows are replaced and deleted and
\* servers seed side by side (schema_repository.go, manga_repository.go).
THEOREM CatalogueTypes == Spec => []TypeOK
<1>1. CatInv => TypeOK
  BY DEF CatInv, Shapes
<1> QED BY <1>1, CatalogueInvariance, PTL

\* While a server is up a search finds what the texts say, and besides only what
\* a replaced row has left to its rowid (the triggers of schema_repository.go).
THEOREM SearchExact == Spec => []SearchIsExact
<1>1. ASSUME CatInv PROVE SearchIsExact
  <2> SUFFICES ASSUME Serving, NEW m \in Live, NEW t \in UNION Texts
               PROVE  /\ t \in manga[m].text => m \in Search(t)
                      /\ m \in Search(t) => t \in manga[m].text \/ manga[m].rowid \in replaced
    BY DEF SearchIsExact
  <2>1. Shapes /\ StaleIsReplaced /\ Indexed
    BY <1>1 DEF CatInv, IndexInv, Serving, Rebuilt
  <2>2. t \in manga[m].text => m \in Search(t)
    BY <2>1 DEF Indexed, TermsOf, Search
  <2>3. ASSUME m \in Search(t), manga[m].rowid \notin replaced PROVE t \in manga[m].text
    <3>1. <<manga[m].rowid, t>> \in manga_fts
      BY <2>3 DEF Search
    <3>2. PICK n \in Live : <<manga[m].rowid, t>> \in TermsOf(manga[n])
      BY <2>1, <2>3, <3>1 DEF StaleIsReplaced
    <3>3. manga[n].rowid = manga[m].rowid /\ t \in manga[n].text
      BY <3>2 DEF TermsOf
    <3>4. n = m
      BY <2>1, <3>3 DEF Shapes, TypeOK
    <3> QED BY <3>3, <3>4
  <2> QED BY <2>2, <2>3
<1> QED BY <1>1, CatalogueInvariance, PTL

\* Where seeding is over and nobody died in it, all that the old seed file named,
\* or all that the new one names, is there, requests apart (SeedMangaFromJSON in
\* each server).
THEOREM SeedWhole == Spec => []SeedIsWhole
<1>1. ASSUME CatInv PROVE SeedIsWhole
  <2> SUFFICES ASSUME Serving, ~torn, \A s \in Servers : server[s] # "seed"
               PROVE  \E f \in {Seed, Collected} : \A i \in DOMAIN f :
                        f[i].id \in Live \cup removed
    BY DEF SeedIsWhole
  <2>1. Whole
    BY <1>1 DEF CatInv, SeedInv, Seeding
  <2> QED BY <2>1 DEF Whole, Had, Ids
<1> QED BY <1>1, CatalogueInvariance, PTL

-----------------------------------------------------------------------------
(* The cache in front of the catalogue (and of the reviews and the         *)
(* libraries), for any number of readers, writers, keys and writes. Its    *)
(* promise rests on what Redis holds under the version of now and under    *)
(* the older versions that readers on their way look for.                  *)

\* Updating a read's fields keeps it a read.
LEMMA ReadUpdated ==
  ASSUME NEW x \in Reads, NEW p \in {"idle", "get", "fetch", "rekey", "set"},
         NEW v \in Nat
  PROVE  [x EXCEPT !.pc = p, !.version = v] \in Reads
  BY DEF Reads

LEMMA ReadFetched ==
  ASSUME NEW x \in Reads, NEW a \in Answers
  PROVE  [x EXCEPT !.pc = "rekey", !.answer = a] \in Reads
  BY DEF Reads

LEMMA ReadAnswered ==
  ASSUME NEW x \in Reads, NEW a \in Answers, NEW l \in BOOLEAN
  PROVE  [x EXCEPT !.pc = "idle", !.version = 0, !.answer = a, !.late = l] \in Reads
  BY DEF Reads

USE DEF CacheInv, CacheTypeOK, VersionsIssued, CurrentEntriesKeepPromise,
        ReadersKeepPromise, FindsPromised, ReadsSeePromised,
        Entries, Answers, Reads

\* Nothing is stored and nothing is promised at the start.
LEMMA InitCache == CacheInit => CacheInv
  BY NoAnswerAssumption DEF CacheInit, Queries

\* A reader that looks up the version: the promise of now is kept by what is
\* stored under the version of now.
LEMMA LookUpVersionInv ==
  ASSUME NEW r \in Readers, CacheInv, LookUpVersion(r)
  PROVE  CacheInv'
  <1>1. PICK q \in Queries, failed \in BOOLEAN :
          read' = [read EXCEPT ![r] =
                    [pc |-> "get", query |-> q,
                     version |-> IF failed THEN 0 ELSE version,
                     since |-> promised, failed |-> failed, late |-> FALSE,
                     answer |-> NoAnswer]]
    BY DEF LookUpVersion
  <1> QED BY <1>1 DEF LookUpVersion

\* The answer found is one the reader was promised, or was stored late.
LEMMA HitInv ==
  ASSUME NEW r \in Readers, CacheInv, Hit(r)
  PROVE  CacheInv'
  <1>1. PICK e \in Found(read[r].version, read[r].query) :
          read' = [read EXCEPT ![r].pc = "idle", ![r].version = 0,
                               ![r].answer = e.answer, ![r].late = e.late]
    BY DEF Hit
  <1>2. e \in entries /\ e.version = read[r].version
    BY <1>1 DEF Found
  <1>3. e.answer \in Answers /\ e.late \in BOOLEAN
    BY <1>2
  <1>4. \A s \in Readers \ {r} : read'[s] = read[s]
    BY <1>1
  <1>5. /\ read'[r].pc = "idle" /\ read'[r].version = 0
        /\ read'[r].answer = e.answer /\ read'[r].late = e.late
        /\ read'[r].since = read[r].since /\ read'[r].failed = read[r].failed
    BY <1>1
  <1>6. UNCHANGED <<db, version, entries, write, promised>>
    BY DEF Hit
  <1>7. CacheTypeOK'
    <2>0. read[r] \in Reads
      OBVIOUS
    <2>1. [read[r] EXCEPT !.pc = "idle", !.version = 0,
                          !.answer = e.answer, !.late = e.late] \in Reads
      <3> HIDE DEF Reads, Answers
      <3> QED BY ONLY <1>3, <2>0, ReadAnswered
    <2>2. read' = [read EXCEPT ![r] =
                    [read[r] EXCEPT !.pc = "idle", !.version = 0,
                                    !.answer = e.answer, !.late = e.late]]
      BY <1>1
    <2> QED BY <2>1, <2>2, <1>6
  <1>8. VersionsIssued' /\ CurrentEntriesKeepPromise'
    BY <1>4, <1>5, <1>6
  <1>9. ReadersKeepPromise'
    BY <1>4, <1>5, <1>6
  <1>10. ~e.late /\ ~read[r].failed => e.answer.at >= read[r].since
    BY <1>2 DEF Hit
  <1>11. ReadsSeePromised'
    BY <1>4, <1>5, <1>10
  <1> QED BY <1>7, <1>8, <1>9, <1>11

LEMMA MissInv ==
  ASSUME NEW r \in Readers, CacheInv, Miss(r)
  PROVE  CacheInv'
  BY DEF Miss

\* What the database holds is at least what was promised.
LEMMA FetchInv ==
  ASSUME NEW r \in Readers, CacheInv, Fetch(r)
  PROVE  CacheInv'
  <1> DEFINE answer == [at |-> db, of |-> read[r].query]
  <1>1. read' = [read EXCEPT ![r].pc = "rekey", ![r].answer = answer]
    BY DEF Fetch
  <1>2. answer \in Answers /\ answer.at = db
    BY DEF Queries
  <1> HIDE DEF answer
  <1>3. \A s \in Readers \ {r} : read'[s] = read[s]
    BY <1>1
  <1>4. /\ read'[r].pc = "rekey" /\ read'[r].version = read[r].version
        /\ read'[r].answer = answer /\ read'[r].late = read[r].late
        /\ read'[r].since = read[r].since /\ read'[r].failed = read[r].failed
    BY <1>1
  <1>5. UNCHANGED <<db, version, entries, write, promised>>
    BY DEF Fetch
  <1>6. CacheTypeOK'
    <2>0. read[r] \in Reads
      OBVIOUS
    <2>1. [read[r] EXCEPT !.pc = "rekey", !.answer = answer] \in Reads
      <3> HIDE DEF Reads, Answers
      <3> QED BY ONLY <1>2, <2>0, ReadFetched
    <2>2. read' = [read EXCEPT ![r] = [read[r] EXCEPT !.pc = "rekey", !.answer = answer]]
      BY <1>1
    <2> QED BY <2>1, <2>2, <1>5
  <1>7. VersionsIssued' /\ CurrentEntriesKeepPromise' /\ ReadersKeepPromise'
    BY <1>2, <1>3, <1>4, <1>5
  <1>8. ReadsSeePromised'
    BY <1>2, <1>3, <1>4, <1>5
  <1> QED BY <1>6, <1>7, <1>8

LEMMA LookUpVersionAgainInv ==
  ASSUME NEW r \in Readers, CacheInv, LookUpVersionAgain(r)
  PROVE  CacheInv'
  <1>1. PICK failed \in BOOLEAN :
          read' = [read EXCEPT ![r].pc = "set",
                               ![r].version = IF failed THEN 0 ELSE version]
    BY DEF LookUpVersionAgain
  <1>2. \A s \in Readers \ {r} : read'[s] = read[s]
    BY <1>1
  <1>3. /\ read'[r].pc = "set" /\ read'[r].version \in 0 .. version
        /\ read'[r].answer = read[r].answer /\ read'[r].late = read[r].late
        /\ read'[r].since = read[r].since /\ read'[r].failed = read[r].failed
    BY <1>1
  <1>4. UNCHANGED <<db, version, entries, write, promised>>
    BY DEF LookUpVersionAgain
  <1>5. CacheTypeOK'
    <2> DEFINE v == IF failed THEN 0 ELSE version
    <2>0. v \in Nat
      OBVIOUS
    <2> HIDE DEF v
    <2>1. [read[r] EXCEPT !.pc = "set", !.version = v] \in Reads
      <3> HIDE DEF Reads
      <3>1. read[r] \in Reads
        BY DEF CacheTypeOK
      <3> QED BY ONLY <2>0, <3>1, ReadUpdated
    <2>2. read' = [read EXCEPT ![r] = [read[r] EXCEPT !.pc = "set", !.version = v]]
      BY <1>1 DEF v
    <2> QED BY <2>1, <2>2, <1>4
  <1>6. VersionsIssued' /\ CurrentEntriesKeepPromise' /\ ReadsSeePromised'
    BY <1>2, <1>3, <1>4
  <1>7. ReadersKeepPromise'
    BY <1>2, <1>3, <1>4 DEF LookUpVersionAgain
  <1> QED BY <1>5, <1>6, <1>7

\* A new entry that is not late keeps the promise of now, and so that of every
\* reader that started before.
LEMMA SetInv ==
  ASSUME NEW r \in Readers, CacheInv, Set(r)
  PROVE  CacheInv'
  <1> DEFINE new == [version |-> read[r].version, key |-> listKey(read[r].query),
                     answer |-> read[r].answer,
                     late |-> IsLate(r), expires |-> TRUE]
  <1>1. entries' \subseteq entries \cup {new}
    BY DEF Set, Found
  <1>2. read[r].answer \in Answers /\ read[r].query \in Queries
    BY DEF Set
  <1>3. new \in Entries
    <2>1. IsLate(r) \in BOOLEAN
      BY DEF IsLate
    <2> QED BY <1>2, <2>1 DEF listKey, Queries
  <1>4. new.version = read[r].version
    OBVIOUS
  <1>5. ~new.late => new.answer.at >= promised
    <2>1. new.late = IsLate(r) /\ new.answer = read[r].answer
      OBVIOUS
    <2>2. read[r].answer.at \in Nat /\ promised \in Nat
      BY <1>2
    <2>3. ~IsLate(r) => read[r].answer.at >= promised
      BY <2>2 DEF IsLate
    <2> QED BY <2>1, <2>3
  <1> HIDE DEF new
  <1>6. read' = [read EXCEPT ![r].pc = "idle", ![r].version = 0]
    BY DEF Set
  <1>7. \A s \in Readers \ {r} : read'[s] = read[s]
    BY <1>6
  <1>8. /\ read'[r].pc = "idle" /\ read'[r].version = 0
        /\ read'[r].answer = read[r].answer /\ read'[r].late = read[r].late
        /\ read'[r].since = read[r].since /\ read'[r].failed = read[r].failed
    BY <1>6
  <1>9. UNCHANGED <<db, version, write, promised>>
    BY DEF Set
  <1>10. CacheTypeOK'
    <2>0. read[r] \in Reads /\ 0 \in Nat
      OBVIOUS
    <2>1. [read[r] EXCEPT !.pc = "idle", !.version = 0] \in Reads
      <3> HIDE DEF Reads
      <3> QED BY ONLY <2>0, ReadUpdated
    <2>2. read' = [read EXCEPT ![r] = [read[r] EXCEPT !.pc = "idle", !.version = 0]]
      BY <1>6
    <2> QED BY <2>1, <2>2, <1>1, <1>3, <1>9
  <1>11. VersionsIssued'
    BY <1>1, <1>4, <1>7, <1>8, <1>9
  <1>12. CurrentEntriesKeepPromise'
    BY <1>1, <1>5, <1>9
  <1>13. ReadersKeepPromise'
    <2> SUFFICES ASSUME NEW s \in Readers
                 PROVE  /\ read'[s].since <= promised'
                        /\ read'[s].pc \in {"rekey", "set"} => read'[s].answer \in Answers
                        /\ FindsPromised(s)'
      OBVIOUS
    <2>1. CASE s = r
      BY <2>1, <1>8, <1>9
    <2>2. CASE s # r
      <3>1. read'[s] = read[s]
        BY <2>2, <1>7
      <3>2. ~new.late => new.answer.at >= read[s].since
        BY <1>3, <1>5
      <3> QED BY <3>1, <3>2, <1>1, <1>9
    <2> QED BY <2>1, <2>2
  <1>14. ReadsSeePromised'
    BY <1>7, <1>8
  <1> QED BY <1>10, <1>11, <1>12, <1>13, <1>14

\* A failing fetch or store ends the read with what it has.
LEMMA ReadFailsInv ==
  ASSUME NEW r \in Readers, CacheInv, FetchFails(r) \/ SetFails(r)
  PROVE  CacheInv'
  <1>1. read' = [read EXCEPT ![r].pc = "idle", ![r].version = 0]
    BY DEF FetchFails, SetFails
  <1>2. \A s \in Readers \ {r} : read'[s] = read[s]
    BY <1>1
  <1>3. /\ read'[r].pc = "idle" /\ read'[r].version = 0
        /\ read'[r].answer = read[r].answer /\ read'[r].late = read[r].late
        /\ read'[r].since = read[r].since /\ read'[r].failed = read[r].failed
    BY <1>1
  <1>4. UNCHANGED <<db, version, entries, write, promised>>
    BY DEF FetchFails, SetFails
  <1>5. CacheTypeOK'
    <2>0. read[r] \in Reads /\ 0 \in Nat
      OBVIOUS
    <2>1. [read[r] EXCEPT !.pc = "idle", !.version = 0] \in Reads
      <3> HIDE DEF Reads
      <3> QED BY ONLY <2>0, ReadUpdated
    <2>2. read' = [read EXCEPT ![r] = [read[r] EXCEPT !.pc = "idle", !.version = 0]]
      BY <1>1
    <2> QED BY <2>1, <2>2, <1>4
  <1> QED BY <1>2, <1>3, <1>4, <1>5

LEMMA CommitInv ==
  ASSUME NEW w \in Writers, CacheInv, Commit(w)
  PROVE  CacheInv'
  BY DEF Commit

\* Nothing is stored under the new version yet, so its promise is kept.
LEMMA InvalidateInv ==
  ASSUME NEW w \in Writers, CacheInv, Invalidate(w) \/ InvalidateFails(w)
  PROVE  CacheInv'
  BY DEF Invalidate, InvalidateFails

LEMMA RemainingInv ==
  ASSUME CacheInv,
         \/ WriteUnannounced
         \/ \E e \in entries : Expire(e.version, e.key)
         \/ UNCHANGED cacheVars
  PROVE  CacheInv'
  BY DEF WriteUnannounced, Expire, cacheVars

LEMMA CacheStep == CacheInv /\ [CacheNext]_cacheVars => CacheInv'
  BY LookUpVersionInv, HitInv, MissInv, FetchInv, LookUpVersionAgainInv, SetInv,
     ReadFailsInv, CommitInv, InvalidateInv, RemainingInv
  DEF CacheNext, Proceed

\* The invariant behind the promise: it holds in every reachable state.
THEOREM CacheInvariance == CacheSpec => []CacheInv
  <1>1. CacheInit => CacheInv BY InitCache
  <1>2. CacheInv /\ [CacheNext]_cacheVars => CacheInv' BY CacheStep
  <1> QED BY <1>1, <1>2, PTL DEF CacheSpec

\* The variables keep their types: no promise and no pending invalidation is
\* ahead of what the database holds.
THEOREM CacheTypes == CacheSpec => []CacheTypeOK
  <1>1. CacheInv => CacheTypeOK OBVIOUS
  <1> QED BY <1>1, CacheInvariance, PTL

\* A read that starts after a write's request has ended returns that write or a
\* later one, unless its look-up of the version failed or it hit an answer that
\* was stored late.
THEOREM PromiseKept == CacheSpec => []ReadsSeePromised
  <1>1. CacheInv => ReadsSeePromised OBVIOUS
  <1> QED BY <1>1, CacheInvariance, PTL

-----------------------------------------------------------------------------
(* The data collector.                                                     *)

SourceNames == Sources \cup {"", "jikan"}

RunRecords ==
    [stage: RunStages, source: SourceNames, limit: Int, base: Seq(Records), at: Nat,
     items: Seq(Records), result: Seq(Records)]

Clean(list) == \A i \in DOMAIN list : list[i].whole /\ list[i].status \in Statuses

\* What a run has read is clean and what it is to write is tidy.
RunOf(c) ==
    /\ run[c].at \in 1 .. Groups + PageCount(c) + 1
    /\ run[c].stage \in {"idle", "load"} => run[c].at = 1 /\ run[c].items = <<>>
    /\ Clean(run[c].base)
    /\ run[c].stage = "writing" => Tidy(run[c].result)

Least(i, j) == IF i < j THEN i ELSE j

\* Has(items, m, n): m is among the first n items.
Has(items, m, n) == \E i \in DOMAIN items : i <= n /\ items[i] = m

\* Who has been sent what comes before a page or a demographic has every titled
\* entry of it, each no later than its place among what was listed.
HasPages(items, sent) ==
    /\ Len(items) <= sent
    /\ \A k \in DOMAIN Jikan :
        k <= sent /\ Jikan[k].titled => Has(items, Entry(Jikan[k], FALSE), k)

Place(g, k, per) == (g - 1) * per + k

HasGroups(items, at, per) ==
    \A g \in 1 .. Groups : \A k \in DOMAIN MangaDex[g] :
        g < at /\ k <= per /\ MangaDex[g][k].titled
            => Has(items, Entry(MangaDex[g][k], TRUE), Place(g, k, per))

HeardOf(c) ==
    /\ run[c].stage = "jikan" =>
        /\ run[c].at <= PageCount(c) + 1 /\ run[c].source = "jikan"
        /\ HasPages(run[c].items, (run[c].at - 1) * PageSize)
    /\ run[c].stage = "mangadex" =>
        /\ run[c].at <= Groups + 1 /\ run[c].source = "mangadex"
        /\ Len(run[c].items) <= (run[c].at - 1) * PerGroup(c)
        /\ HasGroups(run[c].items, run[c].at, PerGroup(c))
    /\ run[c].stage = "writing" => Takes(c)

RunInv ==
    /\ run \in [Collectors -> RunRecords]
    /\ \A c \in Collectors : RunOf(c) /\ HeardOf(c)

FileInv ==
    /\ file \in {Missing, Empty, Garbled, HandMade} \/ (file \in Seq(Records) /\ Tidy(file))
    /\ lossy \in BOOLEAN

Writing == \E c \in Collectors : run[c].stage = "writing"

\* What was ever kept is before whoever has read the file, and in what he will
\* write, which he does alone.
KeptInv ==
    ~lossy =>
        /\ ~Writing => kept \subseteq Content(file)
        /\ \A c \in Collectors :
            /\ run[c].stage \in Loaded => kept \subseteq Merged(run[c].base, <<>>)
            /\ run[c].stage = "writing" =>
                file = Empty /\ Alone(c) /\ kept \subseteq Range(run[c].result)

ColInv == RunInv /\ FileInv /\ KeptInv

-----------------------------------------------------------------------------
(* What its operators yield.  Positions and titles are numbers: to count   *)
(* how many of a finite set are less than a number maps the set one to one *)
(* to as many places, so that no induction is needed.                      *)

LEMMA AscendingIsOrder ==
    ASSUME NEW K \in SUBSET Nat, IsFiniteSet(K)
    PROVE  /\ Cardinality(K) \in Nat
           /\ Ascending(K) \in [1 .. Cardinality(K) -> K]
           /\ \A i, j \in 1 .. Cardinality(K) : i < j => Ascending(K)[i] < Ascending(K)[j]
           /\ \A k \in K : \E i \in 1 .. Cardinality(K) : Ascending(K)[i] = k
           /\ \A i \in 1 .. Cardinality(K) :
                Cardinality({j \in K : j < Ascending(K)[i]}) = i - 1
<1> DEFINE n == Cardinality(K)
           Below(k) == {j \in K : j < k}
           rank == [k \in K |-> Cardinality(Below(k)) + 1]
           f == Ascending(K)
<1>1. n \in Nat
  BY FS_CardinalityType
<1>2. ASSUME NEW k \in K
      PROVE  IsFiniteSet(Below(k)) /\ Cardinality(Below(k)) \in Nat /\ Cardinality(Below(k)) < n
  <2>1. Below(k) \in SUBSET K /\ k \notin Below(k) /\ Below(k) # K
    OBVIOUS
  <2>2. /\ IsFiniteSet(Below(k)) /\ Cardinality(Below(k)) <= n
        /\ n = Cardinality(Below(k)) => K = Below(k)
    BY <2>1, FS_Subset
  <2>3. Cardinality(Below(k)) \in Nat
    BY <2>2, FS_CardinalityType
  <2> QED BY <1>1, <2>1, <2>2, <2>3
<1>3. ASSUME NEW j \in K, NEW k \in K, j < k
      PROVE  Cardinality(Below(j)) < Cardinality(Below(k))
  <2>1. Below(j) \cup {j} \in SUBSET Below(k) /\ j \notin Below(j)
    <3>1. j \in Nat /\ k \in Nat /\ \A i \in K : i \in Nat
      OBVIOUS
    <3>2. \A i \in Below(j) : i \in Below(k)
      BY <1>3, <3>1
    <3>3. j \in Below(k) /\ j \notin Below(j)
      BY <1>3, <3>1
    <3> QED BY <3>2, <3>3
  <2>2. Cardinality(Below(j) \cup {j}) = Cardinality(Below(j)) + 1
    BY <1>2, <2>1, FS_AddElement
  <2>3. Cardinality(Below(j) \cup {j}) <= Cardinality(Below(k))
    BY <1>2, <2>1, FS_Subset
  <2> QED BY <1>2, <2>2, <2>3
<1>4. rank \in [K -> 1 .. n]
  BY <1>1, <1>2
<1>5. \A j, k \in K : j < k => rank[j] < rank[k]
  BY <1>2, <1>3
<1>6. \A k \in K : rank[k] = Cardinality(Below(k)) + 1 /\ Cardinality(Below(k)) \in Nat
  BY <1>2
<1> HIDE DEF rank, Below
<1>7. \A j, k \in K : rank[j] = rank[k] => j = k
  <2> SUFFICES ASSUME NEW j \in K, NEW k \in K, rank[j] = rank[k], j # k PROVE FALSE
    OBVIOUS
  <2>1. j < k \/ k < j
    OBVIOUS
  <2>2. rank[j] \in 1 .. n /\ rank[k] \in 1 .. n
    BY <1>4
  <2> QED BY <1>1, <1>5, <2>1, <2>2
<1>8. rank \in Surjection(K, 1 .. n)
  <2>1. rank \in Injection(K, 1 .. n)
    BY <1>4, <1>7 DEF Injection, IsInjective
  <2>2. IsFiniteSet(1 .. n) /\ Cardinality(1 .. n) = n
    BY <1>1, FS_Interval
  <2> QED BY <2>1, <2>2, FS_Injection
<1>9. f = [i \in 1 .. n |-> CHOOSE k \in K : Cardinality(Below(k)) = i - 1]
  BY DEF Ascending, Below
<1> HIDE DEF f
<1>10. ASSUME NEW i \in 1 .. n
       PROVE  f[i] \in K /\ rank[f[i]] = i /\ Cardinality(Below(f[i])) = i - 1
  <2>1. PICK k \in K : rank[k] = i
    BY <1>8 DEF Surjection
  <2>2. Cardinality(Below(k)) = i - 1
    BY <1>1, <1>6, <2>1
  <2>3. f[i] \in K /\ Cardinality(Below(f[i])) = i - 1
    BY <1>9, <2>2
  <2>4. rank[f[i]] = Cardinality(Below(f[i])) + 1
    BY <1>6, <2>3
  <2> QED BY <1>1, <2>3, <2>4
<1>11. f \in [1 .. n -> K]
  BY <1>9, <1>10
<1>12. ASSUME NEW i \in 1 .. n, NEW j \in 1 .. n, i < j
       PROVE  f[i] < f[j]
  <2>1. f[i] \in Nat /\ f[j] \in Nat
    BY <1>10
  <2>2. rank[f[i]] = i /\ rank[f[j]] = j /\ f[i] \in K /\ f[j] \in K
    BY <1>10
  <2>3. f[j] # f[i]
    BY <1>1, <1>12, <2>2
  <2>4. ~(f[j] < f[i])
    <3>1. f[j] < f[i] => j < i
      BY <1>5, <2>2
    <3>2. ~(j < i)
      BY <1>1, <1>12
    <3> QED BY <3>1, <3>2
  <2> QED BY <2>1, <2>3, <2>4
<1>13. ASSUME NEW k \in K PROVE \E i \in 1 .. n : f[i] = k
  <2>1. rank[k] \in 1 .. n
    BY <1>4
  <2>2. f[rank[k]] = k
    BY <1>7, <1>10, <2>1
  <2> QED BY <2>1, <2>2
<1>14. \A i \in 1 .. n : Cardinality({j \in K : j < f[i]}) = i - 1
  BY <1>10 DEF Below
<1> QED BY <1>1, <1>11, <1>12, <1>13, <1>14 DEF f

LEMMA PickedIsPart ==
    ASSUME NEW S, NEW list \in Seq(S), NEW K \in SUBSET (DOMAIN list)
    PROVE  /\ Picked(list, K) \in Seq(S)
           /\ \A i, j \in DOMAIN Picked(list, K) : i < j =>
                \E k, l \in K : k < l /\ Picked(list, K)[i] = list[k] /\ Picked(list, K)[j] = list[l]
           /\ \A i \in DOMAIN Picked(list, K) : \E k \in K : Picked(list, K)[i] = list[k]
           /\ \A k \in K : \E i \in DOMAIN Picked(list, K) : Picked(list, K)[i] = list[k]
<1> DEFINE n == Cardinality(K)
           at == Ascending(K)
           p == Picked(list, K)
<1>1. Len(list) \in Nat /\ DOMAIN list = 1 .. Len(list)
  OBVIOUS
<1>2. IsFiniteSet(K)
  <2>1. IsFiniteSet(1 .. Len(list))
    BY <1>1, FS_Interval
  <2> QED BY <1>1, <2>1, FS_Subset
<1>3. K \in SUBSET Nat
  BY <1>1
<1>4. n \in Nat /\ at \in [1 .. n -> K]
  BY <1>2, <1>3, AscendingIsOrder
<1>5. /\ \A i, j \in 1 .. n : i < j => at[i] < at[j]
      /\ \A k \in K : \E i \in 1 .. n : at[i] = k
  BY <1>2, <1>3, AscendingIsOrder
<1>6. p = [i \in DOMAIN at |-> list[at[i]]]
  BY DEF Picked
<1> HIDE DEF n, at, p
<1>7. DOMAIN p = 1 .. n /\ \A i \in 1 .. n : at[i] \in K /\ p[i] = list[at[i]] /\ p[i] \in S
  BY <1>4, <1>6
<1>8. p \in Seq(S)
  <2>1. p = [i \in 1 .. n |-> p[i]]
    BY <1>6, <1>7
  <2> QED BY <1>4, <1>7, <2>1
<1>9. \A i, j \in DOMAIN p : i < j => \E k, l \in K : k < l /\ p[i] = list[k] /\ p[j] = list[l]
  BY <1>5, <1>7
<1>10. \A i \in DOMAIN p : \E k \in K : p[i] = list[k]
  BY <1>7
<1>11. \A k \in K : \E i \in DOMAIN p : p[i] = list[k]
  BY <1>5, <1>7
<1> QED BY <1>8, <1>9, <1>10, <1>11 DEF p

LEMMA NormalFacts ==
    ASSUME NEW m \in Records
    PROVE  /\ Normal(m) \in Records /\ Normal(m).status \in Statuses
           /\ Normal(m).title = m.title /\ Normal(m).whole = m.whole
           /\ m.status \in Statuses => Normal(m) = m
<1>1. NormalStatus(m.status) \in Statuses /\ NormalStatus(m.status) \in STRING
  BY StatusAssumption DEF NormalStatus
<1>2. m.status \in Statuses => NormalStatus(m.status) = m.status
  BY DEF NormalStatus
<1> QED BY <1>1, <1>2 DEF Normal, Records

\* Reading a list leaves no entry that is not whole, and of a tidy one everything.
LEMMA SanitizedIsClean ==
    ASSUME NEW list \in Seq(Records)
    PROVE  /\ Sanitized(list) \in Seq(Records) /\ Clean(Sanitized(list))
           /\ Tidy(list) => /\ Tidy(Sanitized(list))
                            /\ \A k \in DOMAIN list :
                                \E i \in DOMAIN Sanitized(list) : Sanitized(list)[i] = list[k]
<1> DEFINE K == {i \in DOMAIN list : list[i].whole}
           p == Picked(list, K)
           s == Sanitized(list)
<1>1. K \in SUBSET (DOMAIN list)
  OBVIOUS
<1>2. /\ p \in Seq(Records)
      /\ \A i, j \in DOMAIN p : i < j =>
            \E k, l \in K : k < l /\ p[i] = list[k] /\ p[j] = list[l]
      /\ \A i \in DOMAIN p : \E k \in K : p[i] = list[k]
      /\ \A k \in K : \E i \in DOMAIN p : p[i] = list[k]
  <2> HIDE DEF K
  <2> QED BY <1>1, PickedIsPart
<1>3. s = [i \in DOMAIN p |-> Normal(p[i])]
  BY DEF Sanitized, Sanitized_KeepsAll
<1>4. \A k \in K : k \in DOMAIN list /\ list[k].whole /\ list[k] \in Records
  OBVIOUS
<1>5. \A k \in DOMAIN list : list[k].whole => k \in K
  OBVIOUS
<1>6. DOMAIN list \subseteq Nat
  OBVIOUS
<1> HIDE DEF K, p, s
<1>7. DOMAIN s = DOMAIN p /\ \A i \in DOMAIN p : p[i] \in Records /\ s[i] = Normal(p[i])
  BY <1>2, <1>3
<1>8. \A i \in DOMAIN p : p[i].whole
  BY <1>2, <1>4
<1>9. \A i \in DOMAIN s : s[i] \in Records /\ s[i].whole /\ s[i].status \in Statuses /\ s[i].title = p[i].title
  BY <1>7, <1>8, NormalFacts
<1>10. s \in Seq(Records)
  <2>1. Len(p) \in Nat /\ DOMAIN p = 1 .. Len(p)
    BY <1>2
  <2>2. s = [i \in 1 .. Len(p) |-> s[i]]
    BY <1>3, <1>7, <2>1
  <2> QED BY <1>7, <1>9, <2>1, <2>2
<1>11. ASSUME Tidy(list) PROVE Tidy(s)
  <2>1. \A i, k \in DOMAIN list : i < k => list[i].title < list[k].title
    BY <1>11 DEF Tidy
  <2>2. ASSUME NEW i \in DOMAIN p, NEW j \in DOMAIN p, i < j PROVE p[i].title < p[j].title
    <3>1. PICK k \in K, l \in K : k < l /\ p[i] = list[k] /\ p[j] = list[l]
      BY <1>2, <2>2
    <3> QED BY <1>4, <2>1, <3>1
  <2> QED BY <1>7, <1>9, <2>2 DEF Tidy
<1>12. ASSUME Tidy(list), NEW k \in DOMAIN list PROVE \E i \in DOMAIN s : s[i] = list[k]
  <2>1. list[k].whole /\ list[k].status \in Statuses /\ list[k] \in Records
    BY <1>12 DEF Tidy
  <2>2. PICK i \in DOMAIN p : p[i] = list[k]
    BY <1>2, <1>5, <2>1
  <2>3. s[i] = Normal(list[k])
    BY <1>7, <2>2
  <2>4. Normal(list[k]) = list[k]
    BY <2>1, NormalFacts
  <2> QED BY <1>7, <2>2, <2>3, <2>4
<1>13. Clean(s)
  BY <1>9 DEF Clean
<1> QED BY <1>10, <1>11, <1>12, <1>13 DEF s

\* The image of a finite set, by a function.
LEMMA ImageIsFinite ==
    ASSUME NEW S, IsFiniteSet(S), NEW f, DOMAIN f = S
    PROVE  IsFiniteSet({f[x] : x \in S})
<1> DEFINE T == {f[x] : x \in S}
           g == [x \in S |-> f[x]]
<1>1. g \in Surjection(S, T)
  BY DEF Surjection
<1> QED BY <1>1, FS_Surjection

Distinct(S) == \A m, n \in S : m.title = n.title => m = n

LEMMA FirstsAreDistinct ==
    ASSUME NEW list \in Seq(Records)
    PROVE  /\ FirstOfTitle(list) \subseteq Records
           /\ IsFiniteSet(FirstOfTitle(list)) /\ Distinct(FirstOfTitle(list))
           /\ Clean(list) => \A m \in FirstOfTitle(list) : m.whole /\ m.status \in Statuses
           /\ Tidy(list) => \A i \in DOMAIN list : list[i] \in FirstOfTitle(list)
<1> DEFINE K == {k \in DOMAIN list : \A j \in 1 .. k - 1 : list[j].title # list[k].title}
           F == FirstOfTitle(list)
<1>1. Len(list) \in Nat /\ DOMAIN list = 1 .. Len(list) /\ \A i \in DOMAIN list : list[i] \in Records
  OBVIOUS
<1>2. F = {list[i] : i \in K}
  BY DEF FirstOfTitle
<1>3. K \in SUBSET (DOMAIN list)
  OBVIOUS
<1>4. IsFiniteSet(K)
  <2>1. IsFiniteSet(1 .. Len(list))
    BY <1>1, FS_Interval
  <2> QED BY <1>1, <1>3, <2>1, FS_Subset
<1>5. ASSUME NEW i \in K, NEW k \in K, list[i].title = list[k].title PROVE i = k
  <2>1. i \in Nat /\ k \in Nat /\ 1 <= i /\ 1 <= k
    BY <1>1, <1>3
  <2>2. ~(i < k)
    <3> SUFFICES ASSUME i < k PROVE FALSE
      OBVIOUS
    <3>1. i \in 1 .. k - 1
      BY <2>1
    <3> QED BY <1>5, <3>1
  <2>3. ~(k < i)
    <3> SUFFICES ASSUME k < i PROVE FALSE
      OBVIOUS
    <3>1. k \in 1 .. i - 1
      BY <2>1
    <3> QED BY <1>5, <3>1
  <2> QED BY <2>1, <2>2, <2>3
<1>6. ASSUME Tidy(list), NEW i \in DOMAIN list PROVE i \in K
  <2> SUFFICES ASSUME NEW j \in 1 .. i - 1 PROVE list[j].title # list[i].title
    OBVIOUS
  <2>1. j \in DOMAIN list /\ j < i
    BY <1>1
  <2>2. list[j].title < list[i].title /\ list[j].title \in Nat /\ list[i].title \in Nat
    BY <1>1, <1>6, <2>1 DEF Tidy, Records
  <2> QED BY <2>2
<1> HIDE DEF K, F
<1>7. F \subseteq Records
  BY <1>1, <1>2, <1>3
<1>8. IsFiniteSet(F)
  <2> DEFINE g == [i \in K |-> list[i]]
  <2>1. DOMAIN g = K /\ F = {g[i] : i \in K}
    BY <1>2
  <2> HIDE DEF g
  <2> QED BY <1>4, <2>1, ImageIsFinite
<1>9. Distinct(F)
  BY <1>2, <1>5 DEF Distinct
<1>10. ASSUME Clean(list), NEW m \in F PROVE m.whole /\ m.status \in Statuses
  BY <1>2, <1>3, <1>10 DEF Clean
<1>11. Tidy(list) => \A i \in DOMAIN list : list[i] \in F
  BY <1>2, <1>6
<1> QED BY <1>7, <1>8, <1>9, <1>10, <1>11 DEF F

\* Merging adds what is new and changes nothing that was there.
LEMMA MergedKeeps ==
    ASSUME NEW a \in Seq(Records), NEW b \in Seq(Records)
    PROVE  /\ Merged(a, <<>>) = FirstOfTitle(a)
           /\ Merged(a, <<>>) \subseteq Merged(a, b)
           /\ a \o b \in Seq(Records)
           /\ Clean(a) /\ Clean(b) => Clean(a \o b)
<1> DEFINE c == a \o b
<1>1. /\ c \in Seq(Records) /\ Len(a) \in Nat /\ Len(b) \in Nat /\ Len(c) = Len(a) + Len(b)
      /\ DOMAIN a = 1 .. Len(a) /\ DOMAIN b = 1 .. Len(b) /\ DOMAIN c = 1 .. Len(c)
  BY ConcatProperties
<1>2. /\ \A i \in DOMAIN a : i \in DOMAIN c /\ c[i] = a[i]
      /\ \A i \in DOMAIN c : i \in DOMAIN a \/ (i - Len(a) \in DOMAIN b /\ c[i] = b[i - Len(a)])
  BY <1>1, ConcatProperties
<1>3. Merged(a, <<>>) = FirstOfTitle(a)
  BY ConcatEmptySeq DEF Merged
<1>4. Merged(a, b) = FirstOfTitle(c)
  BY DEF Merged
<1> HIDE DEF c
<1>5. FirstOfTitle(a) \subseteq FirstOfTitle(c)
  <2> SUFFICES ASSUME NEW i \in DOMAIN a,
                      \A j \in 1 .. i - 1 : a[j].title # a[i].title
               PROVE  a[i] \in FirstOfTitle(c)
    BY DEF FirstOfTitle
  <2>1. \A j \in 1 .. i - 1 : j \in DOMAIN a
    BY <1>1
  <2>2. \A j \in 1 .. i - 1 : c[j].title # c[i].title
    BY <1>2, <2>1
  <2> QED BY <1>2, <2>2 DEF FirstOfTitle
<1>6. Clean(a) /\ Clean(b) => Clean(c)
  BY <1>2 DEF Clean
<1> QED BY <1>1, <1>3, <1>4, <1>5, <1>6 DEF c

LEMMA SortedHasAll ==
    ASSUME NEW S \in SUBSET Records, IsFiniteSet(S), Distinct(S)
    PROVE  /\ Sorted(S) \in Seq(Records) /\ Range(Sorted(S)) = S
           /\ (\A m \in S : m.whole /\ m.status \in Statuses) => Tidy(Sorted(S))
<1> DEFINE T == {m.title : m \in S}
           n == Cardinality(T)
           at == Ascending(T)
           f == Sorted(S)
<1>1. IsFiniteSet(T)
  <2> DEFINE g == [m \in S |-> m.title]
  <2>1. DOMAIN g = S /\ T = {g[m] : m \in S}
    OBVIOUS
  <2> HIDE DEF g, T
  <2> QED BY <2>1, ImageIsFinite
<1>2. T \in SUBSET Nat
  BY DEF Records
<1>3. /\ n \in Nat /\ at \in [1 .. n -> T]
      /\ \A i, j \in 1 .. n : i < j => at[i] < at[j]
      /\ \A t \in T : \E i \in 1 .. n : at[i] = t
  BY <1>1, <1>2, AscendingIsOrder
<1>4. \A t \in T : \E m \in S : m.title = t
  OBVIOUS
<1>5. \A m \in S : m.title \in T
  OBVIOUS
<1>6. f = [i \in DOMAIN at |-> CHOOSE m \in S : m.title = at[i]]
  BY DEF Sorted
<1> HIDE DEF T, n, at, f
<1>7. DOMAIN f = 1 .. n /\ \A i \in 1 .. n : f[i] \in S /\ f[i].title = at[i]
  BY <1>3, <1>4, <1>6
<1>8. f \in Seq(Records)
  <2>1. f = [i \in 1 .. n |-> f[i]]
    BY <1>6, <1>7
  <2> QED BY <1>3, <1>7, <2>1
<1>9. \A m \in S : \E i \in DOMAIN f : f[i] = m
  BY <1>3, <1>5, <1>7 DEF Distinct
<1>10. Range(f) = S
  BY <1>7, <1>9 DEF Range
<1>11. (\A m \in S : m.whole /\ m.status \in Statuses) => Tidy(f)
  BY <1>3, <1>7 DEF Tidy
<1> QED BY <1>8, <1>10, <1>11 DEF f

\* What is written is tidy, and what was read is in it.
LEMMA ResultIsTidy ==
    ASSUME NEW a \in Seq(Records), NEW b \in Seq(Records), Clean(a), Clean(b)
    PROVE  /\ Sorted(Merged(a, b)) \in Seq(Records) /\ Tidy(Sorted(Merged(a, b)))
           /\ Merged(a, <<>>) \subseteq Range(Sorted(Merged(a, b)))
<1> DEFINE M == Merged(a, b)
<1>1. a \o b \in Seq(Records) /\ Clean(a \o b) /\ Merged(a, <<>>) \subseteq M
  BY MergedKeeps
<1>2. /\ M \in SUBSET Records /\ IsFiniteSet(M) /\ Distinct(M)
      /\ \A m \in M : m.whole /\ m.status \in Statuses
  BY <1>1, FirstsAreDistinct DEF Merged
<1> HIDE DEF M
<1>3. Sorted(M) \in Seq(Records) /\ Range(Sorted(M)) = M /\ Tidy(Sorted(M))
  BY <1>2, SortedHasAll
<1> QED BY <1>1, <1>3 DEF M

\* A tidy file holds what it lists.
LEMMA TidyContent ==
    ASSUME NEW list \in Seq(Records), Tidy(list)
    PROVE  Range(list) \subseteq Content(list)
<1> DEFINE s == Sanitized(list)
<1>1. s \in Seq(Records) /\ Tidy(s) /\ \A k \in DOMAIN list : \E i \in DOMAIN s : s[i] = list[k]
  BY SanitizedIsClean
<1>2. list # Missing
  BY FileAssumption
<1>3. Content(list) = Merged(s, <<>>)
  BY <1>2 DEF Content
<1> HIDE DEF s
<1>4. Merged(s, <<>>) = FirstOfTitle(s)
  BY <1>1, MergedKeeps
<1>5. \A i \in DOMAIN s : s[i] \in FirstOfTitle(s)
  BY <1>1, FirstsAreDistinct
<1> QED BY <1>1, <1>3, <1>4, <1>5 DEF Range

LEMMA FirstIsPart ==
    ASSUME NEW S, NEW list \in Seq(S), NEW n \in Nat
    PROVE  First(n, list) \in Seq(S) /\ Len(First(n, list)) = Least(n, Len(list))
<1>1. PICK k \in Nat : k = Least(n, Len(list))
  BY DEF Least
<1>2. k <= Len(list) /\ \A i \in 1 .. k : list[i] \in S
  BY <1>1 DEF Least
<1>3. First(n, list) = SubSeq(list, 1, k)
  BY <1>1 DEF First, Least
<1>4. SubSeq(list, 1, k) \in Seq(S) /\ Len(SubSeq(list, 1, k)) = IF 1 <= k THEN k - 1 + 1 ELSE 0
  BY <1>2, SubSeqProperties
<1> QED BY <1>1, <1>3, <1>4

LEMMA ReceivedIsRecords ==
    ASSUME NEW list \in Seq(Listed), NEW genre \in BOOLEAN
    PROVE  Received(list, genre) \in Seq(Records)
<1> DEFINE t == Titled(list)
<1>1. t \in Seq(Listed)
  <2> DEFINE K == {i \in DOMAIN list : list[i].titled}
  <2>1. K \in SUBSET (DOMAIN list) /\ t = Picked(list, K)
    BY DEF Titled
  <2> HIDE DEF K
  <2> QED BY <2>1, PickedIsPart
<1>2. Received(list, genre) = [i \in DOMAIN t |-> Entry(t[i], genre)]
  BY DEF Received
<1> HIDE DEF t
<1>3. \A m \in Listed : Entry(m, genre) \in Records
  BY DEF Entry, Listed, Records
<1>4. Len(t) \in Nat /\ DOMAIN t = 1 .. Len(t) /\ \A i \in DOMAIN t : t[i] \in Listed
  BY <1>1
<1> QED BY <1>2, <1>3, <1>4

\* The first of a title: positions are finitely many, so one of them is least.
LEMMA FirstOfAnyTitle ==
    ASSUME NEW list \in Seq(Records), NEW i \in DOMAIN list
    PROVE  \E m \in FirstOfTitle(list) : m.title = list[i].title
<1> DEFINE K == {k \in DOMAIN list : list[k].title = list[i].title}
           at == Ascending(K)
<1>1. PICK len \in Nat : len = Len(list) /\ DOMAIN list = 1 .. len
  OBVIOUS
<1>2. IsFiniteSet(K) /\ K \in SUBSET Nat
  <2>1. IsFiniteSet(1 .. len)
    BY FS_Interval
  <2> QED BY <1>1, <2>1, FS_Subset
<1>3. /\ Cardinality(K) \in Nat /\ at \in [1 .. Cardinality(K) -> K]
      /\ \A j, k \in 1 .. Cardinality(K) : j < k => at[j] < at[k]
      /\ \A k \in K : \E j \in 1 .. Cardinality(K) : at[j] = k
  BY <1>2, AscendingIsOrder
<1> HIDE DEF at
<1>4. 1 \in 1 .. Cardinality(K)
  <2>1. i \in K
    OBVIOUS
  <2> QED BY <1>3, <2>1
<1>5. PICK least \in K : \A k \in K : least <= k
  <2>1. at[1] \in K
    BY <1>3, <1>4
  <2>2. ASSUME NEW k \in K PROVE at[1] <= k
    <3>1. PICK j \in 1 .. Cardinality(K) : at[j] = k
      BY <1>3
    <3>2. j = 1 \/ 1 < j
      BY <1>3
    <3>3. at[1] \in Nat /\ k \in Nat
      BY <1>2, <2>1
    <3> QED BY <1>3, <1>4, <3>1, <3>2, <3>3
  <2> QED BY <2>1, <2>2
<1>6. \A j \in 1 .. least - 1 : list[j].title # list[least].title
  <2> SUFFICES ASSUME NEW j \in 1 .. least - 1, list[j].title = list[least].title PROVE FALSE
    OBVIOUS
  <2>1. j \in DOMAIN list /\ j < least
    BY <1>1
  <2>2. j \in K
    BY <2>1
  <2> QED BY <1>1, <1>5, <2>1, <2>2
<1> QED BY <1>5, <1>6 DEF FirstOfTitle

\* What is picked is no further back than it was.
LEMMA PickedIsEarly ==
    ASSUME NEW S, NEW list \in Seq(S), NEW K \in SUBSET (DOMAIN list)
    PROVE  /\ Len(Picked(list, K)) <= Len(list)
           /\ \A k \in K : Has(Picked(list, K), list[k], k)
<1> DEFINE n == Cardinality(K)
           at == Ascending(K)
           p == Picked(list, K)
           below(k) == {j \in K : j < k}
<1>1. PICK len \in Nat : len = Len(list) /\ DOMAIN list = 1 .. len
  OBVIOUS
<1>2. \A m \in Nat : IsFiniteSet(1 .. m) /\ Cardinality(1 .. m) = m
  <2>1. ASSUME NEW m \in Nat PROVE IsFiniteSet(1 .. m) /\ Cardinality(1 .. m) = m
    <3>1. 0 <= m /\ m - 1 + 1 = m
      OBVIOUS
    <3> QED BY <3>1, FS_Interval
  <2> QED BY <2>1
<1>3. IsFiniteSet(K) /\ n <= len /\ K \in SUBSET Nat
  BY <1>1, <1>2, FS_Subset
<1>4. /\ n \in Nat /\ at \in [1 .. n -> K]
      /\ \A k \in K : \E i \in 1 .. n : at[i] = k
      /\ \A i \in 1 .. n : Cardinality(below(at[i])) = i - 1
  BY <1>3, AscendingIsOrder
<1>5. ASSUME NEW k \in K PROVE Cardinality(below(k)) <= k - 1
  <2>1. k - 1 \in Nat /\ below(k) \in SUBSET (1 .. k - 1)
    BY <1>1
  <2> QED BY <1>2, <2>1, FS_Subset
<1>6. p = [i \in DOMAIN at |-> list[at[i]]]
  BY DEF Picked
<1>7. p \in Seq(S)
  BY PickedIsPart
<1> HIDE DEF n, at, p, below
<1>8. DOMAIN p = 1 .. n /\ Len(p) = n /\ \A i \in 1 .. n : p[i] = list[at[i]]
  BY <1>4, <1>6, <1>7
<1>9. ASSUME NEW k \in K PROVE Has(p, list[k], k)
  <2>1. PICK i \in 1 .. n : at[i] = k
    BY <1>4
  <2>2. i - 1 <= k - 1 /\ k \in Nat
    BY <1>3, <1>4, <1>5, <2>1
  <2>3. i <= k /\ p[i] = list[k]
    BY <1>4, <1>8, <2>1, <2>2
  <2> QED BY <1>8, <2>3 DEF Has
<1> QED BY <1>1, <1>3, <1>8, <1>9 DEF p

LEMMA ReceivedHas ==
    ASSUME NEW list \in Seq(Listed), NEW genre \in BOOLEAN
    PROVE  /\ Len(Received(list, genre)) <= Len(list)
           /\ \A k \in DOMAIN list :
                list[k].titled => Has(Received(list, genre), Entry(list[k], genre), k)
<1> DEFINE K == {i \in DOMAIN list : list[i].titled}
           t == Titled(list)
           r == Received(list, genre)
<1>1. K \in SUBSET (DOMAIN list) /\ t = Picked(list, K)
  BY DEF Titled
<1>2. \A k \in DOMAIN list : list[k].titled => k \in K
  OBVIOUS
<1>3. r = [i \in DOMAIN t |-> Entry(t[i], genre)]
  BY DEF Received
<1> HIDE DEF K, t, r
<1>4. t \in Seq(Listed) /\ Len(t) <= Len(list) /\ \A k \in K : Has(t, list[k], k)
  BY <1>1, PickedIsPart, PickedIsEarly
<1>5. Len(r) = Len(t) /\ DOMAIN r = DOMAIN t /\ \A i \in DOMAIN t : r[i] = Entry(t[i], genre)
  <2>1. r \in Seq(Records)
    BY ReceivedIsRecords DEF r
  <2> QED BY <1>3, <1>4, <2>1
<1>6. ASSUME NEW k \in K PROVE Has(r, Entry(list[k], genre), k)
  BY <1>4, <1>5 DEF Has
<1> QED BY <1>2, <1>4, <1>5, <1>6 DEF r

\* What a list has early it has still when more comes, and when it is cut later.
LEMMA HasMore ==
    ASSUME NEW S, NEW a \in Seq(S), NEW b \in Seq(S), NEW m, NEW n \in Nat
    PROVE  /\ Has(a, m, n) => Has(a \o b, m, n)
           /\ \A s \in Nat : Has(b, m, n) /\ Len(a) <= s => Has(a \o b, m, s + n)
<1> DEFINE c == a \o b
<1>1. /\ Len(a) \in Nat /\ Len(b) \in Nat /\ DOMAIN a = 1 .. Len(a) /\ DOMAIN b = 1 .. Len(b)
      /\ DOMAIN c = 1 .. Len(a) + Len(b)
  BY ConcatProperties
<1>2. /\ \A i \in DOMAIN a : c[i] = a[i]
      /\ \A i \in DOMAIN b : c[Len(a) + i] = b[i]
  <2>1. \A i \in 1 .. Len(a) + Len(b) : c[i] = IF i <= Len(a) THEN a[i] ELSE b[i - Len(a)]
    BY ConcatProperties
  <2> QED BY <1>1, <2>1
<1> HIDE DEF c
<1>3. ASSUME Has(a, m, n) PROVE Has(c, m, n)
  BY <1>1, <1>2, <1>3 DEF Has
<1>4. ASSUME NEW s \in Nat, Has(b, m, n), Len(a) <= s PROVE Has(c, m, s + n)
  <2>1. PICK i \in DOMAIN b : i <= n /\ b[i] = m
    BY <1>4 DEF Has
  <2>2. Len(a) + i \in DOMAIN c /\ Len(a) + i <= s + n
    BY <1>1, <1>4, <2>1
  <2> QED BY <1>2, <2>1, <2>2 DEF Has
<1> QED BY <1>3, <1>4 DEF c

LEMMA FirstAgrees ==
    ASSUME NEW S, NEW list \in Seq(S), NEW n \in Nat, NEW k \in DOMAIN list, k <= n
    PROVE  k \in DOMAIN First(n, list) /\ First(n, list)[k] = list[k]
<1>1. PICK to \in Nat : to = Least(n, Len(list)) /\ to <= Len(list)
  BY DEF Least
<1>2. First(n, list) = SubSeq(list, 1, to)
  BY <1>1 DEF First, Least
<1>3. 1 <= k /\ k <= to
  BY <1>1 DEF Least
<1>4. \A j \in 1 .. to : list[j] \in S
  BY <1>1
<1>5. /\ SubSeq(list, 1, to) \in Seq(S) /\ Len(SubSeq(list, 1, to)) = to
      /\ SubSeq(list, 1, to)[k] = list[k]
  BY <1>3, <1>4, SubSeqProperties
<1> QED BY <1>2, <1>3, <1>5

LEMMA FirstHas ==
    ASSUME NEW S, NEW list \in Seq(S), NEW n \in Nat, NEW m, NEW k \in Nat, k <= n,
           Has(list, m, k)
    PROVE  \E i \in DOMAIN First(n, list) : First(n, list)[i] = m
<1>1. PICK i \in DOMAIN list : i <= k /\ list[i] = m
  BY DEF Has
<1>2. i <= n
  BY <1>1
<1> QED BY <1>1, <1>2, FirstAgrees

\* What is written has a manga of every title that was read or is new, and no
\* more manga than were read and are new.
LEMMA ResultHasTitles ==
    ASSUME NEW a \in Seq(Records), NEW new \in Seq(Records), Clean(a)
    PROVE  /\ Len(Sorted(Merged(a, Sanitized(new)))) <= Len(a) + Len(new)
           /\ \A i \in DOMAIN new : new[i].whole =>
                \E m \in Range(Sorted(Merged(a, Sanitized(new)))) : m.title = new[i].title
<1> DEFINE K == {i \in DOMAIN new : new[i].whole}
           p == Picked(new, K)
<1>1. PICK b \in Seq(Records) : b = Sanitized(new) /\ Clean(b)
  BY SanitizedIsClean
<1>2. Len(b) <= Len(new) /\ \A i \in DOMAIN new : new[i].whole => \E j \in DOMAIN b : b[j].title = new[i].title
  <2>1. K \in SUBSET (DOMAIN new) /\ \A i \in DOMAIN new : new[i].whole => i \in K
    OBVIOUS
  <2>2. b = [i \in DOMAIN p |-> Normal(p[i])]
    BY <1>1 DEF Sanitized, Sanitized_KeepsAll
  <2> HIDE DEF K, p
  <2>3. p \in Seq(Records) /\ Len(p) <= Len(new) /\ \A k \in K : Has(p, new[k], k)
    BY <2>1, PickedIsPart, PickedIsEarly DEF p
  <2>4. Len(b) = Len(p) /\ DOMAIN b = DOMAIN p /\ \A j \in DOMAIN p : b[j].title = p[j].title
    BY <2>2, <2>3, NormalFacts
  <2> QED BY <2>1, <2>3, <2>4 DEF Has
<1>3. PICK c \in Seq(Records) : /\ c = a \o b /\ Len(c) = Len(a) + Len(b)
                                /\ \A j \in DOMAIN b : \E i \in DOMAIN c : c[i] = b[j]
  <2>1. /\ a \o b \in Seq(Records) /\ Len(a \o b) = Len(a) + Len(b)
        /\ \A i \in 1 .. Len(a) + Len(b) : (a \o b)[i] = IF i <= Len(a) THEN a[i] ELSE b[i - Len(a)]
    BY ConcatProperties
  <2>2. ASSUME NEW j \in DOMAIN b PROVE Len(a) + j \in DOMAIN (a \o b) /\ (a \o b)[Len(a) + j] = b[j]
    BY <2>1
  <2> QED BY <2>1, <2>2
<1> DEFINE M == FirstOfTitle(c)
           T == {m.title : m \in M}
           result == Sorted(M)
<1>4. M \in SUBSET Records /\ IsFiniteSet(M) /\ Distinct(M)
  BY FirstsAreDistinct
<1>5. result \in Seq(Records) /\ Range(result) = M /\ Len(result) = Cardinality(T)
  <2>1. result \in Seq(Records) /\ Range(result) = M
    BY <1>4, SortedHasAll
  <2>2. IsFiniteSet(T)
    <3> DEFINE g == [m \in M |-> m.title]
    <3>1. DOMAIN g = M /\ T = {g[m] : m \in M}
      OBVIOUS
    <3> HIDE DEF g, T, M
    <3> QED BY <1>4, <3>1, ImageIsFinite
  <2>3. T \in SUBSET Nat
    BY <1>4 DEF Records
  <2>4. Cardinality(T) \in Nat /\ DOMAIN Ascending(T) = 1 .. Cardinality(T)
    BY <2>2, <2>3, AscendingIsOrder
  <2>5. DOMAIN result = DOMAIN Ascending(T)
    BY DEF Sorted
  <2> HIDE DEF result, T
  <2> QED BY <2>1, <2>4, <2>5
<1>6. Cardinality(T) <= Len(c)
  <2> DEFINE t == [i \in 1 .. Len(c) |-> c[i].title]
             U == {t[i] : i \in 1 .. Len(c)}
  <2>1. PICK len \in Nat : len = Len(c)
    OBVIOUS
  <2>2. IsFiniteSet(1 .. len) /\ Cardinality(1 .. len) = len
    <3>1. 0 <= len /\ len - 1 + 1 = len
      OBVIOUS
    <3> QED BY <3>1, FS_Interval
  <2>3. t \in Surjection(1 .. len, U)
    BY <2>1 DEF Surjection
  <2>4. T \subseteq U
    BY <2>1 DEF FirstOfTitle
  <2> HIDE DEF t, U, T
  <2>5. IsFiniteSet(U) /\ Cardinality(U) <= len
    BY <2>2, <2>3, FS_Surjection
  <2>6. Cardinality(T) <= Cardinality(U) /\ Cardinality(T) \in Nat /\ Cardinality(U) \in Nat
    BY <2>4, <2>5, FS_Subset, FS_CardinalityType
  <2> QED BY <2>1, <2>5, <2>6
<1>7. \A i \in DOMAIN c : \E m \in M : m.title = c[i].title
  BY FirstOfAnyTitle
<1>8. Sorted(Merged(a, Sanitized(new))) = result
  BY <1>1, <1>3 DEF Merged
<1> HIDE DEF M, result, T
<1>9. Len(result) <= Len(a) + Len(new)
  <2>1. Len(a) \in Nat /\ Len(b) \in Nat /\ Len(new) \in Nat /\ Len(result) \in Nat
    BY <1>5
  <2> QED BY <1>2, <1>3, <1>5, <1>6, <2>1
<1>10. ASSUME NEW i \in DOMAIN new, new[i].whole
       PROVE  \E m \in Range(result) : m.title = new[i].title
  <2>1. PICK j \in DOMAIN b : b[j].title = new[i].title
    BY <1>2, <1>10
  <2>2. PICK k \in DOMAIN c : c[k] = b[j]
    BY <1>3
  <2>3. PICK m \in M : m.title = c[k].title
    BY <1>7
  <2> QED BY <1>5, <2>1, <2>2, <2>3
<1> QED BY <1>8, <1>9, <1>10

-----------------------------------------------------------------------------
(* Its steps.                                                              *)

LEMMA Amounts ==
    ASSUME RunInv, NEW c \in Collectors
    PROVE  /\ Groups \in Nat \ {0} /\ PageSize \in Nat \ {0}
           /\ Requested(c) \in Nat \ {0} /\ PerGroup(c) \in Nat \ {0} /\ PageCount(c) \in Nat
<1>1. Groups \in Nat \ {0} /\ PageSize \in Nat \ {0} /\ DefaultLimit \in Nat \ {0} /\ DefaultGroup \in Nat \ {0}
  <2>1. Groups \in Nat
    BY SourcesAssumption DEF Groups
  <2> QED BY <2>1, SizeAssumption, GroupAssumption
<1>2. run[c].limit \in Int
  BY DEF RunInv, RunRecords
<1>3. Requested(c) \in Nat \ {0}
  BY <1>1, <1>2 DEF Requested
<1>4. PerGroup(c) \in Nat \ {0}
  BY <1>1, <1>3 DEF PerGroup
<1>5. PageCount(c) \in Nat
  BY <1>1, <1>3 DEF PageCount
<1> QED BY <1>1, <1>3, <1>4, <1>5

\* Where one run moves the others are where they were.
LEMMA OneMoves ==
    ASSUME ColInv, NEW c \in Collectors,
           run' \in [Collectors -> RunRecords],
           \A d \in Collectors : d # c => run'[d] = run[d],
           RunOf(c)', HeardOf(c)'
    PROVE  RunInv'
<1>1. ASSUME NEW d \in Collectors, d # c PROVE RunOf(d)' /\ HeardOf(d)'
  <2>1. RunOf(d) /\ HeardOf(d) /\ run'[d] = run[d]
    BY <1>1 DEF ColInv, RunInv
  <2>2. PageCount(d)' = PageCount(d) /\ PerGroup(d)' = PerGroup(d)
    BY <2>1 DEF PageCount, PerGroup, Requested
  <2>3. Takes(d) => Takes(d)'
    BY <2>1, <2>2 DEF Takes, HasTitle, Requested
  <2> QED BY <2>1, <2>2, <2>3 DEF RunOf, HeardOf
<1> QED BY <1>1 DEF RunInv

\* A step that does not touch the file leaves what it holds, and what others
\* have read of it.
LEMMA FileUntouched ==
    ASSUME ColInv, NEW c \in Collectors,
           \A d \in Collectors : d # c => run'[d] = run[d],
           UNCHANGED <<file, lossy, kept>>,
           run[c].stage # "writing", run'[c].stage # "writing",
           run'[c].stage \in Loaded =>
                \/ run[c].stage \in Loaded /\ run'[c].base = run[c].base
                \/ ~lossy => ~Writing /\ kept \subseteq Merged(run'[c].base, <<>>)
    PROVE  FileInv' /\ KeptInv'
<1>1. FileInv'
  BY DEF ColInv, FileInv
<1>2. KeptInv'
  <2> SUFFICES ASSUME ~lossy PROVE KeptInv'
    BY DEF KeptInv
  <2>1. ~Writing => kept \subseteq Content(file)
    BY DEF ColInv, KeptInv
  <2>2. Writing' <=> Writing
    BY DEF Writing
  <2>3. Content(file)' = Content(file)
    OBVIOUS
  <2>4. ASSUME NEW d \in Collectors, run'[d].stage \in Loaded
        PROVE  kept \subseteq Merged(run'[d].base, <<>>)
    <3>1. CASE d = c
      <4>1. CASE run[c].stage \in Loaded /\ run'[c].base = run[c].base
        BY <3>1, <4>1 DEF ColInv, KeptInv
      <4>2. CASE kept \subseteq Merged(run'[c].base, <<>>)
        BY <3>1, <4>2
      <4> QED BY <2>4, <3>1, <4>1, <4>2
    <3>2. CASE d # c
      <4>1. run[d].stage \in Loaded /\ run'[d].base = run[d].base
        BY <2>4, <3>2
      <4> QED BY <4>1 DEF ColInv, KeptInv
    <3> QED BY <3>1, <3>2
  <2>5. ASSUME NEW d \in Collectors, run'[d].stage = "writing"
        PROVE  file = Empty /\ Alone(d)' /\ kept \subseteq Range(run'[d].result)
    <3>1. d # c /\ run'[d] = run[d] /\ Writing
      BY <2>5 DEF Writing
    <3>2. file = Empty /\ Alone(d) /\ kept \subseteq Range(run[d].result)
      BY <2>5, <3>1 DEF ColInv, KeptInv
    <3>3. run[c].stage \notin Loaded
      BY <3>1, <3>2 DEF Alone
    <3>4. run'[c].stage \notin Loaded
      BY <3>1, <3>3
    <3>5. Alone(d)'
      <4> SUFFICES ASSUME NEW e \in Collectors \ {d} PROVE run'[e].stage \notin Loaded
        BY DEF Alone, Loaded
      <4> QED BY <3>2, <3>4 DEF Alone
    <3> QED BY <3>1, <3>2, <3>5
  <2> QED BY <2>1, <2>2, <2>3, <2>4, <2>5 DEF KeptInv
<1> QED BY <1>1, <1>2

LEMMA NothingYet == HasPages(<<>>, 0) /\ \A per : HasGroups(<<>>, 1, per)
<1>1. DOMAIN Jikan \subseteq Nat \ {0} /\ Groups \in Nat /\ Len(<<>>) = 0
  BY SourcesAssumption DEF Groups
<1>2. HasPages(<<>>, 0)
  <2>1. \A k \in DOMAIN Jikan : ~(k <= 0)
    BY <1>1
  <2>2. Len(<<>>) <= 0
    BY <1>1
  <2> QED BY <2>1, <2>2 DEF HasPages
<1>3. \A per : HasGroups(<<>>, 1, per)
  <2>1. \A g \in 1 .. Groups : ~(g < 1)
    BY <1>1
  <2> QED BY <2>1 DEF HasGroups
<1> QED BY <1>2, <1>3

LEMMA RunTypes ==
    ASSUME NEW stage \in RunStages, NEW from \in SourceNames, NEW most \in Int
    PROVE  Run(stage, from, most) \in RunRecords
<1>1. <<>> \in Seq(Records)
  OBVIOUS
<1>2. PICK none \in Seq(Records) : none = <<>>
  BY <1>1
<1>3. Run(stage, from, most) =
        [stage |-> stage, source |-> from, limit |-> most, base |-> none, at |-> 1,
         items |-> none, result |-> none]
  BY <1>2 DEF Run
<1> QED BY <1>3 DEF RunRecords

LEMMA InitCol == CollectorInit => ColInv
<1> SUFFICES ASSUME CollectorInit PROVE ColInv
  OBVIOUS
<1>1. Run("idle", "", 0) \in RunRecords
  <2>1. "idle" \in RunStages /\ "" \in SourceNames /\ 0 \in Int
    BY DEF RunStages, SourceNames
  <2> QED BY <2>1, RunTypes
<1>2. run = [c \in Collectors |-> Run("idle", "", 0)]
  BY DEF CollectorInit
<1>3. run \in [Collectors -> RunRecords]
  BY <1>1, <1>2
<1>4. \A c \in Collectors : run[c].stage = "idle" /\ run[c].at = 1 /\ run[c].items = <<>> /\ run[c].base = <<>> /\ run[c].limit = 0
  BY <1>2 DEF Run
<1>5. ASSUME NEW c \in Collectors PROVE RunOf(c) /\ HeardOf(c)
  <2>1. Groups \in Nat /\ Requested(c) = DefaultLimit /\ PageCount(c) \in Nat
    <3>1. Groups \in Nat
      BY SourcesAssumption DEF Groups
    <3>2. Requested(c) = DefaultLimit
      BY <1>4 DEF Requested
    <3> QED BY <3>1, <3>2, SizeAssumption DEF PageCount
  <2>2. run[c].at \in 1 .. Groups + PageCount(c) + 1
    BY <1>4, <2>1
  <2>3. Clean(run[c].base)
    BY <1>4 DEF Clean
  <2> QED BY <1>4, <2>2, <2>3 DEF RunOf, HeardOf
<1>6. FileInv
  BY DEF CollectorInit, FileInv
<1>7. KeptInv
  BY <1>4 DEF CollectorInit, KeptInv, Loaded
<1> QED BY <1>3, <1>5, <1>6, <1>7 DEF ColInv, RunInv

\* A run that has no list to fetch, or none any more.
LEMMA Resting ==
    ASSUME ColInv, NEW c \in Collectors, NEW stage \in {"failed", "done"},
           run' = [run EXCEPT ![c].stage = stage]
    PROVE  RunInv'
<1>1. run[c] \in RunRecords /\ RunOf(c) /\ HeardOf(c)
  BY DEF ColInv, RunInv
<1>2. run' \in [Collectors -> RunRecords]
  BY DEF ColInv, RunInv, RunRecords, RunStages
<1>3. /\ run'[c].stage = stage /\ run'[c].at = run[c].at /\ run'[c].limit = run[c].limit
      /\ run'[c].base = run[c].base
  BY <1>1 DEF ColInv, RunInv, RunRecords
<1>4. PageCount(c)' = PageCount(c)
  BY <1>3 DEF PageCount, Requested
<1>5. RunOf(c)' /\ HeardOf(c)'
  BY <1>1, <1>3, <1>4 DEF RunOf, HeardOf
<1>6. \A d \in Collectors : d # c => run'[d] = run[d]
  BY DEF ColInv, RunInv
<1> QED BY <1>2, <1>5, <1>6, OneMoves

LEMMA BeginInv == ASSUME ColInv, NEW c \in Collectors, Begin(c) PROVE ColInv'
<1>1. PICK from \in Sources, most \in Limits :
        run' = [run EXCEPT ![c] = Run("load", from, most)]
  BY DEF Begin, Options
<1>2. most \in Int
  BY LimitAssumption
<1> DEFINE r == Run("load", from, most)
<1>3. /\ r \in RunRecords /\ r.stage = "load" /\ r.at = 1 /\ r.items = <<>> /\ r.base = <<>>
      /\ run'[c] = r /\ run' \in [Collectors -> RunRecords]
      /\ \A d \in Collectors : d # c => run'[d] = run[d]
  <2>1. r \in RunRecords
    <3>1. from \in SourceNames /\ "load" \in RunStages
      BY DEF RunStages, SourceNames
    <3> QED BY <1>2, <3>1, RunTypes
  <2>2. r.stage = "load" /\ r.at = 1 /\ r.items = <<>> /\ r.base = <<>>
    BY DEF Run
  <2>4. run' = [run EXCEPT ![c] = r]
    BY <1>1
  <2> HIDE DEF r
  <2> QED BY <2>1, <2>2, <2>4 DEF ColInv, RunInv
<1> HIDE DEF r
<1>4. RunOf(c)' /\ HeardOf(c)'
  <2>1. Groups \in Nat /\ PageSize \in Nat \ {0} /\ DefaultLimit \in Nat \ {0}
    BY SourcesAssumption, SizeAssumption DEF Groups
  <2>2. Requested(c)' \in Nat \ {0}
    <3>1. run'[c].limit \in Int
      BY <1>3 DEF RunRecords
    <3> QED BY <2>1, <3>1 DEF Requested
  <2>3. PageCount(c)' \in Nat
    BY <2>1, <2>2 DEF PageCount
  <2>4. Clean(r.base)
    BY <1>3 DEF Clean
  <2>5. RunOf(c)'
    BY <1>3, <2>1, <2>3, <2>4 DEF RunOf
  <2>6. run'[c].stage = "load"
    BY <1>3
  <2> QED BY <2>5, <2>6 DEF HeardOf
<1>5. RunInv'
  BY <1>3, <1>4, OneMoves
<1>6. FileInv' /\ KeptInv'
  BY <1>3, FileUntouched DEF Begin, Loaded
<1> QED BY <1>5, <1>6 DEF ColInv

LEMMA LoadInv == ASSUME ColInv, NEW c \in Collectors, Load(c) PROVE ColInv'
<1>1. PICK base \in Seq(Records) : base = IF file = Missing THEN <<>> ELSE Sanitized(file)
  <2>1. (IF file = Missing THEN <<>> ELSE Sanitized(file)) \in Seq(Records)
    <3>1. CASE file = Missing
      BY <3>1
    <3>2. CASE file # Missing
      <4>1. file \in Seq(Records)
        BY <3>2, FileAssumption DEF ColInv, FileInv, Load
      <4> QED BY <3>2, <4>1, SanitizedIsClean
    <3> QED BY <3>1, <3>2
  <2> QED BY <2>1
<1>2. Clean(base) /\ Content(file) = Merged(base, <<>>)
  <2>1. CASE file = Missing
    <3>1. base = <<>>
      BY <1>1, <2>1
    <3>2. Merged(base, <<>>) = FirstOfTitle(base)
      BY MergedKeeps
    <3>3. FirstOfTitle(base) = {}
      BY <3>1 DEF FirstOfTitle
    <3> QED BY <2>1, <3>1, <3>2, <3>3 DEF Clean, Content
  <2>2. CASE file # Missing
    <3>1. file \in Seq(Records)
      BY <2>2, FileAssumption DEF ColInv, FileInv, Load
    <3> QED BY <1>1, <2>2, <3>1, SanitizedIsClean DEF Content
  <2> QED BY <2>1, <2>2
<1>3. PICK stage \in {"mangadex", "jikan", "failed"} :
        /\ run' = [run EXCEPT ![c].base = base, ![c].stage = stage]
        /\ stage \in {"mangadex", "jikan"} => stage = run[c].source
  BY <1>1 DEF Load
<1>4. run[c] \in RunRecords /\ RunOf(c) /\ run[c].stage = "load"
  BY DEF ColInv, RunInv, Load
<1>5. /\ run' \in [Collectors -> RunRecords]
      /\ run'[c].stage = stage /\ run'[c].base = base /\ run'[c].at = run[c].at
      /\ run'[c].limit = run[c].limit /\ run'[c].items = run[c].items
      /\ run'[c].source = run[c].source
      /\ \A d \in Collectors : d # c => run'[d] = run[d]
  BY <1>3, <1>4 DEF ColInv, RunInv, RunRecords, RunStages, Loaded
<1>6. RunOf(c)' /\ HeardOf(c)'
  <2>1. /\ PageCount(c)' = PageCount(c) /\ PerGroup(c)' = PerGroup(c)
        /\ run'[c].at = 1 /\ run'[c].items = <<>>
    BY <1>4, <1>5 DEF PageCount, PerGroup, Requested, RunOf
  <2>2. PerGroup(c) \in Nat /\ Groups \in Nat \ {0} /\ PageCount(c) \in Nat
    BY Amounts DEF ColInv
  <2>3. RunOf(c)'
    BY <1>2, <1>4, <1>5, <2>1 DEF RunOf
  <2>4. PICK per \in Nat : per = PerGroup(c)
    BY <2>2
  <2>5. HeardOf(c)'
    <3>1. /\ HasPages(run'[c].items, 0) /\ HasGroups(run'[c].items, run'[c].at, PerGroup(c)')
          /\ Len(run'[c].items) <= 0
      BY <2>1, NothingYet
    <3>5. (run'[c].at - 1) * PageSize = 0 /\ (run'[c].at - 1) * PerGroup(c)' = 0
      <4>1. PICK size \in Nat : size = PageSize
        BY SizeAssumption
      <4>2. (1 - 1) * size = 0 /\ (1 - 1) * per = 0
        OBVIOUS
      <4> QED BY <2>1, <2>4, <4>1, <4>2
    <3>2. 1 <= PageCount(c)' + 1 /\ 1 <= Groups + 1
      BY <2>1, <2>2
    <3>3. run'[c].stage \in {"mangadex", "jikan"} => run'[c].source = run'[c].stage
      BY <1>3, <1>5
    <3>4. run'[c].stage # "writing"
      BY <1>5
    <3> QED BY <2>1, <3>1, <3>2, <3>3, <3>4, <3>5 DEF HeardOf
  <2> QED BY <2>3, <2>5
<1>7. RunInv'
  BY <1>5, <1>6, OneMoves
<1>8. FileInv' /\ KeptInv'
  <2>1. ~lossy => ~Writing
    BY DEF ColInv, KeptInv, Writing, Load
  <2>2. ~lossy => kept \subseteq Merged(base, <<>>)
    BY <1>2, <2>1 DEF ColInv, KeptInv
  <2> QED BY <1>4, <1>5, <2>1, <2>2, FileUntouched DEF Load
<1> QED BY <1>7, <1>8 DEF ColInv

\* What one page or one demographic adds.
LEMMA ReceiveMoves ==
    ASSUME ColInv, NEW c \in Collectors, NEW list \in Seq(Listed), NEW genre \in BOOLEAN,
           Receive(c, list, genre)
    PROVE  /\ run' \in [Collectors -> RunRecords]
           /\ run'[c].stage = run[c].stage /\ run'[c].at = run[c].at + 1
           /\ run'[c].items = run[c].items \o Received(list, genre)
           /\ run'[c].base = run[c].base /\ run'[c].limit = run[c].limit
           /\ run'[c].source = run[c].source
           /\ \A d \in Collectors : d # c => run'[d] = run[d]
<1>1. run \in [Collectors -> RunRecords]
  BY DEF ColInv, RunInv
<1>2. PICK more \in Seq(Records) : more = Received(list, genre)
  BY ReceivedIsRecords
<1>3. PICK next \in [Collectors -> RunRecords] :
        next = [run EXCEPT ![c].items = @ \o more, ![c].at = @ + 1]
  <2> DEFINE next == [run EXCEPT ![c].items = @ \o more, ![c].at = @ + 1]
  <2>1. run[c].items \o more \in Seq(Records)
    BY <1>1, <1>2, ConcatProperties DEF RunRecords
  <2>2. run[c].at + 1 \in Nat
    BY <1>1 DEF RunRecords
  <2>3. next \in [Collectors -> RunRecords]
    BY <1>1, <2>1, <2>2 DEF RunRecords
  <2> QED BY <2>3
<1> QED BY <1>1, <1>2, <1>3 DEF Receive, RunRecords

\* It may be taken if the run stays within its bounds.
LEMMA ReceiveInv ==
    ASSUME ColInv, NEW c \in Collectors, NEW list \in Seq(Listed), NEW genre \in BOOLEAN,
           Receive(c, list, genre), run[c].stage \in {"mangadex", "jikan"},
           run[c].at <= Groups + PageCount(c),
           HeardOf(c)'
    PROVE  ColInv'
<1>1. /\ run' \in [Collectors -> RunRecords]
      /\ run'[c].stage = run[c].stage /\ run'[c].at = run[c].at + 1
      /\ run'[c].base = run[c].base /\ run'[c].limit = run[c].limit
      /\ \A d \in Collectors : d # c => run'[d] = run[d]
  BY ReceiveMoves
<1>2. RunOf(c)'
  <2>1. PageCount(c)' = PageCount(c) /\ RunOf(c) /\ PageCount(c) \in Nat /\ Groups \in Nat
    BY <1>1, Amounts DEF PageCount, Requested, ColInv, RunInv
  <2>2. run[c].at + 1 \in 1 .. Groups + PageCount(c) + 1
    BY <2>1 DEF RunOf
  <2> QED BY <1>1, <2>1, <2>2 DEF RunOf
<1>3. RunInv'
  BY <1>1, <1>2, OneMoves
<1>4. FileInv' /\ KeptInv'
  BY <1>1, FileUntouched DEF Receive, Loaded
<1> QED BY <1>3, <1>4 DEF ColInv

\* A run that has what was listed up to a place has it when more comes.
LEMMA ReceiveHas ==
    ASSUME ColInv, NEW c \in Collectors, NEW list \in Seq(Listed), NEW genre \in BOOLEAN,
           NEW s \in Nat, Len(run[c].items) <= s, Receive(c, list, genre)
    PROVE  /\ Len(run'[c].items) <= s + Len(list)
           /\ \A m : \A n \in Nat : Has(run[c].items, m, n) => Has(run'[c].items, m, n)
           /\ \A k \in DOMAIN list :
                list[k].titled => Has(run'[c].items, Entry(list[k], genre), s + k)
<1>1. PICK items \in Seq(Records), more \in Seq(Records) :
        items = run[c].items /\ more = Received(list, genre)
  <2>1. run[c].items \in Seq(Records)
    BY DEF ColInv, RunInv, RunRecords
  <2> QED BY <2>1, ReceivedIsRecords
<1>2. run'[c].items = items \o more
  BY <1>1, ReceiveMoves
<1>3. Len(more) <= Len(list) /\ Len(items \o more) = Len(items) + Len(more)
  BY <1>1, ReceivedHas, ConcatProperties
<1>4. Len(run'[c].items) <= s + Len(list)
  BY <1>1, <1>2, <1>3
<1>5. ASSUME NEW m, NEW n \in Nat, Has(items, m, n) PROVE Has(items \o more, m, n)
  BY <1>5, HasMore
<1>6. ASSUME NEW k \in DOMAIN list, list[k].titled
      PROVE  Has(items \o more, Entry(list[k], genre), s + k)
  <2>1. Has(more, Entry(list[k], genre), k)
    BY <1>1, <1>6, ReceivedHas
  <2>2. k \in Nat
    OBVIOUS
  <2> QED BY <1>1, <2>1, <2>2, HasMore
<1> QED BY <1>1, <1>2, <1>4, <1>5, <1>6

LEMMA FetchGroupInv == ASSUME ColInv, NEW c \in Collectors, FetchGroup(c) PROVE ColInv'
<1>1. /\ run[c].stage = "mangadex" /\ run[c].at <= Groups /\ RunOf(c) /\ HeardOf(c)
      /\ run[c].at \in Nat
  BY DEF FetchGroup, ColInv, RunInv, RunRecords
<1>2. Groups \in Nat /\ PerGroup(c) \in Nat \ {0} /\ PageCount(c) \in Nat
  BY Amounts DEF ColInv
<1>3. PICK at \in 1 .. Groups, per \in Nat : at = run[c].at /\ per = PerGroup(c)
  BY <1>1, <1>2 DEF RunOf
<1>4. MangaDex[at] \in Seq(Listed)
  BY SourcesAssumption DEF Groups
<1>5. PICK list \in Seq(Listed) :
        /\ list = Group(c) /\ Len(list) <= per
        /\ \A k \in DOMAIN MangaDex[at] : k <= per => k \in DOMAIN list /\ list[k] = MangaDex[at][k]
  <2>1. PICK all \in Seq(Listed) : all = MangaDex[at]
    BY <1>4
  <2>2. Group(c) = First(per, all)
    BY <1>3, <2>1 DEF Group
  <2>3. First(per, all) \in Seq(Listed) /\ Len(First(per, all)) <= per
    BY FirstIsPart DEF Least
  <2>4. ASSUME NEW k \in DOMAIN all, k <= per
        PROVE  k \in DOMAIN First(per, all) /\ First(per, all)[k] = all[k]
    BY <2>4, FirstAgrees
  <2> QED BY <2>1, <2>2, <2>3, <2>4
<1>6. Receive(c, list, TRUE)
  BY <1>5 DEF FetchGroup
<1>7. /\ run'[c].stage = run[c].stage /\ run'[c].at = run[c].at + 1
      /\ run'[c].limit = run[c].limit /\ run'[c].source = run[c].source
  BY <1>6, ReceiveMoves
<1>8. PICK s \in Nat : s = (at - 1) * per /\ (at + 1 - 1) * per = s + per
  <2>1. (at - 1) * per \in Nat /\ (at + 1 - 1) * per = (at - 1) * per + per
    BY <1>2
  <2> QED BY <2>1
<1>9. PICK items : items = run[c].items
  OBVIOUS
<1>10. PICK items1 : items1 = run'[c].items
  OBVIOUS
<1>11. run[c].source = "mangadex" /\ Len(items) <= s /\ HasGroups(items, at, per)
  BY <1>1, <1>3, <1>8, <1>9 DEF HeardOf
<1>12. /\ Len(items1) <= s + Len(list)
       /\ \A m : \A n \in Nat : Has(items, m, n) => Has(items1, m, n)
       /\ \A k \in DOMAIN list : list[k].titled => Has(items1, Entry(list[k], TRUE), s + k)
  BY <1>6, <1>9, <1>10, <1>11, ReceiveHas
<1>13. ASSUME NEW g \in 1 .. Groups, NEW k \in DOMAIN MangaDex[g],
              g < at + 1, k <= per, MangaDex[g][k].titled
       PROVE  Has(items1, Entry(MangaDex[g][k], TRUE), Place(g, k, per))
  <2>1. k \in Nat /\ g \in Nat \ {0}
    <3>1. MangaDex[g] \in Seq(Listed)
      BY SourcesAssumption DEF Groups
    <3> QED BY <1>2, <3>1
  <2>2. PICK n \in Nat : n = Place(g, k, per) /\ (g = at => n = s + k)
    <3>1. (g - 1) * per + k \in Nat
      BY <2>1
    <3> QED BY <1>8, <3>1 DEF Place
  <2>3. CASE g < at
    <3>1. Has(items, Entry(MangaDex[g][k], TRUE), n)
      BY <1>11, <1>13, <2>2, <2>3 DEF HasGroups
    <3> QED BY <1>12, <2>2, <3>1
  <2>4. CASE g = at
    <3>1. k \in DOMAIN list /\ list[k] = MangaDex[g][k]
      BY <1>5, <1>13, <2>4
    <3> QED BY <1>12, <1>13, <2>2, <2>4, <3>1
  <2>5. g < at \/ g = at
    BY <1>13, <2>1
  <2> QED BY <2>3, <2>4, <2>5
<1>14. HeardOf(c)'
  <2>1. PerGroup(c)' = per
    BY <1>3, <1>7 DEF PerGroup, Requested
  <2>2. Len(items1) <= (at + 1 - 1) * per
    <3>1. PICK n \in Nat, more \in Nat : n = Len(items1) /\ more = Len(list)
      <4>1. run'[c] \in RunRecords
        BY <1>6, ReceiveMoves
      <4>2. run'[c].items \in Seq(Records)
        BY <4>1 DEF RunRecords
      <4> QED BY <1>10, <4>2
    <3>2. n <= s + more /\ more <= per
      BY <1>5, <1>12, <3>1
    <3>3. n <= s + per
      BY <3>2
    <3> QED BY <1>8, <3>1, <3>3
  <2>3. HasGroups(items1, at + 1, per)
    BY <1>13 DEF HasGroups
  <2>4. run'[c].stage = "mangadex" /\ run'[c].source = "mangadex"
    BY <1>1, <1>7, <1>11
  <2>5. run'[c].at = at + 1 /\ at + 1 <= Groups + 1
    BY <1>2, <1>3, <1>7
  <2> QED BY <1>10, <2>1, <2>2, <2>3, <2>4, <2>5 DEF HeardOf
<1>15. run[c].at <= Groups + PageCount(c)
  BY <1>1, <1>2
<1> QED BY <1>1, <1>6, <1>14, <1>15, ReceiveInv

LEMMA FetchPageInv == ASSUME ColInv, NEW c \in Collectors, FetchPage(c) PROVE ColInv'
<1>1. /\ run[c].stage = "jikan" /\ run[c].at <= PageCount(c) /\ RunOf(c) /\ HeardOf(c)
      /\ run[c].at \in Nat
  BY DEF FetchPage, ColInv, RunInv, RunRecords
<1>2. Groups \in Nat /\ PageSize \in Nat \ {0} /\ PageCount(c) \in Nat
  BY Amounts DEF ColInv
<1>3. PICK at \in Nat \ {0} : at = run[c].at
  BY <1>1, <1>2 DEF RunOf
<1>4. PICK size \in Nat \ {0}, all \in Nat : size = PageSize /\ all = Len(Jikan)
  BY <1>2, SourcesAssumption
<1>5. PICK s \in Nat : s = (at - 1) * size /\ (at + 1 - 1) * size = s + size
  <2>1. (at - 1) * size \in Nat /\ (at + 1 - 1) * size = (at - 1) * size + size
    OBVIOUS
  <2> QED BY <2>1
<1>6. PICK list \in Seq(Listed) :
        /\ list = Page(c) /\ Len(list) <= size
        /\ \A k \in DOMAIN Jikan :
            s < k /\ k <= s + size => k - s \in DOMAIN list /\ list[k - s] = Jikan[k]
  <2>1. PICK last \in Nat : last = Least(s + size, all) /\ last <= all
    BY DEF Least
  <2>2. Page(c) = SubSeq(Jikan, s + 1, last)
    <3>1. at * size = s + size
      BY <1>5
    <3> QED BY <1>3, <1>4, <1>5, <2>1, <3>1 DEF Page, Least
  <2>3. \A i \in s + 1 .. last : Jikan[i] \in Listed
    BY <1>4, <2>1, SourcesAssumption
  <2> DEFINE page == SubSeq(Jikan, s + 1, last)
  <2>4. /\ page \in Seq(Listed)
        /\ Len(page) = IF s + 1 <= last THEN last - (s + 1) + 1 ELSE 0
        /\ \A i \in 1 .. last - (s + 1) + 1 : page[i] = Jikan[s + 1 + i - 1]
    BY <2>3, SubSeqProperties
  <2> HIDE DEF page
  <2>5. last - (s + 1) + 1 = last - s /\ last <= s + size
    BY <2>1 DEF Least
  <2>6. Len(page) <= size
    BY <2>4, <2>5
  <2>7. ASSUME NEW k \in DOMAIN Jikan, s < k, k <= s + size
        PROVE  k - s \in DOMAIN page /\ page[k - s] = Jikan[k]
    <3>1. k \in 1 .. all
      BY <1>4, SourcesAssumption
    <3>2. k <= last
      BY <2>1, <2>7, <3>1 DEF Least
    <3>3. k - s \in 1 .. last - s /\ s + 1 + (k - s) - 1 = k
      BY <2>7, <3>1, <3>2
    <3>4. DOMAIN page = 1 .. last - s
      BY <2>4, <2>5, <3>3
    <3> QED BY <2>4, <2>5, <3>3, <3>4
  <2> QED BY <2>2, <2>4, <2>6, <2>7 DEF page
<1>7. Receive(c, list, FALSE)
  BY <1>6 DEF FetchPage
<1>8. /\ run'[c].stage = run[c].stage /\ run'[c].at = run[c].at + 1
      /\ run'[c].limit = run[c].limit /\ run'[c].source = run[c].source
  BY <1>7, ReceiveMoves
<1>9. PICK items, items1 : items = run[c].items /\ items1 = run'[c].items
  OBVIOUS
<1>10. /\ Len(items) <= s /\ run[c].source = "jikan"
       /\ \A k \in DOMAIN Jikan :
            k <= s /\ Jikan[k].titled => Has(items, Entry(Jikan[k], FALSE), k)
  <2>1. HasPages(items, s) /\ run[c].source = "jikan"
    BY <1>1, <1>3, <1>4, <1>5, <1>9 DEF HeardOf
  <2> QED BY <2>1 DEF HasPages
<1>11. /\ Len(items1) <= s + Len(list)
       /\ \A m : \A n \in Nat : Has(items, m, n) => Has(items1, m, n)
       /\ \A k \in DOMAIN list : list[k].titled => Has(items1, Entry(list[k], FALSE), s + k)
  BY <1>7, <1>9, <1>10, ReceiveHas
<1>12. ASSUME NEW k \in DOMAIN Jikan, k <= s + size, Jikan[k].titled
       PROVE  Has(items1, Entry(Jikan[k], FALSE), k)
  <2>1. k \in Nat
    BY SourcesAssumption
  <2>2. CASE k <= s
    BY <1>10, <1>11, <1>12, <2>1, <2>2
  <2>3. CASE s < k
    <3>1. PICK j \in DOMAIN list : j = k - s /\ list[j] = Jikan[k]
      BY <1>6, <1>12, <2>3
    <3>2. s + j = k
      BY <2>1, <3>1
    <3> QED BY <1>11, <1>12, <3>1, <3>2
  <2>4. k <= s \/ s < k
    BY <2>1
  <2> QED BY <2>2, <2>3, <2>4
<1>13. HeardOf(c)'
  <2>1. PageCount(c)' = PageCount(c)
    BY <1>8 DEF PageCount, Requested
  <2>2. Len(items1) <= s + size
    <3>1. PICK n \in Nat, more \in Nat : n = Len(items1) /\ more = Len(list)
      <4>1. run'[c] \in RunRecords
        BY <1>7, ReceiveMoves
      <4>2. run'[c].items \in Seq(Records)
        BY <4>1 DEF RunRecords
      <4> QED BY <1>9, <4>2
    <3>2. n <= s + more /\ more <= size
      BY <1>6, <1>11, <3>1
    <3> QED BY <3>1, <3>2
  <2>3. HasPages(items1, s + size)
    BY <1>12, <2>2 DEF HasPages
  <2>4. run'[c].stage = "jikan" /\ run'[c].source = "jikan"
    BY <1>1, <1>8, <1>10
  <2>5. run'[c].at = at + 1 /\ at + 1 <= PageCount(c) + 1
    BY <1>1, <1>2, <1>3, <1>8
  <2>6. (run'[c].at - 1) * PageSize = s + size
    BY <1>4, <1>5, <2>5
  <2> QED BY <1>9, <2>1, <2>3, <2>4, <2>5, <2>6 DEF HeardOf
<1>14. run[c].at <= Groups + PageCount(c)
  BY <1>1, <1>2
<1> QED BY <1>1, <1>7, <1>13, <1>14, ReceiveInv

LEMMA FallBackInv == ASSUME ColInv, NEW c \in Collectors, FallBack(c) PROVE ColInv'
<1>1. run[c] \in RunRecords /\ RunOf(c) /\ run[c].stage = "mangadex" /\ run \in [Collectors -> RunRecords]
  BY DEF FallBack, ColInv, RunInv
<1>2. <<>> \in Seq(Records) /\ "jikan" \in RunStages /\ "jikan" \in SourceNames
  BY DEF RunStages, Loaded, SourceNames
<1>3. PICK none \in Seq(Records) : none = <<>>
  BY <1>2
<1>4. run' = [run EXCEPT ![c].stage = "jikan", ![c].source = "jikan",
                          ![c].at = 1, ![c].items = none]
  BY <1>3 DEF FallBack
<1>5. /\ run' \in [Collectors -> RunRecords]
      /\ run'[c].stage = "jikan" /\ run'[c].source = "jikan"
      /\ run'[c].at = 1 /\ run'[c].items = none
      /\ run'[c].base = run[c].base /\ run'[c].limit = run[c].limit
      /\ \A d \in Collectors : d # c => run'[d] = run[d]
  BY <1>1, <1>2, <1>4 DEF RunRecords
<1>6. RunOf(c)' /\ HeardOf(c)'
  <2>1. PageCount(c)' = PageCount(c)
    BY <1>5 DEF PageCount, Requested
  <2>2. Groups \in Nat \ {0} /\ PageCount(c) \in Nat
    BY Amounts DEF ColInv
  <2>3. HasPages(run'[c].items, (run'[c].at - 1) * PageSize)
    <3>1. PICK size \in Nat : size = PageSize
      BY SizeAssumption
    <3>2. (1 - 1) * size = 0
      OBVIOUS
    <3> QED BY <1>3, <1>5, <3>1, <3>2, NothingYet
  <2>4. 1 <= PageCount(c) + 1 /\ 1 \in 1 .. Groups + PageCount(c) + 1
    BY <2>2
  <2>5. RunOf(c)'
    BY <1>1, <1>5, <2>1, <2>4 DEF RunOf
  <2>6. HeardOf(c)'
    BY <1>5, <2>1, <2>3, <2>4 DEF HeardOf
  <2> QED BY <2>5, <2>6
<1>7. RunInv'
  BY <1>5, <1>6, OneMoves
<1>8. FileInv' /\ KeptInv'
  BY <1>1, <1>5, FileUntouched DEF FallBack, Loaded
<1> QED BY <1>7, <1>8 DEF ColInv

\* A run that gives up before it writes.
LEMMA GivesUpInv ==
    ASSUME ColInv, NEW c \in Collectors, Goes(c, "failed"), UNCHANGED <<file, lossy, kept>>,
           run[c].stage # "writing"
    PROVE  ColInv'
<1>1. RunInv'
  BY Resting DEF Goes
<1>2. run'[c].stage = "failed" /\ \A d \in Collectors : d # c => run'[d] = run[d]
  BY DEF Goes, ColInv, RunInv, RunRecords
<1>3. FileInv' /\ KeptInv'
  BY <1>2, FileUntouched DEF Loaded
<1> QED BY <1>1, <1>3 DEF ColInv

LEMMA Division ==
    ASSUME NEW a \in Nat, NEW b \in Nat \ {0}
    PROVE  /\ a \div b \in Nat /\ (a % b) \in 0 .. b - 1
           /\ a = b * (a \div b) + (a % b)
OBVIOUS

\* The pages hold what was asked for.
LEMMA PagesReach ==
    ASSUME RunInv, NEW c \in Collectors
    PROVE  Requested(c) <= PageCount(c) * PageSize
<1>1. PICK want \in Nat, size \in Nat \ {0} : want = Requested(c) /\ size = PageSize
  BY Amounts
<1>2. PICK q \in Nat, r \in 0 .. size - 1 :
        q = want \div size /\ r = want % size /\ want = size * q + r
  BY Division
<1>3. PageCount(c) = IF r = 0 THEN q ELSE q + 1
  <2>1. PageCount(c) = (want \div size) + (IF want % size # 0 THEN 1 ELSE 0)
    BY <1>1 DEF PageCount
  <2>2. PageCount(c) = q + (IF r # 0 THEN 1 ELSE 0)
    BY <1>2, <2>1
  <2> QED BY <1>2, <2>2
<1>4. PICK p \in Nat : p = size * q /\ q * size = p /\ (q + 1) * size = p + size
  <2>1. size * q \in Nat /\ q * size = size * q /\ (q + 1) * size = size * q + size
    OBVIOUS
  <2> QED BY <2>1
<1>5. CASE r = 0
  <2>1. PageCount(c) * PageSize = p
    BY <1>1, <1>3, <1>4, <1>5
  <2>2. want = p
    BY <1>2, <1>4, <1>5
  <2> QED BY <1>1, <2>1, <2>2
<1>6. CASE r # 0
  <2>1. want <= p + size
    BY <1>2, <1>4
  <2>2. PageCount(c) * PageSize = p + size
    BY <1>1, <1>3, <1>4, <1>6
  <2> QED BY <1>1, <2>1, <2>2
<1> QED BY <1>5, <1>6

\* Of what a run has early enough the title is in what it writes.
LEMMA HasIsWritten ==
    ASSUME NEW a \in Seq(Records), NEW items \in Seq(Records), Clean(a), NEW n \in Nat,
           NEW m \in Records, NEW k \in Nat, k <= n, Has(items, m, k), m.whole
    PROVE  \E w \in Range(Sorted(Merged(a, Sanitized(First(n, items))))) : w.title = m.title
<1>1. PICK new \in Seq(Records) : new = First(n, items)
  BY FirstIsPart
<1>2. PICK i \in DOMAIN new : new[i] = m
  BY <1>1, FirstHas
<1> QED BY <1>1, <1>2, ResultHasTitles

\* What a run that has fetched everything is to write.
LEMMA TakesIt ==
    ASSUME RunInv, NEW c \in Collectors, Fetched(c),
           run'[c].result =
              Sorted(Merged(run[c].base, Sanitized(First(Requested(c), run[c].items)))),
           run'[c].base = run[c].base, run'[c].limit = run[c].limit,
           run'[c].source = run[c].source
    PROVE  Takes(c)'
<1>1. /\ RunOf(c) /\ HeardOf(c) /\ run[c].at \in Nat
  BY DEF RunInv, RunRecords
<1>2. PICK base \in Seq(Records), items \in Seq(Records) : base = run[c].base /\ items = run[c].items
  BY DEF RunInv, RunRecords
<1>3. Clean(base)
  BY <1>1, <1>2 DEF RunOf
<1>4. PICK want \in Nat, per \in Nat : want = Requested(c) /\ per = PerGroup(c)
  BY Amounts
<1>5. PICK result : result = Sorted(Merged(base, Sanitized(First(want, items))))
  OBVIOUS
<1>6. run'[c].result = result /\ Requested(c)' = want /\ PerGroup(c)' = per
  BY <1>2, <1>4, <1>5 DEF Requested, PerGroup
<1>7. Len(result) <= Len(base) + want
  <2>1. PICK new \in Seq(Records) : new = First(want, items) /\ Len(new) <= want
    BY FirstIsPart DEF Least
  <2>2. Len(result) <= Len(base) + Len(new)
    BY <1>3, <1>5, <2>1, ResultHasTitles
  <2>3. result \in Seq(Records)
    <3>1. PICK b \in Seq(Records) : b = Sanitized(new) /\ Clean(b)
      BY SanitizedIsClean
    <3> QED BY <1>3, <1>5, <2>1, <3>1, ResultIsTidy
  <2> QED BY <2>1, <2>2, <2>3
<1>8. ASSUME NEW m \in Listed, NEW genre \in BOOLEAN, NEW k \in Nat, k <= want,
             Has(items, Entry(m, genre), k), m.genre \/ genre
      PROVE  \E w \in Range(result) : w.title = m.title
  <2>1. PICK e \in Records : e = Entry(m, genre) /\ e.whole /\ e.title = m.title
    BY <1>8 DEF Entry, Listed, Records
  <2> QED BY <1>3, <1>5, <1>8, <2>1, HasIsWritten
<1>9. ASSUME run[c].source = "jikan", NEW k \in DOMAIN Jikan,
             k <= want, Jikan[k].titled, Jikan[k].genre
      PROVE  \E w \in Range(result) : w.title = Jikan[k].title
  <2>1. k \in Nat /\ Jikan[k] \in Listed
    BY SourcesAssumption
  <2>2. run[c].stage = "jikan" /\ run[c].at = PageCount(c) + 1
    <3>1. run[c].stage = "jikan"
      BY <1>1, <1>9 DEF Fetched, HeardOf
    <3>2. run[c].at <= PageCount(c) + 1 /\ run[c].at > PageCount(c) /\ PageCount(c) \in Nat
      BY <1>1, <3>1, Amounts DEF Fetched, HeardOf
    <3> QED BY <1>1, <3>1, <3>2
  <2>3. k <= (run[c].at - 1) * PageSize
    <3>1. PICK pages \in Nat, size \in Nat : pages = PageCount(c) /\ size = PageSize
      BY Amounts
    <3>2. want <= pages * size /\ run[c].at - 1 = pages
      BY <1>4, <2>2, <3>1, PagesReach
    <3>3. pages * size \in Nat
      OBVIOUS
    <3> QED BY <1>9, <2>1, <3>1, <3>2, <3>3
  <2>4. Has(items, Entry(Jikan[k], FALSE), k)
    BY <1>1, <1>2, <1>9, <2>2, <2>3 DEF HeardOf, HasPages
  <2> QED BY <1>8, <1>9, <2>1, <2>4
<1>10. ASSUME run[c].source = "mangadex", NEW g \in DOMAIN MangaDex,
              NEW k \in DOMAIN MangaDex[g],
              k <= per, (g - 1) * per + k <= want, MangaDex[g][k].titled
       PROVE  \E w \in Range(result) : w.title = MangaDex[g][k].title
  <2>1. /\ g \in 1 .. Groups /\ Groups \in Nat /\ k \in Nat /\ MangaDex[g][k] \in Listed
    <3>1. g \in 1 .. Groups /\ Groups \in Nat /\ MangaDex[g] \in Seq(Listed)
      BY SourcesAssumption DEF Groups
    <3> QED BY <3>1
  <2>2. run[c].stage = "mangadex" /\ g < run[c].at
    <3>1. run[c].stage = "mangadex"
      BY <1>1, <1>10 DEF Fetched, HeardOf
    <3> QED BY <1>1, <2>1, <3>1 DEF Fetched
  <2>3. PICK n \in Nat : n = Place(g, k, per) /\ n <= want
    <3>1. PICK before \in Nat : before = g - 1
      BY <2>1
    <3>2. before * per \in Nat
      OBVIOUS
    <3>3. PICK n \in Nat : n = before * per + k
      BY <2>1, <3>2
    <3>4. n = Place(g, k, per)
      BY <3>1, <3>3 DEF Place
    <3>5. n <= want
      BY <1>10, <3>1, <3>3
    <3> QED BY <3>4, <3>5
  <2>4. Has(items, Entry(MangaDex[g][k], TRUE), n)
    BY <1>1, <1>2, <1>4, <1>10, <2>1, <2>2, <2>3 DEF HeardOf, HasGroups
  <2> QED BY <1>8, <1>10, <2>1, <2>3, <2>4
<1> QED BY <1>2, <1>6, <1>7, <1>9, <1>10 DEF Takes, HasTitle

LEMMA TruncateInv == ASSUME ColInv, NEW c \in Collectors, Truncate(c) PROVE ColInv'
<1>1. /\ run[c] \in RunRecords /\ RunOf(c) /\ run \in [Collectors -> RunRecords]
      /\ run[c].stage \in {"mangadex", "jikan"}
  BY DEF Truncate, Fetched, ColInv, RunInv
<1>2. PICK fetched \in Seq(Records) : fetched = First(Requested(c), run[c].items)
  <2>1. PICK n \in Nat : n = Requested(c)
    BY Amounts DEF ColInv
  <2>2. PICK items \in Seq(Records) : items = run[c].items
    BY <1>1 DEF RunRecords
  <2> QED BY <2>1, <2>2, FirstIsPart
<1>3. PICK base \in Seq(Records), new \in Seq(Records) : base = run[c].base /\ new = Sanitized(fetched)
  BY <1>1, SanitizedIsClean DEF RunRecords
<1>4. Clean(base) /\ Clean(new)
  BY <1>1, <1>3, SanitizedIsClean DEF RunOf
<1>5. PICK result \in Seq(Records) : result = Sorted(Merged(base, new))
  BY <1>4, ResultIsTidy
<1>6. Tidy(result) /\ Merged(base, <<>>) \subseteq Range(result)
  BY <1>4, <1>5, ResultIsTidy
<1>7. run' = [run EXCEPT ![c].stage = "writing", ![c].items = fetched, ![c].result = result]
  BY <1>2, <1>3, <1>5 DEF Truncate
<1>8. /\ run' \in [Collectors -> RunRecords]
      /\ run'[c].stage = "writing" /\ run'[c].result = result /\ run'[c].at = run[c].at
      /\ run'[c].base = base /\ run'[c].limit = run[c].limit
      /\ run'[c].source = run[c].source
      /\ \A d \in Collectors : d # c => run'[d] = run[d]
  <2>1. "writing" \in RunStages
    BY DEF RunStages, Loaded
  <2> QED BY <1>1, <1>3, <1>7, <2>1 DEF RunRecords
<1>9. RunInv'
  <2>1. PageCount(c)' = PageCount(c)
    BY <1>8 DEF PageCount, Requested
  <2>2. RunOf(c)'
    BY <1>1, <1>4, <1>6, <1>8, <2>1 DEF RunOf
  <2>3. Takes(c)'
    BY <1>2, <1>3, <1>5, <1>8, TakesIt DEF Truncate, ColInv
  <2>4. HeardOf(c)'
    BY <1>8, <2>3 DEF HeardOf
  <2> QED BY <1>8, <2>2, <2>4, OneMoves
<1>10. FileInv'
  BY DEF ColInv, FileInv, Truncate
<1>11. KeptInv'
  <2> SUFFICES ASSUME ~lossy' PROVE KeptInv'
    BY DEF KeptInv
  <2>1. ~lossy /\ Alone(c) /\ kept' = kept /\ file' = Empty
    BY DEF Truncate
  <2>2. kept \subseteq Merged(base, <<>>)
    BY <1>1, <1>3, <2>1 DEF ColInv, KeptInv, Loaded
  <2>3. \A d \in Collectors : d # c => run'[d].stage \notin Loaded
    BY <1>8, <2>1 DEF Alone
  <2>4. Alone(c)' /\ Writing'
    BY <1>8, <2>3 DEF Alone, Writing, Loaded
  <2>5. ASSUME NEW d \in Collectors, run'[d].stage \in Loaded PROVE d = c
    BY <2>3, <2>5
  <2>6. "writing" \in Loaded
    BY DEF Loaded
  <2>7. kept \subseteq Range(result)
    BY <1>6, <2>2
  <2> QED BY <1>8, <2>1, <2>2, <2>4, <2>5, <2>6, <2>7 DEF KeptInv
<1> QED BY <1>9, <1>10, <1>11 DEF ColInv

LEMMA WriteInv == ASSUME ColInv, NEW c \in Collectors, Write(c) PROVE ColInv'
<1>1. /\ run[c] \in RunRecords /\ RunOf(c) /\ run[c].stage = "writing"
  BY DEF Write, ColInv, RunInv
<1>2. PICK result \in Seq(Records) : result = run[c].result
  BY <1>1 DEF RunRecords
<1>3. Tidy(result) /\ Range(result) \subseteq Content(result)
  BY <1>1, <1>2, TidyContent DEF RunOf
<1>4. RunInv'
  BY Resting DEF Write, Goes
<1>5. run'[c].stage = "done" /\ \A d \in Collectors : d # c => run'[d] = run[d]
  BY DEF Write, Goes, ColInv, RunInv, RunRecords
<1>6. FileInv'
  BY <1>2, <1>3 DEF ColInv, FileInv, Write
<1>7. KeptInv'
  <2> SUFFICES ASSUME ~lossy' PROVE KeptInv'
    BY DEF KeptInv
  <2>1. ~lossy /\ Alone(c) /\ kept' = kept \cup Range(result) /\ file' = result
    BY <1>2 DEF Write
  <2>2. kept \subseteq Range(result)
    BY <1>1, <1>2, <2>1 DEF ColInv, KeptInv
  <2>3. \A d \in Collectors : run'[d].stage \notin Loaded
    BY <1>5, <2>1 DEF Alone, Loaded
  <2>4. Content(file)' = Content(result)
    BY <2>1
  <2>5. kept' \subseteq Content(file)'
    BY <1>3, <2>1, <2>2, <2>4
  <2> QED BY <2>3, <2>5 DEF KeptInv, Loaded
<1> QED BY <1>4, <1>6, <1>7 DEF ColInv

LEMMA WriteOverInv == ASSUME ColInv, NEW c \in Collectors, WriteOver(c) PROVE ColInv'
<1>1. RunInv'
  BY Resting DEF WriteOver, Goes
<1>2. FileInv' /\ KeptInv'
  BY DEF ColInv, FileInv, KeptInv, WriteOver
<1> QED BY <1>1, <1>2 DEF ColInv

LEMMA DieInv == ASSUME ColInv, NEW c \in Collectors, Die(c) PROVE ColInv'
<1>1. CASE run[c].stage = "writing"
  <2>1. RunInv'
    BY Resting DEF Die, Goes
  <2>2. lossy' = TRUE /\ (file' = file \/ file' = Garbled)
    BY <1>1 DEF Die
  <2>3. FileInv' /\ KeptInv'
    BY <2>2 DEF ColInv, FileInv, KeptInv
  <2> QED BY <2>1, <2>3 DEF ColInv
<1>2. CASE run[c].stage # "writing"
  <2>1. UNCHANGED <<file, lossy, kept>> /\ Goes(c, "failed")
    <3>1. lossy' = lossy
      BY <1>2 DEF Die, ColInv, FileInv
    <3> QED BY <1>2, <3>1 DEF Die
  <2> QED BY <1>2, <2>1, GivesUpInv
<1> QED BY <1>1, <1>2

LEMMA NextCol == ColInv /\ [CollectorNext]_collectorVars => ColInv'
<1> SUFFICES ASSUME ColInv, [CollectorNext]_collectorVars PROVE ColInv'
  OBVIOUS
<1>1. CASE CollectorNext
  <2> SUFFICES ASSUME NEW c \in Collectors,
                      \/ Begin(c) \/ Load(c) \/ LoadFails(c)
                      \/ FetchGroup(c) \/ FetchPage(c) \/ FallBack(c) \/ SourceFails(c)
                      \/ Truncate(c) \/ Write(c) \/ WriteOver(c) \/ Die(c)
               PROVE  ColInv'
    BY <1>1 DEF CollectorNext
  <2>1. CASE Begin(c)
    BY <2>1, BeginInv
  <2>2. CASE Load(c)
    BY <2>2, LoadInv
  <2>3. CASE LoadFails(c)
    BY <2>3, GivesUpInv DEF LoadFails
  <2>4. CASE FetchGroup(c)
    BY <2>4, FetchGroupInv
  <2>5. CASE FetchPage(c)
    BY <2>5, FetchPageInv
  <2>6. CASE FallBack(c)
    BY <2>6, FallBackInv
  <2>7. CASE SourceFails(c)
    BY <2>7, GivesUpInv DEF SourceFails
  <2>8. CASE Truncate(c)
    BY <2>8, TruncateInv
  <2>9. CASE Write(c)
    BY <2>9, WriteInv
  <2>10. CASE WriteOver(c)
    BY <2>10, WriteOverInv
  <2>11. CASE Die(c)
    BY <2>11, DieInv
  <2> QED BY <2>1, <2>2, <2>3, <2>4, <2>5, <2>6, <2>7, <2>8, <2>9, <2>10, <2>11
<1>2. CASE UNCHANGED collectorVars
  <2>1. RunInv'
    <3>1. ASSUME NEW c \in Collectors PROVE RunOf(c)' /\ HeardOf(c)'
      <4>1. PageCount(c)' = PageCount(c) /\ PerGroup(c)' = PerGroup(c) /\ run'[c] = run[c]
        BY <1>2 DEF collectorVars, PageCount, PerGroup, Requested
      <4>2. Takes(c) => Takes(c)'
        BY <4>1 DEF Takes, HasTitle, Requested
      <4> QED BY <4>1, <4>2 DEF ColInv, RunInv, RunOf, HeardOf
    <3> QED BY <1>2, <3>1 DEF collectorVars, ColInv, RunInv
  <2>2. FileInv'
    BY <1>2 DEF collectorVars, ColInv, FileInv
  <2>3. KeptInv'
    <3>1. (Writing' <=> Writing) /\ \A c \in Collectors : Alone(c)' <=> Alone(c)
      BY <1>2 DEF collectorVars, Writing, Alone
    <3>2. Content(file)' = Content(file)
      BY <1>2 DEF collectorVars
    <3> QED BY <1>2, <3>1, <3>2 DEF collectorVars, ColInv, KeptInv
  <2> QED BY <2>1, <2>2, <2>3 DEF ColInv
<1> QED BY <1>1, <1>2

\* What a run has read is clean, what it is to write is tidy, and who is not
\* disturbed writes all that was ever in the file.
THEOREM CollectorInvariance == CollectorSpec => []ColInv
<1> QED BY InitCol, NextCol, PTL DEF CollectorSpec

\* A file that a collector has written parses, has each manga once, in order, with
\* all its fields, whatever else runs or dies (writeJSON, mergeAndDedupe).
THEOREM FileParses == CollectorSpec => []CollectorTypeOK
<1>1. ColInv => CollectorTypeOK
  <2> SUFFICES ASSUME ColInv PROVE CollectorTypeOK
    OBVIOUS
  <2>1. \A c \in Collectors : run[c].stage \in RunStages
    BY DEF ColInv, RunInv, RunRecords
  <2> QED BY <2>1 DEF ColInv, RunInv, RunOf, FileInv, CollectorTypeOK
<1> QED BY <1>1, CollectorInvariance, PTL

\* No run that works alone and ends its write loses a manga or changes one that
\* was in the file, whatever the sources say of its title (mergeAndDedupe).
THEOREM KeepsAll == CollectorSpec => []NothingIsLost
<1>1. ColInv => NothingIsLost
  BY DEF ColInv, KeptInv, Writing, NothingIsLost
<1> QED BY <1>1, CollectorInvariance, PTL

\* No run adds more manga than it was asked for, and whatever the sources list, the
\* limit is and the pages are, no titled entry that the limit reaches is missed
\* (fetchJikanBatch, fetchMangaDexBatch, mergeAndDedupe).
THEOREM TakesWhatItShould == CollectorSpec => []TakesWhatIsAsked
<1>1. ColInv => TakesWhatIsAsked
  BY DEF ColInv, RunInv, HeardOf, TakesWhatIsAsked
<1> QED BY <1>1, CollectorInvariance, PTL
=============================================================================
