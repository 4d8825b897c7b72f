----------------------------- MODULE BatchProofs ------------------------------
(***************************************************************************)
(* Proofs about MissingFeatureBatch, for every set of EPICs, tabs, titles, *)
(* tables and dependencies, and any number of crashes.                     *)
(***************************************************************************)
EXTENDS MissingFeatureBatch, FiniteSetTheorems, WellFoundedInduction, TLAPS

-----------------------------------------------------------------------------
(* The inductive invariant *)

Doc == [rows : Seq(Row), details : SUBSET Nat]
Folder == [id : Nat \ {0}, title : Titles \cup {Other}, epic : Epics \cup {NoEpic},
           doc : BOOLEAN, deps : SUBSET Nat, sources : SUBSET Doc, known : SUBSET Nat]
Cand == [id : Nat \ {0}, title : Titles, deps : SUBSET Nat, order : Nat]
WaitingTab == [phase : {"waiting"}, epic : Epics, doc : Doc, cards : SUBSET Folder]
PlanTab == [phase : {"plan"}, epic : Epics, doc : Doc, cands : SUBSET Cand]
Stages == {"folder", "document", "epic"}
ApplyTurn == [kind : {"apply"}, tab : Tabs, had : SUBSET Nat, visited : SUBSET Nat, stage : Stages]
SubmitTurn == [kind : {"submit"}, id : Nat \ {0}, title : Titles \cup {Other}, parent : Epics \cup {NoEpic},
               stage : Stages]

Types ==
  /\ folders \subseteq Folder /\ counter \in Nat
  /\ \E b \in Nat : \A f \in folders : f.id <= b
  /\ epic \in [Epics -> Doc]
  /\ tab \in [Tabs -> {Empty} \cup WaitingTab \cup PlanTab]
  /\ turn \in {Idle} \cup ApplyTurn \cup SubmitTurn

Unique == \A f, g \in folders : f.id = g.id => f = g

(* The folders are those the apply found and those it made, in its order.  *)
Applies == turn.kind = "apply"
Active == NextInOrder(Batch.cands, turn.visited)
ApplyOK ==
  Applies =>
    /\ Batch.phase = "plan" /\ ~Unorderable(Batch.cands)
    /\ turn.visited \subseteq CandIds(Batch.cands)
    /\ turn.stage # "document" => FolderIds = turn.had \cup turn.visited
    /\ turn.stage = "document" =>
         /\ turn.visited # CandIds(Batch.cands)
         /\ FolderIds = turn.had \cup turn.visited \cup {Active.id}
         /\ Active.id \notin turn.had
SubmitOK == turn.kind = "submit" /\ turn.stage = "folder" => turn.id \notin FolderIds

(* Whose FEAT an id names. *)
Own(id, e, t) == \A f \in folders : f.id = id => (f.epic = e /\ f.title = t) \/ <<id, e, t>> \in taken
RowsOwn == \A e \in Epics : \A r \in Range(epic[e].rows) : Own(r.id, e, r.title)

(* A tab that waits for the model: its table left nothing to create.       *)
WaitOK(w) ==
  /\ {f.id : f \in w.cards} \subseteq CardIds
  /\ \A k \in DOMAIN w.doc.rows : w.doc.rows[k].id # NoId /\ w.doc.rows[k].id \in {f.id : f \in w.cards}
PlanOK(p) ==
  /\ RowIds(p.doc.rows) \subseteq CandIds(p.cands) \cup FolderIds
  /\ \A c \in p.cands : Own(c.id, p.epic, c.title)
TabsOK == \A s \in Tabs : /\ tab[s].phase = "waiting" => WaitOK(tab[s])
                          /\ tab[s].phase = "plan" => PlanOK(tab[s])

BatchInv == Types /\ Unique /\ ApplyOK /\ SubmitOK /\ RowsOwn /\ TabsOK /\ DependenciesExist

-----------------------------------------------------------------------------
(* Least and largest numbers *)

LEMMA LeastNumber ==
  ASSUME NEW S \in SUBSET Nat, S # {}
  PROVE  \E x \in S : \A y \in S : x <= y
<1>1. PICK x \in S : \A y \in S : ~(<<y, x>> \in OpToRel(<, Nat))
  BY WFMin, NatLessThanWellFounded
<1>2. \A y \in S : ~(y < x)
  BY <1>1 DEF OpToRel
<1> QED  BY <1>2

LEMMA MaxIs ==
  ASSUME NEW S \in SUBSET Nat, S # {}, NEW b \in Nat, \A x \in S : x <= b
  PROVE  Max(S) \in S /\ \A y \in S : y <= Max(S)
<1> DEFINE T == {n \in Nat : \A x \in S : x <= n}
<1>1. PICK m \in T : \A y \in T : m <= y
  <2>1. T \in SUBSET Nat /\ b \in T
    OBVIOUS
  <2> HIDE DEF T
  <2> QED  BY <2>1, LeastNumber
<1>2. m \in S
  <2> SUFFICES ASSUME m \notin S PROVE FALSE
    OBVIOUS
  <2>1. PICK z \in S : TRUE
    OBVIOUS
  <2>2. m \in Nat /\ \A x \in S : x <= m
    BY <1>1
  <2>3. m - 1 \in Nat /\ \A x \in S : x <= m - 1
    BY <2>1, <2>2
  <2>4. m - 1 \in T
    BY <2>3
  <2> QED  BY <1>1, <2>2, <2>4
<1>3. \E z \in S : \A y \in S : z >= y
  <2>1. \A y \in S : m >= y
    BY <1>1
  <2> QED  BY <1>2, <2>1
<1>4. Max(S) \in S /\ \A y \in S : Max(S) >= y
  BY <1>3 DEF Max
<1> QED  BY <1>4

LEMMA LargestIs ==
  ASSUME NEW S \in SUBSET Nat, \E b \in Nat : \A x \in S : x <= b
  PROVE  Largest(S) \in Nat /\ \A x \in S : x <= Largest(S)
<1>1. CASE S = {}
  BY <1>1 DEF Largest
<1>2. CASE S # {}
  BY <1>2, MaxIs DEF Largest
<1> QED  BY <1>1, <1>2

(* The ids in use are bounded, and a new one lies above them.              *)
LEMMA FolderIdsAre ==
  ASSUME Types
  PROVE  /\ FolderIds \in SUBSET (Nat \ {0}) /\ CardIds \subseteq FolderIds
         /\ \E b \in Nat : \A x \in FolderIds : x <= b
         /\ Cards \subseteq folders
BY DEF Types, FolderIds, CardIds, Cards, Folder

LEMMA PreviewIdIs ==
  ASSUME Types, NEW ids \in SUBSET FolderIds, NEW n \in Nat
  PROVE  /\ PreviewFeatureId(ids, n) \in Nat \ {0}
         /\ PreviewFeatureId(ids, n) \notin FolderIds
<1>1. ids \cup FolderIds = FolderIds
  OBVIOUS
<1>2. Largest(FolderIds) \in Nat /\ \A x \in FolderIds : x <= Largest(FolderIds)
  BY FolderIdsAre, LargestIs
<1>3. PreviewFeatureId(ids, n) = Largest(FolderIds) + 1 + n
  BY <1>1 DEF PreviewFeatureId
<1> QED  BY <1>2, <1>3

LEMMA NextFeatureIs ==
  ASSUME Types
  PROVE  NextFeature \in Nat \ {0} /\ NextFeature \notin FolderIds
<1> DEFINE l == Largest(FolderIds)
           S == {counter, l + 1}
<1>1. l \in Nat /\ \A x \in FolderIds : x <= l
  BY FolderIdsAre, LargestIs
<1> HIDE DEF l
<1>2. counter \in Nat
  BY DEF Types
<1>3. S \in SUBSET Nat /\ S # {} /\ counter + l + 1 \in Nat /\ \A x \in S : x <= counter + l + 1
  BY <1>1, <1>2
<1>4. l + 1 \in S
  OBVIOUS
<1>5. Max(S) \in S /\ \A y \in S : y <= Max(S)
  <2> HIDE DEF S
  <2> QED  BY <1>3, MaxIs
<1>6. NextFeature = Max(S)
  BY DEF NextFeature, l
<1>7. NextFeature \in Nat /\ l + 1 <= NextFeature
  <2> HIDE DEF S
  <2> QED  BY <1>3, <1>4, <1>5, <1>6
<1> QED  BY <1>1, <1>7

-----------------------------------------------------------------------------
(* The order of an apply *)

LEMMA FirstOfIs ==
  ASSUME NEW C \in SUBSET Cand, C # {}
  PROVE  FirstOf(C) \in C
<1> DEFINE S == {c.order : c \in C}
<1>1. S \in SUBSET Nat /\ S # {}
  BY DEF Cand
<1>2. PICK m \in S : \A y \in S : m <= y
  <2> HIDE DEF S
  <2> QED  BY <1>1, LeastNumber
<1>3. PICK c \in C : m = c.order
  OBVIOUS
<1>4. \A d \in C : c.order <= d.order
  BY <1>2, <1>3
<1>5. \E x \in C : \A d \in C : x.order <= d.order
  BY <1>4
<1> QED  BY <1>5 DEF FirstOf

(* orderByDependencies: while candidates are left, one of them has all its *)
(* dependencies visited.                                                   *)
LEMMA NextIs ==
  ASSUME NEW C \in SUBSET Cand, NEW V \in SUBSET CandIds(C), V # CandIds(C), ~Unorderable(C)
  PROVE  /\ NextInOrder(C, V) \in C /\ NextInOrder(C, V).id \notin V
         /\ NextInOrder(C, V).deps \cap CandIds(C) \subseteq V
<1> DEFINE S == CandIds(C) \ V
           R == {c \in C : c.id \notin V /\ c.deps \cap CandIds(C) \subseteq V}
<1>1. S \in (SUBSET CandIds(C)) \ {{}}
  OBVIOUS
<1>2. PICK c \in C : c.id \in S /\ c.deps \cap S = {}
  BY <1>1 DEF Unorderable
<1>3. c \in R
  BY <1>2
<1>4. NextInOrder(C, V) = FirstOf(R)
  BY DEF NextInOrder
<1>5. R \in SUBSET Cand
  OBVIOUS
<1>6. FirstOf(R) \in R
  <2> HIDE DEF R
  <2> QED  BY <1>3, <1>5, FirstOfIs
<1> QED  BY <1>4, <1>6

-----------------------------------------------------------------------------
(* What a preview finds *)

PlannedRows(rows) ==
  {k \in DOMAIN rows : rows[k].id = NoId /\ \A j \in 1..(k - 1) : rows[j].id = NoId => rows[j].title # rows[k].title}
FreshFor(rows, ids, k) == PreviewFeatureId(ids, Cardinality({j \in PlannedRows(rows) : j < k}))
Needs(rows, k) == {j \in DOMAIN rows : rows[j].title \in DependsOn[rows[k].title]}
NamedBy(rows, k) == Cites[rows[k].title] \cup {rows[j].id : j \in {j \in Needs(rows, k) : ~(rows[j].id = NoId)}}
ResolvedBy(rows, ids, k) == {FreshFor(rows, ids, j) : j \in PlannedRows(rows) \cap Needs(rows, k)}
MissingRows(rows, ids) == {k \in DOMAIN rows : ~(rows[k].id = NoId) /\ rows[k].id \notin ids}
MissingCand(rows, k) == Candidate(rows[k].id, rows[k].title, NamedBy(rows, k), k)
TbdCand(rows, ids, k) ==
  Candidate(FreshFor(rows, ids, k), rows[k].title, NamedBy(rows, k) \cup ResolvedBy(rows, ids, k), k)
FoundCand(rows, ids, found, i) ==
  Candidate(PreviewFeatureId(ids, Cardinality(PlannedRows(rows)) + i - 1), found[i], Cites[found[i]],
            Len(rows) + Cardinality(PlannedRows(rows)) + i)

LEMMA CandidatesAre ==
  ASSUME NEW rows, NEW ids, NEW found
  PROVE  Candidates(rows, ids, found) =
             {MissingCand(rows, k) : k \in MissingRows(rows, ids)}
        \cup {TbdCand(rows, ids, k) : k \in PlannedRows(rows)}
        \cup {FoundCand(rows, ids, found, i) : i \in DOMAIN found}
BY DEF Candidates, MissingCand, TbdCand, FoundCand, MissingRows, PlannedRows, NamedBy, ResolvedBy,
       Needs, FreshFor

LEMMA CountIs ==
  ASSUME NEW rows \in Seq(Row), NEW k \in Nat
  PROVE  Cardinality({j \in PlannedRows(rows) : j < k}) \in Nat
<1> DEFINE S == {j \in PlannedRows(rows) : j < k}
<1>0. Len(rows) \in Nat /\ DOMAIN rows = 1..Len(rows)
  OBVIOUS
<1>1. IsFiniteSet(1..Len(rows)) /\ S \in SUBSET (1..Len(rows))
  <2>1. IsFiniteSet(1..Len(rows))
    BY <1>0, FS_Interval
  <2>2. S \subseteq DOMAIN rows
    BY DEF PlannedRows
  <2> HIDE DEF S
  <2> QED  BY <1>0, <2>1, <2>2
<1> HIDE DEF S
<1>2. IsFiniteSet(S)
  BY <1>1, FS_Subset
<1>3. Cardinality(S) \in Nat
  BY <1>2, FS_CardinalityType
<1> QED  BY <1>3 DEF S

LEMMA FreshIs ==
  ASSUME Types, NEW rows \in Seq(Row), NEW ids \in SUBSET FolderIds, NEW k \in DOMAIN rows
  PROVE  FreshFor(rows, ids, k) \in Nat \ {0} /\ FreshFor(rows, ids, k) \notin FolderIds
<1>1. k \in Nat
  OBVIOUS
<1>2. Cardinality({j \in PlannedRows(rows) : j < k}) \in Nat
  BY <1>1, CountIs
<1> QED  BY <1>2, PreviewIdIs DEF FreshFor

(* Where the id of a candidate of the table comes from. *)
FromRow(rows, c) ==
  \/ \E k \in DOMAIN rows : rows[k].id # NoId /\ c.id = rows[k].id /\ c.title = rows[k].title
  \/ c.id \notin FolderIds

(* Of two candidates with one title at most one has no id of its own.      *)
TitlesApart(rows, C) == \A c, d \in C : c.title = d.title => c = d \/ {c.id, d.id} \cap RowIds(rows) # {}

LEMMA TableCands ==
  ASSUME Types, NEW rows \in Seq(Row), NEW ids \in SUBSET FolderIds, NEW C,
         C = Candidates(rows, ids, <<>>)
  PROVE  /\ C \in SUBSET Cand
         /\ \A c \in C : FromRow(rows, c)
         /\ TitlesApart(rows, C)
         /\ RowIds(rows) \subseteq CandIds(C) \cup ids
<1>1. C = {MissingCand(rows, k) : k \in MissingRows(rows, ids)}
            \cup {TbdCand(rows, ids, k) : k \in PlannedRows(rows)}
  BY CandidatesAre
<1>2. /\ \A k \in DOMAIN rows : rows[k] \in Row /\ k \in Nat
      /\ \A k \in DOMAIN rows : rows[k].id \in Nat /\ rows[k].title \in Titles
  <2>1. \A k \in DOMAIN rows : rows[k] \in Row /\ k \in Nat
    OBVIOUS
  <2> QED  BY <2>1 DEF Row
<1>3. \A k \in DOMAIN rows : NamedBy(rows, k) \in SUBSET Nat
  BY <1>2, BatchAssumption DEF NamedBy, Needs
<1>4. \A k \in DOMAIN rows : FreshFor(rows, ids, k) \in Nat \ {0} /\ FreshFor(rows, ids, k) \notin FolderIds
  BY FreshIs
<1>5. \A k \in DOMAIN rows : ResolvedBy(rows, ids, k) \in SUBSET Nat
  BY <1>4 DEF ResolvedBy, Needs
<1>6. \A k \in MissingRows(rows, ids) :
        /\ MissingCand(rows, k) \in Cand /\ FromRow(rows, MissingCand(rows, k))
        /\ MissingCand(rows, k).id = rows[k].id /\ rows[k].id \in RowIds(rows)
  BY <1>2, <1>3 DEF MissingCand, Candidate, Cand, FromRow, MissingRows, NoId, RowIds
<1>7. \A k \in PlannedRows(rows) :
        /\ TbdCand(rows, ids, k) \in Cand /\ FromRow(rows, TbdCand(rows, ids, k))
        /\ TbdCand(rows, ids, k).title = rows[k].title
  BY <1>2, <1>3, <1>4, <1>5 DEF TbdCand, Candidate, Cand, FromRow, PlannedRows
<1>8. C \in SUBSET Cand /\ \A c \in C : FromRow(rows, c)
  BY <1>1, <1>6, <1>7
<1>9. TitlesApart(rows, C)
  <2> SUFFICES ASSUME NEW c \in C, NEW d \in C, c.title = d.title,
                      c.id \notin RowIds(rows), d.id \notin RowIds(rows)
               PROVE  c = d
    BY DEF TitlesApart
  <2>1. PICK j \in PlannedRows(rows) : c = TbdCand(rows, ids, j)
    BY <1>1, <1>6
  <2>2. PICK k \in PlannedRows(rows) : d = TbdCand(rows, ids, k)
    BY <1>1, <1>6
  <2>3. rows[j].title = rows[k].title
    BY <1>7, <2>1, <2>2
  <2>4. j = k
    BY <1>2, <2>3 DEF PlannedRows
  <2> QED  BY <2>1, <2>2, <2>4
<1>10. RowIds(rows) \subseteq CandIds(C) \cup ids
  <2> SUFFICES ASSUME NEW k \in DOMAIN rows, rows[k].id # NoId, rows[k].id \notin ids
               PROVE  rows[k].id \in CandIds(C)
    BY DEF RowIds
  <2>1. k \in MissingRows(rows, ids)
    BY DEF MissingRows
  <2> QED  BY <1>1, <1>6, <2>1 DEF CandIds
<1> QED  BY <1>8, <1>9, <1>10

(* What the model found has a title of its own and a fresh id.             *)
Asked(rows, ids, n, S, found) ==
  /\ rows \in Seq(Row) /\ ids \in SUBSET FolderIds
  /\ \A k \in DOMAIN rows : rows[k].id # NoId /\ rows[k].id \in ids
  /\ n \in Nat /\ S \in SUBSET Titles /\ found \in [1..n -> S]
  /\ \A i, j \in 1..n : i # j => found[i] # found[j]

LEMMA FoundCands ==
  ASSUME Types, NEW rows, NEW ids, NEW n, NEW S, NEW found, Asked(rows, ids, n, S, found),
         NEW C, C = Candidates(rows, ids, found)
  PROVE  /\ C \in SUBSET Cand
         /\ \A c \in C : c.id \notin FolderIds
         /\ TitlesApart(rows, C)
<1> USE DEF Asked
<1>1. MissingRows(rows, ids) = {} /\ PlannedRows(rows) = {}
  BY DEF MissingRows, PlannedRows
<1>2. C = {FoundCand(rows, ids, found, i) : i \in 1..n}
  BY <1>1, CandidatesAre
<1>3. Cardinality(PlannedRows(rows)) = 0
  BY <1>1, FS_EmptySet
<1>4. Len(rows) \in Nat /\ \A i \in 1..n : found[i] \in Titles /\ Cites[found[i]] \in SUBSET Nat
  BY BatchAssumption
<1>5. \A i \in 1..n : FoundCand(rows, ids, found, i) =
        Candidate(PreviewFeatureId(ids, 0 + i - 1), found[i], Cites[found[i]], Len(rows) + 0 + i)
  BY <1>3 DEF FoundCand
<1>6. \A i \in 1..n : /\ PreviewFeatureId(ids, 0 + i - 1) \in Nat \ {0}
                      /\ PreviewFeatureId(ids, 0 + i - 1) \notin FolderIds
  <2> SUFFICES ASSUME NEW i \in 1..n
               PROVE  /\ PreviewFeatureId(ids, 0 + i - 1) \in Nat \ {0}
                      /\ PreviewFeatureId(ids, 0 + i - 1) \notin FolderIds
    OBVIOUS
  <2>1. 0 + i - 1 \in Nat
    OBVIOUS
  <2> QED  BY <2>1, PreviewIdIs
<1>7. \A i \in 1..n : LET c == FoundCand(rows, ids, found, i) IN
        c \in Cand /\ c.title = found[i] /\ c.id \notin FolderIds
  <2> SUFFICES ASSUME NEW i \in 1..n
               PROVE  LET c == FoundCand(rows, ids, found, i) IN
                        c \in Cand /\ c.title = found[i] /\ c.id \notin FolderIds
    OBVIOUS
  <2> DEFINE new == PreviewFeatureId(ids, 0 + i - 1)
             deps == Cites[found[i]]
             c == FoundCand(rows, ids, found, i)
  <2>1. c = [id |-> new, title |-> found[i], deps |-> deps, order |-> Len(rows) + 0 + i]
    BY <1>5 DEF Candidate
  <2>2. new \in Nat \ {0} /\ new \notin FolderIds /\ found[i] \in Titles /\ deps \in SUBSET Nat
    BY <1>4, <1>6
  <2>3. Len(rows) + 0 + i \in Nat
    BY <1>4
  <2> HIDE DEF new, deps, c
  <2> QED  BY <2>1, <2>2, <2>3 DEF Cand, c
<1>8. TitlesApart(rows, C)
  <2> SUFFICES ASSUME NEW c \in C, NEW d \in C, c.title = d.title PROVE c = d
    BY DEF TitlesApart
  <2>1. PICK i \in 1..n : c = FoundCand(rows, ids, found, i)
    BY <1>2
  <2>2. PICK j \in 1..n : d = FoundCand(rows, ids, found, j)
    BY <1>2
  <2>3. found[i] = found[j]
    BY <1>7, <2>1, <2>2
  <2>4. i = j
    BY <2>3
  <2> QED  BY <2>1, <2>2, <2>4
<1> QED  BY <1>2, <1>7, <1>8

-----------------------------------------------------------------------------
(* Writing folders and documents *)

LEMMA Shapes ==
  ASSUME Types
  PROVE  /\ \A s \in Tabs : tab[s].phase = "plan" => tab[s] \in PlanTab
         /\ \A s \in Tabs : tab[s].phase = "waiting" => tab[s] \in WaitingTab
         /\ turn.kind = "apply" => turn \in ApplyTurn
         /\ turn.kind = "submit" => turn \in SubmitTurn
         /\ Idle.kind = "idle" /\ Empty.phase = "empty"
<1>1. Idle.kind = "idle" /\ Empty.phase = "empty"
  BY DEF Idle, Empty
<1>2. \A s \in Tabs : tab[s] \in {Empty} \cup WaitingTab \cup PlanTab
  BY DEF Types
<1>3. \A w \in WaitingTab : w.phase = "waiting"
  BY DEF WaitingTab
<1>4. \A w \in PlanTab : w.phase = "plan"
  BY DEF PlanTab
<1>5. turn \in {Idle} \cup ApplyTurn \cup SubmitTurn
  BY DEF Types
<1>6. \A x \in ApplyTurn : x.kind = "apply"
  BY DEF ApplyTurn
<1>7. \A x \in SubmitTurn : x.kind = "submit"
  BY DEF SubmitTurn
<1> QED  BY <1>1, <1>2, <1>3, <1>4, <1>5, <1>6, <1>7

(* The part of the types that the folders carry. *)
FoldersOK == folders \subseteq Folder /\ \E b \in Nat : \A f \in folders : f.id <= b

NewFolder(id, title, parent, sources) ==
  [id |-> id, title |-> title, epic |-> parent, doc |-> FALSE, deps |-> {}, sources |-> sources, known |-> {}]

(* A folder under an unused id: whoever was promised the id is recorded.   *)
LEMMA MakeFolderDoes ==
  ASSUME BatchInv, NEW id \in Nat \ {0}, id \notin FolderIds, NEW title \in Titles \cup {Other},
         NEW parent \in Epics \cup {NoEpic}, NEW sources \in SUBSET Doc,
         MakeFolder(id, title, parent, sources), UNCHANGED <<epic, tab>>
  PROVE  /\ FoldersOK' /\ Unique' /\ RowsOwn' /\ TabsOK' /\ DependenciesExist'
         /\ FolderIds' = FolderIds \cup {id} /\ CardIds' = CardIds
         /\ folders' = folders \cup {NewFolder(id, title, parent, sources)}
<1> DEFINE new == NewFolder(id, title, parent, sources)
<1>1. folders' = folders \cup {new}
  BY DEF MakeFolder, NewFolder
<1>2. taken' = taken \cup (Promised(id) \ {<<id, parent, title>>})
  BY DEF MakeFolder
<1>3. new \in Folder
  BY DEF NewFolder, Folder
<1>4. new.id = id /\ new.epic = parent /\ new.title = title /\ new.doc = FALSE /\ new.deps = {}
  BY DEF NewFolder
<1> HIDE DEF new
<1>5. FoldersOK'
  <2>1. PICK b \in Nat : \A f \in folders : f.id <= b
    BY DEF BatchInv, Types
  <2>2. \A f \in folders : f.id \in Nat
    BY DEF BatchInv, Types, Folder
  <2>3. b + id \in Nat /\ \A f \in folders \cup {new} : f.id <= b + id
    BY <2>1, <2>2, <1>4
  <2>4. folders' \subseteq Folder
    BY <1>1, <1>3 DEF BatchInv, Types
  <2> QED  BY <1>1, <2>3, <2>4 DEF FoldersOK
<1>6. Unique'
  BY <1>1, <1>4 DEF BatchInv, Unique, FolderIds
<1>7. FolderIds' = FolderIds \cup {id} /\ CardIds' = CardIds
  BY <1>1, <1>4 DEF FolderIds, CardIds, Cards
<1>8. DependenciesExist'
  BY <1>1, <1>4, <1>7 DEF BatchInv, DependenciesExist
<1>9. \A i, e, t : Own(i, e, t) /\ (i = id => <<i, e, t>> \in Promised(id)) => Own(i, e, t)'
  BY <1>1, <1>2, <1>4 DEF Own
<1>10. RowsOwn'
  <2> SUFFICES ASSUME NEW e \in Epics, NEW r \in Range(epic[e].rows)
               PROVE  Own(r.id, e, r.title)'
    BY DEF RowsOwn
  <2>1. Own(r.id, e, r.title)
    BY DEF BatchInv, RowsOwn
  <2>2. r \in Row
    <3>1. epic[e] \in Doc
      BY DEF BatchInv, Types
    <3>2. epic[e].rows \in Seq(Row)
      BY <3>1 DEF Doc
    <3> QED  BY <3>2 DEF Range
  <2>3. r.title \in Titles /\ r = [id |-> r.id, title |-> r.title]
    BY <2>2 DEF Row
  <2>4. r.id = id => <<r.id, e, r.title>> \in Promised(id)
    BY <2>3 DEF Promised
  <2> QED  BY <1>9, <2>1, <2>4
<1>11. TabsOK'
  <2> SUFFICES ASSUME NEW s \in Tabs
               PROVE  /\ tab[s].phase = "waiting" => WaitOK(tab[s])'
                      /\ tab[s].phase = "plan" => PlanOK(tab[s])'
    BY DEF TabsOK
  <2>1. tab[s].phase = "waiting" => WaitOK(tab[s])'
    BY <1>7 DEF BatchInv, TabsOK, WaitOK
  <2>2. ASSUME tab[s].phase = "plan" PROVE PlanOK(tab[s])'
    <3>1. PlanOK(tab[s]) /\ tab[s] \in PlanTab
      BY <2>2, Shapes DEF BatchInv, TabsOK
    <3>2. tab[s].epic \in Epics /\ tab[s].cands \subseteq Cand
      BY <3>1 DEF PlanTab
    <3>3. \A c \in tab[s].cands : Own(c.id, tab[s].epic, c.title)'
      <4> SUFFICES ASSUME NEW c \in tab[s].cands PROVE Own(c.id, tab[s].epic, c.title)'
        OBVIOUS
      <4>1. c.title \in Titles
        BY <3>2 DEF Cand
      <4>2. c.id = id => <<c.id, tab[s].epic, c.title>> \in Promised(id)
        BY <2>2, <3>2, <4>1 DEF Promised
      <4> QED  BY <1>9, <3>1, <4>2 DEF PlanOK
    <3>4. RowIds(tab[s].doc.rows) \subseteq CandIds(tab[s].cands) \cup FolderIds'
      BY <1>7, <3>1 DEF PlanOK
    <3> QED  BY <3>3, <3>4 DEF PlanOK, CandIds, RowIds
  <2> QED  BY <2>1, <2>2
<1> QED  BY <1>1, <1>5, <1>6, <1>7, <1>8, <1>10, <1>11 DEF new

(* A document: the folder stays the FEAT it was. *)
Written(f, id, title, deps, known) ==
  IF f.id = id /\ f.title = title THEN [f EXCEPT !.doc = TRUE, !.deps = deps, !.known = known] ELSE f

LEMMA WriteDocumentDoes ==
  ASSUME BatchInv, NEW id, NEW title, NEW deps \in SUBSET Nat, NEW known \in SUBSET Nat,
         deps \cap known \subseteq FolderIds, WriteDocument(id, title, deps, known), UNCHANGED <<epic, tab, taken>>
  PROVE  /\ FoldersOK' /\ Unique' /\ RowsOwn' /\ TabsOK' /\ DependenciesExist'
         /\ FolderIds' = FolderIds /\ CardIds \subseteq CardIds'
         /\ \A g \in folders' : \E f \in folders :
              g.id = f.id /\ g.title = f.title /\ g.epic = f.epic /\ g.sources = f.sources
<1>1. folders' = {Written(f, id, title, deps, known) : f \in folders}
  BY DEF WriteDocument, Written
<1>3. \A f \in folders : LET g == Written(f, id, title, deps, known) IN
        /\ g \in Folder /\ g.id = f.id /\ g.title = f.title /\ g.epic = f.epic /\ g.sources = f.sources
        /\ f.doc => g.doc
        /\ (g.deps = f.deps /\ g.known = f.known) \/ (g.deps = deps /\ g.known = known)
  <2> SUFFICES ASSUME NEW f \in folders
               PROVE LET g == Written(f, id, title, deps, known) IN
        /\ g \in Folder /\ g.id = f.id /\ g.title = f.title /\ g.epic = f.epic /\ g.sources = f.sources
        /\ f.doc => g.doc
        /\ (g.deps = f.deps /\ g.known = f.known) \/ (g.deps = deps /\ g.known = known)
    OBVIOUS
  <2>1. f \in Folder
    BY DEF BatchInv, Types
  <2> QED  BY <2>1 DEF Written, Folder
<1>4. FolderIds' = FolderIds
  BY <1>1, <1>3 DEF FolderIds
<1>5. CardIds \subseteq CardIds'
  BY <1>1, <1>3 DEF CardIds, Cards
<1>6. FoldersOK'
  <2>1. PICK b \in Nat : \A f \in folders : f.id <= b
    BY DEF BatchInv, Types
  <2>2. \A f \in folders' : f.id <= b
    BY <1>1, <1>3, <2>1
  <2> QED  BY <1>1, <1>3, <2>2 DEF FoldersOK
<1>7. Unique'
  BY <1>1, <1>3 DEF BatchInv, Unique
<1>8. DependenciesExist'
  <2> SUFFICES ASSUME NEW f \in folders PROVE LET g == Written(f, id, title, deps, known) IN g.deps \cap g.known \subseteq FolderIds
    BY <1>1, <1>4 DEF DependenciesExist
  <2>1. f.deps \cap f.known \subseteq FolderIds
    BY DEF BatchInv, DependenciesExist
  <2> DEFINE g == Written(f, id, title, deps, known)
  <2>2. (g.deps = f.deps /\ g.known = f.known) \/ (g.deps = deps /\ g.known = known)
    BY <1>3
  <2> HIDE DEF g
  <2>3. g.deps \cap g.known \subseteq FolderIds
    BY <2>1, <2>2
  <2> QED  BY <2>3 DEF g
<1>9. \A i, e, t : Own(i, e, t) => Own(i, e, t)'
  BY <1>1, <1>3 DEF Own
<1>10. RowsOwn'
  BY <1>9 DEF BatchInv, RowsOwn
<1>11. TabsOK'
  <2> SUFFICES ASSUME NEW s \in Tabs
               PROVE  /\ tab[s].phase = "waiting" => WaitOK(tab[s])'
                      /\ tab[s].phase = "plan" => PlanOK(tab[s])'
    BY DEF TabsOK
  <2>1. tab[s].phase = "waiting" => WaitOK(tab[s])'
    BY <1>5 DEF BatchInv, TabsOK, WaitOK
  <2>2. tab[s].phase = "plan" => PlanOK(tab[s])'
    BY <1>4, <1>9 DEF BatchInv, TabsOK, PlanOK, CandIds, RowIds
  <2> QED  BY <2>1, <2>2
<1>12. \A g \in folders' : \E f \in folders :
         g.id = f.id /\ g.title = f.title /\ g.epic = f.epic /\ g.sources = f.sources
  BY <1>1, <1>3
<1> QED  BY <1>4, <1>5, <1>6, <1>7, <1>8, <1>10, <1>11, <1>12

-----------------------------------------------------------------------------
(* The actions *)

LEMMA InitBatch ==
  ASSUME Init
  PROVE  BatchInv
<1>1. Idle.kind = "idle" /\ Empty.phase = "empty"
  BY DEF Idle, Empty
<1>2. FolderIds = {} /\ folders = {}
  BY DEF Init, FolderIds
<1>3. Types
  <2>1. epic \in [Epics -> Doc]
    BY BatchAssumption DEF Init, Doc
  <2>2. tab \in [Tabs -> {Empty} \cup WaitingTab \cup PlanTab]
    BY DEF Init
  <2>3. \E b \in Nat : \A f \in folders : f.id <= b
    BY <1>2
  <2>4. folders \subseteq Folder /\ counter \in Nat /\ turn \in {Idle} \cup ApplyTurn \cup SubmitTurn
    BY DEF Init
  <2> QED  BY <2>1, <2>2, <2>3, <2>4 DEF Types
<1>4. Unique /\ RowsOwn /\ DependenciesExist
  BY <1>2 DEF Unique, RowsOwn, Own, DependenciesExist
<1>5. ApplyOK /\ SubmitOK
  BY <1>1 DEF Init, ApplyOK, SubmitOK, Applies
<1>6. TabsOK
  <2>1. \A s \in Tabs : tab[s].phase = "empty"
    BY <1>1 DEF Init
  <2> QED  BY <2>1 DEF TabsOK
<1> QED  BY <1>3, <1>4, <1>5, <1>6 DEF BatchInv

(* A step of one tab while nothing is being written. *)
LEMMA TabStep ==
  ASSUME BatchInv, NEW t \in Tabs, turn = Idle, NEW x \in {Empty} \cup WaitingTab \cup PlanTab,
         tab' = [tab EXCEPT ![t] = x],
         UNCHANGED <<folders, counter, epic, turn, taken>>,
         x.phase = "waiting" => WaitOK(x), x.phase = "plan" => PlanOK(x)
  PROVE  BatchInv'
<1>1. turn.kind = "idle"
  BY Shapes DEF BatchInv
<1>2. Types'
  BY DEF BatchInv, Types
<1>3. Unique' /\ RowsOwn' /\ DependenciesExist'
  BY DEF BatchInv, Unique, RowsOwn, Own, DependenciesExist, FolderIds
<1>4. ApplyOK' /\ SubmitOK'
  BY <1>1 DEF ApplyOK, SubmitOK, Applies
<1>5. \A s \in Tabs : tab'[s] = IF s = t THEN x ELSE tab[s]
  BY DEF BatchInv, Types
<1>6. FolderIds' = FolderIds /\ CardIds' = CardIds
  BY DEF FolderIds, CardIds, Cards
<1>7. \A i, e, u : Own(i, e, u)' <=> Own(i, e, u)
  BY DEF Own
<1>8. \A s \in Tabs : tab'[s].phase = "waiting" => WaitOK(tab'[s])
  BY <1>5 DEF BatchInv, TabsOK
<1>9. \A s \in Tabs : tab'[s].phase = "plan" => PlanOK(tab'[s])
  BY <1>5 DEF BatchInv, TabsOK
<1>10. TabsOK'
  <2>1. \A s \in Tabs : tab'[s].phase = "waiting" => WaitOK(tab[s])'
    BY <1>6, <1>8 DEF WaitOK
  <2>2. \A s \in Tabs : tab'[s].phase = "plan" => PlanOK(tab[s])'
    BY <1>6, <1>7, <1>9 DEF PlanOK, CandIds, RowIds
  <2> QED  BY <2>1, <2>2 DEF TabsOK
<1> QED  BY <1>2, <1>3, <1>4, <1>10 DEF BatchInv

(* What the tabs hold stays right while no folder and no claim changes. *)
LEMMA TabsKept ==
  ASSUME BatchInv, UNCHANGED <<folders, taken, tab>>
  PROVE  TabsOK'
<1>1. FolderIds' = FolderIds /\ CardIds' = CardIds
  BY DEF FolderIds, CardIds, Cards
<1>2. \A i, e, u : Own(i, e, u)' <=> Own(i, e, u)
  BY DEF Own
<1>3. \A s \in Tabs : tab[s].phase = "waiting" => WaitOK(tab[s])'
  BY <1>1 DEF BatchInv, TabsOK, WaitOK
<1>4. \A s \in Tabs : tab[s].phase = "plan" => PlanOK(tab[s])'
  BY <1>1, <1>2 DEF BatchInv, TabsOK, PlanOK, CandIds, RowIds
<1> QED  BY <1>3, <1>4 DEF TabsOK

LEMMA RowsAre ==
  ASSUME Types, NEW e \in Epics
  PROVE  /\ epic[e] \in Doc /\ epic[e].rows \in Seq(Row)
         /\ \A k \in DOMAIN epic[e].rows : /\ epic[e].rows[k] \in Row
                                           /\ epic[e].rows[k] \in Range(epic[e].rows)
<1>1. epic[e] \in Doc
  BY DEF Types
<1>2. epic[e].rows \in Seq(Row)
  BY <1>1 DEF Doc
<1>3. \A k \in DOMAIN epic[e].rows : epic[e].rows[k] \in Row
  BY <1>2
<1> QED  BY <1>1, <1>2, <1>3 DEF Range

(* A table that leaves nothing to plan holds ids of cards only. *)
LEMMA NothingPlanned ==
  ASSUME NEW rows \in Seq(Row), NEW ids, Candidates(rows, ids, <<>>) = {}
  PROVE  \A k \in DOMAIN rows : rows[k].id # NoId /\ rows[k].id \in ids
<1>1. MissingRows(rows, ids) = {} /\ PlannedRows(rows) = {}
  BY CandidatesAre
<1>2. \A k \in DOMAIN rows : rows[k].id # NoId
  <2> SUFFICES ASSUME NEW k \in DOMAIN rows, rows[k].id = NoId
               PROVE  FALSE
    OBVIOUS
  <2> DEFINE S == {j \in DOMAIN rows : rows[j].id = NoId}
  <2>1. S \in SUBSET Nat /\ S # {}
    OBVIOUS
  <2>2. PICK m \in S : \A j \in S : m <= j
    <3> HIDE DEF S
    <3> QED  BY <2>1, LeastNumber
  <2>3. m \in DOMAIN rows /\ rows[m].id = NoId /\ \A j \in 1..(m - 1) : rows[j].id # NoId
    BY <2>2
  <2> HIDE DEF S
  <2> QED  BY <1>1, <2>3 DEF PlannedRows
<1> QED  BY <1>1, <1>2 DEF MissingRows

LEMMA PreviewKeeps ==
  ASSUME BatchInv, NEW t \in Tabs, NEW e \in Epics, Preview(t, e)
  PROVE  BatchInv'
<1> DEFINE rows == epic[e].rows
           C == Candidates(epic[e].rows, CardIds, <<>>)
           x == IF C # {} THEN Plan(e, epic[e], C) ELSE Waiting(e)
<1>1. Types /\ RowsOwn
  BY DEF BatchInv
<1>2. epic[e] \in Doc /\ rows \in Seq(Row) /\ \A k \in DOMAIN rows : rows[k] \in Range(rows)
  BY <1>1, RowsAre
<1>3. CardIds \in SUBSET FolderIds
  BY <1>1, FolderIdsAre
<1>4. /\ C \in SUBSET Cand
      /\ \A c \in C : FromRow(rows, c)
      /\ RowIds(rows) \subseteq CandIds(C) \cup CardIds
  BY <1>1, <1>2, <1>3, TableCands
<1>5. /\ turn = Idle /\ tab' = [tab EXCEPT ![t] = x]
      /\ UNCHANGED <<folders, counter, epic, turn, taken>>
  BY DEF Preview
<1> HIDE DEF C
<1>6. CASE C # {}
  <2>1. x = Plan(e, epic[e], C)
    BY <1>6
  <2>2. x \in PlanTab /\ x.phase = "plan" /\ x.epic = e /\ x.cands = C /\ x.doc = epic[e]
    BY <1>2, <1>4, <2>1 DEF Plan, PlanTab
  <2> HIDE DEF x
  <2>3. \A c \in C : Own(c.id, e, c.title)
    <3> SUFFICES ASSUME NEW c \in C PROVE Own(c.id, e, c.title)
      OBVIOUS
    <3>1. FromRow(rows, c)
      BY <1>4
    <3>2. CASE c.id \notin FolderIds
      BY <3>2 DEF Own, FolderIds
    <3>3. CASE \E k \in DOMAIN rows : c.id = rows[k].id /\ c.title = rows[k].title
      BY <1>1, <1>2, <3>3 DEF RowsOwn
    <3> QED  BY <3>1, <3>2, <3>3 DEF FromRow
  <2>4. PlanOK(x)
    BY <1>3, <1>4, <2>2, <2>3 DEF PlanOK
  <2> QED  BY <1>5, <2>2, <2>4, TabStep
<1>7. CASE C = {}
  <2>1. x = Waiting(e)
    BY <1>7
  <2>2. Cards \in SUBSET Folder
    BY <1>1 DEF Types, Cards
  <2>3. x \in WaitingTab /\ x.phase = "waiting" /\ x.doc = epic[e] /\ x.cards = Cards
    BY <1>2, <2>1, <2>2 DEF Waiting, WaitingTab
  <2> HIDE DEF x
  <2>4. WaitOK(x)
    <3>1. \A k \in DOMAIN rows : rows[k].id # NoId /\ rows[k].id \in CardIds
      BY <1>7, NothingPlanned, <1>2 DEF C
    <3> QED  BY <2>3, <3>1 DEF WaitOK, CardIds
  <2> QED  BY <1>5, <2>3, <2>4, TabStep
<1> QED  BY <1>6, <1>7

LEMMA DiscoveredKeeps ==
  ASSUME BatchInv, NEW t \in Tabs, Discovered(t)
  PROVE  BatchInv'
<1> DEFINE w == tab[t]
           ids == {f.id : f \in w.cards}
<1>1. Types /\ w.phase = "waiting" /\ turn = Idle
  BY DEF BatchInv, Discovered
<1>2. w \in WaitingTab /\ WaitOK(w)
  BY <1>1, Shapes DEF BatchInv, TabsOK
<1>0. PICK S \in SUBSET (Prose[w.epic] \ TbdTitles(w.doc.rows)) : \E found \in SetToSeqs(S) :
        tab' = [tab EXCEPT ![t] = Plan(w.epic, w.doc, Candidates(w.doc.rows, ids, found))]
  BY DEF Discovered
<1>3. PICK found \in SetToSeqs(S) :
        tab' = [tab EXCEPT ![t] = Plan(w.epic, w.doc, Candidates(w.doc.rows, ids, found))]
  BY <1>0
<1> DEFINE C == Candidates(w.doc.rows, ids, found)
           x == Plan(w.epic, w.doc, C)
<1>4. w.epic \in Epics /\ w.doc \in Doc
  BY <1>2 DEF WaitingTab
<1>5. w.doc.rows \in Seq(Row)
  BY <1>4 DEF Doc
<1>6. S \in SUBSET Titles /\ IsFiniteSet(S)
  <2>1. Prose[w.epic] \subseteq Titles /\ IsFiniteSet(Prose[w.epic])
    BY <1>4, BatchAssumption
  <2> QED  BY <2>1, FS_Subset
<1>7. ids \in SUBSET FolderIds
  BY <1>1, <1>2, FolderIdsAre DEF WaitOK
<1>8. \A k \in DOMAIN w.doc.rows : w.doc.rows[k].id # NoId /\ w.doc.rows[k].id \in ids
  BY <1>2 DEF WaitOK
<1>9. Cardinality(S) \in Nat
  BY <1>6, FS_CardinalityType
<1>10. /\ found \in [1..Cardinality(S) -> S]
       /\ \A i, j \in 1..Cardinality(S) : i # j => found[i] # found[j]
  BY <1>9 DEF SetToSeqs
<1> HIDE DEF ids
<1>11. /\ C \in SUBSET Cand
       /\ \A c \in C : c.id \notin FolderIds
  <2> DEFINE rows == w.doc.rows
             n == Cardinality(S)
  <2>1. Asked(rows, ids, n, S, found)
    BY <1>5, <1>6, <1>7, <1>8, <1>9, <1>10 DEF Asked
  <2> HIDE DEF rows, n
  <2>2. C = Candidates(rows, ids, found)
    BY DEF rows
  <2> HIDE DEF C
  <2> QED  BY <1>1, <2>1, <2>2, FoundCands
<1> HIDE DEF C
<1>12. x \in PlanTab /\ x.phase = "plan" /\ x.epic = w.epic /\ x.cands = C /\ x.doc = w.doc
  BY <1>4, <1>11 DEF Plan, PlanTab
<1> HIDE DEF x
<1>13. PlanOK(x)
  <2>1. RowIds(w.doc.rows) \subseteq FolderIds
    BY <1>7, <1>8 DEF RowIds
  <2> QED  BY <1>11, <1>12, <2>1 DEF PlanOK, Own, FolderIds
<1>14. tab' = [tab EXCEPT ![t] = x]
  BY <1>3 DEF x, C
<1>15. UNCHANGED <<folders, counter, epic, turn, taken>>
  BY DEF Discovered
<1> QED  BY <1>1, <1>12, <1>13, <1>14, <1>15, TabStep

LEMMA EmptiedKeeps ==
  ASSUME BatchInv, NEW t \in Tabs, Discard(t) \/ RefuseApply(t)
  PROVE  BatchInv'
<1>1. /\ turn = Idle /\ tab' = [tab EXCEPT ![t] = Empty]
      /\ UNCHANGED <<folders, counter, epic, turn, taken>>
  BY DEF Discard, RefuseApply
<1>2. Empty.phase = "empty"
  BY DEF Empty
<1> QED  BY <1>1, <1>2, TabStep

(* A step of the turn that writes no file the invariant reads. *)
LEMMA TurnStep ==
  ASSUME BatchInv, UNCHANGED <<folders, epic, tab, taken>>, counter' \in Nat,
         turn' \in {Idle} \cup ApplyTurn \cup SubmitTurn, ApplyOK', SubmitOK'
  PROVE  BatchInv'
<1>1. Types'
  BY DEF BatchInv, Types
<1>2. Unique' /\ RowsOwn' /\ DependenciesExist'
  BY DEF BatchInv, Unique, RowsOwn, Own, DependenciesExist, FolderIds
<1>3. TabsOK'
  BY TabsKept
<1> QED  BY <1>1, <1>2, <1>3 DEF BatchInv

LEMMA StartApplyKeeps ==
  ASSUME BatchInv, NEW t \in Tabs, StartApply(t)
  PROVE  BatchInv'
<1> DEFINE u == Applying(t)
<1>1. FolderIds \in SUBSET Nat
  BY FolderIdsAre DEF BatchInv
<1>2. /\ u \in ApplyTurn /\ u.kind = "apply" /\ u.tab = t /\ u.had = FolderIds
      /\ u.visited = {} /\ u.stage = "folder"
  BY <1>1 DEF Applying, ApplyTurn, Stages
<1>3. turn' = u
  BY DEF StartApply
<1> HIDE DEF u
<1>4. Batch' = tab[t] /\ FolderIds' = FolderIds
  BY <1>2, <1>3 DEF StartApply, Batch, FolderIds
<1>5. tab[t].phase = "plan" /\ ~Unorderable(tab[t].cands)
  BY DEF StartApply
<1>6. ApplyOK'
  BY <1>2, <1>3, <1>4, <1>5 DEF ApplyOK, Unorderable, CandIds
<1>7. SubmitOK'
  BY <1>2, <1>3 DEF SubmitOK
<1> QED  BY <1>2, <1>3, <1>6, <1>7, TurnStep DEF StartApply, BatchInv, Types

(* The apply in progress and the candidate it is about to create. *)
LEMMA ApplyIs ==
  ASSUME BatchInv, Applies
  PROVE  /\ turn \in ApplyTurn /\ turn.tab \in Tabs /\ turn.had \in SUBSET Nat
         /\ turn.visited \in SUBSET Nat /\ turn.stage \in Stages
         /\ Batch \in PlanTab /\ Batch.epic \in Epics /\ Batch.doc \in Doc /\ Batch.cands \in SUBSET Cand
         /\ PlanOK(Batch) /\ Batch.phase = "plan" /\ ~Unorderable(Batch.cands)
         /\ turn.visited \in SUBSET CandIds(Batch.cands)
<1>1. turn \in ApplyTurn
  BY Shapes DEF BatchInv, Applies
<1>2. turn.tab \in Tabs /\ turn.had \in SUBSET Nat /\ turn.visited \in SUBSET Nat /\ turn.stage \in Stages
  BY <1>1 DEF ApplyTurn
<1>3. /\ Batch.phase = "plan" /\ ~Unorderable(Batch.cands)
      /\ turn.visited \in SUBSET CandIds(Batch.cands)
  BY DEF BatchInv, ApplyOK
<1>4. Batch \in PlanTab /\ PlanOK(Batch)
  BY <1>2, <1>3, Shapes DEF BatchInv, TabsOK, Batch
<1>5. Batch.epic \in Epics /\ Batch.doc \in Doc /\ Batch.cands \in SUBSET Cand
  BY <1>4 DEF PlanTab
<1> QED  BY <1>1, <1>2, <1>3, <1>4, <1>5

LEMMA ActiveIs ==
  ASSUME BatchInv, Applies, turn.visited # CandIds(Batch.cands)
  PROVE  /\ Active \in Batch.cands /\ Active \in Cand /\ Active.id \in Nat \ {0} /\ Active.title \in Titles
         /\ Active.id \notin turn.visited /\ Active.id \in CandIds(Batch.cands)
         /\ Active.deps \in SUBSET Nat
         /\ Active.deps \cap (RowIds(Batch.doc.rows) \cup CandIds(Batch.cands)) \subseteq FolderIds
<1>1. /\ Batch.cands \in SUBSET Cand /\ PlanOK(Batch) /\ ~Unorderable(Batch.cands)
      /\ turn.visited \in SUBSET CandIds(Batch.cands)
  BY ApplyIs
<1>2. /\ Active \in Batch.cands /\ Active.id \notin turn.visited
      /\ Active.deps \cap CandIds(Batch.cands) \subseteq turn.visited
  BY <1>1, NextIs DEF Active
<1>3. turn.visited \subseteq FolderIds
  BY DEF BatchInv, ApplyOK
<1>4. RowIds(Batch.doc.rows) \subseteq CandIds(Batch.cands) \cup FolderIds
  BY <1>1 DEF PlanOK
<1>5. Active.id \in Nat \ {0} /\ Active.title \in Titles /\ Active \in Cand /\ Active.deps \in SUBSET Nat
  BY <1>1, <1>2 DEF Cand
<1>6. Active.id \in CandIds(Batch.cands)
  BY <1>2 DEF CandIds
<1> QED  BY <1>2, <1>3, <1>4, <1>5, <1>6

LEMMA VisitCandidateKeeps ==
  ASSUME BatchInv, VisitCandidate
  PROVE  BatchInv'
<1>1. Applies /\ turn.stage = "folder" /\ turn.visited # CandIds(Batch.cands)
  BY DEF VisitCandidate, Applies
<1>2. /\ turn \in ApplyTurn /\ turn.visited \in SUBSET Nat /\ turn.visited \in SUBSET CandIds(Batch.cands)
      /\ turn.tab \in Tabs /\ Batch.phase = "plan" /\ ~Unorderable(Batch.cands) /\ Batch.epic \in Epics
      /\ Batch.doc \in Doc
  BY <1>1, ApplyIs
<1>3. /\ Active.id \in Nat \ {0} /\ Active.title \in Titles /\ Active.id \notin turn.visited
      /\ Active.id \in CandIds(Batch.cands)
  BY <1>1, ActiveIs
<1>4. FolderIds = turn.had \cup turn.visited
  BY <1>1 DEF BatchInv, ApplyOK
<1>5. UNCHANGED <<counter, epic, tab>>
  BY DEF VisitCandidate
<1>6. CASE Active.id \in turn.had
  <2>1. turn' = [turn EXCEPT !.visited = @ \cup {Active.id}] /\ UNCHANGED <<folders, taken>>
    BY <1>6 DEF VisitCandidate, Active
  <2>2. /\ turn' \in ApplyTurn /\ turn'.kind = "apply" /\ turn'.tab = turn.tab /\ turn'.had = turn.had
        /\ turn'.visited = turn.visited \cup {Active.id} /\ turn'.stage = "folder"
    BY <1>1, <1>2, <1>3, <2>1 DEF ApplyTurn
  <2>3. Batch' = Batch /\ FolderIds' = FolderIds
    BY <1>5, <2>1, <2>2 DEF Batch, FolderIds
  <2>4. ApplyOK'
    BY <1>2, <1>3, <1>4, <1>6, <2>2, <2>3 DEF ApplyOK, Unorderable, CandIds
  <2>5. SubmitOK'
    BY <2>2 DEF SubmitOK
  <2> QED  BY <1>5, <2>1, <2>2, <2>4, <2>5, TurnStep DEF BatchInv, Types
<1>7. CASE Active.id \notin turn.had
  <2>1. /\ turn' = [turn EXCEPT !.stage = "document"]
        /\ MakeFolder(Active.id, Active.title, Batch.epic, {Batch.doc})
    BY <1>7 DEF VisitCandidate, Active
  <2>2. /\ turn' \in ApplyTurn /\ turn'.kind = "apply" /\ turn'.tab = turn.tab /\ turn'.had = turn.had
        /\ turn'.visited = turn.visited /\ turn'.stage = "document"
    BY <1>1, <1>2, <2>1 DEF ApplyTurn, Stages
  <2>3. /\ FoldersOK' /\ Unique' /\ RowsOwn' /\ TabsOK' /\ DependenciesExist'
        /\ FolderIds' = FolderIds \cup {Active.id}
    <3> DEFINE i == Active.id
               u == Active.title
               e == Batch.epic
               D == {Batch.doc}
    <3>1. /\ i \in Nat \ {0} /\ i \notin FolderIds /\ u \in Titles \cup {Other} /\ e \in Epics \cup {NoEpic}
          /\ D \in SUBSET Doc /\ MakeFolder(i, u, e, D) /\ UNCHANGED <<epic, tab>>
      BY <1>2, <1>3, <1>4, <1>5, <1>7, <2>1
    <3>2. FolderIds \cup {i} = FolderIds \cup {Active.id}
      OBVIOUS
    <3> HIDE DEF i, u, e, D
    <3> QED  BY <3>1, <3>2, MakeFolderDoes
  <2>4. Batch' = Batch
    BY <1>5, <2>2 DEF Batch
  <2>5. Active' = Active
    BY <2>2, <2>4 DEF Active, NextInOrder, FirstOf, CandIds
  <2>6. ApplyOK'
    BY <1>1, <1>2, <1>4, <1>7, <2>2, <2>3, <2>4, <2>5 DEF ApplyOK, Unorderable, CandIds
  <2>7. SubmitOK'
    BY <2>2 DEF SubmitOK
  <2>8. Types'
    BY <1>5, <2>2, <2>3 DEF BatchInv, Types, FoldersOK
  <2> QED  BY <2>3, <2>6, <2>7, <2>8 DEF BatchInv
<1> QED  BY <1>6, <1>7

LEMMA WriteChildKeeps ==
  ASSUME BatchInv, WriteChild
  PROVE  BatchInv'
<1>1. Applies /\ turn.stage = "document"
  BY DEF WriteChild, Applies
<1>2. /\ turn \in ApplyTurn /\ turn.visited \in SUBSET Nat /\ turn.visited \in SUBSET CandIds(Batch.cands)
      /\ turn.tab \in Tabs /\ Batch.phase = "plan" /\ ~Unorderable(Batch.cands)
  BY <1>1, ApplyIs
<1>3. turn.visited # CandIds(Batch.cands) /\ FolderIds = turn.had \cup turn.visited \cup {Active.id}
  BY <1>1 DEF BatchInv, ApplyOK
<1>4. /\ Active.id \in Nat \ {0} /\ Active.id \in CandIds(Batch.cands)
      /\ Active.deps \in SUBSET Nat
      /\ Active.deps \cap (RowIds(Batch.doc.rows) \cup CandIds(Batch.cands)) \subseteq FolderIds
  BY <1>1, <1>3, ActiveIs
<1> DEFINE known == RowIds(Batch.doc.rows) \cup CandIds(Batch.cands)
           deps == IF Active.id \in RowIds(Batch.doc.rows) THEN {} ELSE Active.deps
<1>5. /\ WriteDocument(Active.id, Active.title, deps, known) /\ UNCHANGED <<counter, epic, tab, taken>>
      /\ turn' = [turn EXCEPT !.stage = "folder", !.visited = @ \cup {Active.id}]
  BY DEF WriteChild, Active
<1>6. deps \in SUBSET Nat /\ known \in SUBSET Nat /\ deps \cap known \subseteq FolderIds
  <2>1. Batch.doc \in Doc /\ Batch.cands \in SUBSET Cand
    BY <1>1, ApplyIs
  <2>2. \A k \in DOMAIN Batch.doc.rows : Batch.doc.rows[k] \in Row
    BY <2>1 DEF Doc
  <2>3. known \in SUBSET Nat
    BY <2>1, <2>2 DEF RowIds, CandIds, Cand, Row
  <2> QED  BY <1>4, <2>3
<1> HIDE DEF deps, known
<1>7. /\ turn' \in ApplyTurn /\ turn'.kind = "apply" /\ turn'.tab = turn.tab /\ turn'.had = turn.had
      /\ turn'.visited = turn.visited \cup {Active.id} /\ turn'.stage = "folder"
  BY <1>1, <1>2, <1>4, <1>5 DEF ApplyTurn, Stages
<1>8. /\ FoldersOK' /\ Unique' /\ RowsOwn' /\ TabsOK' /\ DependenciesExist'
      /\ FolderIds' = FolderIds
  BY <1>5, <1>6, WriteDocumentDoes
<1>9. Batch' = Batch
  BY <1>5, <1>7 DEF Batch
<1>10. ApplyOK'
  BY <1>2, <1>3, <1>4, <1>7, <1>8, <1>9 DEF ApplyOK, Unorderable, CandIds
<1>11. SubmitOK'
  BY <1>7 DEF SubmitOK
<1>12. Types'
  BY <1>5, <1>7, <1>8 DEF BatchInv, Types, FoldersOK
<1> QED  BY <1>8, <1>10, <1>11, <1>12 DEF BatchInv

LEMMA AdvanceFeaturePastKeeps ==
  ASSUME BatchInv, AdvanceFeaturePast
  PROVE  BatchInv'
<1>1. Applies /\ turn.stage = "folder" /\ turn.visited = CandIds(Batch.cands)
  BY DEF AdvanceFeaturePast, Applies
<1>2. turn \in ApplyTurn /\ turn.tab \in Tabs /\ Batch.phase = "plan" /\ ~Unorderable(Batch.cands)
  BY <1>1, ApplyIs
<1>3. FolderIds = turn.had \cup turn.visited
  BY <1>1 DEF BatchInv, ApplyOK
<1>4. /\ turn' = [turn EXCEPT !.stage = "epic"] /\ UNCHANGED <<folders, epic, tab, taken>>
      /\ counter' = Max({counter, Largest(CandIds(Created)) + 1})
  BY DEF AdvanceFeaturePast
<1>5. counter' \in Nat
  <2> DEFINE l == Largest(CandIds(Created))
             S == {counter, l + 1}
  <2>1. CandIds(Created) \in SUBSET FolderIds
    BY DEF CandIds, Created
  <2>2. l \in Nat
    BY <2>1, FolderIdsAre, LargestIs DEF BatchInv
  <2> HIDE DEF l
  <2>3. counter \in Nat
    BY DEF BatchInv, Types
  <2>4. S \in SUBSET Nat /\ S # {} /\ counter + l + 1 \in Nat /\ \A x \in S : x <= counter + l + 1
    BY <2>2, <2>3
  <2>5. counter' = Max(S)
    BY <1>4 DEF l
  <2> HIDE DEF S
  <2> QED  BY <2>4, <2>5, MaxIs
<1>6. /\ turn' \in ApplyTurn /\ turn'.kind = "apply" /\ turn'.tab = turn.tab /\ turn'.had = turn.had
      /\ turn'.visited = turn.visited /\ turn'.stage = "epic"
  BY <1>1, <1>2, <1>4 DEF ApplyTurn, Stages
<1>7. Batch' = Batch /\ FolderIds' = FolderIds
  BY <1>4, <1>6 DEF Batch, FolderIds
<1>8. ApplyOK' /\ SubmitOK'
  BY <1>1, <1>2, <1>3, <1>6, <1>7 DEF ApplyOK, SubmitOK, Unorderable, CandIds
<1> QED  BY <1>4, <1>5, <1>6, <1>8, TurnStep

(* The table an apply writes: a filled row, or the appended one, is that   *)
(* of the candidate whose rank is the number of TBD rows above it.         *)
Rowless(rows, C) == {c \in C : c.id \notin RowIds(rows)}
Tbds(rows, n) == Cardinality({j \in 1..n : rows[j].id = NoId})
At(rows, C, n) == {c \in Rowless(rows, C) : Cardinality({d \in Rowless(rows, C) : d.order < c.order}) = n}
Cell(c) == [id |-> c.id, title |-> c.title]

(* What an old row became, and what was appended. *)
RowFilled(rows, C, k, cell) ==
  \/ cell = rows[k] /\ (rows[k].id = NoId => At(rows, C, Tbds(rows, k - 1)) = {})
  \/ rows[k].id = NoId /\ \E c \in At(rows, C, Tbds(rows, k - 1)) : cell = Cell(c)
RowAdded(rows, C, cell) == \E c \in At(rows, C, Tbds(rows, Len(rows))) : cell = Cell(c)

LEMMA FilledIs ==
  ASSUME NEW rows \in Seq(Row), NEW C \in SUBSET Cand, NEW F, F = FilledTable(rows, C)
  PROVE  /\ F \in Seq(Row) /\ Len(F) \in {Len(rows), Len(rows) + 1}
         /\ \A k \in DOMAIN rows : RowFilled(rows, C, k, F[k])
         /\ \A k \in DOMAIN F : k \in DOMAIN rows \/ (k = Len(rows) + 1 /\ RowAdded(rows, C, F[k]))
<1> DEFINE Cells(n) == {Cell(c) : c \in At(rows, C, n)}
           G == [k \in DOMAIN rows |-> IF rows[k].id = NoId /\ At(rows, C, Tbds(rows, k - 1)) # {}
                                       THEN CHOOSE cell \in Cells(Tbds(rows, k - 1)) : TRUE ELSE rows[k]]
           rest == Cells(Tbds(rows, Len(rows)))
<1>1. F = IF rest # {} THEN Append(G, CHOOSE cell \in rest : TRUE) ELSE G
  BY DEF FilledTable, Rowless, Tbds, At, Cell
<1>2. \A n : Cells(n) \subseteq Row
  <2>1. \A c \in C : Cell(c) \in Row
    BY DEF Cell, Cand, Row
  <2>2. \A n : At(rows, C, n) \subseteq C
    BY DEF At, Rowless
  <2> QED  BY <2>1, <2>2
<1>3. \A n : At(rows, C, n) # {} => (CHOOSE cell \in Cells(n) : TRUE) \in Cells(n)
  OBVIOUS
<1>4. \A k \in DOMAIN rows : rows[k] \in Row
  OBVIOUS
<1>5. \A k \in DOMAIN rows : G[k] \in Row /\
        \/ G[k] = rows[k] /\ (rows[k].id = NoId => At(rows, C, Tbds(rows, k - 1)) = {})
        \/ rows[k].id = NoId /\ G[k] \in Cells(Tbds(rows, k - 1))
  <2> SUFFICES ASSUME NEW k \in DOMAIN rows
      PROVE G[k] \in Row /\
        \/ G[k] = rows[k] /\ (rows[k].id = NoId => At(rows, C, Tbds(rows, k - 1)) = {})
        \/ rows[k].id = NoId /\ G[k] \in Cells(Tbds(rows, k - 1))
    OBVIOUS
  <2>1. CASE rows[k].id = NoId /\ At(rows, C, Tbds(rows, k - 1)) # {}
    <3>1. G[k] = CHOOSE cell \in Cells(Tbds(rows, k - 1)) : TRUE
      BY <2>1
    <3>2. G[k] \in Cells(Tbds(rows, k - 1))
      BY <1>3, <2>1, <3>1
    <3> HIDE DEF G, Cells
    <3> QED  BY <1>2, <2>1, <3>2
  <2>2. CASE ~(rows[k].id = NoId /\ At(rows, C, Tbds(rows, k - 1)) # {})
    BY <1>4, <2>2
  <2> QED  BY <2>1, <2>2
<1>6. DOMAIN G = 1..Len(rows) /\ DOMAIN rows = 1..Len(rows) /\ Len(rows) \in Nat
  OBVIOUS
<1>7. G \in Seq(Row) /\ Len(G) = Len(rows)
  <2>1. G \in [1..Len(rows) -> Row]
    BY <1>5, <1>6
  <2> HIDE DEF G
  <2> QED  BY <1>6, <2>1
<1>8. \A k \in DOMAIN rows : RowFilled(rows, C, k, G[k])
  BY <1>5 DEF RowFilled
<1>9. rest # {} => \E c \in At(rows, C, Tbds(rows, Len(rows))) : (CHOOSE cell \in rest : TRUE) = Cell(c)
  <2>1. rest # {} => (CHOOSE cell \in rest : TRUE) \in rest
    <3> HIDE DEF rest
    <3> QED  OBVIOUS
  <2> QED  BY <2>1
<1>10. rest \subseteq Row
  BY <1>2
<1> HIDE DEF G
<1>11. CASE rest = {}
  <2>1. F = G
    BY <1>1, <1>11
  <2> QED  BY <1>6, <1>7, <1>8, <2>1
<1>12. CASE rest # {}
  <2>1. PICK c \in At(rows, C, Tbds(rows, Len(rows))) : (CHOOSE cell \in rest : TRUE) = Cell(c)
    BY <1>9, <1>12
  <2>2. Cell(c) \in Row
    <3>1. Cell(c) \in rest
      BY <2>1
    <3> HIDE DEF rest
    <3> QED  BY <1>10, <3>1
  <2>3. F = Append(G, Cell(c))
    BY <1>1, <1>12, <2>1
  <2>4. /\ F \in Seq(Row) /\ Len(F) = Len(rows) + 1 /\ F[Len(rows) + 1] = Cell(c)
        /\ \A k \in 1..Len(rows) : F[k] = G[k]
        /\ DOMAIN F = 1..(Len(rows) + 1)
    BY <1>6, <1>7, <2>2, <2>3
  <2>5. RowAdded(rows, C, F[Len(rows) + 1])
    BY <2>1, <2>4 DEF RowAdded
  <2> QED  BY <1>6, <1>8, <2>4, <2>5
<1> QED  BY <1>11, <1>12

LEMMA WriteEpicKeeps ==
  ASSUME BatchInv, WriteEpic
  PROVE  BatchInv'
<1> DEFINE e == Batch.epic
           C == Batch.cands
           F == FilledTable(epic[e].rows, C)
           D == Detailed(epic[e].details, C, turn.had)
           doc == [rows |-> F, details |-> D]
<1>1. Applies
  BY DEF WriteEpic, Applies
<1>2. e \in Epics /\ C \in SUBSET Cand /\ turn.tab \in Tabs /\ PlanOK(Batch)
  BY <1>1, ApplyIs
<1>3. epic[e] \in Doc /\ epic[e].rows \in Seq(Row)
  BY <1>2, RowsAre DEF BatchInv
<1>4. /\ epic' = [epic EXCEPT ![e] = doc] /\ tab' = [tab EXCEPT ![turn.tab] = Empty] /\ turn' = Idle
      /\ UNCHANGED <<folders, counter, taken>>
  BY DEF WriteEpic
<1>5. /\ F \in Seq(Row)
      /\ \A k \in DOMAIN epic[e].rows : RowFilled(epic[e].rows, C, k, F[k])
      /\ \A k \in DOMAIN F : k \in DOMAIN epic[e].rows \/ RowAdded(epic[e].rows, C, F[k])
  <2> HIDE DEF C, e, F
  <2>1. F = FilledTable(epic[e].rows, C)
    BY DEF F
  <2> QED  BY <1>2, <1>3, <2>1, FilledIs
<1>6. \A r \in Range(F) : r \in Range(epic[e].rows) \/ \E c \in C : r = Cell(c)
  <2> SUFFICES ASSUME NEW k \in DOMAIN F PROVE F[k] \in Range(epic[e].rows) \/ \E c \in C : F[k] = Cell(c)
    BY DEF Range
  <2>1. \A n : At(epic[e].rows, C, n) \subseteq C
    BY DEF At, Rowless
  <2>2. CASE k \in DOMAIN epic[e].rows
    BY <1>5, <2>1, <2>2 DEF RowFilled, Range
  <2>3. CASE RowAdded(epic[e].rows, C, F[k])
    BY <2>1, <2>3 DEF RowAdded
  <2> QED  BY <1>5, <2>2, <2>3
<1>7. doc \in Doc
  <2>1. D \in SUBSET Nat
    BY <1>2, <1>3 DEF Detailed, CandIds, Cand, Doc
  <2> QED  BY <1>5, <2>1 DEF Doc
<1>8. \A x \in Epics : epic'[x].rows = IF x = e THEN F ELSE epic[x].rows
  BY <1>4 DEF BatchInv, Types
<1> HIDE DEF e, C, F, doc
<1>9. Types'
  BY <1>2, <1>4, <1>7 DEF BatchInv, Types
<1>10. \A i, x, u : Own(i, x, u)' <=> Own(i, x, u)
  BY <1>4 DEF Own
<1>11. RowsOwn'
  <2> SUFFICES ASSUME NEW x \in Epics, NEW r \in Range(epic'[x].rows) PROVE Own(r.id, x, r.title)
    BY <1>10 DEF RowsOwn
  <2>1. CASE r \in Range(epic[x].rows)
    BY <2>1 DEF BatchInv, RowsOwn
  <2>2. CASE x = e /\ \E c \in C : r = Cell(c)
    <3>1. PICK c \in C : r = Cell(c)
      BY <2>2
    <3>2. Own(c.id, e, c.title)
      BY <1>2, <3>1 DEF PlanOK, C, e
    <3> QED  BY <2>2, <3>1, <3>2 DEF Cell
  <2> QED  BY <1>6, <1>8, <2>1, <2>2
<1>12. Unique' /\ DependenciesExist'
  BY <1>4 DEF BatchInv, Unique, DependenciesExist, FolderIds
<1>13. ApplyOK' /\ SubmitOK'
  BY <1>4, Shapes DEF BatchInv, ApplyOK, SubmitOK, Applies
<1>14. TabsOK'
  <2>1. \A s \in Tabs : tab'[s] = tab[s] \/ tab'[s].phase = "empty"
    BY <1>4, Shapes DEF BatchInv, Types
  <2>2. FolderIds' = FolderIds /\ CardIds' = CardIds
    BY <1>4 DEF FolderIds, CardIds, Cards
  <2>3. \A s \in Tabs : tab'[s].phase = "waiting" => WaitOK(tab'[s])
    BY <2>1 DEF BatchInv, TabsOK
  <2>4. \A s \in Tabs : tab'[s].phase = "plan" => PlanOK(tab'[s])
    BY <2>1 DEF BatchInv, TabsOK
  <2>5. \A s \in Tabs : tab'[s].phase = "waiting" => WaitOK(tab[s])'
    BY <2>2, <2>3 DEF WaitOK
  <2>6. \A s \in Tabs : tab'[s].phase = "plan" => PlanOK(tab[s])'
    BY <1>10, <2>2, <2>4 DEF PlanOK, CandIds, RowIds
  <2> QED  BY <2>5, <2>6 DEF TabsOK
<1> QED  BY <1>9, <1>11, <1>12, <1>13, <1>14 DEF BatchInv

LEMMA StartSubmitKeeps ==
  ASSUME BatchInv, NEW s \in Submitted, StartSubmit(s[1], s[2])
  PROVE  BatchInv'
<1> DEFINE u == Submitting(NextFeature, s[1], s[2])
<1>1. NextFeature \in Nat \ {0} /\ NextFeature \notin FolderIds
  BY NextFeatureIs DEF BatchInv
<1>2. u \in SubmitTurn /\ u.kind = "submit" /\ u.id = NextFeature
  BY <1>1, BatchAssumption DEF Submitting, SubmitTurn, Stages
<1>3. turn' = u /\ counter' = NextFeature + 1 /\ UNCHANGED <<folders, epic, tab, taken>>
  BY DEF StartSubmit
<1> HIDE DEF u
<1>4. FolderIds' = FolderIds
  BY <1>3 DEF FolderIds
<1>5. ApplyOK' /\ SubmitOK'
  BY <1>1, <1>2, <1>3, <1>4 DEF ApplyOK, SubmitOK, Applies
<1>6. counter' \in Nat
  BY <1>1, <1>3
<1> QED  BY <1>2, <1>3, <1>5, <1>6, TurnStep

LEMMA SubmitFolderKeeps ==
  ASSUME BatchInv, SubmitFolder
  PROVE  BatchInv'
<1>1. /\ turn.kind = "submit" /\ turn.stage = "folder" /\ MakeFolder(turn.id, turn.title, turn.parent, {})
      /\ turn' = [turn EXCEPT !.stage = "document"] /\ UNCHANGED <<counter, epic, tab>>
  BY DEF SubmitFolder
<1>2. turn \in SubmitTurn
  BY <1>1, Shapes DEF BatchInv
<1>3. turn.id \in Nat \ {0} /\ turn.title \in Titles \cup {Other} /\ turn.parent \in Epics \cup {NoEpic}
      /\ turn' \in SubmitTurn /\ turn'.kind = "submit" /\ turn'.stage = "document"
  BY <1>1, <1>2 DEF SubmitTurn, Stages
<1>4. turn.id \notin FolderIds
  BY <1>1 DEF BatchInv, SubmitOK
<1>5. FoldersOK' /\ Unique' /\ RowsOwn' /\ TabsOK' /\ DependenciesExist'
  <2> DEFINE i == turn.id
             u == turn.title
             e == turn.parent
             D == {}
  <2>1. /\ i \in Nat \ {0} /\ i \notin FolderIds /\ u \in Titles \cup {Other} /\ e \in Epics \cup {NoEpic}
        /\ D \in SUBSET Doc /\ MakeFolder(i, u, e, D) /\ UNCHANGED <<epic, tab>>
    BY <1>1, <1>3, <1>4
  <2> HIDE DEF i, u, e, D
  <2> QED  BY <2>1, MakeFolderDoes
<1>6. ApplyOK' /\ SubmitOK'
  BY <1>3 DEF ApplyOK, SubmitOK, Applies
<1>7. Types'
  BY <1>1, <1>3, <1>5 DEF BatchInv, Types, FoldersOK
<1> QED  BY <1>5, <1>6, <1>7 DEF BatchInv

LEMMA SubmitDocumentKeeps ==
  ASSUME BatchInv, SubmitDocument
  PROVE  BatchInv'
<1>1. /\ turn' = Idle /\ WriteDocument(turn.id, turn.title, {}, {}) /\ UNCHANGED <<counter, epic, tab, taken>>
  BY DEF SubmitDocument
<1>2. FoldersOK' /\ Unique' /\ RowsOwn' /\ TabsOK' /\ DependenciesExist'
  <2> DEFINE i == turn.id
             u == turn.title
             d == {}
             k == {}
  <2>1. WriteDocument(i, u, d, k) /\ d \in SUBSET Nat /\ k \in SUBSET Nat /\ d \cap k \subseteq FolderIds
    BY <1>1
  <2> HIDE DEF i, u, d, k
  <2> QED  BY <1>1, <2>1, WriteDocumentDoes
<1>3. ApplyOK' /\ SubmitOK'
  BY <1>1, Shapes DEF BatchInv, ApplyOK, SubmitOK, Applies
<1>4. Types'
  BY <1>1, <1>2 DEF BatchInv, Types, FoldersOK
<1> QED  BY <1>2, <1>3, <1>4 DEF BatchInv

LEMMA AddRowKeeps ==
  ASSUME BatchInv, NEW e \in Epics, NEW t \in Titles, AddRow(e, t)
  PROVE  BatchInv'
<1> DEFINE r == [id |-> NoId, title |-> t]
           F == Append(epic[e].rows, r)
<1>1. epic' = [epic EXCEPT ![e].rows = F] /\ turn = Idle /\ UNCHANGED <<folders, counter, tab, turn, taken>>
  BY DEF AddRow
<1>2. epic[e] \in Doc /\ epic[e].rows \in Seq(Row)
  BY RowsAre DEF BatchInv
<1>3. r \in Row /\ r.id = NoId
  BY DEF Row, NoId
<1> HIDE DEF r
<1>4. F \in Seq(Row) /\ Range(F) = Range(epic[e].rows) \cup {r}
  <2>1. /\ DOMAIN F = 1..(Len(epic[e].rows) + 1) /\ F[Len(epic[e].rows) + 1] = r
        /\ \A k \in 1..Len(epic[e].rows) : F[k] = epic[e].rows[k]
        /\ DOMAIN epic[e].rows = 1..Len(epic[e].rows) /\ Len(epic[e].rows) \in Nat
        /\ F \in Seq(Row)
    BY <1>2, <1>3
  <2> HIDE DEF F
  <2> QED  BY <2>1 DEF Range
<1> HIDE DEF F
<1>5. [epic[e] EXCEPT !.rows = F] \in Doc /\ [epic[e] EXCEPT !.rows = F].rows = F
  BY <1>2, <1>4 DEF Doc
<1>6. \A x \in Epics : epic'[x] = IF x = e THEN [epic[e] EXCEPT !.rows = F] ELSE epic[x]
  BY <1>1 DEF BatchInv, Types
<1>7. epic' \in [Epics -> Doc]
  BY <1>1, <1>2, <1>5 DEF BatchInv, Types
<1>8. Types'
  BY <1>1, <1>7 DEF BatchInv, Types
<1>9. \A i, x, u : Own(i, x, u)' <=> Own(i, x, u)
  BY <1>1 DEF Own
<1>10. \A x, u : Own(NoId, x, u)
  BY FolderIdsAre DEF Own, FolderIds, NoId, BatchInv
<1>11. RowsOwn'
  BY <1>3, <1>4, <1>5, <1>6, <1>9, <1>10 DEF BatchInv, RowsOwn
<1>12. Unique' /\ DependenciesExist'
  BY <1>1 DEF BatchInv, Unique, DependenciesExist, FolderIds
<1>13. ApplyOK' /\ SubmitOK'
  BY <1>1, Shapes DEF BatchInv, ApplyOK, SubmitOK, Applies
<1>14. TabsOK'
  BY <1>1, TabsKept
<1> QED  BY <1>8, <1>11, <1>12, <1>13, <1>14 DEF BatchInv

LEMMA CrashKeeps ==
  ASSUME BatchInv, Crash
  PROVE  BatchInv'
<1>1. /\ turn' = Idle /\ UNCHANGED <<folders, counter, epic, taken>>
      /\ tab' = [t \in Tabs |-> IF tab[t].phase = "waiting" THEN Empty ELSE tab[t]]
  BY DEF Crash
<1>2. \A s \in Tabs : tab'[s] = Empty \/ (tab'[s] = tab[s] /\ tab[s].phase # "waiting")
  BY <1>1
<1>3. Types'
  BY <1>1 DEF BatchInv, Types
<1>4. Unique' /\ RowsOwn' /\ DependenciesExist'
  BY <1>1 DEF BatchInv, Unique, RowsOwn, Own, DependenciesExist, FolderIds
<1>5. ApplyOK' /\ SubmitOK'
  BY <1>1, Shapes DEF BatchInv, ApplyOK, SubmitOK, Applies
<1>6. TabsOK'
  <2>1. \A s \in Tabs : tab'[s].phase # "waiting"
    BY <1>2, Shapes DEF BatchInv
  <2>2. \A s \in Tabs : tab'[s].phase = "plan" => PlanOK(tab'[s])
    BY <1>2, Shapes DEF BatchInv, TabsOK
  <2>3. \A s \in Tabs : tab'[s].phase = "plan" => PlanOK(tab[s])'
    BY <1>1, <2>2 DEF PlanOK, Own, FolderIds, CandIds, RowIds
  <2> QED  BY <2>1, <2>3 DEF TabsOK
<1> QED  BY <1>3, <1>4, <1>5, <1>6 DEF BatchInv

LEMMA BatchSteps ==
  ASSUME BatchInv, [Next]_vars
  PROVE  BatchInv'
<1>1. CASE UNCHANGED vars
  <2>1. UNCHANGED <<folders, counter, epic, tab, turn, taken>>
    BY <1>1 DEF vars
  <2>2. Batch' = Batch /\ FolderIds' = FolderIds
    BY <2>1 DEF Batch, FolderIds
  <2>3. Active' = Active
    BY <2>1, <2>2 DEF Active, NextInOrder, FirstOf, CandIds
  <2>4. ApplyOK' /\ SubmitOK'
    BY <2>1, <2>2, <2>3 DEF BatchInv, ApplyOK, SubmitOK, Applies, Unorderable, CandIds
  <2> QED  BY <2>1, <2>4, TurnStep DEF BatchInv, Types
<1>2. CASE Next
  BY <1>2, PreviewKeeps, DiscoveredKeeps, EmptiedKeeps, StartApplyKeeps, VisitCandidateKeeps,
     WriteChildKeeps, AdvanceFeaturePastKeeps, WriteEpicKeeps, StartSubmitKeeps, SubmitFolderKeeps,
     SubmitDocumentKeeps, AddRowKeeps, CrashKeeps DEF Next
<1> QED  BY <1>1, <1>2

-----------------------------------------------------------------------------
(* The theorems *)

(* BatchInv holds in every reachable state, whatever the EPICs ask for and *)
(* wherever crashes cut an apply or a submit.                              *)
LEMMA BatchInvariant == Spec => []BatchInv
BY InitBatch, BatchSteps, PTL DEF Spec

(***************************************************************************)
(* Two FEAT folders never carry one id, for any number of tabs, EPICs and  *)
(* crashes: neither a plan made long ago nor a counter file left behind by *)
(* a crash can hand out an id that a folder has (batch apply and submit).  *)
(***************************************************************************)
THEOREM NoAmbiguousId == Spec => []IdsUnique
<1>1. BatchInv => IdsUnique
  BY DEF BatchInv, Unique, IdsUnique, AmbiguousFeatState
<1> QED  BY <1>1, BatchInvariant, PTL

(***************************************************************************)
(* A row of an EPIC's table names the FEAT of that row, or its id was      *)
(* taken by another FEAT while the plan or the row waited: what the        *)
(* preview promises and what the apply writes into the table agree.        *)
(***************************************************************************)
THEOREM RowsNameTheirFeats == Spec => []RowNamesOwnFeat
<1>1. BatchInv => RowNamesOwnFeat
  BY DEF BatchInv, RowsOwn, Own, RowNamesOwnFeat
<1> QED  BY <1>1, BatchInvariant, PTL

(***************************************************************************)
(* The document of a FEAT names a row of its EPIC or a child of its batch  *)
(* as a dependency only when that FEAT has a folder, wherever a crash cuts *)
(* the batch: a plan whose candidates wait for one another is refused, any *)
(* other is created in a topological order. Of the ids that neither the    *)
(* table nor the plan knows the code, and so the theorem, says nothing.    *)
(***************************************************************************)
THEOREM DependenciesComeFirst == Spec => []DependenciesExist
<1>1. BatchInv => DependenciesExist
  BY DEF BatchInv
<1> QED  BY <1>1, BatchInvariant, PTL

-----------------------------------------------------------------------------
(* One child for one document *)

(* The folders that the apply in progress has made. *)
Fresh(f) == Applies /\ f.id \notin turn.had
Orphan(f) == <<f.epic, f.title>> \in orphaned
Details(e) == epic[e].details

FreshOK ==
  \A f \in folders : Fresh(f) =>
    /\ f.epic = Batch.epic /\ f.sources = {Batch.doc}
    /\ \E c \in Batch.cands : c.id = f.id /\ c.title = f.title
(* A planned child has no section in the document it was planned from; the *)
(* EPIC has one for it, unless the apply is under way or has been cut.     *)
SourcesOK ==
  \A f \in folders : \A doc \in f.sources :
    /\ f.epic \in Epics /\ f.id \notin doc.details
    /\ Fresh(f) \/ f.id \in Details(f.epic) \/ Orphan(f)
DetailsOK == \A e \in Epics : Details(e) \subseteq FolderIds
HeldOK ==
  \A s \in Tabs :
    /\ tab[s].phase \in {"waiting", "plan"} => tab[s].doc.details \subseteq FolderIds
    /\ tab[s].phase = "plan" => TitlesApart(tab[s].doc.rows, tab[s].cands)
CurrentOK ==
  Applies => /\ Batch.doc = epic[Batch.epic]
             /\ turn.stage = "epic" => turn.visited = CandIds(Batch.cands)

ChildInv == BatchInv /\ FreshOK /\ SourcesOK /\ DetailsOK /\ HeldOK /\ CurrentOK /\ OneChildPerDocument

LEMMA InitChild ==
  ASSUME Init
  PROVE  ChildInv
<1>1. folders = {} /\ Idle.kind = "idle" /\ Empty.phase = "empty"
  BY DEF Init, Idle, Empty
<1>2. FreshOK /\ SourcesOK /\ OneChildPerDocument
  BY <1>1 DEF FreshOK, SourcesOK, OneChildPerDocument
<1>3. DetailsOK
  BY DEF Init, DetailsOK, Details
<1>4. HeldOK
  <2>1. \A s \in Tabs : tab[s].phase = "empty"
    BY <1>1 DEF Init
  <2> QED  BY <2>1 DEF HeldOK
<1>5. CurrentOK
  BY <1>1 DEF Init, CurrentOK, Applies
<1> QED  BY <1>2, <1>3, <1>4, <1>5, InitBatch DEF ChildInv

(* What the tabs hold survives while ids are only added. *)
LEMMA HeldKept ==
  ASSUME HeldOK, FolderIds \subseteq FolderIds',
         \A s \in Tabs : tab'[s] = tab[s] \/ tab'[s].phase = "empty"
  PROVE  HeldOK'
<1>1. \A s \in Tabs : tab'[s].phase \in {"waiting", "plan"} => tab'[s] = tab[s]
  OBVIOUS
<1>2. \A s \in Tabs : tab'[s].phase \in {"waiting", "plan"} => tab'[s].doc.details \subseteq FolderIds'
  BY <1>1 DEF HeldOK
<1>3. \A s \in Tabs : tab'[s].phase = "plan" => TitlesApart(tab'[s].doc.rows, tab'[s].cands)
  BY <1>1 DEF HeldOK
<1>4. \A s \in Tabs : tab'[s].phase = "plan" => TitlesApart(tab[s].doc.rows, tab[s].cands)'
  BY <1>3 DEF TitlesApart, RowIds
<1> QED  BY <1>2, <1>4 DEF HeldOK

(* The facts about folders survive when the folders, the turn's claims on  *)
(* them and the sections stay.                                             *)
LEMMA FoldersKept ==
  ASSUME FreshOK, SourcesOK, DetailsOK, OneChildPerDocument, UNCHANGED <<folders, orphaned>>,
         \A e \in Epics : Details(e)' = Details(e),
         (~Applies /\ ~Applies') \/ (Applies /\ Applies' /\ Batch' = Batch /\ turn'.had = turn.had)
  PROVE  FreshOK' /\ SourcesOK' /\ DetailsOK' /\ OneChildPerDocument'
<1>1. \A f \in folders : Fresh(f)' <=> Fresh(f)
  BY DEF Fresh
<1>2. FolderIds' = FolderIds /\ \A f \in folders : Orphan(f)' <=> Orphan(f)
  BY DEF FolderIds, Orphan
<1>3. FreshOK'
  BY <1>1 DEF FreshOK, Fresh
<1>4. SourcesOK'
  <2> SUFFICES ASSUME NEW f \in folders, NEW doc \in f.sources
               PROVE  /\ f.epic \in Epics /\ f.id \notin doc.details
                      /\ Fresh(f)' \/ f.id \in Details(f.epic)' \/ Orphan(f)'
    BY DEF SourcesOK
  <2>1. /\ f.epic \in Epics /\ f.id \notin doc.details
        /\ Fresh(f) \/ f.id \in Details(f.epic) \/ Orphan(f)
    BY DEF SourcesOK
  <2> QED  BY <1>1, <1>2, <2>1
<1>5. DetailsOK'
  BY <1>2 DEF DetailsOK
<1>6. OneChildPerDocument'
  BY DEF OneChildPerDocument, RowIds
<1> QED  BY <1>3, <1>4, <1>5, <1>6

(* A step of one tab while nothing is being written. *)
LEMMA TabStepChild ==
  ASSUME ChildInv, BatchInv', NEW t \in Tabs, turn = Idle, NEW x, tab' = [tab EXCEPT ![t] = x],
         UNCHANGED <<folders, epic, turn, orphaned>>,
         x.phase \in {"waiting", "plan"} => x.doc.details \subseteq FolderIds,
         x.phase = "plan" => TitlesApart(x.doc.rows, x.cands)
  PROVE  ChildInv'
<1>1. ~Applies /\ ~Applies'
  BY Shapes DEF ChildInv, BatchInv, Applies
<1>2. FreshOK' /\ SourcesOK' /\ DetailsOK' /\ OneChildPerDocument'
  BY <1>1, FoldersKept DEF ChildInv, Details
<1>3. \A s \in Tabs : tab'[s] = IF s = t THEN x ELSE tab[s]
  BY DEF ChildInv, BatchInv, Types
<1>4. \A s \in Tabs : tab'[s].phase \in {"waiting", "plan"} => tab'[s].doc.details \subseteq FolderIds
  BY <1>3 DEF ChildInv, HeldOK
<1>5. \A s \in Tabs : tab'[s].phase = "plan" => TitlesApart(tab'[s].doc.rows, tab'[s].cands)
  BY <1>3 DEF ChildInv, HeldOK
<1>6. \A s \in Tabs : tab'[s].phase = "plan" => TitlesApart(tab[s].doc.rows, tab[s].cands)'
  BY <1>5 DEF TitlesApart, RowIds
<1>7. HeldOK'
  BY <1>4, <1>6 DEF HeldOK, FolderIds
<1>8. CurrentOK'
  BY <1>1 DEF CurrentOK
<1> QED  BY <1>2, <1>7, <1>8 DEF ChildInv

LEMMA PreviewChild ==
  ASSUME ChildInv, BatchInv', NEW t \in Tabs, NEW e \in Epics, Preview(t, e)
  PROVE  ChildInv'
<1> DEFINE C == Candidates(epic[e].rows, CardIds, <<>>)
           x == IF C # {} THEN Plan(e, epic[e], C) ELSE Waiting(e)
<1>1. /\ turn = Idle /\ tab' = [tab EXCEPT ![t] = x] /\ UNCHANGED <<folders, epic, turn, orphaned>>
  BY DEF Preview
<1>2. epic[e].rows \in Seq(Row) /\ CardIds \in SUBSET FolderIds /\ Types
  BY RowsAre, FolderIdsAre DEF ChildInv, BatchInv
<1>3. TitlesApart(epic[e].rows, C)
  BY <1>2, TableCands
<1>4. epic[e].details \subseteq FolderIds
  BY DEF ChildInv, DetailsOK, Details
<1> HIDE DEF C
<1>5. x.doc = epic[e] /\ (x.phase = "plan" => x.cands = C)
  BY DEF Plan, Waiting
<1> HIDE DEF x
<1> QED  BY <1>1, <1>3, <1>4, <1>5, TabStepChild

LEMMA DiscoveredChild ==
  ASSUME ChildInv, BatchInv', NEW t \in Tabs, Discovered(t)
  PROVE  ChildInv'
<1> DEFINE w == tab[t]
           ids == {f.id : f \in w.cards}
<1>1. Types /\ w.phase = "waiting" /\ turn = Idle /\ UNCHANGED <<folders, epic, turn, orphaned>>
  BY DEF ChildInv, BatchInv, Discovered
<1>2. w \in WaitingTab /\ WaitOK(w)
  BY <1>1, Shapes DEF ChildInv, BatchInv, TabsOK
<1>3. PICK S \in SUBSET (Prose[w.epic] \ TbdTitles(w.doc.rows)) : \E found \in SetToSeqs(S) :
        tab' = [tab EXCEPT ![t] = Plan(w.epic, w.doc, Candidates(w.doc.rows, ids, found))]
  BY DEF Discovered
<1>4. PICK found \in SetToSeqs(S) :
        tab' = [tab EXCEPT ![t] = Plan(w.epic, w.doc, Candidates(w.doc.rows, ids, found))]
  BY <1>3
<1> DEFINE C == Candidates(w.doc.rows, ids, found)
           x == Plan(w.epic, w.doc, C)
<1>5. w.epic \in Epics /\ w.doc.rows \in Seq(Row)
  BY <1>2 DEF WaitingTab, Doc
<1>6. S \in SUBSET Titles /\ IsFiniteSet(S)
  <2>1. Prose[w.epic] \subseteq Titles /\ IsFiniteSet(Prose[w.epic])
    BY <1>5, BatchAssumption
  <2> QED  BY <2>1, FS_Subset
<1>7. Cardinality(S) \in Nat
  BY <1>6, FS_CardinalityType
<1>8. TitlesApart(w.doc.rows, C)
  <2> DEFINE rows == w.doc.rows
             n == Cardinality(S)
  <2>1. ids \in SUBSET FolderIds /\ \A k \in DOMAIN rows : rows[k].id # NoId /\ rows[k].id \in ids
    BY <1>1, <1>2, FolderIdsAre DEF WaitOK
  <2>2. found \in [1..n -> S] /\ \A i, j \in 1..n : i # j => found[i] # found[j]
    BY <1>7 DEF SetToSeqs
  <2> HIDE DEF ids
  <2>3. Asked(rows, ids, n, S, found)
    BY <1>5, <1>6, <1>7, <2>1, <2>2 DEF Asked
  <2> HIDE DEF rows, n
  <2>4. C = Candidates(rows, ids, found)
    BY DEF rows
  <2> HIDE DEF C
  <2>5. TitlesApart(rows, C)
    BY <1>1, <2>3, <2>4, FoundCands
  <2> QED  BY <2>5 DEF rows
<1>9. w.doc.details \subseteq FolderIds
  BY <1>1 DEF ChildInv, HeldOK
<1> HIDE DEF C
<1>10. x.doc = w.doc /\ x.cands = C
  BY DEF Plan
<1>11. tab' = [tab EXCEPT ![t] = x]
  BY <1>4 DEF x, C
<1> HIDE DEF x
<1> QED  BY <1>1, <1>8, <1>9, <1>10, <1>11, TabStepChild

LEMMA EmptiedChild ==
  ASSUME ChildInv, BatchInv', NEW t \in Tabs, Discard(t) \/ RefuseApply(t)
  PROVE  ChildInv'
<1>1. turn = Idle /\ tab' = [tab EXCEPT ![t] = Empty] /\ UNCHANGED <<folders, epic, turn, orphaned>>
  BY DEF Discard, RefuseApply
<1>2. Empty.phase = "empty"
  BY DEF Empty
<1> QED  BY <1>1, <1>2, TabStepChild

LEMMA StartApplyChild ==
  ASSUME ChildInv, BatchInv', NEW t \in Tabs, StartApply(t)
  PROVE  ChildInv'
<1>1. /\ turn' = Applying(t) /\ turn = Idle /\ UNCHANGED <<folders, epic, tab, orphaned>>
      /\ tab[t].doc = epic[tab[t].epic]
  BY DEF StartApply, Stale
<1>2. turn'.kind = "apply" /\ turn'.tab = t /\ turn'.had = FolderIds /\ turn'.stage = "folder"
  BY <1>1 DEF Applying
<1>3. Batch' = tab[t] /\ Applies' /\ ~Applies
  BY <1>1, <1>2, Shapes DEF Batch, Applies, ChildInv, BatchInv
<1>4. \A f \in folders : ~Fresh(f) /\ ~Fresh(f)'
  BY <1>2, <1>3 DEF Fresh, FolderIds
<1>5. FreshOK'
  BY <1>1, <1>4 DEF FreshOK
<1>6. SourcesOK'
  BY <1>1, <1>4 DEF ChildInv, SourcesOK, Details, Orphan
<1>7. DetailsOK' /\ OneChildPerDocument'
  BY <1>1 DEF ChildInv, DetailsOK, Details, FolderIds, OneChildPerDocument, RowIds
<1>8. HeldOK'
  BY <1>1, HeldKept DEF ChildInv, FolderIds
<1>9. CurrentOK'
  BY <1>1, <1>2, <1>3 DEF CurrentOK
<1> QED  BY <1>5, <1>6, <1>7, <1>8, <1>9 DEF ChildInv

(* A new folder: its title may have a FEAT already, from another document. *)
LEMMA VisitCandidateChild ==
  ASSUME ChildInv, BatchInv', VisitCandidate
  PROVE  ChildInv'
<1>1. Applies /\ turn.stage = "folder" /\ turn.visited # CandIds(Batch.cands) /\ BatchInv
  BY DEF VisitCandidate, Applies, ChildInv
<1>2. turn \in ApplyTurn /\ turn.tab \in Tabs /\ Batch.epic \in Epics /\ Batch.phase = "plan"
  BY <1>1, ApplyIs
<1>3. UNCHANGED <<epic, tab, orphaned>>
  BY DEF VisitCandidate
<1>4. CASE Active.id \in turn.had
  <2>1. turn' = [turn EXCEPT !.visited = @ \cup {Active.id}] /\ UNCHANGED folders
    BY <1>4 DEF VisitCandidate, Active
  <2>2. turn'.kind = "apply" /\ turn'.tab = turn.tab /\ turn'.had = turn.had /\ turn'.stage = "folder"
    BY <1>1, <1>2, <2>1 DEF ApplyTurn, Applies
  <2>3. Batch' = Batch /\ Applies'
    BY <1>3, <2>2 DEF Batch, Applies
  <2>4. FreshOK' /\ SourcesOK' /\ DetailsOK' /\ OneChildPerDocument'
    BY <1>1, <1>3, <2>1, <2>2, <2>3, FoldersKept DEF ChildInv, Details
  <2>5. HeldOK'
    BY <1>3, <2>1, HeldKept DEF ChildInv, FolderIds
  <2>6. CurrentOK'
    BY <1>1, <1>3, <2>2, <2>3 DEF ChildInv, CurrentOK
  <2> QED  BY <2>4, <2>5, <2>6 DEF ChildInv
<1>5. CASE Active.id \notin turn.had
  <2> DEFINE new == NewFolder(Active.id, Active.title, Batch.epic, {Batch.doc})
  <2>1. /\ turn' = [turn EXCEPT !.stage = "document"]
        /\ folders' = folders \cup {new}
    BY <1>5 DEF VisitCandidate, Active, MakeFolder, NewFolder
  <2>2. turn'.kind = "apply" /\ turn'.tab = turn.tab /\ turn'.had = turn.had /\ turn'.stage = "document"
    BY <1>1, <1>2, <2>1 DEF ApplyTurn, Applies
  <2>3. Batch' = Batch /\ Applies'
    BY <1>3, <2>2 DEF Batch, Applies
  <2>4. Active \in Batch.cands /\ Active.id \notin FolderIds
    <3>1. FolderIds = turn.had \cup turn.visited
      BY <1>1 DEF BatchInv, ApplyOK
    <3> QED  BY <1>1, <1>5, <3>1, ActiveIs
  <2>5. new.id = Active.id /\ new.title = Active.title /\ new.epic = Batch.epic /\ new.sources = {Batch.doc}
    BY DEF NewFolder
  <2> HIDE DEF new
  <2>6. FolderIds' = FolderIds \cup {Active.id}
    BY <2>1, <2>5 DEF FolderIds
  <2>7. Fresh(new) /\ (Applies' <=> Applies) /\ turn'.had = turn.had /\ orphaned' = orphaned
    BY <1>1, <1>3, <1>5, <2>2, <2>3, <2>5 DEF Fresh
  <2>8. FreshOK'
    <3> SUFFICES ASSUME NEW f \in folders \cup {new}, Fresh(f)'
                 PROVE  /\ f.epic = Batch.epic /\ f.sources = {Batch.doc}
                        /\ \E c \in Batch.cands : c.id = f.id /\ c.title = f.title
      BY <2>1, <2>3 DEF FreshOK
    <3>1. Fresh(f)
      BY <2>7 DEF Fresh
    <3> QED  BY <2>4, <2>5, <3>1 DEF ChildInv, FreshOK
  <2>9. Batch.doc = epic[Batch.epic] /\ Batch.doc.details \subseteq FolderIds
    BY <1>1, <1>2 DEF ChildInv, CurrentOK, DetailsOK, Details
  <2>10. SourcesOK'
    <3> SUFFICES ASSUME NEW f \in folders \cup {new}, NEW doc \in f.sources
                 PROVE  /\ f.epic \in Epics /\ f.id \notin doc.details
                        /\ Fresh(f)' \/ f.id \in Details(f.epic)' \/ Orphan(f)'
      BY <2>1 DEF SourcesOK
    <3>1. CASE f \in folders
      BY <1>3, <2>7, <3>1 DEF ChildInv, SourcesOK, Details, Fresh, Orphan
    <3>2. CASE f = new
      <4>1. f.epic = Batch.epic /\ f.id = Active.id /\ doc = Batch.doc
        BY <2>5, <3>2
      <4>2. Fresh(f)'
        BY <2>7, <3>2 DEF Fresh
      <4> QED  BY <1>2, <2>4, <2>9, <4>1, <4>2
    <3> QED  BY <3>1, <3>2
  <2>11. DetailsOK'
    BY <1>3, <2>6 DEF ChildInv, DetailsOK, Details
  <2>12. HeldOK'
    BY <1>3, <2>6, HeldKept DEF ChildInv
  <2>13. CurrentOK'
    BY <1>1, <1>3, <2>2, <2>3 DEF ChildInv, CurrentOK
  <2>14. \A g \in folders : \A doc \in g.sources \cap new.sources :
           <<g.epic, g.title>> = <<new.epic, new.title>> =>
             {g.id, new.id} \cap RowIds(doc.rows) # {} \/ Orphan(g)
    <3> SUFFICES ASSUME NEW g \in folders, Batch.doc \in g.sources, ~Orphan(g),
                        g.epic = Batch.epic, g.title = Active.title
                 PROVE  {g.id, Active.id} \cap RowIds(Batch.doc.rows) # {}
      BY <2>5
    <3>1. g.id \notin Batch.doc.details /\ (Fresh(g) \/ g.id \in Details(g.epic))
      BY DEF ChildInv, SourcesOK
    <3>2. Fresh(g)
      BY <2>9, <3>1 DEF Details
    <3>3. PICK c \in Batch.cands : c.id = g.id /\ c.title = g.title
      BY <3>2 DEF ChildInv, FreshOK
    <3>4. c # Active
      BY <2>4, <3>3 DEF FolderIds
    <3>5. TitlesApart(Batch.doc.rows, Batch.cands)
      BY <1>2 DEF ChildInv, HeldOK, Batch
    <3> QED  BY <2>4, <3>3, <3>4, <3>5 DEF TitlesApart
  <2>15. OneChildPerDocument'
    <3> SUFFICES ASSUME NEW f \in folders \cup {new}, NEW g \in folders \cup {new}, f # g,
                        <<f.epic, f.title>> = <<g.epic, g.title>>, NEW doc \in f.sources \cap g.sources
                 PROVE  {f.id, g.id} \cap RowIds(doc.rows) # {} \/ Orphan(f)
      BY <1>3, <2>1 DEF OneChildPerDocument, RowIds, Orphan
    <3>1. CASE f \in folders /\ g \in folders
      BY <3>1 DEF ChildInv, OneChildPerDocument, Orphan
    <3>2. CASE f \in folders /\ g = new
      BY <2>14, <3>2
    <3>3. CASE f = new /\ g \in folders
      BY <2>14, <3>3 DEF Orphan
    <3> QED  BY <3>1, <3>2, <3>3
  <2> QED  BY <2>8, <2>10, <2>11, <2>12, <2>13, <2>15 DEF ChildInv
<1> QED  BY <1>4, <1>5

(* A document keeps the folder, its title and where it was planned. *)
LEMMA WriteDocumentChild ==
  ASSUME ChildInv, NEW id, NEW title, NEW deps, NEW known, WriteDocument(id, title, deps, known),
         UNCHANGED <<epic, tab, orphaned>>,
         (~Applies /\ ~Applies') \/ (Applies /\ Applies' /\ Batch' = Batch /\ turn'.had = turn.had)
  PROVE  FreshOK' /\ SourcesOK' /\ DetailsOK' /\ HeldOK' /\ OneChildPerDocument'
<1> DEFINE W(f) == Written(f, id, title, deps, known)
<1>1. folders' = {W(f) : f \in folders}
  BY DEF WriteDocument, Written
<1>2. \A f \in folders : W(f).id = f.id /\ W(f).title = f.title /\ W(f).epic = f.epic /\ W(f).sources = f.sources
  <2> SUFFICES ASSUME NEW f \in folders
               PROVE W(f).id = f.id /\ W(f).title = f.title /\ W(f).epic = f.epic /\ W(f).sources = f.sources
    OBVIOUS
  <2>1. f \in Folder
    BY DEF ChildInv, BatchInv, Types
  <2> QED  BY <2>1 DEF Written, Folder
<1> HIDE DEF W
<1>3. FolderIds' = FolderIds
  BY <1>1, <1>2 DEF FolderIds
<1>4. \A f \in folders : (Fresh(W(f))' <=> Fresh(f)) /\ (Orphan(W(f))' <=> Orphan(f))
  BY <1>2 DEF Fresh, Orphan
<1>5. FreshOK'
  <2> SUFFICES ASSUME NEW f \in folders, Fresh(W(f))'
               PROVE  /\ W(f).epic = Batch'.epic /\ W(f).sources = {Batch'.doc}
                      /\ \E c \in Batch'.cands : c.id = W(f).id /\ c.title = W(f).title
    BY <1>1 DEF FreshOK
  <2>1. Fresh(f) /\ Batch' = Batch
    BY <1>4 DEF Fresh
  <2> QED  BY <1>2, <2>1 DEF ChildInv, FreshOK
<1>6. SourcesOK'
  <2> SUFFICES ASSUME NEW f \in folders, NEW doc \in W(f).sources
               PROVE  /\ W(f).epic \in Epics /\ W(f).id \notin doc.details
                      /\ Fresh(W(f))' \/ W(f).id \in Details(W(f).epic)' \/ Orphan(W(f))'
    BY <1>1 DEF SourcesOK
  <2> QED  BY <1>2, <1>4 DEF ChildInv, SourcesOK, Details
<1>7. DetailsOK' /\ HeldOK'
  BY <1>3, HeldKept DEF ChildInv, DetailsOK, Details
<1>8. OneChildPerDocument'
  <2> SUFFICES ASSUME NEW v \in folders', NEW w \in folders', v # w,
                      <<v.epic, v.title>> = <<w.epic, w.title>>, NEW doc \in v.sources \cap w.sources
               PROVE  {v.id, w.id} \cap RowIds(doc.rows) # {} \/ <<v.epic, v.title>> \in orphaned
    BY DEF OneChildPerDocument, RowIds
  <2>1. PICK f \in folders : v = W(f)
    BY <1>1
  <2>2. PICK g \in folders : w = W(g)
    BY <1>1
  <2>3. v.epic = f.epic /\ v.title = f.title /\ v.id = f.id /\ v.sources = f.sources
    BY <1>2, <2>1
  <2>4. w.epic = g.epic /\ w.title = g.title /\ w.id = g.id /\ w.sources = g.sources
    BY <1>2, <2>2
  <2>5. f # g
    BY <2>1, <2>2
  <2> QED  BY <2>3, <2>4, <2>5 DEF ChildInv, OneChildPerDocument
<1> QED  BY <1>5, <1>6, <1>7, <1>8

LEMMA WriteChildChild ==
  ASSUME ChildInv, BatchInv', WriteChild
  PROVE  ChildInv'
<1>1. Applies /\ turn.stage = "document" /\ BatchInv /\ UNCHANGED <<epic, tab, orphaned>>
  BY DEF WriteChild, Applies, ChildInv
<1>2. turn \in ApplyTurn
  BY <1>1, ApplyIs
<1>3. turn' = [turn EXCEPT !.stage = "folder", !.visited = @ \cup {Active.id}]
  BY DEF WriteChild, Active
<1>4. turn'.kind = "apply" /\ turn'.tab = turn.tab /\ turn'.had = turn.had /\ turn'.stage = "folder"
  BY <1>1, <1>2, <1>3 DEF ApplyTurn, Applies
<1>5. Batch' = Batch /\ Applies'
  BY <1>1, <1>4 DEF Batch, Applies
<1> DEFINE deps == IF Active.id \in RowIds(Batch.doc.rows) THEN {} ELSE Active.deps
           known == RowIds(Batch.doc.rows) \cup CandIds(Batch.cands)
<1>6. WriteDocument(Active.id, Active.title, deps, known)
  BY DEF WriteChild, Active
<1> HIDE DEF deps, known
<1>7. FreshOK' /\ SourcesOK' /\ DetailsOK' /\ HeldOK' /\ OneChildPerDocument'
  BY <1>1, <1>4, <1>5, <1>6, WriteDocumentChild
<1>8. CurrentOK'
  BY <1>1, <1>4, <1>5 DEF ChildInv, CurrentOK
<1> QED  BY <1>7, <1>8 DEF ChildInv

LEMMA AdvanceFeaturePastChild ==
  ASSUME ChildInv, BatchInv', AdvanceFeaturePast
  PROVE  ChildInv'
<1>1. /\ Applies /\ BatchInv /\ turn.visited = CandIds(Batch.cands)
      /\ turn' = [turn EXCEPT !.stage = "epic"] /\ UNCHANGED <<folders, epic, tab, orphaned>>
  BY DEF AdvanceFeaturePast, Applies, ChildInv
<1>2. turn \in ApplyTurn
  BY <1>1, ApplyIs
<1>3. turn'.kind = "apply" /\ turn'.tab = turn.tab /\ turn'.had = turn.had /\ turn'.visited = turn.visited
  BY <1>1, <1>2 DEF ApplyTurn, Applies
<1>4. Batch' = Batch /\ Applies'
  BY <1>1, <1>3 DEF Batch, Applies
<1>5. FreshOK' /\ SourcesOK' /\ DetailsOK' /\ OneChildPerDocument'
  BY <1>1, <1>3, <1>4, FoldersKept DEF ChildInv, Details
<1>6. HeldOK'
  BY <1>1, HeldKept DEF ChildInv, FolderIds
<1>7. CurrentOK'
  BY <1>1, <1>3, <1>4 DEF ChildInv, CurrentOK, CandIds
<1> QED  BY <1>5, <1>6, <1>7 DEF ChildInv

(* The sections that make every other plan for this document stale. *)
LEMMA WriteEpicChild ==
  ASSUME ChildInv, BatchInv', WriteEpic
  PROVE  ChildInv'
<1> DEFINE e == Batch.epic
           C == Batch.cands
           F == FilledTable(epic[e].rows, C)
           D == Detailed(epic[e].details, C, turn.had)
<1>1. Applies /\ turn.stage = "epic" /\ BatchInv
  BY DEF WriteEpic, Applies, ChildInv
<1>2. e \in Epics /\ turn.tab \in Tabs
  BY <1>1, ApplyIs
<1>3. /\ epic' = [epic EXCEPT ![e] = [rows |-> F, details |-> D]]
      /\ tab' = [tab EXCEPT ![turn.tab] = Empty] /\ turn' = Idle /\ UNCHANGED <<folders, orphaned>>
  BY DEF WriteEpic
<1>4. \A x \in Epics : Details(x)' = IF x = e THEN D ELSE Details(x)
  BY <1>1, <1>3 DEF BatchInv, Types, Details
<1>5. ~Applies' /\ FolderIds' = FolderIds /\ turn.had \cup CandIds(C) = FolderIds
  BY <1>1, <1>3, Shapes DEF Applies, FolderIds, BatchInv, ApplyOK, ChildInv, CurrentOK
<1>6. D = Details(e) \cup (CandIds(C) \ turn.had)
  BY DEF Detailed, Details
<1> HIDE DEF D, F
<1>7. FreshOK'
  BY <1>5 DEF FreshOK, Fresh
<1>8. SourcesOK'
  <2> SUFFICES ASSUME NEW f \in folders, NEW doc \in f.sources
               PROVE  /\ f.epic \in Epics /\ f.id \notin doc.details
                      /\ f.id \in Details(f.epic)' \/ Orphan(f)
    BY <1>3 DEF SourcesOK, Orphan
  <2>1. /\ f.epic \in Epics /\ f.id \notin doc.details
        /\ Fresh(f) \/ f.id \in Details(f.epic) \/ Orphan(f)
    BY DEF ChildInv, SourcesOK
  <2>2. CASE Fresh(f)
    <3>1. f.epic = e /\ f.id \notin turn.had
      BY <2>2 DEF ChildInv, FreshOK, Fresh
    <3>2. f.id \in CandIds(C)
      BY <1>5, <3>1 DEF FolderIds
    <3> QED  BY <1>4, <1>6, <2>1, <3>1, <3>2
  <2>3. CASE f.id \in Details(f.epic)
    BY <1>4, <1>6, <2>1, <2>3
  <2> QED  BY <2>1, <2>2, <2>3
<1>9. DetailsOK'
  BY <1>4, <1>5, <1>6 DEF ChildInv, DetailsOK
<1>10. HeldOK'
  <2>1. \A s \in Tabs : tab'[s] = tab[s] \/ tab'[s].phase = "empty"
    BY <1>1, <1>3, Shapes DEF BatchInv, Types
  <2> QED  BY <1>5, <2>1, HeldKept DEF ChildInv
<1>11. OneChildPerDocument'
  BY <1>3 DEF ChildInv, OneChildPerDocument, RowIds
<1>12. CurrentOK'
  BY <1>5 DEF CurrentOK
<1> QED  BY <1>7, <1>8, <1>9, <1>10, <1>11, <1>12 DEF ChildInv

LEMMA StartSubmitChild ==
  ASSUME ChildInv, BatchInv', NEW s \in Submitted, StartSubmit(s[1], s[2])
  PROVE  ChildInv'
<1>1. /\ turn = Idle /\ turn' = Submitting(NextFeature, s[1], s[2])
      /\ UNCHANGED <<folders, epic, tab, orphaned>>
  BY DEF StartSubmit
<1>2. ~Applies /\ ~Applies'
  BY <1>1, Shapes DEF ChildInv, BatchInv, Applies, Submitting
<1>3. FreshOK' /\ SourcesOK' /\ DetailsOK' /\ OneChildPerDocument'
  BY <1>1, <1>2, FoldersKept DEF ChildInv, Details
<1>4. HeldOK' /\ CurrentOK'
  BY <1>1, <1>2, HeldKept DEF ChildInv, FolderIds, CurrentOK
<1> QED  BY <1>3, <1>4 DEF ChildInv

LEMMA SubmitFolderChild ==
  ASSUME ChildInv, BatchInv', SubmitFolder
  PROVE  ChildInv'
<1> DEFINE new == NewFolder(turn.id, turn.title, turn.parent, {})
<1>1. /\ turn.kind = "submit" /\ folders' = folders \cup {new}
      /\ turn' = [turn EXCEPT !.stage = "document"] /\ UNCHANGED <<epic, tab, orphaned>>
  BY DEF SubmitFolder, MakeFolder, NewFolder
<1>2. turn \in SubmitTurn
  BY <1>1, Shapes DEF ChildInv, BatchInv
<1>3. ~Applies /\ ~Applies'
  BY <1>1, <1>2 DEF SubmitTurn, Applies
<1>4. new.sources = {} /\ new.id = turn.id
  BY DEF NewFolder
<1> HIDE DEF new
<1>5. FolderIds \subseteq FolderIds'
  BY <1>1 DEF FolderIds
<1>6. FreshOK' /\ CurrentOK'
  BY <1>3 DEF FreshOK, Fresh, CurrentOK
<1>7. SourcesOK'
  <2> SUFFICES ASSUME NEW f \in folders, NEW doc \in f.sources
               PROVE  /\ f.epic \in Epics /\ f.id \notin doc.details
                      /\ f.id \in Details(f.epic) \/ Orphan(f)
    BY <1>1, <1>4 DEF SourcesOK, Details, Orphan
  <2> QED  BY <1>3 DEF ChildInv, SourcesOK, Fresh
<1>8. DetailsOK' /\ HeldOK'
  BY <1>1, <1>5, HeldKept DEF ChildInv, DetailsOK, Details
<1>9. OneChildPerDocument'
  <2> SUFFICES ASSUME NEW f \in folders, NEW g \in folders, f # g,
                      <<f.epic, f.title>> = <<g.epic, g.title>>, NEW doc \in f.sources \cap g.sources
               PROVE  {f.id, g.id} \cap RowIds(doc.rows) # {} \/ <<f.epic, f.title>> \in orphaned
    BY <1>1, <1>4 DEF OneChildPerDocument, RowIds
  <2> QED  BY DEF ChildInv, OneChildPerDocument
<1> QED  BY <1>6, <1>7, <1>8, <1>9 DEF ChildInv

LEMMA SubmitDocumentChild ==
  ASSUME ChildInv, BatchInv', SubmitDocument
  PROVE  ChildInv'
<1>1. /\ turn.kind = "submit" /\ turn' = Idle /\ WriteDocument(turn.id, turn.title, {}, {})
      /\ UNCHANGED <<epic, tab, orphaned>>
  BY DEF SubmitDocument
<1>2. ~Applies /\ ~Applies'
  BY <1>1, Shapes DEF ChildInv, BatchInv, Applies
<1>3. FreshOK' /\ SourcesOK' /\ DetailsOK' /\ HeldOK' /\ OneChildPerDocument'
  BY <1>1, <1>2, WriteDocumentChild
<1>4. CurrentOK'
  BY <1>2 DEF CurrentOK
<1> QED  BY <1>3, <1>4 DEF ChildInv

LEMMA AddRowChild ==
  ASSUME ChildInv, BatchInv', NEW e \in Epics, NEW t \in Titles, AddRow(e, t)
  PROVE  ChildInv'
<1> DEFINE F == Append(epic[e].rows, [id |-> NoId, title |-> t])
<1>1. turn = Idle /\ epic' = [epic EXCEPT ![e].rows = F] /\ UNCHANGED <<folders, tab, turn, orphaned>>
  BY DEF AddRow
<1>2. ~Applies /\ ~Applies'
  BY <1>1, Shapes DEF ChildInv, BatchInv, Applies
<1> HIDE DEF F
<1>3. \A x \in Epics : Details(x)' = Details(x)
  <2> SUFFICES ASSUME NEW x \in Epics PROVE epic'[x].details = epic[x].details
    BY DEF Details
  <2>1. epic[x] \in Doc
    BY RowsAre DEF ChildInv, BatchInv
  <2>2. epic'[x] = IF x = e THEN [epic[x] EXCEPT !.rows = F] ELSE epic[x]
    BY <1>1 DEF ChildInv, BatchInv, Types
  <2> QED  BY <2>1, <2>2 DEF Doc
<1>4. FreshOK' /\ SourcesOK' /\ DetailsOK' /\ OneChildPerDocument'
  BY <1>1, <1>2, <1>3, FoldersKept DEF ChildInv
<1>5. HeldOK' /\ CurrentOK'
  BY <1>1, <1>2, HeldKept DEF ChildInv, FolderIds, CurrentOK
<1> QED  BY <1>4, <1>5 DEF ChildInv

LEMMA CrashChild ==
  ASSUME ChildInv, BatchInv', Crash
  PROVE  ChildInv'
<1>1. /\ turn' = Idle /\ UNCHANGED <<folders, epic>>
      /\ tab' = [t \in Tabs |-> IF tab[t].phase = "waiting" THEN Empty ELSE tab[t]]
      /\ orphaned' = IF Applies THEN orphaned \cup {<<Batch.epic, c.title>> : c \in Created} ELSE orphaned
  BY DEF Crash, Applies
<1>2. ~Applies' /\ FolderIds' = FolderIds /\ orphaned \subseteq orphaned'
  BY <1>1, Shapes DEF ChildInv, BatchInv, Applies, FolderIds
<1>3. \A f \in folders : Fresh(f) => Orphan(f)'
  <2> SUFFICES ASSUME NEW f \in folders, Fresh(f) PROVE Orphan(f)'
    OBVIOUS
  <2>1. PICK c \in Batch.cands : c.id = f.id /\ c.title = f.title
    BY DEF ChildInv, FreshOK
  <2>2. c \in Created /\ f.epic = Batch.epic /\ Applies
    BY <2>1 DEF Created, FolderIds, Fresh, ChildInv, FreshOK
  <2> QED  BY <1>1, <2>1, <2>2 DEF Orphan
<1>4. FreshOK' /\ CurrentOK'
  BY <1>2 DEF FreshOK, Fresh, CurrentOK
<1>5. SourcesOK'
  <2> SUFFICES ASSUME NEW f \in folders, NEW doc \in f.sources
               PROVE  /\ f.epic \in Epics /\ f.id \notin doc.details
                      /\ f.id \in Details(f.epic) \/ Orphan(f)'
    BY <1>1 DEF SourcesOK, Details
  <2> QED  BY <1>2, <1>3 DEF ChildInv, SourcesOK, Orphan
<1>6. DetailsOK'
  BY <1>1, <1>2 DEF ChildInv, DetailsOK, Details
<1>7. HeldOK'
  <2>1. \A s \in Tabs : tab'[s] = tab[s] \/ tab'[s].phase = "empty"
    BY <1>1, Shapes DEF ChildInv, BatchInv
  <2> QED  BY <1>2, <2>1, HeldKept DEF ChildInv
<1>8. OneChildPerDocument'
  BY <1>1, <1>2 DEF ChildInv, OneChildPerDocument, RowIds
<1> QED  BY <1>4, <1>5, <1>6, <1>7, <1>8 DEF ChildInv

LEMMA ChildSteps ==
  ASSUME ChildInv, [Next]_vars
  PROVE  ChildInv'
<1>1. BatchInv'
  BY BatchSteps DEF ChildInv
<1>2. CASE UNCHANGED vars
  <2>1. UNCHANGED <<folders, epic, tab, turn, orphaned>>
    BY <1>2 DEF vars
  <2>2. Batch' = Batch /\ Applies' = Applies
    BY <2>1 DEF Batch, Applies
  <2>3. FreshOK' /\ SourcesOK' /\ DetailsOK' /\ OneChildPerDocument'
    BY <2>1, <2>2, FoldersKept DEF ChildInv, Details
  <2>4. HeldOK' /\ CurrentOK'
    BY <2>1, <2>2, HeldKept DEF ChildInv, FolderIds, CurrentOK, CandIds
  <2> QED  BY <1>1, <2>3, <2>4 DEF ChildInv
<1>3. CASE Next
  BY <1>1, <1>3, PreviewChild, DiscoveredChild, EmptiedChild, StartApplyChild, VisitCandidateChild,
     WriteChildChild, AdvanceFeaturePastChild, WriteEpicChild, StartSubmitChild, SubmitFolderChild,
     SubmitDocumentChild, AddRowChild, CrashChild DEF Next
<1> QED  BY <1>2, <1>3

LEMMA ChildInvariant == Spec => []ChildInv
BY InitChild, ChildSteps, PTL DEF Spec

(***************************************************************************)
(* One document of an EPIC is turned into children once, whatever its      *)
(* table repeats, whatever the model answers and however many tabs hold a  *)
(* plan for it: the sections an apply writes make the other plans stale    *)
(* (validateApprovedPreviewPlan). A child left behind by a crash is the    *)
(* exception that the property names.                                      *)
(***************************************************************************)
THEOREM DocumentsPlannedOnce == Spec => []OneChildPerDocument
<1>1. ChildInv => OneChildPerDocument
  BY DEF ChildInv
<1> QED  BY <1>1, ChildInvariant, PTL
=============================================================================
