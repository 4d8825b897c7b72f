------------------------- MODULE MissingFeatureBatch -------------------------
(***************************************************************************)
(* Creating the missing child FEATs of an EPIC: a browser tab previews a   *)
(* plan, keeps it, and later sends the whole plan back to be applied; FEATs *)
(* are also submitted one by one. Both write folders, documents, the       *)
(* counter file and the EPIC document, one file after the other.           *)
(*                                                                         *)
(* The orchestrator is one JavaScript process: once an apply or a submit   *)
(* has read the disk it gives up control only at its end, so a turn is cut *)
(* short by nothing but a crash. A preview waits for the model only when   *)
(* the EPIC's table leaves nothing to create.                              *)
(***************************************************************************)
EXTENDS Naturals, FiniteSets, Sequences, SequencesExt

CONSTANTS
  Epics,      \* the EPICs that are open to extraction
  Tabs,       \* browser tabs
  Titles,     \* titles of FEATs an EPIC may ask for
  Tables,     \* the EPICs' feature tables at the start: [Epics -> Seq(Row)]
  Prose,      \* titles the model may find in an EPIC's prose: [Epics -> SUBSET Titles]
  Additions,  \* titles a person may add to an EPIC's table: [Epics -> SUBSET Titles]
  Submitted,  \* FEATs submitted one by one: pairs of a title and a parent
  DependsOn,  \* the rows a dependency cell names: [Titles -> SUBSET Titles]
  Cites,      \* the other ids a cell, or the model's answer, names: [Titles -> SUBSET Nat]
  MaxFeats,   \* folders up to which the model finds new children
  MaxRows,    \* rows up to which a person extends a table
  MaxId,      \* the largest id handed out to a submitted FEAT
  MaxCrashes

NoId == 0       \* a TBD row
NoEpic == 0     \* a FEAT submitted without a parent
Other == "submitted by hand"

Row == [id : Nat, title : Titles]
RowIds(rows) == {rows[k].id : k \in DOMAIN rows} \ {NoId}

ASSUME BatchAssumption ==
  /\ NoEpic \notin Epics /\ Other \notin Titles
  /\ MaxFeats \in Nat /\ MaxRows \in Nat /\ MaxId \in Nat /\ MaxCrashes \in Nat
  /\ \A e \in Epics : /\ Tables[e] \in Seq(Row)
                     /\ Prose[e] \subseteq Titles /\ IsFiniteSet(Prose[e])
                     /\ Additions[e] \subseteq Titles
  /\ Submitted \subseteq (Titles \cup {Other}) \X (Epics \cup {NoEpic})
  /\ Cites \in [Titles -> SUBSET Nat]

VARIABLES
  folders,   \* FEAT folders: id and slug, parent, has the document been written, its
             \* dependencies; history: the EPIC documents it was planned from, the
             \* ids its plan and the EPIC's table knew
  counter,   \* NEXT_FEATURE_ID.txt
  epic,      \* the EPIC documents: the table, and the FEATs that have detail sections
  tab,       \* what each tab waits for or holds
  turn,      \* the apply or submit that is writing files
  crashes,
  orphaned,  \* history: children created by an apply that never wrote the EPIC
  taken      \* history: children whose planned id went to another FEAT

vars == <<folders, counter, epic, tab, turn, crashes, orphaned, taken>>

-----------------------------------------------------------------------------
(* Reading the disk.                                                        *)

FolderIds == {f.id : f \in folders}
\* The scanner makes a card of a folder only when it holds the document.
Cards == {f \in folders : f.doc}
CardIds == {f.id : f \in Cards}
Largest(ids) == IF ids = {} THEN 0 ELSE Max(ids)
AmbiguousFeatState == \E f, g \in folders : f # g /\ f.id = g.id

Candidate(id, title, deps, order) == [id |-> id, title |-> title, deps |-> deps, order |-> order]
CandIds(cands) == {c.id : c \in cands}

\* Mutant: counts from the cards alone, so a folder without a document is overlooked.
PreviewFeatureIdFromCards(cardIds, offset) == Largest(cardIds) + 1 + offset

\* calculatePreviewFeatureId: neither the counter nor the ids that EPIC tables
\* promise are looked at, and nothing is reserved.
PreviewFeatureId(cardIds, offset) == Largest(cardIds \cup FolderIds) + 1 + offset

\* extractPreviewCandidates: rows that name a FEAT without a card, the titled
\* TBD rows with fresh ids, and what the model found. Of TBD rows with one title
\* only the first is planned. What the code takes from the positions of the
\* candidates follows from their `order`.
Candidates(rows, cardIds, found) ==
  LET Tbd(k) == rows[k].id = NoId
      Planned == {k \in DOMAIN rows : Tbd(k) /\ \A j \in 1..(k - 1) : Tbd(j) => rows[j].title # rows[k].title}
      Missing == {k \in DOMAIN rows : ~Tbd(k) /\ rows[k].id \notin cardIds}
      FreshId(k) == PreviewFeatureId(cardIds, Cardinality({j \in Planned : j < k}))
      \* A dependency cell names ids, and TBD rows by title.
      Needed(k) == {j \in DOMAIN rows : rows[j].title \in DependsOn[rows[k].title]}
      Named(k) == Cites[rows[k].title] \cup {rows[j].id : j \in {j \in Needed(k) : ~Tbd(j)}}
      Resolved(k) == {FreshId(j) : j \in Planned \cap Needed(k)}
  IN    {Candidate(rows[k].id, rows[k].title, Named(k), k) : k \in Missing}
   \cup {Candidate(FreshId(k), rows[k].title, Named(k) \cup Resolved(k), k) : k \in Planned}
   \cup {Candidate(PreviewFeatureId(cardIds, Cardinality(Planned) + i - 1), found[i], Cites[found[i]],
                   Len(rows) + Cardinality(Planned) + i) : i \in DOMAIN found}

\* The titles that an answer of the model is compared with: not those of cards,
\* nor of rows with an id.
TbdTitles(rows) == {rows[k].title : k \in {k \in DOMAIN rows : rows[k].id = NoId}}

\* orderByDependencies: an id that two candidates share is visited once, so it
\* counts as a cycle too. A dependency outside the plan is only warned of.
Unorderable(cands) ==
  \/ \E c, d \in cands : c # d /\ c.id = d.id
  \/ \E S \in (SUBSET CandIds(cands)) \ {{}} : \A c \in cands : c.id \in S => c.deps \cap S # {}

FirstOf(cands) == CHOOSE c \in cands : \A d \in cands : c.order <= d.order

\* Mutant: the order of the table.
NextInTable(cands, visited) == FirstOf({c \in cands : c.id \notin visited})

\* The next candidate of the topological order: of those whose dependencies
\* have been visited, the one that comes first in the EPIC.
NextInOrder(cands, visited) ==
  FirstOf({c \in cands : c.id \notin visited /\ c.deps \cap CandIds(cands) \subseteq visited})

\* renderUpdatedFeatureTable: candidates without a row fill the TBD rows from
\* the top; only the first that finds none is appended.
FilledTable(rows, cands) ==
  LET rowless == {c \in cands : c.id \notin RowIds(rows)}
      Tbds(n) == Cardinality({j \in 1..n : rows[j].id = NoId})
      \* The candidate that n others go before, if there is one.
      At(n) == {c \in rowless : Cardinality({d \in rowless : d.order < c.order}) = n}
      Cells(n) == {[id |-> c.id, title |-> c.title] : c \in At(n)}
      filled == [k \in DOMAIN rows |-> IF rows[k].id = NoId /\ At(Tbds(k - 1)) # {}
                                       THEN CHOOSE cell \in Cells(Tbds(k - 1)) : TRUE ELSE rows[k]]
      rest == Cells(Tbds(Len(rows)))
  IN IF rest # {} THEN Append(filled, CHOOSE cell \in rest : TRUE) ELSE filled

\* renderUpdatedFeatureDetails: sections for the ids that had no folder when the
\* apply began. Progress entries and diagram nodes follow the same rule.
Detailed(details, cands, had) == details \cup (CandIds(cands) \ had)

-----------------------------------------------------------------------------
(* The tabs and the turn.                                                   *)

Empty == [phase |-> "empty"]
Waiting(e) == [phase |-> "waiting", epic |-> e, doc |-> epic[e], cards |-> Cards]
Plan(e, doc, cands) == [phase |-> "plan", epic |-> e, doc |-> doc, cands |-> cands]

Idle == [kind |-> "idle"]
Applying(t) == [kind |-> "apply", tab |-> t, had |-> FolderIds, visited |-> {}, stage |-> "folder"]
Submitting(n, title, parent) ==
  [kind |-> "submit", id |-> n, title |-> title, parent |-> parent, stage |-> "folder"]

Batch == tab[turn.tab]
\* The candidates of the batch that this apply has given a folder.
Created == {c \in Batch.cands : c.id \in FolderIds \ turn.had}

\* The children to which a table, or a plan held by a tab, promises this id.
Promised(id) ==
  {p \in {id} \X Epics \X Titles :
     \/ [id |-> id, title |-> p[3]] \in Range(epic[p[2]].rows)
     \/ \E s \in Tabs : /\ tab[s].phase = "plan" /\ tab[s].epic = p[2]
                        /\ \E c \in tab[s].cands : c.id = id /\ c.title = p[3]}

\* mkdir of a FEAT's folder: it holds no document yet.
MakeFolder(id, title, parent, sources) ==
  /\ folders' = folders \cup {[id |-> id, title |-> title, epic |-> parent, doc |-> FALSE, deps |-> {},
                              sources |-> sources, known |-> {}]}
  /\ taken' = taken \cup (Promised(id) \ {<<id, parent, title>>})

WriteDocument(id, title, deps, known) ==
  folders' = {IF f.id = id /\ f.title = title THEN [f EXCEPT !.doc = TRUE, !.deps = deps, !.known = known]
              ELSE f : f \in folders}

Init ==
  /\ folders = {} /\ counter = 1
  /\ epic = [e \in Epics |-> [rows |-> Tables[e], details |-> {}]]
  /\ tab = [t \in Tabs |-> Empty]
  /\ turn = Idle /\ crashes = 0
  /\ orphaned = {} /\ taken = {}

-----------------------------------------------------------------------------
(* Previews.                                                                *)

\* A plan is built from the table when that asks for anything; otherwise the
\* model is asked, about the EPIC and the cards as they are now.
Preview(t, e) ==
  LET cands == Candidates(epic[e].rows, CardIds, <<>>)
  IN /\ turn = Idle /\ tab[t].phase # "waiting"
     /\ tab' = [tab EXCEPT ![t] = IF cands # {} THEN Plan(e, epic[e], cands) ELSE Waiting(e)]
     /\ UNCHANGED <<folders, counter, epic, turn, crashes, orphaned, taken>>

\* The model's answer may repeat a child that exists. The ids are counted from
\* the folders of now, the document hash from the EPIC of then.
Discovered(t) ==
  LET then == tab[t]
  IN /\ turn = Idle /\ then.phase = "waiting"
     /\ \E S \in SUBSET (Prose[then.epic] \ TbdTitles(then.doc.rows)) :
          /\ Cardinality(folders) + Cardinality(S) <= MaxFeats
          /\ \E found \in SetToSeqs(S) :
               tab' = [tab EXCEPT ![t] = Plan(then.epic, then.doc,
                         Candidates(then.doc.rows, {f.id : f \in then.cards}, found))]
     /\ UNCHANGED <<folders, counter, epic, turn, crashes, orphaned, taken>>

\* The operator cancels the preview, or the model call fails.
Discard(t) ==
  /\ turn = Idle /\ tab[t] # Empty
  /\ tab' = [tab EXCEPT ![t] = Empty]
  /\ UNCHANGED <<folders, counter, epic, turn, crashes, orphaned, taken>>

-----------------------------------------------------------------------------
(* Applying a plan.                                                         *)

\* Mutant: the document is not compared.
StaleWhenEmpty(plan) == plan.cands = {}

Stale(plan) == plan.doc # epic[plan.epic] \/ plan.cands = {}

\* The refusal asks for a new preview, and the tab drops the plan.
RefuseApply(t) ==
  /\ turn = Idle /\ tab[t].phase = "plan" /\ Stale(tab[t])
  /\ tab' = [tab EXCEPT ![t] = Empty]
  /\ UNCHANGED <<folders, counter, epic, turn, crashes, orphaned, taken>>

\* The plan is checked against the EPIC document, not against the FEATs that
\* exist by now. A refusal for an ambiguous id or a cycle leaves the tab as it is.
StartApply(t) ==
  /\ turn = Idle /\ tab[t].phase = "plan" /\ ~Stale(tab[t])
  /\ ~AmbiguousFeatState /\ ~Unorderable(tab[t].cands)
  /\ turn' = Applying(t)
  /\ UNCHANGED <<folders, counter, epic, tab, crashes, orphaned, taken>>

\* A candidate whose id had a folder when the apply began is passed over,
\* whatever FEAT that folder belongs to.
VisitCandidate ==
  /\ turn.kind = "apply" /\ turn.stage = "folder" /\ turn.visited # CandIds(Batch.cands)
  /\ LET c == NextInOrder(Batch.cands, turn.visited)
     IN IF c.id \in turn.had
        THEN turn' = [turn EXCEPT !.visited = @ \cup {c.id}] /\ UNCHANGED <<folders, taken>>
        ELSE /\ turn' = [turn EXCEPT !.stage = "document"]
             /\ MakeFolder(c.id, c.title, Batch.epic, {Batch.doc})
  /\ UNCHANGED <<counter, epic, tab, crashes, orphaned>>

\* A FEAT the EPIC already named by id gets a stub without dependencies.
WriteChild ==
  /\ turn.kind = "apply" /\ turn.stage = "document"
  /\ LET c == NextInOrder(Batch.cands, turn.visited)
     IN /\ WriteDocument(c.id, c.title, IF c.id \in RowIds(Batch.doc.rows) THEN {} ELSE c.deps,
                         RowIds(Batch.doc.rows) \cup CandIds(Batch.cands))
        /\ turn' = [turn EXCEPT !.stage = "folder", !.visited = @ \cup {c.id}]
  /\ UNCHANGED <<counter, epic, tab, crashes, orphaned, taken>>

AdvanceFeaturePast ==
  /\ turn.kind = "apply" /\ turn.stage = "folder" /\ turn.visited = CandIds(Batch.cands)
  /\ counter' = Max({counter, Largest(CandIds(Created)) + 1})
  /\ turn' = [turn EXCEPT !.stage = "epic"]
  /\ UNCHANGED <<folders, epic, tab, crashes, orphaned, taken>>

\* The document is written once, with all its sections. The synchronisation
\* that follows changes status cells only.
WriteEpic ==
  /\ turn.kind = "apply" /\ turn.stage = "epic"
  /\ epic' = [epic EXCEPT ![Batch.epic] =
                [rows |-> FilledTable(@.rows, Batch.cands),
                 details |-> Detailed(@.details, Batch.cands, turn.had)]]
  /\ tab' = [tab EXCEPT ![turn.tab] = Empty]
  /\ turn' = Idle
  /\ UNCHANGED <<folders, counter, crashes, orphaned, taken>>

-----------------------------------------------------------------------------
(* Submitting one FEAT.                                                     *)

\* Mutant: trusts the counter file.
NextFromCounter == counter

NextFeature == Max({counter, Largest(FolderIds) + 1})

StartSubmit(title, parent) ==
  /\ turn = Idle /\ NextFeature <= MaxId
  /\ counter' = NextFeature + 1
  /\ turn' = Submitting(NextFeature, title, parent)
  /\ UNCHANGED <<folders, epic, tab, crashes, orphaned, taken>>

SubmitFolder ==
  /\ turn.kind = "submit" /\ turn.stage = "folder"
  /\ MakeFolder(turn.id, turn.title, turn.parent, {})
  /\ turn' = [turn EXCEPT !.stage = "document"]
  /\ UNCHANGED <<counter, epic, tab, crashes, orphaned>>

SubmitDocument ==
  /\ turn.kind = "submit" /\ turn.stage = "document"
  /\ WriteDocument(turn.id, turn.title, {}, {})
  /\ turn' = Idle
  /\ UNCHANGED <<counter, epic, tab, crashes, orphaned, taken>>

-----------------------------------------------------------------------------
(* The surroundings.                                                        *)

\* A person adds a TBD row to an EPIC, of a new title or of one it has.
AddRow(e, t) ==
  /\ turn = Idle /\ t \in Additions[e] /\ Len(epic[e].rows) < MaxRows
  /\ epic' = [epic EXCEPT ![e].rows = Append(@, [id |-> NoId, title |-> t])]
  /\ UNCHANGED <<folders, counter, tab, turn, crashes, orphaned, taken>>

\* The tabs outlive the orchestrator: an answer that never comes is a failed
\* preview, but a failed apply keeps its plan.
Crash ==
  /\ crashes < MaxCrashes /\ crashes' = crashes + 1
  /\ turn' = Idle
  /\ tab' = [t \in Tabs |-> IF tab[t].phase = "waiting" THEN Empty ELSE tab[t]]
  /\ orphaned' = IF turn.kind = "apply"
                 THEN orphaned \cup {<<Batch.epic, c.title>> : c \in Created}
                 ELSE orphaned
  /\ UNCHANGED <<folders, counter, epic, taken>>

Next ==
  \/ \E t \in Tabs, e \in Epics : Preview(t, e)
  \/ \E t \in Tabs : Discovered(t) \/ Discard(t) \/ RefuseApply(t) \/ StartApply(t)
  \/ VisitCandidate \/ WriteChild \/ AdvanceFeaturePast \/ WriteEpic
  \/ \E s \in Submitted : StartSubmit(s[1], s[2])
  \/ SubmitFolder \/ SubmitDocument
  \/ \E e \in Epics, t \in Titles : AddRow(e, t)
  \/ Crash

Spec == Init /\ [][Next]_vars

-----------------------------------------------------------------------------
(* Properties.                                                              *)

(***************************************************************************)
(* No two FEAT folders ever carry one id, although a plan reserves no ids  *)
(* and a crash can leave the counter file behind the folders: submit takes *)
(* the larger of counter and folders, apply passes over ids in use, and a  *)
(* plan that would give one id to two children is refused. An id in two    *)
(* folders would block every later apply of the project.                   *)
(***************************************************************************)
IdsUnique == ~AmbiguousFeatState

(***************************************************************************)
(* One document of an EPIC is turned into children once, however many tabs *)
(* preview and apply it while FEATs are submitted in between: an apply     *)
(* that created anything rewrites the document, which makes every other    *)
(* plan made for it stale. Rows that name their FEATs by id are apart, and *)
(* so is a child whose apply crashed before it wrote the EPIC. Another     *)
(* document may ask for the same title again, and then gets a second FEAT. *)
(***************************************************************************)
OneChildPerDocument ==
  \A f, g \in folders :
    f # g /\ <<f.epic, f.title>> = <<g.epic, g.title>> =>
      \A doc \in f.sources \cap g.sources :
        {f.id, g.id} \cap RowIds(doc.rows) # {} \/ <<f.epic, f.title>> \in orphaned

(***************************************************************************)
(* A row of an EPIC's table never names the FEAT of somebody else: the ids *)
(* of a plan are fresh when it is made. The one exception is an id that    *)
(* another FEAT took while the plan lay in a tab or the row lay unapplied, *)
(* which the apply does not notice.                                        *)
(***************************************************************************)
RowNamesOwnFeat ==
  \A e \in Epics, f \in folders :
    \A r \in Range(epic[e].rows) :
      r.id = f.id => <<f.epic, f.title>> = <<e, r.title>> \/ <<r.id, e, r.title>> \in taken

(***************************************************************************)
(* A child's document names a row or another child of its batch as a       *)
(* dependency only when the folder of that FEAT exists, wherever a crash   *)
(* cuts the batch: children are created in dependency order, not in the    *)
(* order of the table. Ids that neither the table nor the plan knows are   *)
(* written as they stand.                                                  *)
(***************************************************************************)
DependenciesExist == \A f \in folders : f.deps \cap f.known \subseteq FolderIds
=============================================================================
