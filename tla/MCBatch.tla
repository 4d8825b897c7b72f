------------------------------ MODULE MCBatch --------------------------------
(***************************************************************************)
(* MissingFeatureBatch for TLC: an EPIC that asks for a child before the   *)
(* child it depends on and names a third one by an id nobody has created   *)
(* yet. The model may find a new child and one that exists, a person may   *)
(* add a row for the new one, also twice, and submitted FEATs, one of them *)
(* with the title of a child, compete for ids.                             *)
(***************************************************************************)
EXTENDS MissingFeatureBatch

OneTable == << << [id |-> 0, title |-> "screen"],
                  [id |-> 0, title |-> "store"],
                  [id |-> 3, title |-> "report"] >> >>
OneProse == << {"import", "store"} >>
OneAddition == << {"import"} >>
TwoSubmissions == {<<Other, NoEpic>>, <<"store", 1>>}
ScreenNeedsStore == [t \in Titles |-> IF t = "screen" THEN {"store"} ELSE {}]
\* An id that may become another child's, and one that nobody has.
CitedIds == [t \in Titles |-> CASE t = "import" -> {5} [] t = "screen" -> {9} [] OTHER -> {}]
TabSymmetry == Permutations(Tabs)
=============================================================================
