------------------------------ MODULE MCCatalog ------------------------------
(* Model values for checking CatalogReconciliation with TLC. *)
EXTENDS CatalogReconciliation, TLC

CONSTANTS m1, m2
OneModel == {m1}
TwoModels == {m1, m2}
ModelSymmetry == Permutations({m1, m2})
=============================================================================
