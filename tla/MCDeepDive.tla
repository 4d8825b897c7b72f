----------------------------- MODULE MCDeepDive ------------------------------
(***************************************************************************)
(* DeepDiveSessions for TLC. The requests are interchangeable: nothing in  *)
(* the code tells two of them apart.                                       *)
(***************************************************************************)
EXTENDS DeepDiveSessions, TLC

RequestSymmetry == Permutations(Requests)
=============================================================================
