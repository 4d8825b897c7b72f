------------------------------ MODULE MCRuntime ------------------------------
(* Project keys and launch profiles for checking RuntimeExecution with TLC. *)
EXTENDS RuntimeExecution

CONSTANTS projectId, rootPath

(* A plan-bound prompt with the default stall timer, and a launch through  *)
(* the nested executor, which has no tracker, with a maximum runtime.      *)
Prompt == [tracked |-> TRUE, timers |-> {"stall"}]
Nested == [tracked |-> FALSE, timers |-> {"maximum"}]

BothProfiles == {Prompt, Nested}
PromptOnly == {Prompt}
=============================================================================
