--------------------------- MODULE MCPhaseReview ---------------------------
EXTENDS PhaseReview
\* Review last, in the middle, first and twice, with and without a checkpoint.
AllContracts ==
  {[tasks |-> <<"agent", "code_review">>, git |-> TRUE],
   [tasks |-> <<"agent", "code_review", "verification">>, git |-> TRUE],
   [tasks |-> <<"code_review", "agent">>, git |-> FALSE],
   [tasks |-> <<"code_review", "agent", "code_review">>, git |-> TRUE]}
=============================================================================
