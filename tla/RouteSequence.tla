---------------------------- MODULE RouteSequence ----------------------------
(***************************************************************************)
(* What a receipt promises whoever audits an invocation: one execution on  *)
(* the approved primary route, after a failed one at most one more on the  *)
(* approved second route, and a verdict that is the last one's result.     *)
(***************************************************************************)
EXTENDS Naturals, Sequences

Failures == {"failed", "timed_out", "cancelled"}
Results == {"completed"} \cup Failures

VARIABLES
  runs,     \* the executions so far, "open" or with their result
  verdict   \* "open", or the result the invocation is closed with

RSInit == runs = <<>> /\ verdict = "open"

(* An execution begins: the first, or the one that replaces a failure.     *)
Begin ==
  /\ verdict = "open"
  /\ runs = <<>> \/ \E r \in Failures : runs = <<r>>
  /\ runs' = Append(runs, "open") /\ verdict' = verdict

End(r) ==
  /\ runs # <<>> /\ runs[Len(runs)] = "open"
  /\ runs' = [runs EXCEPT ![Len(runs)] = r] /\ verdict' = verdict

Conclude ==
  /\ verdict = "open" /\ runs # <<>> /\ runs[Len(runs)] \in Results
  /\ verdict' = runs[Len(runs)] /\ runs' = runs

RSNext == Begin \/ Conclude \/ \E r \in Results : End(r)

RSSpec == RSInit /\ [][RSNext]_<<runs, verdict>>
=============================================================================
