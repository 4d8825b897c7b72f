---------------------------- MODULE WorkflowRuns ----------------------------
(***************************************************************************)
(* The implementation runs of one FEAT: Start, Continue and Cancel         *)
(* Implementation, the autonomous phase loop with its no-progress circuit, *)
(* failure recovery, and the scheduler that starts the next run.           *)
(*                                                                         *)
(* The orchestrator is one JavaScript process. A run gives up control only *)
(* while a Pi worker or the recovery worker works ("postprocess",          *)
(* "worker", "recovering") and when it yields to the control plane         *)
(* ("yield"); everything else it does happens in one turn, which `turn`    *)
(* names and which only a crash can cut. The run row of the card is        *)
(* overwritten by whoever writes last: the store compares nothing.         *)
(***************************************************************************)
EXTENDS Naturals, FiniteSets

CONSTANTS
  RunIds,       \* run identifiers: one more than the runs that may overlap
  Decisions,    \* what a transition that repeats a phase may report
  MaxEvidence,  \* how often the durable evidence of the FEAT can change
  MaxSteps,     \* phases and worker stages between two repeats
  MaxRetries,   \* recoveries of one run
  MaxCrashes    \* process crashes

ASSUME RunIdsAreNumbers == RunIds \subseteq Nat \ {0}
ASSUME BoundsAreNaturals ==
  MaxEvidence \in Nat /\ MaxSteps \in Nat /\ MaxRetries \in Nat /\ MaxCrashes \in Nat

VARIABLES
  row,        \* the card's run row: the last run written and its status
  stage,      \* the state folder the FEAT lies in
  evidence,   \* number of changes of the durable progress fingerprint
  resolved,   \* are all phases and tasks terminal?
  runs,       \* what each run does
  cancelReq,  \* the in-memory set of cancellation requests
  turn,       \* the run whose turn is in progress, 0 if none
  up, crashes,
  orphaned,   \* history: the run the row names ended without a last write
  late,       \* history: a cancelled run wrote the row or moved the folder
  succ        \* history: runs the scheduler has started, while ~late

vars == <<row, stage, evidence, resolved, runs, cancelReq, turn, up, crashes, orphaned, late, succ>>

NoRun == 0
None == "none"
Statuses == {"none", "running", "completed", "blocked", "failed", "cancelled"}
Working == {"postprocess", "worker", "recovering"}
Suspended == {"yield"} \cup Working
InTurn == {"starting", "moved", "rolledback", "begun", "deciding", "failed",
           "paused", "analyzed", "completed"}

Decided == [what : Decisions, at : 0..MaxEvidence]
NothingDecided == [what |-> None, at |-> 0]
Run == [pc : {"idle"} \cup Suspended \cup InTurn, auto : BOOLEAN,
        before : 0..MaxEvidence,
        retry : 0..MaxRetries, left : 0..MaxSteps,
        second : BOOLEAN,  \* is the worker invocation on its second attempt?
        prev : Decided \cup {NothingDecided}]

\* A run that does not execute keeps nothing in memory. (A cancellation
\* request that outlives its run names an identifier no later run has; the
\* model forgets it with the run.)
Entering(pc, auto) ==
  [pc |-> pc, auto |-> auto, before |-> 0, retry |-> 0, left |-> 0, second |-> FALSE,
   prev |-> NothingDecided]
NotRunning == Entering("idle", FALSE)

Live(r) == r \in RunIds /\ runs[r].pc # "idle"
Cancelled(r) == r \in cancelReq
LiveRuns == {r \in RunIds : Live(r)}

\* A new identifier is one nothing refers to: the identifiers of finished runs
\* are taken again, the smallest first.
Free(r) == ~Live(r) /\ row.run # r
Unused(r) == Free(r) /\ \A s \in RunIds : s < r => ~Free(s)

Init ==
  /\ row = [run |-> NoRun, status |-> None]
  /\ stage \in {"ready", "in_progress"}
  /\ evidence = 0 /\ resolved = FALSE
  /\ runs = [r \in RunIds |-> NotRunning]
  /\ cancelReq = {} /\ turn = NoRun
  /\ up = TRUE /\ crashes = 0 /\ orphaned = FALSE /\ late = FALSE /\ succ = 0

-----------------------------------------------------------------------------
(* Building blocks.                                                        *)

\* recordFeatureWorkflowRun and recordFeatureWorkflowCompletion: the row of
\* the card is replaced, whatever run it names now.
Write(r, status) ==
  /\ row' = [run |-> r, status |-> status]
  /\ late' = (late \/ Cancelled(r))
  /\ orphaned' = FALSE
NoWrite == UNCHANGED <<row, late, orphaned>>

\* Outside the loop nothing is kept of the circuit.
At(rec, pc) ==
  IF pc = "deciding" THEN [rec EXCEPT !.pc = pc, !.second = FALSE]
  ELSE [Entering(pc, rec.auto) EXCEPT !.before = rec.before, !.retry = rec.retry]
Goto(r, pc) == runs' = [runs EXCEPT ![r] = At(@, pc)]
Finish(r) ==
  /\ runs' = [runs EXCEPT ![r] = NotRunning]
  /\ cancelReq' = cancelReq \ {r}
InTurnOf(r) == up /\ turn = r
\* A worker, timer or setImmediate callback resumes a suspended run.
Resumes(r, pc) == up /\ turn = NoRun /\ runs[r].pc = pc
KeepTurn(r) == turn' = r
EndTurn == turn' = NoRun
Proc == <<up, crashes>>
Folder == <<stage, evidence, resolved>>

\* A worker edits the working tree: it may change the durable evidence, and
\* a change may be the one that resolves the last phase.
WorkDone ==
  \/ UNCHANGED <<evidence, resolved>>
  \/ /\ evidence < MaxEvidence
     /\ evidence' = evidence + 1
     /\ resolved' \in {resolved, TRUE}

\* The card-level admission of Start and Continue: the row is not running.
\* MaxLive, the overlapping runs the model admits, leaves an identifier for
\* the scheduler.
MaxLive == Cardinality(RunIds) - 1
\* Mutant: the row is not looked at.
AdmitAnyRow(r) ==
  /\ up /\ turn = NoRun
  /\ Unused(r) /\ Cardinality(LiveRuns) < Cardinality(RunIds) - 1

Admit(r) ==
  /\ up /\ turn = NoRun /\ row.status # "running"
  /\ Unused(r) /\ Cardinality(LiveRuns) < MaxLive

\* A pass through the phase queue begins, with a new no-progress circuit.
EnterLoop(r, rec) ==
  [rec EXCEPT !.pc = IF rec.auto THEN "yield" ELSE "worker",
              !.left = MaxSteps, !.second = FALSE, !.prev = NothingDecided]

\* WorkflowCancelledError reaches handleFailure: the request is forgotten and
\* nothing else is written.
CancelExit(r) ==
  /\ Cancelled(r)
  /\ Finish(r) /\ EndTurn /\ NoWrite

\* RuntimeExecutionCoordinator.execute: the first attempt of a worker
\* invocation failed, or was killed by a cancellation, and a second one starts
\* on the other route.  Nobody asks whether the run is still wanted.
Replace(r) ==
  /\ up /\ turn = NoRun /\ runs[r].pc \in Working /\ ~runs[r].second
  /\ runs' = [runs EXCEPT ![r].second = TRUE]
  /\ WorkDone /\ NoWrite
  /\ UNCHANGED <<stage, cancelReq, turn, Proc, succ>>

-----------------------------------------------------------------------------
(* Operator requests.                                                      *)

\* StartImplementationApplication.start
Start(r, auto) ==
  /\ Admit(r) /\ stage = "ready"
  /\ Write(r, "running")
  /\ runs' = [runs EXCEPT ![r] = Entering("starting", auto)]
  /\ KeepTurn(r)
  /\ UNCHANGED <<Folder, cancelReq, Proc, succ>>

\* Mutant: the state folder is not looked at.
ContinueAnywhere(r, auto) ==
  /\ Admit(r) /\ ~resolved
  /\ Write(r, "running")
  /\ runs' = [runs EXCEPT ![r] = Entering("begun", auto)]
  /\ KeepTurn(r)
  /\ UNCHANGED <<Folder, cancelReq, Proc, succ>>

\* ContinueImplementationApplication.continue
Continue(r, auto) ==
  /\ Admit(r) /\ stage = "in_progress" /\ ~resolved
  /\ Write(r, "running")
  /\ runs' = [runs EXCEPT ![r] = Entering("begun", auto)]
  /\ KeepTurn(r)
  /\ UNCHANGED <<Folder, cancelReq, Proc, succ>>

\* FeatureWorkflowCancellationApplication.cancel: also for a run no process
\* executes any more.
Cancel ==
  /\ up /\ turn = NoRun /\ row.status = "running"
  /\ cancelReq' = cancelReq \cup ({row.run} \cap LiveRuns)
  /\ row' = [row EXCEPT !.status = "cancelled"]
  /\ UNCHANGED <<Folder, runs, turn, Proc, late, orphaned, succ>>

-----------------------------------------------------------------------------
(* Start Implementation up to the loop.                                    *)

\* prepareBranches or another step before the move throws.
StartFails(r) ==
  /\ InTurnOf(r) /\ runs[r].pc = "starting"
  /\ Write(r, "failed") /\ Finish(r) /\ EndTurn
  /\ UNCHANGED <<Folder, Proc, succ>>

MoveInProgress(r) ==
  /\ InTurnOf(r) /\ runs[r].pc = "starting"
  /\ stage' = "in_progress"
  /\ Goto(r, "moved") /\ KeepTurn(r) /\ NoWrite
  /\ UNCHANGED <<evidence, resolved, cancelReq, Proc, succ>>

\* Non-autonomous Start ends after the transition.
CompleteTransition(r) ==
  /\ InTurnOf(r) /\ runs[r].pc = "moved" /\ ~runs[r].auto
  /\ Write(r, "completed") /\ Finish(r) /\ EndTurn
  /\ UNCHANGED <<Folder, Proc, succ>>

DispatchPostProcess(r) ==
  /\ InTurnOf(r) /\ runs[r].pc = "moved" /\ runs[r].auto
  /\ Write(r, "running") /\ Goto(r, "postprocess") /\ EndTurn
  /\ UNCHANGED <<Folder, cancelReq, Proc, succ>>

PostProcessReturns(r) ==
  /\ Resumes(r, "postprocess") /\ WorkDone /\ UNCHANGED stage
  /\ \/ CancelExit(r)
     \/ /\ ~Cancelled(r)
        /\ Write(r, "running")
        /\ runs' = [runs EXCEPT ![r] = [EnterLoop(r, @) EXCEPT !.before = evidence']]
        /\ EndTurn /\ UNCHANGED cancelReq
  /\ UNCHANGED <<Proc, succ>>

\* The failure moves the folder back without asking who owns the card now.
PostProcessFails(r) ==
  /\ Resumes(r, "postprocess") /\ WorkDone
  /\ stage' = "ready"
  /\ late' = (late \/ Cancelled(r))
  /\ Goto(r, "rolledback") /\ KeepTurn(r)
  /\ UNCHANGED <<row, cancelReq, Proc, orphaned, succ>>

-----------------------------------------------------------------------------
(* Continue Implementation up to the loop.                                 *)

\* The pre-run reconciliation finds every phase and task terminal.
BeginTerminal(r) ==
  /\ InTurnOf(r) /\ runs[r].pc = "begun"
  /\ resolved' = TRUE
  /\ Write(r, "completed") /\ Finish(r) /\ EndTurn
  /\ UNCHANGED <<stage, evidence, Proc, succ>>

BeginLoop(r) ==
  /\ InTurnOf(r) /\ runs[r].pc = "begun"
  /\ Write(r, "running")
  /\ runs' = [runs EXCEPT ![r] = [EnterLoop(r, @) EXCEPT !.before = evidence]]
  /\ EndTurn
  /\ UNCHANGED <<Folder, cancelReq, Proc, succ>>

\* A step before the loop throws; recovery may follow as for any failure.
BeginFails(r) ==
  /\ InTurnOf(r) /\ runs[r].pc = "begun"
  /\ Goto(r, "failed") /\ KeepTurn(r) /\ NoWrite
  /\ UNCHANGED <<Folder, cancelReq, Proc, succ>>

-----------------------------------------------------------------------------
(* The autonomous phase loop.                                              *)

\* PhaseFailureRecordingApplication.record, before the loop throws on: the
\* failed phase is projected to the row as progress of an active run, unless
\* the error is one it skips or the store refuses it.
RecordPhaseFailure(r) ==
  \/ runs[r].auto /\ ~Cancelled(r) /\ Write(r, "running")
  \/ NoWrite

\* yieldToWorkflowControlPlane: the check after setImmediate. Inside a retry
\* the cancellation error is caught as an ordinary failure.
Yield(r) ==
  /\ Resumes(r, "yield")
  /\ \/ runs[r].retry = 0 /\ CancelExit(r)
     \/ /\ runs[r].retry > 0 \/ ~Cancelled(r)
        /\ Goto(r, IF Cancelled(r) THEN "failed" ELSE "deciding")
        /\ KeepTurn(r) /\ NoWrite /\ UNCHANGED cancelReq
  /\ UNCHANGED <<Folder, Proc, succ>>

\* Mutant: the run is not asserted active before the worker starts.
DispatchUnchecked(r) ==
  /\ InTurnOf(r) /\ runs[r].pc = "deciding" /\ runs[r].auto
  /\ runs[r].left > 0
  /\ Write(r, "running")
  /\ runs' = [runs EXCEPT ![r].pc = "worker", ![r].left = @ - 1]
  /\ EndTurn
  /\ UNCHANGED <<Folder, cancelReq, Proc, succ>>

\* A worker is dispatched: its progress is recorded, and the run asserted
\* active, first.
Dispatch(r) ==
  /\ InTurnOf(r) /\ runs[r].pc = "deciding" /\ runs[r].auto
  /\ ~Cancelled(r) /\ runs[r].left > 0
  /\ Write(r, "running")
  /\ runs' = [runs EXCEPT ![r].pc = "worker", ![r].left = @ - 1]
  /\ EndTurn
  /\ UNCHANGED <<Folder, cancelReq, Proc, succ>>

\* The phase is complete or skipped: the loop takes the next one.
Advance(r) ==
  /\ InTurnOf(r) /\ runs[r].pc = "deciding" /\ runs[r].auto
  /\ runs[r].left > 0
  /\ runs' = [runs EXCEPT ![r].pc = "yield", ![r].left = @ - 1]
  /\ EndTurn /\ NoWrite
  /\ UNCHANGED <<Folder, cancelReq, Proc, succ>>

\* PhaseNoProgressCircuit.observe: does the signature differ from the last?
Observe(prev, d) == prev # [what |-> d, at |-> evidence]

\* A transition asks for the same phase again.
Repeat(r, d) ==
  /\ InTurnOf(r) /\ runs[r].pc = "deciding" /\ runs[r].auto
  /\ IF Observe(runs[r].prev, d)
     THEN /\ runs' = [runs EXCEPT ![r].pc = "yield", ![r].left = MaxSteps,
                                  ![r].prev = [what |-> d, at |-> evidence]]
          /\ EndTurn /\ NoWrite
     ELSE Goto(r, "paused") /\ KeepTurn(r) /\ RecordPhaseFailure(r)
  /\ UNCHANGED <<Folder, cancelReq, Proc, succ>>

\* A worker returns its output.
WorkerReturns(r) ==
  /\ Resumes(r, "worker") /\ WorkDone /\ UNCHANGED stage
  /\ Goto(r, "deciding") /\ KeepTurn(r) /\ NoWrite
  /\ UNCHANGED <<cancelReq, Proc, succ>>

\* A worker's last attempt fails, times out, or is killed by a cancellation.
WorkerFails(r) ==
  /\ Resumes(r, "worker") /\ WorkDone /\ UNCHANGED stage
  /\ Goto(r, "failed") /\ KeepTurn(r) /\ RecordPhaseFailure(r)
  /\ UNCHANGED <<cancelReq, Proc, succ>>

\* A step of the loop throws an error of its own.
LoopThrows(r) ==
  /\ InTurnOf(r) /\ runs[r].pc = "deciding"
  /\ Goto(r, "failed") /\ KeepTurn(r) /\ RecordPhaseFailure(r)
  /\ UNCHANGED <<Folder, cancelReq, Proc, succ>>

\* A step of the loop asserts the run active and it is not.
LoopCancelled(r) ==
  /\ InTurnOf(r) /\ runs[r].pc = "deciding" /\ runs[r].retry = 0
  /\ CancelExit(r)
  /\ UNCHANGED <<Folder, Proc, succ>>

\* The loop returns. In the first attempt the run is asserted active and may
\* go on to the scheduler; a recovered run is completed as it is.
LoopReturns(r) ==
  /\ InTurnOf(r) /\ runs[r].pc = "deciding"
  /\ runs[r].retry > 0 \/ ~Cancelled(r)
  /\ Write(r, "completed")
  /\ IF runs[r].retry > 0
     THEN Finish(r) /\ EndTurn
     ELSE Goto(r, "completed") /\ KeepTurn(r) /\ UNCHANGED cancelReq
  /\ UNCHANGED <<Folder, Proc, succ>>

-----------------------------------------------------------------------------
(* Failure recovery.                                                       *)

\* A failure classified as a blocked code review is exempt from the count, but
\* no step throws one: findings of a review go back to the loop as a Repeat.
Recoverable(r) == runs[r].auto /\ runs[r].retry < MaxRetries /\ ~Cancelled(r)

\* The failed phase is retried in a nested pass, at once or after analysis.
\* Only the first attempt reads `before`, when it returns.
Retry(r) ==
  /\ InTurnOf(r) /\ runs[r].pc \in {"failed", "analyzed"} /\ Recoverable(r)
  /\ Write(r, "running")
  /\ runs' = [runs EXCEPT ![r] = [EnterLoop(r, runs[r]) EXCEPT !.retry = @ + 1, !.before = 0]]
  /\ EndTurn
  /\ UNCHANGED <<Folder, cancelReq, Proc, succ>>

AnalyzeFailure(r) ==
  /\ InTurnOf(r) /\ runs[r].pc = "failed" /\ Recoverable(r)
  /\ Write(r, "running") /\ Goto(r, "recovering") /\ EndTurn
  /\ UNCHANGED <<Folder, cancelReq, Proc, succ>>

\* The recovery worker returns or fails; a failure leaves only SettleFailed.
RecoveryEnds(r) ==
  /\ Resumes(r, "recovering") /\ WorkDone /\ UNCHANGED stage
  /\ \E pc \in {"analyzed", "rolledback"} : Goto(r, pc)
  /\ KeepTurn(r) /\ NoWrite
  /\ UNCHANGED <<cancelReq, Proc, succ>>

Unrecovered == {"failed", "analyzed", "rolledback", "paused"}

\* Mutant: the run ends but the row keeps saying running.
SettleSilently(r) ==
  /\ InTurnOf(r) /\ runs[r].pc \in Unrecovered
  /\ NoWrite /\ Finish(r) /\ EndTurn
  /\ UNCHANGED <<Folder, Proc, succ>>

\* The end of handleFailure: the row says failed or blocked, for whichever
\* run it named before. A store that refuses the write is ignored. A pause
\* (WORKFLOW_AWAITING_USER_DECISION), which is never retried, ends here too.
SettleFailed(r) ==
  /\ InTurnOf(r) /\ runs[r].pc \in Unrecovered
  /\ \/ \E status \in {"failed", "blocked"} : Write(r, status)
     \/ orphaned' = (orphaned \/ row.run = r) /\ UNCHANGED <<row, late>>
  /\ Finish(r) /\ EndTurn
  /\ UNCHANGED <<Folder, Proc, succ>>

-----------------------------------------------------------------------------
(* AutonomousContinuationScheduler.schedule                                *)

NotScheduled(r) ==
  /\ InTurnOf(r) /\ runs[r].pc = "completed"
  /\ ~runs[r].auto \/ resolved
  /\ Finish(r) /\ EndTurn /\ NoWrite
  /\ UNCHANGED <<Folder, Proc, succ>>

\* Mutant: the fingerprints are not compared.
HasProgressAlways(r) == TRUE

HasProgress(r) == evidence # runs[r].before

ScheduleBlocked(r) ==
  /\ InTurnOf(r) /\ runs[r].pc = "completed" /\ runs[r].auto /\ ~resolved
  /\ ~HasProgress(r)
  /\ Write(r, "blocked") /\ Finish(r) /\ EndTurn
  /\ UNCHANGED <<Folder, Proc, succ>>

Schedule(r, s) ==
  /\ InTurnOf(r) /\ runs[r].pc = "completed" /\ runs[r].auto /\ ~resolved
  /\ HasProgress(r)
  /\ Unused(s)
  /\ Write(s, "running")
  /\ runs' = [runs EXCEPT ![r] = NotRunning,
                          ![s] = Entering("begun", TRUE)]
  /\ KeepTurn(s)
  /\ succ' = IF late THEN succ ELSE succ + 1
  /\ UNCHANGED <<Folder, cancelReq, Proc>>

-----------------------------------------------------------------------------
(* Crash and restart. Nothing at startup looks at running rows.            *)

Crash ==
  /\ up /\ crashes < MaxCrashes
  /\ up' = FALSE /\ crashes' = crashes + 1
  /\ runs' = [r \in RunIds |-> IF Live(r) THEN NotRunning ELSE runs[r]]
  /\ cancelReq' = {} /\ EndTurn
  /\ orphaned' = (orphaned \/ Live(row.run))
  /\ UNCHANGED <<row, Folder, late, succ>>

Restart ==
  /\ ~up
  /\ up' = TRUE
  /\ UNCHANGED <<row, Folder, runs, cancelReq, turn, crashes, late, orphaned, succ>>

RunStep(r) ==
  \/ StartFails(r) \/ MoveInProgress(r) \/ CompleteTransition(r)
  \/ DispatchPostProcess(r) \/ PostProcessReturns(r) \/ PostProcessFails(r)
  \/ BeginTerminal(r) \/ BeginLoop(r) \/ BeginFails(r)
  \/ Yield(r) \/ Dispatch(r) \/ Advance(r) \/ (\E d \in Decisions : Repeat(r, d))
  \/ Replace(r) \/ WorkerReturns(r) \/ WorkerFails(r)
  \/ LoopThrows(r) \/ LoopCancelled(r) \/ LoopReturns(r)
  \/ Retry(r) \/ AnalyzeFailure(r) \/ RecoveryEnds(r) \/ SettleFailed(r)
  \/ NotScheduled(r) \/ ScheduleBlocked(r)
  \/ \E s \in RunIds : Schedule(r, s)

Next ==
  \/ \E r \in RunIds, auto \in BOOLEAN : Start(r, auto) \/ Continue(r, auto)
  \/ Cancel
  \/ \E r \in RunIds : RunStep(r)
  \/ Crash
  \/ Restart

Spec == Init /\ [][Next]_vars

-----------------------------------------------------------------------------
(* Properties.                                                             *)

\* Every variable has its type; a turn belongs to a live run.
TypeOK ==
  /\ row \in [run : RunIds \cup {NoRun}, status : Statuses]
  /\ stage \in {"ready", "in_progress"}
  /\ evidence \in 0..MaxEvidence /\ resolved \in BOOLEAN
  /\ runs \in [RunIds -> Run]
  /\ cancelReq \subseteq RunIds
  /\ turn \in RunIds \cup {NoRun}
  /\ up \in BOOLEAN /\ crashes \in 0..MaxCrashes
  /\ orphaned \in BOOLEAN /\ late \in BOOLEAN /\ succ \in Nat
  /\ turn # NoRun => up /\ runs[turn].pc \in InTurn

\* A card shows "running" only while its run executes, unless the process
\* died under it or the store refused its last write: every exit of a run
\* (success, failure, pause, cancellation, rollback) takes the row along.
RunningRowIsLive ==
  row.status = "running" => Live(row.run) \/ orphaned

\* As long as no cancelled run has written late, a run that executes and was
\* not cancelled owns the card: the row names it as running, so Start,
\* Continue and the scheduler never have two such runs at work on one FEAT.
LiveRunOwnsRow ==
  ~late => \A r \in RunIds :
    (Live(r) /\ ~Cancelled(r) /\ runs[r].pc # "completed")
      => row = [run |-> r, status |-> "running"]

\* As long as no cancelled run has written late, a run beyond the transition
\* works on a FEAT that lies in 03_IN_PROGRESS: no other run's rollback moves
\* the folder from under it.
WorksInProgress ==
  ~late => \A r \in RunIds :
    (Live(r) /\ ~Cancelled(r) /\ runs[r].pc \notin {"starting", "rolledback"})
      => stage = "in_progress"

\* The scheduler cannot start runs for ever: each one it starts is paid for
\* with a change of the durable evidence made during its predecessor.
SuccessorsBounded == ~late => succ <= evidence

\* A worker starts: an invocation begins, or its second attempt does.
StartsWorker(r) ==
  /\ runs'[r].pc \in Working
  /\ runs'[r].pc # runs[r].pc \/ runs'[r].second # runs[r].second

\* After the operator's cancellation no worker invocation begins for the run,
\* neither from the loop nor from recovery.  What may still start, once, is the
\* second attempt of the invocation that was under way: nothing stops that one.
CancelledDispatchesNothing ==
  [][\A r \in RunIds :
       Cancelled(r) /\ StartsWorker(r) => runs'[r] = [runs[r] EXCEPT !.second = TRUE]]_vars
=============================================================================
