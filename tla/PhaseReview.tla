---------------------------- MODULE PhaseReview ----------------------------
(***************************************************************************)
(* One phase of an ordered (V2/V3) phase contract, from Continue           *)
(* Implementation through its declared tasks, its review and remediation   *)
(* cycle and its exit to the git checkpoint, with a run that may die       *)
(* between any two durable writes.                                         *)
(*                                                                         *)
(* What is durable is spread over a Markdown document (status, check boxes,*)
(* the Code review row), the FeatureTasks table, the task-run rows in      *)
(* SQLite, the review store, and the reports: every write of the code to   *)
(* one of them is a step of its own here. What a run keeps in memory is    *)
(* `run`. The phase stands for the last phase of its FEAT: the others are  *)
(* COMPLETED, and their quality gates and the phase's other gates are      *)
(* settled. Every review task is required with condition "always".         *)
(***************************************************************************)
EXTENDS Naturals, Sequences, FiniteSets

CONSTANTS
  Contracts,  \* the phase contracts: the kinds of the declared tasks, in order,
              \* and whether the phase ends with a git checkpoint (V3)
  MaxFaults   \* deaths of a run, unfavourable results of workers and failed pushes

Kinds == {"agent", "code_review", "verification"}

ASSUME ContractsAreOrdered ==
  \A c \in Contracts :
    /\ c.git \in BOOLEAN
    /\ c.tasks \in Seq(Kinds)
    /\ \E i \in DOMAIN c.tasks : c.tasks[i] = "code_review"
ASSUME FaultsAreNatural == MaxFaults \in Nat

VARIABLES
  contract,
  box,          \* the checked boxes of the Phase Task Ledger
  rows,         \* the task-run rows of the database
  doc, table,   \* the status in the phase document and in FeatureTasks.md
  reviewRow,    \* the Code review row of the Quality Gate Evidence table
  reports,      \* the Markdown reports under code-reviews/
  gate,         \* the current gate event and the artifact that triggered it
  basis,        \* the newest NEEDS_CHANGES manifest and its remediation cycle
  obligations,  \* the tasks deferred in ManualTestObligations.json
  pushed,       \* is the git checkpoint on the remote?
  run,          \* what the run keeps in memory
  faults

document == <<box, doc, table, reviewRow, obligations>>
store == <<gate, basis>>
vars == <<contract, rows, document, reports, store, pushed, run, faults>>

None == "none"
Tasks == DOMAIN contract.tasks
Statuses == {"PENDING", "IN_PROGRESS", "AWAITING_REVIEW", "COMPLETED"}
Results == {"APPROVED", "NEEDS_CHANGES", "BLOCKED"}

\* "idle": no run executes; "finished": the last run ended because every phase
\* was terminal. `site` is the place that reconciles, `task` the active task,
\* `lease`: were the successor ids of this run used for the current basis?
\* `rerun`: does it take the review it comes to for a rerun?
NoRun(pc) == [pc |-> pc, site |-> None, task |-> 0, route |-> None,
              lease |-> FALSE, cycle |-> None, rerun |-> FALSE]
At(pc) == run.pc = pc
Goto(pc) == run' = [run EXCEPT !.pc = pc]
Ends == run' = NoRun("idle")
Spend == faults < MaxFaults /\ faults' = faults + 1

---------------------------------------------------------------------------
(* Projections of the durable state *)

\* getNextUnresolvedPhaseContractTask: by the check boxes alone; 0 if none.
NextTask ==
  IF Tasks \subseteq box THEN 0
  ELSE CHOOSE t \in Tasks \ box : \A u \in Tasks \ box : t <= u
NextKind == IF NextTask = 0 THEN None ELSE contract.tasks[NextTask]
ReviewIsNext == NextKind = "code_review"

\* The rows after `reconcile`: a checked task that no row resolves is COMPLETED.
Mirrored(checked) ==
  [t \in Tasks |-> IF t \in checked /\ rows[t] # "SKIPPED" THEN "COMPLETED" ELSE rows[t]]

\* The task `begin` selects, by the rows and the boxes; 0 if none.
TaskToBegin ==
  LET started == {t \in Tasks : Mirrored(box)[t] = "IN_PROGRESS"}
      open == IF started # {} THEN started
              ELSE {t \in Tasks \ box : Mirrored(box)[t] \notin {"COMPLETED", "SKIPPED"}}
  IN  IF open = {} THEN 0 ELSE CHOOSE t \in open : \A u \in open : t <= u

\* isImplementationPhaseResolved. Any report that says APPROVED will do, also
\* one of another phase.
PhaseResolved ==
  \/ doc = "COMPLETED"
  \/ doc = "AWAITING_REVIEW" /\ NextTask = 0 /\ reports.approved
CheckpointSatisfied == contract.git => pushed

\* getMissingPhaseQualityGates, for code_review: the newest report beats the
\* row of the document, which need not be terminated to be read here.
ReviewGateMissing ==
  reports.newest \in {"NEEDS_CHANGES", "BLOCKED"} \/ reviewRow = "missing"

\* readAuthoritativeReviewRerunLineageContext: must a rerun name `basis`?
LineageRequired ==
  \/ gate.by \in {"response", "receipt"}
  \/ gate.result = "NEEDS_CHANGES"
  \/ gate.result = "APPROVED" /\ gate.state = "PENDING"

\* isAwaitingReviewRerun: the document, the table or one of the last ten session
\* files, of whatever feature, mentions that fixes were applied. It may find so
\* at any time, and no longer find it the next.
AwaitsRerun == BOOLEAN

\* selectPersistedReviewTransition
AfterManifest == CASE gate.result = "BLOCKED" -> "blocked"
                   [] gate.state = "APPROVED" -> "phase_exit"
                   [] OTHER -> "fixer"

\* With nothing in the store a report with findings goes to the fixer.
WithoutArtifact(awaits) == IF awaits \/ reports.findings = None THEN "reviewer" ELSE "fixer"

\* Mutant of ReviewRoute: a receipt is taken for the approval it waits for.
ReviewRouteTrustsReceipt(awaits) ==
  CASE gate.by = None -> WithoutArtifact(awaits)
    [] gate.by = "receipt" -> "phase_exit"
    [] gate.by = "response" -> "fixer"
    [] gate.by = "manifest" -> AfterManifest

\* Mutant of ReviewRoute: a response is taken for its receipt.
ReviewRouteTrustsResponse(awaits) ==
  CASE gate.by = None -> WithoutArtifact(awaits)
    [] gate.by \in {"receipt", "response"} -> "reviewer"
    [] gate.by = "manifest" -> AfterManifest

\* selectReviewResumeRoute, for a phase whose next task is a review: the current
\* artifact decides.
ReviewRoute(awaits) ==
  CASE gate.by = None -> WithoutArtifact(awaits)
    [] gate.by = "receipt" -> "reviewer"
    [] gate.by = "response" -> "fixer"
    [] gate.by = "manifest" -> AfterManifest

\* evaluateAuthoritativePhaseGate for a manifest: an approval that names its
\* predecessor counts only once the predecessor's newest complete cycle is
\* applied and verified.
GateOf(result, linked) ==
  CASE result = "NEEDS_CHANGES" -> "REJECTED"
    [] result = "BLOCKED" -> "BLOCKED"
    [] result = "APPROVED" -> IF linked /\ basis.cycle # "verified" THEN "PENDING" ELSE "APPROVED"

---------------------------------------------------------------------------
(* Continue Implementation: handoff, reconciliation, queue *)

\* A phase may have been reviewed before there was a review store: then there is
\* a report with findings, and no gate.
Init ==
  /\ contract \in Contracts
  /\ box = {} /\ rows = [t \in Tasks |-> "NOT_STARTED"]
  /\ doc = "PENDING" /\ table = "PENDING"
  /\ reviewRow = "missing" /\ obligations = {}
  /\ reports \in {[newest |-> old, findings |-> old, approved |-> a] :
                    old \in {None, "NEEDS_CHANGES"}, a \in BOOLEAN}
  /\ gate = [state |-> None, by |-> None, result |-> None]
  /\ basis = [disposition |-> None, cycle |-> None]
  /\ pushed = FALSE
  /\ run = NoRun("idle")
  /\ faults = 0

Continue ==
  /\ run.pc \in {"idle", "finished"}
  /\ run' = [NoRun("handoff") EXCEPT !.site = "before"]
  /\ UNCHANGED <<contract, rows, document, reports, store, pushed, faults>>

\* PhaseReviewHandoffApplication: a phase whose review task is next is marked
\* AWAITING_REVIEW, unless its newest findings still wait for the fixer.
HandoffEligible ==
  /\ ReviewIsNext /\ ReviewGateMissing
  /\ doc # "AWAITING_REVIEW"
  /\ reports.findings = None

Handoff ==
  /\ At("handoff")
  /\ IF HandoffEligible
     THEN doc' = "AWAITING_REVIEW" /\ Goto("handoffTable")
     ELSE doc' = doc /\ Goto("reconcile")
  /\ UNCHANGED <<contract, box, rows, table, reviewRow, obligations,
                 reports, store, pushed, faults>>

HandoffTable ==
  /\ At("handoffTable")
  /\ table' = "AWAITING_REVIEW"
  /\ Goto("reconcile")
  /\ UNCHANGED <<contract, box, rows, doc, reviewRow, obligations,
                 reports, store, pushed, faults>>

\* Mutant of StaleRows: only COMPLETED rows are compared with their boxes.
StaleRowsNotSkipped == {t \in Tasks \ box : rows[t] = "COMPLETED"}

\* A row says that a task is done whose box is not checked.
StaleRows == {t \in Tasks \ box : rows[t] \in {"COMPLETED", "SKIPPED"}}

Contradictory == doc # table /\ table \notin {"PENDING", "IN_PROGRESS"}
OutOfOrder ==
  NextTask # 0 /\ \E t \in Tasks : t > NextTask /\ (t \in box \/ rows[t] # "NOT_STARTED")

\* reconcilePhaseState
Decision ==
  IF doc = "COMPLETED" THEN IF NextTask = 0 THEN "all_terminal" ELSE "blocked"
  ELSE IF OutOfOrder \/ (Contradictory /\ ~(table = "COMPLETED" /\ NextTask = 0)) THEN "blocked"
  ELSE IF NextTask # 0 \/ doc = "AWAITING_REVIEW" THEN "select"
  ELSE IF reviewRow = "satisfied" THEN "promote" ELSE "blocked"

\* The stale mirror is reset before anything is decided, one row per pass.
ResetStaleRow ==
  /\ At("reconcile") /\ StaleRows # {}
  /\ \E t \in StaleRows :
       /\ \A u \in StaleRows : t <= u
       /\ rows' = [rows EXCEPT ![t] = "NOT_STARTED"]
  /\ UNCHANGED <<contract, document, reports, store, pushed, run, faults>>

\* Promotion records every checked task as COMPLETED, a deferred one too, before
\* it touches the documents.
PromoteRow ==
  /\ At("reconcile") /\ StaleRows = {} /\ Decision = "promote"
  /\ \E t \in Tasks :
       /\ rows[t] # "COMPLETED" /\ \A u \in Tasks : rows[u] # "COMPLETED" => t <= u
       /\ rows' = [rows EXCEPT ![t] = "COMPLETED"]
  /\ UNCHANGED <<contract, document, reports, store, pushed, run, faults>>

Promote ==
  /\ At("reconcile") /\ StaleRows = {} /\ Decision = "promote"
  /\ \A t \in Tasks : rows[t] = "COMPLETED"
  /\ doc' = "COMPLETED"
  /\ Goto("promoteTable")
  /\ UNCHANGED <<contract, box, rows, table, reviewRow, obligations,
                 reports, store, pushed, faults>>

PromoteTable ==
  /\ At("promoteTable")
  /\ table' = "COMPLETED"
  /\ Goto("reconcile")
  /\ UNCHANGED <<contract, box, rows, doc, reviewRow, obligations,
                 reports, store, pushed, faults>>

\* evaluatePhaseWorkerResultContinuation: the loop after a worker returned.
Continuation ==
  CASE doc = "COMPLETED" /\ Decision = "all_terminal" -> "phase_completed"
    [] doc = "IN_PROGRESS" /\ box # {} /\ Decision = "select" -> "continue"
    [] OTHER -> "fail_closed"

\* What the three callers make of the decision: Continue before and after the
\* loop, and the loop itself.
Reconciled ==
  /\ At("reconcile") /\ StaleRows = {} /\ Decision # "promote"
  /\ \/ Decision = "blocked" /\ Ends
     \/ /\ Decision # "blocked" /\ run.site = "worker"
        /\ CASE Continuation = "phase_completed" -> Goto("exit")
             [] Continuation = "continue" -> Goto("entry")
             [] OTHER -> Ends
     \/ Decision = "all_terminal" /\ run.site # "worker" /\ run' = NoRun("finished")
     \/ Decision = "select" /\ run.site = "before" /\ Goto("queue")
     \/ Decision = "select" /\ run.site = "after" /\ Ends
  /\ UNCHANGED <<contract, rows, document, reports, store, pushed, faults>>

LeaveLoop == run' = [run EXCEPT !.pc = "handoff", !.site = "after"]

Queue ==
  /\ At("queue")
  /\ IF PhaseResolved /\ CheckpointSatisfied THEN LeaveLoop ELSE Goto("entry")
  /\ UNCHANGED <<contract, rows, document, reports, store, pushed, faults>>

---------------------------------------------------------------------------
(* Phase entry, planning, and the active task *)

\* normalizePhaseTemplateMachineFields
Normalized(row) == IF row = "unterminated" THEN "satisfied" ELSE row

MaySkip == PhaseResolved /\ CheckpointSatisfied /\ ~ReviewGateMissing

\* The next task and, for a review, the review store decide who works.
PlannedRoute(awaits) ==
  CASE ReviewIsNext -> ReviewRoute(awaits)
    [] NextTask = 0 -> None
    [] OTHER -> "implementation"

\* createPhaseReviewResumePlanningInput: a first review is not taken for a rerun.
RerunEvidence == ReviewIsNext /\ (gate.by # None \/ reports.findings # None)

\* The entry normalises the evidence table, skips a resolved phase, and plans.
Enter ==
  /\ At("entry")
  /\ reviewRow' = Normalized(reviewRow)
  /\ \/ MaySkip /\ LeaveLoop
     \/ /\ ~MaySkip
        /\ \E awaits \in AwaitsRerun :
             run' = [run EXCEPT !.route = PlannedRoute(awaits), !.rerun = awaits /\ RerunEvidence,
                       !.pc = IF PlannedRoute(awaits) \in {"implementation", "fixer"}
                              THEN "begin" ELSE "preReview"]
  /\ UNCHANGED <<contract, box, rows, doc, table, obligations, reports,
                 store, pushed, faults>>

\* PhaseTaskExecutionApplication.begin: the document and the table say
\* IN_PROGRESS before the row does.
Begin ==
  /\ At("begin")
  /\ rows' = Mirrored(box)
  /\ run' = [run EXCEPT !.task = TaskToBegin, !.pc = "beginTable"]
  /\ doc' = "IN_PROGRESS"
  /\ UNCHANGED <<contract, box, table, reviewRow, obligations,
                 reports, store, pushed, faults>>

BeginTable ==
  /\ At("beginTable")
  /\ table' = "IN_PROGRESS"
  /\ Goto("beginRow")
  /\ UNCHANGED <<contract, box, rows, doc, reviewRow, obligations,
                 reports, store, pushed, faults>>

\* A worker that resolves no findings gives up the lease on successor ids.
LeaseKept == run.lease /\ run.route = "fixer" /\ LineageRequired

BeginRow ==
  /\ At("beginRow")
  /\ rows' = [rows EXCEPT ![run.task] = "IN_PROGRESS"]
  /\ IF contract.tasks[run.task] = "verification" THEN Goto("verify")
     ELSE run' = [run EXCEPT !.lease = LeaseKept,
                    !.pc = IF run.route = "fixer" THEN "fixer" ELSE "worker"]
  /\ UNCHANGED <<contract, document, reports, store, pushed, faults>>

\* The worker's result needs a repair in the same run: lost test coverage, a
\* failed gate, an invalid handoff.
RepeatForRepair ==
  /\ At("worker") \/ At("fixer")
  /\ Spend
  /\ Goto("entry")
  /\ UNCHANGED <<contract, rows, document, reports, store, pushed>>

\* The agent's task is done, or the worker defers it to a manual test.
WorkerReturns ==
  /\ At("worker")
  /\ \/ Goto("complete") /\ UNCHANGED obligations
     \/ obligations' = obligations \cup {run.task} /\ Goto("skip")
  /\ UNCHANGED <<contract, box, rows, doc, table, reviewRow, reports,
                 store, pushed, faults>>

\* The verification passes, after as many repairs as it takes.
VerificationPasses ==
  /\ At("verify")
  /\ Goto("complete")
  /\ UNCHANGED <<contract, rows, document, reports, store, pushed, faults>>

\* complete and skip write the row first, the box second.
RecordTask(pc, status) ==
  /\ At(pc)
  /\ rows' = [rows EXCEPT ![run.task] = status]
  /\ Goto("check")
  /\ UNCHANGED <<contract, document, reports, store, pushed, faults>>

CompleteTask == RecordTask("complete", "COMPLETED")

SkipTask == RecordTask("skip", "SKIPPED")

\* A completion also mirrors boxes that no row resolves, a deferral does not.
\* Where the loop goes on: a fixer's settlement marks the rerun, an agent's
\* leads to the review routing, everything else selects the next task.
CheckBox ==
  /\ At("check")
  /\ box' = box \cup {run.task}
  /\ rows' = IF rows[run.task] = "SKIPPED" THEN rows ELSE Mirrored(box')
  /\ Goto(CASE run.route = "fixer" /\ rows[run.task] = "SKIPPED" -> "mark"
            [] run.route = "implementation" /\ contract.tasks[run.task] # "verification"
                 -> "preReview"
            [] OTHER -> "entry")
  /\ UNCHANGED <<contract, doc, table, reviewRow, obligations,
                 reports, store, pushed, faults>>

---------------------------------------------------------------------------
(* The fixer *)

\* A response is refused if this run already used its ids for the same basis,
\* or if a finding is not an IN_SCOPE_BLOCKER.
ResponseAccepted == ~run.lease /\ basis.disposition = "IN_SCOPE_BLOCKER"

\* The fixer answers the findings of `basis`. If its response is refused the run
\* fails.
FixerResponds ==
  /\ At("fixer") /\ LineageRequired
  /\ IF ~ResponseAccepted
     THEN Ends /\ UNCHANGED <<gate, faults>>
     ELSE /\ gate' = [state |-> "PENDING", by |-> "response", result |-> None]
          /\ \E cycle \in {"verified", "failed"} :
               /\ IF cycle = "failed" THEN Spend ELSE UNCHANGED faults
               /\ run' = [run EXCEPT !.pc = "receipt", !.lease = TRUE, !.cycle = cycle]
  /\ UNCHANGED <<contract, rows, document, reports, basis, pushed>>

\* deriveLifecycleEvidence: of several cycles the newest complete one counts.
WithCycle(cycle) == [basis EXCEPT !.cycle = cycle]

\* The settlement leaves the review task open (FIXER_SUCCEEDED), unless the fixer
\* defers it.
SettleFixer ==
  \/ Goto("mark") /\ UNCHANGED obligations
  \/ obligations' = obligations \cup {run.task} /\ Goto("skip")

\* The findings of a report that the store does not know are fixed without a
\* response.
FixerAnswersReport ==
  /\ At("fixer") /\ ~LineageRequired
  /\ SettleFixer
  /\ UNCHANGED <<contract, box, rows, doc, table, reviewRow, reports, store, pushed, faults>>

\* With the receipt the cycle is complete.
FixerReceipt ==
  /\ At("receipt")
  /\ gate' = [state |-> "PENDING", by |-> "receipt", result |-> None]
  /\ basis' = WithCycle(run.cycle)
  /\ SettleFixer
  /\ UNCHANGED <<contract, box, rows, doc, table, reviewRow, reports,
                 pushed, faults>>

\* markAwaitingReviewRerun, if there is a report to respond to.
MarkRerun ==
  /\ At("mark")
  /\ IF reports.findings = None
     THEN doc' = doc /\ Goto("preReview")
     ELSE doc' = "AWAITING_REVIEW" /\ Goto("markTable")
  /\ UNCHANGED <<contract, box, rows, table, reviewRow, obligations,
                 reports, store, pushed, faults>>

MarkRerunTable ==
  /\ At("markTable")
  /\ table' = "AWAITING_REVIEW"
  /\ Goto("markRow")
  /\ UNCHANGED <<contract, box, rows, doc, reviewRow, obligations,
                 reports, store, pushed, faults>>

MarkRerunRow ==
  /\ At("markRow")
  /\ reviewRow' = "missing"
  /\ Goto("preReview")
  /\ UNCHANGED <<contract, box, rows, doc, table, obligations, reports,
                 store, pushed, faults>>

---------------------------------------------------------------------------
(* The review *)

\* Mutant of ReviewReady: the route that planning chose is not consulted.
ReviewReadyByDocument(awaits) == ReviewIsNext /\ (doc = "AWAITING_REVIEW" \/ awaits)

\* Does this run know, from planning or from the documents, that the phase
\* has reached its review?
ReviewReady(awaits) ==
  ReviewIsNext /\ (run.route \in {"fixer", "reviewer", "phase_exit", "blocked"}
                     \/ doc = "AWAITING_REVIEW" \/ awaits)

RouteReview ==
  /\ At("preReview")
  /\ \E awaits \in AwaitsRerun :
       IF ReviewReady(awaits)
       THEN IF run.route \in {"phase_exit", "blocked"} THEN Goto("exit")
            ELSE run' = [run EXCEPT !.pc = "review", !.rerun = @ \/ awaits]
       ELSE IF doc = "COMPLETED" /\ NextTask = 0 THEN Goto("exit")
       ELSE run' = [run EXCEPT !.pc = "reconcile", !.site = "worker"]
  /\ UNCHANGED <<contract, rows, document, reports, store, pushed, faults>>

\* The reviewer of what is taken for a rerun is given the predecessor to name.
NamesPredecessor == run.rerun /\ LineageRequired

\* Ingestion commits the manifest and its gate together.
ReviewerDecides ==
  /\ At("review")
  /\ \E result \in Results :
       /\ IF result = "APPROVED" THEN UNCHANGED faults ELSE Spend
       /\ gate' = [state |-> GateOf(result, NamesPredecessor), by |-> "manifest",
                   result |-> result]
       /\ IF result = "NEEDS_CHANGES"
          THEN /\ \E d \in {"IN_SCOPE_BLOCKER", "SCOPE_EXPANSION"} :
                    basis' = [disposition |-> d, cycle |-> None]
               /\ run' = [run EXCEPT !.pc = "report", !.lease = FALSE]
          ELSE basis' = basis /\ Goto("report")
  /\ UNCHANGED <<contract, rows, document, reports, pushed>>

\* A fixer's turn follows in the same run, a blocked review ends it.
AfterReport ==
  CASE gate.state = "APPROVED" -> Goto("evidence")
    [] gate.state = "BLOCKED" -> Ends
    [] OTHER -> Goto("entry")

\* The report is written from the persisted manifest.
WriteReport ==
  /\ At("report")
  /\ reports' = [newest |-> gate.result,
                 findings |-> IF gate.result = "APPROVED" THEN reports.findings
                              ELSE gate.result,
                 approved |-> reports.approved \/ gate.result = "APPROVED"]
  /\ AfterReport
  /\ UNCHANGED <<contract, rows, document, store, pushed, faults>>

\* recordApprovedReviewEvidence writes the row without its last delimiter;
\* then the review task is completed like any other.
RecordEvidence ==
  /\ At("evidence")
  /\ reviewRow' = "unterminated"
  /\ run' = [run EXCEPT !.pc = "complete", !.task = NextTask, !.route = "reviewer"]
  /\ UNCHANGED <<contract, box, rows, doc, table, obligations, reports,
                 store, pushed, faults>>

---------------------------------------------------------------------------
(* Phase exit and git checkpoint *)

\* An approval found in the store completes the review task.
RecoverReviewTask ==
  /\ At("exit") /\ ReviewIsNext /\ run.route = "phase_exit"
  /\ run' = [run EXCEPT !.pc = "complete", !.task = NextTask]
  /\ UNCHANGED <<contract, rows, document, reports, store, pushed, faults>>

\* With every task done the phase is completed, with a receipt or (the safety
\* net) without; a phase whose review is blocked is refused.
Exit ==
  /\ At("exit")
  /\ \/ NextTask # 0 /\ run.route = "blocked" /\ Ends /\ UNCHANGED doc
     \/ NextTask = 0 /\ doc' = "COMPLETED" /\ Goto("exitTable")
  /\ UNCHANGED <<contract, box, rows, table, reviewRow, obligations,
                 reports, store, pushed, faults>>

ExitTable ==
  /\ At("exitTable")
  /\ table' = "COMPLETED"
  /\ IF contract.git THEN Goto("checkpoint") ELSE LeaveLoop
  /\ UNCHANGED <<contract, box, rows, doc, reviewRow, obligations,
                 reports, store, pushed, faults>>

\* Commit and push.
Checkpoint ==
  /\ At("checkpoint")
  /\ pushed' = TRUE
  /\ LeaveLoop
  /\ UNCHANGED <<contract, rows, document, reports, store, faults>>

\* Any failure leaves the checkpoint pending; the loop returns without error.
CheckpointPending ==
  /\ At("checkpoint")
  /\ Spend
  /\ LeaveLoop
  /\ UNCHANGED <<contract, rows, document, reports, store, pushed>>

\* The run dies: the process crashes, a worker fails, a write or an ingestion
\* is refused. What is durable stays; the next Continue starts from it.
RunDies ==
  /\ run.pc \notin {"idle", "finished"}
  /\ Spend
  /\ Ends
  /\ UNCHANGED <<contract, rows, document, reports, store, pushed>>

\* A write of a worker's settlement fails: the catch block records its task as
\* still in progress, although the box may be checked.
SettlementFails ==
  /\ At("check")
  /\ run.route \in {"implementation", "fixer"} /\ contract.tasks[run.task] # "verification"
  /\ Spend
  /\ box' \in {box, box \cup {run.task}}
  /\ rows' = [rows EXCEPT ![run.task] = "IN_PROGRESS"]
  /\ Ends
  /\ UNCHANGED <<contract, doc, table, reviewRow, obligations, reports,
                 store, pushed>>

Step ==
  \/ Handoff \/ HandoffTable \/ ResetStaleRow \/ PromoteRow \/ Promote \/ PromoteTable
  \/ Reconciled \/ Queue \/ Enter \/ Begin \/ BeginTable \/ BeginRow \/ WorkerReturns
  \/ VerificationPasses \/ CompleteTask \/ SkipTask \/ CheckBox
  \/ FixerResponds \/ FixerAnswersReport \/ FixerReceipt
  \/ MarkRerun \/ MarkRerunTable \/ MarkRerunRow \/ RouteReview
  \/ ReviewerDecides \/ WriteReport \/ RecordEvidence
  \/ RecoverReviewTask \/ Exit \/ ExitTable \/ Checkpoint \/ CheckpointPending

Next == Continue \/ Step \/ RepeatForRepair \/ SettlementFails \/ RunDies

Spec == Init /\ [][Next]_vars

\* Where the loop waits for a worker, for a verification or for git: nothing makes
\* them return. Between these places its steps are awaited one after the other.
Waits == {"worker", "fixer", "verify", "review", "checkpoint"}
FairSpec == Spec /\ WF_vars(run.pc \notin Waits /\ Step)

---------------------------------------------------------------------------
(* Properties *)

TypeOK ==
  /\ contract \in Contracts
  /\ box \subseteq Tasks /\ obligations \subseteq Tasks
  /\ rows \in [Tasks -> {"NOT_STARTED", "IN_PROGRESS", "COMPLETED", "SKIPPED"}]
  /\ doc \in Statuses /\ table \in Statuses
  /\ reviewRow \in {"missing", "unterminated", "satisfied"}
  /\ pushed \in BOOLEAN
  /\ reports \in [newest : Results \cup {None}, findings : {None, "NEEDS_CHANGES", "BLOCKED"},
                  approved : BOOLEAN]
  /\ gate \in [state : {None, "APPROVED", "REJECTED", "BLOCKED", "PENDING"},
               by : {None, "manifest", "response", "receipt"}, result : Results \cup {None}]
  /\ basis \in [disposition : {None, "IN_SCOPE_BLOCKER", "SCOPE_EXPANSION"},
                cycle : {None, "verified", "failed"}]
  /\ run.task \in Tasks \cup {0}
  /\ run.site \in {None, "before", "worker", "after"}
  /\ run.lease \in BOOLEAN /\ run.rerun \in BOOLEAN
  /\ faults \in 0..MaxFaults

\* The task that is worked on, completed or deferred is the first declared task
\* whose box is open, also after a run died between a task's row and its box.
\* The row alone would make `begin` select a later task than planning did, and
\* an agent would work on, and complete, a review task.
BegunIsNext ==
  run.pc \in {"beginTable", "beginRow", "worker", "verify", "fixer", "receipt",
             "complete", "skip", "check"} => run.task = NextTask

\* A phase is COMPLETED only with a durable approval of its review gate, on
\* every path that marks it (exit with and without a receipt, promotion by the
\* reconciliation), unless a worker deferred the review task itself.
CompletedIsApproved ==
  doc = "COMPLETED" =>
    \/ gate.state = "APPROVED"
    \/ \E t \in obligations : contract.tasks[t] = "code_review"

\* No reviewer works on a phase whose changes still have to be made, or have been
\* made without the receipt that hands them over: not after a death between the
\* fixer's response and its receipt, and not when the markers of a rerun, which
\* prose of any feature can set, are there without it. A response alone is not
\* a reviewer handoff (review-resume-route-policy.ts).
ReviewFollowsReceipt ==
  At("review") => gate.by # "response" /\ (gate.by = "manifest" => gate.state = "APPROVED")

\* The loop never spins: from whatever a death, a repair or a lost marker left
\* behind it comes to a worker, to git, or to its end, and does not go round
\* between planning, routing and reconciliation for ever.
LoopReachesWork == []<>(run.pc \in Waits \cup {"idle", "finished"})

\* What phase-git-checkpoint.md promises of a pending checkpoint: Continue
\* resumes it. The implementation is not reported finished before the push.
CheckpointResumed == At("finished") /\ contract.git => pushed
=============================================================================
