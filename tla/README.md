# Verification of the HEPHA orchestrator

TLA+ models, TLC configurations and TLAPS proofs kept beside the HEPHA
orchestrator (`src/apps/orchestrator`, `src/packages/db`,
`src/packages/shared`).  The orchestrator is one Node process over synchronous
SQLite stores and a working tree of markdown documents.  What can go wrong in it
lies where state is read before an await and written after it, where one
operation takes several commits, and where the process dies in between.  Eight
parts carry such state, and each has a module here:

* the **model catalog** decides which models may be selected for work;
* **provider connections** hold the keys the workers are launched with;
* the **routing policy** chooses a connection and a model for each action;
* the **worker invocation** runs the chosen model as a Pi process and keeps the
  receipt of what happened;
* the **implementation runs** of a FEAT start, continue, cancel and recover, and
  drive workers through the phases;
* a **phase** works through its declared tasks, its review and remediation, its
  exit and its git checkpoint;
* the **Deep-Dive sessions** interview the operator and update documents;
* the **missing-feature batch** creates the child FEATs an EPIC asks for.

## 1. Inventory

| Part | State | Operations | Interacts with | Hard behaviour |
|---|---|---|---|---|
| Model catalog (`model-catalog/*`, `catalog-reconciliation-store.ts`, `model-catalog-store.ts`) | ledger row per connection, snapshot of models, scan diagnostics, `inFlight` map | claim, scan, apply outcome, settle, fail closed, adopt legacy evidence, settle interrupted claims | connections (configuration), routing policy (reset of routes), HTTP requests | several commits per outcome, crash between them, coalescing, restart |
| Provider connections (`provider-connections/*`) | connection rows, vault secrets | create, restore secret, rotate, revoke, delete, launch with the key | catalog (scan triggers), worker invocation | vault and row committed separately, key read long after the row |
| Agent routing (`agent-routing/*`, `agent-routing-store.ts`) | policy revisions, selectors, attention | bootstrap, edit a row, reset routes, acknowledge, resolve | catalog, connections, worker dispatch | revision conflicts, cycles built by several edits, catalog changing after the check |
| Worker invocation (`runtime/pi/*`, `runtime-invocation-store.ts`) | chain, attempts, route-change event; Pi processes; mutation tracker | open, start, mark spawned, track work, settle, hand off, close, cancel | Pi CLI, cancellation, phase-task rows | process output racing timers, late events, failing commits, restart |
| Implementation runs (`application/features/*`, `workflows/implementation/*`, `workflows/recovery/*`, `sqlite-workflow-run-repository.ts`) | one run row per FEAT, its state folder, cancellation requests in memory | start, continue, cancel, loop, pause, recover, schedule | workers, phase documents | overlapping runs, late failures, rollback under a newer run, no-progress loops |
| Deep-Dive (`application/deep-dive/*`, `deep-dive/*`) | stored sessions, run row, document | start, recovery question, answer, chat, complete, hand-off of a refinement, cancel | model calls, refinement, documents people edit | copies written back after minutes, several open interviews, crash between session and row |
| Phase execution and reviews (`workflows/phases/*`, `workflows/reviews/*`, `phase-state-reconciliation-*.ts`, `review-*.ts`, `review-governance/*`) | phase document, feature table, task-run rows, reports, artifacts and gates of the review store | reconcile, begin, complete or defer a task, review, publish, remediate, mark the rerun, exit, checkpoint | implementation runs, workers, git | one fact in up to five places written one after the other; recovery decides from what it finds |
| Missing-feature batch (`missing-feature-batch-application.ts`, `batch-preview/*`, `work-item-id-allocator.ts`, `submitted-feature-document-writer.ts`, `feature-submission-application.ts`) | FEAT folders and documents, counter file, EPIC document, plans held by browser tabs | preview, discover, apply, submit, advance the counter | model calls, people and other parts that edit the EPIC | plans applied long after they were made, ids not reserved, several files per apply, crash between them |
| Replan, approvals, delivery, manual tests | rows and documents of their own | see `PROJECT.json` | implementation runs, git, file system | replayed ingestion, partial failure of multi-file writes |
| Scanners, projections, prompts, web UI | none of their own | parse, render | everything, read only | none |

What makes the modelled parts correct:

* *catalog*: a settled ledger row tells the truth about the snapshot; the
  diagnostic it names exists; no late result overwrites a newer outcome; an outcome
  takes three commits, but it is published in one step and as stored; startup
  contacts a provider once per reconciliation version; no claim is left open.
* *connections*: vault and row agree except after an operation that was cut; a
  dead key is not handed to a worker.
* *routing*: no sequence of edits and resets produces an invalid policy or a cycle
  of fallbacks; an accepted edit leaves every action resolvable; Global is the
  operator's alone.
* *invocation*: the stored rows can be read back after every commit; at most one
  replacement execution, of the kind the recorded work allows; nothing settled
  changes; an invocation returns unless its process lives on with no timer due, and
  is closed with its last result.
* *runs*: the card says `running` only while a run executes; two runs never work
  on one FEAT; a rollback never moves the folder from under another run; the
  scheduler cannot start runs for ever; a cancelled run begins no further invocation.
* *phase*: tasks are worked in the declared order however rows and boxes were left;
  no phase is completed without a durable approval; no reviewer works between the
  request for changes and the receipt that hands them over; the loop does not go
  round without coming to a worker.
* *Deep-Dive*: one open interview; no edit of a person is overwritten unread;
  nothing is stuck that cannot be cancelled.
* *batch*: no id is given to two FEATs; one document of an EPIC is turned into
  children once, however many tabs preview and apply it; a row of the EPIC names its
  own FEAT; a child is there before those of its batch that depend on it.

## 2. Modules

| Module | Models |
|---|---|
| `CatalogReconciliation` | the catalog with the parts of connections and routing it touches |
| `CatalogPublication` | abstract specification: what the catalog shows those who read it through the ledger, and those who read the stored models alone |
| `ProviderConnections` | one connection: row, vault entry, operations on both, overlapping launches |
| `RoutingPolicy` | the policy over a catalog and connections that change underneath |
| `FallbackSearch` | the store's depth-first search for a cycle of fallbacks, as it is written |
| `RuntimeExecution` | one worker invocation: executor, coordinator, store, tracker, Pi processes, cancellation |
| `RouteSequence` | abstract specification: what a receipt promises |
| `WorkflowRuns` | the implementation runs of one FEAT |
| `PhaseReview` | one phase of an ordered contract: tasks, review cycle, reconciliation, exit, checkpoint |
| `DeepDiveSessions` | the Deep-Dive sessions of one work item, with its document and its refinement |
| `MissingFeatureBatch` | previews, applies and submissions over folders, counter and EPIC documents |
| `MCCatalog`, `MCRouting`, `MCRuntime`, `MCPhaseReview`, `MCDeepDive`, `MCBatch` | constants and symmetry for TLC |
| `CatalogProofs`, `RuntimeProofs`, `WorkflowProofs`, `PhaseReviewProofs`, `RoutingProofs`, `ConnectionProofs`, `DeepDiveProofs`, `BatchProofs` | theorems about the module each extends |

The modules meet at these points, each with what the other side may do as a
nondeterministic choice: `ScanFails` and `Reset` of `RoutingPolicy` are what
`FailClosed` and `ResetRoutes` of `CatalogReconciliation` do to the policy;
`Revoke` and `Delete` of `ProviderConnections` are the changes of `life` in
`RoutingPolicy` and of `conn` in `CatalogReconciliation`; the result of one
`RuntimeExecution` is `WorkerReturns` or `WorkerFails` of `WorkflowRuns`, its hand-off
to the second route is `Replace` there; the choice between `Advance`, `Repeat` and failure in `WorkflowRuns` is what one pass through
`PhaseReview` computes, and the end of a run there is `RunDies` or the idle state
here.

### CatalogReconciliation

Everything between two awaits of real I/O is one turn of the event loop.  Inside
a turn nothing else runs, but each store call is a commit of its own: the
variable `turn` is the continuation after the last commit, and while it is set
only that continuation, a failing commit or a crash is possible.

| State | Code |
|---|---|
| `conn` | rows of `provider_connections`: lifecycle state and material configuration (endpoint, provider, credential version) |
| `ledger` | rows of `catalog_reconciliation_ledger` |
| `models`, `diags` | `catalog_models`, `catalog_scan_diagnostics` |
| `overrides` | routes named by the non-global selectors of the routing policy |
| `scan` | `CatalogScanCoordinator.inFlight` |
| `proc`, `todo` | progress of `reconcileAtStartup`, awaited before the server listens |
| `scannedCfg`, `contacts` | history: configuration a snapshot was read under, startup contacts |

Actions: `RequestScan`, `CreateConnection`, `ChangeConnection`, `Reactivate`,
`Revoke`, `DeleteConnection`, `AssignRoutes` (operators); `TriggerScan`
(`scanAfterPersistence`); `ScanReturns`, `ResetRoutes`, `Settle` (a discovery
result); `ScanThrows`, `ScanTurnThrows`, `FailClosed`, `CatchThrows` (the
coordinator's catch block and the fail-closed writer); `Boot`,
`SettleInterrupted`, `BeginReconcile`, `InitializeRow`, `AdoptDiagnostic`,
`AdoptRows`, `AdoptContradiction`, `StartupScan`, `SkipStartupScan`, `OpenHttp`,
`StartupThrows` (startup); `Crash`.  `Init` ranges over everything a database
written by earlier versions can hold: evidence without a row, evidence that
contradicts itself, or a row of the previous reconciliation version.

Abstractions: a provider's answer is any set of models or a failure; attempts are
numbered in order of their claims; diagnostics are ordered by attempt, and the
order of two diagnostics of one attempt (it depends on the clock) is left open.
Messages, prices and capability facts of models are left out.

`CatalogPublication` tells two kinds of readers apart.  The connection list goes
through the ledger (`CatalogConnectionStateProjector`, mapped by `Published`).  The
routing resolver (`readRoutingCatalogFacts`), the choices of the routing editor
(`readRoutingMatrixCatalogFacts`) and the model list read `listModels()` alone (`models`
itself).  The second kind is not protected from the commits of an outcome: during a
scan it sees the models of the last outcome, and between the commit of the snapshot
and the commit of the row already those of the next.  What the refinement promises
them is that whatever is published is what they see, until the next claim.

### RuntimeExecution

`pc` is where the orchestrator is.  `TurnPcs` lie inside one turn.  `proc` and
`pipe` are the Pi process of each step and its tool events not read yet; they
move independently, also after the orchestrator gave up on them or died.

`profile` is how the invocation is launched.  A plan-bound prompt is tracked; the
nested executor and the detached launcher of `agent-runtime-applications.ts` have no
tracker, so nothing of what their processes do is recorded.  The runner has two
timers, each optional: the maximum runtime, and the stall timer, which every chunk of
output sets anew.  A process changes files by the tools `write` and `edit`, whose
events the tracker reads (`PiBeginsWrite`, `PiEndsWrite`), or by shell commands
(`PiRunsShell`), of which it knows nothing; it may fall silent (`PiHangs`), and only
then does the stall timer fire (`Fires`).  `TimesOut` and `RejectsTool` give up on the
process: they signal it and return without waiting for it (`Abandon`).

| State | Code |
|---|---|
| `profile` | tracker or none, and the timers of the launch |
| `chain`, `att` | `hepha_runtime_invocation_chains` (with its one event), `hepha_runtime_attempts` |
| `active`, `seen` | `activeAttemptId`, `activeMutations` of the mutation tracker |
| `step`, `out` | the executor's local variables |
| `cancelled` | the run was cancelled (`FeatureWorkflowCancellationApplication`) |
| `lost` | history: a commit was refused |

`EvidenceOK` is the reader's predicate (`isRuntimeInvocationEvidenceV1` over
`readReceipt`), used by `Restart` exactly as the store's constructor uses it.
The Pi CLI is external: it begins and ends file mutations and exits when it
likes.  Timestamps, routes and credentials are left out: the reader's conditions
on them compare values the executor copies.

### WorkflowRuns

A run gives up control only while a worker works and when it yields to the
control plane; `turn` names the run whose turn is in progress, which only a crash
can cut.

| State | Code |
|---|---|
| `row` | the card's row in `feature_workflow_runs`: run id and status, overwritten unconditionally |
| `stage` | the FEAT's state folder, `02_READY_TO_DEVELOP` or `03_IN_PROGRESS` |
| `evidence`, `resolved` | the durable progress fingerprint, and whether every phase and task is terminal |
| `runs` | the closures of the runs in memory: where each is, its retry count, its circuit, the fingerprint it began with |
| `cancelReq` | `WorkflowCancellationRegistry` |
| `orphaned`, `late`, `succ` | history: a row whose run ended without a write; a cancelled run wrote; runs the scheduler started |

Actions: `Start`, `Continue`, `Cancel` (the three applications, one turn each up
to the first await); `StartFails`, `MoveInProgress`, `CompleteTransition`,
`DispatchPostProcess`, `PostProcessReturns`, `PostProcessFails` (Start with its
rollback); `BeginTerminal`, `BeginLoop`, `BeginFails` (Continue up to the loop);
`Yield`, `Dispatch`, `Replace`, `Advance`, `Repeat`, `WorkerReturns`, `WorkerFails`,
`LoopThrows`, `LoopCancelled`, `LoopReturns` (the phase loop and its circuit);
`Retry`, `AnalyzeFailure`, `RecoveryEnds`, `SettleFailed` (`handleFailure` and
automatic recovery); `NotScheduled`, `ScheduleBlocked`, `Schedule` (the
continuation scheduler); `Crash`, `Restart`.

One worker invocation is up to two attempts: `Replace` is the second one, which
`RuntimeExecution` starts on the other route when the first failed or was killed, and
which nobody asks the run about (`second`).  A pause of the circuit is an exception
like any other: `RecordPhaseFailure` may project it to the row and `SettleFailed`
writes failed or blocked, whichever of the two the run's kind calls for, or nothing
when the store refuses the write.

Abstractions: whether a transition advances, repeats or throws is a choice (the
phase contracts, reviews and exit checks that decide it are in `PhaseReview`); the
fingerprint is the number of its changes; identifiers of finished runs are taken
again, so that any number of runs follow one another in a finite model.

### PhaseReview

What a phase's state is, the code reads from several places, each written by a
statement of its own; a death of the run fits between any two of them.

| State | Code |
|---|---|
| `contract` | the declared tasks in order, and whether the phase ends with a checkpoint (V3) |
| `box` | the checked tasks of the Phase Task Ledger; planning goes by them |
| `rows` | the task-run rows; `begin` goes by them |
| `doc`, `table` | the status in the phase document and in FeatureTasks.md |
| `reviewRow` | the Code review row of the Quality Gate Evidence table; written `unterminated`, readable after the next phase entry normalises it |
| `reports` | the markdown reports: newest result, newest findings, any approval |
| `gate`, `basis` | the review store: the current gate event; the newest NEEDS_CHANGES manifest and its remediation cycle |
| `obligations` | tasks a worker deferred (ManualTestObligations.json) |
| `pushed` | is the checkpoint on the remote? |
| `run` | the run in memory: where it is, its active task, its route, the lease on successor ids, and whether it takes the review it comes to for a rerun (`rerun`) |

Actions: `Continue`, `Handoff`, `HandoffTable` (start of a run); `ResetStaleRow`,
`PromoteRow`, `Promote`, `PromoteTable`, `Reconciled` (state reconciliation, at the
three places that call it); `Queue`, `Enter`, `Begin`, `BeginTable`, `BeginRow`
(planning and entry); `WorkerReturns`, `VerificationPasses`, `RepeatForRepair`,
`CompleteTask`, `SkipTask`, `CheckBox` (tasks and their settlement);
`FixerResponds`, `FixerReceipt`, `FixerAnswersReport`, `MarkRerun`, `MarkRerunTable`,
`MarkRerunRow` (remediation); `RouteReview`, `ReviewerDecides`, `WriteReport`, `RecordEvidence`
(review); `RecoverReviewTask`, `Exit`, `ExitTable`, `Checkpoint`,
`CheckpointPending`; `SettlementFails`, `RunDies`.

`isAwaitingReviewRerun` looks for phrases in the phase document, in FeatureTasks.md
and in the last ten files of a session directory that all features share.  Its answer
follows no state of the phase, so `AwaitsRerun` is any Boolean at each read: it may be
true where nothing was fixed and false where something was.  What depends on it are the
route of a phase without an event in the store (`WithoutArtifact`), whether the
document's markers admit the phase to its review (`ReviewReady`), and whether the
review is taken for a rerun and names its predecessor (`NamesPredecessor`).  `Init`
admits phases reviewed before there was a review store: a report with findings and no
gate; their fixer answers the report and leaves no event (`FixerAnswersReport`).

Abstractions: the phase is the last of its FEAT, the others are COMPLETED and all
gates but the review's are settled; every review task is required ("always"); a
manifest's findings have one disposition and a remediation cycle is verified or
failed; artifacts are valid when they are ingested (an invalid one is
`RepeatForRepair` or `RunDies`); the no-progress circuit, which may end a run
earlier, is in `WorkflowRuns`; so is what a process that never returns does to a run.
`RunDies` covers the crash of the process and an
exception of a worker or a write alike, `SettlementFails` the one failure whose
handler writes (the task's row goes back to IN_PROGRESS).  A failure
context of the phase counts as findings of its newest report, by which the repository
of failure contexts resolves it (`reports.findings`).

### RoutingPolicy

| State | Code |
|---|---|
| `policy`, `attention` | selectors and attention items of the current revision (`agent-routing-store.ts`) |
| `facts` | `catalog_models`: what each route's model reports, or no row |
| `life` | lifecycle of the connections |
| `booting`, `resetting` | launches between reading "no policy" and writing it; a failed scan between its catalog commit and the reset |
| `excused` | history: overridden routes that left the catalog with no reset to follow |

Actions: `BootRead`, `BootCommit` (`routing-resolver.ts`), `SaveRow` (a row edit
with the whole of its validation), `Acknowledge`, `ScanSucceeds`, `ScanFails`,
`Reset`, `ResetLost`, `Revoke`, `Reactivate`, `Delete`.  Resolution is the operator
`resolvePolicy`, evaluated in every state.  `hasFallbackCycle` says here what the
store's search is to decide: is there a non-empty set of routes that no walk along the
edges has to leave?  `FallbackSearch` is the search itself (`visit`, with the sets
`visiting` and `visited` that all its calls share, in whatever order the code's maps
list the routes); it is recursive and therefore stays with TLC.  A revision number is not kept: the compare-and-set
makes an edit based on an older revision a failing call, which changes nothing.

### ProviderConnections

`row` and `vault` are the two stores, `pending` the row commit still owed after
the vault commit, `worker` the launches, which read the row and, two awaits later,
the vault.  Operations: `createConnection`, `createOrRestoreSecret`, `rotateSecret`,
`revokeConnection`, `deleteConnection` (with an open and with a closed vault), each
followed by `Commit` or cut by `Crash`; `PrepareLaunch`, `Launch`, `Settle`.  Secret
values are numbered in the order they are entered; `dead` collects those that were
revoked, replaced or deleted.  Encryption and the file format of the vault are left
out.

### DeepDiveSessions

| State | Code |
|---|---|
| `session`, `original` | `deep_dive_sessions`: status, questions, chat; the document a session was started from |
| `row`, `cancelReq` | the card's run row; the cancellation registry |
| `opening`, `req` | calls waiting for the model, each with the copy of the session and of the document it read |
| `refining` | is a refinement worker of the card at work? |
| `doc` | the document: the set of edits and of decisions it contains |
| `reopened`, `stale`, `lostRow` | history, see the properties |

`hosted` tells the two procedures apart: the MCP-hosted update edits the document
and is refused when the document changed since it was read; the native one rewrites
it.  Requests are `answer`, `chat` and `complete`, each split where it waits for the
model; the model may answer, fail, or answer although its run was cancelled.
`Edit` is a person with an editor.

### MissingFeatureBatch

State: `folders` (id, title, parent, has the document been written, the dependencies
it lists; as history the EPIC documents it was planned from and the ids its plan and
that document knew), `counter` (`NEXT_FEATURE_ID.txt`), `epic` (per EPIC the rows of the
feature table, id 0 for TBD, and the FEATs with detail sections), `tab` (what a
browser tab waits for or holds: the plan is kept there and sent back whole, and the
EPIC as it was stands for its hash), `turn` (the apply or submit that is writing).

| Action | Code |
|---|---|
| `Preview`, `Discovered`, `Discard` | `preview`, `createCurrentPlan`, `discover`, `buildPreviewPlan`, `extractPreviewCandidates`; `cancel` and a failed request in the web client |
| `RefuseApply`, `StartApply` | `validateApprovedPreviewPlan`, `detectAmbiguousFeatState`, `orderByDependencies`; which refusals make the tab drop its plan |
| `VisitCandidate`, `WriteChild` | the loop of `create`, `classifyCandidates`, `SubmittedFeatureDocumentWriter` (mkdir, then the document) |
| `AdvanceFeaturePast`, `WriteEpic` | the counter; `renderUpdatedFeatureTable` and the other renderers, one write of the EPIC |
| `StartSubmit`, `SubmitFolder`, `SubmitDocument` | `FeatureSubmissionApplication.submit`, `nextFeature` |
| `AddRow`, `Crash` | a person editing the EPIC; the process dying between two files |

An apply runs from its checks to the write of the EPIC without an await, so only a
crash cuts it.  A candidate is created exactly when its id has no folder: all
branches of `classifyCandidates` come to that, and the rest of the classification is
reporting.  A plan's candidates are a set of records that carry their position
(`order`); the topological order is not computed as a list: `NextInOrder` names the
next candidate, the first in position that waits for no other, and a plan is
`Unorderable` when some candidates wait for one another or two share an id (the code
counts visited *ids* against *candidates*).  Status cells are left out, also from the
comparison of documents: where the code refuses a plan because a status changed, the
model also allows the apply, and `Discard` covers the refusal.

Nothing is assumed of the titles.  A table may name one title twice: of TBD rows with
one title only the first is planned, since the code keeps its preview by title.  A
person may add a row for a title that is there already or that the model found before.
The model's answer is compared with the titles of TBD rows (`TbdTitles`), not with
cards, so it may name a child that exists; then that child is created again.
Dependencies of a row or of an answer may be ids that no row and no candidate has
(`Cites`): they are written as they stand.  A FEAT that is submitted may have the
EPIC as its parent and the title of one of its children.

## 3. Runs

| Run | Shows | Distinct states |
|---|---|---|
| `catalog_faults` | safety of the catalog and the refinement of `CatalogPublication`: one connection, two interchangeable models, two configurations, one selector, crashes and failing commits inside turns | 488,330 |
| `catalog_liveness` | two connections: every claim settles, startup completes | 77,378 |
| `runtime_faults` | safety, the refinement of `RouteSequence` and the return of an invocation, tracked with a stall timer or untracked with a maximum runtime, with every outcome, fault and late event | 775,986 |
| `workflow_ownership` | two overlapping runs and a scheduled successor: who owns row and folder, and what a cancelled run still starts | 1,562,146 |
| `routing_edits` | edits, racing bootstraps, scans, lost resets, revocation and deletion against the validation, the search for cycles and the resolver | 257,136 |
| `connection_secrets` | the two stores and two overlapping launches | 8,834 |
| `deepdive_sessions` | two sessions, two concurrent requests, a refinement, an edit, cancellations, a crash | 2,076,521 |
| `phase_review` | four contracts, a death or an unfavourable result at any durable write, markers that come and go: order of tasks, approval, who works when, and that the loop comes to a worker | 137,823 |
| `feature_batch` | two tabs, submissions, added rows and a crash against one EPIC: unique ids, one child per document, rows and dependencies | 757,525 |
| `runtime_restart`, `runtime_fallback`, `phase_checkpoint` | disagreements between the code and its documents, section 6 | |

Deadlock checking is on in `phase_review` and `feature_batch`, where an operator can
always continue or preview, and off elsewhere: invocations and runs end, and operators need not ask for
anything.

Bounds, and why they are enough.

*Catalog.*  `MaxAttempts` bounds the *requests*: startup is never held back by it;
the liveness run allows one request, so that a claim of either connection, by an
operator or by startup, can be open when the process dies and startup must settle
it while the other connection is still to be scanned.  Three attempts and
`Retention = 3` let an outcome be followed by a retry that overflows the retention
limit (an attempt can leave three diagnostics: scan, coordinator, interrupted),
which is the case the pruning could break; the code's limit is 20, and section 5
proves the property for every limit from 3 up.  Two crashes
allow a crash during the recovery from a crash.  A connection's actions read and
write only its own rows apart from the startup loop and the routing selectors.
`TargetVersion = 2` is the code's value, so there is an older version to upgrade
from.

*Runtime.*  The two profiles of `runtime_faults` are a plan-bound prompt with the stall
timer, which is the default of implementation workers, and a launch without tracker
under a maximum runtime; the violations need the first alone.  One mutation per process,
by a tool or by a shell, reaches each work state (`none`, `started`,
`checkpointed`) with its event read, unread or late; both plan lengths and both
answers about the phase task are initial states.  `ContextKey` equals `TaskRowsKey`
in `runtime_faults`, so that recovery can start; `runtime_restart` uses what
production passes.

*Workflow.*  Three identifiers let a cancelled run, the run started over it and a
scheduled successor be live at once; more runs than that can only follow one
another, which the reuse of identifiers covers.  One change of the evidence is
enough for one successor and for a successor refused; one decision lets the circuit
see the same signature again, with and without new evidence.  One retry is the code's
limit.

*Phase.*  The four contracts put the review last, in the middle, first, and twice,
with and without a checkpoint; other task lists repeat these neighbourhoods.  Three
faults allow a death during the recovery from a death after an unfavourable review
(the shortest way to each of the resting places of section 6 takes at most two).

*Routing.*  Three routes are the shortest cycle that is not a pair; two actions of
one type, one of which needs a stronger model, make a type row valid for one of its
actions only.  One connection is never revoked, so that an operator can always save
something.

*Connections.*  Four secrets: the first, a replacement, one entered after a crash
cut the replacement, and one more to mend it.  Two launches overlap with one
another and with an operation.

*Deep-Dive.*  Two sessions and two requests give every pair of overlapping writers;
two questions allow a follow-up; five commands are enough for start, answer,
complete, a cancellation and a second start.

*Batch.* One EPIC, since another EPIC competes for ids only as a submission does. Two
TBD rows, of which the first needs the second, a row with id 3, which the planned ids
reach once a submission came first, a title that a person may add and the model may
find, one that the model finds although it has a row, and two submissions, one of them
with the EPIC as its parent and the title of a child. `CitedIds` gives rows and answers
dependencies on ids of no row. `MaxFeats`, `MaxRows` and `MaxId` leave room for a second
discovery, for the new title in two rows, and for both submissions. Two tabs: a third
plan is stale or fresh like one of them.

Fairness.  *Catalog*: the process is restarted after a crash, a turn once begun
runs on, startup proceeds (weak fairness), and a provider request returns or is
cut off by `SCAN_TIMEOUT_MS`; its completion is queued by the event loop and
other requests cannot starve it, hence strong fairness of `ScanReturns`.
*Runtime*: the orchestrator's turns and local I/O complete, it reads the output and the
exit of its child, and a timer that is set and due fires (weak fairness).  No timer is
owed, the maximum runtime being unset by default and the stall timer being put off by
every chunk of output, and the Pi process owes nothing, not even to exit; hence the
exception that `Returns` makes.  *Phase*: the steps of a run between the places where
it waits (`Waits`: a worker, a verification, git) are awaited one after the other (weak
fairness of `Step` outside `Waits`).  Nothing is assumed about what it waits for, nor
about operators.  The workflow's runs assume no fairness: see section 4.  Elsewhere
operators owe nothing.

## 4. Properties

Type correctness is checked by `catalog_faults` and proved for every component; in
`PhaseReviewProofs` and `BatchProofs` as the conjunct `Types` of the invariant, which
covers the variables the other conjuncts use.  The other properties, by part:

* Catalog: `LedgerMatchesCatalog` (the consistency `validateConsistentFacts`
  demands), `DiagnosticBacksRow`, `ScanOwnsClaim`, `TurnOwnsClaim`,
  `StartupContactsOnce`, `SettledUntilReclaimed`, `ReadersAgree` (refinement), `ClaimsSettle`, `StartupCompletes`.  The two
  liveness properties are checked without failing commits on purpose: when the
  catch block's own commits fail the code leaves the claim for the next startup.
* Runtime: `EvidenceReadable`, `ClosedWhenReturned`, `HandOffDiscipline`,
  `SettledIsFinal`, `ImplementsRouteSequence` (refinement), `Returns`.
  `HandOffDiscipline` speaks of calls of the tools `write` and `edit` in tracked
  invocations whose process was waited for, which is what the tracker can tell; what the
  documentation promises of mutations in general is `FallbackFollowsNoMutation`, which
  fails (section 6).  `Returns` makes one exception: an invocation may wait for ever for
  a living process that no timer is due for.
* Workflow: `RunningRowIsLive`, `LiveRunOwnsRow`, `WorksInProgress`,
  `SuccessorsBounded`, `CancelledDispatchesNothing`.  Three of them
  hold *as long as no cancelled run has written late* (`~late`): what happens after
  such a write is described in section 6, and the code offers no protection from it.
  `CancelledDispatchesNothing` says that a cancelled run begins no worker invocation;
  the second attempt of the one under way may still start, and does.  That a run ends
  is *not* claimed: a worker need not return (no maximum runtime by default, and a stall
  timer that output puts off), and the circuit compares a transition only with the one
  before it, so that decisions which alternate pass it on unchanged evidence.  Fairness
  under which every run ended would assume exactly these away.
* Phase: `BegunIsNext` (rows and boxes disagree after a death, and the task worked
  on is still the first open one), `CompletedIsApproved`, `ReviewFollowsReceipt` (a
  reviewer works after a receipt or an approval or with nothing in the store, never
  between a request for changes and its receipt, whatever the rerun markers say and
  wherever a run died), `LoopReachesWork` (the loop comes again and again to a worker,
  to git or to its end: no combination of routes, markers and leftovers makes planning,
  routing and reconciliation call one another for ever).  That a phase is completed in
  the end is not claimed: the places where it comes to rest short of that are in
  section 6.  Nor is it claimed that an approval follows a verified remediation: a
  review that is not taken for a rerun names no predecessor, and its approval counts.
* Routing: `PolicyStaysValid`, `SearchFindsCycles` (for every policy reached and every
  edit of it, the store's search answers as a cycle demands: it misses none and takes
  none for one), `EditLeavesAllResolvable`, `GlobalIsTheOperators`,
  `DanglingOverrideIsExplained`.
* Connections: `StoresAgree`, `DeadKeyIsNotHandedOut`.
* Deep-Dive: `OneOpenSession`, `EditsKept`, `StuckSessionCancellable`.  The
  exceptions they name (a closed session opened again, an older copy written back, a
  row taken over) are described in section 6.
* Batch: `IdsUnique`, `OneChildPerDocument`, `RowNamesOwnFeat`, `DependenciesExist`.
  `OneChildPerDocument` is about one document of an EPIC, the unit whose hash an apply
  compares: it is turned into children once.  Another document may ask for the same
  title again, and gets a second child.  `DependenciesExist` is about the dependencies
  that the document or the plan knows; other ids are written as they stand.
  The histories `orphaned` and `taken` hold the two exceptions (a crash before the
  EPIC was written; an id that another FEAT took while the plan lay in a tab), which
  are described in section 6; without them the two properties fail.

The history variables `late`, `torn`, `excused`, `stale`, `lostRow`, `orphaned` and
`taken` record hazards that the code does not prevent.  A property with such an
exception does not cover the hazard itself: it says that nothing else leads there.
The notes in `PROJECT.json` say so at each hazard.

Each property has a mutant in `PROJECT.json`: a variant of one definition, marked
"Mutant" or "Faulty variant" in the module, under which TLC reports that property violated.

## 5. Proofs

Every safety invariant, every action property and both refinements that the passing
runs check are theorems, except `SearchFindsCycles`: `Spec => []P`, `Spec => P` for an action property or an
abstract specification.  They hold for every value of the constants that satisfies
the `ASSUME`s of the component's module, so neither the bounds of section 3 nor the
choice of small sets matters for them.  `PROJECT.json` pairs each theorem with its
property.

The method is the same everywhere.  An inductive invariant is found, checked by TLC
on the instance of the run, and proved with one lemma per action (or per group of
actions that write the same variables) over frame lemmas for what such a step leaves
alone; the theorems follow from it.  What each invariant adds, and why the
properties alone are not inductive:

**`CatalogProofs`** (any connections, numbered by naturals; a finite set of models;
all configurations and selectors).

* `TypeCorrect`, `LedgerTruthful`, `ClaimOwned`, `TurnsCanSettle`.
  That settled rows agree (`RowsAgree`) is not inductive: `Settle` writes what an earlier commit of
  the same turn prepared.  `CatalogInv` adds what a turn in progress holds
  (`TurnOwnsClaim`: the claim it will settle is open and what it will write is already
  true of the snapshot) and that a running discovery owns its claim
  (`ScanOwnsClaim`), which keeps a snapshot from being replaced under a settled row.
  Finiteness of `Models` gives `Cardinality(ms) = 0 <=> ms = {}`.
* `ContactsAtMostOnce`, by `ContactedIsClaimed`: a contacted connection has a row of
  the current version, and startup passes such rows over.
* `RowsAreBacked`, by `DiagInv`: attempts are numbered, a source records one
  diagnostic per attempt, a discovery under way has none, and a turn past its first
  commit holds a stored one.  The heart is `NewestIsKept`: pruning keeps the newest
  diagnostic because one attempt leaves three at most, which is why
  `RetentionAssumption` asks for a limit of at least 3.  The code's limit is 20.
* `OutcomesStay`, from both invariants.
* `LedgerTruthful` also needs `SweptInv` for the rows that were never scanned: startup
  strikes a connection off its list only when nothing is left to adopt, and a
  connection created later has nothing stored.
* `PublishedIsStored`: `CatalogEffects` sorts the steps by what they do to ledger and
  snapshot, and each kind maps to a step or a stutter of `CatalogPublication`.

**`RuntimeProofs`** (any number of file mutations, any keys).

* `RuntimeTypeCorrect`, `ReceiptAlwaysReadable`.  `Rows` says which rows exist, and in
  which status, at each `pc`: for instance that at `deciding` the primary has failed
  and no second attempt exists, so `HandOff` inserts exactly what `SecondOK` accepts.
* `SettledStays`, `ReturnsClosed` (with `DoneIsClosed`) and `RoutesAreSequential`, the
  refinement: `StepEffects` lists what a step may do to the rows, `MappedSteps` what
  that is in `RouteSequence`.
* `SecondRouteJustified`.  The choice of the second route goes by the rows, the
  property speaks of the process.  `Track` ties them: in a tracked invocation what a
  process began by `write` or `edit` is recorded or still in its pipe while it is
  waited for (`StartsAreSeen`), what the tracker saw end has ended (`EndsAreKept`), and
  nothing is charged to the second attempt before it exists (`SecondLater`).  It says
  nothing of shell commands and of processes given up on, as the property does not.

**`WorkflowProofs`** (any set of runs, any decisions).  `WorkflowTypeCorrect`,
`RowsAreLive`, `OneOwner`, `FolderStays`, `SuccessorsPaidFor`, `NoWorkAfterCancel` (with
the second attempt as a step of its own, which the property names as the exception).
`WorkflowInv` adds that only the run whose turn it is stands between two synchronous
steps (`OneTurn`), that a cancelled run has given up control and its row does not say
running (`Requests`), that a run which has returned from its loop has just written its
row (`Returned`, which the scheduler relies on), and that a run in its first attempt
remembers evidence at least as old as itself (`Remembers`): the change the scheduler
sees has not paid for an earlier successor.

**`PhaseReviewProofs`** (any set of contracts that declare a review, of any length; any
number of faults).  `BegunTaskIsNext`, `CompletionNeedsApproval`, `ReviewAfterReceipt`.  `PhaseInv` says that boxes are checked in order
(`Prefix`), that no task after the next one was touched (`Untouched`: rows run ahead of
boxes by one), which combinations of gate state and artifact occur (`Gates`), and for
each `pc` what task, route and gate the run relies on (`Fits`): the review is reached
only by routes that exclude `FixersTurn`, and a gate that waits for changes leaves its
review task open (`BlockedIsOpen`), so that nothing else can be next.  A death forgets `run`
and keeps the rest, so each conjunct but `Fits` speaks of durable state only.

**`RoutingProofs`** (any registry, routes and catalog).  `RoutingTypeCorrect`,
`NeverInvalid`, `DanglingExplained`, `GlobalBelongsToOperator`, `EditsAreResolvable`.
`FallbacksEnd`, a conjunct of the invariant, says that every non-empty set of routes has
one without an edge into the set; a reset removes edges (`EndsIsMonotone`), an edit is
checked (`CycleCheck`).  The proofs take the search by what it decides; that the search
as written decides this is what `SearchFindsCycles` checks, by TLC alone.  A policy without cycle hands no attempt back to its own route,
so the resolver never calls it invalid.

**`ConnectionProofs`** (any number of launches, secrets, crashes).
`ConnectionTypeCorrect`, `StoresStayInStep`, `NoDeadKey`.  `ConnectionInv` says what the
row commit that is still to come will find in the vault (`PendingAgrees`) and that the
value of an active entry is not dead (`ActiveIsFresh`).

**`DeepDiveProofs`** (any number of sessions, requests, questions, edits).
`DeepDiveTypeCorrect`, `OneInterview`, `StuckIsCancellable`, `UpdatesKeepEdits`.
`DeepDiveInv` adds that requests hold copies of sessions that are stored (`Live`), and
it names a busy session whether or not a worker serves it (`BusyIsNamed`).

**`BatchProofs`** (any EPICs, tabs, titles, tables and cited ids).  `NoAmbiguousId`,
`RowsNameTheirFeats`, `DependenciesComeFirst`, `DocumentsPlannedOnce`.  `BatchInv` says
that the folders are those an apply found and those it made, in its order (`ApplyOK`),
and what a plan that lies in a tab still knows when it comes back: its known
dependencies exist or are in the plan, its ids are its own or recorded as taken
(`TabsOK`).  `NextIs` shows that a plan that is not `Unorderable` always has a next
candidate.  For `DocumentsPlannedOnce` an invariant on top of it says that a document
some child was planned from differs from the EPIC's, unless the apply that plans from it
is under way or was cut by a crash: writing the EPIC after a child was created always
changes it.

The prover has no rule of induction for operators with parameters.  Minima of sets of
numbers come from the well-foundedness of `<` on the naturals (`LeastNumber`), and
orders are stated as "every non-empty set has a least member" rather than by recursion.

Only model-checked: the liveness properties `ClaimsSettle`, `StartupCompletes`,
`Returns` and `LoopReachesWork`, which rest on fairness, and `SearchFindsCycles`, which
is about a recursive operator; both are out of the prover's reach.  The three runs that
expect a violation claim nothing to prove.

## 6. Findings

With a run that violates what a document says; `PROJECT.json` quotes the lines.

1. `RestartSucceeds`: a crash between `openInvocation` and `startAttempt` leaves a
   chain that makes the store's constructor throw at every later start.
2. `FallbackFollowsNoMutation`: a fallback may follow a primary that changed files.  The
   recorded work state is moved by the tool events `write` and `edit` alone: a shell
   command is no such event, an event may be unread when a timer gives up on the
   process, and the nested executor records nothing.
3. `CheckpointResumed`: a checkpoint of the last phase that a failed push or a death
   left pending is never attempted again; Continue sees every phase COMPLETED and
   reports the implementation finished.

Seen while modelling, without a run:

* A worker killed by a cancellation ends in `handleFailure`, which replaces
  `cancelled` by `failed`, possibly in the row of the next run (`late` in
  `WorkflowRuns`); `workflow-cancellation.feature:10` says that no later failed
  progress is recorded.
* A crash after FEAT folders were created and before the EPIC was written leaves the
  rows TBD; a new preview gives them new ids and apply creates the children a second
  time, against "Re-running batch creation does not duplicate child FEATs" in FEAT-011's
  acceptance criteria.  Applying the plan still held by the tab would have been safe.
* `validateApprovedPreviewPlan` compares the plan's hash with one computed from the
  plan itself, so FEATs created since the preview are not noticed, although the error
  text says "EPIC document or existing FEATs have changed".  A submitted FEAT that took a
  planned id is then entered in the EPIC under the child's title, and the child is
  never created.
* A dependency on an id that neither the table nor the plan knows is written into the
  child's document with no more than a warning.
* A row that names a missing FEAT by the id a preview plans for a TBD row makes every
  apply of such a plan fail with "dependency cycle detected".  A folder whose document was never
  written keeps its explicit row from ever being created, with the warning that it
  "will be repaired".
* Of several discovered FEATs without TBD rows only the first gets a row in the table
  (`break` in `renderUpdatedFeatureTable`); a row that a person adds for one of the
  others is planned as a new child.  The model's answer is compared with TBD titles
  only, so a child that exists may be found, and created, again.  A table with one title in two TBD rows
  shifts the ids of the rows below it and leaves the last one TBD, to be created
  again.

* A change of a connection saved while a scan runs is not scanned: its trigger joins
  the running scan, which read the configuration before
  (`CatalogOfSavedConfig` of `CatalogReconciliation`, which no run claims).
* A successful rescan that drops a model does not reset the overrides that select
  it; nor does recovery after a crash between clearing the catalog and resetting
  the routes (`excused` in `RoutingPolicy`).
* While any override names an unusable route, the Global row cannot be replaced;
  for good, if the connection was deleted and the row is not edited first.
* Attention about a reset is lost with the next revision.
* A timeout may start a fallback beside a process whose first mutation was not read
  yet; late events of the abandoned process are charged to the fallback attempt; a
  cancelled invocation still starts its second worker.
* Recovery looks task rows up under the project's root path while they are stored
  under its id, so it never starts.
* The credential version of a receipt is recorded before two awaits and may differ
  from that of the key handed out.
* `rotateSecret` on a revoked connection makes the vault entry active while the row
  stays revoked.  A crash in `createConnection` leaves a secret without an owner; a
  deletion with a closed vault leaves the secret behind.
* A native Deep-Dive update writes from the document it was started with, dropping
  edits made before the request.  `answer`, `chat` and `complete` do not look at the
  status of the session, so a closed or cancelled one can be opened again, and
  `complete` accepts a session without questions.  A crash between the session and
  the run row leaves an open session that cannot be cancelled.
* A chat reply in a Deep-Dive writes back the session it had read before the model
  was asked, and takes back an answer saved meanwhile.
* When the review is the last task of its phase and the phase says AWAITING_REVIEW,
  the approval leaves every box checked under that status.  With a checkpoint each
  Continue is then refused ("not IN_PROGRESS"), without one the phase stays as it is,
  while `.hepha/commands/refine-feature.md:198` says that the phase completes when no
  declared task remains.
* A death after an approval was persisted and before its evidence row was written, or
  before the next entry terminated the row, blocks the phase: recovery completes the
  review task but never writes the row, without which reconciliation refuses to promote.
* A death between IN_PROGRESS in the document and in the table leaves a pair that
  reconciliation refuses as contradictory if the table said AWAITING_REVIEW.
* The marker `markAwaitingReviewRerun` writes is not what `isAwaitingReviewRerun`
  looks for.  That prose may come from a fixer of any feature, among the last ten files
  of a directory they share, and be gone at the next read, so a review after fixes may
  name no predecessor; its approval is accepted without a remediation check.
* The ingestion service requires an answer to SCOPE_EXPANSION findings, the store
  refuses one (`review-ingest-repository.ts:314`): such a review cannot be answered, nor
  can a BLOCKED one.
* A second answer to the same review within one run reuses the ids of the first and
  ends the run as a duplicate.  Two review tasks of one phase share a gate: the
  approval of the first completes the second.  A fixer that defers its work checks
  the review task itself.  Promotion overwrites SKIPPED rows by COMPLETED.
  `phaseHasApprovedReview` accepts an approved report of any phase.
* Automatic recovery exempts failures classified as a blocked code review from its
  limit of one retry.  Nothing throws such a failure any more; were one thrown each
  time, a run would retry for ever.
* Progress of a refinement is recorded without asking whether its run was
  cancelled, so a cancelled card may say `running` again.

## 7. Not modelled, and the plan

Worth a module, in this order:

1. Several phases of a FEAT in one queue, legacy (V1) contracts and conditional
   reviews, as an extension of `PhaseReview`.
2. The tables of the review store and the validation of artifacts, as a refinement
   of `gate` and `basis`; replan and debt artifacts.
3. Delivery: partial failure of branch, push, pull request and metadata.
4. Approvals, package trust and rollout stores: compare-and-set rows, each
   operation one transaction.

Proofs: nothing of the runs' safety is left.  A new module should come with its
inductive invariant as these do; the remaining step for the present ones is to make
the validation of artifacts, once modelled, a refinement of `PhaseReview` and prove it.

Left out for good: document parsing and rendering, prompts, projections and the
web UI (no state of their own), git and GitHub effects beyond success or failure.
Most of the repository's lines are of these kinds (contract parsers and validators
over markdown, projections, React components): deterministic text work that unit
tests reach and that has no interleaving to check.  The map therefore covers a small
share of the repository's lines, about one in fifteen: nearly all of the code that
keeps state across an await, a commit or a restart in the eight parts above, and
little of the rest.
