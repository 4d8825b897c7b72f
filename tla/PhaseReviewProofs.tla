-------------------------- MODULE PhaseReviewProofs --------------------------
(***************************************************************************)
(* Proofs about PhaseReview, for every set of phase contracts that declare *)
(* at least one code review, and any number of faults.                     *)
(***************************************************************************)
EXTENDS PhaseReview, TLAPS

-----------------------------------------------------------------------------
(* The inductive invariant *)

RowStatuses == {"NOT_STARTED", "IN_PROGRESS", "COMPLETED", "SKIPPED"}
RouteNames == {None, "implementation", "fixer", "reviewer", "phase_exit", "blocked"}
Pcs == {"idle", "finished", "handoff", "handoffTable", "reconcile", "promoteTable", "queue",
        "entry", "begin", "beginTable", "beginRow", "worker", "verify", "fixer", "receipt",
        "complete", "skip", "check", "mark", "markTable", "markRow", "preReview", "review",
        "report", "evidence", "exit", "exitTable", "checkpoint"}
Runs == [pc : Pcs, site : {None, "before", "worker", "after"}, task : Nat, route : RouteNames,
         lease : BOOLEAN, cycle : {None, "verified", "failed"}, rerun : BOOLEAN]

Types ==
  /\ contract \in Contracts /\ rows \in [Tasks -> RowStatuses]
  /\ run \in Runs /\ obligations \subseteq Tasks
  /\ basis \in [disposition : {None, "IN_SCOPE_BLOCKER", "SCOPE_EXPANSION"},
                cycle : {None, "verified", "failed"}]

(* The boxes are checked in the declared order. *)
Length == Len(contract.tasks)
Prefix == \E k \in 0..Length : box = 1..k

(* A task after the next one has not been touched. The next one is not     *)
(* recorded as done except where its box is about to be checked, or a run  *)
(* died there.                                                             *)
Untouched == \A t \in Tasks \ box : t # NextTask => rows[t] = "NOT_STARTED"
CleanPcs == Pcs \ {"idle", "finished", "handoff", "handoffTable", "reconcile", "promoteTable",
                   "check", "exitTable", "checkpoint"}
BegunPcs == {"beginTable", "beginRow", "worker", "verify", "fixer", "receipt",
             "complete", "skip", "check"}

(* The current gate event and the artifact it stands for. *)
Gates ==
  \/ gate = [state |-> None, by |-> None, result |-> None]
  \/ gate = [state |-> "PENDING", by |-> "response", result |-> None]
  \/ gate = [state |-> "PENDING", by |-> "receipt", result |-> None]
  \/ gate = [state |-> "REJECTED", by |-> "manifest", result |-> "NEEDS_CHANGES"]
  \/ gate = [state |-> "BLOCKED", by |-> "manifest", result |-> "BLOCKED"]
  \/ gate = [state |-> "PENDING", by |-> "manifest", result |-> "APPROVED"]
  \/ gate = [state |-> "APPROVED", by |-> "manifest", result |-> "APPROVED"]
Approved == gate.state = "APPROVED"
Blocked == gate.result = "BLOCKED"
(* Changes are still to be made, or made and not handed over. *)
FixersTurn == gate.by = "response" \/ (gate.by = "manifest" /\ gate.state \in {"REJECTED", "PENDING"})

(* Who works, by the route that was planned: what a run holds at its pc. *)
Done == {"COMPLETED", "SKIPPED"}
BeginPcs == {"begin", "beginTable", "beginRow"}
RecordPcs == {"complete", "skip", "check"}
Fits(u) ==
  /\ u.pc \in CleanPcs /\ NextTask # 0 => rows[NextTask] \notin Done
  /\ u.pc \in BegunPcs => u.task = NextTask
  /\ u.pc \in BegunPcs \cup {"begin"} => NextTask # 0
  /\ u.pc \in BeginPcs =>
       \/ u.route = "implementation" /\ ~ReviewIsNext
       \/ u.route = "fixer" /\ ReviewIsNext /\ ~Approved /\ ~Blocked
  /\ u.pc \in {"verify", "worker"} => u.route = "implementation" /\ ~ReviewIsNext
  /\ u.pc = "fixer" => u.route = "fixer" /\ ReviewIsNext /\ ~Approved /\ ~Blocked
  /\ u.pc = "receipt" => u.route = "fixer" /\ ReviewIsNext
  /\ u.pc \in {"mark", "markTable", "markRow"} =>
       u.route = "fixer" /\ ~Blocked /\ ~FixersTurn
  /\ u.pc = "preReview" =>
       /\ u.route \in {"phase_exit", "reviewer", "blocked"} => ReviewIsNext
       /\ u.route = "phase_exit" => Approved
       /\ Blocked => u.route = "blocked"
       /\ FixersTurn => u.route \in {"phase_exit", "blocked"}
  /\ u.pc \in {"review", "report", "evidence"} => ReviewIsNext
  /\ u.pc = "review" => ~Blocked /\ ~FixersTurn
  /\ u.pc = "report" => gate.by = "manifest"
  /\ u.pc = "evidence" => Approved
  /\ u.pc = "exit" /\ u.route = "phase_exit" /\ ReviewIsNext => Approved
  /\ u.pc \in RecordPcs =>
       /\ u.route = "implementation" => ~ReviewIsNext
       /\ u.route = "fixer" => ReviewIsNext
       /\ ReviewIsNext => Approved \/ (u.task \in obligations /\ gate.by \in {None, "receipt"})

(* The review that is blocked, or waits for changes, is still open. *)
BlockedIsOpen == Blocked \/ FixersTurn => ReviewIsNext

(* When every review task is checked, the last one was approved, or one    *)
(* was deferred.                                                           *)
ReviewTasks == {t \in Tasks : contract.tasks[t] = "code_review"}
Deferred == \E t \in obligations : contract.tasks[t] = "code_review"
Reviewed == ReviewTasks \subseteq box => Approved \/ Deferred

CompletedIsDone == doc = "COMPLETED" => Tasks \subseteq box

PhaseInv ==
  /\ Types /\ Prefix /\ Untouched /\ Gates /\ Fits(run)
  /\ BlockedIsOpen /\ Reviewed /\ CompletedIsDone

-----------------------------------------------------------------------------
(* The next task *)

(* What selecting the least element of a set of numbers selects. *)
LEMMA LeastIs ==
  ASSUME NEW S \in SUBSET Nat, NEW m \in S, \A u \in S : m <= u
  PROVE  (CHOOSE t \in S : \A u \in S : t <= u) = m
<1> DEFINE P(t) == t \in S /\ \A u \in S : t <= u
           c == CHOOSE t \in S : \A u \in S : t <= u
<1>1. P(c)
  <2>1. \E t \in S : \A u \in S : t <= u
    OBVIOUS
  <2> QED  BY <2>1
<1>2. c <= m /\ m <= c /\ c \in Nat /\ m \in Nat
  BY <1>1
<1> QED  BY <1>2

(* The declared tasks are numbered from 1. *)
LEMMA TasksAre ==
  ASSUME NEW c \in Contracts
  PROVE  /\ Len(c.tasks) \in Nat /\ DOMAIN c.tasks = 1..Len(c.tasks)
         /\ \A i \in DOMAIN c.tasks : c.tasks[i] \in Kinds
         /\ \E i \in DOMAIN c.tasks : c.tasks[i] = "code_review"
<1>1. c.tasks \in Seq(Kinds) /\ \E i \in DOMAIN c.tasks : c.tasks[i] = "code_review"
  BY ContractsAreOrdered
<1> QED  BY <1>1

First(T, b) == IF T \subseteq b THEN 0 ELSE CHOOSE t \in T \ b : \A u \in T \ b : t <= u

(* getNextUnresolvedPhaseContractTask, for boxes checked in order. *)
LEMMA FirstIs ==
  ASSUME NEW n \in Nat, NEW k \in 0..n
  PROVE  /\ k = n => First(1..n, 1..k) = 0
         /\ k # n => First(1..n, 1..k) = k + 1
<1>1. CASE k = n
  BY <1>1 DEF First
<1>2. CASE k # n
  <2> DEFINE S == (1..n) \ (1..k)
  <2>1. S \in SUBSET Nat /\ k + 1 \in S /\ \A u \in S : k + 1 <= u
    BY <1>2
  <2>2. (CHOOSE t \in S : \A u \in S : t <= u) = k + 1
    <3> HIDE DEF S
    <3> QED  BY <2>1, LeastIs
  <2>3. ~(1..n \subseteq 1..k)
    BY <2>1
  <2> QED  BY <1>2, <2>2, <2>3 DEF First
<1> QED  BY <1>1, <1>2

(* The next task is the first one whose box is open, all before it are     *)
(* checked, and none after it.                                             *)
LEMMA NextIs ==
  ASSUME Types, Prefix
  PROVE  /\ NextTask \in Tasks \cup {0} /\ Tasks \subseteq Nat \ {0}
         /\ NextTask = 0 <=> Tasks \subseteq box
         /\ NextTask # 0 => \A t \in Tasks : t \in box <=> t < NextTask
         /\ NextTask # 0 => NextTask \in Tasks \ box
         /\ ReviewIsNext <=> NextTask # 0 /\ contract.tasks[NextTask] = "code_review"
<1>1. Length \in Nat /\ Tasks = 1..Length
  BY TasksAre DEF Types, Length, Tasks
<1>2. PICK k \in 0..Length : box = 1..k
  BY DEF Prefix
<1>3. NextTask = First(1..Length, 1..k)
  BY <1>1, <1>2 DEF NextTask, First
<1>4. (k = Length => NextTask = 0) /\ (k # Length => NextTask = k + 1)
  BY <1>1, <1>3, FirstIs
<1>5. ReviewIsNext <=> NextTask # 0 /\ contract.tasks[NextTask] = "code_review"
  BY DEF ReviewIsNext, NextKind, None
<1> QED  BY <1>1, <1>2, <1>4, <1>5

(* It does not change unless a box is checked. *)
LEMMA NextKept ==
  ASSUME UNCHANGED <<contract, box>>
  PROVE  NextTask' = NextTask /\ Tasks' = Tasks /\ (ReviewIsNext' <=> ReviewIsNext)
         /\ Length' = Length
BY DEF NextTask, Tasks, ReviewIsNext, NextKind, Length

-----------------------------------------------------------------------------
(* Steps of control: nothing that the invariant speaks of changes but the  *)
(* run, and perhaps the status in the document                             *)

Kept == UNCHANGED <<contract, box, rows, obligations, gate, basis>>

LEMMA Control ==
  ASSUME PhaseInv, Kept, run' \in Runs, Fits(run'),
         doc' = doc \/ doc' # "COMPLETED" \/ NextTask = 0
  PROVE  PhaseInv'
<1>1. NextTask' = NextTask /\ Tasks' = Tasks /\ (ReviewIsNext' <=> ReviewIsNext) /\ Length' = Length
  BY NextKept DEF Kept
<1>2. Types' /\ Prefix' /\ Untouched' /\ Gates'
  BY <1>1 DEF PhaseInv, Types, Prefix, Untouched, Gates, Kept
<1>3. Fits(run)'
  BY <1>1 DEF Fits, Kept, Approved, Blocked, FixersTurn
<1>4. BlockedIsOpen' /\ Reviewed'
  BY <1>1 DEF PhaseInv, BlockedIsOpen, Blocked, FixersTurn, Reviewed, ReviewTasks, Approved, Deferred, Kept
<1>5. CompletedIsDone'
  BY <1>1, NextIs DEF PhaseInv, CompletedIsDone, Kept
<1> QED  BY <1>2, <1>3, <1>4, <1>5 DEF PhaseInv

(* A run that goes to another step keeps the rest; one that has ended      *)
(* keeps nothing.                                                          *)
LEMMA Goes ==
  ASSUME run \in Runs, NEW pc \in Pcs, Goto(pc)
  PROVE  /\ run' \in Runs
         /\ run'.pc = pc /\ run'.task = run.task /\ run'.route = run.route
BY DEF Goto, Runs

LEMMA Leaves ==
  ASSUME run \in Runs, LeaveLoop
  PROVE  run' \in Runs /\ run'.pc = "handoff"
BY DEF LeaveLoop, Runs, Pcs

LEMMA Stops ==
  ASSUME NEW pc \in {"idle", "finished", "handoff"}
  PROVE  /\ NoRun(pc) \in Runs /\ NoRun(pc).pc = pc
         /\ [NoRun(pc) EXCEPT !.site = "before"] \in Runs
         /\ [NoRun(pc) EXCEPT !.site = "before"].pc = pc
BY DEF NoRun, Runs, Pcs, RouteNames, None

(* Before the loop, at its end, and without a run nothing is asked.        *)
Outside == {"idle", "finished", "handoff", "handoffTable", "reconcile", "promoteTable",
            "exitTable", "checkpoint"}

LEMMA FitsOutside ==
  ASSUME NEW u, u.pc \in Outside
  PROVE  Fits(u)
BY DEF Fits, Outside, CleanPcs, BegunPcs, BeginPcs, RecordPcs

LEMMA OutsideStep ==
  ASSUME PhaseInv, Kept, run' \in Runs, run'.pc \in Outside,
         doc' = doc \/ doc' # "COMPLETED" \/ NextTask = 0
  PROVE  PhaseInv'
BY FitsOutside, Control

-----------------------------------------------------------------------------
(* Continue, handoff, reconciliation, queue *)

LEMMA StepContinue == PhaseInv /\ Continue => PhaseInv'
<1> SUFFICES ASSUME PhaseInv, Continue PROVE PhaseInv'
  OBVIOUS
<1>1. Kept /\ doc' = doc
  BY DEF Continue, Kept, document, store
<1>2. run' \in Runs /\ run'.pc \in Outside
  BY Stops DEF Continue, Outside
<1> QED  BY <1>1, <1>2, OutsideStep

LEMMA StepDies == PhaseInv /\ RunDies => PhaseInv'
<1> SUFFICES ASSUME PhaseInv, RunDies PROVE PhaseInv'
  OBVIOUS
<1>1. Kept /\ doc' = doc
  BY DEF RunDies, Kept, document, store
<1>2. run' \in Runs /\ run'.pc \in Outside
  BY Stops DEF RunDies, Ends, Outside
<1> QED  BY <1>1, <1>2, OutsideStep

LEMMA StepHandoff == PhaseInv /\ (Handoff \/ HandoffTable \/ PromoteTable) => PhaseInv'
<1> SUFFICES ASSUME PhaseInv, Handoff \/ HandoffTable \/ PromoteTable PROVE PhaseInv'
  OBVIOUS
<1>1. Kept /\ (doc' = doc \/ doc' # "COMPLETED")
  BY DEF Handoff, HandoffTable, PromoteTable, Kept, document, store
<1>2. PICK pc \in {"handoffTable", "reconcile"} : Goto(pc)
  BY DEF Handoff, HandoffTable, PromoteTable
<1>3. run' \in Runs /\ run'.pc \in Outside
  BY <1>2, Goes DEF Outside, Pcs, PhaseInv, Types
<1> QED  BY <1>1, <1>3, OutsideStep

(* A phase is promoted with every task done. *)
LEMMA PromoteMeans ==
  ASSUME Decision = "promote"
  PROVE  NextTask = 0
BY DEF Decision

LEMMA StepPromote == PhaseInv /\ Promote => PhaseInv'
<1> SUFFICES ASSUME PhaseInv, Promote PROVE PhaseInv'
  OBVIOUS
<1>1. Kept /\ NextTask = 0
  BY PromoteMeans DEF Promote, Kept, store
<1>2. run' \in Runs /\ run'.pc \in Outside
  BY Goes DEF Promote, Outside, Pcs, PhaseInv, Types
<1> QED  BY <1>1, <1>2, OutsideStep

(* No row is stale once the reconciliation has decided.                    *)
LEMMA NotStale ==
  ASSUME PhaseInv, StaleRows = {}, NextTask # 0
  PROVE  rows[NextTask] \notin Done
<1>1. NextTask \in Tasks \ box
  BY NextIs DEF PhaseInv
<1> QED  BY <1>1 DEF StaleRows, Done

LEMMA StepReconciled == PhaseInv /\ Reconciled => PhaseInv'
<1> SUFFICES ASSUME PhaseInv, Reconciled PROVE PhaseInv'
  OBVIOUS
<1>1. Kept /\ doc' = doc
  BY DEF Reconciled, Kept, document, store
<1>2. \/ Ends \/ run' = NoRun("finished")
      \/ \E pc \in {"queue", "entry"} : Goto(pc)
      \/ NextTask = 0 /\ Goto("exit")
  BY DEF Reconciled, Continuation, Decision
<1>3. CASE Ends \/ run' = NoRun("finished")
  BY <1>1, <1>3, Stops, OutsideStep DEF Ends, Outside
<1>4. CASE \E pc \in {"queue", "entry"} : Goto(pc)
  <2>1. run' \in Runs /\ run'.pc \in {"queue", "entry"}
    BY <1>4, Goes DEF Pcs, PhaseInv, Types
  <2>2. NextTask # 0 => rows[NextTask] \notin Done
    BY NotStale DEF Reconciled
  <2>3. Fits(run')
    BY <2>1, <2>2 DEF Fits, BegunPcs, BeginPcs, RecordPcs
  <2> QED  BY <1>1, <2>1, <2>3, Control
<1>5. CASE NextTask = 0 /\ Goto("exit")
  <2>1. run' \in Runs /\ run'.pc = "exit"
    BY <1>5, Goes DEF Pcs, PhaseInv, Types
  <2>2. ~ReviewIsNext
    BY <1>5 DEF ReviewIsNext, NextKind, None
  <2>3. Fits(run')
    BY <1>5, <2>1, <2>2 DEF Fits, BegunPcs, BeginPcs, RecordPcs
  <2> QED  BY <1>1, <2>1, <2>3, Control
<1> QED  BY <1>2, <1>3, <1>4, <1>5

LEMMA StepQueue == PhaseInv /\ Queue => PhaseInv'
<1> SUFFICES ASSUME PhaseInv, Queue PROVE PhaseInv'
  OBVIOUS
<1>1. Kept /\ doc' = doc
  BY DEF Queue, Kept, document, store
<1>2. CASE LeaveLoop
  BY <1>1, <1>2, Leaves, OutsideStep DEF Outside, PhaseInv, Types
<1>3. CASE Goto("entry")
  <2>1. run' \in Runs /\ run'.pc = "entry"
    BY <1>3, Goes DEF Pcs, PhaseInv, Types
  <2>2. Fits(run')
    BY <2>1 DEF Fits, BegunPcs, BeginPcs, RecordPcs, PhaseInv, Queue, At, CleanPcs, Pcs
  <2> QED  BY <1>1, <2>1, <2>2, Control
<1> QED  BY <1>2, <1>3 DEF Queue

(* A row is reset that no box confirms; promotion completes rows of        *)
(* checked tasks only.                                                     *)
LEMMA StepRows == PhaseInv /\ (ResetStaleRow \/ PromoteRow) => PhaseInv'
<1> SUFFICES ASSUME PhaseInv, ResetStaleRow \/ PromoteRow PROVE PhaseInv'
  OBVIOUS
<1>1. /\ UNCHANGED <<contract, box, obligations, gate, basis, doc, run>>
      /\ run.pc = "reconcile"
  BY DEF ResetStaleRow, PromoteRow, document, store, At
<1>2. NextTask' = NextTask /\ Tasks' = Tasks /\ (ReviewIsNext' <=> ReviewIsNext) /\ Length' = Length
  BY <1>1, NextKept
<1>3. PICK t \in Tasks, s \in RowStatuses :
        rows' = [rows EXCEPT ![t] = s] /\ (s # "NOT_STARTED" => NextTask = 0)
  BY PromoteMeans DEF ResetStaleRow, PromoteRow, StaleRows, RowStatuses
<1>4. Types' /\ Prefix' /\ Gates'
  BY <1>1, <1>2, <1>3 DEF PhaseInv, Types, Prefix, Gates
<1>5. Untouched'
  <2>1. NextTask = 0 => Tasks \subseteq box
    BY NextIs DEF PhaseInv
  <2> QED  BY <1>1, <1>2, <1>3, <2>1 DEF PhaseInv, Types, Untouched
<1>6. Fits(run)'
  BY <1>1 DEF Fits, CleanPcs, BegunPcs, BeginPcs, RecordPcs
<1>7. BlockedIsOpen' /\ Reviewed' /\ CompletedIsDone'
  BY <1>1, <1>2 DEF PhaseInv, BlockedIsOpen, Blocked, FixersTurn, Reviewed, ReviewTasks, Approved, Deferred, CompletedIsDone
<1> QED  BY <1>4, <1>5, <1>6, <1>7 DEF PhaseInv

-----------------------------------------------------------------------------
(* Phase entry, planning, and the active task *)

(* What the review store lets planning choose. *)
LEMMA RouteIs ==
  ASSUME Gates, NEW awaits
  PROVE  /\ ReviewRoute(awaits) \in {"reviewer", "fixer", "blocked", "phase_exit"}
         /\ ReviewRoute(awaits) = "phase_exit" => Approved
         /\ ReviewRoute(awaits) = "fixer" => ~Approved
         /\ ReviewRoute(awaits) = "reviewer" => ~FixersTurn
         /\ Blocked <=> ReviewRoute(awaits) = "blocked"
BY DEF Gates, ReviewRoute, AfterManifest, WithoutArtifact, Approved, Blocked, FixersTurn, None

LEMMA StepEnter == PhaseInv /\ Enter => PhaseInv'
<1> SUFFICES ASSUME PhaseInv, Enter PROVE PhaseInv'
  OBVIOUS
<1>1. Kept /\ doc' = doc /\ run.pc = "entry" /\ run \in Runs
  BY DEF Enter, Kept, store, At, PhaseInv, Types
<1>2. CASE LeaveLoop
  BY <1>1, <1>2, Leaves, OutsideStep DEF Outside
<1>3. CASE ~LeaveLoop
  <2>1. PICK awaits \in BOOLEAN :
          run' = [run EXCEPT !.route = PlannedRoute(awaits), !.rerun = awaits /\ RerunEvidence,
                    !.pc = IF PlannedRoute(awaits) \in {"implementation", "fixer"}
                           THEN "begin" ELSE "preReview"]
    BY <1>3 DEF Enter, AwaitsRerun
  <2> DEFINE route == PlannedRoute(awaits)
             rerun == awaits /\ RerunEvidence
  <2>2. /\ NextTask = 0 => ~ReviewIsNext
        /\ ReviewIsNext => route = ReviewRoute(awaits)
        /\ ~ReviewIsNext /\ NextTask = 0 => route = None
        /\ ~ReviewIsNext /\ NextTask # 0 => route = "implementation"
    BY NextIs DEF PlannedRoute, PhaseInv
  <2>3. route \in RouteNames /\ rerun \in BOOLEAN
    BY <2>2, RouteIs DEF PhaseInv, RouteNames
  <2> HIDE DEF route, rerun
  <2>4. /\ run' \in Runs /\ run'.route = route
        /\ route \in {"implementation", "fixer"} => run'.pc = "begin"
        /\ route \notin {"implementation", "fixer"} => run'.pc = "preReview"
    <3>1. run' = [run EXCEPT !.route = route, !.rerun = rerun,
                    !.pc = IF route \in {"implementation", "fixer"} THEN "begin" ELSE "preReview"]
      BY <2>1 DEF route, rerun
    <3> QED  BY <1>1, <2>3, <3>1 DEF Runs, Pcs
  <2>5. NextTask # 0 => rows[NextTask] \notin Done
    BY <1>1 DEF PhaseInv, Fits, CleanPcs, Pcs
  <2>6. Blocked \/ FixersTurn => ReviewIsNext
    BY DEF PhaseInv, BlockedIsOpen
  <2>7. CASE ReviewIsNext
    <3>1. Gates
      BY DEF PhaseInv
    <3>2. Fits(run')
      BY <2>2, <2>4, <2>5, <2>7, <3>1, RouteIs DEF Fits, BegunPcs, BeginPcs, RecordPcs
    <3> QED  BY <1>1, <2>4, <3>2, Control
  <2>8. CASE ~ReviewIsNext
    <3>1. Fits(run')
      BY <2>2, <2>4, <2>5, <2>6, <2>8 DEF Fits, BegunPcs, BeginPcs, RecordPcs, None
    <3> QED  BY <1>1, <2>4, <3>1, Control
  <2> QED  BY <2>7, <2>8
<1> QED  BY <1>2, <1>3

(* `begin` selects the task that planning found, by rows that may lag      *)
(* behind the boxes.                                                       *)
LEMMA BeginsNext ==
  ASSUME PhaseInv, NextTask # 0, rows[NextTask] \notin Done
  PROVE  TaskToBegin = NextTask
<1> DEFINE M == Mirrored(box)
           started == {t \in Tasks : M[t] = "IN_PROGRESS"}
           waiting == {t \in Tasks \ box : M[t] \notin {"COMPLETED", "SKIPPED"}}
           open == IF started # {} THEN started ELSE waiting
<1>1. /\ NextTask \in Tasks \ box /\ Tasks \subseteq Nat
      /\ \A t \in Tasks \ box : NextTask <= t
  BY NextIs DEF PhaseInv
<1>2. rows \in [Tasks -> RowStatuses]
  BY DEF PhaseInv, Types
<1>3. /\ \A t \in Tasks : t \in box => M[t] \in {"COMPLETED", "SKIPPED"}
      /\ \A t \in Tasks : t \notin box => M[t] = rows[t]
  BY <1>2 DEF Mirrored
<1>4. \A t \in Tasks \ box : t # NextTask => rows[t] = "NOT_STARTED"
  BY DEF PhaseInv, Untouched
<1> HIDE DEF M
<1>5. open \subseteq Tasks \ box /\ NextTask \in open
  <2>1. CASE rows[NextTask] = "IN_PROGRESS"
    BY <1>1, <1>3, <1>4, <2>1
  <2>2. CASE rows[NextTask] # "IN_PROGRESS"
    <3>1. started = {}
      BY <1>1, <1>3, <1>4, <2>2
    <3> QED  BY <1>1, <1>3, <1>4, <3>1 DEF Done
  <2> QED  BY <2>1, <2>2
<1>6. open \in SUBSET Nat /\ \A u \in open : NextTask <= u
  BY <1>1, <1>5
<1>7. TaskToBegin = IF open = {} THEN 0 ELSE CHOOSE t \in open : \A u \in open : t <= u
  BY DEF TaskToBegin, M
<1> HIDE DEF open
<1> QED  BY <1>5, <1>6, <1>7, LeastIs

(* Steps that change rows, of the next task or of checked ones.            *)
LEMMA RowStep ==
  ASSUME PhaseInv, UNCHANGED <<contract, box, obligations, gate, basis>>,
         doc' = doc \/ doc' # "COMPLETED",
         rows' \in [Tasks -> RowStatuses],
         \A t \in Tasks \ box : t # NextTask => rows'[t] = rows[t],
         run' \in Runs, Fits(run)'
  PROVE  PhaseInv'
<1>1. NextTask' = NextTask /\ Tasks' = Tasks /\ (ReviewIsNext' <=> ReviewIsNext) /\ Length' = Length
  BY NextKept
<1>2. Types' /\ Prefix' /\ Gates' /\ Untouched'
  BY <1>1 DEF PhaseInv, Types, Prefix, Gates, Untouched
<1>3. BlockedIsOpen' /\ Reviewed' /\ CompletedIsDone'
  BY <1>1 DEF PhaseInv, BlockedIsOpen, Blocked, FixersTurn, Reviewed, ReviewTasks, Approved, Deferred, CompletedIsDone
<1> QED  BY <1>2, <1>3 DEF PhaseInv

LEMMA StepBegin == PhaseInv /\ Begin => PhaseInv'
<1> SUFFICES ASSUME PhaseInv, Begin PROVE PhaseInv'
  OBVIOUS
<1>1. /\ UNCHANGED <<contract, box, obligations, gate, basis>>
      /\ doc' # "COMPLETED" /\ run.pc = "begin" /\ run \in Runs
      /\ rows \in [Tasks -> RowStatuses]
  BY DEF Begin, store, At, PhaseInv, Types
<1>2. NextTask # 0 /\ rows[NextTask] \notin Done
  BY <1>1 DEF PhaseInv, Fits, CleanPcs, Pcs
<1>3. TaskToBegin = NextTask /\ NextTask \in Nat /\ NextTask \in Tasks \ box
  BY <1>2, BeginsNext, NextIs DEF PhaseInv
<1>4. /\ run' \in Runs /\ run'.pc = "beginTable" /\ run'.task = NextTask
      /\ run'.route = run.route
  BY <1>1, <1>3 DEF Begin, Runs, Pcs
<1>5. /\ rows' \in [Tasks -> RowStatuses]
      /\ \A t \in Tasks \ box : rows'[t] = rows[t]
  BY <1>1 DEF Begin, Mirrored, RowStatuses
<1>6. NextTask' = NextTask /\ (ReviewIsNext' <=> ReviewIsNext)
  BY <1>1, NextKept
<1>7. Fits(run)'
  BY <1>1, <1>2, <1>3, <1>4, <1>5, <1>6
     DEF PhaseInv, Fits, BegunPcs, BeginPcs, RecordPcs, Approved, Blocked, FixersTurn
<1> QED  BY <1>1, <1>4, <1>5, <1>7, RowStep

LEMMA StepBeginTable == PhaseInv /\ BeginTable => PhaseInv'
<1> SUFFICES ASSUME PhaseInv, BeginTable PROVE PhaseInv'
  OBVIOUS
<1>1. Kept /\ doc' = doc /\ run.pc = "beginTable" /\ run \in Runs
  BY DEF BeginTable, Kept, store, At, PhaseInv, Types
<1>2. run' \in Runs /\ run'.pc = "beginRow" /\ run'.task = run.task /\ run'.route = run.route
  BY <1>1, Goes DEF BeginTable, Pcs
<1>3. Fits(run')
  BY <1>1, <1>2 DEF PhaseInv, Fits, CleanPcs, Pcs, BegunPcs, BeginPcs, RecordPcs
<1> QED  BY <1>1, <1>2, <1>3, Control

LEMMA StepBeginRow == PhaseInv /\ BeginRow => PhaseInv'
<1> SUFFICES ASSUME PhaseInv, BeginRow PROVE PhaseInv'
  OBVIOUS
<1>1. /\ UNCHANGED <<contract, box, obligations, gate, basis, doc>>
      /\ run.pc = "beginRow" /\ run \in Runs /\ rows \in [Tasks -> RowStatuses]
  BY DEF BeginRow, document, store, At, PhaseInv, Types
<1>2. /\ run.task = NextTask /\ NextTask # 0 /\ NextTask \in Tasks \ box
      /\ \/ run.route = "implementation" /\ ~ReviewIsNext
         \/ run.route = "fixer" /\ ReviewIsNext /\ ~Approved /\ ~Blocked
      /\ ReviewIsNext <=> contract.tasks[run.task] = "code_review"
  BY <1>1, NextIs DEF PhaseInv, Fits, BegunPcs, BeginPcs
<1>3. LeaseKept \in BOOLEAN
  BY DEF LeaseKept
<1>4. /\ run' \in Runs /\ run'.task = run.task /\ run'.route = run.route
      /\ \/ run'.pc = "verify" /\ contract.tasks[run.task] = "verification"
         \/ run'.pc = "fixer" /\ run.route = "fixer"
         \/ run'.pc = "worker" /\ run.route # "fixer"
  <2>1. CASE contract.tasks[run.task] = "verification"
    BY <1>1, <2>1, Goes DEF BeginRow, Pcs
  <2>2. CASE contract.tasks[run.task] # "verification"
    <3> DEFINE l == LeaseKept
    <3>1. run' = [run EXCEPT !.lease = l, !.pc = IF run.route = "fixer" THEN "fixer" ELSE "worker"]
      BY <2>2 DEF BeginRow
    <3> HIDE DEF l
    <3> QED  BY <1>1, <1>3, <3>1 DEF Runs, Pcs, l
  <2> QED  BY <2>1, <2>2
<1>5. rows' \in [Tasks -> RowStatuses] /\ rows'[NextTask] = "IN_PROGRESS"
      /\ \A t \in Tasks \ box : t # NextTask => rows'[t] = rows[t]
  BY <1>1, <1>2 DEF BeginRow, RowStatuses
<1>6. NextTask' = NextTask /\ (ReviewIsNext' <=> ReviewIsNext)
  BY <1>1, NextKept
<1>7. Fits(run)'
  BY <1>1, <1>2, <1>4, <1>5, <1>6
     DEF Fits, BegunPcs, BeginPcs, RecordPcs, Approved, Blocked, FixersTurn, Done
<1> QED  BY <1>1, <1>4, <1>5, <1>7, RowStep

LEMMA StepRepeat == PhaseInv /\ RepeatForRepair => PhaseInv'
<1> SUFFICES ASSUME PhaseInv, RepeatForRepair PROVE PhaseInv'
  OBVIOUS
<1>1. Kept /\ doc' = doc /\ run.pc \in {"worker", "fixer"} /\ run \in Runs
  BY DEF RepeatForRepair, Kept, document, store, At, PhaseInv, Types
<1>2. run' \in Runs /\ run'.pc = "entry"
  BY <1>1, Goes DEF RepeatForRepair, Pcs
<1>3. Fits(run')
  BY <1>1, <1>2 DEF PhaseInv, Fits, CleanPcs, Pcs, BegunPcs, BeginPcs, RecordPcs
<1> QED  BY <1>1, <1>2, <1>3, Control

(* An agent defers a task of its own, which is not a review.               *)
LEMMA StepWorker == PhaseInv /\ (WorkerReturns \/ VerificationPasses) => PhaseInv'
<1> SUFFICES ASSUME PhaseInv, WorkerReturns \/ VerificationPasses PROVE PhaseInv'
  OBVIOUS
<1>1. /\ UNCHANGED <<contract, box, rows, gate, basis, doc>>
      /\ run.pc \in {"worker", "verify"} /\ run \in Runs
      /\ obligations' = obligations \/ obligations' = obligations \cup {run.task}
  BY DEF WorkerReturns, VerificationPasses, document, store, At, PhaseInv, Types
<1>2. PICK pc \in {"complete", "skip"} : Goto(pc)
  BY DEF WorkerReturns, VerificationPasses
<1>3. run' \in Runs /\ run'.pc = pc /\ run'.task = run.task /\ run'.route = run.route
  BY <1>1, <1>2, Goes DEF Pcs
<1>4. /\ run.task = NextTask /\ NextTask # 0 /\ NextTask \in Tasks \ box
      /\ run.route = "implementation" /\ ~ReviewIsNext
      /\ rows[NextTask] \notin Done
  BY <1>1, NextIs DEF PhaseInv, Fits, BegunPcs, BeginPcs, CleanPcs, Pcs
<1>5. NextTask' = NextTask /\ Tasks' = Tasks /\ (ReviewIsNext' <=> ReviewIsNext) /\ Length' = Length
  BY <1>1, NextKept
<1>6. Types' /\ Prefix' /\ Untouched' /\ Gates'
  BY <1>1, <1>3, <1>4, <1>5 DEF PhaseInv, Types, Prefix, Untouched, Gates
<1>7. Fits(run)'
  BY <1>1, <1>3, <1>4, <1>5 DEF Fits, BegunPcs, BeginPcs, RecordPcs
<1>8. BlockedIsOpen' /\ Reviewed' /\ CompletedIsDone'
  <2>1. obligations \subseteq obligations'
    BY <1>1
  <2> QED  BY <1>1, <1>5, <2>1 DEF PhaseInv, BlockedIsOpen, Blocked, FixersTurn, Reviewed, ReviewTasks, Approved,
             Deferred, CompletedIsDone
<1> QED  BY <1>6, <1>7, <1>8 DEF PhaseInv

LEMMA StepRecord == PhaseInv /\ (CompleteTask \/ SkipTask) => PhaseInv'
<1> SUFFICES ASSUME PhaseInv, CompleteTask \/ SkipTask PROVE PhaseInv'
  OBVIOUS
<1>1. /\ UNCHANGED <<contract, box, obligations, gate, basis, doc>>
      /\ run.pc \in {"complete", "skip"} /\ run \in Runs /\ rows \in [Tasks -> RowStatuses]
      /\ Goto("check")
      /\ \E s \in RowStatuses : rows' = [rows EXCEPT ![run.task] = s]
  BY DEF CompleteTask, SkipTask, RecordTask, document, store, At, PhaseInv, Types, RowStatuses
<1>2. run' \in Runs /\ run'.pc = "check" /\ run'.task = run.task /\ run'.route = run.route
  BY <1>1, Goes DEF Pcs
<1>3. run.task = NextTask /\ NextTask # 0 /\ NextTask \in Tasks \ box
  BY <1>1, NextIs DEF PhaseInv, Fits, BegunPcs
<1>4. rows' \in [Tasks -> RowStatuses] /\ \A t \in Tasks \ box : t # NextTask => rows'[t] = rows[t]
  BY <1>1, <1>3
<1>5. NextTask' = NextTask /\ (ReviewIsNext' <=> ReviewIsNext)
  BY <1>1, NextKept
<1>6. Fits(run)'
  BY <1>1, <1>2, <1>3, <1>5 DEF PhaseInv, Fits, BegunPcs, BeginPcs, RecordPcs, CleanPcs, Approved, Blocked, FixersTurn
<1> QED  BY <1>1, <1>2, <1>4, <1>6, RowStep

(* With the box of the next task the boxes are still a prefix, and the     *)
(* task after it has not been touched.                                     *)
LEMMA BoxStep ==
  ASSUME PhaseInv, run.pc = "check",
         UNCHANGED <<contract, obligations, gate, basis, doc>>,
         box' = box \cup {NextTask}, rows' \in [Tasks -> RowStatuses],
         \A t \in Tasks \ box : t # NextTask => rows'[t] = rows[t]
  PROVE  /\ contract' \in Contracts /\ rows' \in [Tasks' -> RowStatuses] /\ obligations' \subseteq Tasks'
         /\ Prefix' /\ Untouched' /\ Gates' /\ BlockedIsOpen' /\ Reviewed'
         /\ CompletedIsDone'
         /\ NextTask' # 0 => rows'[NextTask'] = "NOT_STARTED"
         /\ ~Blocked' /\ ~FixersTurn'
<1>1. NextTask \in Tasks \ box /\ NextTask # 0 /\ run.task = NextTask
  BY NextIs DEF PhaseInv, Fits, BegunPcs
<1>2. Tasks' = Tasks /\ Length' = Length /\ Length \in Nat /\ Tasks = 1..Length
  BY TasksAre DEF PhaseInv, Types, Length, Tasks
<1>3. PICK k \in 0..Length : box = 1..k
  BY DEF PhaseInv, Prefix
<1>4. k # Length /\ NextTask = k + 1
  <2>1. NextTask = First(1..Length, 1..k)
    BY <1>2, <1>3 DEF NextTask, First
  <2> QED  BY <1>1, <1>2, <2>1, FirstIs
<1>5. k + 1 \in 0..Length /\ box' = 1..(k + 1)
  BY <1>2, <1>3, <1>4
<1>6. Prefix'
  BY <1>2, <1>5 DEF Prefix
<1>7. NextTask' = First(1..Length, 1..(k + 1))
  <2>1. NextTask' = First(Tasks', box')
    BY DEF NextTask, First
  <2> QED  BY <1>2, <1>5, <2>1
<1>8. /\ k + 1 = Length => NextTask' = 0
      /\ k + 1 # Length => NextTask' = k + 2
  <2>1. \A j \in 0..Length : (j = Length => First(1..Length, 1..j) = 0)
                          /\ (j # Length => First(1..Length, 1..j) = j + 1)
    BY <1>2, FirstIs
  <2> QED  BY <1>2, <1>5, <1>7, <2>1
<1>9. \A t \in Tasks' \ box' : rows'[t] = "NOT_STARTED"
  BY <1>2 DEF PhaseInv, Untouched
<1>10. Untouched' /\ (NextTask' # 0 => rows'[NextTask'] = "NOT_STARTED")
  <2>1. NextTask' # 0 => NextTask' \in Tasks' \ box'
    BY <1>2, <1>5, <1>8
  <2> QED  BY <1>9, <2>1 DEF Untouched
<1>11. /\ ReviewIsNext <=> contract.tasks[NextTask] = "code_review"
       /\ ReviewIsNext => Approved \/ (NextTask \in obligations /\ gate.by \in {None, "receipt"})
  BY <1>1, NextIs DEF PhaseInv, Fits, RecordPcs
<1>12. ~Blocked /\ ~FixersTurn
  <2>1. Approved \/ gate.by \in {None, "receipt"} => ~Blocked /\ ~FixersTurn
    BY DEF PhaseInv, Gates, Approved, Blocked, FixersTurn, None
  <2> QED  BY <1>11, <2>1 DEF PhaseInv, BlockedIsOpen
<1>13. ~Blocked' /\ ~FixersTurn' /\ BlockedIsOpen' /\ Gates'
  BY <1>12 DEF PhaseInv, Blocked, FixersTurn, BlockedIsOpen, Gates
<1>14. Reviewed'
  <2>1. (Approved' <=> Approved) /\ (Deferred' <=> Deferred) /\ ReviewTasks' = ReviewTasks
    BY <1>2 DEF Approved, Deferred, ReviewTasks
  <2>2. CASE ReviewIsNext
    BY <1>11, <2>1, <2>2 DEF Reviewed, Deferred
  <2>3. CASE ~ReviewIsNext
    <3>1. NextTask \notin ReviewTasks
      BY <1>11, <2>3 DEF ReviewTasks
    <3> QED  BY <2>1, <3>1 DEF PhaseInv, Reviewed
  <2> QED  BY <2>2, <2>3
<1>15. CompletedIsDone'
  BY <1>2 DEF PhaseInv, CompletedIsDone
<1>16. contract' \in Contracts /\ rows' \in [Tasks' -> RowStatuses] /\ obligations' \subseteq Tasks'
  BY <1>2 DEF PhaseInv, Types
<1> QED  BY <1>6, <1>10, <1>13, <1>14, <1>15, <1>16

LEMMA StepCheckBox == PhaseInv /\ CheckBox => PhaseInv'
<1> SUFFICES ASSUME PhaseInv, CheckBox PROVE PhaseInv'
  OBVIOUS
<1>1. /\ UNCHANGED <<contract, obligations, gate, basis, doc>>
      /\ run.pc = "check" /\ run \in Runs /\ rows \in [Tasks -> RowStatuses]
  BY DEF CheckBox, store, At, PhaseInv, Types
<1>2. run.task = NextTask /\ NextTask # 0 /\ NextTask \in Tasks \ box /\ box' = box \cup {NextTask}
  BY <1>1, NextIs DEF PhaseInv, Fits, BegunPcs, CheckBox
<1>3. /\ rows' \in [Tasks -> RowStatuses]
      /\ \A t \in Tasks \ box : t # NextTask => rows'[t] = rows[t]
  BY <1>1, <1>2 DEF CheckBox, Mirrored, RowStatuses
<1>4. PICK pc \in {"mark", "preReview", "entry"} :
         /\ Goto(pc)
         /\ pc = "mark" => run.route = "fixer"
         /\ pc = "preReview" => run.route = "implementation"
  BY DEF CheckBox
<1>5. run' \in Runs /\ run'.pc = pc /\ run'.task = run.task /\ run'.route = run.route
  BY <1>1, <1>4, Goes DEF Pcs
<1>6. NextTask' # 0 => rows'[NextTask'] \notin Done
  BY <1>1, <1>2, <1>3, BoxStep DEF Done
<1>7. Fits(run)'
  <2>1. ~Blocked' /\ ~FixersTurn'
    BY <1>1, <1>2, <1>3, BoxStep
  <2> QED  BY <1>4, <1>5, <1>6, <2>1 DEF Fits, BegunPcs, BeginPcs, RecordPcs
<1>8. Types'
  <2>1. contract' \in Contracts /\ rows' \in [Tasks' -> RowStatuses] /\ obligations' \subseteq Tasks'
    BY <1>1, <1>2, <1>3, BoxStep
  <2> QED  BY <1>1, <1>5, <2>1 DEF PhaseInv, Types
<1>9. /\ Prefix' /\ Untouched' /\ Gates' /\ BlockedIsOpen' /\ Reviewed'
      /\ CompletedIsDone'
  BY <1>1, <1>2, <1>3, BoxStep
<1> QED  BY <1>7, <1>8, <1>9 DEF PhaseInv

LEMMA StepSettlementFails == PhaseInv /\ SettlementFails => PhaseInv'
<1> SUFFICES ASSUME PhaseInv, SettlementFails PROVE PhaseInv'
  OBVIOUS
<1>1. /\ UNCHANGED <<contract, obligations, gate, basis, doc>>
      /\ run.pc = "check" /\ rows \in [Tasks -> RowStatuses]
      /\ rows' = [rows EXCEPT ![run.task] = "IN_PROGRESS"]
      /\ box' = box \/ box' = box \cup {run.task}
  BY DEF SettlementFails, store, At, PhaseInv, Types
<1>2. run.task = NextTask /\ NextTask # 0 /\ NextTask \in Tasks \ box
  BY <1>1, NextIs DEF PhaseInv, Fits, BegunPcs
<1>3. /\ rows' \in [Tasks -> RowStatuses]
      /\ \A t \in Tasks \ box : t # NextTask => rows'[t] = rows[t]
  BY <1>1, <1>2 DEF RowStatuses
<1>4. run' \in Runs /\ run'.pc = "idle"
  BY Stops DEF SettlementFails, Ends
<1>5. Fits(run)'
  BY <1>4 DEF Fits, CleanPcs, BegunPcs, BeginPcs, RecordPcs
<1>6. CASE box' = box
  BY <1>1, <1>3, <1>4, <1>5, <1>6, RowStep
<1>7. CASE box' = box \cup {NextTask}
  <2>1. /\ Prefix' /\ Untouched' /\ Gates' /\ BlockedIsOpen' /\ Reviewed'
        /\ CompletedIsDone'
    BY <1>1, <1>3, <1>7, BoxStep
  <2>2. contract' \in Contracts /\ rows' \in [Tasks' -> RowStatuses] /\ obligations' \subseteq Tasks'
    BY <1>1, <1>3, <1>7, BoxStep
  <2>3. Types'
    BY <1>1, <1>4, <2>2 DEF PhaseInv, Types
  <2> QED  BY <1>5, <2>1, <2>3 DEF PhaseInv
<1> QED  BY <1>1, <1>2, <1>6, <1>7

-----------------------------------------------------------------------------
(* The fixer and the review: the gate changes only while a review is open *)

(* What a step that records a gate event, with the next task a review,     *)
(* must show.                                                              *)
LEMMA GateStep ==
  ASSUME PhaseInv, ReviewIsNext, UNCHANGED <<contract, box, rows, doc>>,
         obligations \subseteq obligations' /\ obligations' \subseteq Tasks,
         basis' \in [disposition : {None, "IN_SCOPE_BLOCKER", "SCOPE_EXPANSION"},
                     cycle : {None, "verified", "failed"}],
         Gates', run' \in Runs, Fits(run)'
  PROVE  PhaseInv'
<1>1. NextTask' = NextTask /\ Tasks' = Tasks /\ (ReviewIsNext' <=> ReviewIsNext) /\ Length' = Length
  BY NextKept
<1>2. Types' /\ Prefix' /\ Untouched'
  BY <1>1 DEF PhaseInv, Types, Prefix, Untouched
<1>3. NextTask \in ReviewTasks /\ NextTask \notin box
  BY NextIs DEF PhaseInv, ReviewTasks
<1>4. BlockedIsOpen' /\ CompletedIsDone'
  BY <1>1 DEF PhaseInv, BlockedIsOpen, Blocked, FixersTurn, CompletedIsDone
<1>5. Reviewed'
  <2>1. ReviewTasks' = ReviewTasks
    BY <1>1 DEF ReviewTasks
  <2> QED  BY <1>3, <2>1 DEF Reviewed
<1> QED  BY <1>2, <1>4, <1>5 DEF PhaseInv

LEMMA StepFixerResponds == PhaseInv /\ FixerResponds => PhaseInv'
<1> SUFFICES ASSUME PhaseInv, FixerResponds PROVE PhaseInv'
  OBVIOUS
<1>1. /\ UNCHANGED <<contract, box, rows, doc, obligations, basis>>
      /\ run.pc = "fixer" /\ run \in Runs
  BY DEF FixerResponds, document, At, PhaseInv, Types
<1>2. /\ run.task = NextTask /\ NextTask # 0 /\ run.route = "fixer" /\ ReviewIsNext
      /\ rows[NextTask] \notin Done /\ ~Approved /\ ~Blocked
  BY <1>1 DEF PhaseInv, Fits, BegunPcs, CleanPcs, Pcs
<1>3. NextTask' = NextTask /\ (ReviewIsNext' <=> ReviewIsNext)
  BY <1>1, NextKept
<1>4. CASE gate' = gate /\ Ends
  <2>1. run' \in Runs /\ run'.pc = "idle"
    BY <1>4, Stops DEF Ends
  <2>2. Fits(run)'
    BY <2>1 DEF Fits, CleanPcs, BegunPcs, BeginPcs, RecordPcs
  <2>3. Gates'
    BY <1>1, <1>2, <1>4 DEF PhaseInv, Gates
  <2> QED  BY <1>1, <1>2, <2>1, <2>2, <2>3, GateStep DEF PhaseInv, Types
<1>5. CASE /\ gate' = [state |-> "PENDING", by |-> "response", result |-> None]
           /\ \E cycle \in {"verified", "failed"} :
                run' = [run EXCEPT !.pc = "receipt", !.lease = TRUE, !.cycle = cycle]
  <2>1. run' \in Runs /\ run'.pc = "receipt" /\ run'.task = run.task /\ run'.route = run.route
    BY <1>1, <1>5 DEF Runs, Pcs
  <2>2. Gates'
    BY <1>5 DEF Gates, None
  <2>3. Fits(run)'
    BY <1>1, <1>2, <1>3, <2>1 DEF Fits, BegunPcs, BeginPcs, RecordPcs
  <2> QED  BY <1>1, <1>2, <2>1, <2>2, <2>3, GateStep DEF PhaseInv, Types
<1> QED  BY <1>4, <1>5 DEF FixerResponds

(* The findings of a report leave no event in the store. *)
LEMMA StepAnswersReport == PhaseInv /\ FixerAnswersReport => PhaseInv'
<1> SUFFICES ASSUME PhaseInv, FixerAnswersReport PROVE PhaseInv'
  OBVIOUS
<1>1. /\ UNCHANGED <<contract, box, rows, doc, gate, basis>>
      /\ run.pc = "fixer" /\ run \in Runs /\ ~LineageRequired
      /\ obligations \subseteq Tasks /\ Gates
  BY DEF FixerAnswersReport, store, At, PhaseInv, Types
<1>2. /\ run.task = NextTask /\ NextTask # 0 /\ run.route = "fixer" /\ ReviewIsNext
      /\ rows[NextTask] \notin Done /\ NextTask \in Tasks /\ ~Approved /\ ~Blocked
  BY <1>1, NextIs DEF PhaseInv, Fits, BegunPcs, CleanPcs, Pcs
<1>3. gate.by = None /\ ~FixersTurn
  BY <1>1, <1>2 DEF Gates, LineageRequired, Approved, Blocked, FixersTurn, None
<1>4. NextTask' = NextTask /\ (ReviewIsNext' <=> ReviewIsNext)
  BY <1>1, NextKept
<1>5. PICK pc \in {"mark", "skip"} :
        /\ Goto(pc)
        /\ obligations' = obligations \/ obligations' = obligations \cup {run.task}
        /\ pc = "skip" => run.task \in obligations'
  BY DEF FixerAnswersReport, SettleFixer
<1>6. run' \in Runs /\ run'.pc = pc /\ run'.task = run.task /\ run'.route = run.route
  BY <1>1, <1>5, Goes DEF Pcs
<1>7. Gates' /\ ~Blocked' /\ ~FixersTurn' /\ gate'.by = None
  BY <1>1, <1>2, <1>3 DEF Gates, Blocked, FixersTurn
<1>8. Fits(run)'
  BY <1>1, <1>2, <1>4, <1>5, <1>6, <1>7 DEF Fits, BegunPcs, BeginPcs, RecordPcs
<1> QED  BY <1>1, <1>2, <1>5, <1>6, <1>8, <1>7, GateStep DEF PhaseInv, Types

LEMMA StepFixerReceipt == PhaseInv /\ FixerReceipt => PhaseInv'
<1> SUFFICES ASSUME PhaseInv, FixerReceipt PROVE PhaseInv'
  OBVIOUS
<1>1. /\ UNCHANGED <<contract, box, rows, doc>>
      /\ run.pc = "receipt" /\ run \in Runs
      /\ gate' = [state |-> "PENDING", by |-> "receipt", result |-> None]
      /\ obligations \subseteq Tasks
  BY DEF FixerReceipt, At, PhaseInv, Types
<1>2. /\ run.task = NextTask /\ NextTask # 0 /\ run.route = "fixer" /\ ReviewIsNext
      /\ rows[NextTask] \notin Done /\ NextTask \in Tasks
  BY <1>1, NextIs DEF PhaseInv, Fits, BegunPcs, CleanPcs, Pcs
<1>3. NextTask' = NextTask /\ (ReviewIsNext' <=> ReviewIsNext)
  BY <1>1, NextKept
<1>4. PICK pc \in {"mark", "skip"} :
        /\ Goto(pc)
        /\ obligations' = obligations \/ obligations' = obligations \cup {run.task}
        /\ pc = "skip" => run.task \in obligations'
  BY DEF FixerReceipt, SettleFixer
<1>5. run' \in Runs /\ run'.pc = pc /\ run'.task = run.task /\ run'.route = run.route
  BY <1>1, <1>4, Goes DEF Pcs
<1>6. Gates' /\ ~Blocked' /\ ~FixersTurn' /\ gate'.by = "receipt"
  BY <1>1 DEF Gates, Blocked, FixersTurn, None
<1>7. Fits(run)'
  BY <1>1, <1>2, <1>3, <1>4, <1>5, <1>6 DEF Fits, BegunPcs, BeginPcs, RecordPcs
<1>8. basis' \in [disposition : {None, "IN_SCOPE_BLOCKER", "SCOPE_EXPANSION"},
                  cycle : {None, "verified", "failed"}]
  BY <1>1 DEF PhaseInv, Types, FixerReceipt, WithCycle, Runs
<1> QED  BY <1>1, <1>2, <1>4, <1>5, <1>6, <1>7, <1>8, GateStep

LEMMA StepMark == PhaseInv /\ (MarkRerun \/ MarkRerunTable \/ MarkRerunRow) => PhaseInv'
<1> SUFFICES ASSUME PhaseInv, MarkRerun \/ MarkRerunTable \/ MarkRerunRow PROVE PhaseInv'
  OBVIOUS
<1>1. /\ Kept /\ run \in Runs /\ run.pc \in {"mark", "markTable", "markRow"}
      /\ doc' = doc \/ doc' # "COMPLETED"
  BY DEF MarkRerun, MarkRerunTable, MarkRerunRow, Kept, store, At, PhaseInv, Types
<1>2. PICK pc \in {"markTable", "markRow", "preReview"} : Goto(pc)
  BY DEF MarkRerun, MarkRerunTable, MarkRerunRow
<1>3. run' \in Runs /\ run'.pc = pc /\ run'.task = run.task /\ run'.route = run.route
  BY <1>1, <1>2, Goes DEF Pcs
<1>4. Fits(run')
  BY <1>1, <1>3 DEF PhaseInv, Fits, CleanPcs, Pcs, BegunPcs, BeginPcs, RecordPcs
<1> QED  BY <1>1, <1>3, <1>4, Control

LEMMA StepRouteReview == PhaseInv /\ RouteReview => PhaseInv'
<1> SUFFICES ASSUME PhaseInv, RouteReview PROVE PhaseInv'
  OBVIOUS
<1>1. Kept /\ doc' = doc /\ run \in Runs /\ run.pc = "preReview"
  BY DEF RouteReview, Kept, document, store, At, PhaseInv, Types
<1>2. /\ NextTask # 0 => rows[NextTask] \notin Done
      /\ run.route = "phase_exit" => Approved
      /\ Blocked => run.route = "blocked"
      /\ FixersTurn => run.route \in {"phase_exit", "blocked"}
  BY <1>1 DEF PhaseInv, Fits, CleanPcs, Pcs
<1>3. \/ Goto("exit")
      \/ /\ ReviewIsNext /\ run.route \notin {"phase_exit", "blocked"}
         /\ \E awaits \in BOOLEAN : run' = [run EXCEPT !.pc = "review", !.rerun = @ \/ awaits]
      \/ run' = [run EXCEPT !.pc = "reconcile", !.site = "worker"]
  BY DEF RouteReview, ReviewReady, AwaitsRerun
<1>4. CASE Goto("exit")
  <2>1. run' \in Runs /\ run'.pc = "exit" /\ run'.route = run.route
    BY <1>1, <1>4, Goes DEF Pcs
  <2>2. Fits(run')
    BY <1>2, <2>1 DEF Fits, BegunPcs, BeginPcs, RecordPcs
  <2> QED  BY <1>1, <2>1, <2>2, Control
<1>5. CASE /\ ReviewIsNext /\ run.route \notin {"phase_exit", "blocked"}
           /\ \E awaits \in BOOLEAN : run' = [run EXCEPT !.pc = "review", !.rerun = @ \/ awaits]
  <2>1. PICK awaits \in BOOLEAN : run' = [run EXCEPT !.pc = "review", !.rerun = run.rerun \/ awaits]
    BY <1>5
  <2>2. run' \in Runs /\ run'.pc = "review"
    BY <1>1, <2>1 DEF Runs, Pcs
  <2>3. Fits(run')
    BY <1>2, <1>5, <2>2 DEF Fits, BegunPcs, BeginPcs, RecordPcs
  <2> QED  BY <1>1, <2>2, <2>3, Control
<1>6. CASE run' = [run EXCEPT !.pc = "reconcile", !.site = "worker"]
  <2>1. run' \in Runs /\ run'.pc = "reconcile"
    BY <1>1, <1>6 DEF Runs, Pcs
  <2> QED  BY <1>1, <2>1, OutsideStep DEF Outside
<1> QED  BY <1>3, <1>4, <1>5, <1>6

(* The gate that a manifest records. *)
LEMMA GateOfIs ==
  ASSUME NEW linked
  PROVE  /\ GateOf("NEEDS_CHANGES", linked) = "REJECTED"
         /\ GateOf("BLOCKED", linked) = "BLOCKED"
         /\ GateOf("APPROVED", linked) \in {"PENDING", "APPROVED"}
<1>1. GateOf("NEEDS_CHANGES", linked) = "REJECTED"
  BY DEF GateOf
<1>2. GateOf("BLOCKED", linked) = "BLOCKED"
  BY DEF GateOf
<1>3. GateOf("APPROVED", linked) \in {"PENDING", "APPROVED"}
  BY DEF GateOf
<1> QED  BY <1>1, <1>2, <1>3

LEMMA StepReviewer == PhaseInv /\ ReviewerDecides => PhaseInv'
<1> SUFFICES ASSUME PhaseInv, ReviewerDecides PROVE PhaseInv'
  OBVIOUS
<1>1. /\ UNCHANGED <<contract, box, rows, doc, obligations>>
      /\ run.pc = "review" /\ run \in Runs
      /\ obligations \subseteq Tasks
  BY DEF ReviewerDecides, document, At, PhaseInv, Types
<1>2. /\ ReviewIsNext /\ ~Blocked
      /\ NextTask # 0 => rows[NextTask] \notin Done
  BY <1>1 DEF PhaseInv, Fits, CleanPcs, Pcs
<1>3. NextTask' = NextTask /\ (ReviewIsNext' <=> ReviewIsNext)
  BY <1>1, NextKept
<1>4. PICK result \in Results :
        /\ gate' = [state |-> GateOf(result, NamesPredecessor), by |-> "manifest",
                    result |-> result]
        /\ IF result = "NEEDS_CHANGES"
           THEN /\ \E d \in {"IN_SCOPE_BLOCKER", "SCOPE_EXPANSION"} :
                     basis' = [disposition |-> d, cycle |-> None]
                /\ run' = [run EXCEPT !.pc = "report", !.lease = FALSE]
           ELSE basis' = basis /\ Goto("report")
  BY DEF ReviewerDecides
<1>5. run' \in Runs /\ run'.pc = "report"
  <2>1. CASE result = "NEEDS_CHANGES"
    BY <1>1, <1>4, <2>1 DEF Runs, Pcs
  <2>2. CASE result # "NEEDS_CHANGES"
    BY <1>1, <1>4, <2>2, Goes DEF Pcs
  <2> QED  BY <2>1, <2>2
<1>6. basis' \in [disposition : {None, "IN_SCOPE_BLOCKER", "SCOPE_EXPANSION"},
                  cycle : {None, "verified", "failed"}]
  BY <1>4 DEF PhaseInv, Types
<1>7. Gates' /\ gate'.by = "manifest"
  <2> DEFINE state == GateOf(result, NamesPredecessor)
  <2>1. /\ result = "NEEDS_CHANGES" => state = "REJECTED"
        /\ result = "BLOCKED" => state = "BLOCKED"
        /\ result = "APPROVED" => state \in {"PENDING", "APPROVED"}
    BY GateOfIs
  <2>2. gate' = [state |-> state, by |-> "manifest", result |-> result]
    BY <1>4
  <2> HIDE DEF state
  <2> QED  BY <2>1, <2>2 DEF Gates, Results
<1>8. Fits(run)'
  BY <1>1, <1>2, <1>3, <1>5, <1>7 DEF Fits, BegunPcs, BeginPcs, RecordPcs
<1> QED  BY <1>1, <1>2, <1>5, <1>6, <1>7, <1>8, GateStep

LEMMA StepReport == PhaseInv /\ WriteReport => PhaseInv'
<1> SUFFICES ASSUME PhaseInv, WriteReport PROVE PhaseInv'
  OBVIOUS
<1>1. Kept /\ doc' = doc /\ run \in Runs /\ run.pc = "report"
  BY DEF WriteReport, Kept, document, store, At, PhaseInv, Types
<1>2. (NextTask # 0 => rows[NextTask] \notin Done) /\ ReviewIsNext
  BY <1>1 DEF PhaseInv, Fits, CleanPcs, Pcs
<1>3. \/ Ends
      \/ \E pc \in {"evidence", "entry"} : Goto(pc) /\ (pc = "evidence" => Approved)
  BY DEF WriteReport, AfterReport, Approved
<1>4. CASE Ends
  BY <1>1, <1>4, Stops, OutsideStep DEF Ends, Outside
<1>5. CASE \E pc \in {"evidence", "entry"} : Goto(pc) /\ (pc = "evidence" => Approved)
  <2>1. run' \in Runs /\ run'.pc \in {"evidence", "entry"} /\ (run'.pc = "evidence" => Approved)
    BY <1>1, <1>5, Goes DEF Pcs
  <2>2. Fits(run')
    BY <1>2, <2>1 DEF Fits, BegunPcs, BeginPcs, RecordPcs
  <2> QED  BY <1>1, <2>1, <2>2, Control
<1> QED  BY <1>3, <1>4, <1>5

LEMMA StepEvidence == PhaseInv /\ (RecordEvidence \/ RecoverReviewTask) => PhaseInv'
<1> SUFFICES ASSUME PhaseInv, RecordEvidence \/ RecoverReviewTask PROVE PhaseInv'
  OBVIOUS
<1>1. Kept /\ doc' = doc /\ run \in Runs /\ run.pc \in {"evidence", "exit"}
  BY DEF RecordEvidence, RecoverReviewTask, Kept, document, store, At, PhaseInv, Types
<1>2. ReviewIsNext /\ Approved /\ (NextTask # 0 => rows[NextTask] \notin Done)
  BY <1>1 DEF PhaseInv, Fits, CleanPcs, Pcs, RecordEvidence, RecoverReviewTask, At
<1>3. NextTask # 0 /\ NextTask \in Nat
  BY <1>2, NextIs DEF PhaseInv
<1>4. /\ run' \in Runs /\ run'.pc = "complete" /\ run'.task = NextTask
      /\ run'.route \in {"reviewer", "phase_exit"}
  BY <1>1, <1>3 DEF RecordEvidence, RecoverReviewTask, Runs, Pcs, RouteNames
<1>5. Fits(run')
  BY <1>2, <1>3, <1>4 DEF Fits, BegunPcs, BeginPcs, RecordPcs
<1> QED  BY <1>1, <1>4, <1>5, Control

LEMMA StepExit == PhaseInv /\ Exit => PhaseInv'
<1> SUFFICES ASSUME PhaseInv, Exit PROVE PhaseInv'
  OBVIOUS
<1>1. Kept /\ (doc' = doc \/ NextTask = 0)
  BY DEF Exit, Kept, store
<1>2. run' \in Runs /\ run'.pc \in Outside
  BY Goes, Stops DEF Exit, Ends, Outside, Pcs, PhaseInv, Types
<1> QED  BY <1>1, <1>2, OutsideStep

LEMMA StepCheckpoint == PhaseInv /\ (ExitTable \/ Checkpoint \/ CheckpointPending) => PhaseInv'
<1> SUFFICES ASSUME PhaseInv, ExitTable \/ Checkpoint \/ CheckpointPending PROVE PhaseInv'
  OBVIOUS
<1>1. Kept /\ doc' = doc
  BY DEF ExitTable, Checkpoint, CheckpointPending, Kept, document, store
<1>2. run' \in Runs /\ run'.pc \in Outside
  BY Goes, Leaves DEF ExitTable, Checkpoint, CheckpointPending, Outside, Pcs, PhaseInv, Types
<1> QED  BY <1>1, <1>2, OutsideStep

-----------------------------------------------------------------------------
(* The theorems *)

LEMMA PhaseInit == Init => PhaseInv
<1> SUFFICES ASSUME Init PROVE PhaseInv
  OBVIOUS
<1>1. contract \in Contracts /\ box = {} /\ obligations = {} /\ rows = [t \in Tasks |-> "NOT_STARTED"]
  BY DEF Init
<1>2. Length \in Nat /\ Tasks = 1..Length /\ \E i \in Tasks : contract.tasks[i] = "code_review"
  BY <1>1, TasksAre DEF Length, Tasks
<1>3. run \in Runs /\ run.pc = "idle"
  BY Stops DEF Init
<1>4. Types
  BY <1>1, <1>3 DEF Init, Types, RowStatuses
<1>5. Prefix
  <2>1. 0 \in 0..Length /\ box = 1..0
    BY <1>1, <1>2
  <2> QED  BY <2>1 DEF Prefix
<1>6. Untouched
  BY <1>1 DEF Untouched
<1>7. Gates /\ BlockedIsOpen
  BY DEF Init, Gates, BlockedIsOpen, Blocked, FixersTurn, None
<1>8. Fits(run)
  BY <1>3, FitsOutside DEF Outside
<1>9. Reviewed /\ CompletedIsDone
  BY <1>1, <1>2 DEF Init, Reviewed, ReviewTasks, CompletedIsDone
<1> QED  BY <1>4, <1>5, <1>6, <1>7, <1>8, <1>9 DEF PhaseInv

LEMMA PhaseStep == PhaseInv /\ [Next]_vars => PhaseInv'
<1> SUFFICES ASSUME PhaseInv, [Next]_vars PROVE PhaseInv'
  OBVIOUS
<1>1. CASE UNCHANGED vars
  <2>1. Kept /\ doc' = doc /\ run' = run
    BY <1>1 DEF vars, Kept, document, store
  <2> QED  BY <2>1, Control DEF PhaseInv, Types
<1>2. CASE Step
  BY <1>2, StepHandoff, StepPromote, StepReconciled, StepQueue, StepRows, StepEnter, StepBegin,
     StepBeginTable, StepBeginRow, StepWorker, StepRecord, StepCheckBox, StepFixerResponds,
     StepAnswersReport, StepFixerReceipt, StepMark, StepRouteReview, StepReviewer, StepReport, StepEvidence, StepExit,
     StepCheckpoint DEF Step
<1>3. CASE Next /\ ~Step
  BY <1>3, StepContinue, StepDies, StepRepeat, StepSettlementFails DEF Next
<1> QED  BY <1>1, <1>2, <1>3

LEMMA PhaseInvariant == Spec => []PhaseInv
BY PhaseInit, PhaseStep, PTL DEF Spec

(* The active task is the next open one: `begin`, which reads the rows,    *)
(* selects what planning, which reads the boxes, has routed, through every *)
(* death between a row and its box.                                        *)
THEOREM BegunTaskIsNext == Spec => []BegunIsNext
<1>1. PhaseInv => BegunIsNext
  BY DEF PhaseInv, Fits, BegunPcs, BegunIsNext
<1> QED  BY <1>1, PhaseInvariant, PTL

(* A COMPLETED phase has a durable approval, or deferred its review task,  *)
(* on each of the paths that mark a phase COMPLETED.                       *)
THEOREM CompletionNeedsApproval == Spec => []CompletedIsApproved
<1>1. PhaseInv => CompletedIsApproved
  BY DEF PhaseInv, CompletedIsDone, Reviewed, ReviewTasks, Approved, Deferred, CompletedIsApproved
<1> QED  BY <1>1, PhaseInvariant, PTL

(* A reviewer works only where no changes wait to be made or handed over:  *)
(* after a receipt, after an approval, or with nothing in the store,       *)
(* whatever the markers of a rerun say and wherever a run died.            *)
THEOREM ReviewAfterReceipt == Spec => []ReviewFollowsReceipt
<1>1. PhaseInv => ReviewFollowsReceipt
  BY DEF PhaseInv, Gates, Fits, Blocked, FixersTurn, ReviewFollowsReceipt, At, None
<1> QED  BY <1>1, PhaseInvariant, PTL
=============================================================================
