---------------------------- MODULE WorkflowProofs ----------------------------
(***************************************************************************)
(* Proofs about WorkflowRuns, for any set of run identifiers, any bounds   *)
(* and any decisions of the transitions.                                   *)
(***************************************************************************)
EXTENDS WorkflowRuns, TLAPS

-----------------------------------------------------------------------------
(* The inductive invariant *)

(* Only the run whose turn it is stands between two synchronous steps. *)
OneTurn == \A r \in RunIds : runs[r].pc \in InTurn => turn = r

(* Requests name runs that execute. None names a run that has not given up *)
(* control yet, and the row of a cancelled run does not say running.       *)
Fresh == {"starting", "moved", "begun", "completed"}
Requests ==
  /\ cancelReq \subseteq LiveRuns
  /\ \A r \in cancelReq :
       runs[r].pc \notin Fresh /\ row # [run |-> r, status |-> "running"]

(* A run that has returned from its loop has just written its row. *)
Returned ==
  \A r \in RunIds : runs[r].pc = "completed" =>
    row = [run |-> r, status |-> "completed"] /\ runs[r].retry = 0

(* In its first attempt a run remembers evidence that is at least as old   *)
(* as itself: every successor so far was paid for before it.               *)
Looping == {"yield", "worker", "deciding", "completed"}
Remembers ==
  /\ \A r \in RunIds : runs[r].before <= evidence
  /\ ~late => \A r \in RunIds :
       (runs[r].pc \in Looping /\ ~Cancelled(r) /\ runs[r].retry = 0)
         => succ <= runs[r].before

WorkflowInv ==
  /\ TypeOK
  /\ OneTurn /\ Requests /\ Returned /\ Remembers
  /\ RunningRowIsLive /\ LiveRunOwnsRow /\ WorksInProgress /\ SuccessorsBounded

-----------------------------------------------------------------------------
(* What the steps of a run have in common, all but the scheduler's, which  *)
(* starts another run.                                                     *)
Row(r) ==
  LET pc == runs'[r].pc IN
  \/ \E status \in Statuses \ {"none"} :
       /\ Write(r, status)
       /\ pc \notin {"idle", "completed"} => status = "running"
       /\ pc = "completed" => status = "completed"
       /\ status = "running" => pc # "idle" /\ ~Cancelled(r)
  \/ /\ row' = row /\ pc # "completed"
     /\ late' = late \/ late' = (late \/ Cancelled(r))
     /\ orphaned' = orphaned \/ orphaned' = TRUE
     /\ pc = "idle" => orphaned' \/ row # [run |-> r, status |-> "running"]

Place(r) ==
  LET pc == runs'[r].pc IN
  \/ stage' = "in_progress"
  \/ stage' = stage /\ (pc \notin {"idle", "rolledback"} =>
                          pc # "starting" /\ runs[r].pc \notin {"starting", "rolledback"})
  \/ stage' = "ready" /\ pc = "rolledback" /\ turn = NoRun /\ late' = (late \/ Cancelled(r))

Memory(r) ==
  /\ runs'[r].before <= evidence'
  /\ (runs'[r].pc \in Looping /\ runs'[r].retry = 0) =>
       \/ runs'[r].before = evidence'
       \/ /\ runs'[r].before = runs[r].before
          /\ runs[r].retry = 0 /\ runs[r].pc \in Looping

SecondAttempt(r) == runs'[r] = [runs[r] EXCEPT !.second = TRUE]

Ran(r) ==
  /\ up /\ Live(r) /\ turn \in {r, NoRun}
  /\ runs' = [runs EXCEPT ![r] = runs'[r]] /\ runs'[r] \in Run
  /\ cancelReq' = IF runs'[r].pc = "idle" THEN cancelReq \ {r} ELSE cancelReq
  /\ turn' = IF runs'[r].pc \in InTurn THEN r ELSE NoRun
  /\ UNCHANGED <<up, crashes, succ>>
  /\ evidence' \in evidence..MaxEvidence /\ resolved' \in BOOLEAN
  /\ runs'[r].pc \in Fresh => ~Cancelled(r)
  /\ runs[r].pc = "completed" => runs'[r].pc = "idle"
  /\ runs'[r].pc = "completed" => runs'[r].retry = 0
  /\ Cancelled(r) /\ StartsWorker(r) => SecondAttempt(r)
  /\ Row(r) /\ Place(r) /\ Memory(r)

-----------------------------------------------------------------------------
LEMMA RunOfOthers ==
  ASSUME WorkflowInv, NEW r \in RunIds, Ran(r), NEW s \in RunIds, s # r
  PROVE  runs'[s] = runs[s] /\ (s \in cancelReq' <=> s \in cancelReq) /\ (Live(s)' <=> Live(s))
BY DEF WorkflowInv, TypeOK, Ran, Live

(* What a step of a run may write to the row. *)
LEMMA RowCases ==
  ASSUME NEW r \in RunIds, Ran(r), row' # row
  PROVE  \E status \in Statuses \ {"none"} :
           /\ row' = [run |-> r, status |-> status]
           /\ runs'[r].pc \notin {"idle", "completed"} => status = "running"
           /\ runs'[r].pc = "completed" => status = "completed"
           /\ status = "running" => runs'[r].pc # "idle" /\ ~Cancelled(r)
BY Zenon DEF Ran, Row, Write

(* A step that ends the run does not leave it running in the row, unless   *)
(* orphaned; and the row of another run is left alone.                     *)
LEMMA RowEnds ==
  ASSUME NEW r \in RunIds, Ran(r)
  PROVE  /\ runs'[r].pc = "completed" => row' = [run |-> r, status |-> "completed"]
         /\ runs'[r].pc = "idle" => orphaned' \/ row' # [run |-> r, status |-> "running"]
         /\ row'.run # r /\ ~orphaned' => row' = row /\ ~orphaned
         /\ ~late' => ~late
<1>1. CASE /\ row' = row /\ runs'[r].pc # "completed"
           /\ late' = late \/ late' = (late \/ Cancelled(r))
           /\ orphaned' = orphaned \/ orphaned' = TRUE
           /\ runs'[r].pc = "idle" => orphaned' \/ row # [run |-> r, status |-> "running"]
  <2>1. ~orphaned' => ~orphaned
    BY <1>1
  <2>2. ~late' => ~late
    BY <1>1
  <2>3. runs'[r].pc = "idle" => orphaned' \/ row' # [run |-> r, status |-> "running"]
    BY <1>1
  <2> QED
    BY <1>1, <2>1, <2>2, <2>3
<1>2. ASSUME NEW status, Write(r, status), runs'[r].pc = "completed" => status = "completed",
             status = "running" => runs'[r].pc # "idle"
      PROVE  /\ runs'[r].pc = "completed" => row' = [run |-> r, status |-> "completed"]
             /\ runs'[r].pc = "idle" => row' # [run |-> r, status |-> "running"]
             /\ row'.run = r
             /\ ~late' => ~late
  <2>1. row' = [run |-> r, status |-> status]
    BY <1>2 DEF Write
  <2>2. ~late' => ~late
    BY <1>2, Zenon DEF Write
  <2> QED
    BY <1>2, <2>1, <2>2
<1> QED
  BY <1>1, <1>2, Zenon DEF Ran, Row

(* A step of a run keeps the types, the turn and the requests. *)
LEMMA RanKeepsControl ==
  ASSUME WorkflowInv, NEW r \in RunIds, Ran(r)
  PROVE  TypeOK' /\ OneTurn' /\ Requests' /\ Returned'
<1> USE DEF WorkflowInv
<1>1. runs' \in [RunIds -> Run] /\ runs'[r] \in Run
  BY DEF Ran, TypeOK
<1>2. r # NoRun
  BY RunIdsAreNumbers DEF NoRun
<1>3. row' \in [run : RunIds \cup {NoRun}, status : Statuses]
  BY RowCases DEF TypeOK
<1>4. late' \in BOOLEAN /\ orphaned' \in BOOLEAN
  BY Zenon DEF Ran, Row, Write, TypeOK
<1>5. evidence' \in 0..MaxEvidence
  BY BoundsAreNaturals DEF Ran, TypeOK
<1>6. cancelReq' \subseteq RunIds
  BY DEF Ran, TypeOK
<1>7. stage' \in {"ready", "in_progress"}
  BY DEF Ran, Place, TypeOK
<1>8. turn' \in RunIds \cup {NoRun} /\ (turn' # NoRun => runs'[turn'].pc \in InTurn)
  BY DEF Ran
<1>9. up' = TRUE /\ up' \in BOOLEAN
  BY Zenon DEF Ran, TypeOK
<1>10. TypeOK'
  BY <1>1, <1>3, <1>4, <1>5, <1>6, <1>7, <1>8, <1>9 DEF Ran, TypeOK
<1>11. OneTurn'
  <2> SUFFICES ASSUME NEW s \in RunIds, runs'[s].pc \in InTurn PROVE turn' = s
    BY DEF OneTurn
  <2>1. CASE s = r
    BY <2>1 DEF Ran
  <2>2. CASE s # r
    <3>1. turn = s
      BY <2>2, RunOfOthers DEF OneTurn
    <3> QED
      BY <2>2, <3>1, RunIdsAreNumbers DEF Ran, NoRun
  <2> QED
    BY <2>1, <2>2
<1>12. Requests'
  <2> SUFFICES ASSUME NEW s \in cancelReq'
               PROVE  /\ s \in RunIds /\ runs'[s].pc # "idle"
                      /\ runs'[s].pc \notin Fresh
                      /\ row' # [run |-> s, status |-> "running"]
    BY DEF Requests, LiveRuns, Live
  <2>1. s \in cancelReq /\ s \in RunIds
    BY DEF Ran, TypeOK
  <2>2. runs[s].pc # "idle" /\ runs[s].pc \notin Fresh
        /\ row # [run |-> s, status |-> "running"]
    BY <2>1 DEF Requests, LiveRuns, Live
  <2>3. runs'[s].pc # "idle" /\ runs'[s].pc \notin Fresh
    <3>1. CASE s = r
      BY <2>1, <3>1 DEF Ran, Cancelled
    <3>2. CASE s # r
      BY <2>1, <2>2, <3>2, RunOfOthers
    <3> QED
      BY <3>1, <3>2
  <2>4. row' # [run |-> s, status |-> "running"]
    BY <2>1, <2>2, RowCases DEF Cancelled
  <2> QED
    BY <2>1, <2>3, <2>4
<1>13. Returned'
  <2> SUFFICES ASSUME NEW s \in RunIds, runs'[s].pc = "completed"
               PROVE  row' = [run |-> s, status |-> "completed"] /\ runs'[s].retry = 0
    BY DEF Returned
  <2>1. s = r
    <3> SUFFICES ASSUME s # r PROVE FALSE
      OBVIOUS
    <3>1. turn' = s
      BY <1>11 DEF OneTurn, InTurn
    <3> QED
      BY <3>1, RunIdsAreNumbers DEF Ran, NoRun
  <2> QED
    BY <2>1, RowEnds DEF Ran
<1> QED
  BY <1>10, <1>11, <1>12, <1>13

(* A step of a run keeps the card in the hands of its owner. *)
LEMMA RanKeepsRow ==
  ASSUME WorkflowInv, NEW r \in RunIds, Ran(r)
  PROVE  RunningRowIsLive' /\ LiveRunOwnsRow'
<1> USE DEF WorkflowInv
<1>1. RunningRowIsLive'
  <2> SUFFICES ASSUME row'.status = "running", ~orphaned'
               PROVE  Live(row.run)'
    BY DEF RunningRowIsLive
  <2>0. row' \in [run : RunIds \cup {NoRun}, status : Statuses]
    BY RanKeepsControl DEF TypeOK
  <2>1. CASE row'.run = r
    <3>1. row' = [run |-> r, status |-> "running"]
      BY <2>0, <2>1
    <3>2. runs'[r].pc # "idle"
      BY <3>1, RowEnds
    <3> QED
      BY <2>1, <3>2 DEF Live
  <2>2. CASE row'.run # r
    <3>1. row' = row /\ ~orphaned
      BY <2>2, RowEnds
    <3>2. Live(row.run)
      BY <3>1 DEF RunningRowIsLive
    <3>3. row.run \in RunIds
      BY <3>2 DEF Live
    <3> QED
      BY <2>2, <3>1, <3>2, <3>3, RunOfOthers DEF Live
  <2> QED
    BY <2>1, <2>2
<1>2. LiveRunOwnsRow'
  <2> SUFFICES ASSUME ~late', NEW s \in RunIds, Live(s)', ~Cancelled(s)',
                      runs'[s].pc # "completed"
               PROVE  row' = [run |-> s, status |-> "running"]
    BY DEF LiveRunOwnsRow
  <2>1. ~late
    BY RowEnds
  <2>2. CASE s = r
    <3>1. ~Cancelled(r) /\ runs'[r].pc # "idle"
      BY <2>2 DEF Ran, Cancelled, Live
    <3>2. runs[r].pc # "completed" => row = [run |-> r, status |-> "running"]
      BY <2>1, <3>1 DEF LiveRunOwnsRow, Ran
    <3>3. CASE row' = row
      BY <2>2, <3>1, <3>2, <3>3 DEF Ran, Fresh
    <3> QED
      BY <2>2, <3>1, <3>3, RowCases
  <2>3. CASE s # r
    <3>1. Live(s) /\ ~Cancelled(s) /\ runs[s].pc # "completed"
      BY <2>3, RunOfOthers DEF Cancelled
    <3>2. row = [run |-> s, status |-> "running"]
      BY <2>1, <3>1 DEF LiveRunOwnsRow
    <3>3. row' = row
      <4> SUFFICES ASSUME NEW status \in Statuses, Write(r, status) PROVE FALSE
        BY DEF Ran, Row
      <4>1. ~Cancelled(r)
        BY DEF Write
      <4>2. runs[r].pc = "completed"
        BY <2>1, <2>3, <3>2, <4>1 DEF LiveRunOwnsRow, Ran
      <4> QED
        BY <2>3, <3>2, <4>2 DEF Returned
    <3> QED
      BY <3>2, <3>3
  <2> QED
    BY <2>2, <2>3
<1> QED
  BY <1>1, <1>2

(* A step of a run moves the folder from under no other run. *)
LEMMA RanKeepsPlace ==
  ASSUME WorkflowInv, NEW r \in RunIds, Ran(r)
  PROVE  WorksInProgress'
<1> USE DEF WorkflowInv
<1> SUFFICES ASSUME ~late', NEW s \in RunIds, Live(s)', ~Cancelled(s)',
                    runs'[s].pc \notin {"starting", "rolledback"}, stage' # "in_progress"
             PROVE  FALSE
  BY DEF WorksInProgress
<1>1. ~late
  BY RowEnds
<1>2. CASE s = r
  <2>1. ~Cancelled(r) /\ runs'[r].pc # "idle"
    BY <1>2 DEF Ran, Cancelled, Live
  <2>2. stage' = stage /\ runs[r].pc \notin {"starting", "rolledback"}
    BY <1>2, <2>1 DEF Ran, Place
  <2> QED
    BY <1>1, <2>1, <2>2 DEF WorksInProgress, Ran
<1>3. CASE s # r
  <2>1. Live(s) /\ ~Cancelled(s) /\ runs[s].pc \notin {"starting", "rolledback"}
    BY <1>3, RunOfOthers DEF Cancelled
  <2>2. stage = "in_progress"
    BY <1>1, <2>1 DEF WorksInProgress
  <2>3. turn = NoRun /\ late' = (late \/ Cancelled(r))
    BY <2>2 DEF Ran, Place
  <2>4. ~Cancelled(r)
    BY <2>3
  <2>5. \A u \in RunIds : runs[u].pc # "completed"
    BY <2>3, RunIdsAreNumbers DEF OneTurn, InTurn, NoRun
  <2>6. row = [run |-> s, status |-> "running"] /\ row = [run |-> r, status |-> "running"]
    BY <1>1, <2>1, <2>4, <2>5 DEF LiveRunOwnsRow, Ran
  <2> QED
    BY <1>3, <2>6
<1> QED
  BY <1>2, <1>3

(* A step of a run keeps the account of successors. *)
LEMMA RanKeepsMemory ==
  ASSUME WorkflowInv, NEW r \in RunIds, Ran(r)
  PROVE  Remembers' /\ SuccessorsBounded'
<1> USE DEF WorkflowInv
<1>1. ~late' => ~late
  BY RowEnds
<1>2. evidence \in Nat /\ evidence' \in Nat /\ evidence <= evidence' /\ succ' = succ /\ succ \in Nat
  BY BoundsAreNaturals DEF Ran, TypeOK
<1>3. ~late' => succ <= evidence
  BY <1>1 DEF SuccessorsBounded
<1>4. \A s \in RunIds : runs[s].before \in Nat
  BY BoundsAreNaturals DEF TypeOK, Run
<1>5. SuccessorsBounded'
  BY <1>2, <1>3 DEF SuccessorsBounded
<1>6. ASSUME NEW s \in RunIds PROVE runs'[s].before <= evidence'
  <2>1. CASE s = r
    BY <2>1 DEF Ran, Memory
  <2>2. CASE s # r
    <3>1. runs'[s].before = runs[s].before /\ runs[s].before <= evidence
      BY <2>2, RunOfOthers DEF Remembers
    <3> QED
      BY <1>2, <1>4, <3>1
  <2> QED
    BY <2>1, <2>2
<1>7. ASSUME ~late', NEW s \in RunIds, runs'[s].pc \in Looping, ~Cancelled(s)', runs'[s].retry = 0
      PROVE  succ' <= runs'[s].before
  <2>1. CASE s = r
    <3>1. ~Cancelled(r)
      BY <1>7, <2>1 DEF Ran, Cancelled, Looping
    <3>2. CASE runs'[r].before = evidence'
      BY <1>2, <1>3, <1>7, <2>1, <3>2
    <3>3. CASE runs'[r].before = runs[r].before /\ runs[r].retry = 0 /\ runs[r].pc \in Looping
      BY <1>1, <1>2, <1>7, <2>1, <3>1, <3>3 DEF Remembers
    <3> QED
      BY <1>7, <2>1, <3>2, <3>3 DEF Ran, Memory
  <2>2. CASE s # r
    BY <1>1, <1>2, <1>7, <2>2, RunOfOthers DEF Remembers, Cancelled
  <2> QED
    BY <2>1, <2>2
<1> QED
  BY <1>5, <1>6, <1>7 DEF Remembers

LEMMA RanHolds ==
  ASSUME WorkflowInv, NEW r \in RunIds, Ran(r)
  PROVE  WorkflowInv'
BY RanKeepsControl, RanKeepsRow, RanKeepsPlace, RanKeepsMemory DEF WorkflowInv

-----------------------------------------------------------------------------
(* Every step of a run, the scheduler's hand-over apart, has that shape.   *)

(* What Ran asks of the memory of the run. *)
Shaped(r) == runs' = [runs EXCEPT ![r] = runs'[r]] /\ runs'[r] \in Run

LEMMA GotoShape ==
  ASSUME WorkflowInv, NEW r \in RunIds, NEW pc \in {"idle"} \cup Suspended \cup InTurn, Goto(r, pc)
  PROVE  /\ Shaped(r) /\ runs'[r].pc = pc /\ ~runs'[r].second
         /\ runs'[r].before = runs[r].before /\ runs'[r].retry = runs[r].retry
<1> DEFINE q == At(runs[r], pc)
<1>1. runs[r] \in Run /\ runs \in [RunIds -> Run] /\ runs' = [runs EXCEPT ![r] = q]
  BY DEF WorkflowInv, TypeOK, Goto
<1>2. /\ q \in Run /\ q.pc = pc /\ q.second = FALSE
      /\ q.before = runs[r].before /\ q.retry = runs[r].retry
  <2>1. CASE pc = "deciding"
    <3>1. q = [runs[r] EXCEPT !.pc = pc, !.second = FALSE]
      BY <2>1 DEF At
    <3> QED
      BY <1>1, <3>1 DEF Run
  <2>2. CASE pc # "deciding"
    <3>1. q = [Entering(pc, runs[r].auto) EXCEPT !.before = runs[r].before, !.retry = runs[r].retry]
      BY <2>2 DEF At
    <3>2. q = [pc |-> pc, auto |-> runs[r].auto, before |-> runs[r].before,
               retry |-> runs[r].retry, left |-> 0, second |-> FALSE, prev |-> NothingDecided]
      BY <3>1 DEF Entering
    <3> QED
      BY <1>1, <3>2, BoundsAreNaturals DEF Run
  <2> QED
    BY <2>1, <2>2
<1> HIDE DEF q
<1> QED
  BY <1>1, <1>2 DEF Shaped

LEMMA FinishShape ==
  ASSUME WorkflowInv, NEW r \in RunIds, Finish(r)
  PROVE  /\ Shaped(r) /\ runs'[r].pc = "idle" /\ ~runs'[r].second /\ runs'[r].before = 0
         /\ cancelReq' = cancelReq \ {r}
<1>1. NotRunning \in Run
  BY BoundsAreNaturals DEF NotRunning, Entering, Run
<1> QED
  BY <1>1 DEF WorkflowInv, TypeOK, Finish, Shaped, NotRunning, Entering

LEMMA WriteRow ==
  ASSUME NEW r \in RunIds, NEW status \in Statuses \ {"none"}, Write(r, status),
         runs'[r].pc \notin {"idle", "completed"} => status = "running",
         runs'[r].pc = "completed" => status = "completed",
         status = "running" => runs'[r].pc # "idle" /\ ~Cancelled(r)
  PROVE  Row(r)
BY Zenon DEF Row

(* The run that acts is known, and its place with it. *)
Acts(r) == up /\ Live(r) /\ turn \in {r, NoRun}
LEMMA ActsInTurn ==
  ASSUME WorkflowInv, NEW r \in RunIds, InTurnOf(r)
  PROVE  Acts(r) /\ turn = r /\ runs[r].pc \in InTurn
BY RunIdsAreNumbers DEF WorkflowInv, TypeOK, InTurnOf, InTurn, Live, NoRun, Acts
LEMMA ActsResumed ==
  ASSUME WorkflowInv, NEW r \in RunIds, NEW pc \in Suspended, Resumes(r, pc)
  PROVE  Acts(r) /\ turn = NoRun /\ runs[r].pc = pc
BY DEF Resumes, Live, Suspended, Working, Acts

(* Evidence and its resolution are as before, or moved on by a worker. *)
Worked == evidence' \in evidence..MaxEvidence /\ resolved' \in BOOLEAN
LEMMA FolderKept ==
  ASSUME WorkflowInv, UNCHANGED evidence, UNCHANGED resolved \/ resolved' = TRUE
  PROVE  Worked
<1>1. resolved' \in BOOLEAN
  BY Zenon DEF WorkflowInv, TypeOK
<1> QED
  BY <1>1, BoundsAreNaturals DEF WorkflowInv, TypeOK, Worked
LEMMA FolderWorked ==
  ASSUME WorkflowInv, WorkDone
  PROVE  Worked
<1>1. resolved' \in BOOLEAN
  BY Zenon DEF WorkDone, WorkflowInv, TypeOK
<1>2. evidence' = evidence \/ (evidence < MaxEvidence /\ evidence' = evidence + 1)
  BY Zenon DEF WorkDone
<1> QED
  BY <1>1, <1>2, BoundsAreNaturals DEF WorkflowInv, TypeOK, Worked

(* A step that ends its run. *)
LEMMA EndRan ==
  ASSUME WorkflowInv, NEW r \in RunIds, Acts(r), Worked,
         Finish(r), EndTurn, UNCHANGED <<stage, Proc, succ>>,
         \/ \E status \in Statuses \ {"none", "running"} : Write(r, status)
         \/ /\ row' = row /\ late' = late
            /\ orphaned' = orphaned \/ orphaned' = TRUE
            /\ orphaned' \/ row # [run |-> r, status |-> "running"]
  PROVE  Ran(r)
<1>1. /\ Shaped(r) /\ runs'[r].pc = "idle" /\ ~runs'[r].second /\ runs'[r].before = 0
      /\ cancelReq' = cancelReq \ {r}
  BY FinishShape
<1>2. Row(r)
  <2>1. ASSUME NEW status \in Statuses \ {"none", "running"}, Write(r, status) PROVE Row(r)
    BY <1>1, <2>1, WriteRow
  <2>2. CASE /\ row' = row /\ late' = late
             /\ orphaned' = orphaned \/ orphaned' = TRUE
             /\ orphaned' \/ row # [run |-> r, status |-> "running"]
    BY <1>1, <2>2, Zenon DEF Row
  <2> QED
    BY <2>1, <2>2
<1>3. Place(r) /\ Memory(r)
  BY <1>1, BoundsAreNaturals DEF Place, Memory, Looping, Worked, WorkflowInv, TypeOK
<1>4. ~StartsWorker(r)
  BY <1>1 DEF StartsWorker, Working
<1> QED
  BY <1>1, <1>2, <1>3, <1>4 DEF Ran, Shaped, EndTurn, Proc, InTurn, Fresh, Acts, Worked

(* A step that takes its run to another place. *)
LEMMA GotoRan ==
  ASSUME WorkflowInv, NEW r \in RunIds, Acts(r), Worked,
         NEW pc \in (Suspended \cup InTurn) \ {"completed"}, Goto(r, pc),
         runs[r].pc # "completed", Row(r), Place(r),
         turn' = IF pc \in InTurn THEN r ELSE NoRun, UNCHANGED <<cancelReq, Proc, succ>>,
         pc \in Fresh \cup Working => ~Cancelled(r),
         pc \in Looping => runs[r].pc \in Looping
  PROVE  Ran(r)
<1>1. /\ Shaped(r) /\ runs'[r].pc = pc /\ ~runs'[r].second
      /\ runs'[r].before = runs[r].before /\ runs'[r].retry = runs[r].retry
  BY GotoShape
<1>2. Memory(r)
  <2>1. runs[r].before <= evidence /\ runs[r].before \in Nat
    BY BoundsAreNaturals DEF WorkflowInv, TypeOK, Remembers, Run
  <2> QED
    BY <1>1, <2>1, BoundsAreNaturals DEF Memory, Worked, WorkflowInv, TypeOK
<1>3. pc # "idle"
  BY DEF Suspended, Working, InTurn
<1>4. Cancelled(r) => ~StartsWorker(r)
  BY <1>1 DEF StartsWorker
<1> QED
  BY <1>1, <1>2, <1>3, <1>4 DEF Ran, Shaped, Proc, Fresh, Acts, Worked

(* A step that begins a pass through the phase queue. *)
LEMMA LoopRan ==
  ASSUME WorkflowInv, NEW r \in RunIds, Acts(r), Worked, NEW n \in 0..MaxRetries,
         NEW b \in 0..MaxEvidence,
         runs' = [runs EXCEPT ![r] = [EnterLoop(r, runs[r]) EXCEPT !.retry = n, !.before = b]],
         b = evidence' \/ (b = 0 /\ n > 0),
         runs[r].pc \notin {"starting", "rolledback", "completed"},
         ~Cancelled(r), Write(r, "running"), EndTurn, UNCHANGED <<stage, cancelReq, Proc, succ>>
  PROVE  Ran(r)
<1> DEFINE pc == IF runs[r].auto THEN "yield" ELSE "worker"
<1>1. Shaped(r) /\ runs'[r].pc = pc /\ runs'[r].before = b /\ runs'[r].retry = n
  <2>1. runs[r] \in Run /\ runs \in [RunIds -> Run]
    BY DEF WorkflowInv, TypeOK
  <2>2. EnterLoop(r, runs[r]) =
          [runs[r] EXCEPT !.pc = pc, !.left = MaxSteps, !.second = FALSE, !.prev = NothingDecided]
    BY Zenon DEF EnterLoop
  <2>3. pc \in Suspended
    BY DEF Suspended, Working
  <2> HIDE DEF pc
  <2> DEFINE e == EnterLoop(r, runs[r])
             q == [e EXCEPT !.retry = n, !.before = b]
  <2>4. MaxSteps \in 0..MaxSteps /\ NothingDecided \in Decided \cup {NothingDecided}
    BY BoundsAreNaturals
  <2>5. e \in Run /\ e.pc = pc
    BY <2>1, <2>2, <2>3, <2>4 DEF Run
  <2>6. runs' = [runs EXCEPT ![r] = q]
    OBVIOUS
  <2> HIDE DEF e
  <2>7. q \in Run /\ q.pc = pc /\ q.before = b /\ q.retry = n
    BY <2>5 DEF Run
  <2> HIDE DEF q
  <2> QED
    BY <2>1, <2>6, <2>7 DEF Shaped
<1>2. pc \in {"yield", "worker"}
  OBVIOUS
<1> HIDE DEF pc
<1>3. Row(r)
  BY <1>1, <1>2, WriteRow DEF Statuses
<1>4. Place(r) /\ Memory(r)
  BY <1>1, <1>2, BoundsAreNaturals DEF Place, Memory, Worked, WorkflowInv, TypeOK
<1> QED
  BY <1>1, <1>2, <1>3, <1>4 DEF Ran, Shaped, EndTurn, Proc, InTurn, Fresh, Acts, Worked

(* The same for a first attempt, which only remembers the evidence. *)
LEMMA EnterRan ==
  ASSUME WorkflowInv, NEW r \in RunIds, Acts(r), Worked,
         runs' = [runs EXCEPT ![r] = [EnterLoop(r, runs[r]) EXCEPT !.before = evidence']],
         runs[r].pc \notin {"starting", "rolledback", "completed"},
         ~Cancelled(r), Write(r, "running"), EndTurn, UNCHANGED <<stage, cancelReq, Proc, succ>>
  PROVE  Ran(r)
<1> DEFINE e == EnterLoop(r, runs[r])
           n == runs[r].retry
<1>1. runs[r] \in Run /\ n \in 0..MaxRetries /\ evidence' \in 0..MaxEvidence
  BY BoundsAreNaturals DEF WorkflowInv, TypeOK, Run, Worked
<1>2. e.retry = n
  BY <1>1 DEF EnterLoop, Run
<1>3. [e EXCEPT !.before = evidence'] = [e EXCEPT !.retry = n, !.before = evidence']
  BY <1>1, <1>2
<1> QED
  BY <1>1, <1>3, LoopRan

LEMMA NoWriteRow ==
  ASSUME NEW r \in RunIds, NoWrite, runs'[r].pc \notin {"idle", "completed"}
  PROVE  Row(r)
BY Zenon DEF Row, NoWrite

LEMMA RecordRow ==
  ASSUME NEW r \in RunIds, RecordPhaseFailure(r), runs'[r].pc \notin {"idle", "completed"}
  PROVE  Row(r)
<1>1. CASE NoWrite
  BY <1>1, NoWriteRow
<1>2. CASE ~Cancelled(r) /\ Write(r, "running")
  BY <1>2, WriteRow DEF Statuses
<1> QED
  BY <1>1, <1>2, Zenon DEF RecordPhaseFailure

(* Runs before their first suspension were not cancelled. *)
LEMMA FreshIsActive ==
  ASSUME WorkflowInv, NEW r \in RunIds, runs[r].pc \in Fresh
  PROVE  ~Cancelled(r)
BY DEF WorkflowInv, Requests, Cancelled

(* The error of a cancelled run writes nothing. *)
LEMMA CancelExitRan ==
  ASSUME WorkflowInv, NEW r \in RunIds, Acts(r), Worked, CancelExit(r),
         UNCHANGED <<stage, Proc, succ>>
  PROVE  Ran(r)
<1>1. row # [run |-> r, status |-> "running"]
  BY DEF CancelExit, Cancelled, WorkflowInv, Requests
<1>2. row' = row /\ late' = late /\ orphaned' = orphaned
  BY DEF CancelExit, NoWrite
<1> QED
  BY <1>1, <1>2, EndRan DEF CancelExit

LEMMA StartSteps ==
  ASSUME WorkflowInv, NEW r \in RunIds,
         \/ StartFails(r) \/ MoveInProgress(r) \/ CompleteTransition(r)
         \/ DispatchPostProcess(r)
  PROVE  Ran(r)
<1>0. InTurnOf(r) /\ runs[r].pc \in {"starting", "moved"} /\ UNCHANGED <<evidence, resolved, Proc, succ>>
  BY DEF StartFails, MoveInProgress, CompleteTransition, DispatchPostProcess, Folder
<1>1. Acts(r) /\ ~Cancelled(r) /\ Worked
  BY <1>0, ActsInTurn, FreshIsActive, FolderKept DEF Fresh
<1>2. CASE StartFails(r)
  BY <1>1, <1>2, EndRan DEF StartFails, Folder, Statuses
<1>3. CASE MoveInProgress(r)
  <2>1. runs'[r].pc = "moved"
    BY <1>3, GotoShape DEF MoveInProgress, InTurn
  <2>2. Row(r) /\ Place(r)
    BY <1>3, <2>1, NoWriteRow DEF MoveInProgress, Place
  <2> QED
    BY <1>0, <1>1, <1>3, <2>2, GotoRan DEF MoveInProgress, InTurn, KeepTurn, Looping, Working
<1>4. CASE CompleteTransition(r)
  BY <1>1, <1>4, EndRan DEF CompleteTransition, Folder, Statuses
<1>5. CASE DispatchPostProcess(r)
  <2>1. runs'[r].pc = "postprocess"
    BY <1>5, GotoShape DEF DispatchPostProcess, Suspended, Working
  <2>2. Row(r)
    BY <1>1, <1>5, <2>1, WriteRow DEF DispatchPostProcess, Statuses
  <2>3. Place(r)
    BY <1>5, <2>1 DEF DispatchPostProcess, Place, Folder
  <2> QED
    BY <1>0, <1>1, <1>5, <2>2, <2>3, GotoRan
    DEF DispatchPostProcess, InTurn, Suspended, Working, EndTurn, Looping, Fresh
<1> QED
  BY <1>2, <1>3, <1>4, <1>5

LEMMA PostProcessSteps ==
  ASSUME WorkflowInv, NEW r \in RunIds, PostProcessReturns(r) \/ PostProcessFails(r)
  PROVE  Ran(r)
<1>0. Resumes(r, "postprocess") /\ UNCHANGED <<Proc, succ>>
  BY DEF PostProcessReturns, PostProcessFails
<1>1. Acts(r) /\ turn = NoRun /\ runs[r].pc = "postprocess"
  BY <1>0, ActsResumed DEF Suspended, Working
<1>2. CASE PostProcessReturns(r)
  <2>1. Worked /\ stage' = stage
    BY <1>2, FolderWorked DEF PostProcessReturns
  <2>2. CASE CancelExit(r)
    BY <1>0, <1>1, <2>1, <2>2, CancelExitRan
  <2>3. CASE ~CancelExit(r)
    <3>1. /\ ~Cancelled(r) /\ Write(r, "running") /\ EndTurn /\ UNCHANGED cancelReq
          /\ runs' = [runs EXCEPT ![r] = [EnterLoop(r, runs[r]) EXCEPT !.before = evidence']]
      BY <1>2, <2>3 DEF PostProcessReturns
    <3> QED
      BY <1>0, <1>1, <2>1, <3>1, EnterRan
  <2> QED
    BY <2>2, <2>3
<1>3. CASE PostProcessFails(r)
  <2>1. runs'[r].pc = "rolledback"
    BY <1>3, GotoShape DEF PostProcessFails, InTurn
  <2>2. Row(r)
    BY <1>3, <2>1, Zenon DEF PostProcessFails, Row
  <2>3. Place(r)
    BY <1>1, <1>3, <2>1, Zenon DEF PostProcessFails, Place
  <2>4. Worked
    BY <1>3, FolderWorked DEF PostProcessFails
  <2> QED
    BY <1>0, <1>1, <1>3, <2>2, <2>3, <2>4, GotoRan
    DEF PostProcessFails, InTurn, KeepTurn, Looping, Fresh, Working
<1> QED
  BY <1>2, <1>3

LEMMA BeginSteps ==
  ASSUME WorkflowInv, NEW r \in RunIds, BeginTerminal(r) \/ BeginLoop(r) \/ BeginFails(r)
  PROVE  Ran(r)
<1>0. InTurnOf(r) /\ runs[r].pc = "begun" /\ UNCHANGED <<stage, evidence, Proc, succ>>
  BY DEF BeginTerminal, BeginLoop, BeginFails, Folder
<1>1. Acts(r) /\ ~Cancelled(r)
  BY <1>0, ActsInTurn, FreshIsActive DEF Fresh
<1>2. Worked
  BY <1>0, FolderKept, Zenon DEF BeginTerminal, BeginLoop, BeginFails, Folder
<1>3. CASE BeginTerminal(r)
  BY <1>0, <1>1, <1>2, <1>3, EndRan DEF BeginTerminal, Statuses
<1>4. CASE BeginLoop(r)
  BY <1>0, <1>1, <1>2, <1>4, EnterRan DEF BeginLoop
<1>5. CASE BeginFails(r)
  <2>1. runs'[r].pc = "failed"
    BY <1>5, GotoShape DEF BeginFails, InTurn
  <2>2. Row(r) /\ Place(r)
    BY <1>0, <1>5, <2>1, NoWriteRow DEF BeginFails, Place
  <2> QED
    BY <1>0, <1>1, <1>2, <1>5, <2>2, GotoRan DEF BeginFails, InTurn, KeepTurn, Looping, Fresh, Working
<1> QED
  BY <1>3, <1>4, <1>5

(* Steps that set `left`, or `left` and the circuit, beside the place. *)
LEMMA StepInLoop ==
  ASSUME WorkflowInv, NEW r \in RunIds, InTurnOf(r), runs[r].pc = "deciding",
         NEW pc \in {"yield", "worker"}, NEW l \in 0..MaxSteps,
         NEW d \in Decided \cup {NothingDecided},
         runs' = [runs EXCEPT ![r].pc = pc, ![r].left = l, ![r].prev = d],
         pc = "worker" => ~Cancelled(r),
         \/ NoWrite
         \/ Write(r, "running") /\ ~Cancelled(r),
         EndTurn, UNCHANGED <<Folder, cancelReq, Proc, succ>>
  PROVE  Ran(r)
<1>1. Acts(r) /\ Worked /\ stage' = stage
  BY ActsInTurn, FolderKept DEF Folder
<1>2. /\ Shaped(r) /\ runs'[r].pc = pc /\ runs'[r].second = runs[r].second
      /\ runs'[r].before = runs[r].before /\ runs'[r].retry = runs[r].retry
  <2> DEFINE q == [runs[r] EXCEPT !.pc = pc, !.left = l, !.prev = d]
  <2>1. runs[r] \in Run /\ runs \in [RunIds -> Run]
    BY DEF WorkflowInv, TypeOK
  <2>2. /\ q \in Run /\ q.pc = pc /\ q.second = runs[r].second
        /\ q.before = runs[r].before /\ q.retry = runs[r].retry
    BY <2>1 DEF Run, Suspended, Working
  <2>3. runs' = [runs EXCEPT ![r] = q]
    BY <2>1
  <2> HIDE DEF q
  <2> QED
    BY <2>1, <2>2, <2>3 DEF Shaped
<1>3. Row(r)
  BY <1>2, NoWriteRow, WriteRow DEF Statuses
<1>4. Place(r)
  BY <1>1, <1>2 DEF Place
<1>5. Memory(r)
  <2>1. runs[r].before <= evidence' /\ runs[r].before \in Nat
    BY BoundsAreNaturals DEF WorkflowInv, TypeOK, Remembers, Run, Folder
  <2> QED
    BY <1>2, <2>1 DEF Memory, Looping
<1>6. Cancelled(r) => ~StartsWorker(r)
  BY <1>2 DEF StartsWorker, Working
<1> QED
  BY <1>1, <1>2, <1>3, <1>4, <1>5, <1>6 DEF Ran, Shaped, EndTurn, Proc, InTurn, Fresh, Acts, Worked

LEMMA DecidingSteps ==
  ASSUME WorkflowInv, NEW r \in RunIds,
         Dispatch(r) \/ Advance(r) \/ \E d \in Decisions : Repeat(r, d)
  PROVE  Ran(r)
<1>0. runs[r] \in Run /\ runs \in [RunIds -> Run]
  BY DEF WorkflowInv, TypeOK
<1>1. CASE Dispatch(r) \/ Advance(r)
  <2>1. InTurnOf(r) /\ runs[r].pc = "deciding" /\ runs[r].left - 1 \in 0..MaxSteps
    BY <1>0, <1>1, BoundsAreNaturals DEF Dispatch, Advance, Run
  <2>2. runs[r].prev \in Decided \cup {NothingDecided}
    BY <1>0 DEF Run
  <2>3. ASSUME NEW pc, runs' = [runs EXCEPT ![r].pc = pc, ![r].left = @ - 1]
        PROVE  runs' = [runs EXCEPT ![r].pc = pc, ![r].left = runs[r].left - 1,
                                    ![r].prev = runs[r].prev]
    BY <1>0, <2>3 DEF Run
  <2>4. CASE Dispatch(r)
    BY <2>1, <2>2, <2>3, <2>4, StepInLoop DEF Dispatch
  <2>5. CASE Advance(r)
    BY <2>1, <2>2, <2>3, <2>5, StepInLoop DEF Advance
  <2> QED
    BY <1>1, <2>4, <2>5
<1>2. ASSUME NEW d \in Decisions, Repeat(r, d) PROVE Ran(r)
  <2>0. InTurnOf(r) /\ runs[r].pc = "deciding" /\ UNCHANGED <<Folder, cancelReq, Proc, succ>>
    BY <1>2 DEF Repeat
  <2>1. CASE Observe(runs[r].prev, d)
    <3>1. [what |-> d, at |-> evidence] \in Decided
      BY DEF Decided, WorkflowInv, TypeOK
    <3>2. MaxSteps \in 0..MaxSteps
      BY BoundsAreNaturals
    <3> QED
      BY <1>2, <2>0, <2>1, <3>1, <3>2, StepInLoop DEF Repeat
  <2>2. CASE ~Observe(runs[r].prev, d)
    <3>0. Goto(r, "paused") /\ KeepTurn(r) /\ RecordPhaseFailure(r)
      BY <1>2, <2>2 DEF Repeat
    <3>1. runs'[r].pc = "paused" /\ Acts(r) /\ Worked
      BY <2>0, <3>0, GotoShape, ActsInTurn, FolderKept DEF InTurn, Folder
    <3>2. Row(r) /\ Place(r)
      BY <2>0, <3>0, <3>1, RecordRow DEF Place, Folder
    <3> QED
      BY <2>0, <3>0, <3>1, <3>2, GotoRan DEF InTurn, KeepTurn, Looping, Fresh, Working
  <2> QED
    BY <2>1, <2>2
<1> QED
  BY <1>1, <1>2

LEMMA YieldSteps ==
  ASSUME WorkflowInv, NEW r \in RunIds, Yield(r) \/ LoopCancelled(r)
  PROVE  Ran(r)
<1>0. UNCHANGED <<stage, evidence, resolved, Proc, succ>>
  BY DEF Yield, LoopCancelled, Folder
<1>1. Acts(r) /\ Worked /\ runs[r].pc \in {"yield", "deciding"}
  BY <1>0, ActsResumed, ActsInTurn, FolderKept DEF Yield, LoopCancelled, Suspended
<1>2. CASE CancelExit(r)
  BY <1>0, <1>1, <1>2, CancelExitRan
<1>3. CASE ~CancelExit(r)
  <2> DEFINE pc == IF Cancelled(r) THEN "failed" ELSE "deciding"
  <2>0. Goto(r, pc) /\ KeepTurn(r) /\ NoWrite /\ UNCHANGED cancelReq /\ runs[r].pc = "yield"
    BY <1>3 DEF Yield, LoopCancelled, Resumes
  <2>1. pc \in {"failed", "deciding"}
    OBVIOUS
  <2> HIDE DEF pc
  <2>2. runs'[r].pc = pc
    BY <2>0, <2>1, GotoShape DEF InTurn
  <2>3. Row(r) /\ Place(r)
    BY <1>0, <2>0, <2>1, <2>2, NoWriteRow DEF Place
  <2> QED
    BY <1>0, <1>1, <2>0, <2>1, <2>2, <2>3, GotoRan DEF InTurn, KeepTurn, Looping, Fresh, Working
<1> QED
  BY <1>2, <1>3

LEMMA WorkerSteps ==
  ASSUME WorkflowInv, NEW r \in RunIds, WorkerReturns(r) \/ WorkerFails(r) \/ LoopThrows(r)
  PROVE  Ran(r)
<1>0. UNCHANGED <<stage, cancelReq, Proc, succ>> /\ KeepTurn(r)
  BY DEF WorkerReturns, WorkerFails, LoopThrows, Folder
<1>1. Acts(r) /\ runs[r].pc \in {"worker", "deciding"}
  BY ActsResumed, ActsInTurn DEF WorkerReturns, WorkerFails, LoopThrows, Suspended, Working
<1>2. Worked
  BY FolderKept, FolderWorked DEF WorkerReturns, WorkerFails, LoopThrows, Folder
<1>3. PICK pc \in {"deciding", "failed"} : Goto(r, pc)
  BY DEF WorkerReturns, WorkerFails, LoopThrows
<1>4. runs'[r].pc = pc
  BY <1>3, GotoShape DEF InTurn
<1>5. Row(r) /\ Place(r)
  BY <1>0, <1>1, <1>4, NoWriteRow, RecordRow DEF WorkerReturns, WorkerFails, LoopThrows, Place
<1> QED
  BY <1>0, <1>1, <1>2, <1>3, <1>4, <1>5, GotoRan DEF InTurn, KeepTurn, Looping, Fresh, Working

LEMMA ReturnStep ==
  ASSUME WorkflowInv, NEW r \in RunIds, LoopReturns(r)
  PROVE  Ran(r)
<1>0. /\ InTurnOf(r) /\ runs[r].pc = "deciding" /\ UNCHANGED <<stage, evidence, resolved, Proc, succ>>
      /\ Write(r, "completed")
  BY DEF LoopReturns, Folder
<1>1. Acts(r) /\ Worked
  BY <1>0, ActsInTurn, FolderKept
<1>2. CASE runs[r].retry > 0
  BY <1>0, <1>1, <1>2, EndRan DEF LoopReturns, Statuses
<1>3. CASE ~(runs[r].retry > 0)
  <2>1. Goto(r, "completed") /\ KeepTurn(r) /\ UNCHANGED cancelReq /\ ~Cancelled(r)
    BY <1>3 DEF LoopReturns
  <2>2. /\ Shaped(r) /\ runs'[r].pc = "completed" /\ ~runs'[r].second
        /\ runs'[r].before = runs[r].before /\ runs'[r].retry = runs[r].retry
    BY <2>1, GotoShape DEF InTurn
  <2>3. Row(r)
    BY <1>0, <2>1, <2>2, WriteRow DEF Statuses
  <2>4. Place(r)
    BY <1>0, <2>2 DEF Place
  <2>5. runs[r].retry = 0 /\ runs[r].before <= evidence'
    BY <1>0, <1>3, BoundsAreNaturals DEF WorkflowInv, TypeOK, Run, Remembers
  <2>6. Memory(r)
    BY <1>0, <2>2, <2>5 DEF Memory, Looping
  <2>7. ~StartsWorker(r)
    BY <2>2 DEF StartsWorker, Working
  <2> QED
    BY <1>0, <1>1, <2>1, <2>2, <2>3, <2>4, <2>5, <2>6, <2>7
    DEF Ran, Shaped, KeepTurn, Proc, InTurn, Acts, Worked
<1> QED
  BY <1>2, <1>3

LEMMA RecoverySteps ==
  ASSUME WorkflowInv, NEW r \in RunIds,
         Retry(r) \/ AnalyzeFailure(r) \/ RecoveryEnds(r) \/ SettleFailed(r)
  PROVE  Ran(r)
<1>0. UNCHANGED <<stage, Proc, succ>>
  BY DEF Retry, AnalyzeFailure, RecoveryEnds, SettleFailed, Folder
<1>1. Acts(r) /\ runs[r].pc \in Unrecovered \cup {"recovering"}
  BY ActsResumed, ActsInTurn
  DEF Retry, AnalyzeFailure, RecoveryEnds, SettleFailed, Suspended, Working, Unrecovered
<1>6. Worked
  BY FolderKept, FolderWorked DEF Retry, AnalyzeFailure, RecoveryEnds, SettleFailed, Folder
<1>2. CASE Retry(r)
  <2> DEFINE e == EnterLoop(r, runs[r])
             n == runs[r].retry + 1
  <2>1. runs[r] \in Run /\ n \in 0..MaxRetries /\ n > 0 /\ 0 \in 0..MaxEvidence
    BY <1>2, BoundsAreNaturals DEF WorkflowInv, TypeOK, Run, Retry, Recoverable
  <2>2. e.retry + 1 = n
    BY <2>1 DEF EnterLoop, Run
  <2>3. runs' = [runs EXCEPT ![r] = [e EXCEPT !.retry = n, !.before = 0]]
    BY <1>2, <2>2 DEF Retry
  <2>4. runs[r].pc \in {"failed", "analyzed"} /\ ~Cancelled(r) /\ cancelReq' = cancelReq
        /\ Write(r, "running") /\ EndTurn
    BY <1>2 DEF Retry, Recoverable
  <2> HIDE DEF n
  <2> QED
    BY <1>0, <1>1, <1>6, <2>1, <2>3, <2>4, LoopRan
<1>3. CASE AnalyzeFailure(r)
  <2>1. runs'[r].pc = "recovering" /\ ~Cancelled(r) /\ runs[r].pc = "failed"
    BY <1>3, GotoShape DEF AnalyzeFailure, Suspended, Working, Recoverable
  <2>2. Row(r)
    BY <1>3, <2>1, WriteRow DEF AnalyzeFailure, Statuses
  <2>3. Place(r)
    BY <1>0, <2>1 DEF Place
  <2> QED
    BY <1>0, <1>3, <1>1, <1>6, <2>1, <2>2, <2>3, GotoRan
    DEF AnalyzeFailure, Suspended, Working, InTurn, EndTurn, Looping, Fresh
<1>4. CASE RecoveryEnds(r)
  <2>0. runs[r].pc = "recovering"
    BY <1>4 DEF RecoveryEnds, Resumes
  <2>1. PICK pc \in {"analyzed", "rolledback"} : Goto(r, pc)
    BY <1>4 DEF RecoveryEnds
  <2>2. runs'[r].pc = pc
    BY <2>1, GotoShape DEF InTurn
  <2>3. Row(r) /\ Place(r)
    BY <1>0, <1>4, <2>0, <2>2, NoWriteRow DEF RecoveryEnds, Place
  <2> QED
    BY <1>0, <1>1, <1>4, <1>6, <2>0, <2>1, <2>3, GotoRan
    DEF RecoveryEnds, InTurn, KeepTurn, Looping, Fresh, Working
<1>5. CASE SettleFailed(r)
  <2>0. Finish(r) /\ EndTurn
    BY <1>5 DEF SettleFailed
  <2>1. CASE \E status \in {"failed", "blocked"} : Write(r, status)
    BY <1>0, <1>1, <1>6, <2>0, <2>1, EndRan DEF Statuses
  <2>2. CASE orphaned' = (orphaned \/ row.run = r) /\ UNCHANGED <<row, late>>
    <3>1. orphaned \in BOOLEAN
      BY DEF WorkflowInv, TypeOK
    <3>2. CASE row.run = r
      <4>1. orphaned' = TRUE
        BY <2>2, <3>2, Zenon
      <4> QED
        BY <1>0, <1>1, <1>6, <2>0, <2>2, <4>1, EndRan
    <3>3. CASE row.run # r
      <4>1. orphaned' = orphaned
        BY <2>2, <3>1, <3>3
      <4>2. row # [run |-> r, status |-> "running"]
        BY <3>3
      <4> QED
        BY <1>0, <1>1, <1>6, <2>0, <2>2, <4>1, <4>2, EndRan
    <3> QED
      BY <3>2, <3>3
  <2> QED
    BY <1>5, <2>1, <2>2 DEF SettleFailed
<1> QED
  BY <1>2, <1>3, <1>4, <1>5

(* A worker invocation goes on to its second attempt. *)
LEMMA ReplaceStep ==
  ASSUME WorkflowInv, NEW r \in RunIds, Replace(r)
  PROVE  Ran(r)
<1> DEFINE q == [runs[r] EXCEPT !.second = TRUE]
<1>0. /\ up /\ turn = NoRun /\ runs[r].pc \in Working /\ NoWrite
      /\ UNCHANGED <<stage, cancelReq, turn, Proc, succ>>
      /\ runs' = [runs EXCEPT ![r] = q]
  BY DEF Replace
<1>1. runs[r] \in Run /\ runs \in [RunIds -> Run]
  BY DEF WorkflowInv, TypeOK
<1>2. q \in Run /\ q.pc = runs[r].pc /\ q.before = runs[r].before /\ q.retry = runs[r].retry
  BY <1>1 DEF Run
<1> HIDE DEF q
<1>3. /\ Shaped(r) /\ runs'[r].pc = runs[r].pc
      /\ runs'[r].before = runs[r].before /\ runs'[r].retry = runs[r].retry
      /\ runs'[r] = q
  BY <1>0, <1>1, <1>2 DEF Shaped
<1>4. Worked
  BY FolderWorked DEF Replace
<1>5. Row(r)
  BY <1>0, <1>3, NoWriteRow DEF Working
<1>6. Place(r)
  BY <1>0, <1>3 DEF Place, Working
<1>7. Memory(r)
  <2>1. runs[r].before <= evidence /\ runs[r].before \in Nat
    BY BoundsAreNaturals DEF WorkflowInv, TypeOK, Remembers, Run
  <2> QED
    BY <1>3, <1>4, <2>1, BoundsAreNaturals DEF Memory, Worked, WorkflowInv, TypeOK
<1>8. SecondAttempt(r)
  BY <1>3 DEF SecondAttempt, q
<1> QED
  BY <1>0, <1>3, <1>4, <1>5, <1>6, <1>7, <1>8
  DEF Ran, Shaped, Proc, InTurn, Fresh, Working, Worked, Live

LEMMA NotScheduledSteps ==
  ASSUME WorkflowInv, NEW r \in RunIds, NotScheduled(r) \/ ScheduleBlocked(r)
  PROVE  Ran(r)
<1>0. /\ UNCHANGED <<stage, evidence, resolved, Proc, succ>> /\ Finish(r) /\ EndTurn
      /\ InTurnOf(r) /\ runs[r].pc = "completed"
  BY DEF NotScheduled, ScheduleBlocked, Folder
<1>1. Acts(r) /\ Worked
  BY <1>0, ActsInTurn, FolderKept
<1>2. CASE NotScheduled(r)
  <2>1. row' = row /\ late' = late /\ orphaned' = orphaned
    BY <1>2 DEF NotScheduled, NoWrite
  <2>2. row # [run |-> r, status |-> "running"]
    BY <1>0 DEF WorkflowInv, Returned
  <2> QED
    BY <1>0, <1>1, <2>1, <2>2, EndRan
<1>3. CASE ScheduleBlocked(r)
  BY <1>0, <1>1, <1>3, EndRan DEF ScheduleBlocked, Statuses
<1> QED
  BY <1>2, <1>3

(* All steps of a run but the hand-over to a successor. *)
LEMMA StepShape ==
  ASSUME WorkflowInv, NEW r \in RunIds, RunStep(r)
  PROVE  Ran(r) \/ \E s \in RunIds : Schedule(r, s)
BY StartSteps, PostProcessSteps, BeginSteps, DecidingSteps, YieldSteps, WorkerSteps, ReturnStep,
   RecoverySteps, ReplaceStep, NotScheduledSteps DEF RunStep

-----------------------------------------------------------------------------
(* Steps that begin a run.                                                 *)

(* Before a run begins, no other executes under the card's name unless it  *)
(* was cancelled.                                                          *)
LEMMA NoOwner ==
  ASSUME WorkflowInv, ~late, NEW r \in RunIds, Live(r), ~Cancelled(r),
         row.status # "running"
  PROVE  runs[r].pc = "completed" /\ turn = r /\ row.run = r
BY DEF WorkflowInv, LiveRunOwnsRow, Returned, OneTurn, InTurn

(* A run r that was not executing begins at pc, the run old (r itself if   *)
(* there is none) ends with it.                                            *)
Begins(r, old, pc) ==
  /\ up /\ ~Live(r) /\ row.status # "running"
  /\ turn \in {old, NoRun} /\ (old # r => runs[old].pc = "completed")
  /\ pc \in {"starting", "begun"} /\ (pc = "begun" /\ ~late => stage = "in_progress")
  /\ runs'[r].pc = pc /\ runs'[r].before = 0 /\ runs'[r] \in Run
  /\ old # r => runs'[old].pc = "idle" /\ runs'[old].before = 0
  /\ runs' \in [RunIds -> Run]
  /\ \A s \in RunIds \ {r, old} : runs'[s] = runs[s]
  /\ row' = [run |-> r, status |-> "running"] /\ late' = late /\ orphaned' = FALSE
  /\ turn' = r
  /\ succ' \in Nat /\ (~late => succ' <= evidence)
  /\ UNCHANGED <<Folder, cancelReq, Proc>>

LEMMA BeginsHolds ==
  ASSUME WorkflowInv, NEW r \in RunIds, NEW old \in RunIds, NEW pc, Begins(r, old, pc)
  PROVE  WorkflowInv'
<1> USE DEF WorkflowInv
<1>0. r # NoRun /\ old # NoRun
  BY RunIdsAreNumbers DEF NoRun
<1>1. ASSUME NEW s \in RunIds, Live(s)'
      PROVE  s = r \/ (s \notin {r, old} /\ runs'[s] = runs[s] /\ Live(s))
  BY <1>1 DEF Begins, Live
<1>2. r \notin cancelReq /\ (old # r => old \notin cancelReq)
  BY DEF Begins, Requests, LiveRuns, Fresh
<1>3. TypeOK'
  <2>1. up' \in BOOLEAN /\ resolved' \in BOOLEAN /\ late' \in BOOLEAN /\ orphaned' \in BOOLEAN
    BY Zenon DEF Begins, TypeOK, Folder, Proc
  <2>2. up' /\ turn' = r /\ runs'[r].pc \in InTurn
    BY Zenon DEF Begins, Proc, InTurn
  <2> QED
    BY <2>1, <2>2 DEF Begins, TypeOK, Folder, Proc, Statuses
<1>4. OneTurn'
  <2> SUFFICES ASSUME NEW s \in RunIds, runs'[s].pc \in InTurn PROVE s = r
    BY DEF OneTurn, Begins
  <2>1. CASE s \notin {r, old}
    BY <2>1, RunIdsAreNumbers DEF Begins, OneTurn, NoRun
  <2>2. CASE s = old /\ old # r
    BY <2>2 DEF Begins, InTurn
  <2> QED
    BY <2>1, <2>2
<1>5. Requests'
  <2> SUFFICES ASSUME NEW s \in cancelReq
               PROVE  /\ s \in RunIds /\ runs'[s].pc # "idle" /\ runs'[s].pc \notin Fresh
                      /\ s # r
    BY DEF Requests, LiveRuns, Live, Begins
  <2>1. s \in RunIds /\ runs[s].pc # "idle" /\ runs[s].pc \notin Fresh
    BY DEF Requests, LiveRuns, Live
  <2>2. s \notin {r, old}
    BY <1>2
  <2> QED
    BY <2>1, <2>2 DEF Begins
<1>6. Returned'
  <2> SUFFICES ASSUME NEW s \in RunIds, runs'[s].pc = "completed" PROVE FALSE
    BY DEF Returned
  <2>1. s = r
    BY <1>4 DEF OneTurn, Begins, InTurn
  <2> QED
    BY <2>1 DEF Begins
<1>7. RunningRowIsLive'
  BY DEF Begins, RunningRowIsLive, Live
<1>8. ASSUME ~late', NEW s \in RunIds, Live(s)', ~Cancelled(s)'
      PROVE  s = r
  <2> SUFFICES ASSUME s # r PROVE FALSE
    OBVIOUS
  <2>1. ~late /\ Live(s) /\ ~Cancelled(s) /\ s # old
    BY <1>1, <1>8 DEF Begins, Cancelled
  <2>2. turn = s
    BY <2>1, NoOwner DEF Begins
  <2> QED
    BY <1>0, <2>1, <2>2, RunIdsAreNumbers DEF Begins, NoRun
<1>9. LiveRunOwnsRow'
  BY <1>8 DEF LiveRunOwnsRow, Begins
<1>10. WorksInProgress'
  BY <1>8 DEF WorksInProgress, Begins, Folder
<1>11. SuccessorsBounded'
  BY DEF SuccessorsBounded, Begins, Folder
<1>12. Remembers'
  <2>1. ASSUME NEW s \in RunIds PROVE runs'[s].before <= evidence'
    BY BoundsAreNaturals DEF Begins, Remembers, Folder, TypeOK
  <2>2. ASSUME ~late', NEW s \in RunIds, runs'[s].pc \in Looping, ~Cancelled(s)' PROVE FALSE
    <3>1. s = r
      BY <1>8, <2>2 DEF Live, Looping
    <3> QED
      BY <2>2, <3>1 DEF Begins, Looping
  <2> QED
    BY <2>1, <2>2 DEF Remembers
<1> QED
  BY <1>3, <1>4, <1>5, <1>6, <1>7, <1>9, <1>10, <1>11, <1>12

LEMMA EnteringType ==
  ASSUME NEW pc \in {"starting", "begun"}, NEW auto \in BOOLEAN
  PROVE  /\ Entering(pc, auto) \in Run /\ Entering(pc, auto).pc = pc
         /\ Entering(pc, auto).before = 0
BY BoundsAreNaturals DEF Entering, Run, InTurn

(* Start and Continue. *)
LEMMA RequestHolds ==
  ASSUME WorkflowInv, NEW r \in RunIds, NEW auto \in BOOLEAN, Start(r, auto) \/ Continue(r, auto)
  PROVE  WorkflowInv'
<1>1. Admit(r) /\ Write(r, "running") /\ turn' = r /\ UNCHANGED <<Folder, cancelReq, Proc, succ>>
  BY DEF Start, Continue, KeepTurn
<1>2. up /\ turn = NoRun /\ row.status # "running" /\ ~Live(r)
  BY <1>1 DEF Admit, Unused, Free
<1>3. PICK pc \in {"starting", "begun"} :
        /\ runs' = [runs EXCEPT ![r] = Entering(pc, auto)]
        /\ pc = "begun" => stage = "in_progress"
  BY DEF Start, Continue
<1>4. ~Cancelled(r)
  BY <1>2 DEF WorkflowInv, Requests, LiveRuns, Cancelled
<1>5. late' = late
  <2>1. late \in BOOLEAN
    BY DEF WorkflowInv, TypeOK
  <2> QED
    BY <1>1, <1>4, <2>1 DEF Write
<1>6. row' = [run |-> r, status |-> "running"] /\ orphaned' = FALSE
  BY <1>1 DEF Write
<1>7. /\ runs' \in [RunIds -> Run] /\ runs'[r].pc = pc /\ runs'[r].before = 0 /\ runs'[r] \in Run
      /\ \A s \in RunIds \ {r} : runs'[s] = runs[s]
  BY <1>3, EnteringType DEF WorkflowInv, TypeOK
<1>8. succ' \in Nat /\ (~late => succ' <= evidence)
  BY <1>1 DEF WorkflowInv, TypeOK, SuccessorsBounded
<1>9. Begins(r, r, pc)
  BY <1>1, <1>2, <1>3, <1>5, <1>6, <1>7, <1>8 DEF Begins
<1> QED
  BY <1>9, BeginsHolds

(* The scheduler hands over to a successor. *)
LEMMA ScheduleHolds ==
  ASSUME WorkflowInv, NEW r \in RunIds, NEW s \in RunIds, Schedule(r, s)
  PROVE  WorkflowInv'
<1>1. /\ InTurnOf(r) /\ runs[r].pc = "completed" /\ Write(s, "running") /\ turn' = s
      /\ UNCHANGED <<Folder, cancelReq, Proc>> /\ evidence # runs[r].before /\ ~Live(s)
  BY DEF Schedule, KeepTurn, HasProgress, Unused, Free
<1>2. up /\ turn = r /\ Live(r) /\ r # s
  BY <1>1, ActsInTurn DEF Acts
<1>3. row.status = "completed" /\ ~Cancelled(r) /\ runs[r].retry = 0
  BY <1>1, FreshIsActive DEF WorkflowInv, Returned, Fresh
<1>4. ~Cancelled(s)
  BY <1>1 DEF WorkflowInv, Requests, LiveRuns, Cancelled
<1>5. late' = late /\ late \in BOOLEAN
  <2>1. late \in BOOLEAN
    BY DEF WorkflowInv, TypeOK
  <2> QED
    BY <1>1, <1>4, <2>1 DEF Write
<1>6. row' = [run |-> s, status |-> "running"] /\ orphaned' = FALSE
  BY <1>1 DEF Write
<1>7. ~late => stage = "in_progress"
  BY <1>1, <1>2, <1>3 DEF WorkflowInv, WorksInProgress
<1>8. succ' \in Nat /\ (~late => succ' <= evidence)
  <2>1. succ \in Nat /\ evidence \in Nat /\ runs[r].before \in Nat /\ runs[r].before <= evidence
    BY BoundsAreNaturals DEF WorkflowInv, TypeOK, Run, Remembers
  <2>2. ~late => succ <= runs[r].before
    BY <1>1, <1>3 DEF WorkflowInv, Remembers, Looping
  <2>3. CASE late
    BY <2>1, <2>3 DEF Schedule
  <2>4. CASE ~late
    <3>1. succ' = succ + 1
      BY <2>4 DEF Schedule
    <3> QED
      BY <1>1, <2>1, <2>2, <2>4, <3>1
  <2> QED
    BY <2>3, <2>4
<1>9. /\ runs' \in [RunIds -> Run] /\ runs'[s] \in Run /\ runs'[s].pc = "begun"
      /\ runs'[s].before = 0 /\ runs'[r].pc = "idle" /\ runs'[r].before = 0
      /\ \A u \in RunIds \ {s, r} : runs'[u] = runs[u]
  <2>1. runs' = [runs EXCEPT ![r] = NotRunning, ![s] = Entering("begun", TRUE)]
    BY DEF Schedule
  <2>2. /\ Entering("begun", TRUE) \in Run /\ Entering("begun", TRUE).pc = "begun"
        /\ Entering("begun", TRUE).before = 0
    BY EnteringType
  <2>3. NotRunning \in Run /\ NotRunning.pc = "idle" /\ NotRunning.before = 0
    BY BoundsAreNaturals DEF NotRunning, Entering, Run
  <2> QED
    BY <1>2, <2>1, <2>2, <2>3 DEF WorkflowInv, TypeOK
<1>10. Begins(s, r, "begun")
  BY <1>1, <1>2, <1>3, <1>5, <1>6, <1>7, <1>8, <1>9 DEF Begins
<1> QED
  BY <1>10, BeginsHolds

-----------------------------------------------------------------------------
(* Steps that begin none.                                                  *)

LEMMA CancelHolds ==
  ASSUME WorkflowInv, Cancel
  PROVE  WorkflowInv'
<1> USE DEF WorkflowInv
<1>1. /\ turn = NoRun /\ row.status = "running" /\ row' = [row EXCEPT !.status = "cancelled"]
      /\ cancelReq' = cancelReq \cup ({row.run} \cap LiveRuns)
      /\ UNCHANGED <<stage, evidence, resolved, runs, turn, up, crashes, late, orphaned, succ>>
  BY DEF Cancel, Folder, Proc
<1>2. row' = [run |-> row.run, status |-> "cancelled"] /\ row.run \in RunIds \cup {NoRun}
  BY <1>1 DEF TypeOK
<1>3. \A r \in RunIds : runs[r].pc \notin InTurn
  BY <1>1, RunIdsAreNumbers DEF OneTurn, NoRun
<1>4. TypeOK'
  BY <1>1, <1>2 DEF TypeOK, Statuses, LiveRuns
<1>5. OneTurn' /\ Returned'
  BY <1>1, <1>3 DEF OneTurn, Returned, InTurn
<1>6. Requests'
  <2> SUFFICES ASSUME NEW r \in cancelReq'
               PROVE  r \in LiveRuns /\ runs[r].pc \notin Fresh
    BY <1>1, <1>2 DEF Requests, LiveRuns, Live
  <2>1. r \in LiveRuns
    BY <1>1 DEF Requests
  <2> QED
    BY <1>3, <2>1 DEF LiveRuns, InTurn, Fresh
<1>7. RunningRowIsLive' /\ SuccessorsBounded'
  BY <1>1, <1>2 DEF RunningRowIsLive, SuccessorsBounded
<1>8. ASSUME ~late', NEW r \in RunIds, Live(r)', ~Cancelled(r)'
      PROVE  FALSE
  <2>1. ~late /\ Live(r) /\ ~Cancelled(r)
    BY <1>1, <1>8 DEF Live, Cancelled
  <2>2. row = [run |-> r, status |-> "running"]
    BY <1>3, <2>1 DEF LiveRunOwnsRow, InTurn
  <2>3. r \in cancelReq'
    BY <1>1, <2>1, <2>2 DEF LiveRuns
  <2> QED
    BY <1>8, <2>3 DEF Cancelled
<1>9. LiveRunOwnsRow' /\ WorksInProgress'
  BY <1>8 DEF LiveRunOwnsRow, WorksInProgress
<1>10. Remembers'
  <2>1. ASSUME ~late', NEW r \in RunIds, runs'[r].pc \in Looping, ~Cancelled(r)' PROVE FALSE
    BY <1>8, <2>1 DEF Live, Looping
  <2> QED
    BY <1>1, <2>1 DEF Remembers
<1> QED
  BY <1>4, <1>5, <1>6, <1>7, <1>9, <1>10

LEMMA CrashHolds ==
  ASSUME WorkflowInv, Crash
  PROVE  WorkflowInv'
<1> USE DEF WorkflowInv
<1>1. /\ cancelReq' = {} /\ turn' = NoRun
      /\ UNCHANGED <<row, stage, evidence, resolved, late, succ>>
  BY DEF Crash, EndTurn, Folder
<1>2. NotRunning \in Run /\ NotRunning.pc = "idle" /\ NotRunning.before = 0
  BY BoundsAreNaturals DEF NotRunning, Entering, Run
<1>3. /\ runs' \in [RunIds -> Run] /\ \A r \in RunIds : runs'[r].pc = "idle"
      /\ \A r \in RunIds : runs'[r] \in {NotRunning, runs[r]}
  BY <1>2 DEF Crash, TypeOK, Live
<1>4. TypeOK'
  <2>1. up' \in BOOLEAN /\ orphaned' \in BOOLEAN
    BY Zenon DEF Crash
  <2>2. crashes' \in 0..MaxCrashes
    BY BoundsAreNaturals DEF Crash, TypeOK
  <2> QED
    BY <1>1, <1>3, <2>1, <2>2 DEF TypeOK
<1>5. OneTurn' /\ Requests' /\ Returned'
  BY <1>1, <1>3 DEF OneTurn, Requests, Returned, InTurn
<1>6. RunningRowIsLive'
  <2>1. row.status = "running" => orphaned'
    BY Zenon DEF RunningRowIsLive, Crash
  <2> QED
    BY <1>1, <2>1 DEF RunningRowIsLive
<1>7. LiveRunOwnsRow' /\ WorksInProgress' /\ SuccessorsBounded'
  BY <1>1, <1>3 DEF LiveRunOwnsRow, WorksInProgress, SuccessorsBounded, Live
<1>8. Remembers'
  <2>1. \A r \in RunIds : runs'[r].before <= evidence
    BY <1>2, <1>3, BoundsAreNaturals DEF Remembers, TypeOK
  <2> QED
    BY <1>1, <1>3, <2>1 DEF Remembers, Looping
<1> QED
  BY <1>4, <1>5, <1>6, <1>7, <1>8

LEMMA FrameHolds ==
  ASSUME WorkflowInv, up' \in BOOLEAN, turn = NoRun \/ up' = up,
         UNCHANGED <<row, Folder, runs, cancelReq, turn, crashes, late, orphaned, succ>>
  PROVE  WorkflowInv'
BY DEF WorkflowInv, TypeOK, OneTurn, Requests, Returned, Remembers, RunningRowIsLive,
   LiveRunOwnsRow, WorksInProgress, SuccessorsBounded, Live, Cancelled, LiveRuns, Folder

LEMMA InitHolds == Init => WorkflowInv
<1> SUFFICES ASSUME Init PROVE WorkflowInv
  OBVIOUS
<1>1. NotRunning \in Run /\ NotRunning.pc = "idle" /\ NotRunning.before = 0
  BY BoundsAreNaturals DEF NotRunning, Entering, Run
<1>2. runs \in [RunIds -> Run] /\ \A r \in RunIds : runs[r].pc = "idle" /\ runs[r].before = 0
  BY <1>1 DEF Init
<1>3. TypeOK
  <2>1. resolved \in BOOLEAN /\ up \in BOOLEAN /\ orphaned \in BOOLEAN /\ late \in BOOLEAN
    BY Zenon DEF Init
  <2> QED
    BY <1>2, <2>1, BoundsAreNaturals DEF Init, TypeOK, Statuses, None
<1>4. OneTurn /\ Requests /\ Returned /\ Remembers
  BY <1>2 DEF Init, OneTurn, Requests, Returned, Remembers, InTurn, Looping
<1>5. RunningRowIsLive /\ LiveRunOwnsRow /\ WorksInProgress /\ SuccessorsBounded
  BY <1>2 DEF Init, RunningRowIsLive, LiveRunOwnsRow, WorksInProgress, SuccessorsBounded, Live, None
<1> QED
  BY <1>3, <1>4, <1>5 DEF WorkflowInv

LEMMA Invariance == Spec => []WorkflowInv
<1>1. WorkflowInv /\ [Next]_vars => WorkflowInv'
  <2> SUFFICES ASSUME WorkflowInv, [Next]_vars PROVE WorkflowInv'
    OBVIOUS
  <2>1. CASE \E r \in RunIds, auto \in BOOLEAN : Start(r, auto) \/ Continue(r, auto)
    BY <2>1, RequestHolds
  <2>2. CASE Cancel
    BY <2>2, CancelHolds
  <2>3. CASE \E r \in RunIds : RunStep(r)
    BY <2>3, StepShape, RanHolds, ScheduleHolds
  <2>4. CASE Crash
    BY <2>4, CrashHolds
  <2>5. CASE Restart
    <3>1. turn = NoRun
      BY <2>5 DEF Restart, WorkflowInv, TypeOK
    <3>2. up' \in BOOLEAN
      BY <2>5, Zenon DEF Restart
    <3> QED
      BY <2>5, <3>1, <3>2, FrameHolds DEF Restart
  <2>6. CASE UNCHANGED vars
    <3>1. up' \in BOOLEAN /\ up' = up
      BY <2>6 DEF vars, WorkflowInv, TypeOK
    <3> QED
      BY <2>6, <3>1, FrameHolds DEF vars, Folder
  <2> QED
    BY <2>1, <2>2, <2>3, <2>4, <2>5, <2>6 DEF Next
<1> QED
  BY InitHolds, <1>1, PTL DEF Spec

-----------------------------------------------------------------------------
(* Every variable of the run lifecycle has its type, and a turn belongs to *)
(* a run that stands between two synchronous steps.                        *)
THEOREM WorkflowTypeCorrect == Spec => []TypeOK
BY Invariance, PTL DEF WorkflowInv

(* The card of a FEAT shows "running" only while its run executes, unless  *)
(* a crash or a refused last write left it so: no exit of                  *)
(* ContinueImplementationApplication and StartImplementationApplication    *)
(* forgets the row.                                                        *)
THEOREM RowsAreLive == Spec => []RunningRowIsLive
BY Invariance, PTL DEF WorkflowInv

(* While no cancelled run has written late, the run that executes owns the *)
(* card: the admission check and the scheduler keep uncancelled runs from  *)
(* overlapping.                                                            *)
THEOREM OneOwner == Spec => []LiveRunOwnsRow
BY Invariance, PTL DEF WorkflowInv

(* While no cancelled run has written late, no rollback moves the state    *)
(* folder from under a run beyond its transition.                          *)
THEOREM FolderStays == Spec => []WorksInProgress
BY Invariance, PTL DEF WorkflowInv

(* Each run the scheduler starts is paid for by a change of the durable    *)
(* evidence, so it starts no more of them than there were changes.         *)
THEOREM SuccessorsPaidFor == Spec => []SuccessorsBounded
BY Invariance, PTL DEF WorkflowInv

(* After the operator's cancellation of a run no worker and no recovery     *)
(* worker invocation begins for it.  One that was under way may still go on *)
(* to its second attempt, and to no other.                                  *)
THEOREM NoWorkAfterCancel == Spec => CancelledDispatchesNothing
<1>1. WorkflowInv /\ [Next]_vars =>
        [\A r \in RunIds : Cancelled(r) /\ StartsWorker(r) => SecondAttempt(r)]_vars
  <2> SUFFICES ASSUME WorkflowInv, Next, NEW r \in RunIds, Cancelled(r), StartsWorker(r)
               PROVE  SecondAttempt(r)
    OBVIOUS
  <2>1. CASE \E s \in RunIds, auto \in BOOLEAN : Start(s, auto) \/ Continue(s, auto)
    <3>1. PICK s \in RunIds, auto \in BOOLEAN, pc \in {"starting", "begun"} :
            runs' = [runs EXCEPT ![s] = Entering(pc, auto)]
      BY <2>1 DEF Start, Continue
    <3> QED
      BY <3>1, EnteringType DEF WorkflowInv, TypeOK, StartsWorker, Working
  <2>2. CASE Cancel \/ Restart
    BY <2>2 DEF Cancel, Restart, StartsWorker
  <2>3. CASE \E s \in RunIds : Ran(s)
    <3>1. PICK s \in RunIds : Ran(s)
      BY <2>3
    <3>2. s = r
      BY <3>1, RunOfOthers DEF StartsWorker
    <3> QED
      BY <3>1, <3>2, Zenon DEF Ran
  <2>4. CASE \E s \in RunIds, u \in RunIds : Schedule(s, u)
    <3>1. PICK s \in RunIds, u \in RunIds :
            runs' = [runs EXCEPT ![s] = NotRunning, ![u] = Entering("begun", TRUE)]
      BY <2>4 DEF Schedule
    <3> QED
      BY <3>1, EnteringType DEF WorkflowInv, TypeOK, NotRunning, Entering, StartsWorker, Working
  <2>5. CASE Crash
    BY <2>5 DEF Crash, Live, NotRunning, Entering, StartsWorker, Working, WorkflowInv, TypeOK
  <2> QED
    BY <2>1, <2>2, <2>3, <2>4, <2>5, StepShape DEF Next
<1> QED
  BY Invariance, <1>1, PTL DEF Spec, CancelledDispatchesNothing, SecondAttempt
=============================================================================
