-------------------------- MODULE RuntimeExecution --------------------------
(***************************************************************************)
(* One plan-bound worker invocation: RuntimeExecutionCoordinator and       *)
(* HandoffPlanExecutor running the steps of a handoff plan over            *)
(* RuntimeInvocationStore, the Pi processes they spawn, the tracker that   *)
(* turns their tool events into durable work state, and the operator's     *)
(* cancellation of the workflow run that asked for the worker.             *)
(*                                                                         *)
(* `pc' is where the orchestrator is.  The places in TurnPcs lie inside    *)
(* one turn of the event loop: of the orchestrator only its own next       *)
(* commit, a failing commit or its death can come next.  The Pi processes  *)
(* go on regardless.                                                       *)
(***************************************************************************)
EXTENDS Naturals, Sequences

CONSTANTS
  MaxWrites,    \* bound on the file changes one Pi process begins
  Profiles,     \* the ways this invocation may be launched
  TaskRowsKey,  \* project key the phase-task rows are recorded under
  ContextKey,   \* project key of the invocation's runtime context
  Faulty        \* can store writes fail and the orchestrator die?

ASSUME WritesAssumption == MaxWrites \in Nat
ASSUME FaultyAssumption == Faulty \in BOOLEAN

(* A plan-bound prompt is tracked: its tool events reach a mutation        *)
(* tracker.  The nested executor and the detached launcher have none.  Of  *)
(* the runner's two timers one, both or none is set.                       *)
Profile == [tracked : BOOLEAN, timers : SUBSET {"stall", "maximum"}]
ASSUME ProfilesAssumption == Profiles \subseteq Profile

VARIABLES
  profile,    \* how this invocation is launched
  steps,      \* plan.steps.length
  taskBound,  \* does an unresolved phase-task row exist for this invocation?
  chain,      \* hepha_runtime_invocation_chains and its route-change event
  att,        \* hepha_runtime_attempts, by attempt_index
  pc,         \* where the orchestrator is
  step,       \* the plan step being executed
  out,        \* how the process of this step ended, while cleaning up
  active,     \* activeAttemptId of the mutation tracker
  seen,       \* activeMutations: is a mutation of process k open in it?
  proc,       \* the Pi process of each step
  pipe,       \* its tool events the orchestrator has not read yet
  cancelled,  \* has the operator cancelled the workflow run?
  lost        \* history: a store write has failed

durable == <<chain, att>>
tracker == <<active, seen>>
world == <<profile, steps, taskBound, proc, pipe, cancelled>>
vars == <<profile, steps, taskBound, chain, att, pc, step, out, active, seen, proc,
          pipe, cancelled, lost>>

-----------------------------------------------------------------------------
(* Records *)

Index == {0, 1}
Outcomes == {"completed", "failed", "safety", "timed_out", "cancelled"}
Terminal == {"completed", "failed", "timed_out", "cancelled"}
Codes == {"none", "failed", "safety", "timed_out", "cancelled"}
Kinds == {"primary", "fallback", "recovery"}

(* normalizePiAttemptProcessResult: a safety rejection is a failure with a *)
(* failure code of its own; success has none.                              *)
StatusOf(o) == IF o = "safety" THEN "failed" ELSE o
CodeOf(o) == IF o = "completed" THEN "none" ELSE o

Attempt == [status : {"none", "preparing", "running"} \cup Terminal,
            kind : Kinds, work : {"none", "started", "checkpointed"},
            spawned : BOOLEAN, code : Codes]
NoAttempt == [status |-> "none", kind |-> "primary", work |-> "none",
              spawned |-> FALSE, code |-> "none"]
Preparing(k) == [NoAttempt EXCEPT !.status = "preparing", !.kind = k]

Event == [kind : {"fallback", "recovery"}, reason : Codes,
          result : {"started", "completed", "failed"}]
NoEvent == [kind |-> "none", reason |-> "none", result |-> "none"]

Chain == [status : {"none", "running"} \cup Terminal, code : Codes,
          ids : 0..2, event : Event \cup {NoEvent}]
NoChain == [status |-> "none", code |-> "none", ids |-> 0, event |-> NoEvent]
OpenChain == [status |-> "running", code |-> "none", ids |-> 1, event |-> NoEvent]

(* Of a process: the file changes it began and kept by the tools write and *)
(* edit, those its shell commands made, whether it has fallen silent, and  *)
(* whether the runner gave up on it.                                       *)
Proc == [life : {"none", "alive", "dying", "gone"}, begun : Nat, open : BOOLEAN,
         kept : Nat, shell : Nat, quiet : BOOLEAN, abandoned : BOOLEAN]
NoProc == [life |-> "none", begun |-> 0, open |-> FALSE, kept |-> 0, shell |-> 0,
           quiet |-> FALSE, abandoned |-> FALSE]

IOPcs == {"preparing", "spawning", "waiting", "cleaning"}
TurnPcs == {"opened", "unprepared", "settled", "routed", "deciding", "closing"}
DownPcs == {"crashed", "refused"}
Pcs == {"idle", "done", "restarted"} \cup IOPcs \cup TurnPcs \cup DownPcs

Live(k) == proc[k].life \in {"alive", "dying"}
Ended(k) == att[k].status \in Terminal

-----------------------------------------------------------------------------
(* RuntimeInvocationStore: what a reader accepts *)

AttemptOK(a) ==
  /\ a.status = "preparing" => ~ a.spawned /\ a.code = "none"
  /\ a.status = "running" => a.spawned /\ a.code = "none"
  /\ ~ a.spawned => a.work = "none"
  /\ a.status \in {"completed", "timed_out"} => a.spawned
  /\ a.status = "completed" => a.code = "none"
  /\ a.status \in Terminal \ {"completed"} => a.code # "none"
  /\ a.status \in {"timed_out", "cancelled"} => a.code = a.status

ResultMatches(r, s) ==
  CASE r = "started" -> TRUE
    [] r = "completed" -> s = "completed"
    [] r = "failed" -> s \in Terminal \ {"completed"}

(* validSameChainAttemptStart and its read-side twin: the second attempt   *)
(* follows a failed primary, as the kind its work state calls for.         *)
LegalSecond(kind) ==
  /\ steps = 2
  /\ Ended(0) /\ att[0].status # "completed" /\ att[0].code # "none"
  /\ kind = "fallback" => att[0].work = "none"
  /\ kind = "recovery" => att[0].work = "checkpointed"

SecondOK ==
  /\ att[1].kind \in {"fallback", "recovery"} /\ LegalSecond(att[1].kind)
  /\ chain.event \in Event
  /\ chain.event.kind = att[1].kind /\ chain.event.reason = att[0].code
  /\ ResultMatches(chain.event.result, att[1].status)

ChainMatches(s, c, a) == s = a.status /\ c = a.code

Final == IF chain.ids = 2 THEN att[1] ELSE att[0]

ClosedOK ==
  /\ Ended(0) /\ (chain.ids = 2 => Ended(1))
  /\ ChainMatches(chain.status, chain.code, Final)
  /\ chain.ids = 2 => chain.event.result = IF Final.status = "completed"
                                           THEN "completed" ELSE "failed"

(* isRuntimeInvocationEvidenceV1 over readReceipt, readAttempts and        *)
(* readEvents.                                                             *)
EvidenceOK ==
  chain.status # "none" =>
    /\ att[0].status # "none" /\ att[0].kind = "primary" /\ AttemptOK(att[0])
    /\ chain.ids = IF att[1].status = "none" THEN 1 ELSE 2
    /\ IF chain.ids = 2 THEN AttemptOK(att[1]) /\ SecondOK
                        ELSE chain.event = NoEvent
    /\ chain.status # "running" => ClosedOK

-----------------------------------------------------------------------------
(* Starting an attempt *)

(* openPrimary: the chain is inserted with the id of an attempt that is    *)
(* not inserted yet.                                                       *)
OpenInvocation ==
  /\ pc = "idle"
  /\ chain' = OpenChain
  /\ pc' = "opened"
  /\ UNCHANGED <<world, att, step, out, tracker, lost>>

(* startAttempt: a connection that cannot be used fails the attempt before *)
(* any preparation; otherwise the tracker is pointed at it.                *)
Started(k, usable) ==
  /\ step' = k
  /\ pc' = IF usable THEN "preparing" ELSE "unprepared"
  /\ active' = IF usable THEN k ELSE active
  /\ UNCHANGED <<world, out, seen, lost>>

StartPrimary(usable) ==
  /\ pc = "opened"
  /\ att' = [att EXCEPT ![0] = Preparing("primary")]
  /\ chain' = chain
  /\ Started(0, usable)

(* prepare, readSecret and buildEnvironment succeed; markAttemptSpawned.   *)
MarkSpawned ==
  /\ pc = "preparing"
  /\ att' = [att EXCEPT ![step] = [@ EXCEPT !.status = "running", !.spawned = TRUE]]
  /\ pc' = "spawning"
  /\ UNCHANGED <<world, chain, step, out, tracker, lost>>

(* The context, the secret or the environment cannot be had. *)
PrepareFails ==
  /\ pc = "preparing" /\ pc' = "unprepared"
  /\ UNCHANGED <<world, durable, step, out, tracker, lost>>

(* runPinnedPrompt: create the session directory, then spawn and register  *)
(* the child.                                                              *)
Spawn ==
  /\ pc = "spawning" /\ pc' = "waiting"
  /\ proc' = [proc EXCEPT ![step].life = "alive"]
  /\ UNCHANGED <<profile, steps, taskBound, pipe, cancelled, durable, step, out, tracker, lost>>

(* ... or the runner throws before it spawns anything. *)
SpawnFails(o) ==
  /\ pc = "spawning" /\ pc' = "cleaning" /\ out' = o
  /\ UNCHANGED <<world, durable, step, tracker, lost>>

-----------------------------------------------------------------------------
(* The Pi process and its event stream *)

(* terminatePiProcessTree: a signal, which the process may outlive a while. *)
Signalled(p) == [p EXCEPT !.life = IF @ = "alive" THEN "dying" ELSE @]

(* What the tools report is read by the tracker, if there is one. *)
Emit(k, e) == pipe' = IF profile.tracked THEN [pipe EXCEPT ![k] = Append(@, e)] ELSE pipe

Works(k) == Live(k) /\ ~ proc[k].quiet
MayChange(k) == Works(k) /\ proc[k].begun + proc[k].shell < MaxWrites

(* A tool call of write or edit. *)
PiBeginsWrite(k) ==
  /\ MayChange(k) /\ ~ proc[k].open
  /\ proc' = [proc EXCEPT ![k] = [@ EXCEPT !.open = TRUE, !.begun = proc[k].begun + 1]]
  /\ Emit(k, "start")
  /\ UNCHANGED <<profile, steps, taskBound, cancelled, durable, pc, step, out, tracker, lost>>

PiEndsWrite(k, ok) ==
  /\ Works(k) /\ proc[k].open
  /\ LET kept == IF ok THEN proc[k].kept + 1 ELSE proc[k].kept
     IN  proc' = [proc EXCEPT ![k] = [@ EXCEPT !.open = FALSE, !.kept = kept]]
  /\ Emit(k, IF ok THEN "end" ELSE "error")
  /\ UNCHANGED <<profile, steps, taskBound, cancelled, durable, pc, step, out, tracker, lost>>

(* A shell command that changes files: the tracker knows no such tool. *)
PiRunsShell(k) ==
  /\ MayChange(k)
  /\ proc' = [proc EXCEPT ![k].shell = @ + 1]
  /\ UNCHANGED <<profile, steps, taskBound, pipe, cancelled, durable, pc, step, out, tracker,
                 lost>>

(* The process prints nothing more for as long as it is waited for. *)
PiHangs(k) ==
  /\ pc = "waiting" /\ k = step /\ Works(k)
  /\ proc' = [proc EXCEPT ![k].quiet = TRUE]
  /\ UNCHANGED <<profile, steps, taskBound, pipe, cancelled, durable, pc, step, out, tracker,
                 lost>>

PiExits(k) ==
  /\ Live(k)
  /\ proc' = [proc EXCEPT ![k] = [@ EXCEPT !.life = "gone", !.quiet = FALSE]]
  /\ UNCHANGED <<profile, steps, taskBound, pipe, cancelled, durable, pc, step, out, tracker, lost>>

(* advanceRuntimeWork, on an attempt that is running. *)
WorkAfter(w, e, opened) ==
  CASE e = "start" /\ w = "none" -> "started"
    [] e = "end" /\ opened -> "checkpointed"
    [] OTHER -> w

(* Faulty variant: the attempt's status is not looked at. *)
ObserveUnchecked(k) ==
  LET e == Head(pipe[k])
  IN  /\ pipe' = [pipe EXCEPT ![k] = Tail(@)]
      /\ seen' = [seen EXCEPT ![k] = (e = "start")]
      /\ att' = [att EXCEPT ![active].work = WorkAfter(@, e, seen[k])]

(* createRuntimeArtifactMutationTracker.observe: the event is charged to   *)
(* the attempt the tracker points at; one that is not running makes it     *)
(* throw, which changes nothing.                                           *)
Observe(k) ==
  LET e == Head(pipe[k])
  IN  /\ pipe' = [pipe EXCEPT ![k] = Tail(@)]
      /\ seen' = [seen EXCEPT ![k] = (e = "start")]
      /\ att' = IF att[active].status = "running"
                THEN [att EXCEPT ![active].work = WorkAfter(@, e, seen[k])]
                ELSE att

ReadEvent ==
  /\ pc = "waiting" /\ pipe[step] # <<>>
  /\ Observe(step)
  /\ UNCHANGED <<profile, steps, taskBound, proc, cancelled, chain, pc, step, out, active, lost>>

(* Output of a process that was given up on: of each chunk the handler     *)
(* still looks at the first line, and drops the rest.                      *)
Late(k) ==
  /\ pc \in IOPcs \cup {"done"} /\ pipe[k] # <<>>
  /\ pc = "waiting" => step # k

ReadLateEvent(k) ==
  /\ Late(k) /\ Observe(k)
  /\ UNCHANGED <<profile, steps, taskBound, proc, cancelled, chain, pc, step, out, active, lost>>

DropLateEvent(k) ==
  /\ Late(k) /\ pipe' = [pipe EXCEPT ![k] = Tail(@)]
  /\ UNCHANGED <<profile, steps, taskBound, proc, cancelled, durable, pc, step, out, tracker, lost>>

(* Faulty variant: the exit is acted on before the output is drained. *)
SeeCloseEarly(o) ==
  /\ pc = "waiting" /\ proc[step].life = "gone"
  /\ pc' = "cleaning" /\ out' = o
  /\ UNCHANGED <<world, durable, step, tracker, lost>>

(* The child's `close': it has exited and its output has been read.        *)
SeeClose(o) ==
  /\ pc = "waiting" /\ proc[step].life = "gone" /\ pipe[step] = <<>>
  /\ pc' = "cleaning" /\ out' = o
  /\ UNCHANGED <<world, durable, step, tracker, lost>>

GivenUp(p) == [Signalled(p) EXCEPT !.abandoned = TRUE, !.quiet = FALSE]

(* The child is signalled and the promise rejects without waiting for it.  *)
Abandon(o) ==
  /\ pc = "waiting" /\ pc' = "cleaning" /\ out' = o
  /\ proc' = [proc EXCEPT ![step] = GivenUp(@)]
  /\ UNCHANGED <<profile, steps, taskBound, pipe, cancelled, durable, step, tracker, lost>>

(* A timer that is set and expires: the maximum runtime does so whatever   *)
(* the child does, the stall timer is set anew by each chunk of output.    *)
Fires ==
  \/ "maximum" \in profile.timers
  \/ "stall" \in profile.timers /\ proc[step].quiet

(* Faulty variant: the timer only signals the child and lets its `close'   *)
(* settle the promise.                                                     *)
TimesOutWaits(o) ==
  /\ pc = "waiting" /\ Fires /\ o \in {"timed_out", "failed"}
  /\ proc' = [proc EXCEPT ![step] = Signalled(@)]
  /\ UNCHANGED <<profile, steps, taskBound, pipe, cancelled, durable, pc, step, out, tracker,
                 lost>>

TimesOut(o) == Fires /\ o \in {"timed_out", "failed"} /\ Abandon(o)

(* A tool call that an implementation worker may not make. *)
RejectsTool == Abandon("failed")

(* The tracker's write is refused, so reading the event throws and the     *)
(* child is given up on.                                                   *)
TrackingFails ==
  /\ Faulty /\ pc = "waiting" /\ pipe[step] # <<>>
  /\ Head(pipe[step]) = "start" \/ (Head(pipe[step]) = "end" /\ seen[step])
  /\ pipe' = [pipe EXCEPT ![step] = Tail(@)]
  /\ seen' = [seen EXCEPT ![step] = (Head(pipe[step]) = "start")]
  /\ pc' = "cleaning" /\ out' = "failed" /\ lost' = TRUE
  /\ proc' = [proc EXCEPT ![step] = GivenUp(@)]
  /\ UNCHANGED <<profile, steps, taskBound, cancelled, durable, step, active>>

(* FeatureWorkflowCancellationApplication.cancel through the process       *)
(* registry: the run's registered child is signalled.                      *)
Cancel ==
  /\ pc \in IOPcs /\ ~ cancelled
  /\ cancelled' = TRUE
  /\ proc' = IF pc = "waiting" THEN [proc EXCEPT ![step] = Signalled(@)] ELSE proc
  /\ UNCHANGED <<profile, steps, taskBound, pipe, durable, pc, step, out, tracker, lost>>

-----------------------------------------------------------------------------
(* Settling *)

SettleAs(o) ==
  /\ att' = [att EXCEPT ![step] = [@ EXCEPT !.status = StatusOf(o), !.code = CodeOf(o)]]
  /\ pc' = "settled" /\ out' = "failed"
  /\ UNCHANGED <<world, chain, step, tracker, lost>>

SettleUnprepared == pc = "unprepared" /\ SettleAs("failed")

(* The isolated context is removed; failing to remove it overrides the     *)
(* outcome.  The attempt is re-read and settled with its work state.       *)
CleanUp(cleaned) == pc = "cleaning" /\ SettleAs(IF cleaned THEN out ELSE "failed")

(* finishAttempt after a second attempt: the route-change event's result. *)
RecordRouteResult ==
  /\ pc = "settled" /\ step = 1
  /\ chain' = [chain EXCEPT !.event.result =
                 IF att[1].status = "completed" THEN "completed" ELSE "failed"]
  /\ pc' = "routed"
  /\ UNCHANGED <<world, att, step, out, tracker, lost>>

LeaveOpen == step = 0 /\ steps = 2 /\ att[0].status # "completed"

(* A failed primary of a two-step plan leaves the chain open for the       *)
(* coordinator.                                                            *)
Decide ==
  /\ pc = "settled" /\ LeaveOpen /\ pc' = "deciding"
  /\ UNCHANGED <<world, durable, step, out, tracker, lost>>

Close(a) ==
  /\ chain' = [chain EXCEPT !.status = a.status, !.code = a.code]
  /\ pc' = "done"
  /\ UNCHANGED <<world, att, step, out, tracker, lost>>

(* Faulty variant: the chain is closed with the primary's result. *)
CloseFinalPrimary ==
  /\ \/ pc = "settled" /\ step = 0 /\ ~ LeaveOpen
     \/ pc = "routed"
     \/ pc = "closing"
  /\ Close(att[0])

(* settleReceipt, and settleFromAttempt when that had failed once. *)
CloseFinal ==
  /\ \/ pc = "settled" /\ step = 0 /\ ~ LeaveOpen
     \/ pc = "routed"
     \/ pc = "closing"
  /\ Close(att[step])

(* WorkflowTaskDurableWorkStatePort.read: the task rows are looked up by   *)
(* the project key of the invocation's context.                            *)
UnresolvedTask == taskBound /\ TaskRowsKey = ContextKey

(* RuntimeExecutionCoordinator.execute, after the primary failed. *)
SecondKind ==
  IF att[0].code = "safety" THEN "none"
  ELSE CASE att[0].work = "none" -> "fallback"
         [] att[0].work = "checkpointed" /\ UnresolvedTask -> "recovery"
         [] OTHER -> "none"

(* Faulty variant: a primary that may not be replaced is run again. *)
CloseFailedRetries ==
  /\ pc = "deciding" /\ SecondKind = "none"
  /\ att' = [att EXCEPT ![0] = Preparing("primary")]
  /\ chain' = chain
  /\ Started(0, TRUE)

(* The coordinator's terminal: the chain ends with the primary's result. *)
CloseFailed ==
  /\ pc = "deciding" /\ SecondKind = "none"
  /\ Close(att[0])

(* Faulty variant: any failed primary may be replaced by the second route. *)
HandOffAlways(usable) ==
  /\ pc = "deciding" /\ att[0].code # "safety"
  /\ LET kind == IF att[0].work = "checkpointed" THEN "recovery" ELSE "fallback"
     IN  /\ att' = [att EXCEPT ![1] = Preparing(kind)]
         /\ chain' = [chain EXCEPT !.ids = 2,
                        !.event = [kind |-> kind, reason |-> att[0].code,
                                   result |-> "started"]]
  /\ Started(1, usable)

(* openSecond and startAttempt: attempt, event and ids in one transaction. *)
HandOff(usable) ==
  /\ pc = "deciding" /\ SecondKind # "none"
  /\ att' = [att EXCEPT ![1] = Preparing(SecondKind)]
  /\ chain' = [chain EXCEPT !.ids = 2,
                 !.event = [kind |-> SecondKind, reason |-> att[0].code,
                            result |-> "started"]]
  /\ Started(1, usable)

-----------------------------------------------------------------------------
(* Faults *)

(* A store write is refused.  The executor answers RUNTIME_PERSISTENCE_    *)
(* FAILED and the coordinator gives up; only closing a chain whose primary *)
(* failed is tried once more.                                              *)
StoreFails ==
  /\ Faulty
  /\ pc \in {"idle", "opened", "preparing", "unprepared", "cleaning", "settled",
             "routed", "deciding", "closing"}
  /\ ~ (pc = "settled" /\ LeaveOpen)
  /\ lost' = TRUE
  /\ pc' = IF pc = "settled" /\ step = 0 /\ att[0].status # "completed"
           THEN "closing" ELSE "done"
  /\ UNCHANGED <<world, durable, step, out, tracker>>

(* Reading the work state throws: the chain is closed instead. *)
WorkStateReadFails ==
  /\ Faulty /\ pc = "deciding" /\ att[0].code # "safety"
  /\ Close(att[0])

(* The orchestrator dies; its children may live on. *)
Crash ==
  /\ Faulty /\ pc \notin {"idle", "done", "restarted"} \cup DownPcs
  /\ pc' = "crashed"
  /\ UNCHANGED <<world, durable, step, out, tracker, lost>>

(* The store's constructor reads every chain back; evidence it cannot read *)
(* makes it throw, and the orchestrator does not start.                    *)
Restart ==
  /\ pc \in {"crashed", "refused"}
  /\ pc' = IF EvidenceOK THEN "restarted" ELSE "refused"
  /\ UNCHANGED <<world, durable, step, out, tracker, lost>>

-----------------------------------------------------------------------------
Init ==
  /\ profile \in Profiles
  /\ steps \in {1, 2} /\ taskBound \in BOOLEAN
  /\ chain = NoChain /\ att = [k \in Index |-> NoAttempt]
  /\ pc = "idle" /\ step = 0 /\ out = "failed"
  /\ active = 0 /\ seen = [k \in Index |-> FALSE]
  /\ proc = [k \in Index |-> NoProc] /\ pipe = [k \in Index |-> <<>>]
  /\ cancelled = FALSE /\ lost = FALSE

(* What the orchestrator does next, inside a turn or when its I/O returns. *)
Proceed ==
  \/ \E usable \in BOOLEAN : StartPrimary(usable) \/ HandOff(usable)
  \/ MarkSpawned \/ PrepareFails
  \/ Spawn \/ \E o \in {"failed", "safety", "timed_out", "cancelled"} : SpawnFails(o)
  \/ SettleUnprepared \/ \E cleaned \in BOOLEAN : CleanUp(cleaned)
  \/ RecordRouteResult \/ Decide \/ CloseFinal \/ CloseFailed

Pi(k) ==
  \/ PiBeginsWrite(k) \/ PiRunsShell(k) \/ PiHangs(k) \/ PiExits(k)
  \/ \E ok \in BOOLEAN : PiEndsWrite(k, ok)

Next ==
  \/ OpenInvocation \/ Proceed \/ ReadEvent \/ Cancel
  \/ \E o \in Outcomes : SeeClose(o) \/ TimesOut(o)
  \/ RejectsTool
  \/ \E k \in Index : ReadLateEvent(k) \/ DropLateEvent(k)
  \/ \E k \in Index : Pi(k)
  \/ StoreFails \/ TrackingFails \/ WorkStateReadFails \/ Crash \/ Restart

Spec == Init /\ [][Next]_vars

(* The orchestrator's turns and local I/O complete, it reads the output    *)
(* and the exit of its child, and a timer that is due fires.  The Pi       *)
(* process owes nothing, not even to exit, nor is any timer owed.          *)
Fairness ==
  /\ WF_vars(Proceed) /\ WF_vars(ReadEvent)
  /\ WF_vars(\E o \in Outcomes : SeeClose(o))
  /\ WF_vars(\E o \in Outcomes : TimesOut(o))

FairSpec == Spec /\ Fairness

-----------------------------------------------------------------------------
(* Properties *)

(* Types of the store's rows, the executor's position and the processes. *)
TypeOK ==
  /\ profile \in Profile
  /\ steps \in {1, 2} /\ taskBound \in BOOLEAN
  /\ chain \in Chain /\ att \in [Index -> Attempt]
  /\ pc \in Pcs /\ step \in Index /\ out \in Outcomes
  /\ active \in Index /\ seen \in [Index -> BOOLEAN]
  /\ proc \in [Index -> Proc]
  /\ pipe \in [Index -> Seq({"start", "end", "error"})]
  /\ cancelled \in BOOLEAN /\ lost \in BOOLEAN

(* From the insertion of the primary attempt on, every single commit of    *)
(* the executor, the tracker and the coordinator leaves rows that          *)
(* readEvidence accepts: whatever fails, dies or arrives late, the receipt *)
(* can be read back.                                                       *)
EvidenceReadable == att[0].status # "none" => EvidenceOK

(* Unless the store refused a write, an invocation that has returned is    *)
(* closed with the result of its last attempt, whichever of the executor   *)
(* and the coordinator had to close it.                                    *)
ClosedWhenReturned ==
  pc = "done" /\ ~ lost =>
    /\ Ended(0) /\ (att[1].status # "none" => Ended(1))
    /\ ChainMatches(chain.status, chain.code,
                    IF att[1].status = "none" THEN att[0] ELSE att[1])

(* What the tracker can tell, the second route respects: a fallback        *)
(* replaces a primary that had begun no call of write or edit, provided    *)
(* the invocation is tracked and the end of its process was awaited; a     *)
(* recovery follows a primary that completed such a call.  What shells     *)
(* change, untracked invocations and processes that were given up on are   *)
(* the subject of FallbackFollowsNoMutation.                               *)
HandOffDiscipline ==
  att[1].status # "none" =>
    \/ /\ att[1].kind = "fallback"
       /\ profile.tracked /\ ~ proc[0].abandoned => proc[0].begun = 0
    \/ att[1].kind = "recovery" /\ proc[0].kept > 0

(* workflow-control-flow-map.md: "A stalled or maximum-runtime attempt     *)
(* that mutated files therefore cannot consume a fallback as if no work    *)
(* occurred."                                                              *)
FallbackFollowsNoMutation ==
  [][att[1].status = "none" /\ att[1].status' # "none" /\ att[1].kind' = "fallback" =>
       proc[0].kept + proc[0].shell = 0]_vars

(* No step changes an attempt that has ended (a late tool event, a second  *)
(* settlement) or a chain that is closed.                                  *)
SettledIsFinal ==
  [][/\ \A k \in Index : Ended(k) => att'[k] = att[k]
     /\ chain.status \in Terminal => chain' = chain]_vars

RS == INSTANCE RouteSequence WITH
        runs <- IF att[0].status = "none" THEN <<>>
                ELSE LET of(a) == IF a.status \in Terminal THEN a.status ELSE "open"
                     IN  IF att[1].status = "none" THEN <<of(att[0])>>
                         ELSE <<of(att[0]), of(att[1])>>,
        verdict <- IF chain.status \in Terminal THEN chain.status ELSE "open"

(* The rows of the store go through the route sequence that a receipt      *)
(* promises, with crashes, refused writes and late events included.        *)
ImplementsRouteSequence == RS!RSSpec

(* An invocation that has begun returns although no Pi process owes it an  *)
(* exit: output, exits, timers, preparation and clean-up end each attempt, *)
(* there are two at most, and a failing commit ends the invocation too. It *)
(* waits for ever in one case only, that of a living process no timer is   *)
(* due for: one that keeps printing without a maximum runtime, or any one  *)
(* launched with no timers.                                                *)
ReturnedOrDied == pc \in {"done", "crashed", "refused", "restarted"}
Unlimited == pc = "waiting" /\ Live(step) /\ ~ Fires
Returns == pc # "idle" ~> (ReturnedOrDied \/ []Unlimited)

(* FEAT-062 keeps receipts "available after the active runtime process     *)
(* ends so they can support auditing, recovery": a restarted orchestrator  *)
(* opens its store.                                                        *)
RestartSucceeds == pc # "refused"
=============================================================================
