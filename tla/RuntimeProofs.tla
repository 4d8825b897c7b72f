---------------------------- MODULE RuntimeProofs ----------------------------
(***************************************************************************)
(* Proofs about RuntimeExecution, for any number of file mutations, any    *)
(* project keys, and with or without faults.                               *)
(***************************************************************************)
EXTENDS RuntimeExecution, TLAPS

-----------------------------------------------------------------------------
(* Types *)

LEMMA SettleAsType ==
  ASSUME TypeOK, NEW o \in Outcomes, SettleAs(o)
  PROVE  TypeOK'
<1>1. StatusOf(o) \in Terminal /\ CodeOf(o) \in Codes
  BY DEF Outcomes, StatusOf, CodeOf, Terminal, Codes
<1>2. att' \in [Index -> Attempt]
  BY <1>1 DEF TypeOK, SettleAs, Attempt, Terminal
<1> QED
  BY <1>2 DEF TypeOK, SettleAs, world, tracker, Pcs, TurnPcs, Outcomes

LEMMA StartedType ==
  ASSUME TypeOK, NEW k \in Index, NEW usable \in BOOLEAN, Started(k, usable),
         att' \in [Index -> Attempt], chain' \in Chain
  PROVE  TypeOK'
BY DEF TypeOK, Started, world, Pcs, IOPcs, TurnPcs

LEMMA PreparingType ==
  ASSUME NEW k \in Kinds
  PROVE  Preparing(k) \in Attempt
BY DEF Preparing, NoAttempt, Attempt, Kinds, Terminal, Codes

LEMMA CloseType ==
  ASSUME TypeOK, NEW k \in Index, Close(att[k]), Ended(k)
  PROVE  TypeOK'
<1>1. chain' \in Chain
  BY DEF TypeOK, Close, Ended, Chain, Attempt
<1> QED
  BY <1>1 DEF TypeOK, Close, world, tracker, Pcs

-----------------------------------------------------------------------------
(* The inductive invariant *)

(* The rows while the attempt of the current step is under way or has just *)
(* ended: the second one has its route-change event, still "started".      *)
AttemptRows ==
  IF step = 0 THEN chain = OpenChain /\ att[1] = NoAttempt
  ELSE chain.status = "running" /\ chain.ids = 2 /\ chain.event.result = "started"

(* What the rows are at each place of the executor and the coordinator. *)
Rows ==
  /\ pc = "idle" => chain = NoChain /\ att = [k \in Index |-> NoAttempt]
  /\ pc = "opened" => chain = OpenChain /\ att = [k \in Index |-> NoAttempt]
  /\ pc \in IOPcs \cup {"unprepared", "settled"} => AttemptRows
  /\ pc \in {"preparing", "unprepared"} => att[step].status = "preparing"
  /\ pc \in {"spawning", "waiting", "cleaning"} => att[step].status = "running"
  /\ pc = "settled" => Ended(step)
  /\ pc = "routed" =>
       /\ step = 1 /\ chain.status = "running" /\ chain.ids = 2 /\ Ended(1)
       /\ chain.event.result = IF att[1].status = "completed" THEN "completed" ELSE "failed"
  /\ pc \in {"deciding", "closing"} =>
       /\ step = 0 /\ chain = OpenChain /\ att[1] = NoAttempt
       /\ Ended(0) /\ att[0].status # "completed"
       /\ pc = "deciding" => steps = 2
  /\ pc \in IOPcs \cup (TurnPcs \ {"opened"}) => att[0].status # "none"

RuntimeInv == TypeOK /\ Rows /\ EvidenceReadable

-----------------------------------------------------------------------------
LEMMA InitHolds == Init => RuntimeInv
<1> SUFFICES ASSUME Init PROVE RuntimeInv
  OBVIOUS
<1>1. NoAttempt \in Attempt /\ NoProc \in Proc /\ NoChain \in Chain
  BY DEF NoAttempt, NoProc, NoChain, NoEvent, Attempt, Proc, Chain, Event, Kinds,
         Codes, Terminal
<1>2. <<>> \in Seq({"start", "end", "error"})
  OBVIOUS
<1>3. TypeOK
  BY <1>1, <1>2, ProfilesAssumption DEF Init, TypeOK, Index, Pcs, Outcomes
<1>4. Rows /\ EvidenceReadable
  BY DEF Init, Rows, EvidenceReadable, IOPcs, TurnPcs, NoAttempt, Index
<1> QED
  BY <1>3, <1>4 DEF RuntimeInv

(* Rows that no step of the action touches stay readable. *)
LEMMA ReadableFrame ==
  ASSUME EvidenceReadable, UNCHANGED <<steps, chain, att>>
  PROVE  EvidenceReadable'
BY DEF EvidenceReadable, EvidenceOK, AttemptOK, SecondOK, LegalSecond, ClosedOK,
       ResultMatches, ChainMatches, Final, Ended

(* The steps of the Pi processes and of their output leave the executor    *)
(* where it is.                                                            *)
LEMMA RowsFrame ==
  ASSUME Rows, UNCHANGED <<steps, chain, att, pc, step>>
  PROVE  Rows'
BY DEF Rows, AttemptRows, Ended

LEMMA SignalledType ==
  ASSUME NEW p \in Proc
  PROVE  Signalled(p) \in Proc
BY DEF Signalled, Proc

LEMMA GivenUpType ==
  ASSUME NEW p \in Proc
  PROVE  GivenUp(p) \in Proc /\ GivenUp(p).abandoned
<1>1. Signalled(p) \in Proc
  BY SignalledType
<1> QED
  BY <1>1 DEF GivenUp, Proc

LEMMA PiStep ==
  ASSUME RuntimeInv, NEW k \in Index, Pi(k)
  PROVE  RuntimeInv'
<1> USE DEF RuntimeInv
<1>1. UNCHANGED <<steps, chain, att, pc, step>>
  BY DEF Pi, PiBeginsWrite, PiEndsWrite, PiRunsShell, PiHangs, PiExits, durable
<1>2. UNCHANGED <<profile, taskBound, out, active, seen, cancelled, lost>>
  BY DEF Pi, PiBeginsWrite, PiEndsWrite, PiRunsShell, PiHangs, PiExits, tracker
<1>3. proc' \in [Index -> Proc]
  <2> proc \in [Index -> Proc]
    BY DEF TypeOK
  <2>1. CASE PiBeginsWrite(k)
    <3>1. proc[k].begun + 1 \in Nat
      BY DEF Proc
    <3>2. [proc[k] EXCEPT !.open = TRUE, !.begun = proc[k].begun + 1] \in Proc
      BY <3>1 DEF Proc
    <3> QED
      BY <2>1, <3>2 DEF PiBeginsWrite
  <2>2. CASE PiRunsShell(k) \/ PiHangs(k) \/ PiExits(k)
    <3>1. proc[k] \in Proc
      OBVIOUS
    <3>2. \A p : proc' = [proc EXCEPT ![k] = p] /\ p \in Proc => proc' \in [Index -> Proc]
      OBVIOUS
    <3>3. CASE PiRunsShell(k)
      <4>1. proc[k].shell + 1 \in Nat
        BY <3>1 DEF Proc
      <4>2. [proc[k] EXCEPT !.shell = proc[k].shell + 1] \in Proc
        BY <3>1, <4>1 DEF Proc
      <4> QED
        BY <3>3, <4>2 DEF PiRunsShell
    <3>4. CASE PiHangs(k)
      <4>1. [proc[k] EXCEPT !.quiet = TRUE] \in Proc
        BY <3>1 DEF Proc
      <4> QED
        BY <3>4, <4>1 DEF PiHangs
    <3>5. CASE PiExits(k)
      <4>1. [proc[k] EXCEPT !.life = "gone", !.quiet = FALSE] \in Proc
        BY <3>1 DEF Proc
      <4> QED
        BY <3>5, <4>1 DEF PiExits
    <3> QED
      BY <2>2, <3>3, <3>4, <3>5
  <2>3. ASSUME NEW ok \in BOOLEAN, PiEndsWrite(k, ok) PROVE proc' \in [Index -> Proc]
    <3> DEFINE kept == IF ok THEN proc[k].kept + 1 ELSE proc[k].kept
    <3>1. kept \in Nat
      BY DEF Proc
    <3>2. proc' = [proc EXCEPT ![k] = [proc[k] EXCEPT !.open = FALSE, !.kept = kept]]
      BY <2>3 DEF PiEndsWrite
    <3> HIDE DEF kept
    <3>3. [proc[k] EXCEPT !.open = FALSE, !.kept = kept] \in Proc
      BY <3>1 DEF Proc
    <3> QED
      BY <3>2, <3>3
  <2> QED
    BY <2>1, <2>2, <2>3 DEF Pi
<1>4. pipe' \in [Index -> Seq({"start", "end", "error"})]
  <2> pipe \in [Index -> Seq({"start", "end", "error"})]
    BY DEF TypeOK
  <2>1. CASE PiBeginsWrite(k)
    BY <2>1 DEF PiBeginsWrite, Emit
  <2>2. CASE PiRunsShell(k) \/ PiHangs(k) \/ PiExits(k)
    BY <2>2 DEF PiRunsShell, PiHangs, PiExits
  <2>3. ASSUME NEW ok \in BOOLEAN, PiEndsWrite(k, ok)
        PROVE  pipe' \in [Index -> Seq({"start", "end", "error"})]
    BY <2>3 DEF PiEndsWrite, Emit
  <2> QED
    BY <2>1, <2>2, <2>3 DEF Pi
<1>5. TypeOK'
  BY <1>1, <1>2, <1>3, <1>4 DEF TypeOK
<1> QED
  BY <1>1, <1>5, RowsFrame, ReadableFrame

(* The tracker advances the work state of a running attempt only, and a    *)
(* running attempt is the last one of an open chain.                       *)
LEMMA ObserveStep ==
  ASSUME RuntimeInv, NEW k \in Index, Observe(k), pipe[k] # <<>>,
         UNCHANGED <<profile, steps, taskBound, proc, cancelled, chain, pc, step, out, active,
                     lost>>
  PROVE  RuntimeInv'
<1> USE DEF RuntimeInv
<1> DEFINE e == Head(pipe[k])
           w == WorkAfter(att[active].work, e, seen[k])
<1>1. pipe \in [Index -> Seq({"start", "end", "error"})] /\ att \in [Index -> Attempt]
      /\ active \in Index /\ seen \in [Index -> BOOLEAN]
  BY DEF TypeOK
<1>2. pipe' \in [Index -> Seq({"start", "end", "error"})]
  BY <1>1 DEF Observe
<1>3. seen' \in [Index -> BOOLEAN]
  BY <1>1 DEF Observe
<1>4. w \in {"none", "started", "checkpointed"}
  BY <1>1 DEF WorkAfter, Attempt
<1>5. att' = att \/ (att[active].status = "running" /\ att' = [att EXCEPT ![active].work = w])
  BY DEF Observe
<1> HIDE DEF w
<1>6. att' \in [Index -> Attempt]
  <2>1. [att[active] EXCEPT !.work = w] \in Attempt
    BY <1>1, <1>4 DEF Attempt
  <2>2. att' = att \/ att' = [att EXCEPT ![active] = [att[active] EXCEPT !.work = w]]
    BY <1>5
  <2> QED
    BY <1>1, <2>1, <2>2
<1>7. TypeOK'
  BY <1>2, <1>3, <1>6 DEF TypeOK
<1>8. CASE att' = att
  BY <1>7, <1>8, RowsFrame, ReadableFrame
<1>9. CASE att[active].status = "running" /\ att' = [att EXCEPT ![active].work = w]
  <2>1. \A j \in Index : /\ att'[j].status = att[j].status /\ att'[j].kind = att[j].kind
                         /\ att'[j].spawned = att[j].spawned /\ att'[j].code = att[j].code
                         /\ att[j].status # "running" => att'[j] = att[j]
    BY <1>1, <1>9 DEF Attempt
  <2>2. Rows'
    <3>1. att[1] = NoAttempt => att'[1] = NoAttempt
      BY <2>1 DEF NoAttempt, Index
    <3>2. pc \notin {"idle", "opened"}
      BY <1>1, <1>9 DEF Rows, NoAttempt
    <3> QED
      BY <2>1, <3>1, <3>2 DEF Rows, AttemptRows, Ended, Index, TypeOK
  <2>3. EvidenceReadable'
    <3> SUFFICES ASSUME att'[0].status # "none", chain.status # "none" PROVE EvidenceOK'
      BY DEF EvidenceReadable, EvidenceOK
    <3>1. EvidenceOK
      BY <2>1 DEF EvidenceReadable, Index
    <3>2. \A j \in Index : AttemptOK(att[j]) => AttemptOK(att'[j])
      BY <1>9, <2>1 DEF AttemptOK
    <3>3. chain.ids = 2 => att'[0] = att[0]
      BY <2>1, <3>1 DEF EvidenceOK, SecondOK, LegalSecond, Ended, Terminal, Index
    <3>4. chain.status = "running"
      BY <1>1, <1>9, <3>1 DEF EvidenceOK, ClosedOK, Ended, Terminal, Index
    <3>5. SecondOK /\ chain.ids = 2 => SecondOK'
      BY <2>1, <3>3 DEF SecondOK, LegalSecond, ResultMatches, Ended, Index
    <3> QED
      BY <2>1, <3>1, <3>2, <3>4, <3>5 DEF EvidenceOK, Index
  <2> QED
    BY <1>7, <2>2, <2>3
<1> QED
  BY <1>5, <1>8, <1>9

(* Waiting for a process and giving up on it. *)
LEMMA ProcessStep ==
  ASSUME RuntimeInv,
         \/ Spawn \/ TrackingFails \/ Cancel \/ RejectsTool
         \/ \E o \in Outcomes : SpawnFails(o) \/ SeeClose(o) \/ TimesOut(o)
         \/ \E k \in Index : DropLateEvent(k)
  PROVE  RuntimeInv'
<1> USE DEF RuntimeInv
<1>1. UNCHANGED <<profile, steps, chain, att, step, taskBound, active>>
  BY DEF Spawn, TrackingFails, Cancel, SpawnFails, SeeClose, TimesOut, RejectsTool, Abandon, DropLateEvent,
         durable, tracker, world
<1>2. \/ pc' = pc
      \/ pc = "spawning" /\ pc' \in {"waiting", "cleaning"}
      \/ pc = "waiting" /\ pc' = "cleaning"
  BY DEF Spawn, TrackingFails, Cancel, SpawnFails, SeeClose, TimesOut, RejectsTool, Abandon, DropLateEvent
<1>3. Rows'
  BY <1>1, <1>2 DEF Rows, AttemptRows, Ended, IOPcs, TurnPcs
<1>4. proc' \in [Index -> Proc]
  <2>1. proc \in [Index -> Proc] /\ step \in Index
    BY DEF TypeOK
  <2>2. Signalled(proc[step]) \in Proc
    BY <2>1, SignalledType
  <2>3. GivenUp(proc[step]) \in Proc
    BY <2>1, GivenUpType
  <2>4. \/ proc' = proc
        \/ proc' = [proc EXCEPT ![step].life = "alive"]
        \/ proc' = [proc EXCEPT ![step] = Signalled(proc[step])]
        \/ proc' = [proc EXCEPT ![step] = GivenUp(proc[step])]
    BY DEF Spawn, TrackingFails, Cancel, SpawnFails, SeeClose, TimesOut, RejectsTool, Abandon, DropLateEvent, world
  <2>5. CASE proc' = [proc EXCEPT ![step].life = "alive"]
    BY <2>1, <2>5 DEF Proc
  <2> QED
    BY <2>1, <2>2, <2>3, <2>4, <2>5
<1>5. pipe' \in [Index -> Seq({"start", "end", "error"})]
  <2>1. pipe \in [Index -> Seq({"start", "end", "error"})] /\ step \in Index
    BY DEF TypeOK
  <2>2. \/ pipe' = pipe
        \/ \E k \in Index : pipe[k] # <<>> /\ pipe' = [pipe EXCEPT ![k] = Tail(pipe[k])]
    BY <2>1 DEF Spawn, TrackingFails, Cancel, SpawnFails, SeeClose, TimesOut, RejectsTool, Abandon, DropLateEvent,
               Late, world
  <2>3. ASSUME NEW k \in Index, pipe[k] # <<>>, pipe' = [pipe EXCEPT ![k] = Tail(pipe[k])]
        PROVE  pipe' \in [Index -> Seq({"start", "end", "error"})]
    <3>1. Tail(pipe[k]) \in Seq({"start", "end", "error"})
      BY <2>1, <2>3
    <3> QED
      BY <2>1, <2>3, <3>1
  <2> QED
    BY <2>1, <2>2, <2>3
<1>6. seen' \in [Index -> BOOLEAN]
  BY DEF TypeOK, Spawn, TrackingFails, Cancel, SpawnFails, SeeClose, TimesOut, RejectsTool, Abandon, DropLateEvent,
         tracker
<1>7. pc' \in Pcs /\ out' \in Outcomes /\ cancelled' \in BOOLEAN /\ lost' \in BOOLEAN
  BY <1>2 DEF TypeOK, Spawn, TrackingFails, Cancel, SpawnFails, SeeClose, TimesOut,
         RejectsTool, Abandon, DropLateEvent, world, Pcs, IOPcs, Outcomes
<1>8. TypeOK'
  BY <1>1, <1>4, <1>5, <1>6, <1>7 DEF TypeOK
<1> QED
  BY <1>1, <1>3, <1>8, ReadableFrame

(* The steps that only move the orchestrator. *)
LEMMA MoveStep ==
  ASSUME RuntimeInv, PrepareFails \/ Decide \/ StoreFails \/ Crash \/ Restart
  PROVE  RuntimeInv'
<1> USE DEF RuntimeInv
<1>1. UNCHANGED <<steps, chain, att, step, world, tracker, out>>
  BY DEF PrepareFails, Decide, StoreFails, Crash, Restart, durable, world
<1>2. pc' \in Pcs /\ lost' \in BOOLEAN
  BY DEF TypeOK, PrepareFails, Decide, StoreFails, Crash, Restart, Pcs, TurnPcs, DownPcs
<1>3. TypeOK'
  BY <1>1, <1>2 DEF TypeOK, world, tracker
<1>4. Rows'
  <2>1. CASE PrepareFails
    BY <1>1, <2>1 DEF PrepareFails, Rows, AttemptRows, Ended, IOPcs, TurnPcs
  <2>2. CASE Decide
    BY <1>1, <2>2 DEF Decide, LeaveOpen, Rows, AttemptRows, Ended, IOPcs, TurnPcs
  <2>3. CASE StoreFails
    BY <1>1, <2>3 DEF StoreFails, Rows, AttemptRows, Ended, IOPcs, TurnPcs
  <2>4. CASE Crash \/ Restart
    BY <1>1, <2>4 DEF Crash, Restart, Rows, AttemptRows, Ended, IOPcs, TurnPcs
  <2> QED
    BY <2>1, <2>2, <2>3, <2>4
<1> QED
  BY <1>1, <1>3, <1>4, ReadableFrame

-----------------------------------------------------------------------------
(* The commits *)

LEMMA OpenStep ==
  ASSUME RuntimeInv, OpenInvocation
  PROVE  RuntimeInv'
<1> USE DEF RuntimeInv
<1>1. chain' = OpenChain /\ OpenChain \in Chain
  BY DEF OpenInvocation, OpenChain, Chain, Codes
<1>2. TypeOK'
  BY <1>1 DEF TypeOK, OpenInvocation, world, tracker, Pcs, TurnPcs
<1>3. Rows'
  BY <1>1 DEF OpenInvocation, Rows, IOPcs, TurnPcs, world
<1>4. EvidenceReadable'
  BY DEF OpenInvocation, Rows, EvidenceReadable, NoAttempt, Index
<1> QED
  BY <1>2, <1>3, <1>4

LEMMA OpenChainFields ==
  /\ OpenChain.status = "running" /\ OpenChain.code = "none"
  /\ OpenChain.ids = 1 /\ OpenChain.event = NoEvent
BY DEF OpenChain

LEMMA StartPrimaryStep ==
  ASSUME RuntimeInv, NEW usable \in BOOLEAN, StartPrimary(usable)
  PROVE  RuntimeInv'
<1> USE DEF RuntimeInv
<1>1. att = [k \in Index |-> NoAttempt] /\ chain = OpenChain
  BY DEF StartPrimary, Rows
<1>2. att'[0] = Preparing("primary") /\ att'[1] = NoAttempt /\ chain' = OpenChain
      /\ step' = 0 /\ pc' \in {"preparing", "unprepared"}
  BY <1>1 DEF StartPrimary, Started, Index
<1>3. att' \in [Index -> Attempt]
  <2>1. Preparing("primary") \in Attempt
    BY PreparingType DEF Kinds
  <2> QED
    BY <2>1 DEF TypeOK, StartPrimary
<1>4. TypeOK'
  BY <1>3, StartedType DEF StartPrimary, TypeOK, Index
<1>5. Rows'
  BY <1>2 DEF Rows, AttemptRows, Preparing, NoAttempt, IOPcs, TurnPcs
<1>6. EvidenceReadable'
  BY <1>2 DEF EvidenceReadable, EvidenceOK, AttemptOK, OpenChain, NoChain, Preparing, NoAttempt,
              Terminal
<1> QED
  BY <1>4, <1>5, <1>6

(* What an update of the last attempt of an open chain must keep for the   *)
(* rows to stay readable.                                                  *)
LEMMA ReadableUpdate ==
  ASSUME RuntimeInv, UNCHANGED <<steps, chain>>, att[step].status \in {"preparing", "running"},
         AttemptRows, NEW a \in Attempt, att' = [att EXCEPT ![step] = a],
         a.kind = att[step].kind, a.status # "none", AttemptOK(a), att[0].status # "none"
  PROVE  EvidenceReadable'
<1> USE DEF RuntimeInv
<1>1. EvidenceOK /\ att \in [Index -> Attempt] /\ step \in {0, 1}
  BY DEF EvidenceReadable, TypeOK, Index
<1>2. CASE step = 0
  <2>1. att'[0] = a /\ att'[1] = att[1]
    BY <1>1, <1>2 DEF Index
  <2>2. att[1].status = "none" /\ chain = OpenChain
    BY <1>2 DEF AttemptRows, NoAttempt
  <2> QED
    BY <1>1, <1>2, <2>1, <2>2, OpenChainFields DEF EvidenceReadable, EvidenceOK
<1>3. CASE step = 1
  <2>1. att'[0] = att[0] /\ att'[1] = a /\ chain.status = "running" /\ chain.ids = 2
    BY <1>1, <1>3 DEF Index, AttemptRows
  <2>2. SecondOK'
    BY <1>1, <1>3, <2>1 DEF EvidenceOK, AttemptRows, SecondOK, LegalSecond, ResultMatches, Ended
  <2> QED
    BY <1>1, <2>1, <2>2 DEF EvidenceReadable, EvidenceOK
<1> QED
  BY <1>1, <1>2, <1>3

LEMMA MarkSpawnedStep ==
  ASSUME RuntimeInv, MarkSpawned
  PROVE  RuntimeInv'
<1> USE DEF RuntimeInv
<1> DEFINE a == [att[step] EXCEPT !.status = "running", !.spawned = TRUE]
<1>1. att \in [Index -> Attempt] /\ step \in Index /\ AttemptRows
      /\ att[step].status = "preparing" /\ att[0].status # "none"
  BY DEF TypeOK, MarkSpawned, Rows, IOPcs, TurnPcs
<1>2. a \in Attempt /\ a.kind = att[step].kind /\ a.status = "running"
      /\ a.spawned /\ a.code = att[step].code
  BY <1>1 DEF Attempt
<1>3. att' = [att EXCEPT ![step] = a]
  BY DEF MarkSpawned
<1>4. AttemptOK(att[step])
  <2>1. EvidenceOK
    BY <1>1 DEF EvidenceReadable
  <2> QED
    BY <1>1, <2>1 DEF EvidenceOK, AttemptRows, OpenChain, NoChain, Index
<1>5. AttemptOK(a)
  BY <1>1, <1>2, <1>4 DEF AttemptOK, Terminal
<1> HIDE DEF a
<1>6. EvidenceReadable'
  BY <1>1, <1>2, <1>3, <1>5, ReadableUpdate DEF MarkSpawned, world
<1>7. att' \in [Index -> Attempt]
  BY <1>1, <1>2, <1>3
<1>8. TypeOK'
  BY <1>7 DEF TypeOK, MarkSpawned, world, tracker, Pcs, IOPcs
<1>9. Rows'
  <2>1. step = 0 => att'[1] = att[1]
    BY <1>1, <1>3 DEF Index
  <2>2. att'[step] = a
    BY <1>1, <1>3
  <2>3. att'[0].status # "none"
    BY <1>1, <1>2, <1>3
  <2> QED
    BY <1>1, <1>2, <2>1, <2>2, <2>3 DEF Rows, AttemptRows, MarkSpawned, IOPcs, TurnPcs
<1> QED
  BY <1>6, <1>8, <1>9

LEMMA SettleStep ==
  ASSUME RuntimeInv,
         \/ SettleUnprepared
         \/ \E cleaned \in BOOLEAN : CleanUp(cleaned)
  PROVE  RuntimeInv'
<1> USE DEF RuntimeInv
<1>1. PICK o \in Outcomes : SettleAs(o) /\ (att[step].status = "preparing" => o = "failed")
  <2>1. CASE SettleUnprepared
    BY <2>1 DEF SettleUnprepared, Outcomes
  <2>2. ASSUME NEW cleaned \in BOOLEAN, CleanUp(cleaned)
        PROVE  /\ (IF cleaned THEN out ELSE "failed") \in Outcomes
               /\ SettleAs(IF cleaned THEN out ELSE "failed")
               /\ att[step].status # "preparing"
    BY <2>2 DEF CleanUp, TypeOK, Outcomes, Rows
  <2> QED
    BY <2>1, <2>2
<1> DEFINE a == [att[step] EXCEPT !.status = StatusOf(o), !.code = CodeOf(o)]
<1>2. att \in [Index -> Attempt] /\ step \in Index /\ AttemptRows
      /\ att[step].status \in {"preparing", "running"} /\ att[0].status # "none"
  BY DEF TypeOK, SettleUnprepared, CleanUp, Rows, IOPcs, TurnPcs
<1>3. StatusOf(o) \in Terminal /\ CodeOf(o) \in Codes
  BY DEF Outcomes, StatusOf, CodeOf, Terminal, Codes
<1>4. /\ a \in Attempt /\ a.kind = att[step].kind /\ a.status = StatusOf(o)
      /\ a.spawned = att[step].spawned /\ a.code = CodeOf(o) /\ a.work = att[step].work
  BY <1>2, <1>3 DEF Attempt
<1>5. att' = [att EXCEPT ![step] = a]
  BY <1>1 DEF SettleAs
<1>6. AttemptOK(att[step])
  <2>1. EvidenceOK
    BY <1>2 DEF EvidenceReadable
  <2> QED
    BY <1>2, <2>1, OpenChainFields DEF EvidenceOK, AttemptRows, Index
<1> HIDE DEF a
<1>7. AttemptOK(a)
  BY <1>1, <1>2, <1>3, <1>4, <1>6 DEF AttemptOK, Terminal, Outcomes, StatusOf, CodeOf
<1>8. EvidenceReadable'
  <2>1. UNCHANGED <<steps, chain>> /\ a.status # "none"
    BY <1>1, <1>3, <1>4 DEF SettleAs, world, Terminal
  <2> QED
    BY <1>2, <1>4, <1>5, <1>7, <2>1, ReadableUpdate
<1>9. Rows'
  <2>1. UNCHANGED <<steps, chain, step>> /\ pc' = "settled"
    BY <1>1 DEF SettleAs, world
  <2>2. att'[step] = a /\ a.status \in Terminal /\ (step = 0 => att'[1] = att[1])
    BY <1>2, <1>3, <1>4, <1>5 DEF Index
  <2>3. att'[0].status # "none"
    BY <1>2, <1>5, <2>2 DEF Index, Terminal
  <2> QED
    BY <1>2, <2>1, <2>2, <2>3 DEF Rows, AttemptRows, Ended, IOPcs, TurnPcs
<1> QED
  BY <1>1, <1>8, <1>9, SettleAsType

LEMMA RouteResultStep ==
  ASSUME RuntimeInv, RecordRouteResult
  PROVE  RuntimeInv'
<1> USE DEF RuntimeInv
<1> DEFINE r == IF att[1].status = "completed" THEN "completed" ELSE "failed"
<1>1. step = 1 /\ chain.status = "running" /\ chain.ids = 2 /\ Ended(1) /\ att[0].status # "none"
  BY DEF RecordRouteResult, Rows, AttemptRows, TurnPcs
<1>2. EvidenceOK /\ SecondOK
  BY <1>1 DEF EvidenceReadable, EvidenceOK
<1>3. chain \in Chain /\ chain.event \in Event /\ r \in {"completed", "failed"}
  BY <1>2 DEF TypeOK, SecondOK
<1>4. chain' = [chain EXCEPT !.event = [chain.event EXCEPT !.result = r]]
  BY DEF RecordRouteResult
<1>5. ResultMatches(r, att[1].status)
  BY <1>1 DEF ResultMatches, Ended
<1> HIDE DEF r
<1>6. /\ [chain.event EXCEPT !.result = r] \in Event
      /\ [chain.event EXCEPT !.result = r].kind = chain.event.kind
      /\ [chain.event EXCEPT !.result = r].reason = chain.event.reason
      /\ [chain.event EXCEPT !.result = r].result = r
  BY <1>3 DEF Event
<1>7. /\ chain' \in Chain /\ chain'.status = "running" /\ chain'.ids = 2
      /\ chain'.event = [chain.event EXCEPT !.result = r]
  BY <1>1, <1>3, <1>4, <1>6 DEF Chain
<1>8. TypeOK'
  BY <1>7 DEF TypeOK, RecordRouteResult, world, tracker, Pcs, TurnPcs
<1>9. Rows'
  BY <1>1, <1>6, <1>7 DEF Rows, RecordRouteResult, Ended, IOPcs, TurnPcs, r
<1>10. EvidenceReadable'
  <2>1. SecondOK'
    BY <1>2, <1>5, <1>6, <1>7 DEF SecondOK, LegalSecond, Ended, RecordRouteResult, world,
       ResultMatches
  <2> QED
    BY <1>1, <1>2, <1>7, <2>1 DEF EvidenceReadable, EvidenceOK, RecordRouteResult
<1> QED
  BY <1>8, <1>9, <1>10

(* Closing a chain with the result of its last attempt, which has ended. *)
LEMMA CloseStep ==
  ASSUME RuntimeInv, NEW k \in Index, Close(att[k]), Ended(k), att[0].status # "none",
         chain.status = "running",
         \/ k = 0 /\ chain.ids = 1
         \/ /\ k = 1 /\ chain.ids = 2
            /\ chain.event.result = IF att[1].status = "completed" THEN "completed" ELSE "failed"
  PROVE  RuntimeInv'
<1> USE DEF RuntimeInv
<1>1. chain \in Chain /\ att[k] \in Attempt
  BY DEF TypeOK
<1>2. /\ chain'.status = att[k].status /\ chain'.code = att[k].code
      /\ chain'.ids = chain.ids /\ chain'.event = chain.event
  BY <1>1 DEF Close, Chain
<1>3. EvidenceOK
  BY DEF EvidenceReadable
<1>4. UNCHANGED <<steps, att>> /\ pc' = "done"
  BY DEF Close, world
<1>5. ClosedOK'
  <2>1. CASE k = 0 /\ chain.ids = 1
    BY <1>2, <1>4, <2>1 DEF ClosedOK, ChainMatches, Final, Ended
  <2>2. CASE k = 1 /\ chain.ids = 2
    BY <1>2, <1>3, <1>4, <2>2 DEF EvidenceOK, SecondOK, LegalSecond, ClosedOK, ChainMatches,
       Final, Ended
  <2> QED
    BY <2>1, <2>2
<1>6. SecondOK => SecondOK'
  BY <1>2, <1>4 DEF SecondOK, LegalSecond, ResultMatches, Ended
<1>7. EvidenceReadable'
  BY <1>2, <1>3, <1>4, <1>5, <1>6 DEF EvidenceReadable, EvidenceOK
<1>8. Rows'
  BY <1>4 DEF Rows, IOPcs, TurnPcs
<1> QED
  BY <1>7, <1>8, CloseType

LEMMA ClosingStep ==
  ASSUME RuntimeInv, CloseFinal \/ CloseFailed \/ WorkStateReadFails
  PROVE  RuntimeInv'
<1>1. CASE pc = "settled" /\ step = 0 /\ Close(att[0])
  BY <1>1, CloseStep, OpenChainFields DEF RuntimeInv, Rows, AttemptRows, Index, TurnPcs
<1>2. CASE pc = "routed" /\ Close(att[step])
  BY <1>2, CloseStep DEF RuntimeInv, Rows, Index, TurnPcs
<1>3. CASE pc \in {"deciding", "closing"} /\ Close(att[0])
  BY <1>3, CloseStep, OpenChainFields DEF RuntimeInv, Rows, Index, TurnPcs
<1> QED
  BY <1>1, <1>2, <1>3 DEF CloseFinal, CloseFailed, WorkStateReadFails, RuntimeInv, Rows

LEMMA HandOffStep ==
  ASSUME RuntimeInv, NEW usable \in BOOLEAN, HandOff(usable)
  PROVE  RuntimeInv'
<1> USE DEF RuntimeInv
<1> DEFINE e == [kind |-> SecondKind, reason |-> att[0].code, result |-> "started"]
<1>1. /\ chain = OpenChain /\ steps = 2 /\ Ended(0) /\ att[0].status # "completed"
      /\ att \in [Index -> Attempt]
  BY DEF HandOff, Rows, TypeOK
<1>2. /\ SecondKind \in {"fallback", "recovery"}
      /\ SecondKind = "fallback" => att[0].work = "none"
      /\ SecondKind = "recovery" => att[0].work = "checkpointed"
  BY DEF HandOff, SecondKind
<1>3. EvidenceOK /\ att[0].status # "none"
  BY <1>1 DEF EvidenceReadable, Ended, Terminal
<1>4. LegalSecond(SecondKind)
  BY <1>1, <1>2, <1>3 DEF LegalSecond, EvidenceOK, AttemptOK, OpenChain, Ended
<1>5. e \in Event /\ e.kind = SecondKind /\ e.reason = att[0].code /\ e.result = "started"
  BY <1>1, <1>2 DEF Event, Attempt, Index
<1>6. Preparing(SecondKind) \in Attempt
  BY <1>2, PreparingType DEF Kinds
<1>7. /\ Preparing(SecondKind).status = "preparing" /\ Preparing(SecondKind).kind = SecondKind
      /\ AttemptOK(Preparing(SecondKind))
  BY DEF Preparing, NoAttempt, AttemptOK, Terminal
<1>8. /\ att' = [att EXCEPT ![1] = Preparing(SecondKind)]
      /\ chain' = [chain EXCEPT !.ids = 2, !.event = e]
      /\ step' = 1 /\ pc' \in {"preparing", "unprepared"} /\ steps' = steps
  BY DEF HandOff, Started, world
<1> HIDE DEF e
<1>9. /\ chain' \in Chain /\ chain'.status = "running" /\ chain'.ids = 2 /\ chain'.event = e
  <2>1. chain \in Chain /\ 2 \in 0..2 /\ e \in Event \cup {NoEvent}
    BY <1>5 DEF TypeOK
  <2>2. chain' \in Chain
    BY <1>8, <2>1 DEF Chain
  <2>3. chain'.status = chain.status /\ chain'.ids = 2 /\ chain'.event = e
    BY <1>8, <2>1 DEF Chain
  <2> QED
    BY <1>1, <2>2, <2>3, OpenChainFields
<1>10. /\ att'[0] = att[0] /\ att'[1] = Preparing(SecondKind) /\ att' \in [Index -> Attempt]
  BY <1>1, <1>6, <1>8 DEF Index
<1>11. TypeOK'
  BY <1>9, <1>10, StartedType DEF HandOff, Index
<1>12. Rows'
  BY <1>3, <1>5, <1>7, <1>8, <1>9, <1>10 DEF Rows, AttemptRows, IOPcs, TurnPcs
<1>13. SecondOK'
  BY <1>2, <1>4, <1>5, <1>7, <1>8, <1>9, <1>10 DEF SecondOK, LegalSecond, ResultMatches, Ended
<1>14. EvidenceReadable'
  <2>1. att[0].kind = "primary" /\ AttemptOK(att[0])
    BY <1>1, <1>3, OpenChainFields DEF EvidenceOK
  <2> QED
    BY <1>3, <1>7, <1>9, <1>10, <1>13, <2>1 DEF EvidenceReadable, EvidenceOK
<1> QED
  BY <1>11, <1>12, <1>14

-----------------------------------------------------------------------------
(* The theorems *)

LEMMA StepHolds == RuntimeInv /\ [Next]_vars => RuntimeInv'
<1> SUFFICES ASSUME RuntimeInv, [Next]_vars PROVE RuntimeInv'
  OBVIOUS
<1>1. CASE Proceed
  <2>1. ASSUME NEW o \in {"failed", "safety", "timed_out", "cancelled"}, SpawnFails(o)
        PROVE  RuntimeInv'
    BY <2>1, ProcessStep DEF Outcomes
  <2> QED
    BY <1>1, <2>1, StartPrimaryStep, HandOffStep, MarkSpawnedStep, MoveStep, ProcessStep,
       SettleStep, RouteResultStep, ClosingStep DEF Proceed
<1>2. CASE OpenInvocation
  BY <1>2, OpenStep
<1>3. CASE ReadEvent
  BY <1>3, ObserveStep DEF ReadEvent, RuntimeInv, TypeOK
<1>4. CASE \E k \in Index : ReadLateEvent(k)
  BY <1>4, ObserveStep DEF ReadLateEvent, Late
<1>5. CASE \E k \in Index : Pi(k)
  BY <1>5, PiStep
<1>6. CASE \/ Cancel \/ TrackingFails \/ RejectsTool
           \/ \E o \in Outcomes : SeeClose(o) \/ TimesOut(o)
           \/ \E k \in Index : DropLateEvent(k)
  BY <1>6, ProcessStep
<1>7. CASE StoreFails \/ Crash \/ Restart
  BY <1>7, MoveStep
<1>8. CASE WorkStateReadFails
  BY <1>8, ClosingStep
<1>9. CASE UNCHANGED vars
  <2>1. TypeOK'
    BY <1>9 DEF vars, TypeOK, RuntimeInv
  <2> QED
    BY <1>9, <2>1, RowsFrame, ReadableFrame DEF vars, RuntimeInv
<1> QED
  BY <1>1, <1>2, <1>3, <1>4, <1>5, <1>6, <1>7, <1>8, <1>9 DEF Next

LEMMA RuntimeInvHolds == Spec => []RuntimeInv
BY InitHolds, StepHolds, PTL DEF Spec

(* The rows, the executor's position and the processes keep their types    *)
(* whatever the invocation meets.                                          *)
THEOREM RuntimeTypeCorrect == Spec => []TypeOK
<1>1. RuntimeInv => TypeOK
  BY DEF RuntimeInv
<1> QED
  BY <1>1, RuntimeInvHolds, PTL

(* A receipt whose primary attempt is recorded can be read back after any  *)
(* sequence of commits, refusals, crashes, late tool events and            *)
(* cancellations.                                                          *)
THEOREM ReceiptAlwaysReadable == Spec => []EvidenceReadable
<1>1. RuntimeInv => EvidenceReadable
  BY DEF RuntimeInv
<1> QED
  BY <1>1, RuntimeInvHolds, PTL

-----------------------------------------------------------------------------
(* What a step does to the rows *)

SettlesAttempt ==
  \E o \in Outcomes : /\ SettleAs(o) /\ AttemptRows /\ att[0].status # "none"
                      /\ att[step].status \in {"preparing", "running"}
ClosesChain ==
  /\ chain.status = "running" /\ att[0].status # "none"
  /\ \/ Close(att[0]) /\ Ended(0) /\ att[1] = NoAttempt
     \/ Close(att[1]) /\ Ended(1)
AdvancesWork ==
  \E k \in Index : \E w \in {"none", "started", "checkpointed"} :
    /\ att[k].status = "running" /\ att' = [att EXCEPT ![k].work = w] /\ chain' = chain

LEMMA StepEffects ==
  ASSUME RuntimeInv, [Next]_vars
  PROVE  \/ UNCHANGED <<att, chain>>
         \/ AdvancesWork \/ SettlesAttempt \/ ClosesChain
         \/ OpenInvocation \/ MarkSpawned \/ RecordRouteResult
         \/ \E usable \in BOOLEAN : StartPrimary(usable) \/ HandOff(usable)
<1> DEFINE Goal == \/ UNCHANGED <<att, chain>>
                   \/ AdvancesWork \/ SettlesAttempt \/ ClosesChain
                   \/ OpenInvocation \/ MarkSpawned \/ RecordRouteResult
                   \/ \E usable \in BOOLEAN : StartPrimary(usable) \/ HandOff(usable)
<1>1. CASE \/ PrepareFails \/ Spawn \/ Decide \/ Cancel \/ StoreFails \/ TrackingFails \/ Crash \/ Restart
           \/ \E o \in {"failed", "safety", "timed_out", "cancelled"} : SpawnFails(o)
           \/ RejectsTool \/ \E o \in Outcomes : SeeClose(o) \/ TimesOut(o)
           \/ \E k \in Index : DropLateEvent(k) \/ Pi(k)
           \/ UNCHANGED vars
  BY <1>1 DEF PrepareFails, Spawn, Decide, Cancel, StoreFails, TrackingFails, Crash, Restart, SpawnFails,
     SeeClose, TimesOut, RejectsTool, Abandon, DropLateEvent, Pi, PiBeginsWrite, PiEndsWrite, PiRunsShell, PiHangs, PiExits, durable, vars
<1>2. CASE ReadEvent \/ \E k \in Index : ReadLateEvent(k)
  <2>1. PICK k \in Index : Observe(k) /\ pipe[k] # <<>> /\ chain' = chain
    BY <1>2 DEF ReadEvent, ReadLateEvent, Late, RuntimeInv, TypeOK
  <2>2. active \in Index /\ att \in [Index -> Attempt]
    BY DEF RuntimeInv, TypeOK
  <2>3. WorkAfter(att[active].work, Head(pipe[k]), seen[k]) \in {"none", "started", "checkpointed"}
    BY <2>2 DEF WorkAfter, Attempt
  <2>4. \/ att' = att
        \/ /\ att[active].status = "running"
           /\ att' = [att EXCEPT ![active].work = WorkAfter(att[active].work, Head(pipe[k]), seen[k])]
    BY <2>1 DEF Observe
  <2> QED  BY <2>1, <2>2, <2>3, <2>4 DEF AdvancesWork
<1>3. CASE SettleUnprepared \/ \E cleaned \in BOOLEAN : CleanUp(cleaned)
  <2>1. PICK o \in Outcomes : SettleAs(o)
    BY <1>3 DEF SettleUnprepared, CleanUp, Outcomes, RuntimeInv, TypeOK
  <2>2. AttemptRows /\ att[step].status \in {"preparing", "running"} /\ att[0].status # "none"
    BY <1>3 DEF SettleUnprepared, CleanUp, RuntimeInv, Rows, IOPcs, TurnPcs
  <2> QED  BY <2>1, <2>2 DEF SettlesAttempt
<1>4. CASE CloseFinal \/ CloseFailed \/ WorkStateReadFails
  <2>1. CASE pc = "settled" /\ step = 0 /\ Close(att[0])
    BY <2>1, OpenChainFields DEF RuntimeInv, Rows, AttemptRows, TurnPcs, ClosesChain
  <2>2. CASE pc = "routed" /\ Close(att[step])
    BY <2>2 DEF RuntimeInv, Rows, TurnPcs, ClosesChain
  <2>3. CASE pc \in {"deciding", "closing"} /\ Close(att[0])
    BY <2>3, OpenChainFields DEF RuntimeInv, Rows, TurnPcs, ClosesChain
  <2> QED
    BY <1>4, <2>1, <2>2, <2>3 DEF CloseFinal, CloseFailed, WorkStateReadFails, RuntimeInv, Rows
<1> HIDE DEF Goal
<1>5. Goal
  BY <1>1, <1>2, <1>3, <1>4 DEF Next, Proceed, Goal
<1> QED  BY <1>5 DEF Goal

-----------------------------------------------------------------------------
(* What has ended stays as it is *)

LEMMA EndedStays ==
  ASSUME RuntimeInv, [Next]_vars
  PROVE  /\ \A k \in Index : Ended(k) => att'[k] = att[k]
         /\ chain.status \in Terminal => chain' = chain
<1>1. att \in [Index -> Attempt] /\ step \in Index
  BY DEF RuntimeInv, TypeOK
<1>2. CASE UNCHANGED <<att, chain>>
  BY <1>2
<1>3. CASE AdvancesWork
  BY <1>1, <1>3 DEF AdvancesWork, Ended, Terminal
<1>4. CASE SettlesAttempt
  BY <1>1, <1>4 DEF SettlesAttempt, SettleAs, Ended, Terminal
<1>5. CASE ClosesChain
  BY <1>5 DEF ClosesChain, Close, Terminal
<1>6. CASE OpenInvocation
  BY <1>6 DEF OpenInvocation, RuntimeInv, Rows, NoChain, Terminal
<1>7. CASE MarkSpawned
  BY <1>1, <1>7 DEF MarkSpawned, RuntimeInv, Rows, Ended, Terminal
<1>8. CASE RecordRouteResult
  <2>1. chain.status = "running"
    BY <1>8 DEF RecordRouteResult, RuntimeInv, Rows, AttemptRows
  <2> QED  BY <1>8, <2>1 DEF RecordRouteResult, Terminal
<1>9. CASE \E usable \in BOOLEAN : StartPrimary(usable)
  <2>1. att[0] = NoAttempt /\ NoAttempt.status = "none"
    BY <1>9 DEF StartPrimary, RuntimeInv, Rows, NoAttempt, Index
  <2> QED  BY <1>1, <1>9, <2>1 DEF StartPrimary, Ended, Terminal
<1>10. CASE \E usable \in BOOLEAN : HandOff(usable)
  <2>1. att[1] = NoAttempt /\ NoAttempt.status = "none" /\ chain.status = "running"
    BY <1>10, OpenChainFields DEF HandOff, RuntimeInv, Rows, NoAttempt
  <2> QED  BY <1>1, <1>10, <2>1 DEF HandOff, Ended, Terminal
<1> QED  BY <1>2, <1>3, <1>4, <1>5, <1>6, <1>7, <1>8, <1>9, <1>10, StepEffects

(* An attempt that has ended and a chain that is closed never change, for  *)
(* any number of tool events still in the pipes and whatever the           *)
(* orchestrator does or fails to do (the store's settled rows).            *)
THEOREM SettledStays == Spec => SettledIsFinal
<1>1. RuntimeInv /\ [Next]_vars =>
        [/\ \A k \in Index : Ended(k) => att'[k] = att[k]
         /\ chain.status \in Terminal => chain' = chain]_vars
  BY EndedStays
<1> QED  BY <1>1, RuntimeInvHolds, PTL DEF Spec, SettledIsFinal

-----------------------------------------------------------------------------
(* An invocation that has returned is closed *)

DoneIsClosed == pc = "done" /\ ~ lost => chain.status \in Terminal /\ att[0].status # "none"

LEMMA DoneStep ==
  ASSUME RuntimeInv, DoneIsClosed, [Next]_vars
  PROVE  DoneIsClosed'
<1> SUFFICES ASSUME pc' = "done", ~ lost' PROVE chain'.status \in Terminal /\ att'[0].status # "none"
  BY DEF DoneIsClosed
<1>1. \/ pc = "done" /\ lost' = lost
      \/ CloseFinal \/ CloseFailed \/ WorkStateReadFails
  BY DEF Next, Proceed, OpenInvocation, ReadEvent, Cancel, SeeClose, TimesOut, RejectsTool, Abandon,
     ReadLateEvent, DropLateEvent,
     Pi, PiBeginsWrite, PiEndsWrite, PiRunsShell, PiHangs, PiExits, StoreFails, TrackingFails, Crash, Restart, StartPrimary,
     HandOff, Started, MarkSpawned, PrepareFails, Spawn, SpawnFails, SettleUnprepared, CleanUp, SettleAs,
     RecordRouteResult, Decide, vars
<1>2. CASE pc = "done" /\ lost' = lost
  <2>1. chain.status \in Terminal /\ att[0].status # "none"
    BY <1>2 DEF DoneIsClosed
  <2>2. EvidenceOK
    BY <2>1 DEF RuntimeInv, EvidenceReadable
  <2>3. Ended(0)
    BY <2>1, <2>2 DEF EvidenceOK, ClosedOK, Terminal
  <2>4. att'[0] = att[0] /\ chain' = chain
    BY <2>1, <2>3, EndedStays DEF Index
  <2> QED  BY <2>1, <2>4
<1>3. CASE CloseFinal \/ CloseFailed \/ WorkStateReadFails
  <2>1. PICK k \in Index : Close(att[k]) /\ Ended(k) /\ att[0].status # "none"
    BY <1>3 DEF CloseFinal, CloseFailed, WorkStateReadFails, RuntimeInv, Rows, TypeOK, Index, TurnPcs
  <2>2. chain \in Chain
    BY DEF RuntimeInv, TypeOK
  <2>3. chain'.status = att[k].status /\ att' = att
    BY <2>1, <2>2 DEF Close, Chain
  <2> QED  BY <2>1, <2>3 DEF Ended
<1> QED  BY <1>1, <1>2, <1>3

(* An invocation whose writes were all accepted returns with every attempt *)
(* ended and the chain closed with the last one's result, whichever of     *)
(* executor and coordinator closed it.                                     *)
THEOREM ReturnsClosed == Spec => []ClosedWhenReturned
<1>1. Init => DoneIsClosed
  BY DEF Init, DoneIsClosed
<1>2. RuntimeInv /\ DoneIsClosed => ClosedWhenReturned
  <2> SUFFICES ASSUME RuntimeInv, DoneIsClosed, pc = "done", ~ lost
               PROVE  /\ Ended(0) /\ (att[1].status # "none" => Ended(1))
                      /\ ChainMatches(chain.status, chain.code,
                                      IF att[1].status = "none" THEN att[0] ELSE att[1])
    BY DEF ClosedWhenReturned
  <2>1. chain.status \in Terminal /\ EvidenceOK
    BY DEF RuntimeInv, EvidenceReadable, DoneIsClosed
  <2> QED  BY <2>1 DEF EvidenceOK, ClosedOK, Final, Terminal
<1> QED  BY <1>1, <1>2, RuntimeInvHolds, DoneStep, PTL DEF Spec

-----------------------------------------------------------------------------
(* The route sequence *)

ResultOf(a) == IF a.status \in Terminal THEN a.status ELSE "open"
RunsNow ==
  IF att[0].status = "none" THEN <<>>
  ELSE IF att[1].status = "none" THEN <<ResultOf(att[0])>>
  ELSE <<ResultOf(att[0]), ResultOf(att[1])>>
VerdictNow == IF chain.status \in Terminal THEN chain.status ELSE "open"

RBegin ==
  /\ VerdictNow = "open"
  /\ RunsNow = <<>> \/ \E r \in RS!Failures : RunsNow = <<r>>
  /\ RunsNow' = Append(RunsNow, "open") /\ VerdictNow' = VerdictNow
REnd(r) ==
  /\ RunsNow # <<>> /\ RunsNow[Len(RunsNow)] = "open"
  /\ RunsNow' = [RunsNow EXCEPT ![Len(RunsNow)] = r] /\ VerdictNow' = VerdictNow
RConclude ==
  /\ VerdictNow = "open" /\ RunsNow # <<>> /\ RunsNow[Len(RunsNow)] \in RS!Results
  /\ VerdictNow' = RunsNow[Len(RunsNow)] /\ RunsNow' = RunsNow

LEMMA MappedSteps ==
  /\ RBegin => RS!Begin
  /\ \A r \in RS!Results : REnd(r) => RS!End(r)
  /\ RConclude => RS!Conclude
  /\ Init => RS!RSInit
<1>1. RBegin => RS!Begin
  BY DEF RBegin, RS!Begin, RunsNow, VerdictNow, ResultOf
<1>2. \A r \in RS!Results : REnd(r) => RS!End(r)
  BY DEF REnd, RS!End, RunsNow, VerdictNow, ResultOf
<1>3. RConclude => RS!Conclude
  BY DEF RConclude, RS!Conclude, RunsNow, VerdictNow, ResultOf
<1>4. Init => RS!RSInit
  BY DEF Init, RS!RSInit, NoAttempt, NoChain, Terminal, Index
<1> QED  BY <1>1, <1>2, <1>3, <1>4

(* Each step of the store's rows is one step of the route sequence, or     *)
(* changes nothing that a receipt shows.                                   *)
LEMMA RouteStep ==
  ASSUME RuntimeInv, [Next]_vars
  PROVE  \/ RBegin \/ RConclude \/ (\E r \in RS!Results : REnd(r))
         \/ UNCHANGED <<RunsNow, VerdictNow>>
<1>1. att \in [Index -> Attempt] /\ step \in Index /\ chain \in Chain /\ EvidenceReadable
  BY DEF RuntimeInv, TypeOK
<1>2. CASE UNCHANGED <<att, chain>>
  BY <1>2 DEF RunsNow, VerdictNow, ResultOf
<1>3. CASE AdvancesWork
  <2>1. \A k \in Index : att'[k].status = att[k].status
    BY <1>1, <1>3 DEF AdvancesWork, Attempt
  <2> QED  BY <1>3, <2>1 DEF AdvancesWork, RunsNow, VerdictNow, ResultOf, Index
<1>4. CASE SettlesAttempt
  <2>1. PICK o \in Outcomes : /\ SettleAs(o) /\ AttemptRows /\ att[0].status # "none"
                              /\ att[step].status \in {"preparing", "running"}
    BY <1>4 DEF SettlesAttempt
  <2>2. StatusOf(o) \in Terminal /\ Terminal = RS!Results
    BY DEF StatusOf, Outcomes, Terminal, RS!Results, RS!Failures
  <2>3. /\ att'[step].status = StatusOf(o)
        /\ \A k \in Index \ {step} : att'[k] = att[k]
        /\ chain' = chain
    BY <1>1, <2>1 DEF SettleAs, Attempt
  <2>4. VerdictNow' = VerdictNow
    BY <2>3 DEF VerdictNow
  <2>5. CASE step = 0
    <3>1. att[1].status = "none" /\ att'[1].status = "none"
      BY <2>1, <2>3, <2>5 DEF AttemptRows, NoAttempt, Index
    <3>2. RunsNow = <<"open">> /\ RunsNow' = <<StatusOf(o)>>
      BY <2>1, <2>2, <2>3, <2>5, <3>1 DEF RunsNow, ResultOf, Terminal
    <3> QED  BY <2>2, <2>4, <3>2 DEF REnd
  <2>6. CASE step = 1
    <3>1. RunsNow = <<ResultOf(att[0]), "open">> /\ RunsNow' = <<ResultOf(att[0]), StatusOf(o)>>
      BY <2>1, <2>2, <2>3, <2>6 DEF RunsNow, ResultOf, Terminal, Index
    <3> QED  BY <2>2, <2>4, <3>1 DEF REnd
  <2> QED  BY <1>1, <2>5, <2>6 DEF Index
<1>5. CASE ClosesChain
  <2>1. Terminal = RS!Results
    BY DEF Terminal, RS!Results, RS!Failures
  <2>2. VerdictNow = "open" /\ att' = att /\ RunsNow' = RunsNow
    BY <1>5 DEF ClosesChain, Close, VerdictNow, RunsNow, ResultOf, Terminal
  <2>3. CASE Close(att[0]) /\ Ended(0) /\ att[1] = NoAttempt
    <3>1. RunsNow = <<att[0].status>>
      BY <1>5, <2>3 DEF ClosesChain, RunsNow, ResultOf, Ended, NoAttempt
    <3>2. VerdictNow' = att[0].status
      BY <1>1, <2>3 DEF Close, VerdictNow, Ended, Chain
    <3> QED  BY <2>1, <2>2, <2>3, <3>1, <3>2 DEF RConclude, Ended
  <2>4. CASE Close(att[1]) /\ Ended(1)
    <3>1. RunsNow = <<ResultOf(att[0]), att[1].status>>
      BY <1>5, <2>4 DEF ClosesChain, RunsNow, ResultOf, Ended, Terminal
    <3>2. VerdictNow' = att[1].status
      BY <1>1, <2>4 DEF Close, VerdictNow, Ended, Chain
    <3> QED  BY <2>1, <2>2, <2>4, <3>1, <3>2 DEF RConclude, Ended
  <2> QED  BY <1>5, <2>3, <2>4 DEF ClosesChain
<1>6. CASE OpenInvocation
  <2>1. att' = att /\ chain.status = "none" /\ chain'.status = "running"
    BY <1>6, OpenChainFields DEF OpenInvocation, RuntimeInv, Rows, NoChain
  <2> QED  BY <2>1 DEF RunsNow, VerdictNow, ResultOf, Terminal
<1>7. CASE MarkSpawned
  <2>1. /\ chain' = chain /\ att[step].status = "preparing" /\ att'[step].status = "running"
        /\ \A k \in Index \ {step} : att'[k] = att[k]
    BY <1>1, <1>7 DEF MarkSpawned, RuntimeInv, Rows, Attempt
  <2> QED  BY <1>1, <2>1 DEF RunsNow, VerdictNow, ResultOf, Terminal, Index
<1>8. CASE RecordRouteResult
  <2>1. att' = att /\ chain'.status = chain.status
    BY <1>1, <1>8 DEF RecordRouteResult, Chain
  <2> QED  BY <2>1 DEF RunsNow, VerdictNow, ResultOf
<1>9. CASE \E usable \in BOOLEAN : StartPrimary(usable)
  <2>1. att[0].status = "none" /\ att[1].status = "none" /\ chain.status = "running" /\ chain' = chain
    BY <1>9, OpenChainFields DEF StartPrimary, RuntimeInv, Rows, NoAttempt, Index
  <2>2. att'[0].status = "preparing" /\ att'[1].status = "none"
    BY <1>1, <1>9, <2>1 DEF StartPrimary, Preparing, NoAttempt, Index
  <2>3. RunsNow = <<>> /\ RunsNow' = <<"open">> /\ VerdictNow = "open" /\ VerdictNow' = "open"
    BY <2>1, <2>2 DEF RunsNow, VerdictNow, ResultOf, Terminal
  <2> QED  BY <2>3 DEF RBegin
<1>10. CASE \E usable \in BOOLEAN : HandOff(usable)
  <2>1. /\ att[0].status \in Terminal \ {"completed"} /\ att[1].status = "none"
        /\ chain.status = "running"
    BY <1>10, OpenChainFields DEF HandOff, RuntimeInv, Rows, NoAttempt, Ended
  <2>2. att'[0] = att[0] /\ att'[1].status = "preparing" /\ chain'.status = "running"
    <3>1. att'[0] = att[0] /\ att'[1].status = "preparing"
      BY <1>1, <1>10 DEF HandOff, Preparing, NoAttempt, Index
    <3>2. chain'.status = "running"
      BY <1>1, <1>10, <2>1 DEF HandOff, Chain
    <3> QED  BY <3>1, <3>2
  <2>3. /\ RunsNow = <<att[0].status>> /\ RunsNow' = <<att[0].status, "open">>
        /\ VerdictNow = "open" /\ VerdictNow' = "open" /\ att[0].status \in RS!Failures
    BY <2>1, <2>2 DEF RunsNow, VerdictNow, ResultOf, Terminal, RS!Failures
  <2> QED  BY <2>3 DEF RBegin
<1> QED  BY <1>2, <1>3, <1>4, <1>5, <1>6, <1>7, <1>8, <1>9, <1>10, StepEffects

(* The rows of the store implement the route sequence: for any number of   *)
(* tool events, with crashes, refused writes and late output, a receipt    *)
(* shows one execution on the primary route, at most one more after a      *)
(* failure, and a verdict that is the last one's result.                   *)
THEOREM RoutesAreSequential == Spec => ImplementsRouteSequence
<1>1. RuntimeInv /\ [Next]_vars => RS!RSNext \/ UNCHANGED <<RunsNow, VerdictNow>>
  BY RouteStep, MappedSteps DEF RS!RSNext
<1>2. RuntimeInv /\ [Next]_vars => [RS!RSNext]_<<RunsNow, VerdictNow>>
  BY <1>1
<1>3. Init => RS!RSInit
  BY MappedSteps
<1> QED
  BY <1>2, <1>3, RuntimeInvHolds, PTL
  DEF Spec, ImplementsRouteSequence, RS!RSSpec, RunsNow, VerdictNow, ResultOf

-----------------------------------------------------------------------------
(* The work state tells the truth about the primary's process *)

ToolEvents == {"start", "end", "error"}
Holds(s, e) == \E i \in 1..Len(s) : s[i] = e

(* A process that was never spawned has done nothing. *)
Unborn == \A k \in Index : proc[k].life = "none" => proc[k] = NoProc /\ pipe[k] = <<>>

(* The second process, and the tracker pointing at it, come after the      *)
(* second attempt, which comes after the first.                            *)
SecondLater ==
  /\ att[1].status = "none" => proc[1].life = "none" /\ active = 0
  /\ att[1].status # "none" => att[0].status # "none" /\ chain.status # "none"
  /\ pc \in {"idle", "opened"} => step = 0
  /\ pc \in {"idle", "opened", "preparing", "spawning", "unprepared"} =>
       proc[step].life = "none"
  /\ pc = "waiting" => proc[step].life # "none"

(* A mutation the tracker saw end has ended in the process. *)
EndsAreKept ==
  Holds(pipe[0], "end") \/ att[0].work = "checkpointed" => proc[0].kept > 0

(* In a tracked invocation a call that began is recorded or on its way,    *)
(* until the output of a process that was waited for has been read to its  *)
(* end.                                                                    *)
Expecting == pc = "waiting" /\ step = 0
Awaited == (step = 0 /\ pc \in {"cleaning", "settled", "deciding"}) \/ att[1].status # "none"
Recorded == profile.tracked /\ proc[0].begun > 0 => att[0].work # "none"
StartsAreSeen ==
  /\ Expecting => Recorded \/ Holds(pipe[0], "start")
  /\ Awaited => proc[0].abandoned \/ (proc[0].life \in {"none", "gone"} /\ Recorded)

Track == Unborn /\ SecondLater /\ EndsAreKept /\ StartsAreSeen

LEMMA HoldsTail ==
  ASSUME NEW s \in Seq(ToolEvents), s # <<>>, NEW e
  PROVE  Holds(s, e) <=> Head(s) = e \/ Holds(Tail(s), e)
<1>1. Len(s) \in Nat \ {0} /\ Len(Tail(s)) = Len(s) - 1 /\ Head(s) = s[1]
  OBVIOUS
<1>2. \A i \in 1..Len(Tail(s)) : Tail(s)[i] = s[i + 1]
  OBVIOUS
<1>3. \A i \in 1..Len(s) : i = 1 \/ (i - 1 \in 1..Len(Tail(s)) /\ s[i] = Tail(s)[i - 1])
  BY <1>1, <1>2
<1>4. ASSUME Holds(s, e) PROVE Head(s) = e \/ Holds(Tail(s), e)
  BY <1>1, <1>3, <1>4 DEF Holds
<1>5. ASSUME Head(s) = e \/ Holds(Tail(s), e) PROVE Holds(s, e)
  <2>1. CASE Head(s) = e
    BY <1>1, <2>1 DEF Holds
  <2>2. ASSUME NEW i \in 1..Len(Tail(s)), Tail(s)[i] = e PROVE Holds(s, e)
    <3>1. i + 1 \in 1..Len(s) /\ s[i + 1] = e
      BY <1>1, <1>2, <2>2
    <3> QED  BY <3>1 DEF Holds
  <2> QED  BY <1>5, <2>1, <2>2 DEF Holds
<1> QED  BY <1>4, <1>5

LEMMA HoldsAppend ==
  ASSUME NEW s \in Seq(ToolEvents), NEW d \in ToolEvents, NEW e
  PROVE  Holds(Append(s, d), e) <=> d = e \/ Holds(s, e)
<1>1. Len(s) \in Nat /\ Len(Append(s, d)) = Len(s) + 1 /\ Append(s, d)[Len(s) + 1] = d
  OBVIOUS
<1>2. \A i \in 1..Len(s) : Append(s, d)[i] = s[i]
  OBVIOUS
<1>3. \A i \in 1..Len(Append(s, d)) : i \in 1..Len(s) \/ i = Len(s) + 1
  BY <1>1
<1>4. ASSUME Holds(Append(s, d), e) PROVE d = e \/ Holds(s, e)
  BY <1>1, <1>2, <1>3, <1>4 DEF Holds
<1>5. ASSUME d = e PROVE Holds(Append(s, d), e)
  <2>1. Len(s) + 1 \in 1..Len(Append(s, d))
    BY <1>1
  <2> QED  BY <1>1, <1>5, <2>1 DEF Holds
<1>6. ASSUME Holds(s, e) PROVE Holds(Append(s, d), e)
  <2>1. PICK i \in 1..Len(s) : s[i] = e
    BY <1>6 DEF Holds
  <2>2. i \in 1..Len(Append(s, d))
    BY <1>1
  <2> QED  BY <1>2, <2>1, <2>2 DEF Holds
<1> QED  BY <1>4, <1>5, <1>6

LEMMA TrackInit == Init => Track
<1> SUFFICES ASSUME Init PROVE Track
  OBVIOUS
<1>1. \A k \in Index : proc[k] = NoProc /\ pipe[k] = <<>> /\ att[k] = NoAttempt
  BY DEF Init
<1>2. NoProc.life = "none" /\ NoProc.begun = 0 /\ NoAttempt.status = "none" /\ NoAttempt.work = "none"
  BY DEF NoProc, NoAttempt
<1>3. \A e : ~ Holds(<<>>, e)
  BY DEF Holds
<1> QED
  BY <1>1, <1>2, <1>3 DEF Init, Track, Unborn, SecondLater, EndsAreKept, StartsAreSeen, Expecting, Awaited, Index

LEMMA SecondMeans ==
  ASSUME RuntimeInv, SecondLater, att[1].status # "none"
  PROVE  att[1].kind \in {"fallback", "recovery"} /\ LegalSecond(att[1].kind)
BY DEF RuntimeInv, EvidenceReadable, EvidenceOK, SecondOK, SecondLater

(* The processes and their output. *)
LEMMA PiTrack ==
  ASSUME RuntimeInv, Track, NEW k \in Index, Pi(k)
  PROVE  Track'
<1>1. UNCHANGED <<profile, att, chain, active, pc, step>>
  BY DEF Pi, PiBeginsWrite, PiEndsWrite, PiRunsShell, PiHangs, PiExits, durable, tracker
<1>2. proc \in [Index -> Proc] /\ pipe \in [Index -> Seq(ToolEvents)] /\ Live(k)
  BY DEF RuntimeInv, TypeOK, ToolEvents, Pi, PiBeginsWrite, PiEndsWrite, PiRunsShell, PiHangs, PiExits,
     MayChange, Works
<1>3. /\ proc'[k].life # "none" /\ proc'[k].abandoned = proc[k].abandoned
      /\ \A j \in Index \ {k} : proc'[j] = proc[j] /\ pipe'[j] = pipe[j]
  <2>1. ASSUME NEW p, proc' = [proc EXCEPT ![k] = p], p.life # "none", p.abandoned = proc[k].abandoned,
               pipe' = pipe \/ \E e : Emit(k, e)
        PROVE  /\ proc'[k].life # "none" /\ proc'[k].abandoned = proc[k].abandoned
               /\ \A j \in Index \ {k} : proc'[j] = proc[j] /\ pipe'[j] = pipe[j]
    BY <1>2, <2>1 DEF Emit
  <2>2. CASE PiBeginsWrite(k)
    <3> DEFINE p == [proc[k] EXCEPT !.open = TRUE, !.begun = proc[k].begun + 1]
    <3>1. p.life = proc[k].life /\ p.abandoned = proc[k].abandoned
      BY <1>2 DEF Proc
    <3> QED  BY <1>2, <2>1, <2>2, <3>1 DEF PiBeginsWrite, Live
  <2>3. CASE PiRunsShell(k) \/ PiHangs(k) \/ PiExits(k)
    <3>1. PICK p \in {[proc[k] EXCEPT !.shell = proc[k].shell + 1], [proc[k] EXCEPT !.quiet = TRUE],
                      [proc[k] EXCEPT !.life = "gone", !.quiet = FALSE]} : proc' = [proc EXCEPT ![k] = p]
      BY <2>3 DEF PiRunsShell, PiHangs, PiExits
    <3>2. p.life # "none" /\ p.abandoned = proc[k].abandoned
      BY <1>2, <3>1 DEF Proc, Live
    <3>3. pipe' = pipe
      BY <2>3 DEF PiRunsShell, PiHangs, PiExits
    <3> QED  BY <2>1, <3>1, <3>2, <3>3
  <2>4. ASSUME NEW ok \in BOOLEAN, PiEndsWrite(k, ok)
        PROVE  /\ proc'[k].life # "none" /\ proc'[k].abandoned = proc[k].abandoned
               /\ \A j \in Index \ {k} : proc'[j] = proc[j] /\ pipe'[j] = pipe[j]
    <3> DEFINE p == [proc[k] EXCEPT !.open = FALSE,
                                    !.kept = IF ok THEN proc[k].kept + 1 ELSE proc[k].kept]
    <3>1. p.life = proc[k].life /\ p.abandoned = proc[k].abandoned
      BY <1>2 DEF Proc
    <3>2. proc' = [proc EXCEPT ![k] = p] /\ \E e : Emit(k, e)
      BY <2>4 DEF PiEndsWrite
    <3> HIDE DEF p
    <3> QED  BY <1>2, <2>1, <3>1, <3>2 DEF Live
  <2> QED  BY <2>2, <2>3, <2>4 DEF Pi
<1>4. /\ proc[k].begun \in Nat /\ proc[k].kept \in Nat /\ proc'[k].kept \in Nat /\ proc'[k].kept >= proc[k].kept
      /\ \/ pipe'[k] = pipe[k] /\ (proc'[k].begun = proc[k].begun \/ ~ profile.tracked)
         \/ pipe'[k] = Append(pipe[k], "start")
         \/ pipe'[k] = Append(pipe[k], "end") /\ proc'[k].kept > 0 /\ proc'[k].begun = proc[k].begun
         \/ pipe'[k] = Append(pipe[k], "error") /\ proc'[k].begun = proc[k].begun
  <2>1. CASE PiBeginsWrite(k)
    <3> DEFINE p == [proc[k] EXCEPT !.open = TRUE, !.begun = proc[k].begun + 1]
    <3>1. proc[k].begun \in Nat /\ proc[k].kept \in Nat /\ p.kept = proc[k].kept
      BY <1>2 DEF Proc
    <3>2. proc' = [proc EXCEPT ![k] = p]
      BY <2>1 DEF PiBeginsWrite
    <3>3. proc'[k].kept = p.kept
      BY <1>2, <3>2
    <3>4. (profile.tracked /\ pipe'[k] = Append(pipe[k], "start")) \/ (~ profile.tracked /\ pipe'[k] = pipe[k])
      BY <1>2, <2>1 DEF PiBeginsWrite, Emit
    <3> QED  BY <3>1, <3>3, <3>4
  <2>2. CASE PiRunsShell(k) \/ PiHangs(k) \/ PiExits(k)
    <3>1. PICK p \in {[proc[k] EXCEPT !.shell = proc[k].shell + 1], [proc[k] EXCEPT !.quiet = TRUE],
                      [proc[k] EXCEPT !.life = "gone", !.quiet = FALSE]} : proc' = [proc EXCEPT ![k] = p]
      BY <2>2 DEF PiRunsShell, PiHangs, PiExits
    <3>2. /\ proc[k].begun \in Nat /\ proc[k].kept \in Nat
          /\ p.begun = proc[k].begun /\ p.kept = proc[k].kept
      BY <1>2, <3>1 DEF Proc
    <3>3. pipe' = pipe
      BY <2>2 DEF PiRunsShell, PiHangs, PiExits
    <3>4. proc'[k] = p
      BY <1>2, <3>1
    <3> QED  BY <3>2, <3>3, <3>4
  <2>3. ASSUME NEW ok \in BOOLEAN, PiEndsWrite(k, ok)
        PROVE  /\ proc[k].begun \in Nat /\ proc[k].kept \in Nat /\ proc'[k].kept \in Nat
               /\ proc'[k].kept >= proc[k].kept /\ proc'[k].begun = proc[k].begun
               /\ \/ pipe'[k] = pipe[k]
                  \/ pipe'[k] = Append(pipe[k], "end") /\ proc'[k].kept > 0
                  \/ pipe'[k] = Append(pipe[k], "error")
    BY <1>2, <2>3 DEF PiEndsWrite, Emit, Proc
  <2> QED  BY <2>1, <2>2, <2>3 DEF Pi
<1>5. Unborn'
  BY <1>3 DEF Track, Unborn
<1>6. SecondLater'
  BY <1>1, <1>2, <1>3 DEF Track, SecondLater, Live, Index, RuntimeInv, TypeOK
<1>7. CASE k = 1
  <2>1. proc'[0] = proc[0] /\ pipe'[0] = pipe[0]
    BY <1>3, <1>7 DEF Index
  <2> QED
    BY <1>1, <1>5, <1>6, <2>1 DEF Track, EndsAreKept, StartsAreSeen, Expecting, Awaited, Recorded
<1>8. CASE k = 0
  <2>1. pipe[0] \in Seq(ToolEvents) /\ proc[0].life \in {"alive", "dying"}
    BY <1>2, <1>8 DEF Live, Index
  <2>2. \A d \in ToolEvents, e \in ToolEvents : Holds(Append(pipe[0], d), e) <=> d = e \/ Holds(pipe[0], e)
    BY <2>1, HoldsAppend
  <2>3. "start" \in ToolEvents /\ "end" \in ToolEvents /\ "error" \in ToolEvents
    BY DEF ToolEvents
  <2>4. Holds(pipe[0], "end") \/ att[0].work = "checkpointed" => proc'[0].kept > 0
    BY <1>4, <1>8 DEF Track, EndsAreKept
  <2>5. EndsAreKept'
    <3>1. Holds(pipe'[0], "end") => Holds(pipe[0], "end") \/ proc'[0].kept > 0
      BY <1>4, <1>8, <2>2, <2>3
    <3> QED  BY <1>1, <2>4, <3>1 DEF EndsAreKept
  <2>6. Expecting => Recorded' \/ Holds(pipe'[0], "start")
    <3>1. Holds(pipe'[0], "start") \/ ((proc'[0].begun = proc[0].begun \/ ~ profile.tracked) /\ (Holds(pipe[0], "start") => Holds(pipe'[0], "start")))
      <4>1. CASE pipe'[0] = pipe[0] /\ (proc'[0].begun = proc[0].begun \/ ~ profile.tracked)
        BY <4>1
      <4>2. CASE pipe'[0] = Append(pipe[0], "start")
        BY <2>2, <2>3, <4>2
      <4>3. ASSUME NEW d \in ToolEvents, pipe'[0] = Append(pipe[0], d)
            PROVE  Holds(pipe[0], "start") => Holds(pipe'[0], "start")
        BY <2>2, <2>3, <4>3
      <4> QED  BY <1>4, <1>8, <2>3, <4>1, <4>2, <4>3
    <3> QED  BY <1>1, <3>1 DEF Track, StartsAreSeen, Recorded
  <2>7. Awaited => proc[0].abandoned
    BY <2>1 DEF Track, StartsAreSeen
  <2>8. StartsAreSeen'
    <3>1. Expecting' = Expecting /\ Awaited' = Awaited /\ proc'[0].abandoned = proc[0].abandoned
      BY <1>1, <1>3, <1>8 DEF Expecting, Awaited
    <3> QED  BY <2>6, <2>7, <3>1 DEF StartsAreSeen
  <2> QED  BY <1>5, <1>6, <2>5, <2>8 DEF Track
<1> QED  BY <1>7, <1>8 DEF Index

(* The tracker reads an event of process k. *)
LEMMA ObserveTrack ==
  ASSUME RuntimeInv, Track, NEW k \in Index, ReadLateEvent(k) \/ (ReadEvent /\ k = step)
  PROVE  Track'
<1>1. /\ UNCHANGED <<profile, chain, active, pc, step, proc>> /\ Observe(k) /\ pipe[k] # <<>>
      /\ Expecting => k = 0 \/ att[1].status = "none"
  BY DEF ReadLateEvent, ReadEvent, Late, Expecting, RuntimeInv, Rows, AttemptRows, IOPcs, NoAttempt
<1>2. /\ pipe \in [Index -> Seq(ToolEvents)] /\ att \in [Index -> Attempt] /\ active \in Index
      /\ seen \in [Index -> BOOLEAN]
  BY DEF RuntimeInv, TypeOK, ToolEvents
<1> DEFINE e == Head(pipe[k])
           w == WorkAfter(att[active].work, e, seen[k])
<1>3. pipe'[k] = Tail(pipe[k]) /\ \A j \in Index \ {k} : pipe'[j] = pipe[j]
  BY <1>1, <1>2 DEF Observe
<1>4. att' = att \/ (att[active].status = "running" /\ att' = [att EXCEPT ![active].work = w])
  BY <1>1 DEF Observe
<1>5. /\ \A j \in Index : att'[j].status = att[j].status
      /\ att'[0].work = att[0].work \/ (active = 0 /\ att[0].status = "running" /\ att'[0].work = w)
  <2>1. CASE att' = att
    BY <2>1
  <2>2. CASE att[active].status = "running" /\ att' = [att EXCEPT ![active].work = w]
    <3> HIDE DEF w
    <3> QED  BY <1>2, <2>2 DEF Attempt, Index
  <2> QED  BY <1>4, <2>1, <2>2
<1>6. active = 0 => w = att[0].work \/ (w = "started" /\ e = "start" /\ att[0].work = "none") \/ (w = "checkpointed" /\ e = "end")
  BY DEF WorkAfter
<1>7. Unborn'
  BY <1>1, <1>3 DEF Track, Unborn
<1>8. SecondLater'
  BY <1>1, <1>5 DEF Track, SecondLater, Index
<1>9. k = 1 => att[1].status # "none"
  BY <1>1 DEF Track, Unborn, SecondLater, Index
<1>10. att[0].status = "running" => att[1].status = "none"
  BY SecondMeans DEF Track, LegalSecond, Ended, Terminal
<1>11. att'[0].work = att[0].work \/ (k = 0 /\ att'[0].work = w /\ active = 0)
  BY <1>5, <1>9, <1>10 DEF Index
<1>12. k = 0 => (\A d : Holds(pipe[0], d) <=> e = d \/ Holds(pipe'[0], d))
  BY <1>1, <1>2, <1>3, HoldsTail
<1>13. k = 1 => pipe'[0] = pipe[0]
  BY <1>3 DEF Index
<1> HIDE DEF e, w
<1>14. EndsAreKept'
  <2>1. Holds(pipe'[0], "end") => Holds(pipe[0], "end")
    BY <1>12, <1>13 DEF Index
  <2>2. att'[0].work = "checkpointed" => att[0].work = "checkpointed" \/ Holds(pipe[0], "end")
    BY <1>6, <1>11, <1>12
  <2> QED  BY <1>1, <2>1, <2>2 DEF Track, EndsAreKept
<1>15. att[0].work # "none" => att'[0].work # "none"
  BY <1>6, <1>11
<1>16. Expecting => Recorded' \/ Holds(pipe'[0], "start")
  <2> SUFFICES ASSUME Expecting, Holds(pipe[0], "start"), ~ Holds(pipe'[0], "start")
               PROVE  att'[0].work # "none"
    BY <1>1, <1>15 DEF Track, StartsAreSeen, Recorded
  <2>1. k = 0 /\ e = "start"
    BY <1>12, <1>13 DEF Index
  <2>2. att[0].status = "running" /\ att[1].status = "none"
    BY <1>10 DEF Expecting, RuntimeInv, Rows
  <2>3. active = 0 /\ att'[0].work = w
    <3>1. active = 0
      BY <2>2 DEF Track, SecondLater
    <3>2. att'[0].work = w
      BY <1>1, <1>2, <2>1, <2>2, <3>1 DEF Observe, Attempt, Index, e, w
    <3> QED  BY <3>1, <3>2
  <2>4. w # "none"
    BY <1>2, <2>1, <2>3 DEF w, WorkAfter, Attempt, Index
  <2> QED  BY <2>3, <2>4
<1>17. Awaited' = Awaited /\ Expecting' = Expecting
  BY <1>1, <1>5 DEF Awaited, Expecting, Index
<1>18. StartsAreSeen'
  BY <1>1, <1>15, <1>16, <1>17 DEF Track, StartsAreSeen, Recorded
<1> QED  BY <1>7, <1>8, <1>14, <1>18 DEF Track

(* The steps that spawn a process, drop its output or give it up. *)
LEMMA ProcessTrack ==
  ASSUME RuntimeInv, Track,
         \/ Spawn \/ TrackingFails \/ Cancel
         \/ RejectsTool \/ \E o \in Outcomes : TimesOut(o)
         \/ \E k \in Index : DropLateEvent(k)
  PROVE  Track'
<1>1. /\ UNCHANGED <<profile, att, chain, active, step>>
      /\ proc \in [Index -> Proc] /\ pipe \in [Index -> Seq(ToolEvents)] /\ step \in Index
  BY DEF Spawn, TrackingFails, Cancel, TimesOut, RejectsTool, Abandon, DropLateEvent, durable, tracker,
     RuntimeInv, TypeOK, ToolEvents
<1>2. CASE Spawn
  <2>1. proc[step] = NoProc /\ pipe[step] = <<>> /\ pipe' = pipe /\ pc = "spawning" /\ pc' = "waiting"
    BY <1>1, <1>2 DEF Spawn, Track, SecondLater, Unborn
  <2>2. /\ proc'[step].life = "alive" /\ proc'[step].begun = 0
        /\ \A j \in Index \ {step} : proc'[j] = proc[j]
    BY <1>1, <1>2, <2>1 DEF Spawn, NoProc, Proc
  <2>3. proc[step].kept = 0
    BY <2>1 DEF NoProc
  <2>4. Unborn' /\ SecondLater'
    <3>1. att[step].status = "running"
      BY <2>1 DEF RuntimeInv, Rows
    <3> QED  BY <1>1, <2>1, <2>2, <3>1 DEF Track, Unborn, SecondLater, Index
  <2>5. proc'[0].kept = proc[0].kept /\ (step = 1 => proc'[0] = proc[0])
    BY <1>1, <1>2, <2>2 DEF Spawn, Proc, Index
  <2>6. EndsAreKept'
    BY <1>1, <2>1, <2>5 DEF Track, EndsAreKept
  <2>7. step = 0 => att[1].status = "none"
    BY <2>1 DEF RuntimeInv, Rows, AttemptRows, IOPcs, NoAttempt
  <2>8. StartsAreSeen'
    <3>1. Expecting' => Recorded'
      BY <1>1, <2>2 DEF Expecting, Recorded
    <3>2. Awaited' => step = 1 /\ Awaited
      BY <1>1, <2>1, <2>7 DEF Awaited, Index
    <3> QED  BY <1>1, <2>5, <3>1, <3>2 DEF Track, StartsAreSeen, Recorded
  <2> QED  BY <2>4, <2>6, <2>8 DEF Track
<1>3. CASE Cancel
  <2>1. pipe' = pipe /\ pc' = pc /\ (proc' = proc \/ (pc = "waiting" /\ proc' = [proc EXCEPT ![step] = Signalled(proc[step])]))
    BY <1>3 DEF Cancel
  <2>2. CASE proc' = proc
    BY <1>1, <2>1, <2>2 DEF Track, Unborn, SecondLater, EndsAreKept, StartsAreSeen, Expecting, Awaited, Recorded
  <2>3. CASE pc = "waiting" /\ proc' = [proc EXCEPT ![step] = Signalled(proc[step])]
    <3>1. /\ \A j \in Index : /\ proc'[j].begun = proc[j].begun /\ proc'[j].kept = proc[j].kept
                              /\ proc'[j].life = "none" <=> proc[j].life = "none"
                              /\ proc[j].life \in {"none", "gone"} => proc'[j] = proc[j]
      BY <1>1, <2>3 DEF Signalled, Proc
    <3>2. proc'[0].abandoned = proc[0].abandoned
      <4>1. Signalled(proc[step]).abandoned = proc[step].abandoned
        BY <1>1 DEF Signalled, Proc
      <4> QED  BY <1>1, <2>3, <4>1 DEF Index
    <3>3. Unborn' /\ SecondLater'
      BY <1>1, <2>1, <2>3, <3>1 DEF Track, Unborn, SecondLater, Index
    <3>4. EndsAreKept'
      BY <1>1, <2>1, <3>1 DEF Track, EndsAreKept, Index
    <3>5. Recorded' = Recorded /\ Expecting' = Expecting /\ Awaited' = Awaited
      BY <1>1, <2>1, <3>1 DEF Recorded, Expecting, Awaited, Index
    <3>6. StartsAreSeen'
      BY <2>1, <3>1, <3>2, <3>5 DEF Track, StartsAreSeen, Index
    <3> QED  BY <3>3, <3>4, <3>6 DEF Track
  <2> QED  BY <2>1, <2>2, <2>3
<1>4. CASE TrackingFails \/ RejectsTool \/ \E o \in Outcomes : TimesOut(o)
  <2>1. /\ pc = "waiting" /\ pc' = "cleaning"
        /\ proc' = [proc EXCEPT ![step] = GivenUp(proc[step])]
        /\ pipe' = pipe \/ (pipe[step] # <<>> /\ pipe' = [pipe EXCEPT ![step] = Tail(pipe[step])])
    BY <1>4 DEF TrackingFails, TimesOut, RejectsTool, Abandon
  <2>2. /\ \A j \in Index : /\ proc'[j].begun = proc[j].begun /\ proc'[j].kept = proc[j].kept
                            /\ proc'[j].life = "none" <=> proc[j].life = "none"
        /\ step = 1 => proc'[0] = proc[0]
    <3>1. /\ GivenUp(proc[step]).begun = proc[step].begun /\ GivenUp(proc[step]).kept = proc[step].kept
          /\ GivenUp(proc[step]).life = "none" <=> proc[step].life = "none"
      <4>1. /\ Signalled(proc[step]) \in Proc
            /\ Signalled(proc[step]).begun = proc[step].begun /\ Signalled(proc[step]).kept = proc[step].kept
            /\ Signalled(proc[step]).life = "none" <=> proc[step].life = "none"
        BY <1>1, SignalledType DEF Signalled, Proc
      <4> QED  BY <4>1 DEF GivenUp, Proc
    <3> QED  BY <1>1, <2>1, <3>1 DEF Index
  <2>3. step = 0 => proc'[0].abandoned
    BY <1>1, <2>1, GivenUpType
  <2>4. proc[step].life # "none"
    BY <2>1 DEF Track, SecondLater
  <2>5. Unborn'
    <3> SUFFICES ASSUME NEW j \in Index, proc'[j].life = "none" PROVE proc'[j] = NoProc /\ pipe'[j] = <<>>
      BY DEF Unborn
    <3>1. j # step
      BY <2>2, <2>4
    <3>2. proc'[j] = proc[j] /\ pipe'[j] = pipe[j]
      BY <1>1, <2>1, <3>1
    <3> QED  BY <3>2 DEF Track, Unborn
  <2>6. SecondLater'
    BY <1>1, <2>1, <2>2 DEF Track, SecondLater, Index
  <2>7. Holds(pipe'[0], "end") => Holds(pipe[0], "end")
    <3>1. pipe'[0] = pipe[0] \/ (step = 0 /\ pipe[0] # <<>> /\ pipe'[0] = Tail(pipe[0]))
      BY <1>1, <2>1 DEF Index
    <3>2. pipe[0] \in Seq(ToolEvents)
      BY <1>1 DEF Index
    <3> QED  BY <3>1, <3>2, HoldsTail
  <2>8. EndsAreKept'
    BY <1>1, <2>2, <2>7 DEF Track, EndsAreKept, Index
  <2>9. StartsAreSeen'
    <3>1. ~ Expecting' /\ (Awaited' => step = 0 \/ (Awaited /\ step = 1))
      BY <1>1, <2>1 DEF Expecting, Awaited, Index
    <3> QED  BY <1>1, <2>2, <2>3, <3>1 DEF Track, StartsAreSeen, Recorded
  <2> QED  BY <2>5, <2>6, <2>8, <2>9 DEF Track
<1>5. CASE \E k \in Index : DropLateEvent(k)
  <2>1. PICK k \in Index : DropLateEvent(k)
    BY <1>5
  <2>2. proc' = proc /\ pc' = pc /\ pipe[k] # <<>> /\ pipe' = [pipe EXCEPT ![k] = Tail(pipe[k])]
        /\ ~ (pc = "waiting" /\ step = k)
    BY <2>1 DEF DropLateEvent, Late
  <2>3. Unborn'
    BY <1>1, <2>2 DEF Track, Unborn
  <2>4. SecondLater'
    BY <1>1, <2>2 DEF Track, SecondLater
  <2>5. Holds(pipe'[0], "end") => Holds(pipe[0], "end")
    <3>1. pipe'[0] = pipe[0] \/ (pipe[0] # <<>> /\ pipe'[0] = Tail(pipe[0]))
      BY <1>1, <2>2 DEF Index
    <3>2. pipe[0] \in Seq(ToolEvents)
      BY <1>1 DEF Index
    <3> QED  BY <3>1, <3>2, HoldsTail
  <2>6. EndsAreKept'
    BY <1>1, <2>2, <2>5 DEF Track, EndsAreKept
  <2>7. Expecting => pipe'[0] = pipe[0]
    BY <1>1, <2>2 DEF Expecting, Index
  <2>8. StartsAreSeen'
    BY <1>1, <2>2, <2>7 DEF Track, StartsAreSeen, Expecting, Awaited, Recorded
  <2> QED  BY <2>3, <2>4, <2>6, <2>8 DEF Track
<1> QED  BY <1>2, <1>3, <1>4, <1>5

(* The steps that only move the orchestrator, the end of a process that    *)
(* was waited for among them.                                              *)
LEMMA MoveTrack ==
  ASSUME RuntimeInv, Track,
         \/ PrepareFails \/ Decide \/ StoreFails \/ Crash \/ Restart
         \/ \E o \in Outcomes : SpawnFails(o) \/ SeeClose(o)
  PROVE  Track'
<1>1. UNCHANGED <<profile, att, chain, active, step, proc, pipe>>
  BY DEF PrepareFails, Decide, StoreFails, Crash, Restart, SpawnFails, SeeClose, durable, tracker, world
<1>2. Unborn' /\ EndsAreKept'
  BY <1>1 DEF Track, Unborn, EndsAreKept
<1>3. \/ pc = "preparing" /\ pc' = "unprepared"
      \/ pc = "settled" /\ pc' = "deciding"
      \/ pc' \in {"closing", "done", "crashed", "restarted", "refused"}
      \/ pc = "spawning" /\ pc' = "cleaning"
      \/ pc = "waiting" /\ pc' = "cleaning" /\ proc[step].life = "gone" /\ pipe[step] = <<>>
  BY DEF PrepareFails, Decide, StoreFails, Crash, Restart, SpawnFails, SeeClose
<1>4. SecondLater'
  BY <1>1, <1>3 DEF Track, SecondLater
<1>5. \A e : ~ Holds(<<>>, e)
  BY DEF Holds
<1>6. ~ Expecting'
  BY <1>3 DEF Expecting
<1>7. Awaited' => proc[0].abandoned \/ (proc[0].life \in {"none", "gone"} /\ Recorded)
  <2>1. CASE Awaited
    BY <2>1 DEF Track, StartsAreSeen
  <2>2. CASE step = 0 /\ pc = "spawning"
    BY <2>2 DEF Track, SecondLater, Unborn, NoProc, Recorded, Index
  <2>3. CASE step = 0 /\ pc = "waiting" /\ proc[step].life = "gone" /\ pipe[step] = <<>>
    BY <1>5, <2>3 DEF Track, StartsAreSeen, Expecting
  <2> QED  BY <1>1, <1>3, <2>1, <2>2, <2>3 DEF Awaited
<1>8. StartsAreSeen'
  BY <1>1, <1>6, <1>7 DEF StartsAreSeen, Recorded
<1> QED  BY <1>2, <1>4, <1>8 DEF Track

(* The commits. *)
LEMMA CommitTrack ==
  ASSUME RuntimeInv, Track,
         \/ OpenInvocation \/ MarkSpawned \/ RecordRouteResult
         \/ SettleUnprepared \/ (\E cleaned \in BOOLEAN : CleanUp(cleaned))
         \/ CloseFinal \/ CloseFailed \/ WorkStateReadFails
  PROVE  Track'
<1>1. UNCHANGED <<profile, active, step, proc, pipe>> /\ att \in [Index -> Attempt] /\ chain \in Chain /\ step \in Index
  BY DEF OpenInvocation, MarkSpawned, RecordRouteResult, SettleUnprepared, CleanUp, SettleAs, CloseFinal,
     CloseFailed, WorkStateReadFails, Close, tracker, world, RuntimeInv, TypeOK
<1>2. \/ pc = "idle" /\ pc' = "opened" /\ att' = att
      \/ pc = "preparing" /\ pc' = "spawning"
      \/ pc = "unprepared" /\ pc' = "settled"
      \/ pc = "cleaning" /\ pc' = "settled"
      \/ pc' \in {"routed", "done"}
  BY DEF OpenInvocation, MarkSpawned, RecordRouteResult, SettleUnprepared, CleanUp, SettleAs, CloseFinal,
     CloseFailed, WorkStateReadFails, Close
<1>3. /\ \A k \in Index : /\ att'[k].work = att[k].work
                          /\ att[k].status = "none" <=> att'[k].status = "none"
      /\ chain'.status # "none"
  <2>1. CASE OpenInvocation
    BY <2>1, OpenChainFields DEF OpenInvocation
  <2>2. CASE MarkSpawned
    <3>1. att[step].status = "preparing" /\ chain' = chain /\ chain.status # "none"
      BY <2>2, OpenChainFields DEF MarkSpawned, RuntimeInv, Rows, AttemptRows, IOPcs
    <3> QED  BY <1>1, <2>2, <3>1 DEF MarkSpawned, Attempt
  <2>3. CASE SettleUnprepared \/ \E cleaned \in BOOLEAN : CleanUp(cleaned)
    <3>1. att[step].status \in {"preparing", "running"} /\ chain' = chain /\ chain.status # "none"
      BY <2>3, OpenChainFields DEF SettleUnprepared, CleanUp, SettleAs, RuntimeInv, Rows, AttemptRows, IOPcs
    <3>2. PICK o \in Outcomes : SettleAs(o)
      BY <2>3 DEF SettleUnprepared, CleanUp, Outcomes, RuntimeInv, TypeOK
    <3>3. StatusOf(o) # "none"
      BY DEF StatusOf, Outcomes
    <3> QED  BY <1>1, <3>1, <3>2, <3>3 DEF SettleAs, Attempt
  <2>4. CASE RecordRouteResult
    BY <1>1, <2>4 DEF RecordRouteResult, RuntimeInv, Rows, AttemptRows, Chain
  <2>5. CASE CloseFinal \/ CloseFailed \/ WorkStateReadFails
    <3>1. PICK k \in Index : Close(att[k]) /\ Ended(k)
      BY <2>5 DEF CloseFinal, CloseFailed, WorkStateReadFails, RuntimeInv, Rows, TypeOK, Index
    <3> QED  BY <1>1, <3>1 DEF Close, Chain, Ended, Terminal
  <2> QED  BY <2>1, <2>2, <2>3, <2>4, <2>5
<1>4. Unborn' /\ EndsAreKept'
  BY <1>1, <1>3 DEF Track, Unborn, EndsAreKept, Index
<1>5. SecondLater'
  BY <1>1, <1>2, <1>3 DEF Track, SecondLater, Index
<1>6. Awaited' => proc[0].abandoned \/ (proc[0].life \in {"none", "gone"} /\ Recorded)
  <2>1. CASE Awaited
    BY <2>1 DEF Track, StartsAreSeen
  <2>2. CASE step = 0 /\ pc = "unprepared"
    BY <2>2 DEF Track, SecondLater, Unborn, NoProc, Recorded, Index
  <2> QED  BY <1>1, <1>2, <1>3, <2>1, <2>2 DEF Awaited, Index
<1>7. ~ Expecting'
  BY <1>2 DEF Expecting
<1>8. StartsAreSeen'
  BY <1>1, <1>3, <1>6, <1>7 DEF StartsAreSeen, Recorded, Index
<1> QED  BY <1>4, <1>5, <1>8 DEF Track

(* Starting an attempt. *)
LEMMA StartTrack ==
  ASSUME RuntimeInv, Track, NEW usable \in BOOLEAN, StartPrimary(usable) \/ HandOff(usable)
  PROVE  Track'
<1>1. UNCHANGED <<profile, proc, pipe>> /\ att \in [Index -> Attempt] /\ chain \in Chain
      /\ pc' \in {"preparing", "unprepared"}
  BY DEF StartPrimary, HandOff, Started, world, RuntimeInv, TypeOK
<1>2. Unborn'
  BY <1>1 DEF Track, Unborn
<1>3. ~ Expecting'
  BY <1>1 DEF Expecting
<1>4. CASE StartPrimary(usable)
  <2>1. /\ att[0] = NoAttempt /\ att[1] = NoAttempt /\ att'[1] = NoAttempt /\ att'[0].work = "none"
        /\ step' = 0 /\ proc[0].life = "none" /\ NoAttempt.status = "none" /\ NoAttempt.work = "none"
    BY <1>1, <1>4 DEF StartPrimary, Started, RuntimeInv, Rows, Track, SecondLater, Preparing, NoAttempt, Index
  <2>2. active' = 0
    BY <1>4, <2>1 DEF StartPrimary, Started, Track, SecondLater
  <2>3. SecondLater'
    BY <1>1, <2>1, <2>2 DEF Track, SecondLater
  <2>4. EndsAreKept'
    BY <1>1, <2>1 DEF Track, EndsAreKept
  <2>5. ~ Awaited'
    BY <1>1, <2>1 DEF Awaited
  <2> QED  BY <1>2, <1>3, <2>3, <2>4, <2>5 DEF Track, StartsAreSeen
<1>5. CASE HandOff(usable)
  <2>1. /\ att'[0] = att[0] /\ att'[1].status = "preparing" /\ step' = 1 /\ Awaited
        /\ proc[1].life = "none" /\ att[0].status # "none"
    BY <1>1, <1>5 DEF HandOff, Started, RuntimeInv, Rows, Track, SecondLater, Preparing, NoAttempt, Index,
       Awaited, Ended, Terminal
  <2>2. chain'.status # "none"
    BY <1>1, <1>5, OpenChainFields DEF HandOff, RuntimeInv, Rows, Chain
  <2>3. SecondLater'
    BY <1>1, <2>1, <2>2 DEF SecondLater
  <2>4. EndsAreKept'
    BY <1>1, <2>1 DEF Track, EndsAreKept
  <2>5. StartsAreSeen'
    BY <1>1, <1>3, <2>1 DEF Track, StartsAreSeen, Recorded
  <2> QED  BY <1>2, <2>3, <2>4, <2>5 DEF Track
<1> QED  BY <1>4, <1>5

LEMMA TrackStep ==
  ASSUME RuntimeInv, Track, [Next]_vars
  PROVE  Track'
<1>1. CASE Proceed
  <2>1. ASSUME NEW o \in {"failed", "safety", "timed_out", "cancelled"}, SpawnFails(o)
        PROVE  Track'
    BY <2>1, MoveTrack DEF Outcomes
  <2> QED
    BY <1>1, <2>1, StartTrack, CommitTrack, MoveTrack, ProcessTrack DEF Proceed
<1>2. CASE OpenInvocation \/ WorkStateReadFails
  BY <1>2, CommitTrack
<1>3. CASE ReadEvent \/ \E k \in Index : ReadLateEvent(k)
  BY <1>3, ObserveTrack DEF RuntimeInv, TypeOK
<1>4. CASE \E k \in Index : Pi(k)
  BY <1>4, PiTrack
<1>5. CASE Cancel \/ TrackingFails \/ RejectsTool \/ (\E o \in Outcomes : TimesOut(o))
           \/ \E k \in Index : DropLateEvent(k)
  BY <1>5, ProcessTrack
<1>6. CASE StoreFails \/ Crash \/ Restart \/ \E o \in Outcomes : SeeClose(o)
  BY <1>6, MoveTrack
<1>7. CASE UNCHANGED vars
  BY <1>7 DEF vars, Track, Unborn, SecondLater, EndsAreKept, StartsAreSeen, Expecting, Awaited, Recorded
<1> QED  BY <1>1, <1>2, <1>3, <1>4, <1>5, <1>6, <1>7 DEF Next

(* As far as the tracker can tell, the second route is chosen on the truth *)
(* about the first: in a tracked invocation whose primary process was      *)
(* awaited to its end, a fallback follows no call of write or edit, and a  *)
(* recovery always follows a completed one, for any number of calls and    *)
(* any order in which their events, the exit, the timers and the           *)
(* operator's cancellation arrive.                                         *)
THEOREM SecondRouteJustified == Spec => []HandOffDiscipline
<1>1. RuntimeInv /\ Track => HandOffDiscipline
  <2> SUFFICES ASSUME RuntimeInv, Track, att[1].status # "none"
               PROVE  \/ /\ att[1].kind = "fallback"
                         /\ profile.tracked /\ ~ proc[0].abandoned => proc[0].begun = 0
                      \/ att[1].kind = "recovery" /\ proc[0].kept > 0
    BY DEF HandOffDiscipline
  <2>1. att[1].kind \in {"fallback", "recovery"} /\ LegalSecond(att[1].kind)
    BY SecondMeans DEF Track
  <2>2. proc[0].begun \in Nat
    BY DEF RuntimeInv, TypeOK, Proc, Index
  <2>3. CASE att[1].kind = "fallback"
    BY <2>1, <2>2, <2>3 DEF LegalSecond, Track, StartsAreSeen, Awaited, Recorded
  <2>4. CASE att[1].kind = "recovery"
    BY <2>1, <2>4 DEF LegalSecond, Track, EndsAreKept
  <2> QED  BY <2>1, <2>3, <2>4
<1> QED  BY <1>1, TrackInit, TrackStep, RuntimeInvHolds, PTL DEF Spec
=============================================================================
