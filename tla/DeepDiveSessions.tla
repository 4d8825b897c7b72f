-------------------------- MODULE DeepDiveSessions ---------------------------
(***************************************************************************)
(* The Deep-Dive interviews of one work item: the stored sessions, the     *)
(* requests that work on them, and the document the decisions go into.     *)
(*                                                                         *)
(* The orchestrator is one JavaScript process. A request gives up control  *)
(* only while it waits for the model; it keeps the session it has read and *)
(* writes it back whole. The store compares nothing: neither the session   *)
(* nor the card's run row. Every call of the model may fail (a killed      *)
(* process, a timeout, a hosted stage refused because the session is not   *)
(* open any more) and may succeed although its run was cancelled while the *)
(* process was not yet registered.                                         *)
(***************************************************************************)
EXTENDS Naturals, FiniteSets

CONSTANTS
  MaxSessions,   \* sessions of the work item
  MaxQuestions,  \* questions of one session
  Requests,      \* answer, chat and completion requests that may overlap
  MaxNotes,      \* chat exchanges of one session
  MaxEdits,      \* edits of the document by a person
  MaxCommands,   \* commands of the operator
  MaxCrashes

ASSUME BoundsAreNaturals ==
  /\ MaxSessions \in Nat \ {0} /\ MaxQuestions \in Nat \ {0}
  /\ MaxNotes \in Nat /\ MaxEdits \in Nat
  /\ MaxCommands \in Nat /\ MaxCrashes \in Nat

VARIABLES
  hosted,     \* does the MCP server own the procedure (edits), or is it native (rewrites)?
  session,    \* the stored sessions
  original,   \* the document each session was started from
  row,        \* the card's run row: the last run written and its status
  cancelReq,  \* the in-memory set of cancellation requests
  opening,    \* sessions whose first question is being generated
  req,        \* the requests that wait for the model
  refining,   \* is the refinement worker of the card at work?
  doc,        \* the source document
  count,      \* edits, commands and crashes so far
  reopened,   \* history: closed sessions that a request has opened again
  stale,      \* history: sessions over which an older copy was written
  lostRow     \* history: sessions whose running row was never written, or taken over

vars == <<hosted, session, original, row, cancelReq, opening, req, refining, doc,
          count, reopened, stale, lostRow>>

Sessions == 1..MaxSessions
Questions == 1..MaxQuestions
Refine == 0  \* the run of the refinement worker
Runs == Sessions \cup {Refine}
Docs == [edits : SUBSET (1..MaxEdits), decisions : SUBSET Sessions]
Session == [status : {"none", "generating_questions", "question_round", "ready_for_update",
                      "updating_document", "completed", "failed"},
            q : [Questions -> {"none", "pending", "answered"}],
            notes : 0..MaxNotes]
Row == [run : Runs, status : {"none", "running", "completed", "blocked", "failed", "cancelled"}]

NoSession == [status |-> "none", q |-> [i \in Questions |-> "none"], notes |-> 0]
NoDoc == [edits |-> {}, decisions |-> {}]
Idle == [kind |-> "idle", s |-> 0, seen |-> NoSession, base |-> NoDoc]
Request == [kind : {"answer", "chat", "complete"}, s : Sessions, seen : Session, base : Docs]

TypeOK ==
  /\ hosted \in BOOLEAN /\ refining \in BOOLEAN
  /\ session \in [Sessions -> Session]
  /\ original \in [Sessions -> Docs]
  /\ row \in Row
  /\ cancelReq \subseteq Runs /\ opening \subseteq Sessions
  /\ req \in [Requests -> Request \cup {Idle}]
  /\ doc \in Docs
  /\ count \in [edits : 0..MaxEdits, commands : 0..MaxCommands, crashes : 0..MaxCrashes]
  /\ reopened \subseteq Sessions /\ stale \subseteq Sessions /\ lostRow \subseteq Sessions

Init ==
  /\ hosted \in BOOLEAN
  /\ session = [s \in Sessions |-> NoSession]
  /\ original = [s \in Sessions |-> NoDoc]
  /\ row = [run |-> Refine, status |-> "none"]
  /\ cancelReq = {} /\ opening = {} /\ req = [c \in Requests |-> Idle]
  /\ refining = FALSE /\ doc = NoDoc
  /\ count = [edits |-> 0, commands |-> 0, crashes |-> 0] /\ reopened = {} /\ stale = {} /\ lostRow = {}

-----------------------------------------------------------------------------
(* The store.                                                              *)

Exists(s) == session[s] # NoSession
Closed == {"completed", "failed"}
\* findOpenDeepDiveSession.
Open(s) == Exists(s) /\ session[s].status \notin Closed
OpenSessions == {s \in Sessions : Open(s)}
New(s) == ~Exists(s) /\ \A t \in Sessions : t < s => Exists(t)

\* updateDeepDiveSession.
Store(s, value) ==
  /\ session' = [session EXCEPT ![s] = value]
  /\ reopened' = IF session[s].status \in Closed /\ value.status \notin Closed
                 THEN reopened \cup {s} ELSE reopened

\* recordFeatureWorkflowRun and recordFeatureWorkflowCompletion. A run that
\* takes over the running row of another leaves that one without a row.
RecordRun(r, status) ==
  LET taken == IF row.status = "running" /\ row.run # r THEN {row.run} \cap Sessions ELSE {}
  IN /\ row' = [run |-> r, status |-> status]
     /\ lostRow' = (lostRow \cup taken) \ (IF status = "running" THEN {r} ELSE {})

Cancelled(r) == r \in cancelReq  \* assertRunActive throws

\* A command of the operator.
Command == count.commands < MaxCommands /\ count' = [count EXCEPT !.commands = @ + 1]

-----------------------------------------------------------------------------
(* A session begins.                                                       *)

Asked(n) == [i \in Questions |-> IF i <= n THEN "pending" ELSE "none"]
Begun(status, n) == [status |-> status, q |-> Asked(n), notes |-> 0]
Create(s, value) ==
  /\ New(s)
  /\ Store(s, value)
  /\ original' = [original EXCEPT ![s] = doc]

\* DeepDiveStartApplication.start: a work item with an open session gets that
\* one, and nothing changes.
\* Mutant: an open session is not looked for.
mayStartAlways == row.status # "running"
mayStart == OpenSessions = {} /\ row.status # "running"
start(s) ==
  /\ Command
  /\ mayStart
  /\ Create(s, Begun("generating_questions", 0))
  /\ RecordRun(s, "running")
  /\ opening' = opening \cup {s}
  /\ UNCHANGED <<hosted, cancelReq, req, refining, doc, stale>>
\* The same for a recovery question: continuation found that the document
\* changed. (When it did is left open.)
startRecovery(s) ==
  /\ Command
  /\ mayStart
  /\ Create(s, Begun("question_round", 1))
  /\ RecordRun(s, "running")
  /\ UNCHANGED <<hosted, cancelReq, opening, req, refining, doc, stale>>

\* The first question arrives. The session is read again before it is
\* written; then the node "wait-for-answers" asks whether the run is active.
QuestionsReady(s) ==
  /\ s \in opening
  /\ opening' = opening \ {s}
  /\ LET asked == [session[s] EXCEPT !.q = Asked(1), !.status = "question_round"] IN
     IF Cancelled(s)
     THEN Store(s, [asked EXCEPT !.status = "failed"]) /\ RecordRun(s, "failed") /\ UNCHANGED stale
     ELSE /\ Store(s, asked) /\ RecordRun(s, "running")
          /\ stale' = IF session[s].status = "generating_questions" THEN stale ELSE stale \cup {s}
  /\ UNCHANGED <<hosted, original, cancelReq, req, refining, doc, count>>
QuestionsFail(s) ==
  /\ s \in opening
  /\ opening' = opening \ {s}
  /\ Store(s, [session[s] EXCEPT !.status = "failed"])
  /\ RecordRun(s, "failed")
  /\ UNCHANGED <<hosted, original, cancelReq, req, refining, doc, count, stale>>

\* Refinement: it starts on an idle card, and ends with a result, or with
\* questions that become a session of their own without a run row. Bound: one
\* refinement worker at a time.
startRefine ==
  /\ Command
  /\ ~refining
  /\ row.status # "running" /\ row # [run |-> Refine, status |-> "blocked"]
  /\ RecordRun(Refine, "running")
  /\ refining' = TRUE
  /\ cancelReq' = cancelReq \ {Refine}
  /\ UNCHANGED <<hosted, session, reopened, original, opening, req, doc, stale>>
\* Each artifact the worker writes is recorded, also of a cancelled run.
RefineProgress ==
  /\ refining
  /\ RecordRun(Refine, "running")
  /\ UNCHANGED <<hosted, session, reopened, original, cancelReq, opening, req, refining, doc, count, stale>>
RefineEnds ==
  /\ refining
  /\ refining' = FALSE
  /\ \E status \in {"completed", "failed"} : RecordRun(Refine, status)
  /\ UNCHANGED <<hosted, session, reopened, original, cancelReq, opening, req, doc, count, stale>>
createDeepDiveHandoff(s, n) ==
  /\ refining /\ ~Cancelled(Refine)
  /\ refining' = FALSE
  /\ OpenSessions = {}
  /\ Create(s, Begun("question_round", n))
  /\ RecordRun(Refine, "blocked")
  /\ UNCHANGED <<hosted, cancelReq, opening, req, doc, count, stale>>

-----------------------------------------------------------------------------
(* Requests. The first half reads the session and goes to wait; the second *)
(* writes the session as it was read, with what it adds.                   *)

\* A write is stale if the stored session is not the one the request holds.
WriteBack(c, value) ==
  LET s == req[c].s IN
  /\ Store(s, value)
  /\ stale' = IF session[s] = req[c].seen THEN stale ELSE stale \cup {s}
  /\ req' = [req EXCEPT ![c] = Idle]
Waiting(c, kind) == req[c].kind = kind
WaitFor(c, kind, s, seen, base) ==
  /\ req[c] = Idle
  /\ req' = [req EXCEPT ![c] = [kind |-> kind, s |-> s, seen |-> seen, base |-> base]]

\* answer: the question must be pending; the session's status is not asked.
\* Mutant: the run row is left as it was, the refinement's perhaps.
recordNothing(s) == UNCHANGED <<row, lostRow>>
recordAnswering(s) == RecordRun(s, "running")
answer(c, s, i) ==
  /\ Command
  /\ Exists(s) /\ session[s].q[i] = "pending"
  /\ LET saved == [session[s] EXCEPT !.q[i] = "answered", !.status = "generating_questions"] IN
     Store(s, saved) /\ WaitFor(c, "answer", s, saved, NoDoc)
  /\ recordAnswering(s)
  /\ UNCHANGED <<hosted, original, cancelReq, opening, refining, doc, stale>>

\* What the request makes of the follow-up evaluation: no question, or one.
allAnswered(q) == \A i \in Questions : q[i] # "pending"
followUps(q) ==
  {q} \cup {[q EXCEPT ![i] = "pending"] : i \in {j \in Questions : q[j] = "none" /\ \A k \in Questions : k < j => q[k] # "none"}}
FollowUpReady(c) ==
  LET s == req[c].s IN
  /\ Waiting(c, "answer")
  /\ \E q \in followUps(req[c].seen.q) :
       IF allAnswered(q)
       THEN IF Cancelled(s)
            THEN WriteBack(c, [req[c].seen EXCEPT !.status = "failed"]) /\ RecordRun(s, "failed")
            ELSE WriteBack(c, [req[c].seen EXCEPT !.status = "ready_for_update"]) /\ RecordRun(s, "running")
       ELSE WriteBack(c, [req[c].seen EXCEPT !.q = q, !.status = "question_round"]) /\ RecordRun(s, "running")
  /\ UNCHANGED <<hosted, original, cancelReq, opening, refining, doc, count>>

\* The catch blocks of answer and of complete (recordFailure).
RequestFails(c) ==
  /\ req[c].kind \in {"answer", "complete"}
  /\ WriteBack(c, [req[c].seen EXCEPT !.status = "failed"])
  /\ RecordRun(req[c].s, "failed")
  /\ UNCHANGED <<hosted, original, cancelReq, opening, refining, doc, count>>

\* chat: about any question, in any session; a failing model is a reply too.
chat(c, s) ==
  /\ Command
  /\ Exists(s) /\ session[s].q[1] # "none" /\ session[s].notes < MaxNotes
  /\ WaitFor(c, "chat", s, session[s], NoDoc)
  /\ UNCHANGED <<hosted, session, reopened, original, row, cancelReq, opening, refining, doc, stale, lostRow>>
ChatReplies(c) ==
  /\ Waiting(c, "chat")
  /\ WriteBack(c, [req[c].seen EXCEPT !.notes = @ + 1])
  /\ UNCHANGED <<hosted, original, row, cancelReq, opening, refining, doc, count, lostRow>>

\* complete: every question is answered, also where there is none yet; the
\* document is read when the update begins.
complete(c, s) ==
  /\ Command
  /\ Exists(s) /\ allAnswered(session[s].q)
  /\ IF Cancelled(s)
     THEN /\ req[c] = Idle /\ UNCHANGED req
          /\ Store(s, [session[s] EXCEPT !.status = "failed"])
          /\ RecordRun(s, "failed")
     ELSE LET updating == [session[s] EXCEPT !.status = "updating_document"] IN
          /\ Store(s, updating) /\ WaitFor(c, "complete", s, updating, doc)
          /\ RecordRun(s, "running")
  /\ UNCHANGED <<hosted, original, cancelReq, opening, refining, doc, stale>>

\* What the document may be built from: a hosted update is a list of edits of
\* the document that was read; a native one rewrites, from the document the
\* session was started from (deterministic update, or the model's choice) or
\* from the one that was read.
bases(c) == IF hosted THEN {req[c].base} ELSE {req[c].base, original[req[c].s]}
Decided(base, s) == [base EXCEPT !.decisions = @ \cup {s}]
\* DeepDiveSourceDocumentRepository.write refuses a document that changed.
\* Mutant: it is overwritten.
writableAlways(c) == TRUE
writable(c) == doc = req[c].base

\* The document is written, the node "record-completion" asks whether the
\* run is active, and evidence, session and run are recorded.
DocumentReady(c) ==
  LET s == req[c].s IN
  /\ Waiting(c, "complete") /\ writable(c)
  /\ \E base \in bases(c) : doc' = Decided(base, s)
  /\ IF Cancelled(s)
     THEN WriteBack(c, [req[c].seen EXCEPT !.status = "failed"]) /\ RecordRun(s, "failed")
     ELSE WriteBack(c, [req[c].seen EXCEPT !.status = "completed"]) /\ RecordRun(s, "completed")
  /\ UNCHANGED <<hosted, original, cancelReq, opening, refining, count>>

-----------------------------------------------------------------------------
(* Cancellation, people, crashes.                                          *)

\* cancel of the run the row names; its session is closed if it is the open
\* one. (Of several open sessions the store returns the youngest.)
CancelTo(status) ==
  /\ Command
  /\ row.status = "running"
  /\ cancelReq' = cancelReq \cup {row.run}
  /\ row' = [row EXCEPT !.status = "cancelled"]
  /\ \E found \in IF OpenSessions = {} THEN {Refine} ELSE OpenSessions :
       IF found = row.run /\ found \in Sessions
       THEN Store(found, [session[found] EXCEPT !.status = status]) /\ UNCHANGED lostRow
       ELSE UNCHANGED <<session, reopened>> /\ lostRow' = lostRow \cup ({row.run} \cap OpenSessions)
  /\ UNCHANGED <<hosted, original, opening, req, refining, doc, stale>>
cancel == CancelTo("failed")

\* Someone edits the document.
Edit ==
  /\ count.edits < MaxEdits
  /\ count' = [count EXCEPT !.edits = @ + 1]
  /\ doc' = [doc EXCEPT !.edits = @ \cup {count'.edits}]
  /\ UNCHANGED <<hosted, session, reopened, original, row, cancelReq, opening, req, refining, stale, lostRow>>

\* The process dies: what was in memory is gone.
Down ==
  /\ count.crashes < MaxCrashes
  /\ count' = [count EXCEPT !.crashes = @ + 1]
  /\ cancelReq' = {} /\ opening' = {} /\ refining' = FALSE
  /\ req' = [c \in Requests |-> Idle]
  /\ UNCHANGED <<hosted, stale>>
Crash == Down /\ UNCHANGED <<session, reopened, original, row, doc, lostRow>>
\* It dies between the commits of a turn: the session is created and its run
\* row is not written; the document is written and its session not recorded.
CrashInStart(s) ==
  /\ mayStart
  /\ \E n \in {0, 1} :
       Create(s, Begun(IF n = 0 THEN "generating_questions" ELSE "question_round", n))
  /\ lostRow' = lostRow \cup {s}
  /\ Down
  /\ UNCHANGED <<row, doc>>
CrashInUpdate(c) ==
  /\ Waiting(c, "complete") /\ writable(c)
  /\ \E base \in bases(c) : doc' = Decided(base, req[c].s)
  /\ Down
  /\ UNCHANGED <<session, reopened, original, row, lostRow>>

Begin(s) ==
  \/ start(s) \/ startRecovery(s) \/ CrashInStart(s)
  \/ QuestionsReady(s) \/ QuestionsFail(s)
  \/ \E n \in Questions : createDeepDiveHandoff(s, n)
Ask(c, s) == chat(c, s) \/ complete(c, s) \/ \E i \in Questions : answer(c, s, i)
Serve(c) ==
  \/ FollowUpReady(c) \/ RequestFails(c) \/ ChatReplies(c) \/ DocumentReady(c)
  \/ CrashInUpdate(c)

Next ==
  \/ \E s \in Sessions : Begin(s) \/ \E c \in Requests : Ask(c, s)
  \/ \E c \in Requests : Serve(c)
  \/ startRefine \/ RefineProgress \/ RefineEnds \/ cancel \/ Edit \/ Crash

Spec == Init /\ [][Next]_vars

-----------------------------------------------------------------------------
(* Properties.                                                             *)

\* No update drops what a person wrote into the document: a hosted update
\* never does, a native one only what had been written before it began.
EditsKept ==
  [][\A e \in doc.edits \ doc'.edits :
       ~hosted /\ \E c \in Requests : Waiting(c, "complete") /\ e \in req[c].base.edits]_vars

\* A work item has one open interview, unless a request opened a closed one
\* again: neither a start, nor a recovery question, nor the questions of a
\* refinement that began before the interview add a second.
OneOpenSession == Cardinality(OpenSessions \ reopened) <= 1

\* An open session that waits for a worker that does not exist can be
\* cancelled, because the run row names it, unless its row was lost or an
\* older copy of it was written back.
Busy(s) == session[s].status \in {"generating_questions", "updating_document"}
Served(s) == s \in opening \/ \E c \in Requests : req[c].kind \in {"answer", "complete"} /\ req[c].s = s
StuckSessionCancellable ==
  \A s \in Sessions :
    (Busy(s) /\ ~Served(s)) =>
      row = [run |-> s, status |-> "running"] \/ s \in stale \cup lostRow
=============================================================================
