---------------------------- MODULE DeepDiveProofs ----------------------------
(***************************************************************************)
(* Proofs about DeepDiveSessions, for every number of sessions, questions, *)
(* overlapping requests, notes, edits, commands and crashes.               *)
(***************************************************************************)
EXTENDS DeepDiveSessions, FiniteSetTheorems, TLAPS

-----------------------------------------------------------------------------
(* The inductive invariant *)

Types ==
  /\ session \in [Sessions -> Session]
  /\ original \in [Sessions -> Docs]
  /\ row \in Row
  /\ cancelReq \subseteq Runs /\ opening \subseteq Sessions
  /\ req \in [Requests -> Request \cup {Idle}]
  /\ doc \in Docs
  /\ count \in [edits : 0..MaxEdits, commands : 0..MaxCommands, crashes : 0..MaxCrashes]
  /\ reopened \subseteq Sessions /\ stale \subseteq Sessions /\ lostRow \subseteq Sessions

(* Whoever works on a session works on one that is stored. *)
Stored(s) == session[s].status # "none"
Holds(u) == u # Idle => /\ Stored(u.s) /\ u.seen.status # "none"
                        /\ u.kind = "chat" => u.seen.notes < MaxNotes
Live ==
  /\ \A s \in Sessions : Exists(s) => Stored(s)
  /\ \A s \in opening : Stored(s)
  /\ \A c \in Requests : Holds(req[c])

OneOpen == \A s, t \in OpenSessions \ reopened : s = t

(* The row names a busy session, whether it is served or not. *)
Named(s) == row = [run |-> s, status |-> "running"] \/ s \in stale \cup lostRow
BusyIsNamed == \A s \in Sessions : Busy(s) => Named(s)

DeepDiveInv == Types /\ Live /\ OneOpen /\ BusyIsNamed

-----------------------------------------------------------------------------
(* The bounds and the values the store holds *)

LEMMA Constants ==
  /\ MaxSessions \in Nat \ {0} /\ MaxQuestions \in Nat \ {0} /\ MaxNotes \in Nat
  /\ MaxEdits \in Nat /\ MaxCommands \in Nat /\ MaxCrashes \in Nat
BY BoundsAreNaturals

LEMMA Values ==
  /\ NoSession \in Session /\ NoSession.status = "none"
  /\ NoDoc \in Docs
  /\ Idle \notin Request /\ Idle.kind = "idle"
  /\ 0 \notin Sessions /\ Sessions \subseteq Runs /\ Refine \in Runs /\ Refine \notin Sessions
  /\ 1 \in Questions
<1>1. NoSession \in Session /\ NoSession.status = "none" /\ 1 \in Questions
  BY Constants DEF NoSession, Session, Questions
<1>2. NoDoc \in Docs
  BY DEF NoDoc, Docs
<1>3. Idle \notin Request /\ Idle.kind = "idle"
  BY DEF Idle, Request
<1>4. 0 \notin Sessions /\ Sessions \subseteq Runs /\ Refine \in Runs /\ Refine \notin Sessions
  BY Constants DEF Sessions, Runs, Refine
<1> QED  BY <1>1, <1>2, <1>3, <1>4

(* A request that waits holds a session, a stored copy and a document.     *)
LEMMA Held ==
  ASSUME Types, Live, NEW c \in Requests, req[c].kind # "idle"
  PROVE  /\ req[c] \in Request /\ req[c].s \in Sessions /\ req[c].seen \in Session
         /\ req[c].base \in Docs /\ Stored(req[c].s) /\ req[c].seen.status # "none"
         /\ req[c].kind = "chat" => req[c].seen.notes < MaxNotes
<1>1. req[c] # Idle /\ req[c] \in Request
  BY Values DEF Types
<1>2. Holds(req[c])
  BY DEF Live
<1> QED  BY <1>1, <1>2 DEF Holds, Request

LEMMA BegunIs ==
  ASSUME NEW status \in {"generating_questions", "question_round"}, NEW n \in 0..MaxQuestions
  PROVE  Begun(status, n) \in Session /\ Begun(status, n).status = status
BY Constants DEF Begun, Asked, Session, Questions

-----------------------------------------------------------------------------
(* What a write of a session and a record of a run do *)

(* A session is created only where none is open; a write to a stored one   *)
(* opens no session that is not recorded as opened again.                  *)
LEMMA StoreKeeps ==
  ASSUME DeepDiveInv, NEW s \in Sessions, NEW value \in Session, value.status # "none",
         Store(s, value), Stored(s) \/ OpenSessions = {}
  PROVE  /\ session' \in [Sessions -> Session] /\ reopened' \subseteq Sessions /\ OneOpen'
         /\ \A t \in Sessions : Exists(t)' => Stored(t)'
         /\ \A t \in Sessions : Stored(t) => Stored(t)'
         /\ Stored(s)'
         /\ \A t \in Sessions : t # s => session'[t] = session[t]
         /\ session'[s] = value
<1>1. session' \in [Sessions -> Session] /\ session'[s] = value
      /\ \A t \in Sessions : t # s => session'[t] = session[t]
  BY DEF DeepDiveInv, Types, Store
<1>2. reopened' \subseteq Sessions /\ reopened \subseteq reopened'
  BY DEF DeepDiveInv, Types, Store
<1>3. /\ \A t \in Sessions : Exists(t)' => Stored(t)'
      /\ \A t \in Sessions : Stored(t) => Stored(t)'
      /\ Stored(s)'
  BY <1>1 DEF DeepDiveInv, Live, Exists, Stored
<1>4. OneOpen'
  <2>1. \A t \in Sessions : t # s => (Open(t)' <=> Open(t))
    BY <1>1 DEF Open, Exists
  <2>2. CASE OpenSessions = {}
    <3>1. \A t \in OpenSessions' : t = s
      BY <2>1, <2>2 DEF OpenSessions
    <3> QED  BY <3>1 DEF OneOpen
  <2>3. CASE Stored(s)
    <3>1. Exists(s)
      BY <2>3, Values DEF Stored, Exists
    <3>2. Open(s)' => Open(s) \/ s \in reopened'
      BY <1>1, <3>1 DEF Open, Store
    <3>3. OpenSessions' \ reopened' \subseteq OpenSessions \ reopened
      BY <1>2, <2>1, <3>2 DEF OpenSessions
    <3> QED  BY <3>3 DEF OneOpen, DeepDiveInv
  <2> QED  BY <2>2, <2>3
<1> QED  BY <1>1, <1>2, <1>3, <1>4

RowStatuses == {"none", "running", "completed", "blocked", "failed", "cancelled"}

(* A run that writes the row takes it over from another, which is noted.   *)
LEMMA RecordKeeps ==
  ASSUME Types, NEW r \in Runs, NEW status \in RowStatuses, RecordRun(r, status)
  PROVE  /\ row' \in Row /\ lostRow' \subseteq Sessions
         /\ \A t \in Sessions \ {r} :
              row = [run |-> t, status |-> "running"] \/ t \in lostRow => t \in lostRow'
         /\ status = "running" => row' = [run |-> r, status |-> "running"]
<1>1. row' = [run |-> r, status |-> status]
  BY DEF RecordRun
<1>2. lostRow' = (lostRow \cup (IF row.status = "running" /\ row.run # r THEN {row.run} \cap Sessions ELSE {}))
                   \ (IF status = "running" THEN {r} ELSE {})
  BY DEF RecordRun
<1>3. row' \in Row
  BY <1>1 DEF Row, RowStatuses
<1>4. lostRow' \subseteq Sessions
  BY <1>2 DEF Types
<1>5. ASSUME NEW t \in Sessions \ {r}, row = [run |-> t, status |-> "running"] \/ t \in lostRow
      PROVE  t \in lostRow'
  BY <1>2, <1>5
<1> QED  BY <1>1, <1>3, <1>4, <1>5

(* One turn writes the session and the row of its run together.            *)
LEMMA TurnKeeps ==
  ASSUME DeepDiveInv, NEW s \in Sessions, NEW value \in Session, value.status # "none",
         Store(s, value), Stored(s) \/ OpenSessions = {},
         NEW status \in RowStatuses, RecordRun(s, status),
         stale \subseteq stale',
         value.status \in {"generating_questions", "updating_document"} => status = "running"
  PROVE  /\ session' \in [Sessions -> Session] /\ reopened' \subseteq Sessions
         /\ row' \in Row /\ lostRow' \subseteq Sessions
         /\ OneOpen' /\ BusyIsNamed'
         /\ \A t \in Sessions : Exists(t)' => Stored(t)'
         /\ \A t \in Sessions : Stored(t) => Stored(t)'
         /\ Stored(s)'
<1>1. /\ session' \in [Sessions -> Session] /\ reopened' \subseteq Sessions /\ OneOpen'
      /\ \A t \in Sessions : Exists(t)' => Stored(t)'
      /\ \A t \in Sessions : Stored(t) => Stored(t)'
      /\ Stored(s)'
      /\ \A t \in Sessions : t # s => session'[t] = session[t]
      /\ session'[s] = value
  BY StoreKeeps
<1>2. /\ row' \in Row /\ lostRow' \subseteq Sessions
      /\ \A t \in Sessions \ {s} :
           row = [run |-> t, status |-> "running"] \/ t \in lostRow => t \in lostRow'
      /\ status = "running" => row' = [run |-> s, status |-> "running"]
  BY RecordKeeps, Values DEF DeepDiveInv
<1>3. BusyIsNamed'
  <2> SUFFICES ASSUME NEW t \in Sessions, Busy(t)' PROVE Named(t)'
    BY DEF BusyIsNamed
  <2>1. CASE t = s
    BY <1>1, <1>2, <2>1 DEF Busy, Named
  <2>2. CASE t # s
    <3>1. Named(t)
      BY <1>1, <2>2 DEF Busy, DeepDiveInv, BusyIsNamed
    <3> QED  BY <1>2, <2>2, <3>1 DEF Named
  <2> QED  BY <2>1, <2>2
<1> QED  BY <1>1, <1>2, <1>3

LEMMA LiveKeeps ==
  ASSUME Types, Live,
         \A t \in Sessions : Exists(t)' => Stored(t)',
         \A t \in Sessions : Stored(t) => Stored(t)',
         \A t \in opening' : t \in opening \/ Stored(t)',
         \A c \in Requests : req'[c] = req[c] \/ req'[c] = Idle \/ Holds(req[c])'
  PROVE  Live'
<1>1. \A t \in opening' : Stored(t)'
  BY DEF Types, Live
<1>2. \A c \in Requests : Holds(req[c])'
  <2> SUFFICES ASSUME NEW c \in Requests PROVE Holds(req[c])'
    OBVIOUS
  <2>1. CASE req'[c] = Idle
    BY <2>1 DEF Holds
  <2>2. CASE req'[c] = req[c] /\ req[c] # Idle
    <3>1. Holds(req[c]) /\ req[c].s \in Sessions
      BY <2>2 DEF Live, Types, Request
    <3> QED  BY <2>2, <3>1 DEF Holds
  <2> QED  BY <2>1, <2>2
<1> QED  BY <1>1, <1>2 DEF Live

(* Steps that leave the sessions and the row alone. *)
LEMMA Apart ==
  ASSUME DeepDiveInv, UNCHANGED <<session, reopened, original, row, stale, lostRow>>,
         cancelReq' \subseteq Runs, opening' \subseteq opening, doc' \in Docs,
         count' \in [edits : 0..MaxEdits, commands : 0..MaxCommands, crashes : 0..MaxCrashes],
         req' \in [Requests -> Request \cup {Idle}],
         \A c \in Requests : req'[c] = req[c] \/ req'[c] = Idle \/ Holds(req[c])'
  PROVE  DeepDiveInv'
<1>1. Types'
  BY DEF DeepDiveInv, Types
<1>2. OneOpen' /\ BusyIsNamed'
  BY DEF DeepDiveInv, OneOpen, OpenSessions, Open, Exists, BusyIsNamed, Busy, Named
<1>3. Live'
  <2>1. (\A t \in Sessions : Exists(t)' => Stored(t)') /\ (\A t \in Sessions : Stored(t) => Stored(t)')
    BY DEF DeepDiveInv, Live, Exists, Stored
  <2>2. Types /\ Live /\ \A t \in opening' : t \in opening
    BY DEF DeepDiveInv
  <2> QED  BY <2>1, <2>2, LiveKeeps
<1> QED  BY <1>1, <1>2, <1>3 DEF DeepDiveInv

(* Steps that write the row of the refinement only. *)
LEMMA RefineRow ==
  ASSUME DeepDiveInv, NEW status \in RowStatuses, RecordRun(Refine, status),
         UNCHANGED <<session, reopened, original, opening, req, doc, stale>>,
         cancelReq' \subseteq Runs,
         count' \in [edits : 0..MaxEdits, commands : 0..MaxCommands, crashes : 0..MaxCrashes]
  PROVE  DeepDiveInv'
<1>1. /\ row' \in Row /\ lostRow' \subseteq Sessions
      /\ \A t \in Sessions : row = [run |-> t, status |-> "running"] \/ t \in lostRow => t \in lostRow'
  BY RecordKeeps, Values DEF DeepDiveInv
<1>2. Types'
  BY <1>1 DEF DeepDiveInv, Types
<1>3. OneOpen' /\ Live'
  BY DEF DeepDiveInv, OneOpen, OpenSessions, Open, Exists, Live, Stored, Holds
<1>4. BusyIsNamed'
  BY <1>1 DEF DeepDiveInv, BusyIsNamed, Busy, Named
<1> QED  BY <1>2, <1>3, <1>4 DEF DeepDiveInv

Counts == [edits : 0..MaxEdits, commands : 0..MaxCommands, crashes : 0..MaxCrashes]

LEMMA CommandCounts == Types /\ Command => count' \in Counts
BY Constants DEF Types, Command, Counts

LEMMA DownCounts == Types /\ Down => count' \in Counts
BY Constants DEF Types, Down, Counts

-----------------------------------------------------------------------------
(* A session begins *)

LEMMA StepStart ==
  ASSUME DeepDiveInv, NEW s \in Sessions,
         start(s) \/ startRecovery(s) \/ \E n \in Questions : createDeepDiveHandoff(s, n)
  PROVE  DeepDiveInv'
<1>1. Types /\ Live /\ OpenSessions = {}
  BY DEF DeepDiveInv, start, startRecovery, createDeepDiveHandoff, mayStart
<1>2. UNCHANGED <<req, doc, stale>> /\ cancelReq' \subseteq Runs
  BY DEF start, startRecovery, createDeepDiveHandoff, DeepDiveInv, Types
<1>3. PICK status \in {"generating_questions", "question_round"}, n \in 0..MaxQuestions :
        /\ Create(s, Begun(status, n))
        /\ \/ RecordRun(s, "running")
           \/ RecordRun(Refine, "blocked") /\ status = "question_round"
  BY Constants DEF start, startRecovery, createDeepDiveHandoff, Questions
<1> DEFINE value == Begun(status, n)
<1>4. value \in Session /\ value.status = status
  BY BegunIs
<1>5. Store(s, value) /\ original' \in [Sessions -> Docs]
  BY <1>1, <1>3 DEF Create, Types
<1> HIDE DEF value
<1>6. /\ session' \in [Sessions -> Session] /\ reopened' \subseteq Sessions /\ OneOpen'
      /\ \A t \in Sessions : Exists(t)' => Stored(t)'
      /\ \A t \in Sessions : Stored(t) => Stored(t)'
      /\ Stored(s)'
      /\ \A t \in Sessions : t # s => session'[t] = session[t]
      /\ session'[s] = value
  BY <1>1, <1>4, <1>5, StoreKeeps
<1>7. row' \in Row /\ lostRow' \subseteq Sessions /\ BusyIsNamed'
  <2>1. CASE RecordRun(s, "running")
    BY <1>1, <1>2, <1>4, <1>5, <2>1, TurnKeeps DEF RowStatuses
  <2>2. CASE RecordRun(Refine, "blocked") /\ status = "question_round"
    <3>1. /\ row' \in Row /\ lostRow' \subseteq Sessions
          /\ \A t \in Sessions : row = [run |-> t, status |-> "running"] \/ t \in lostRow => t \in lostRow'
      BY <1>1, <2>2, RecordKeeps, Values DEF RowStatuses
    <3>2. \A t \in Sessions : Busy(t)' => Busy(t)
      BY <1>4, <1>6, <2>2 DEF Busy
    <3>3. BusyIsNamed'
      BY <1>2, <3>1, <3>2 DEF DeepDiveInv, BusyIsNamed, Named
    <3> QED  BY <3>1, <3>3
  <2> QED  BY <1>3, <2>1, <2>2
<1>8. count' \in Counts
  BY <1>1, CommandCounts DEF start, startRecovery, createDeepDiveHandoff, Types, Counts
<1>9. opening' \subseteq Sessions /\ \A t \in opening' : t \in opening \/ t = s
  BY <1>1 DEF start, startRecovery, createDeepDiveHandoff, Types
<1>10. Types'
  BY <1>1, <1>2, <1>5, <1>6, <1>7, <1>8, <1>9 DEF Types, Counts
<1>11. Live'
  <2>1. \A c \in Requests : req'[c] = req[c]
    BY <1>2
  <2> QED  BY <1>1, <1>6, <1>9, <2>1, LiveKeeps
<1> QED  BY <1>6, <1>7, <1>10, <1>11 DEF DeepDiveInv

LEMMA StepCrashInStart ==
  ASSUME DeepDiveInv, NEW s \in Sessions, CrashInStart(s)
  PROVE  DeepDiveInv'
<1>1. Types /\ Live /\ OpenSessions = {}
  BY DEF DeepDiveInv, CrashInStart, mayStart
<1>2. PICK status \in {"generating_questions", "question_round"}, n \in 0..MaxQuestions :
        Create(s, Begun(status, n))
  BY Constants DEF CrashInStart
<1> DEFINE value == Begun(status, n)
<1>3. value \in Session /\ value.status = status
  BY BegunIs
<1>4. Store(s, value) /\ original' \in [Sessions -> Docs]
  BY <1>1, <1>2 DEF Create, Types
<1> HIDE DEF value
<1>5. /\ session' \in [Sessions -> Session] /\ reopened' \subseteq Sessions /\ OneOpen'
      /\ \A t \in Sessions : Exists(t)' => Stored(t)'
      /\ \A t \in Sessions : Stored(t) => Stored(t)'
      /\ \A t \in Sessions : t # s => session'[t] = session[t]
  BY <1>1, <1>3, <1>4, StoreKeeps
<1>6. /\ row' = row /\ doc' = doc /\ stale' = stale /\ lostRow' = lostRow \cup {s}
      /\ cancelReq' = {} /\ opening' = {} /\ req' = [c \in Requests |-> Idle]
  BY DEF CrashInStart, Down
<1>7. BusyIsNamed'
  <2> SUFFICES ASSUME NEW t \in Sessions, Busy(t)' PROVE Named(t)'
    BY DEF BusyIsNamed
  <2>1. CASE t = s
    BY <1>6, <2>1 DEF Named
  <2>2. CASE t # s
    <3>1. Named(t)
      BY <1>5, <2>2 DEF Busy, DeepDiveInv, BusyIsNamed
    <3> QED  BY <1>6, <3>1 DEF Named
  <2> QED  BY <2>1, <2>2
<1>8. count' \in Counts
  BY <1>1, DownCounts DEF CrashInStart
<1>9. Types'
  BY <1>1, <1>4, <1>5, <1>6, <1>8 DEF Types, Counts
<1>10. Live'
  <2>1. \A c \in Requests : req'[c] = Idle
    BY <1>6
  <2>2. \A t \in opening' : t \in opening
    BY <1>6
  <2> QED  BY <1>1, <1>5, <2>1, <2>2, LiveKeeps
<1> QED  BY <1>5, <1>7, <1>9, <1>10 DEF DeepDiveInv

LEMMA StepQuestions ==
  ASSUME DeepDiveInv, NEW s \in Sessions, QuestionsReady(s) \/ QuestionsFail(s)
  PROVE  DeepDiveInv'
<1>1. Types /\ Live /\ s \in opening /\ Stored(s) /\ session[s] \in Session
  BY DEF DeepDiveInv, QuestionsReady, QuestionsFail, Live, Types
<1>2. /\ UNCHANGED <<original, cancelReq, req, doc, count>>
      /\ opening' = opening \ {s}
      /\ stale \subseteq stale' /\ stale' \subseteq Sessions
  BY <1>1 DEF QuestionsReady, QuestionsFail, Types
<1>3. PICK value \in Session, status \in RowStatuses :
        /\ Store(s, value) /\ RecordRun(s, status)
        /\ value.status \in {"failed", "question_round"}
  <2>1. CASE QuestionsFail(s)
    <3>1. [session[s] EXCEPT !.status = "failed"] \in Session
          /\ [session[s] EXCEPT !.status = "failed"].status = "failed"
      BY <1>1 DEF Session
    <3> QED  BY <2>1, <3>1 DEF QuestionsFail, RowStatuses
  <2>2. CASE QuestionsReady(s)
    <3> DEFINE asked == [session[s] EXCEPT !.q = Asked(1), !.status = "question_round"]
               failed == [asked EXCEPT !.status = "failed"]
    <3>1. asked \in Session /\ asked.status = "question_round"
      BY <1>1 DEF Session, Asked
    <3>2. failed \in Session /\ failed.status = "failed"
      BY <1>1 DEF Session, Asked
    <3>3. \/ Store(s, failed) /\ RecordRun(s, "failed")
          \/ Store(s, asked) /\ RecordRun(s, "running")
      BY <2>2 DEF QuestionsReady
    <3> HIDE DEF asked, failed
    <3> QED  BY <3>1, <3>2, <3>3 DEF RowStatuses
  <2> QED  BY <2>1, <2>2
<1>4. /\ session' \in [Sessions -> Session] /\ reopened' \subseteq Sessions
      /\ row' \in Row /\ lostRow' \subseteq Sessions
      /\ OneOpen' /\ BusyIsNamed'
      /\ \A t \in Sessions : Exists(t)' => Stored(t)'
      /\ \A t \in Sessions : Stored(t) => Stored(t)'
  BY <1>1, <1>2, <1>3, TurnKeeps
<1>5. Types'
  BY <1>1, <1>2, <1>4 DEF Types
<1>6. Live'
  BY <1>1, <1>2, <1>4, LiveKeeps
<1> QED  BY <1>4, <1>5, <1>6 DEF DeepDiveInv

LEMMA StepRefine ==
  ASSUME DeepDiveInv, startRefine \/ RefineProgress \/ RefineEnds
  PROVE  DeepDiveInv'
<1>1. Types
  BY DEF DeepDiveInv
<1>2. /\ UNCHANGED <<session, reopened, original, opening, req, doc, stale>>
      /\ cancelReq' \subseteq Runs
      /\ \E status \in RowStatuses : RecordRun(Refine, status)
  BY <1>1 DEF startRefine, RefineProgress, RefineEnds, Types, RowStatuses
<1>3. count' \in Counts
  BY <1>1, CommandCounts DEF startRefine, RefineProgress, RefineEnds, Types, Counts
<1> QED  BY <1>2, <1>3, RefineRow DEF Counts

-----------------------------------------------------------------------------
(* Requests *)

(* A request that begins to wait holds what it has just stored.            *)
LEMMA StepAnswer ==
  ASSUME DeepDiveInv, NEW c \in Requests, NEW s \in Sessions, NEW i \in Questions, answer(c, s, i)
  PROVE  DeepDiveInv'
<1>1. Types /\ Live /\ session[s] \in Session /\ Stored(s)
  BY DEF DeepDiveInv, answer, Live, Types
<1> DEFINE saved == [session[s] EXCEPT !.q[i] = "answered", !.status = "generating_questions"]
<1>2. saved \in Session /\ saved.status = "generating_questions"
  BY <1>1 DEF Session
<1>3. /\ Store(s, saved) /\ WaitFor(c, "answer", s, saved, NoDoc) /\ RecordRun(s, "running")
      /\ UNCHANGED <<original, cancelReq, opening, doc, stale>>
  BY DEF answer, recordAnswering
<1> HIDE DEF saved
<1>4. /\ session' \in [Sessions -> Session] /\ reopened' \subseteq Sessions
      /\ row' \in Row /\ lostRow' \subseteq Sessions
      /\ OneOpen' /\ BusyIsNamed'
      /\ \A t \in Sessions : Exists(t)' => Stored(t)'
      /\ \A t \in Sessions : Stored(t) => Stored(t)'
      /\ Stored(s)'
  BY <1>1, <1>2, <1>3, TurnKeeps DEF RowStatuses
<1> DEFINE new == [kind |-> "answer", s |-> s, seen |-> saved, base |-> NoDoc]
<1>5. new \in Request /\ new.s = s /\ new.seen = saved /\ new.kind = "answer"
  BY <1>2, Values DEF Request
<1>6. req' = [req EXCEPT ![c] = new]
  BY <1>3 DEF WaitFor
<1> HIDE DEF new
<1>7. req' \in [Requests -> Request \cup {Idle}] /\ req'[c] = new
      /\ \A d \in Requests : d # c => req'[d] = req[d]
  BY <1>1, <1>5, <1>6 DEF Types
<1>8. \A d \in Requests : req'[d] = req[d] \/ req'[d] = Idle \/ Holds(req[d])'
  BY <1>2, <1>4, <1>5, <1>7 DEF Holds
<1>9. count' \in Counts
  BY <1>1, CommandCounts DEF answer
<1>10. Types'
  BY <1>1, <1>3, <1>4, <1>7, <1>9 DEF Types, Counts
<1>11. Live'
  BY <1>1, <1>3, <1>4, <1>8, LiveKeeps
<1> QED  BY <1>4, <1>10, <1>11 DEF DeepDiveInv

(* A request that returns writes what it holds, with a status of its own,  *)
(* and the row of its run.                                                 *)
LEMMA ReturnKeeps ==
  ASSUME DeepDiveInv, NEW c \in Requests, req[c].kind # "idle",
         NEW value \in Session, value.status # "none", WriteBack(c, value),
         NEW status \in RowStatuses, RecordRun(req[c].s, status),
         value.status \notin {"generating_questions", "updating_document"},
         UNCHANGED <<original, cancelReq, opening, count>>, doc' \in Docs
  PROVE  DeepDiveInv'
<1> DEFINE s == req[c].s
<1>1. Types /\ Live /\ s \in Sessions /\ Stored(s)
  BY Held DEF DeepDiveInv
<1>2. /\ Store(s, value) /\ req' = [req EXCEPT ![c] = Idle]
      /\ stale \subseteq stale' /\ stale' \subseteq Sessions
  BY <1>1 DEF WriteBack, Types
<1> HIDE DEF s
<1>3. RecordRun(s, status)
  BY DEF s
<1>4. /\ session' \in [Sessions -> Session] /\ reopened' \subseteq Sessions
      /\ row' \in Row /\ lostRow' \subseteq Sessions
      /\ OneOpen' /\ BusyIsNamed'
      /\ \A t \in Sessions : Exists(t)' => Stored(t)'
      /\ \A t \in Sessions : Stored(t) => Stored(t)'
  BY <1>1, <1>2, <1>3, TurnKeeps
<1>5. req' \in [Requests -> Request \cup {Idle}]
      /\ \A d \in Requests : req'[d] = req[d] \/ req'[d] = Idle
  BY <1>1, <1>2 DEF Types
<1>6. Types'
  BY <1>1, <1>2, <1>4, <1>5 DEF Types
<1>7. Live'
  BY <1>1, <1>4, <1>5, LiveKeeps
<1> QED  BY <1>4, <1>6, <1>7 DEF DeepDiveInv

LEMMA StatusSet ==
  ASSUME NEW u \in Session,
         NEW status \in {"failed", "completed", "ready_for_update", "updating_document"}
  PROVE  /\ [u EXCEPT !.status = status] \in Session
         /\ [u EXCEPT !.status = status].status = status
BY DEF Session

LEMMA StepFails ==
  ASSUME DeepDiveInv, NEW c \in Requests, RequestFails(c)
  PROVE  DeepDiveInv'
<1>1. req[c].kind # "idle" /\ doc' \in Docs
  BY DEF RequestFails, DeepDiveInv, Types
<1>2. req[c].seen \in Session
  BY <1>1, Held DEF DeepDiveInv
<1>3. /\ WriteBack(c, [req[c].seen EXCEPT !.status = "failed"]) /\ RecordRun(req[c].s, "failed")
      /\ UNCHANGED <<original, cancelReq, opening, count>>
  BY DEF RequestFails
<1> QED  BY <1>1, <1>2, <1>3, StatusSet, ReturnKeeps DEF RowStatuses

LEMMA StepFollowUp ==
  ASSUME DeepDiveInv, NEW c \in Requests, FollowUpReady(c)
  PROVE  DeepDiveInv'
<1>1. /\ req[c].kind # "idle" /\ doc' \in Docs
      /\ UNCHANGED <<original, cancelReq, opening, count>>
  BY DEF FollowUpReady, Waiting, DeepDiveInv, Types
<1>2. req[c].seen \in Session
  BY <1>1, Held DEF DeepDiveInv
<1>3. PICK q \in followUps(req[c].seen.q) :
        \/ /\ WriteBack(c, [req[c].seen EXCEPT !.status = "failed"])
           /\ RecordRun(req[c].s, "failed")
        \/ /\ WriteBack(c, [req[c].seen EXCEPT !.status = "ready_for_update"])
           /\ RecordRun(req[c].s, "running")
        \/ /\ WriteBack(c, [req[c].seen EXCEPT !.q = q, !.status = "question_round"])
           /\ RecordRun(req[c].s, "running")
  BY DEF FollowUpReady
<1>4. q \in [Questions -> {"none", "pending", "answered"}]
  BY <1>2 DEF followUps, Session
<1>5. /\ [req[c].seen EXCEPT !.q = q, !.status = "question_round"] \in Session
      /\ [req[c].seen EXCEPT !.q = q, !.status = "question_round"].status = "question_round"
  BY <1>2, <1>4 DEF Session
<1>6. CASE WriteBack(c, [req[c].seen EXCEPT !.status = "failed"]) /\ RecordRun(req[c].s, "failed")
  BY <1>1, <1>2, <1>6, StatusSet, ReturnKeeps DEF RowStatuses
<1>7. CASE WriteBack(c, [req[c].seen EXCEPT !.status = "ready_for_update"]) /\ RecordRun(req[c].s, "running")
  BY <1>1, <1>2, <1>7, StatusSet, ReturnKeeps DEF RowStatuses
<1>8. CASE /\ WriteBack(c, [req[c].seen EXCEPT !.q = q, !.status = "question_round"])
           /\ RecordRun(req[c].s, "running")
  BY <1>1, <1>2, <1>5, <1>8, ReturnKeeps DEF RowStatuses
<1> QED  BY <1>3, <1>6, <1>7, <1>8

(* What an update makes of the document. *)
LEMMA DecidedIs ==
  ASSUME DeepDiveInv, NEW c \in Requests, req[c].kind # "idle", NEW base \in bases(c)
  PROVE  /\ Decided(base, req[c].s) \in Docs
         /\ Decided(base, req[c].s).edits = base.edits
<1>1. base \in Docs /\ req[c].s \in Sessions
  BY Held DEF bases, DeepDiveInv, Types
<1> QED  BY <1>1 DEF Decided, Docs

LEMMA StepDocument ==
  ASSUME DeepDiveInv, NEW c \in Requests, DocumentReady(c)
  PROVE  DeepDiveInv'
<1>1. req[c].kind # "idle" /\ UNCHANGED <<original, cancelReq, opening, count>>
  BY DEF DocumentReady, Waiting
<1>2. doc' \in Docs
  BY <1>1, DecidedIs DEF DocumentReady
<1>3. req[c].seen \in Session
  BY <1>1, Held DEF DeepDiveInv
<1>4. PICK status \in {"failed", "completed"} :
        WriteBack(c, [req[c].seen EXCEPT !.status = status]) /\ RecordRun(req[c].s, status)
  BY DEF DocumentReady
<1> QED  BY <1>1, <1>2, <1>3, <1>4, StatusSet, ReturnKeeps DEF RowStatuses

LEMMA StepChat ==
  ASSUME DeepDiveInv, NEW c \in Requests, NEW s \in Sessions, chat(c, s)
  PROVE  DeepDiveInv'
<1>1. Types /\ Live /\ session[s] \in Session /\ Stored(s) /\ session[s].notes < MaxNotes
  BY DEF DeepDiveInv, chat, Live, Types
<1> DEFINE new == [kind |-> "chat", s |-> s, seen |-> session[s], base |-> NoDoc]
<1>2. new \in Request /\ new.s = s /\ new.seen = session[s]
  BY <1>1, Values DEF Request
<1>3. req' = [req EXCEPT ![c] = new]
  BY DEF chat, WaitFor
<1> HIDE DEF new
<1>4. req' \in [Requests -> Request \cup {Idle}] /\ req'[c] = new
      /\ \A d \in Requests : d # c => req'[d] = req[d]
  BY <1>1, <1>2, <1>3 DEF Types
<1>5. UNCHANGED <<session, reopened, original, row, cancelReq, opening, doc, stale, lostRow>>
  BY DEF chat
<1>6. \A d \in Requests : req'[d] = req[d] \/ req'[d] = Idle \/ Holds(req[d])'
  BY <1>1, <1>2, <1>4, <1>5 DEF Holds, Stored
<1>7. count' \in Counts
  BY <1>1, CommandCounts DEF chat
<1> QED  BY <1>1, <1>4, <1>5, <1>6, <1>7, Apart DEF Types, Counts

(* A reply writes back the status the chat has seen: the session's own,    *)
(* or an older one, which is noted.                                        *)
LEMMA StepReply ==
  ASSUME DeepDiveInv, NEW c \in Requests, ChatReplies(c)
  PROVE  DeepDiveInv'
<1> DEFINE s == req[c].s
           value == [req[c].seen EXCEPT !.notes = @ + 1]
<1>1. req[c].kind = "chat" /\ UNCHANGED <<original, row, cancelReq, opening, doc, count, lostRow>>
  BY DEF ChatReplies, Waiting
<1>2. /\ Types /\ Live /\ s \in Sessions /\ Stored(s) /\ req[c].seen \in Session
      /\ req[c].seen.status # "none" /\ req[c].seen.notes < MaxNotes
  BY <1>1, Held DEF DeepDiveInv
<1>3. value \in Session /\ value.status = req[c].seen.status
  BY <1>2, Constants DEF Session
<1>4. /\ Store(s, value) /\ req' = [req EXCEPT ![c] = Idle]
      /\ stale' = IF session[s] = req[c].seen THEN stale ELSE stale \cup {s}
  BY DEF ChatReplies, WriteBack
<1> HIDE DEF s, value
<1>5. /\ session' \in [Sessions -> Session] /\ reopened' \subseteq Sessions /\ OneOpen'
      /\ \A t \in Sessions : Exists(t)' => Stored(t)'
      /\ \A t \in Sessions : Stored(t) => Stored(t)'
      /\ \A t \in Sessions : t # s => session'[t] = session[t]
      /\ session'[s] = value
  BY <1>2, <1>3, <1>4, StoreKeeps
<1>6. BusyIsNamed'
  <2> SUFFICES ASSUME NEW t \in Sessions, Busy(t)' PROVE Named(t)'
    BY DEF BusyIsNamed
  <2>1. Busy(t) \/ t \in stale'
    BY <1>3, <1>4, <1>5 DEF Busy
  <2>2. Busy(t) => Named(t)
    BY DEF DeepDiveInv, BusyIsNamed
  <2> QED  BY <1>1, <1>4, <2>1, <2>2 DEF Named
<1>7. req' \in [Requests -> Request \cup {Idle}]
      /\ \A d \in Requests : req'[d] = req[d] \/ req'[d] = Idle
  BY <1>2, <1>4 DEF Types
<1>8. Types'
  BY <1>1, <1>2, <1>4, <1>5, <1>7 DEF Types
<1>9. Live'
  BY <1>1, <1>2, <1>5, <1>7, LiveKeeps
<1> QED  BY <1>5, <1>6, <1>8, <1>9 DEF DeepDiveInv

LEMMA StepComplete ==
  ASSUME DeepDiveInv, NEW c \in Requests, NEW s \in Sessions, complete(c, s)
  PROVE  DeepDiveInv'
<1>1. Types /\ Live /\ session[s] \in Session /\ Stored(s)
  BY DEF DeepDiveInv, complete, Live, Types
<1>2. UNCHANGED <<original, cancelReq, opening, doc, stale>>
  BY DEF complete
<1>3. PICK status \in {"failed", "updating_document"}, st \in {"failed", "running"} :
        /\ Store(s, [session[s] EXCEPT !.status = status]) /\ RecordRun(s, st)
        /\ status = "updating_document" => st = "running"
        /\ \/ req' = req
           \/ WaitFor(c, "complete", s, [session[s] EXCEPT !.status = status], doc)
  BY DEF complete
<1> DEFINE value == [session[s] EXCEPT !.status = status]
<1>4. value \in Session /\ value.status = status
  BY <1>1, StatusSet
<1> HIDE DEF value
<1>5. Store(s, value) /\ (req' = req \/ WaitFor(c, "complete", s, value, doc))
  BY <1>3 DEF value
<1>6. /\ session' \in [Sessions -> Session] /\ reopened' \subseteq Sessions
      /\ row' \in Row /\ lostRow' \subseteq Sessions
      /\ OneOpen' /\ BusyIsNamed'
      /\ \A t \in Sessions : Exists(t)' => Stored(t)'
      /\ \A t \in Sessions : Stored(t) => Stored(t)'
      /\ Stored(s)'
  <2>1. status # "none" /\ st \in RowStatuses
    BY DEF RowStatuses
  <2> QED  BY <1>1, <1>2, <1>3, <1>4, <1>5, <2>1, TurnKeeps
<1> DEFINE new == [kind |-> "complete", s |-> s, seen |-> value, base |-> doc]
<1>7. new \in Request /\ new.s = s /\ new.seen = value /\ new.kind = "complete"
  BY <1>1, <1>4 DEF Request, Types
<1>8. req' = req \/ req' = [req EXCEPT ![c] = new]
  BY <1>5 DEF WaitFor
<1> HIDE DEF new
<1>9. /\ req' \in [Requests -> Request \cup {Idle}]
      /\ \A d \in Requests : req'[d] = req[d] \/ req'[d] = new
  BY <1>1, <1>7, <1>8 DEF Types
<1>10. \A d \in Requests : req'[d] = req[d] \/ req'[d] = Idle \/ Holds(req[d])'
  BY <1>4, <1>6, <1>7, <1>9 DEF Holds
<1>11. count' \in Counts
  BY <1>1, CommandCounts DEF complete
<1>12. Types'
  BY <1>1, <1>2, <1>6, <1>9, <1>11 DEF Types, Counts
<1>13. Live'
  BY <1>1, <1>2, <1>6, <1>10, LiveKeeps
<1> QED  BY <1>6, <1>12, <1>13 DEF DeepDiveInv

-----------------------------------------------------------------------------
(* Cancellation, people, crashes *)

LEMMA StepCancel ==
  ASSUME DeepDiveInv, cancel
  PROVE  DeepDiveInv'
<1>1. Types /\ Live /\ row \in Row /\ row.status = "running"
  BY DEF DeepDiveInv, Types, cancel, CancelTo
<1>2. /\ UNCHANGED <<original, opening, req, doc, stale>> /\ cancelReq' \subseteq Runs
      /\ row' \in Row
  BY <1>1 DEF cancel, CancelTo, Types, Row
<1>3. count' \in Counts
  BY <1>1, CommandCounts DEF cancel, CancelTo
<1>4. PICK found \in IF OpenSessions = {} THEN {Refine} ELSE OpenSessions :
        IF found = row.run /\ found \in Sessions
        THEN Store(found, [session[found] EXCEPT !.status = "failed"]) /\ UNCHANGED lostRow
        ELSE UNCHANGED <<session, reopened>> /\ lostRow' = lostRow \cup ({row.run} \cap OpenSessions)
  BY DEF cancel, CancelTo
<1>5. \A t \in Sessions : Named(t) => t = row.run \/ t \in stale \cup lostRow
  BY DEF Named
<1>6. CASE found = row.run /\ found \in Sessions
  <2> DEFINE value == [session[found] EXCEPT !.status = "failed"]
  <2>1. session[found] \in Session /\ Stored(found)
    <3>1. Open(found)
      BY <1>6, Values DEF OpenSessions
    <3> QED  BY <1>1, <1>6, <3>1 DEF Types, Open, Live
  <2>2. value \in Session /\ value.status = "failed"
    BY <2>1, StatusSet
  <2>3. Store(found, value) /\ lostRow' = lostRow
    BY <1>4, <1>6
  <2> HIDE DEF value
  <2>4. /\ session' \in [Sessions -> Session] /\ reopened' \subseteq Sessions /\ OneOpen'
        /\ \A t \in Sessions : Exists(t)' => Stored(t)'
        /\ \A t \in Sessions : Stored(t) => Stored(t)'
        /\ \A t \in Sessions : t # found => session'[t] = session[t]
        /\ session'[found] = value
    BY <1>6, <2>1, <2>2, <2>3, StoreKeeps
  <2>5. BusyIsNamed'
    <3> SUFFICES ASSUME NEW t \in Sessions, Busy(t)' PROVE Named(t)'
      BY DEF BusyIsNamed
    <3>1. t # found /\ Busy(t)
      BY <2>2, <2>4 DEF Busy
    <3>2. Named(t)
      BY <3>1 DEF DeepDiveInv, BusyIsNamed
    <3> QED  BY <1>2, <1>5, <1>6, <2>3, <3>1, <3>2 DEF Named
  <2>6. Types'
    BY <1>1, <1>2, <1>3, <2>3, <2>4 DEF Types, Counts
  <2>7. Live'
    BY <1>1, <1>2, <2>4, LiveKeeps
  <2> QED  BY <2>4, <2>5, <2>6, <2>7 DEF DeepDiveInv
<1>7. CASE ~(found = row.run /\ found \in Sessions)
  <2>1. UNCHANGED <<session, reopened>> /\ lostRow' = lostRow \cup ({row.run} \cap OpenSessions)
    BY <1>4, <1>7
  <2>2. OneOpen' /\ Live'
    BY <1>2, <2>1 DEF DeepDiveInv, OneOpen, OpenSessions, Open, Exists, Live, Stored, Holds
  <2>3. lostRow' \subseteq Sessions
    BY <1>1, <2>1 DEF Types, OpenSessions
  <2>4. Types'
    BY <1>1, <1>2, <1>3, <2>1, <2>3 DEF Types, Counts
  <2>5. BusyIsNamed'
    <3> SUFFICES ASSUME NEW t \in Sessions, Busy(t)' PROVE Named(t)'
      BY DEF BusyIsNamed
    <3>1. Busy(t) /\ Named(t)
      BY <2>1 DEF Busy, DeepDiveInv, BusyIsNamed
    <3>2. t \in OpenSessions
      BY <3>1, Values DEF Busy, OpenSessions, Open, Exists, Closed
    <3> QED  BY <1>2, <1>5, <2>1, <3>1, <3>2 DEF Named
  <2> QED  BY <2>2, <2>4, <2>5 DEF DeepDiveInv
<1> QED  BY <1>6, <1>7

LEMMA EditIs ==
  ASSUME Types, Edit
  PROVE  doc' \in Docs /\ doc.edits \subseteq doc'.edits /\ count' \in Counts
<1>1. count' \in Counts /\ count'.edits \in 1..MaxEdits
  BY Constants DEF Edit, Types, Counts
<1>2. doc' \in Docs /\ doc.edits \subseteq doc'.edits
  BY <1>1 DEF Edit, Types, Docs
<1> QED  BY <1>1, <1>2

LEMMA StepEdit ==
  ASSUME DeepDiveInv, Edit
  PROVE  DeepDiveInv'
<1>1. UNCHANGED <<session, reopened, original, row, cancelReq, opening, req, stale, lostRow>>
  BY DEF Edit
<1>2. Types
  BY DEF DeepDiveInv
<1> QED  BY <1>1, <1>2, EditIs, Apart DEF Types, Counts

LEMMA StepCrash ==
  ASSUME DeepDiveInv, Crash \/ \E c \in Requests : CrashInUpdate(c)
  PROVE  DeepDiveInv'
<1>1. /\ UNCHANGED <<session, reopened, original, row, stale, lostRow>> /\ Down
      /\ cancelReq' = {} /\ opening' = {} /\ req' = [c \in Requests |-> Idle]
  BY DEF Crash, CrashInUpdate, Down
<1>2. count' \in Counts
  BY <1>1, DownCounts DEF DeepDiveInv
<1>3. doc' \in Docs
  BY DecidedIs DEF Crash, CrashInUpdate, Waiting, DeepDiveInv, Types
<1> QED  BY <1>1, <1>2, <1>3, Apart DEF Counts

-----------------------------------------------------------------------------
(* The theorems *)

LEMMA DeepDiveInit == Init => DeepDiveInv
<1> SUFFICES ASSUME Init PROVE DeepDiveInv
  OBVIOUS
<1>1. /\ session = [s \in Sessions |-> NoSession] /\ req = [c \in Requests |-> Idle]
      /\ opening = {} /\ reopened = {} /\ stale = {} /\ lostRow = {} /\ cancelReq = {}
      /\ row = [run |-> Refine, status |-> "none"] /\ doc = NoDoc
      /\ original = [s \in Sessions |-> NoDoc]
  BY DEF Init
<1>2. count \in Counts
  BY Constants DEF Init, Counts
<1>3. row \in Row
  BY <1>1, Values DEF Row
<1>4. Types
  BY <1>1, <1>2, <1>3, Values DEF Types, Counts
<1>5. \A s \in Sessions : ~Exists(s) /\ ~Busy(s)
  BY <1>1, Values DEF Exists, Busy
<1> QED  BY <1>1, <1>4, <1>5 DEF DeepDiveInv, Live, Holds, OneOpen, OpenSessions, Open, BusyIsNamed

LEMMA DeepDiveStep == DeepDiveInv /\ [Next]_vars => DeepDiveInv'
<1> SUFFICES ASSUME DeepDiveInv, [Next]_vars PROVE DeepDiveInv'
  OBVIOUS
<1>1. CASE UNCHANGED vars
  <2>1. UNCHANGED <<session, reopened, original, row, stale, lostRow, cancelReq, opening, doc, count, req>>
    BY <1>1 DEF vars
  <2> QED  BY <2>1, Apart DEF DeepDiveInv, Types
<1>2. ASSUME NEW s \in Sessions, Begin(s) PROVE DeepDiveInv'
  BY <1>2, StepStart, StepCrashInStart, StepQuestions DEF Begin
<1>3. ASSUME NEW s \in Sessions, NEW c \in Requests, Ask(c, s) PROVE DeepDiveInv'
  BY <1>3, StepChat, StepComplete, StepAnswer DEF Ask
<1>4. ASSUME NEW c \in Requests, Serve(c) PROVE DeepDiveInv'
  BY <1>4, StepFollowUp, StepFails, StepReply, StepDocument, StepCrash DEF Serve
<1>5. CASE startRefine \/ RefineProgress \/ RefineEnds \/ cancel \/ Edit \/ Crash
  BY <1>5, StepRefine, StepCancel, StepEdit, StepCrash
<1> QED  BY <1>1, <1>2, <1>3, <1>4, <1>5 DEF Next

LEMMA DeepDiveInvariant == Spec => []DeepDiveInv
BY DeepDiveInit, DeepDiveStep, PTL DEF Spec

(* Every stored session, copy held by a request, run row and document has  *)
(* its shape, through every overlap of requests and every crash.           *)
THEOREM DeepDiveTypeCorrect == Spec => []TypeOK
<1> DEFINE Flags == hosted \in BOOLEAN /\ refining \in BOOLEAN
<1>1. Init => Flags
  BY Zenon DEF Init
<1>2. Flags /\ [Next]_vars => Flags'
  <2> SUFFICES ASSUME Flags, [Next]_vars PROVE hosted' \in BOOLEAN /\ refining' \in BOOLEAN
    BY Zenon
  <2>1. hosted' = hosted
    BY DEF Next, vars, Begin, Ask, Serve, start, startRecovery, CrashInStart, QuestionsReady,
           QuestionsFail, createDeepDiveHandoff, chat, complete, answer, FollowUpReady,
           RequestFails, ChatReplies, DocumentReady, CrashInUpdate, startRefine, RefineProgress,
           RefineEnds, cancel, CancelTo, Edit, Crash, Down
  <2>2. refining' = refining \/ refining' = TRUE \/ refining' = FALSE
    BY DEF Next, vars, Begin, Ask, Serve, start, startRecovery, CrashInStart, QuestionsReady,
           QuestionsFail, createDeepDiveHandoff, chat, complete, answer, FollowUpReady,
           RequestFails, ChatReplies, DocumentReady, CrashInUpdate, startRefine, RefineProgress,
           RefineEnds, cancel, CancelTo, Edit, Crash, Down
  <2> QED  BY <2>1, <2>2, Zenon
<1>3. DeepDiveInv /\ Flags => TypeOK
  BY Zenon DEF DeepDiveInv, Types, TypeOK
<1> QED  BY <1>1, <1>2, <1>3, DeepDiveInvariant, PTL DEF Spec

(* A work item has one open interview, whatever starts, recovers or hands  *)
(* off, unless a request has opened a closed one again.                    *)
THEOREM OneInterview == Spec => []OneOpenSession
<1>1. DeepDiveInv => OneOpenSession
  <2> SUFFICES ASSUME DeepDiveInv PROVE Cardinality(OpenSessions \ reopened) <= 1
    BY DEF OneOpenSession
  <2> DEFINE S == OpenSessions \ reopened
  <2>1. \A s, t \in S : s = t
    BY DEF DeepDiveInv, OneOpen
  <2> HIDE DEF S
  <2>2. CASE S = {}
    BY <2>2, FS_EmptySet DEF S
  <2>3. ASSUME NEW s \in S PROVE Cardinality(S) <= 1
    <3>1. S = {s}
      BY <2>1
    <3> QED  BY <3>1, FS_Singleton
  <2> QED  BY <2>2, <2>3 DEF S
<1> QED  BY <1>1, DeepDiveInvariant, PTL

(* A session that waits for a worker is named by the running row, or its   *)
(* row was lost or an older copy written, which the two histories record:  *)
(* in particular one that waits for a worker that does not exist.          *)
THEOREM StuckIsCancellable == Spec => []StuckSessionCancellable
<1>1. DeepDiveInv => StuckSessionCancellable
  BY DEF DeepDiveInv, BusyIsNamed, Named, StuckSessionCancellable
<1> QED  BY <1>1, DeepDiveInvariant, PTL

(* No step drops a person's edit from the document, but a native rewrite   *)
(* that had read it.                                                       *)
THEOREM UpdatesKeepEdits == Spec => EditsKept
<1> DEFINE Keeps == \A e \in doc.edits \ doc'.edits :
       ~hosted /\ \E c \in Requests : Waiting(c, "complete") /\ e \in req[c].base.edits
<1>1. DeepDiveInv /\ [Next]_vars => [Keeps]_vars
  <2> SUFFICES ASSUME DeepDiveInv, Next PROVE Keeps
    OBVIOUS
  <2>1. CASE doc' = doc
    BY <2>1
  <2>2. CASE Edit
    BY <2>2, EditIs DEF DeepDiveInv
  <2>3. ASSUME NEW c \in Requests, DocumentReady(c) \/ CrashInUpdate(c) PROVE Keeps
    <3>1. /\ Waiting(c, "complete") /\ doc = req[c].base
          /\ \E base \in bases(c) : doc' = Decided(base, req[c].s)
      BY <2>3 DEF DocumentReady, CrashInUpdate, writable
    <3>2. PICK base \in bases(c) : doc' = Decided(base, req[c].s)
      BY <3>1
    <3>3. doc'.edits = base.edits
      BY <3>1, <3>2, DecidedIs DEF Waiting
    <3>4. hosted => base = doc
      BY <3>1 DEF bases
    <3> QED  BY <3>1, <3>3, <3>4
  <2>4. doc' = doc \/ Edit \/ \E c \in Requests : DocumentReady(c) \/ CrashInUpdate(c)
    BY DEF Next, Begin, Ask, Serve, start, startRecovery, CrashInStart, QuestionsReady,
           QuestionsFail, createDeepDiveHandoff, chat, complete, answer, FollowUpReady,
           RequestFails, ChatReplies, startRefine, RefineProgress, RefineEnds, cancel, CancelTo, Crash
  <2> QED  BY <2>1, <2>2, <2>3, <2>4
<1>2. EditsKept <=> [][Keeps]_vars
  BY DEF EditsKept
<1> QED  BY <1>1, <1>2, DeepDiveInvariant, PTL DEF Spec
=============================================================================
