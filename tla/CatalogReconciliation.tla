------------------------ MODULE CatalogReconciliation ------------------------
(***************************************************************************)
(* The model catalog of the orchestrator: provider connections, the        *)
(* per-connection reconciliation ledger, the stored catalog snapshots and  *)
(* scan diagnostics, the scan coordinator, and startup reconciliation.     *)
(*                                                                         *)
(* The orchestrator is one Node process over synchronous SQLite stores.    *)
(* Everything between two awaits of real I/O is one turn of the event      *)
(* loop: no other request runs inside it, but the process can die between  *)
(* any two commits of it, and a commit can fail.  `turn' holds the         *)
(* continuation of the turn in progress; while it is not NoTurn only that  *)
(* continuation or a crash can happen.                                     *)
(***************************************************************************)
EXTENDS Naturals, FiniteSets

CONSTANTS
  Conns,          \* connection ids, ordered as the code sorts them
  Models,         \* model ids a provider can return
  Configs,        \* material configurations: endpoint, provider, credential
  Scopes,         \* non-global routing selectors
  TargetVersion,  \* CATALOG_RECONCILIATION_TARGET_VERSION
  Retention,      \* CATALOG_DIAGNOSTIC_RETENTION_LIMIT
  MaxAttempts,    \* bound on attempts after which operators stop asking
  MaxCrashes,     \* bound on process crashes
  Faulty          \* can a commit inside a turn fail, or the process die in it?

ASSUME ConnsAssumption == Conns \subseteq Nat
ASSUME ModelsAssumption == IsFiniteSet(Models)
ASSUME VersionAssumption == TargetVersion \in Nat /\ TargetVersion > 1
ASSUME BoundsAssumption ==
  /\ Retention \in Nat /\ MaxAttempts \in Nat /\ MaxCrashes \in Nat
  /\ Faulty \in BOOLEAN
(* One attempt leaves three diagnostics at most; the code keeps 20. *)
ASSUME RetentionAssumption == Retention >= 3

VARIABLES
  conn,        \* provider_connections: lifecycle state and configuration
  ledger,      \* catalog_reconciliation_ledger: one row per connection
  models,      \* catalog_models: the stored snapshot of each connection
  scannedCfg,  \* history: the configuration the snapshot was read under
  diags,       \* catalog_scan_diagnostics
  overrides,   \* routes each non-global selector of the policy refers to
  scan,        \* inFlight: the running discovery of each connection
  turn,        \* continuation of the event-loop turn in progress
  proc,        \* "down", "settling", "reconciling", "up"
  todo,        \* connections startup has still to reconcile
  attempts,    \* scan attempts claimed so far
  crashes,     \* crashes so far
  contacts     \* history: startup scans of each connection at TargetVersion

durable == <<conn, ledger, models, scannedCfg, diags, overrides>>
vars == <<conn, ledger, models, scannedCfg, diags, overrides, scan, turn,
          proc, todo, attempts, crashes, contacts>>

-----------------------------------------------------------------------------
(* Records *)

Routes == Conns \X Models

Settled == {"available", "empty", "failed"}

DiagSources == {"legacy", "scan", "coordinator", "interrupted", "contradiction"}

Diag == [attempt : Nat, src : DiagSources, ok : BOOLEAN]
NoDiag == [attempt |-> 0, src |-> "none", ok |-> FALSE]

Row == [state : {"none", "never_scanned", "scanning"} \cup Settled,
        ver : Nat, attempt : Nat, count : Nat, diag : Diag \cup {NoDiag}]

NoRow == [state |-> "none", ver |-> 0, attempt |-> 0, count |-> 0,
          diag |-> NoDiag]

NeverScanned(v) == [NoRow EXCEPT !.state = "never_scanned", !.ver = v]

Claimed(a) == [state |-> "scanning", ver |-> TargetVersion, attempt |-> a,
               count |-> 0, diag |-> NoDiag]

NoConfig == 0
Scan == [attempt : Nat, cfg : Configs]
NoScan == [attempt |-> 0, cfg |-> NoConfig]

(* The continuations a turn can be suspended on.  `kind' is the code that  *)
(* runs: a discovery result being applied, the coordinator's catch block,  *)
(* an interrupted claim or a legacy contradiction being settled at         *)
(* startup, or a provider mutation about to trigger a scan.                *)
FailKinds == {"coordinator", "interrupted", "contradiction"}
Turn == [conn : Conns, kind : {"scan"} \cup FailKinds \cup {"mutation"},
         stage : {"clear", "reset", "settle", "trigger"},
         attempt : Nat, routes : SUBSET Models,
         state : Settled, count : Nat, diag : Diag \cup {NoDiag},
         was : {"absent", "active", "revoked"}, wasCfg : Configs \cup {NoConfig}]
NoTurn == [conn |-> 0, kind |-> "none"]

Idle == turn = NoTurn
Exists(c) == conn[c].life \in {"active", "revoked"}

-----------------------------------------------------------------------------
(* The stores *)

(* Faulty variant: pruning keeps the oldest diagnostics. *)
KeepOldest(D) ==
  IF Cardinality(D) <= Retention THEN {D}
  ELSE {K \in SUBSET D : /\ Cardinality(K) = Retention
                         /\ \A k \in K, e \in D \ K : e.attempt >= k.attempt}

(* deleteOldDiagnostics: keep the Retention newest diagnostics.  They are  *)
(* ordered by occurred_at, which follows the order of the attempts; the    *)
(* order inside one attempt depends on the clock and is left open.         *)
KeepNewest(D) ==
  IF Cardinality(D) <= Retention THEN {D}
  ELSE {K \in SUBSET D : /\ Cardinality(K) = Retention
                         /\ \A k \in K, e \in D \ K : e.attempt <= k.attempt}

(* Faulty variant: the new models are upserted over the stored ones. *)
UpsertSnapshot(c, ms, cfg, d) ==
  /\ models' = [models EXCEPT ![c] = @ \cup ms]
  /\ scannedCfg' = [scannedCfg EXCEPT ![c] = cfg]
  /\ \E K \in KeepNewest(diags[c] \cup {d}) : diags' = [diags EXCEPT ![c] = K]

(* applyScanOutcome and applyIdempotentFailureOutcome: one transaction     *)
(* that replaces the snapshot of c and records the diagnostic d.           *)
ReplaceSnapshot(c, ms, cfg, d) ==
  /\ models' = [models EXCEPT ![c] = ms]
  /\ scannedCfg' = [scannedCfg EXCEPT ![c] = cfg]
  /\ \E K \in KeepNewest(diags[c] \cup {d}) : diags' = [diags EXCEPT ![c] = K]

(* settleAttempt's transaction guard. *)
CanSettle(c, a) == ledger[c].state = "scanning" /\ ledger[c].attempt = a

(* Faulty variant: settling loses the reconciliation version. *)
SettleRowUnversioned(c, s, n, d) ==
  ledger' = [ledger EXCEPT ![c] = [@ EXCEPT !.state = s, !.count = n, !.diag = d,
                                            !.ver = TargetVersion - 1]]

(* Faulty variant: the number of models is not written. *)
SettleRowUncounted(c, s, n, d) ==
  ledger' = [ledger EXCEPT ![c] = [@ EXCEPT !.state = s, !.diag = d]]

SettleRow(c, s, n, d) ==
  ledger' = [ledger EXCEPT ![c] = [@ EXCEPT !.state = s, !.count = n, !.diag = d]]

(* adoptLegacyEvidence: settle a row that has never been scanned. *)
CanAdopt(c) == ledger[c].state = "never_scanned" /\ ledger[c].ver = TargetVersion

AdoptRow(c, s, n, d) ==
  ledger' = [ledger EXCEPT ![c] = [state |-> s, ver |-> TargetVersion,
                                   attempt |-> d.attempt, count |-> n, diag |-> d]]

(* resetUnavailableRoutes: every non-global selector that refers to a      *)
(* removed route goes back to inherit, in one policy revision.             *)
DropSelectors(c, ms) ==
  overrides' = [s \in Scopes |->
                  IF overrides[s] \cap ({c} \X ms) # {} THEN {} ELSE overrides[s]]

(* claimAttempt: refused while a claim is open; in eligible_only mode also *)
(* when the version already has a settled outcome.                         *)
Claimable(c, eligibleOnly) ==
  /\ ledger[c].state # "scanning"
  /\ ~ (eligibleOnly /\ ledger[c].ver = TargetVersion /\ ledger[c].state \in Settled)

(* CatalogScanCoordinator.scanConnection up to the provider I/O: coalesce  *)
(* with a running scan, require an active connection, claim the row, and   *)
(* read the connection and its credential for the scan.                    *)
StartsScan(c, eligibleOnly) ==
  scan[c] = NoScan /\ conn[c].life = "active" /\ Claimable(c, eligibleOnly)

(* Faulty variant: the scan starts without the configuration it is for. *)
BeginScanUnconfigured(c) ==
  /\ attempts' = attempts + 1
  /\ ledger' = [ledger EXCEPT ![c] = Claimed(attempts + 1)]
  /\ scan' = [scan EXCEPT ![c] = [attempt |-> attempts + 1, cfg |-> NoConfig]]

BeginScan(c) ==
  /\ attempts' = attempts + 1
  /\ ledger' = [ledger EXCEPT ![c] = Claimed(attempts + 1)]
  /\ scan' = [scan EXCEPT ![c] = [attempt |-> attempts + 1, cfg |-> conn[c].cfg]]

-----------------------------------------------------------------------------
(* A discovery returns, and its result is applied *)

ScanTurn(c, ms, d) ==
  [conn |-> c, kind |-> "scan", stage |-> "reset", attempt |-> scan[c].attempt,
   routes |-> IF d.ok THEN {} ELSE models[c],
   state |-> IF ~ d.ok THEN "failed" ELSE IF ms = {} THEN "empty" ELSE "available",
   count |-> Cardinality(ms), diag |-> d, was |-> "active", wasCfg |-> NoConfig]

FailTurn(c, kind, a) ==
  [conn |-> c, kind |-> kind, stage |-> "clear", attempt |-> a, routes |-> {},
   state |-> "failed", count |-> 0, diag |-> NoDiag, was |-> "active",
   wasCfg |-> NoConfig]

(* scanActiveConnection resolves: the provider answered with models ms, or *)
(* failed (then ms is empty); persistResult commits the outcome.           *)
ScanReturns(c, ok, ms) ==
  /\ Idle /\ proc \in {"reconciling", "up"} /\ scan[c] # NoScan
  /\ ok \/ ms = {}
  /\ LET d == [attempt |-> scan[c].attempt, src |-> "scan", ok |-> ok]
     IN  /\ ReplaceSnapshot(c, ms, scan[c].cfg, d)
         /\ turn' = ScanTurn(c, ms, d)
  /\ UNCHANGED <<conn, ledger, overrides, scan, proc, todo, attempts, crashes,
                 contacts>>

(* The scanner or the commit of its outcome throws: the catch block runs.  *)
ScanThrows(c) ==
  /\ Faulty
  /\ Idle /\ proc \in {"reconciling", "up"} /\ scan[c] # NoScan
  /\ turn' = FailTurn(c, "coordinator", scan[c].attempt)
  /\ UNCHANGED <<durable, scan, proc, todo, attempts, crashes, contacts>>

(* CatalogFailClosedOutcomeWriter.apply: clear the snapshot, record the    *)
(* deterministic diagnostic, remember the removed routes.                  *)
FailClosed ==
  /\ turn.kind \in FailKinds /\ turn.stage = "clear"
  /\ LET d == [attempt |-> turn.attempt, src |-> turn.kind, ok |-> FALSE]
     IN  /\ ReplaceSnapshot(turn.conn, {}, NoConfig, d)
         /\ turn' = [turn EXCEPT !.stage = "reset", !.diag = d,
                                 !.routes = models[turn.conn]]
  /\ UNCHANGED <<conn, ledger, overrides, scan, proc, todo, attempts, crashes,
                 contacts>>

(* onCatalogFailure, called only when the outcome removed routes. *)
ResetRoutes ==
  /\ ~ Idle /\ turn.stage = "reset"
  /\ DropSelectors(turn.conn, turn.routes)
  /\ turn' = [turn EXCEPT !.stage = "settle"]
  /\ UNCHANGED <<conn, ledger, models, scannedCfg, diags, scan, proc, todo,
                 attempts, crashes, contacts>>

(* Faulty variant: the settled promise stays in inFlight. *)
SettleKeepsInFlight ==
  /\ ~ Idle /\ turn.stage = "settle"
  /\ LET c == turn.conn
     IN  IF turn.kind = "contradiction"
         THEN CanAdopt(c) /\ AdoptRow(c, "failed", 0, turn.diag)
         ELSE /\ CanSettle(c, turn.attempt)
              /\ SettleRow(c, turn.state, turn.count, turn.diag)
  /\ turn' = NoTurn
  /\ UNCHANGED <<conn, models, scannedCfg, diags, overrides, scan, proc, todo,
                 attempts, crashes, contacts>>

(* The ledger transaction that ends the turn; the promise settles and      *)
(* leaves inFlight.                                                        *)
Settle ==
  /\ ~ Idle /\ turn.stage = "settle"
  /\ LET c == turn.conn
     IN  /\ IF turn.kind = "contradiction"
            THEN CanAdopt(c) /\ AdoptRow(c, "failed", 0, turn.diag)
            ELSE /\ CanSettle(c, turn.attempt)
                 /\ SettleRow(c, turn.state, turn.count, turn.diag)
         /\ scan' = [scan EXCEPT ![c] = NoScan]
  /\ turn' = NoTurn
  /\ UNCHANGED <<conn, models, scannedCfg, diags, overrides, proc, todo,
                 attempts, crashes, contacts>>

(* A commit of a discovery's turn throws: the coordinator's catch block    *)
(* starts over with the fail-closed writer.                                *)
ScanTurnThrows ==
  /\ Faulty /\ turn.kind = "scan"
  /\ turn' = FailTurn(turn.conn, "coordinator", turn.attempt)
  /\ UNCHANGED <<durable, scan, proc, todo, attempts, crashes, contacts>>

(* The catch block throws too: the promise rejects, and the claim is left  *)
(* for the next startup to settle.                                         *)
CatchThrows ==
  /\ Faulty /\ turn.kind = "coordinator"
  /\ turn' = NoTurn
  /\ scan' = [scan EXCEPT ![turn.conn] = NoScan]
  /\ UNCHANGED <<durable, proc, todo, attempts, crashes, contacts>>

-----------------------------------------------------------------------------
(* Operator requests (the HTTP server accepts them only after startup) *)

(* Individual retry and scan-active: force_settled. *)
RequestScan(c) ==
  /\ Idle /\ proc = "up" /\ attempts < MaxAttempts
  /\ StartsScan(c, FALSE) /\ BeginScan(c)
  /\ UNCHANGED <<conn, models, scannedCfg, diags, overrides, turn, proc, todo,
                 crashes, contacts>>

(* A provider mutation commits the connection row; the turn goes on to     *)
(* ProviderCatalogScanApplication.scanAfterPersistence.                    *)
Mutate(c, life, cfg) ==
  /\ Idle /\ proc = "up" /\ attempts < MaxAttempts
  /\ conn' = [conn EXCEPT ![c] = [life |-> life, cfg |-> cfg]]
  /\ turn' = [FailTurn(c, "mutation", 0) EXCEPT !.stage = "trigger",
                                                !.was = conn[c].life,
                                                !.wasCfg = conn[c].cfg]
  /\ UNCHANGED <<ledger, models, scannedCfg, diags, overrides, scan, proc, todo,
                 attempts, crashes, contacts>>

CreateConnection(c, cfg) == conn[c].life = "absent" /\ Mutate(c, "active", cfg)

(* updateConnection with a new endpoint, and rotateSecret: both leave the  *)
(* lifecycle state alone.                                                  *)
ChangeConnection(c, cfg) ==
  Exists(c) /\ cfg # conn[c].cfg /\ Mutate(c, conn[c].life, cfg)

(* createSecret on a revoked connection. *)
Reactivate(c, cfg) == conn[c].life = "revoked" /\ Mutate(c, "active", cfg)

(* classifyCatalogScanTrigger: created, reactivated, or changed while      *)
(* active.                                                                 *)
Triggers(t) ==
  /\ conn[t.conn].life = "active"
  /\ t.was # "active" \/ t.wasCfg # conn[t.conn].cfg

(* scanAfterPersistence: request a forced scan if the mutation calls for   *)
(* one; a request that finds a scan running joins it.                      *)
TriggerScan ==
  /\ turn.kind = "mutation"
  /\ turn' = NoTurn
  /\ IF Triggers(turn) /\ StartsScan(turn.conn, FALSE)
     THEN BeginScan(turn.conn)
     ELSE UNCHANGED <<ledger, scan, attempts>>
  /\ UNCHANGED <<conn, models, scannedCfg, diags, overrides, proc, todo,
                 crashes, contacts>>

(* revokeSecret and deleteConnection change the connection row only. *)
Revoke(c) ==
  /\ Idle /\ proc = "up" /\ Exists(c)
  /\ conn' = [conn EXCEPT ![c].life = "revoked"]
  /\ UNCHANGED <<ledger, models, scannedCfg, diags, overrides, scan, turn, proc,
                 todo, attempts, crashes, contacts>>

DeleteConnection(c) ==
  /\ Idle /\ proc = "up" /\ Exists(c)
  /\ conn' = [conn EXCEPT ![c].life = "deleted"]
  /\ UNCHANGED <<ledger, models, scannedCfg, diags, overrides, scan, turn, proc,
                 todo, attempts, crashes, contacts>>

(* A routing mutation points selector s at a primary route and perhaps a   *)
(* fallback: validateRoute admits routes of active connections that the    *)
(* catalog lists.                                                          *)
AssignRoutes(s, R) ==
  /\ Idle /\ proc = "up"
  /\ \A r \in R : conn[r[1]].life = "active" /\ r[2] \in models[r[1]]
  /\ overrides' = [overrides EXCEPT ![s] = R]
  /\ UNCHANGED <<conn, ledger, models, scannedCfg, diags, scan, turn, proc, todo,
                 attempts, crashes, contacts>>

-----------------------------------------------------------------------------
(* Crash and startup *)

Crash ==
  /\ proc # "down" /\ crashes < MaxCrashes
  /\ Faulty \/ Idle
  /\ crashes' = crashes + 1
  /\ proc' = "down" /\ turn' = NoTurn /\ todo' = {}
  /\ scan' = [c \in Conns |-> NoScan]
  /\ UNCHANGED <<durable, attempts, contacts>>

(* A commit of startup's own settlement throws: the process exits. *)
StartupThrows ==
  /\ Faulty /\ turn.kind \in {"interrupted", "contradiction"}
  /\ proc' = "down" /\ turn' = NoTurn /\ todo' = {}
  /\ UNCHANGED <<durable, scan, attempts, crashes, contacts>>

Boot ==
  /\ proc = "down" /\ proc' = "settling"
  /\ UNCHANGED <<durable, scan, turn, todo, attempts, crashes, contacts>>

First(S) == {c \in S : \A d \in S : c <= d}

(* Faulty variant: only active connections are looked at. *)
InterruptedActive == {c \in Conns : conn[c].life = "active" /\ ledger[c].state = "scanning"}

Interrupted == {c \in Conns : ledger[c].state = "scanning"}

(* settleInterrupted, for each open claim in order. *)
SettleInterrupted(c) ==
  /\ Idle /\ proc = "settling" /\ c \in First(Interrupted)
  /\ turn' = FailTurn(c, "interrupted", ledger[c].attempt)
  /\ UNCHANGED <<durable, scan, proc, todo, attempts, crashes, contacts>>

BeginReconcile ==
  /\ Idle /\ proc = "settling" /\ Interrupted = {}
  /\ proc' = "reconciling" /\ todo' = {c \in Conns : Exists(c)}
  /\ UNCHANGED <<durable, scan, turn, attempts, crashes, contacts>>

(* The loop of reconcileAtStartup has reached c; a startup scan is awaited *)
(* before the loop goes on.                                                *)
Reconciling(c) ==
  /\ Idle /\ proc = "reconciling" /\ c \in First(todo)
  /\ \A d \in Conns : scan[d] = NoScan

(* Faulty variant: the insert replaces an existing row. *)
InitializeRowReplaces(c) ==
  /\ Reconciling(c) /\ ledger[c] # NeverScanned(TargetVersion)
  /\ ledger' = [ledger EXCEPT ![c] = NeverScanned(TargetVersion)]
  /\ UNCHANGED <<conn, models, scannedCfg, diags, overrides, scan, turn, proc,
                 todo, attempts, crashes, contacts>>

InitializeRow(c) ==
  /\ Reconciling(c) /\ ledger[c].state = "none"
  /\ ledger' = [ledger EXCEPT ![c] = NeverScanned(TargetVersion)]
  /\ UNCHANGED <<conn, models, scannedCfg, diags, overrides, scan, turn, proc,
                 todo, attempts, crashes, contacts>>

Latest(c) == {d \in diags[c] : \A e \in diags[c] : e.attempt <= d.attempt}
HasEvidence(c) == models[c] # {} \/ diags[c] # {}

(* adoptLegacyEvidence: a diagnostic and a snapshot that agree, ... *)
AdoptDiagnostic(c) ==
  /\ Reconciling(c) /\ CanAdopt(c)
  /\ \E d \in Latest(c) :
       /\ d.ok \/ models[c] = {}
       /\ AdoptRow(c, IF ~ d.ok THEN "failed"
                      ELSE IF models[c] = {} THEN "empty" ELSE "available",
                   Cardinality(models[c]), d)
  /\ UNCHANGED <<conn, models, scannedCfg, diags, overrides, scan, turn, proc,
                 todo, attempts, crashes, contacts>>

(* ... a snapshot without a diagnostic, ... *)
AdoptRows(c) ==
  /\ Reconciling(c) /\ CanAdopt(c) /\ models[c] # {} /\ diags[c] = {}
  /\ AdoptRow(c, "available", Cardinality(models[c]), NoDiag)
  /\ UNCHANGED <<conn, models, scannedCfg, diags, overrides, scan, turn, proc,
                 todo, attempts, crashes, contacts>>

(* ... or a snapshot the latest diagnostic contradicts, which is cleared.  *)
AdoptContradiction(c) ==
  /\ Reconciling(c) /\ CanAdopt(c) /\ models[c] # {}
  /\ \E d \in Latest(c) : ~ d.ok
  /\ turn' = FailTurn(c, "contradiction", 0)
  /\ UNCHANGED <<durable, scan, proc, todo, attempts, crashes, contacts>>

(* The row is final as far as evidence goes: it exists, and either is not  *)
(* never_scanned at the target version or has nothing to adopt.            *)
EvidenceAdopted(c) == ledger[c].state # "none" /\ ~ (CanAdopt(c) /\ HasEvidence(c))

StartupEligible(c) ==
  /\ conn[c].life = "active"
  /\ \/ ledger[c].ver < TargetVersion /\ ledger[c].state # "scanning"
     \/ ledger[c].ver = TargetVersion /\ ledger[c].state = "never_scanned"

StartupScan(c) ==
  /\ Reconciling(c) /\ EvidenceAdopted(c) /\ StartupEligible(c)
  /\ StartsScan(c, TRUE) /\ BeginScan(c)
  /\ todo' = todo \ {c}
  /\ contacts' = [contacts EXCEPT ![c] = @ + 1]
  /\ UNCHANGED <<conn, models, scannedCfg, diags, overrides, turn, proc, crashes>>

SkipStartupScan(c) ==
  /\ Reconciling(c) /\ EvidenceAdopted(c) /\ ~ StartupEligible(c)
  /\ todo' = todo \ {c}
  /\ UNCHANGED <<durable, scan, turn, proc, attempts, crashes, contacts>>

(* reconcileAtStartup returns; the HTTP server is composed and listens. *)
OpenHttp ==
  /\ Idle /\ proc = "reconciling" /\ todo = {}
  /\ \A c \in Conns : scan[c] = NoScan
  /\ proc' = "up"
  /\ UNCHANGED <<durable, scan, turn, todo, attempts, crashes, contacts>>

-----------------------------------------------------------------------------
(* What a database written by earlier versions can hold for a connection:  *)
(* catalog evidence without a ledger row, or a consistent row of the       *)
(* previous reconciliation version.                                        *)
LegacyDiag(ok) == [attempt |-> 0, src |-> "legacy", ok |-> ok]

OldRow(s, n, d) == [state |-> s, ver |-> TargetVersion - 1, attempt |-> 0,
                    count |-> n, diag |-> d]

LegacyEvidence ==
  [row : {NoRow}, models : SUBSET Models,
   diags : {{}, {LegacyDiag(TRUE)}, {LegacyDiag(FALSE)}}]

OldUnlisted ==
       [row : {OldRow("never_scanned", 0, NoDiag), OldRow("scanning", 0, NoDiag)},
        models : {{}}, diags : {{}}]
  \cup [row : {OldRow("failed", 0, LegacyDiag(FALSE))},
        models : {{}}, diags : {{LegacyDiag(FALSE)}}]

OldListed ==
  {[row |-> OldRow("available", Cardinality(ms), LegacyDiag(TRUE)), models |-> ms,
    diags |-> {LegacyDiag(TRUE)}] : ms \in (SUBSET Models) \ {{}}}

Legacy == LegacyEvidence \cup OldUnlisted \cup OldListed

Nothing == [row |-> NoRow, models |-> {}, diags |-> {}]

Init ==
  /\ conn \in [Conns -> [life : {"absent", "active", "revoked"}, cfg : Configs]]
  /\ \E old \in [Conns -> Legacy] :
       /\ \A c \in Conns : conn[c].life = "absent" => old[c] = Nothing
       /\ ledger = [c \in Conns |-> old[c].row]
       /\ models = [c \in Conns |-> old[c].models]
       /\ diags = [c \in Conns |-> old[c].diags]
  /\ scannedCfg = [c \in Conns |-> IF models[c] = {} THEN NoConfig ELSE conn[c].cfg]
  /\ overrides = [s \in Scopes |-> {}]
  /\ scan = [c \in Conns |-> NoScan]
  /\ turn = NoTurn /\ proc = "down" /\ todo = {}
  /\ attempts = 0 /\ crashes = 0
  /\ contacts = [c \in Conns |-> 0]

Continue == FailClosed \/ ResetRoutes \/ Settle \/ TriggerScan

Fault == ScanTurnThrows \/ CatchThrows \/ StartupThrows \/ Crash

Startup(c) ==
  \/ SettleInterrupted(c) \/ InitializeRow(c) \/ AdoptDiagnostic(c)
  \/ AdoptRows(c) \/ AdoptContradiction(c) \/ StartupScan(c) \/ SkipStartupScan(c)

Operator(c) ==
  \/ RequestScan(c) \/ Revoke(c) \/ DeleteConnection(c)
  \/ \E cfg \in Configs : \/ CreateConnection(c, cfg)
                          \/ ChangeConnection(c, cfg)
                          \/ Reactivate(c, cfg)

Next ==
  \/ Continue \/ Fault
  \/ Boot \/ BeginReconcile \/ OpenHttp
  \/ \E c \in Conns : Startup(c) \/ Operator(c) \/ ScanThrows(c)
  \/ \E c \in Conns, ok \in BOOLEAN, ms \in SUBSET Models : ScanReturns(c, ok, ms)
  \/ \E s \in Scopes, r1 \in Routes, r2 \in Routes : AssignRoutes(s, {r1, r2})

Spec == Init /\ [][Next]_vars

(* Fairness: the process is restarted after a crash, a turn once begun     *)
(* runs on, startup proceeds, and a provider request returns or times out  *)
(* (SCAN_TIMEOUT_MS) and its completion, queued by the event loop, is not  *)
(* starved by requests served before it, hence strong fairness.  Operators *)
(* owe nothing.                                                            *)
Fairness ==
  /\ WF_vars(Boot) /\ WF_vars(BeginReconcile) /\ WF_vars(OpenHttp)
  /\ WF_vars(Continue)
  /\ \A c \in Conns : WF_vars(Startup(c))
  /\ \A c \in Conns : SF_vars(\E ok \in BOOLEAN, ms \in SUBSET Models : ScanReturns(c, ok, ms))

FairSpec == Spec /\ Fairness

-----------------------------------------------------------------------------
(* Properties *)

(* Every variable keeps its type. *)
TypeOK ==
  /\ conn \in [Conns -> [life : {"absent", "active", "revoked", "deleted"},
                         cfg : Configs]]
  /\ ledger \in [Conns -> Row]
  /\ models \in [Conns -> SUBSET Models]
  /\ scannedCfg \in [Conns -> Configs \cup {NoConfig}]
  /\ diags \in [Conns -> SUBSET Diag]
  /\ overrides \in [Scopes -> SUBSET Routes]
  /\ scan \in [Conns -> Scan \cup {NoScan}]
  /\ turn \in Turn \cup {NoTurn}
  /\ proc \in {"down", "settling", "reconciling", "up"}
  /\ todo \in SUBSET Conns
  /\ attempts \in Nat /\ crashes \in Nat
  /\ contacts \in [Conns -> Nat]

(* validateConsistentFacts: a row of state s and count n over snapshot ms. *)
Agrees(s, n, ms) ==
  /\ s = "available" => ms # {} /\ n = Cardinality(ms)
  /\ s \in {"empty", "failed"} => ms = {} /\ n = 0

(* A row without outcome, or a missing one, has nothing to show. Startup   *)
(* reaches that before the server listens, by adopting what it finds.      *)
NothingUnscanned ==
  proc = "up" =>
    \A c \in Conns : Exists(c) /\ ledger[c].state \in {"none", "never_scanned"} => models[c] = {}

(* Every settled row agrees with its snapshot. *)
RowsAgree == \A c \in Conns : Agrees(ledger[c].state, ledger[c].count, models[c])

(* Whatever crashes, failed commits and interleaved requests do, a settled *)
(* ledger row tells the truth about the stored snapshot: `available' with  *)
(* the number of stored models, and nothing stored under `empty' or        *)
(* `failed'; and once the server listens no models are stored under a row  *)
(* that was never scanned.  CatalogConnectionStateProjector refuses to     *)
(* project anything at all when one row breaks this.                       *)
LedgerMatchesCatalog == RowsAgree /\ NothingUnscanned

(* The diagnostic a settled row names is still stored, in spite of the     *)
(* retention limit, belongs to the row's attempt and has the row's         *)
(* outcome; only a snapshot adopted without a diagnostic names none.       *)
DiagnosticBacksRow ==
  \A c \in Conns :
    ledger[c].state \in Settled =>
      IF ledger[c].diag = NoDiag
      THEN ledger[c].state = "available" /\ ledger[c].attempt = 0
      ELSE /\ ledger[c].diag \in diags[c]
           /\ ledger[c].diag.attempt = ledger[c].attempt
           /\ ledger[c].diag.ok <=> ledger[c].state # "failed"

(* A running discovery owns the open claim of its connection, so no other  *)
(* attempt can settle the row under it (scanCorrelationId = attemptId).    *)
ScanOwnsClaim ==
  \A c \in Conns :
    scan[c] # NoScan => CanSettle(c, scan[c].attempt) /\ ledger[c].ver = TargetVersion

(* A turn that is applying an outcome, wherever it is between its commits, *)
(* still holds what its last transaction needs: the open claim of its      *)
(* attempt, or the never-scanned row it adopts; and what it is about to    *)
(* write into the ledger is already true of the snapshot.                  *)
TurnOwnsClaim ==
  /\ turn \in Turn =>
       /\ turn.kind = "mutation" <=> turn.stage = "trigger"
       /\ turn.kind = "mutation" => proc = "up"
       /\ turn.kind = "scan" =>
            /\ turn.stage # "clear"
            /\ Agrees(turn.state, turn.count, models[turn.conn])
       /\ turn.kind \in {"scan", "coordinator"} =>
            scan[turn.conn] # NoScan /\ scan[turn.conn].attempt = turn.attempt
       /\ turn.kind = "interrupted" =>
            proc = "settling" /\ CanSettle(turn.conn, turn.attempt)
       /\ turn.kind = "contradiction" =>
            /\ proc = "reconciling" /\ CanAdopt(turn.conn)
            /\ \A c \in Conns : scan[c] = NoScan
       /\ turn.kind \in FailKinds =>
            /\ turn.state = "failed" /\ turn.count = 0
            /\ turn.stage # "clear" => models[turn.conn] = {}
  /\ proc \in {"down", "settling"} => \A c \in Conns : scan[c] = NoScan
  /\ proc = "down" => Idle

(* FEAT-069: startup contacts a provider at most once for a reconciliation *)
(* version, however often the process crashes in between.                  *)
StartupContactsOnce == \A c \in Conns : contacts[c] <= 1

(* A settled outcome is final until a newer attempt claims the row: no     *)
(* late result, replayed settlement or adoption overwrites it.             *)
SettledUntilReclaimed ==
  [][\A c \in Conns :
       ledger[c].state \in Settled /\ ledger'[c] # ledger[c] =>
         ledger'[c].state = "scanning" /\ ledger'[c].attempt > ledger[c].attempt]_vars

(* What CatalogConnectionStateProjector shows of a connection. *)
Published(c) ==
  CASE ledger[c].state \in Settled -> [state |-> ledger[c].state, shown |-> models[c]]
    [] ledger[c].state = "scanning" -> [state |-> "pending", shown |-> {}]
    [] OTHER -> [state |-> "unknown", shown |-> {}]

Publication == INSTANCE CatalogPublication
                 WITH pub <- [c \in Conns |-> Published(c)], listed <- models

(* The catalog keeps the promises of CatalogPublication to the readers     *)
(* that go through the ledger (the projector) and to those that read the   *)
(* stored models alone (readRoutingCatalogFacts): an outcome is published  *)
(* once for each claim, in one step, and only when both kinds of readers   *)
(* see the same models; the stored models run ahead of the ledger only     *)
(* while no outcome is published.                                          *)
ReadersAgree == Publication!PubSpec

(* FEAT-069: saving a changed endpoint, credential or lifecycle state      *)
(* triggers a scan of the connection, so when no scan is running the       *)
(* available models are those of the saved configuration. The code does    *)
(* not ensure it: a change saved while a scan runs joins that scan, which  *)
(* read the configuration before. No run claims it.                        *)
CatalogOfSavedConfig ==
  proc = "up" /\ Idle =>
    \A c \in Conns :
      conn[c].life = "active" /\ scan[c] = NoScan /\ ledger[c].state = "available" =>
        scannedCfg[c] = conn[c].cfg

(* Every claim is eventually settled, by its discovery or, when the        *)
(* process died under it, by the next startup.                             *)
ClaimsSettle == \A c \in Conns : ledger[c].state = "scanning" ~> ledger[c].state # "scanning"

(* Startup always reaches the point where the server listens: the          *)
(* reconciliation it awaits neither hangs on a provider nor loops.         *)
StartupCompletes == proc = "down" ~> proc = "up"
=============================================================================
