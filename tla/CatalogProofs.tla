---------------------------- MODULE CatalogProofs ----------------------------
(***************************************************************************)
(* Proofs about CatalogReconciliation, for every set of connections,       *)
(* models and selectors and every bound: type correctness, that a settled  *)
(* ledger row tells the truth about the stored snapshot, and that a        *)
(* running discovery owns its claim.                                       *)
(***************************************************************************)
EXTENDS CatalogReconciliation, FiniteSetTheorems, TLAPS

(* The size of a stored snapshot is a natural number, zero when empty. *)
LEMMA SnapshotSize ==
  /\ \A ms \in SUBSET Models : Cardinality(ms) \in Nat
  /\ Cardinality({}) = 0
<1>1. ASSUME NEW ms \in SUBSET Models PROVE Cardinality(ms) \in Nat
  BY ModelsAssumption, FS_Subset, FS_CardinalityType
<1>2. QED BY <1>1, FS_EmptySet

(* Pruning diagnostics only forgets diagnostics. *)
LEMMA PruningForgets == ASSUME NEW D, NEW K \in KeepNewest(D) PROVE K \subseteq D
BY DEF KeepNewest

(* The continuations the code suspends on are well formed. *)
LEMMA FailTurnType ==
  ASSUME NEW c \in Conns, NEW k \in FailKinds \cup {"mutation"}, NEW a \in Nat
  PROVE  FailTurn(c, k, a) \in Turn
BY DEF FailTurn, Turn, Settled

LEMMA ScanTurnType ==
  ASSUME TypeOK, NEW c \in Conns, NEW ms \in SUBSET Models, NEW d \in Diag
  PROVE  ScanTurn(c, ms, d) \in Turn
<1>1. scan[c].attempt \in Nat
  BY DEF TypeOK, Scan, NoScan
<1>2. models[c] \in SUBSET Models
  BY DEF TypeOK
<1>3. QED BY <1>1, <1>2, SnapshotSize DEF ScanTurn, Turn, Settled

(* A discarded or replaced snapshot keeps its types. *)
LEMMA ReplaceSnapshotType ==
  ASSUME TypeOK, NEW c \in Conns, NEW ms \in SUBSET Models,
         NEW cfg \in Configs \cup {NoConfig}, NEW d \in Diag,
         ReplaceSnapshot(c, ms, cfg, d)
  PROVE  /\ models' \in [Conns -> SUBSET Models]
         /\ scannedCfg' \in [Conns -> Configs \cup {NoConfig}]
         /\ diags' \in [Conns -> SUBSET Diag]
<1>1. PICK K \in KeepNewest(diags[c] \cup {d}) : diags' = [diags EXCEPT ![c] = K]
  BY DEF ReplaceSnapshot
<1>2. diags[c] \cup {d} \in SUBSET Diag
  BY DEF TypeOK
<1>3. K \in SUBSET Diag
  BY <1>2, PruningForgets
<1>4. QED BY <1>1, <1>3 DEF ReplaceSnapshot, TypeOK

(* Claiming a row keeps the types of what it writes. *)
LEMMA BeginScanType ==
  ASSUME TypeOK, NEW c \in Conns, BeginScan(c)
  PROVE  /\ attempts' \in Nat
         /\ ledger' \in [Conns -> Row]
         /\ scan' \in [Conns -> Scan \cup {NoScan}]
<1>1. attempts + 1 \in Nat
  BY DEF TypeOK
<1>2. Claimed(attempts + 1) \in Row
  BY <1>1, VersionAssumption DEF Claimed, Row
<1>3. conn[c].cfg \in Configs
  BY DEF TypeOK
<1>4. [attempt |-> attempts + 1, cfg |-> conn[c].cfg] \in Scan
  BY <1>1, <1>3 DEF Scan
<1>5. QED BY <1>1, <1>2, <1>4 DEF BeginScan, TypeOK

(* Settling or adopting a row keeps its type. *)
LEMMA SettleRowType ==
  ASSUME TypeOK, NEW c \in Conns, NEW s \in Settled, NEW n \in Nat,
         NEW d \in Diag \cup {NoDiag}, SettleRow(c, s, n, d)
  PROVE  ledger' \in [Conns -> Row]
<1>1. ledger[c] \in Row
  BY DEF TypeOK
<1>2. [ledger[c] EXCEPT !.state = s, !.count = n, !.diag = d] \in Row
  BY <1>1 DEF Row
<1>3. QED BY <1>2 DEF SettleRow, TypeOK

LEMMA AdoptRowType ==
  ASSUME TypeOK, NEW c \in Conns, NEW s \in Settled, NEW n \in Nat,
         NEW d \in Diag \cup {NoDiag}, AdoptRow(c, s, n, d)
  PROVE  ledger' \in [Conns -> Row]
<1>1. d.attempt \in Nat
  BY DEF Diag, NoDiag
<1>2. [state |-> s, ver |-> TargetVersion, attempt |-> d.attempt, count |-> n,
       diag |-> d] \in Row
  BY <1>1, VersionAssumption DEF Row
<1>3. QED BY <1>2 DEF AdoptRow, TypeOK

-----------------------------------------------------------------------------
(* Type correctness *)

(* What an earlier version can have stored is well typed. *)
LEMMA LegacyType ==
  ASSUME NEW old \in Legacy
  PROVE  old.row \in Row /\ old.models \in SUBSET Models /\ old.diags \in SUBSET Diag
<1>1. NoRow \in Row
  BY DEF NoRow, Row
<1>2. LegacyDiag(TRUE) \in Diag /\ LegacyDiag(FALSE) \in Diag
  BY DEF LegacyDiag, Diag, DiagSources
<1>3. TargetVersion - 1 \in Nat
  BY VersionAssumption
<1>4. ASSUME NEW s \in {"never_scanned", "scanning"} \cup Settled, NEW n \in Nat,
             NEW d \in Diag \cup {NoDiag}
      PROVE  OldRow(s, n, d) \in Row
  BY <1>3 DEF OldRow, Row
<1>5. /\ OldRow("never_scanned", 0, NoDiag) \in Row
      /\ OldRow("scanning", 0, NoDiag) \in Row
      /\ OldRow("failed", 0, LegacyDiag(FALSE)) \in Row
      /\ \A ms \in SUBSET Models :
            OldRow("available", Cardinality(ms), LegacyDiag(TRUE)) \in Row
  BY <1>2, <1>4, SnapshotSize DEF Settled
<1>6. CASE old \in LegacyEvidence
  BY <1>1, <1>2, <1>6 DEF LegacyEvidence
<1>7. CASE old \in OldUnlisted
  BY <1>2, <1>5, <1>7 DEF OldUnlisted
<1>8. CASE old \in OldListed
  <2>1. PICK ms \in SUBSET Models :
          old = [row |-> OldRow("available", Cardinality(ms), LegacyDiag(TRUE)),
                 models |-> ms, diags |-> {LegacyDiag(TRUE)}]
    BY <1>8 DEF OldListed
  <2>2. QED BY <1>2, <1>5, <2>1
<1>9. QED BY <1>6, <1>7, <1>8 DEF Legacy

LEMMA InitType == Init => TypeOK
<1> SUFFICES ASSUME Init PROVE TypeOK
  OBVIOUS
<1>1. PICK old \in [Conns -> Legacy] :
        /\ ledger = [c \in Conns |-> old[c].row]
        /\ models = [c \in Conns |-> old[c].models]
        /\ diags = [c \in Conns |-> old[c].diags]
  BY DEF Init
<1>2. /\ ledger \in [Conns -> Row]
      /\ models \in [Conns -> SUBSET Models]
      /\ diags \in [Conns -> SUBSET Diag]
  BY <1>1, LegacyType
<1>3. /\ conn \in [Conns -> [life : {"absent", "active", "revoked"}, cfg : Configs]]
      /\ scannedCfg = [c \in Conns |-> IF models[c] = {} THEN NoConfig ELSE conn[c].cfg]
  BY DEF Init
<1>4. scannedCfg \in [Conns -> Configs \cup {NoConfig}]
  BY <1>3
<1>5. conn \in [Conns -> [life : {"absent", "active", "revoked", "deleted"}, cfg : Configs]]
  BY <1>3
<1>6. QED BY <1>2, <1>4, <1>5 DEF Init, TypeOK, NoScan

(* Every step keeps the types, one case per action. *)
LEMMA NextType == TypeOK /\ [Next]_vars => TypeOK'
<1> SUFFICES ASSUME TypeOK, [Next]_vars PROVE TypeOK'
  OBVIOUS
<1>0. CASE UNCHANGED vars
  BY <1>0 DEF vars, TypeOK
<1>1. CASE FailClosed
  <2>1. turn \in Turn
    BY <1>1 DEF FailClosed, TypeOK, NoTurn, FailKinds
  <2>2. DEFINE d == [attempt |-> turn.attempt, src |-> turn.kind, ok |-> FALSE]
  <2>3. d \in Diag /\ turn.conn \in Conns
    BY <1>1, <2>1 DEF FailClosed, FailKinds, Turn, Diag, DiagSources
  <2>4. /\ ReplaceSnapshot(turn.conn, {}, NoConfig, d)
        /\ turn' = [turn EXCEPT !.stage = "reset", !.diag = d, !.routes = models[turn.conn]]
    BY <1>1 DEF FailClosed
  <2>5. models[turn.conn] \in SUBSET Models
    BY <2>3 DEF TypeOK
  <2>6. turn' \in Turn
    BY <2>1, <2>3, <2>4, <2>5 DEF Turn
  <2>7. QED BY <1>1, <2>3, <2>4, <2>6, ReplaceSnapshotType DEF FailClosed, TypeOK
<1>2. CASE ResetRoutes
  <2>1. turn \in Turn
    BY <1>2 DEF ResetRoutes, Idle, TypeOK
  <2>2. turn' \in Turn
    BY <1>2, <2>1 DEF ResetRoutes, Turn
  <2>3. overrides' \in [Scopes -> SUBSET Routes]
    BY <1>2 DEF ResetRoutes, DropSelectors, TypeOK
  <2>4. QED BY <1>2, <2>2, <2>3 DEF ResetRoutes, TypeOK
<1>3. CASE Settle
  <2>1. turn \in Turn
    BY <1>3 DEF Settle, Idle, TypeOK
  <2>2. /\ turn.conn \in Conns /\ turn.state \in Settled /\ turn.count \in Nat
        /\ turn.diag \in Diag \cup {NoDiag}
    BY <2>1 DEF Turn
  <2>3. ledger' \in [Conns -> Row]
    <3>1. CASE turn.kind = "contradiction"
      BY <1>3, <2>2, <3>1, AdoptRowType DEF Settle, Settled
    <3>2. CASE turn.kind # "contradiction"
      BY <1>3, <2>2, <3>2, SettleRowType DEF Settle
    <3>3. QED BY <3>1, <3>2
  <2>4. scan' \in [Conns -> Scan \cup {NoScan}]
    BY <1>3, <2>2 DEF Settle, TypeOK
  <2>5. QED BY <1>3, <2>3, <2>4 DEF Settle, TypeOK
<1>4. CASE TriggerScan
  <2>1. turn \in Turn
    BY <1>4 DEF TriggerScan, TypeOK, NoTurn
  <2>2. turn.conn \in Conns
    BY <2>1 DEF Turn
  <2>3. CASE BeginScan(turn.conn)
    BY <1>4, <2>2, <2>3, BeginScanType DEF TriggerScan, TypeOK
  <2>4. CASE UNCHANGED <<ledger, scan, attempts>>
    BY <1>4, <2>4 DEF TriggerScan, TypeOK
  <2>5. QED BY <1>4, <2>3, <2>4 DEF TriggerScan
<1>5. CASE ScanTurnThrows
  <2>1. turn \in Turn
    BY <1>5 DEF ScanTurnThrows, TypeOK, NoTurn
  <2>2. turn.conn \in Conns /\ turn.attempt \in Nat
    BY <2>1 DEF Turn
  <2>3. turn' \in Turn
    BY <1>5, <2>2, FailTurnType DEF ScanTurnThrows, FailKinds
  <2>4. QED BY <1>5, <2>3 DEF ScanTurnThrows, TypeOK, durable
<1>6. CASE CatchThrows
  BY <1>6 DEF CatchThrows, TypeOK, durable
<1>7. CASE StartupThrows
  BY <1>7 DEF StartupThrows, TypeOK, durable
<1>8. CASE Crash
  BY <1>8 DEF Crash, TypeOK, durable
<1>9. CASE Boot
  BY <1>9 DEF Boot, TypeOK, durable
<1>10. CASE BeginReconcile
  BY <1>10 DEF BeginReconcile, TypeOK, durable
<1>11. CASE OpenHttp
  BY <1>11 DEF OpenHttp, TypeOK, durable
<1>12. ASSUME NEW c \in Conns, Startup(c) PROVE TypeOK'
  <2>1. CASE SettleInterrupted(c)
    <3>1. ledger[c].attempt \in Nat
      BY DEF TypeOK, Row
    <3>2. turn' \in Turn
      BY <2>1, <3>1, FailTurnType DEF SettleInterrupted, FailKinds
    <3>3. QED BY <2>1, <3>2 DEF SettleInterrupted, TypeOK, durable
  <2>2. CASE InitializeRow(c)
    <3>1. NeverScanned(TargetVersion) \in Row
      BY VersionAssumption DEF NeverScanned, NoRow, Row
    <3>2. QED BY <2>2, <3>1 DEF InitializeRow, TypeOK
  <2>3. CASE AdoptDiagnostic(c)
    <3>1. PICK d \in Latest(c) :
            AdoptRow(c, IF ~ d.ok THEN "failed"
                        ELSE IF models[c] = {} THEN "empty" ELSE "available",
                     Cardinality(models[c]), d)
      BY <2>3 DEF AdoptDiagnostic
    <3>2. d \in Diag
      BY <3>1 DEF Latest, TypeOK
    <3>3. Cardinality(models[c]) \in Nat
      BY SnapshotSize DEF TypeOK
    <3>4. ledger' \in [Conns -> Row]
      BY <3>1, <3>2, <3>3, AdoptRowType DEF Settled
    <3>5. QED BY <2>3, <3>4 DEF AdoptDiagnostic, TypeOK
  <2>4. CASE AdoptRows(c)
    <3>1. Cardinality(models[c]) \in Nat
      BY SnapshotSize DEF TypeOK
    <3>2. ledger' \in [Conns -> Row]
      BY <2>4, <3>1, AdoptRowType DEF AdoptRows, Settled
    <3>3. QED BY <2>4, <3>2 DEF AdoptRows, TypeOK
  <2>5. CASE AdoptContradiction(c)
    <3>1. turn' \in Turn
      BY <2>5, FailTurnType DEF AdoptContradiction, FailKinds
    <3>2. QED BY <2>5, <3>1 DEF AdoptContradiction, TypeOK, durable
  <2>6. CASE StartupScan(c)
    BY <2>6, BeginScanType DEF StartupScan, TypeOK
  <2>7. CASE SkipStartupScan(c)
    BY <2>7 DEF SkipStartupScan, TypeOK, durable
  <2>8. QED BY <1>12, <2>1, <2>2, <2>3, <2>4, <2>5, <2>6, <2>7 DEF Startup
<1>13. ASSUME NEW c \in Conns, Operator(c) PROVE TypeOK'
  <2>1. CASE RequestScan(c)
    BY <2>1, BeginScanType DEF RequestScan, TypeOK
  <2>2. CASE Revoke(c)
    BY <2>2 DEF Revoke, TypeOK
  <2>3. CASE DeleteConnection(c)
    BY <2>3 DEF DeleteConnection, TypeOK
  <2>4. ASSUME NEW life \in {"active", "revoked"}, NEW cfg \in Configs,
               conn[c].life \in {"absent", "active", "revoked"}, Mutate(c, life, cfg)
        PROVE  TypeOK'
    <3>1. FailTurn(c, "mutation", 0) \in Turn
      BY FailTurnType
    <3>2. conn[c].cfg \in Configs
      BY DEF TypeOK
    <3>3. turn' \in Turn
      BY <2>4, <3>1, <3>2 DEF Mutate, Turn
    <3>4. QED BY <2>4, <3>3 DEF Mutate, TypeOK
  <2>5. ASSUME NEW cfg \in Configs,
               CreateConnection(c, cfg) \/ ChangeConnection(c, cfg) \/ Reactivate(c, cfg)
        PROVE  TypeOK'
    BY <2>4, <2>5 DEF CreateConnection, ChangeConnection, Reactivate, Exists
  <2>6. QED BY <1>13, <2>1, <2>2, <2>3, <2>5 DEF Operator
<1>14. ASSUME NEW c \in Conns, ScanThrows(c) PROVE TypeOK'
  <2>1. scan[c].attempt \in Nat
    BY DEF TypeOK, Scan, NoScan
  <2>2. turn' \in Turn
    BY <1>14, <2>1, FailTurnType DEF ScanThrows, FailKinds
  <2>3. QED BY <1>14, <2>2 DEF ScanThrows, TypeOK, durable
<1>15. ASSUME NEW c \in Conns, NEW ok \in BOOLEAN, NEW ms \in SUBSET Models,
              ScanReturns(c, ok, ms)
       PROVE  TypeOK'
  <2>1. DEFINE d == [attempt |-> scan[c].attempt, src |-> "scan", ok |-> ok]
  <2>2. /\ ReplaceSnapshot(c, ms, scan[c].cfg, d)
        /\ turn' = ScanTurn(c, ms, d)
    BY <1>15 DEF ScanReturns
  <2>3. scan[c] \in Scan
    BY <1>15 DEF ScanReturns, TypeOK
  <2>4. d \in Diag /\ scan[c].cfg \in Configs
    BY <2>3 DEF Scan, Diag, DiagSources
  <2>5. turn' \in Turn
    BY <2>2, <2>4, ScanTurnType
  <2>6. QED BY <1>15, <2>2, <2>4, <2>5, ReplaceSnapshotType DEF ScanReturns, TypeOK
<1>16. ASSUME NEW s \in Scopes, NEW r1 \in Routes, NEW r2 \in Routes,
              AssignRoutes(s, {r1, r2})
       PROVE  TypeOK'
  BY <1>16 DEF AssignRoutes, TypeOK
<1>17. QED
  BY <1>0, <1>1, <1>2, <1>3, <1>4, <1>5, <1>6, <1>7, <1>8, <1>9, <1>10, <1>11,
     <1>12, <1>13, <1>14, <1>15, <1>16 DEF Next, Continue, Fault

(* Every variable of the catalog keeps its type, for any constants. *)
THEOREM TypeCorrect == Spec => []TypeOK
<1>1. QED BY InitType, NextType, PTL DEF Spec

-----------------------------------------------------------------------------
(* The ledger tells the truth.  RowsAgree is not inductive: the *)
(* last commit of a turn copies into the row what an earlier commit of the *)
(* same turn did to the snapshot, and relies on a claim taken many steps   *)
(* before.  ScanOwnsClaim and TurnOwnsClaim carry these facts across the   *)
(* commits, the crashes and the other requests in between.                 *)
CatalogInv == TypeOK /\ RowsAgree /\ ScanOwnsClaim /\ TurnOwnsClaim

(* A turn in progress is a well-formed continuation. *)
LEMMA TurnCases == TypeOK => Idle \/ turn \in Turn
BY DEF TypeOK, Idle

LEMMA NoTurnIsNoTurn == NoTurn \notin Turn
BY DEF NoTurn, Turn, FailKinds

(* What an earlier version can have stored agrees with its row. *)
LEMMA LegacyAgrees ==
  ASSUME NEW old \in Legacy
  PROVE  Agrees(old.row.state, old.row.count, old.models)
<1>1. CASE old \in LegacyEvidence
  BY <1>1 DEF LegacyEvidence, NoRow, Agrees
<1>2. CASE old \in OldUnlisted
  <2>1. /\ old.models = {}
        /\ old.row \in {OldRow("never_scanned", 0, NoDiag), OldRow("scanning", 0, NoDiag),
                       OldRow("failed", 0, LegacyDiag(FALSE))}
    BY <1>2 DEF OldUnlisted
  <2>2. old.row.count = 0 /\ old.row.state # "available"
    <3>1. CASE old.row = OldRow("never_scanned", 0, NoDiag)
      BY <3>1 DEF OldRow
    <3>2. CASE old.row = OldRow("scanning", 0, NoDiag)
      BY <3>2 DEF OldRow
    <3>3. CASE old.row = OldRow("failed", 0, LegacyDiag(FALSE))
      BY <3>3 DEF OldRow
    <3>4. QED BY <2>1, <3>1, <3>2, <3>3
  <2>3. QED BY <2>1, <2>2 DEF Agrees
<1>3. CASE old \in OldListed
  <2>1. PICK ms \in (SUBSET Models) \ {{}} :
          old = [row |-> OldRow("available", Cardinality(ms), LegacyDiag(TRUE)),
                 models |-> ms, diags |-> {LegacyDiag(TRUE)}]
    BY <1>3 DEF OldListed
  <2>2. QED BY <2>1 DEF OldRow, Agrees
<1>4. QED BY <1>1, <1>2, <1>3 DEF Legacy

LEMMA InitCatalogInv == Init => CatalogInv
<1> SUFFICES ASSUME Init PROVE CatalogInv
  OBVIOUS
<1>1. TypeOK
  BY InitType
<1>2. RowsAgree
  <2>1. PICK old \in [Conns -> Legacy] :
          /\ ledger = [c \in Conns |-> old[c].row]
          /\ models = [c \in Conns |-> old[c].models]
    BY DEF Init
  <2>2. QED BY <2>1, LegacyAgrees DEF RowsAgree
<1>3. ScanOwnsClaim /\ TurnOwnsClaim
  BY NoTurnIsNoTurn DEF Init, ScanOwnsClaim, TurnOwnsClaim, Idle
<1>4. QED BY <1>1, <1>2, <1>3 DEF CatalogInv

(* An idle turn satisfies everything TurnOwnsClaim says of turns. *)
LEMMA IdleOwnsClaim ==
  ASSUME turn' = NoTurn,
         proc' \in {"down", "settling"} => \A c \in Conns : scan'[c] = NoScan
  PROVE  TurnOwnsClaim'
BY NoTurnIsNoTurn DEF TurnOwnsClaim, Idle

(* A claim taken on a row without a running scan disturbs no other one. *)
LEMMA BeginScanInv ==
  ASSUME CatalogInv, NEW c \in Conns, BeginScan(c), UNCHANGED models
  PROVE  RowsAgree' /\ ScanOwnsClaim'
<1>1. \A d \in Conns : d # c => ledger'[d] = ledger[d] /\ scan'[d] = scan[d]
  BY DEF BeginScan, CatalogInv, TypeOK
<1>2. /\ ledger'[c] = Claimed(attempts + 1)
      /\ scan'[c].attempt = attempts + 1
  BY DEF BeginScan, CatalogInv, TypeOK
<1>3. RowsAgree'
  BY <1>1, <1>2 DEF CatalogInv, RowsAgree, Agrees, Claimed
<1>4. ScanOwnsClaim'
  BY <1>1, <1>2 DEF CatalogInv, ScanOwnsClaim, CanSettle, Claimed
<1>5. QED BY <1>3, <1>4

(* Settling a claimed row with an outcome the snapshot agrees with, and    *)
(* ending its scan, disturbs no other connection.                          *)
LEMMA SettleInv ==
  ASSUME CatalogInv, NEW c \in Conns, NEW r \in Row,
         ledger' = [ledger EXCEPT ![c] = r],
         Agrees(r.state, r.count, models[c]),
         UNCHANGED models,
         \A d \in Conns : scan'[d] = IF d = c THEN NoScan ELSE scan[d]
  PROVE  RowsAgree' /\ ScanOwnsClaim'
<1>1. ledger'[c] = r /\ \A d \in Conns : d # c => ledger'[d] = ledger[d]
  BY DEF CatalogInv, TypeOK
<1>2. QED BY <1>1 DEF CatalogInv, RowsAgree, ScanOwnsClaim, CanSettle

(* Replacing the snapshot of a connection whose row is not settled leaves  *)
(* the ledger true.                                                        *)
LEMMA ReplaceInv ==
  ASSUME CatalogInv, NEW c \in Conns, NEW ms, NEW cfg, NEW d,
         ReplaceSnapshot(c, ms, cfg, d), UNCHANGED <<ledger, scan>>,
         ledger[c].state \notin Settled
  PROVE  RowsAgree' /\ ScanOwnsClaim' /\ models'[c] = ms
<1>1. models'[c] = ms /\ \A e \in Conns : e # c => models'[e] = models[e]
  BY DEF ReplaceSnapshot, CatalogInv, TypeOK
<1>2. QED
  BY <1>1 DEF CatalogInv, RowsAgree, Agrees, Settled, ScanOwnsClaim, CanSettle

(* Steps that change neither the ledger, the snapshots nor the scans. *)
LEMMA QuietStep ==
  ASSUME CatalogInv, UNCHANGED <<ledger, models, scan>>
  PROVE  RowsAgree' /\ ScanOwnsClaim'
BY DEF CatalogInv, RowsAgree, ScanOwnsClaim, CanSettle

(* The invariant is inductive, one case per action. *)
LEMMA NextCatalogInv == CatalogInv /\ [Next]_vars => CatalogInv'
<1> SUFFICES ASSUME CatalogInv, [Next]_vars
             PROVE  RowsAgree' /\ ScanOwnsClaim' /\ TurnOwnsClaim'
  BY NextType DEF CatalogInv
<1>a. TypeOK /\ (Idle \/ turn \in Turn)
  BY TurnCases DEF CatalogInv
<1>0. CASE UNCHANGED vars
  BY <1>0 DEF vars, CatalogInv, RowsAgree, ScanOwnsClaim, CanSettle,
              TurnOwnsClaim, CanAdopt, Idle
<1>1. CASE FailClosed
  <2>1. turn \in Turn /\ turn.kind \in FailKinds /\ turn.stage = "clear"
    BY <1>1, <1>a DEF FailClosed, Idle, NoTurn, FailKinds
  <2>2. turn.conn \in Conns
    BY <2>1 DEF Turn
  <2>3. ledger[turn.conn].state \notin Settled
    BY <2>1, <2>2 DEF CatalogInv, TurnOwnsClaim, ScanOwnsClaim, CanSettle, CanAdopt,
                      FailKinds, Settled
  <2>4. RowsAgree' /\ ScanOwnsClaim' /\ models'[turn.conn] = {}
    BY <1>1, <2>2, <2>3, ReplaceInv DEF FailClosed
  <2>5. /\ turn'.conn = turn.conn /\ turn'.kind = turn.kind /\ turn'.stage = "reset"
        /\ turn'.attempt = turn.attempt /\ turn'.state = turn.state
        /\ turn'.count = turn.count
    BY <1>1, <2>1 DEF FailClosed, Turn
  <2>6. TurnOwnsClaim'
    BY <1>1, <2>1, <2>2, <2>4, <2>5 DEF FailClosed, CatalogInv, TurnOwnsClaim, FailKinds,
       CanSettle, CanAdopt, Idle
  <2>7. QED BY <2>4, <2>6
<1>2. CASE ResetRoutes
  <2>1. turn \in Turn /\ turn.stage = "reset"
    BY <1>2, <1>a DEF ResetRoutes
  <2>2. /\ turn'.conn = turn.conn /\ turn'.kind = turn.kind /\ turn'.stage = "settle"
        /\ turn'.attempt = turn.attempt /\ turn'.state = turn.state
        /\ turn'.count = turn.count
    BY <1>2, <2>1 DEF ResetRoutes, Turn
  <2>3. TurnOwnsClaim'
    BY <1>2, <2>1, <2>2 DEF ResetRoutes, CatalogInv, TurnOwnsClaim, CanSettle, CanAdopt, Idle
  <2>4. QED BY <1>2, <2>3, QuietStep DEF ResetRoutes
<1>3. CASE Settle
  <2>1. turn \in Turn /\ turn.stage = "settle"
    BY <1>3, <1>a DEF Settle
  <2>2. /\ turn.conn \in Conns /\ turn.state \in Settled /\ turn.count \in Nat
        /\ turn.diag \in Diag \cup {NoDiag} /\ turn.kind # "mutation"
        /\ turn.kind \in {"scan", "mutation"} \cup FailKinds
    BY <2>1 DEF Turn, CatalogInv, TurnOwnsClaim
  <2>3. Agrees(turn.state, turn.count, models[turn.conn])
    BY <2>1, <2>2 DEF CatalogInv, TurnOwnsClaim, Agrees
  <2>4. turn.kind = "contradiction" => turn.state = "failed" /\ turn.count = 0
    BY <2>1 DEF CatalogInv, TurnOwnsClaim, FailKinds
  <2>5. \A d \in Conns : scan'[d] = IF d = turn.conn THEN NoScan ELSE scan[d]
    BY <1>3, <1>a, <2>2 DEF Settle, TypeOK
  <2>6. PICK r \in Row : /\ ledger' = [ledger EXCEPT ![turn.conn] = r]
                         /\ r.state = turn.state /\ r.count = turn.count
    <3>1. CASE turn.kind = "contradiction"
      <4>1. DEFINE r == [state |-> "failed", ver |-> TargetVersion,
                         attempt |-> turn.diag.attempt, count |-> 0, diag |-> turn.diag]
      <4>2. ledger' = [ledger EXCEPT ![turn.conn] = r]
        BY <1>3, <3>1 DEF Settle, AdoptRow
      <4>3. turn.diag.attempt \in Nat
        BY <2>2 DEF Diag, NoDiag
      <4>4. r \in Row /\ r.state = turn.state /\ r.count = turn.count
        BY <2>2, <2>4, <3>1, <4>3, VersionAssumption DEF Row, Settled
      <4>5. QED BY <4>2, <4>4
    <3>2. CASE turn.kind # "contradiction"
      <4>1. DEFINE r == [ledger[turn.conn] EXCEPT !.state = turn.state,
                                                  !.count = turn.count, !.diag = turn.diag]
      <4>2. ledger' = [ledger EXCEPT ![turn.conn] = r]
        BY <1>3, <3>2 DEF Settle, SettleRow
      <4>3. ledger[turn.conn] \in Row
        BY <1>a, <2>2 DEF TypeOK
      <4>4. r \in Row /\ r.state = turn.state /\ r.count = turn.count
        BY <2>2, <4>3 DEF Row
      <4>5. QED BY <4>2, <4>4
    <3>3. QED BY <3>1, <3>2
  <2>7. RowsAgree' /\ ScanOwnsClaim'
    BY <1>3, <2>2, <2>3, <2>5, <2>6, SettleInv DEF Settle
  <2>8. TurnOwnsClaim'
    BY <1>3, <2>5, IdleOwnsClaim DEF Settle, CatalogInv, TurnOwnsClaim
  <2>9. QED BY <2>7, <2>8
<1>4. CASE TriggerScan
  <2>1. turn \in Turn /\ turn.kind = "mutation"
    BY <1>4, <1>a DEF TriggerScan, Idle, NoTurn
  <2>2. turn.conn \in Conns
    BY <2>1 DEF Turn
  <2>3. CASE Triggers(turn) /\ StartsScan(turn.conn, FALSE)
    <3>1. BeginScan(turn.conn)
      BY <1>4, <2>3 DEF TriggerScan
    <3>2. proc \notin {"down", "settling"}
      BY <2>1 DEF CatalogInv, TurnOwnsClaim
    <3>3. QED BY <1>4, <2>2, <3>1, <3>2, BeginScanInv, IdleOwnsClaim DEF TriggerScan
  <2>4. CASE ~ (Triggers(turn) /\ StartsScan(turn.conn, FALSE))
    <3>1. UNCHANGED <<ledger, models, scan, proc>> /\ turn' = NoTurn
      BY <1>4, <2>4 DEF TriggerScan
    <3>2. QED BY <3>1, QuietStep, IdleOwnsClaim DEF CatalogInv, TurnOwnsClaim
  <2>5. QED BY <2>3, <2>4
<1>5. CASE ScanTurnThrows
  <2>1. turn \in Turn /\ turn.kind = "scan"
    BY <1>5, <1>a DEF ScanTurnThrows, Idle, NoTurn
  <2>2. TurnOwnsClaim'
    <3>1. turn' = FailTurn(turn.conn, "coordinator", turn.attempt) /\ UNCHANGED <<scan, proc>>
      BY <1>5 DEF ScanTurnThrows
    <3>2. turn.conn \in Conns
      BY <2>1 DEF Turn
    <3>3. /\ scan[turn.conn] # NoScan /\ scan[turn.conn].attempt = turn.attempt
          /\ proc \notin {"down", "settling"}
      BY <2>1, <3>2 DEF CatalogInv, TurnOwnsClaim
    <3>4. QED BY <3>1, <3>3 DEF FailTurn, TurnOwnsClaim, FailKinds
  <2>3. QED BY <1>5, <2>2, QuietStep DEF ScanTurnThrows, durable
<1>6. CASE CatchThrows
  <2>1. turn \in Turn
    BY <1>6, <1>a DEF CatchThrows, Idle, NoTurn
  <2>2. \A d \in Conns : scan'[d] \in {scan[d], NoScan}
    BY <1>6, <1>a DEF CatchThrows, TypeOK
  <2>3. RowsAgree' /\ ScanOwnsClaim'
    BY <1>6, <2>2 DEF CatchThrows, durable, CatalogInv, RowsAgree, ScanOwnsClaim,
                      CanSettle
  <2>4. TurnOwnsClaim'
    BY <1>6, <2>2, IdleOwnsClaim DEF CatchThrows, CatalogInv, TurnOwnsClaim
  <2>5. QED BY <2>3, <2>4
<1>7. CASE StartupThrows
  <2>1. turn \in Turn /\ turn.kind \in {"interrupted", "contradiction"}
    BY <1>7, <1>a DEF StartupThrows, Idle, NoTurn
  <2>2. \A c \in Conns : scan'[c] = NoScan
    BY <1>7, <2>1 DEF StartupThrows, CatalogInv, TurnOwnsClaim
  <2>3. QED BY <1>7, <2>2, QuietStep, IdleOwnsClaim DEF StartupThrows, durable
<1>8. CASE Crash
  <2>1. \A c \in Conns : scan'[c] = NoScan
    BY <1>8 DEF Crash
  <2>2. RowsAgree' /\ ScanOwnsClaim'
    BY <1>8, <2>1 DEF Crash, durable, CatalogInv, RowsAgree, ScanOwnsClaim
  <2>3. QED BY <1>8, <2>1, <2>2, IdleOwnsClaim DEF Crash
<1>9. CASE Boot
  <2>1. turn' = NoTurn /\ \A c \in Conns : scan'[c] = NoScan
    BY <1>9 DEF Boot, CatalogInv, TurnOwnsClaim, Idle
  <2>2. QED BY <1>9, <2>1, QuietStep, IdleOwnsClaim DEF Boot, durable
<1>10. CASE BeginReconcile
  BY <1>10, QuietStep, IdleOwnsClaim DEF BeginReconcile, durable, Idle
<1>11. CASE OpenHttp
  BY <1>11, QuietStep, IdleOwnsClaim DEF OpenHttp, durable, Idle
<1>12. ASSUME NEW c \in Conns, Startup(c)
       PROVE  RowsAgree' /\ ScanOwnsClaim' /\ TurnOwnsClaim'
  <2>1. CASE SettleInterrupted(c)
    <3>1. TurnOwnsClaim'
      BY <2>1 DEF SettleInterrupted, First, Interrupted, FailTurn, CatalogInv, TurnOwnsClaim,
         CanSettle, FailKinds, Idle, durable
    <3>2. QED BY <2>1, <3>1, QuietStep DEF SettleInterrupted, durable
  <2>2. ASSUME NEW r \in Row, Reconciling(c), ledger' = [ledger EXCEPT ![c] = r],
               Agrees(r.state, r.count, models[c]), UNCHANGED <<models, scan, turn, proc>>
        PROVE  RowsAgree' /\ ScanOwnsClaim' /\ TurnOwnsClaim'
    <3>1. \A d \in Conns : scan'[d] = IF d = c THEN NoScan ELSE scan[d]
      BY <2>2 DEF Reconciling
    <3>2. TurnOwnsClaim'
      BY <2>2, IdleOwnsClaim DEF Reconciling, Idle
    <3>3. QED BY <2>2, <3>1, <3>2, SettleInv
  <2>3. CASE InitializeRow(c)
    <3>1. NeverScanned(TargetVersion) \in Row
      BY VersionAssumption DEF NeverScanned, NoRow, Row
    <3>2. Agrees(NeverScanned(TargetVersion).state, NeverScanned(TargetVersion).count, models[c])
      BY DEF NeverScanned, NoRow, Agrees
    <3>3. QED BY <2>2, <2>3, <3>1, <3>2 DEF InitializeRow
  <2>4. ASSUME NEW s \in Settled, NEW d \in Diag \cup {NoDiag}, Reconciling(c),
               AdoptRow(c, s, Cardinality(models[c]), d),
               Agrees(s, Cardinality(models[c]), models[c]),
               UNCHANGED <<models, scan, turn, proc>>
        PROVE  RowsAgree' /\ ScanOwnsClaim' /\ TurnOwnsClaim'
    <3>1. DEFINE r == [state |-> s, ver |-> TargetVersion, attempt |-> d.attempt,
                       count |-> Cardinality(models[c]), diag |-> d]
    <3>2. Cardinality(models[c]) \in Nat
      BY <1>a, SnapshotSize DEF TypeOK
    <3>3. d.attempt \in Nat
      BY DEF Diag, NoDiag
    <3>4. r \in Row
      BY <3>2, <3>3, VersionAssumption DEF Row
    <3>5. ledger' = [ledger EXCEPT ![c] = r]
      BY <2>4 DEF AdoptRow
    <3>6. Agrees(r.state, r.count, models[c])
      BY <2>4
    <3>7. QED BY <2>2, <2>4, <3>4, <3>5, <3>6
  <2>5. CASE AdoptDiagnostic(c)
    <3>1. DEFINE s(d) == IF ~ d.ok THEN "failed"
                         ELSE IF models[c] = {} THEN "empty" ELSE "available"
    <3>2. PICK d \in Latest(c) : /\ d.ok \/ models[c] = {}
                                 /\ AdoptRow(c, s(d), Cardinality(models[c]), d)
      BY <2>5 DEF AdoptDiagnostic
    <3>3. d \in Diag
      BY <1>a DEF Latest, TypeOK
    <3>4. s(d) \in Settled /\ Agrees(s(d), Cardinality(models[c]), models[c])
      BY <3>2, SnapshotSize DEF Settled, Agrees
    <3>5. QED BY <2>4, <2>5, <3>2, <3>3, <3>4 DEF AdoptDiagnostic
  <2>6. CASE AdoptRows(c)
    <3>1. Agrees("available", Cardinality(models[c]), models[c])
      BY <2>6 DEF AdoptRows, Agrees
    <3>2. QED BY <2>4, <2>6, <3>1 DEF AdoptRows, Settled
  <2>7. CASE AdoptContradiction(c)
    <3>1. TurnOwnsClaim'
      BY <2>7 DEF AdoptContradiction, Reconciling, FailTurn, TurnOwnsClaim, CanAdopt,
         FailKinds, Idle, durable
    <3>2. QED BY <2>7, <3>1, QuietStep DEF AdoptContradiction, durable
  <2>8. CASE StartupScan(c)
    BY <2>8, BeginScanInv, IdleOwnsClaim DEF StartupScan, Reconciling, Idle
  <2>9. CASE SkipStartupScan(c)
    BY <2>9, QuietStep, IdleOwnsClaim DEF SkipStartupScan, Reconciling, Idle, durable
  <2>10. QED
    BY <1>12, <2>1, <2>3, <2>5, <2>6, <2>7, <2>8, <2>9 DEF Startup
<1>13. ASSUME NEW c \in Conns, Operator(c)
       PROVE  RowsAgree' /\ ScanOwnsClaim' /\ TurnOwnsClaim'
  <2>1. CASE RequestScan(c)
    BY <2>1, BeginScanInv, IdleOwnsClaim DEF RequestScan, Idle
  <2>2. CASE Revoke(c)
    BY <2>2, QuietStep, IdleOwnsClaim DEF Revoke, Idle
  <2>3. CASE DeleteConnection(c)
    BY <2>3, QuietStep, IdleOwnsClaim DEF DeleteConnection, Idle
  <2>4. ASSUME NEW life, NEW cfg, Mutate(c, life, cfg)
        PROVE  RowsAgree' /\ ScanOwnsClaim' /\ TurnOwnsClaim'
    <3>1. turn'.kind = "mutation" /\ turn'.stage = "trigger"
      BY <2>4 DEF Mutate, FailTurn
    <3>2. TurnOwnsClaim'
      BY <2>4, <3>1 DEF Mutate, TurnOwnsClaim, FailKinds
    <3>3. QED BY <2>4, <3>2, QuietStep DEF Mutate
  <2>5. QED
    BY <1>13, <2>1, <2>2, <2>3, <2>4 DEF Operator, CreateConnection, ChangeConnection,
       Reactivate
<1>14. ASSUME NEW c \in Conns, ScanThrows(c)
       PROVE  RowsAgree' /\ ScanOwnsClaim' /\ TurnOwnsClaim'
  <2>1. TurnOwnsClaim'
    BY <1>14 DEF ScanThrows, FailTurn, TurnOwnsClaim, FailKinds
  <2>2. QED BY <1>14, <2>1, QuietStep DEF ScanThrows, durable
<1>15. ASSUME NEW c \in Conns, NEW ok \in BOOLEAN, NEW ms \in SUBSET Models,
              ScanReturns(c, ok, ms)
       PROVE  RowsAgree' /\ ScanOwnsClaim' /\ TurnOwnsClaim'
  <2>1. DEFINE d == [attempt |-> scan[c].attempt, src |-> "scan", ok |-> ok]
  <2>2. /\ ReplaceSnapshot(c, ms, scan[c].cfg, d) /\ turn' = ScanTurn(c, ms, d)
        /\ scan[c] # NoScan /\ proc \in {"reconciling", "up"} /\ (ok \/ ms = {})
        /\ UNCHANGED <<ledger, scan, proc>>
    BY <1>15 DEF ScanReturns
  <2>3. ledger[c].state \notin Settled
    BY <2>2 DEF CatalogInv, ScanOwnsClaim, CanSettle, Settled
  <2>4. RowsAgree' /\ ScanOwnsClaim' /\ models'[c] = ms
    BY <2>2, <2>3, ReplaceInv
  <2>5. /\ turn'.conn = c /\ turn'.kind = "scan" /\ turn'.stage = "reset"
        /\ turn'.attempt = scan[c].attempt /\ turn'.count = Cardinality(ms)
        /\ turn'.state = IF ~ ok THEN "failed" ELSE IF ms = {} THEN "empty" ELSE "available"
    BY <2>2 DEF ScanTurn
  <2>6. Agrees(turn'.state, turn'.count, ms)
    BY <2>2, <2>5, SnapshotSize DEF Agrees
  <2>7. TurnOwnsClaim'
    BY <2>2, <2>4, <2>5, <2>6 DEF TurnOwnsClaim, FailKinds
  <2>8. QED BY <2>4, <2>7
<1>16. ASSUME NEW s \in Scopes, NEW r1 \in Routes, NEW r2 \in Routes,
              AssignRoutes(s, {r1, r2})
       PROVE  RowsAgree' /\ ScanOwnsClaim' /\ TurnOwnsClaim'
  BY <1>16, QuietStep, IdleOwnsClaim DEF AssignRoutes, Idle
<1>17. QED
  BY <1>0, <1>1, <1>2, <1>3, <1>4, <1>5, <1>6, <1>7, <1>8, <1>9, <1>10, <1>11,
     <1>12, <1>13, <1>14, <1>15, <1>16 DEF Next, Continue, Fault

LEMMA CatalogInvAlways == Spec => []CatalogInv
<1>1. QED BY InitCatalogInv, NextCatalogInv, PTL DEF Spec

(* A running discovery always owns the open claim of its connection.       *)
THEOREM ClaimOwned == Spec => []ScanOwnsClaim
<1>1. CatalogInv => ScanOwnsClaim
  BY DEF CatalogInv
<1>2. QED BY <1>1, CatalogInvAlways, PTL

(* The last commit of a turn always finds what it needs.                   *)
THEOREM TurnsCanSettle == Spec => []TurnOwnsClaim
<1>1. CatalogInv => TurnOwnsClaim
  BY DEF CatalogInv
<1>2. QED BY <1>1, CatalogInvAlways, PTL
-----------------------------------------------------------------------------
(* What a step does to the ledger and the stored evidence *)

(* A claim; at startup it is a contact of the version. *)
Claims(c) ==
  /\ BeginScan(c) /\ StartsScan(c, FALSE) /\ UNCHANGED <<models, diags>>
  /\ \/ contacts' = contacts
     \/ StartupEligible(c) /\ contacts' = [contacts EXCEPT ![c] = @ + 1]

(* A snapshot replaced under a row that is not settled. *)
Replaces(c) ==
  /\ UNCHANGED <<ledger, attempts, contacts, scan>> /\ ledger[c].state \notin Settled
  /\ \/ FailClosed /\ c = turn.conn
     \/ \E ok \in BOOLEAN, ms \in SUBSET Models : ScanReturns(c, ok, ms)

Adopts(c) == AdoptDiagnostic(c) \/ AdoptRows(c)

LEMMA CatalogEffects ==
  ASSUME CatalogInv, [Next]_vars
  PROVE  \/ UNCHANGED <<ledger, models, diags, attempts, contacts>>
         \/ (Settle /\ turn \in Turn /\ turn.conn \in Conns)
         \/ \E c \in Conns : Claims(c) \/ Replaces(c) \/ InitializeRow(c) \/ Adopts(c)
<1> DEFINE Goal == \/ UNCHANGED <<ledger, models, diags, attempts, contacts>>
                   \/ (Settle /\ turn \in Turn /\ turn.conn \in Conns)
                   \/ \E c \in Conns : Claims(c) \/ Replaces(c) \/ InitializeRow(c) \/ Adopts(c)
<1>a. Idle \/ (turn \in Turn /\ turn.conn \in Conns)
  BY TurnCases DEF CatalogInv, Turn
<1>1. CASE \/ ResetRoutes \/ ScanTurnThrows \/ CatchThrows \/ StartupThrows \/ Crash
           \/ Boot \/ BeginReconcile \/ OpenHttp \/ UNCHANGED vars
  BY <1>1 DEF ResetRoutes, ScanTurnThrows, CatchThrows, StartupThrows, Crash, Boot, BeginReconcile, OpenHttp,
     vars, durable
<1>2. CASE FailClosed
  <2>1. turn \in Turn /\ turn.conn \in Conns /\ turn.kind \in FailKinds /\ turn.stage = "clear"
    BY <1>2, <1>a DEF FailClosed, Idle, NoTurn, FailKinds
  <2>2. ledger[turn.conn].state \notin Settled
    BY <2>1 DEF CatalogInv, TurnOwnsClaim, ScanOwnsClaim, CanSettle, CanAdopt, FailKinds, Settled
  <2> QED  BY <1>2, <2>1, <2>2 DEF FailClosed, Replaces
<1>3. CASE Settle
  BY <1>3, <1>a DEF Settle
<1>4. CASE TriggerScan
  <2>1. turn.conn \in Conns
    BY <1>4, <1>a DEF TriggerScan, Idle, NoTurn
  <2> QED  BY <1>4, <2>1 DEF TriggerScan, Claims
<1>5. ASSUME NEW c \in Conns, Startup(c) PROVE Goal
  <2>1. StartsScan(c, TRUE) => StartsScan(c, FALSE)
    BY DEF StartsScan, Claimable
  <2>2. CASE StartupScan(c)
    BY <2>1, <2>2 DEF StartupScan, Claims
  <2>3. CASE SettleInterrupted(c) \/ AdoptContradiction(c) \/ SkipStartupScan(c)
    BY <2>3 DEF SettleInterrupted, AdoptContradiction, SkipStartupScan, durable
  <2> QED  BY <1>5, <2>2, <2>3 DEF Startup, Adopts
<1>6. ASSUME NEW c \in Conns, Operator(c) PROVE Goal
  BY <1>6 DEF Operator, RequestScan, Revoke, DeleteConnection, CreateConnection, ChangeConnection, Reactivate,
     Mutate, Claims
<1>7. ASSUME NEW c \in Conns, ScanThrows(c) PROVE Goal
  BY <1>7 DEF ScanThrows, durable
<1>8. ASSUME NEW c \in Conns, NEW ok \in BOOLEAN, NEW ms \in SUBSET Models, ScanReturns(c, ok, ms) PROVE Goal
  <2>1. ledger[c].state \notin Settled
    BY <1>8 DEF ScanReturns, CatalogInv, ScanOwnsClaim, CanSettle, Settled
  <2>2. UNCHANGED <<ledger, attempts, contacts, scan>>
    BY <1>8 DEF ScanReturns
  <2>3. Replaces(c)
    BY <1>8, <2>1, <2>2 DEF Replaces
  <2> QED  BY <2>3
<1>9. ASSUME NEW s \in Scopes, NEW r1 \in Routes, NEW r2 \in Routes, AssignRoutes(s, {r1, r2}) PROVE Goal
  BY <1>9 DEF AssignRoutes
<1> HIDE DEF Goal
<1>10. Goal
  <2>1. CASE UNCHANGED <<ledger, models, diags, attempts, contacts>>
    BY <2>1 DEF Goal
  <2> QED
    BY <1>1, <1>2, <1>3, <1>4, <1>5, <1>6, <1>7, <1>8, <1>9 DEF Next, Continue, Fault, Goal
<1> QED  BY <1>10 DEF Goal

(* What the last commit of a turn writes. *)
LEMMA SettleWrites ==
  ASSUME CatalogInv, Settle, turn \in Turn, turn.conn \in Conns
  PROVE  LET c == turn.conn
         IN  /\ ledger[c].state \in {"never_scanned", "scanning"}
             /\ \A b \in Conns : b # c => ledger'[b] = ledger[b]
             /\ ledger'[c].state = turn.state /\ turn.state \in Settled
             /\ ledger'[c].diag = turn.diag
             /\ ledger'[c].attempt = IF turn.kind = "contradiction" THEN turn.diag.attempt
                                     ELSE turn.attempt
             /\ ledger[c].state = "scanning" => ledger'[c].ver = ledger[c].ver
             /\ ledger[c].state = "never_scanned" => turn.kind = "contradiction"
             /\ turn.kind # "contradiction" => ledger[c].attempt = turn.attempt
             /\ Agrees(turn.state, turn.count, models[c]) /\ models' = models
<1> DEFINE c == turn.conn
<1>1. ledger \in [Conns -> Row] /\ ledger[c] \in Row
  BY DEF CatalogInv, TypeOK
<1>2. /\ turn.state \in Settled /\ turn.stage = "settle" /\ turn.kind \in {"scan", "mutation"} \cup FailKinds
      /\ turn.kind # "mutation"
  BY DEF Settle, Turn, CatalogInv, TurnOwnsClaim
<1>3. Agrees(turn.state, turn.count, models[c]) /\ models' = models
  BY <1>2 DEF Settle, CatalogInv, TurnOwnsClaim, Agrees
<1>4. CASE turn.kind = "contradiction"
  <2>1. turn.state = "failed"
    BY <1>4 DEF CatalogInv, TurnOwnsClaim, FailKinds
  <2>2. CanAdopt(c) /\ AdoptRow(c, "failed", 0, turn.diag)
    BY <1>4 DEF Settle
  <2>3. ledger'[c] = [state |-> "failed", ver |-> TargetVersion, attempt |-> turn.diag.attempt,
                      count |-> 0, diag |-> turn.diag]
        /\ \A b \in Conns : b # c => ledger'[b] = ledger[b]
    BY <1>1, <2>2 DEF AdoptRow
  <2> QED  BY <1>2, <1>3, <1>4, <2>1, <2>2, <2>3 DEF CanAdopt
<1>5. CASE turn.kind # "contradiction"
  <2>1. CanSettle(c, turn.attempt) /\ SettleRow(c, turn.state, turn.count, turn.diag)
    BY <1>5 DEF Settle
  <2>2. ledger'[c] = [ledger[c] EXCEPT !.state = turn.state, !.count = turn.count, !.diag = turn.diag]
        /\ \A b \in Conns : b # c => ledger'[b] = ledger[b]
    BY <1>1, <2>1 DEF SettleRow
  <2>3. /\ ledger'[c].state = turn.state /\ ledger'[c].diag = turn.diag
        /\ ledger'[c].attempt = ledger[c].attempt /\ ledger'[c].ver = ledger[c].ver
    BY <1>1, <2>2 DEF Row
  <2> QED  BY <1>2, <1>3, <1>5, <2>1, <2>2, <2>3 DEF CanSettle
<1> QED  BY <1>4, <1>5

(* What adopting evidence writes. *)
LEMMA AdoptWrites ==
  ASSUME CatalogInv, NEW c \in Conns, Adopts(c)
  PROVE  /\ ledger[c].state = "never_scanned" /\ UNCHANGED <<models, diags, attempts, contacts>>
         /\ \A b \in Conns : b # c => ledger'[b] = ledger[b]
         /\ ledger'[c].state \in Settled /\ ledger'[c].ver = TargetVersion
         /\ Agrees(ledger'[c].state, Cardinality(models[c]), models[c])
         /\ \/ /\ ledger'[c].diag \in diags[c] /\ ledger'[c].attempt = ledger'[c].diag.attempt
               /\ ledger'[c].diag.ok <=> ledger'[c].state # "failed"
               /\ \A e \in diags[c] : e.attempt <= ledger'[c].attempt
            \/ /\ ledger'[c].diag = NoDiag /\ ledger'[c].attempt = 0 /\ ledger'[c].state = "available"
               /\ diags[c] = {}
<1>1. ledger \in [Conns -> Row]
  BY DEF CatalogInv, TypeOK
<1>2. CASE AdoptDiagnostic(c)
  <2> DEFINE s(d) == IF ~ d.ok THEN "failed" ELSE IF models[c] = {} THEN "empty" ELSE "available"
  <2>1. PICK d \in Latest(c) : (d.ok \/ models[c] = {}) /\ AdoptRow(c, s(d), Cardinality(models[c]), d)
    BY <1>2 DEF AdoptDiagnostic
  <2>2. s(d) \in Settled /\ Agrees(s(d), Cardinality(models[c]), models[c]) /\ (d.ok <=> s(d) # "failed")
    BY <2>1, SnapshotSize DEF Settled, Agrees
  <2> HIDE DEF s
  <2>3. /\ ledger'[c] = [state |-> s(d), ver |-> TargetVersion, attempt |-> d.attempt,
                        count |-> Cardinality(models[c]), diag |-> d]
        /\ \A b \in Conns : b # c => ledger'[b] = ledger[b]
    BY <1>1, <2>1 DEF AdoptRow
  <2>4. d \in diags[c] /\ \A e \in diags[c] : e.attempt <= d.attempt
    BY <2>1 DEF Latest
  <2>5. /\ ledger'[c].state = s(d) /\ ledger'[c].ver = TargetVersion /\ ledger'[c].attempt = d.attempt
        /\ ledger'[c].diag = d
    BY <2>3
  <2> QED  BY <1>2, <2>2, <2>3, <2>4, <2>5 DEF AdoptDiagnostic, CanAdopt
<1>3. CASE AdoptRows(c)
  <2>1. /\ ledger'[c] = [state |-> "available", ver |-> TargetVersion, attempt |-> NoDiag.attempt,
                        count |-> Cardinality(models[c]), diag |-> NoDiag]
        /\ \A b \in Conns : b # c => ledger'[b] = ledger[b]
    BY <1>1, <1>3 DEF AdoptRows, AdoptRow
  <2>2. NoDiag.attempt = 0 /\ Agrees("available", Cardinality(models[c]), models[c])
    BY <1>3 DEF NoDiag, AdoptRows, Agrees
  <2>3. /\ ledger'[c].state = "available" /\ ledger'[c].ver = TargetVersion /\ ledger'[c].attempt = 0
        /\ ledger'[c].diag = NoDiag
    BY <2>1, <2>2
  <2> QED  BY <1>3, <2>1, <2>2, <2>3 DEF AdoptRows, CanAdopt, Settled
<1> QED  BY <1>2, <1>3 DEF Adopts

(* A claim. *)
LEMMA ClaimWrites ==
  ASSUME CatalogInv, NEW c \in Conns, Claims(c)
  PROVE  /\ ledger[c].state # "scanning" /\ attempts' = attempts + 1 /\ UNCHANGED <<models, diags>>
         /\ \A b \in Conns : b # c => ledger'[b] = ledger[b]
         /\ ledger'[c].state = "scanning" /\ ledger'[c].attempt = attempts + 1
         /\ ledger'[c].ver = TargetVersion
BY DEF Claims, BeginScan, StartsScan, Claimable, Claimed, CatalogInv, TypeOK

-----------------------------------------------------------------------------
(* No models are stored under a row that was never scanned *)

Unscanned(c) == ledger[c].state \in {"none", "never_scanned"}

(* Startup adopts what it finds before it passes a connection over, and a  *)
(* connection that did not exist then has nothing.                         *)
Swept(c) ==
  /\ conn[c].life = "absent" => models[c] = {} /\ scan[c] = NoScan
  /\ ledger[c].state = "never_scanned" /\ ledger[c].ver # TargetVersion => models[c] = {}
  /\ proc \in {"reconciling", "up"} /\ Exists(c) /\ c \notin todo /\ Unscanned(c) => models[c] = {}

SweptInv == (proc = "up" => todo = {}) /\ \A c \in Conns : Swept(c)

LEMMA InitSwept == Init => SweptInv
<1> SUFFICES ASSUME Init PROVE SweptInv
  OBVIOUS
<1>1. proc = "down"
  BY DEF Init
<1>2. ASSUME NEW c \in Conns PROVE Swept(c)
  <2>1. PICK old \in [Conns -> Legacy] :
          /\ conn[c].life = "absent" => old[c] = Nothing
          /\ ledger = [b \in Conns |-> old[b].row] /\ models = [b \in Conns |-> old[b].models]
    BY DEF Init
  <2>2. ledger[c] = old[c].row /\ models[c] = old[c].models /\ old[c] \in Legacy /\ scan[c] = NoScan
    BY <2>1 DEF Init
  <2>3. conn[c].life = "absent" => models[c] = {}
    BY <2>1, <2>2 DEF Nothing
  <2>4. ledger[c].state = "never_scanned" => models[c] = {}
    <3>1. CASE old[c] \in LegacyEvidence
      BY <2>2, <3>1 DEF LegacyEvidence, NoRow
    <3>2. CASE old[c] \in OldUnlisted
      BY <2>2, <3>2 DEF OldUnlisted
    <3>3. CASE old[c] \in OldListed
      <4>1. PICK ms \in (SUBSET Models) \ {{}} :
              old[c] = [row |-> OldRow("available", Cardinality(ms), LegacyDiag(TRUE)), models |-> ms,
                        diags |-> {LegacyDiag(TRUE)}]
        BY <3>3 DEF OldListed
      <4>2. old[c].row.state = "available"
        BY <4>1 DEF OldRow
      <4> QED  BY <2>2, <4>2
    <3> QED  BY <2>2, <3>1, <3>2, <3>3 DEF Legacy
  <2> QED  BY <1>1, <2>2, <2>3, <2>4 DEF Swept
<1> QED  BY <1>1, <1>2 DEF SweptInv

(* Once a row is claimed or settled, only a connection that does not exist *)
(* has something to keep.                                                  *)
LEMMA SweptScanned ==
  ASSUME NEW c \in Conns, ledger'[c].state \in {"scanning"} \cup Settled,
         conn'[c].life = "absent" => models'[c] = {} /\ scan'[c] = NoScan
  PROVE  Swept(c)'
BY DEF Swept, Unscanned, Settled

(* A step that concerns one connection: the others keep what they have.    *)
LEMMA SweptOne ==
  ASSUME SweptInv, NEW c \in Conns, UNCHANGED <<conn, proc>>, Swept(c)',
         \A b \in Conns : b # c => /\ UNCHANGED <<ledger[b], models[b], scan[b]>>
                                   /\ (b \in todo <=> b \in todo'),
         todo' \subseteq todo
  PROVE  SweptInv'
<1>1. \A b \in Conns : b # c => Swept(b)'
  BY DEF SweptInv, Swept, Exists, Unscanned
<1> QED  BY <1>1 DEF SweptInv

LEMMA SweptClaim ==
  ASSUME CatalogInv, SweptInv, NEW c \in Conns, Claims(c), UNCHANGED <<conn, proc>>,
         todo' \in {todo, todo \ {c}}
  PROVE  SweptInv'
<1>1. conn[c].life # "absent" /\ \A b \in Conns : b # c => scan'[b] = scan[b]
  BY DEF Claims, StartsScan, BeginScan, CatalogInv, TypeOK
<1>2. Swept(c)'
  BY <1>1, ClaimWrites, SweptScanned
<1> QED  BY <1>1, <1>2, ClaimWrites, SweptOne

(* Steps that leave every row and every stored model alone, and at most    *)
(* end discoveries.                                                        *)
Ends == \A c \in Conns : scan'[c] \in {scan[c], NoScan}

LEMMA SweptQuiet ==
  ASSUME SweptInv, UNCHANGED <<conn, ledger, models>>, Ends,
         \/ proc' \in {"down", "settling"}
         \/ proc' = proc /\ todo' = todo
  PROVE  SweptInv'
<1>1. ASSUME NEW c \in Conns PROVE Swept(c)'
  BY DEF SweptInv, Swept, Exists, Unscanned, Ends
<1> QED  BY <1>1 DEF SweptInv

LEMMA SweptQuietSteps ==
  ASSUME CatalogInv, SweptInv,
         \/ ResetRoutes \/ Fault \/ Boot \/ UNCHANGED vars
         \/ \E c \in Conns : SettleInterrupted(c) \/ AdoptContradiction(c) \/ ScanThrows(c)
         \/ \E s \in Scopes, R \in SUBSET Routes : AssignRoutes(s, R)
  PROVE  SweptInv'
<1>1. scan \in [Conns -> Scan \cup {NoScan}]
  BY DEF CatalogInv, TypeOK
<1>2. CASE Crash \/ StartupThrows \/ Boot
  <2>1. Ends
    BY <1>1, <1>2 DEF Crash, StartupThrows, Boot, Ends
  <2> QED  BY <1>2, <2>1, SweptQuiet DEF Crash, StartupThrows, Boot, durable
<1>3. CASE CatchThrows
  <2>1. Ends
    BY <1>1, <1>3 DEF CatchThrows, Ends
  <2> QED  BY <1>3, <2>1, SweptQuiet DEF CatchThrows, durable
<1>4. CASE ResetRoutes \/ ScanTurnThrows \/ UNCHANGED vars
  BY <1>4, SweptQuiet DEF ResetRoutes, ScanTurnThrows, vars, durable, Ends
<1>5. ASSUME NEW c \in Conns, SettleInterrupted(c) \/ AdoptContradiction(c) \/ ScanThrows(c) PROVE SweptInv'
  BY <1>5, SweptQuiet DEF SettleInterrupted, AdoptContradiction, ScanThrows, durable, Ends
<1>6. ASSUME NEW s \in Scopes, NEW R \in SUBSET Routes, AssignRoutes(s, R) PROVE SweptInv'
  BY <1>6, SweptQuiet DEF AssignRoutes, Ends
<1> QED  BY <1>2, <1>3, <1>4, <1>5, <1>6 DEF Fault

(* Startup takes every existing connection on its list, ...                *)
LEMMA SweptReconcile ==
  ASSUME SweptInv, BeginReconcile \/ OpenHttp
  PROVE  SweptInv'
<1>1. UNCHANGED <<conn, ledger, models, scan>>
  BY DEF BeginReconcile, OpenHttp, durable
<1>2. ASSUME NEW c \in Conns PROVE Swept(c)'
  BY <1>1 DEF BeginReconcile, OpenHttp, SweptInv, Swept, Exists, Unscanned
<1>3. proc' = "up" => todo' = {}
  BY DEF BeginReconcile, OpenHttp
<1> QED  BY <1>2, <1>3 DEF SweptInv

(* ... and strikes it off once its evidence is adopted.                    *)
LEMMA SweptSkip ==
  ASSUME CatalogInv, SweptInv, NEW c \in Conns, SkipStartupScan(c)
  PROVE  SweptInv'
<1>1. UNCHANGED <<conn, ledger, models, scan, proc>> /\ todo' = todo \ {c}
  BY DEF SkipStartupScan, durable
<1>2. Unscanned(c) => models[c] = {}
  BY DEF SkipStartupScan, EvidenceAdopted, CanAdopt, HasEvidence, Unscanned, SweptInv, Swept
<1>3. Swept(c)'
  BY <1>1, <1>2 DEF SweptInv, Swept, Exists, Unscanned
<1> QED  BY <1>1, <1>3, SweptOne

LEMMA SweptInitialize ==
  ASSUME CatalogInv, SweptInv, NEW c \in Conns, InitializeRow(c)
  PROVE  SweptInv'
<1>1. /\ UNCHANGED <<conn, models, scan, proc, todo>> /\ c \in todo /\ proc = "reconciling"
      /\ \A b \in Conns : b # c => ledger'[b] = ledger[b]
      /\ ledger'[c] = NeverScanned(TargetVersion)
  BY DEF InitializeRow, Reconciling, First, CatalogInv, TypeOK
<1>2. ledger'[c].ver = TargetVersion
  BY <1>1 DEF NeverScanned, NoRow
<1>3. Swept(c)'
  BY <1>1, <1>2 DEF SweptInv, Swept
<1> QED  BY <1>1, <1>3, SweptOne

(* Adopting evidence and settling a row keep the stored models.            *)
LEMMA SweptSettle ==
  ASSUME CatalogInv, SweptInv,
         (Settle /\ turn \in Turn /\ turn.conn \in Conns) \/ \E c \in Conns : Adopts(c)
  PROVE  SweptInv'
<1>1. ASSUME Settle, turn \in Turn, turn.conn \in Conns PROVE SweptInv'
  <2>1. PICK c \in Conns : c = turn.conn
    BY <1>1
  <2>2. /\ UNCHANGED <<conn, models, proc, todo>> /\ scan'[c] = NoScan
        /\ \A b \in Conns : b # c => scan'[b] = scan[b]
    BY <1>1, <2>1 DEF Settle, CatalogInv, TypeOK
  <2>3. ledger'[c].state \in Settled /\ \A b \in Conns : b # c => ledger'[b] = ledger[b]
    BY <1>1, <2>1, SettleWrites
  <2>4. Swept(c)'
    BY <2>2, <2>3, SweptScanned DEF SweptInv, Swept
  <2> QED  BY <2>2, <2>3, <2>4, SweptOne
<1>2. ASSUME NEW c \in Conns, Adopts(c) PROVE SweptInv'
  <2>1. UNCHANGED <<conn, scan, proc, todo>>
    BY <1>2 DEF Adopts, AdoptDiagnostic, AdoptRows
  <2>2. Swept(c)'
    BY <1>2, <2>1, AdoptWrites, SweptScanned DEF SweptInv, Swept
  <2> QED  BY <1>2, <2>1, <2>2, AdoptWrites, SweptOne
<1> QED  BY <1>1, <1>2

(* Models are replaced under an open claim, or discarded.                  *)
LEMMA SweptReplace ==
  ASSUME CatalogInv, SweptInv,
         \/ FailClosed
         \/ \E c \in Conns, ok \in BOOLEAN, ms \in SUBSET Models : ScanReturns(c, ok, ms)
  PROVE  SweptInv'
<1>1. CASE FailClosed
  <2>1. turn \in Turn
    BY <1>1, TurnCases DEF FailClosed, CatalogInv, Idle, NoTurn, FailKinds
  <2>2. PICK c \in Conns : c = turn.conn
    BY <2>1 DEF Turn
  <2>3. /\ UNCHANGED <<conn, ledger, scan, proc, todo>> /\ models'[c] = {}
        /\ \A b \in Conns : b # c => models'[b] = models[b]
    BY <1>1, <2>2 DEF FailClosed, ReplaceSnapshot, CatalogInv, TypeOK
  <2>4. Swept(c)'
    BY <2>3 DEF SweptInv, Swept
  <2> QED  BY <2>3, <2>4, SweptOne
<1>2. ASSUME NEW c \in Conns, NEW ok \in BOOLEAN, NEW ms \in SUBSET Models, ScanReturns(c, ok, ms)
      PROVE  SweptInv'
  <2>1. /\ UNCHANGED <<conn, ledger, scan, proc, todo>> /\ scan[c] # NoScan
        /\ \A b \in Conns : b # c => models'[b] = models[b]
    BY <1>2 DEF ScanReturns, ReplaceSnapshot, CatalogInv, TypeOK
  <2>2. ledger'[c].state = "scanning" /\ conn'[c].life # "absent"
    BY <2>1 DEF CatalogInv, ScanOwnsClaim, CanSettle, SweptInv, Swept
  <2>3. Swept(c)'
    BY <2>2, SweptScanned
  <2> QED  BY <2>1, <2>3, SweptOne
<1> QED  BY <1>1, <1>2

(* A connection that is created has nothing, one that is changed is known. *)
LEMMA SweptOperator ==
  ASSUME CatalogInv, SweptInv, NEW c \in Conns, Operator(c)
  PROVE  SweptInv'
<1>1. CASE RequestScan(c)
  <2>1. Claims(c) /\ UNCHANGED <<conn, proc, todo>>
    BY <1>1 DEF RequestScan, Claims
  <2> QED  BY <2>1, SweptClaim
<1>2. CASE ~ RequestScan(c)
  <2>1. /\ UNCHANGED <<ledger, models, scan, proc, todo>> /\ proc = "up"
        /\ \A b \in Conns : b # c => conn'[b] = conn[b]
        /\ conn'[c].life # "absent"
        /\ Exists(c)' => conn[c].life = "absent" \/ Exists(c)
    BY <1>2 DEF Operator, CreateConnection, ChangeConnection, Reactivate, Mutate, Revoke, DeleteConnection,
       Exists, CatalogInv, TypeOK
  <2>2. todo = {}
    BY <2>1 DEF SweptInv
  <2>3. ASSUME NEW b \in Conns PROVE Swept(b)'
    BY <2>1, <2>2 DEF SweptInv, Swept, Exists, Unscanned
  <2> QED  BY <2>1, <2>2, <2>3 DEF SweptInv
<1> QED  BY <1>1, <1>2

LEMMA SweptStep == CatalogInv /\ SweptInv /\ [Next]_vars => SweptInv'
<1> SUFFICES ASSUME CatalogInv, SweptInv, [Next]_vars PROVE SweptInv'
  OBVIOUS
<1>1. CASE TriggerScan
  <2>1. turn \in Turn /\ turn.conn \in Conns /\ UNCHANGED <<conn, models, diags, contacts, proc, todo>>
    BY <1>1, TurnCases DEF TriggerScan, CatalogInv, Idle, NoTurn, Turn
  <2>2. CASE Claims(turn.conn)
    BY <2>1, <2>2, SweptClaim
  <2>3. CASE UNCHANGED <<ledger, scan, attempts>>
    BY <2>1, <2>3, SweptQuiet DEF Ends
  <2> QED  BY <1>1, <2>1, <2>2, <2>3 DEF TriggerScan, Claims
<1>2. CASE Settle
  <2>1. turn \in Turn /\ turn.conn \in Conns
    BY <1>2, TurnCases DEF Settle, CatalogInv, Turn
  <2> QED  BY <1>2, <2>1, SweptSettle
<1>3. ASSUME NEW c \in Conns, Startup(c) PROVE SweptInv'
  <2>1. CASE StartupScan(c)
    <3>1. Claims(c) /\ UNCHANGED <<conn, proc>> /\ todo' = todo \ {c}
      BY <2>1 DEF StartupScan, Claims, StartsScan, Claimable
    <3> QED  BY <3>1, SweptClaim
  <2>2. CASE SettleInterrupted(c) \/ AdoptContradiction(c)
    BY <2>2, SweptQuietSteps
  <2> QED  BY <1>3, <2>1, <2>2, SweptSettle, SweptInitialize, SweptSkip DEF Startup, Adopts
<1>4. ASSUME NEW c \in Conns, NEW ok \in BOOLEAN, NEW ms \in SUBSET Models, ScanReturns(c, ok, ms)
      PROVE  SweptInv'
  BY <1>4, SweptReplace
<1>5. ASSUME NEW s \in Scopes, NEW r1 \in Routes, NEW r2 \in Routes, AssignRoutes(s, {r1, r2})
      PROVE  SweptInv'
  <2>1. PICK R \in SUBSET Routes : R = {r1, r2}
    OBVIOUS
  <2> QED  BY <1>5, <2>1, SweptQuietSteps
<1>6. ASSUME NEW c \in Conns, ScanThrows(c) PROVE SweptInv'
  BY <1>6, SweptQuietSteps
<1>7. CASE FailClosed \/ ResetRoutes \/ Fault \/ Boot \/ BeginReconcile \/ OpenHttp \/ UNCHANGED vars
  BY <1>7, SweptReplace, SweptQuietSteps, SweptReconcile
<1>8. ASSUME NEW c \in Conns, Operator(c) PROVE SweptInv'
  BY <1>8, SweptOperator
<1> QED  BY <1>1, <1>2, <1>3, <1>4, <1>5, <1>6, <1>7, <1>8 DEF Next, Continue

(* A settled row tells the truth about the stored models, and a server     *)
(* that listens stores none under a row that was never scanned, for any    *)
(* connections, models and bounds, whatever dies or fails between the      *)
(* commits of an outcome.                                                  *)
THEOREM LedgerTruthful == Spec => []LedgerMatchesCatalog
<1>1. CatalogInv /\ SweptInv => LedgerMatchesCatalog
  <2> SUFFICES ASSUME CatalogInv, SweptInv PROVE NothingUnscanned
    BY DEF CatalogInv, LedgerMatchesCatalog
  <2> QED  BY DEF NothingUnscanned, SweptInv, Swept, Unscanned
<1> QED  BY <1>1, InitSwept, SweptStep, CatalogInvAlways, PTL DEF Spec

-----------------------------------------------------------------------------
(* Startup contacts a provider at most once *)

(* A connection startup has contacted has a claimed or settled row of the  *)
(* version, which startup passes over.                                     *)
ContactedIsClaimed ==
  \A c \in Conns :
    \/ contacts[c] = 0
    \/ /\ contacts[c] = 1 /\ ledger[c].ver = TargetVersion
       /\ ledger[c].state \in {"scanning"} \cup Settled

LEMMA ContactsStep ==
  ASSUME CatalogInv, ContactedIsClaimed, [Next]_vars
  PROVE  ContactedIsClaimed'
<1> SUFFICES ASSUME NEW b \in Conns
             PROVE  \/ contacts'[b] = 0
                    \/ /\ contacts'[b] = 1 /\ ledger'[b].ver = TargetVersion
                       /\ ledger'[b].state \in {"scanning"} \cup Settled
  BY DEF ContactedIsClaimed
<1>1. /\ contacts \in [Conns -> Nat] /\ ledger \in [Conns -> Row]
      /\ \/ contacts[b] = 0
         \/ /\ contacts[b] = 1 /\ ledger[b].ver = TargetVersion
            /\ ledger[b].state \in {"scanning"} \cup Settled
  BY DEF CatalogInv, TypeOK, ContactedIsClaimed
<1>2. CASE UNCHANGED <<ledger, models, diags, attempts, contacts>>
  BY <1>1, <1>2
<1>3. CASE Settle /\ turn \in Turn /\ turn.conn \in Conns
  BY <1>1, <1>3, SettleWrites DEF Settle, Settled
<1>4. ASSUME NEW c \in Conns, Claims(c)
      PROVE  \/ contacts'[b] = 0
             \/ /\ contacts'[b] = 1 /\ ledger'[b].ver = TargetVersion
                /\ ledger'[b].state \in {"scanning"} \cup Settled
  <2>1. CASE b # c
    <3>1. contacts'[b] = contacts[b] /\ ledger'[b] = ledger[b]
      BY <1>1, <1>4, <2>1, ClaimWrites DEF Claims
    <3> QED  BY <1>1, <3>1
  <2>2. CASE b = c
    <3>1. ledger'[c].state = "scanning" /\ ledger'[c].ver = TargetVersion
      BY <1>4, ClaimWrites
    <3>2. StartupEligible(c) => contacts[c] = 0
      BY <1>1, <2>2, VersionAssumption DEF StartupEligible, Settled
    <3>3. contacts'[c] = contacts[c] \/ (contacts[c] = 0 /\ contacts'[c] = 1)
      BY <1>1, <1>4, <3>2 DEF Claims
    <3> QED  BY <1>1, <2>2, <3>1, <3>3
  <2> QED  BY <2>1, <2>2
<1>5. ASSUME NEW c \in Conns, Replaces(c)
      PROVE  contacts' = contacts /\ ledger' = ledger
  BY <1>5 DEF Replaces
<1>6. ASSUME NEW c \in Conns, InitializeRow(c)
      PROVE  \/ contacts'[b] = 0
             \/ contacts'[b] = contacts[b] /\ ledger'[b] = ledger[b]
  BY <1>1, <1>6 DEF InitializeRow, Settled
<1>7. ASSUME NEW c \in Conns, Adopts(c)
      PROVE  \/ contacts'[b] = 0
             \/ contacts'[b] = contacts[b] /\ ledger'[b] = ledger[b]
  BY <1>1, <1>7, AdoptWrites DEF Settled
<1> QED  BY <1>1, <1>2, <1>3, <1>4, <1>5, <1>6, <1>7, CatalogEffects

(* Startup contacts a provider at most once for a reconciliation version,  *)
(* for any number of connections and crashes: the claim is in the ledger   *)
(* before the provider is called, and a claim found at the next startup is *)
(* settled, not repeated.                                                  *)
THEOREM ContactsAtMostOnce == Spec => []StartupContactsOnce
<1>1. Init => ContactedIsClaimed
  BY DEF Init, ContactedIsClaimed
<1>2. ContactedIsClaimed => StartupContactsOnce
  BY DEF ContactedIsClaimed, StartupContactsOnce
<1> QED  BY <1>1, <1>2, CatalogInvAlways, ContactsStep, PTL DEF Spec

-----------------------------------------------------------------------------
(* What readers are shown *)

LEMMA PublishedCases ==
  ASSUME NEW c \in Conns
  PROVE  /\ ledger[c].state \in Settled => Published(c) = [state |-> ledger[c].state, shown |-> models[c]]
         /\ ledger[c].state = "scanning" => Published(c) = Publication!Pending
         /\ ledger[c].state \notin Settled \cup {"scanning"} => Published(c) = Publication!Unknown
BY DEF Published, Settled, Publication!Pending, Publication!Unknown

(* A settled row that agrees with its snapshot shows an outcome. *)
LEMMA SettledShows ==
  ASSUME NEW s \in Settled, NEW n, NEW ms \in SUBSET Models, Agrees(s, n, ms)
  PROVE  [state |-> s, shown |-> ms] \in Publication!Outcomes
BY DEF Settled, Agrees, Publication!Outcomes, Publication!Failed, Publication!Ready

LEMMA SettledIsNotPending ==
  ASSUME NEW s \in Settled, NEW ms
  PROVE  [state |-> s, shown |-> ms] # Publication!Pending
BY DEF Settled, Publication!Pending

LEMMA UnknownIsNotPending == Publication!Unknown # Publication!Pending
BY DEF Publication!Unknown, Publication!Pending

Shown == [c \in Conns |-> Published(c)]

(* A step that changes what is shown of at most one connection, c, or what *)
(* is listed of it.                                                        *)
LEMMA ShownStep ==
  ASSUME NEW c \in Conns,
         \A b \in Conns : b # c => Published(b)' = Published(b),
         \/ Published(c)' = Published(c) /\ models' = models
         \/ /\ Published(c) # Publication!Pending /\ Published(c)' = Publication!Pending
            /\ models' = models
         \/ /\ Published(c) \in {Publication!Unknown, Publication!Pending}
            /\ Published(c)' \in Publication!Outcomes
            /\ Published(c)'.shown = models[c] /\ models' = models
         \/ /\ Published(c) \in {Publication!Unknown, Publication!Pending}
            /\ Published(c)' = Published(c)
            /\ \E S \in SUBSET Models : models' = [models EXCEPT ![c] = S]
  PROVE  Publication!PubNext \/ UNCHANGED <<Shown, models>>
<1>1. Shown' = [Shown EXCEPT ![c] = Published(c)'] /\ Shown[c] = Published(c)
  BY DEF Shown
<1>2. Published(c)' = Published(c) => Shown' = Shown
  BY <1>1 DEF Shown
<1>3. CASE Published(c)' = Published(c) /\ models' = models
  BY <1>2, <1>3
<1>4. CASE /\ Published(c) # Publication!Pending /\ Published(c)' = Publication!Pending
           /\ models' = models
  <2>1. Publication!Claim(c)
    BY <1>1, <1>4 DEF Publication!Claim, Shown
  <2> QED  BY <2>1 DEF Publication!PubNext
<1>5. CASE /\ Published(c) \in {Publication!Unknown, Publication!Pending}
           /\ Published(c)' \in Publication!Outcomes
           /\ Published(c)'.shown = models[c] /\ models' = models
  <2>1. Publication!Publish(c, Published(c)')
    BY <1>1, <1>5 DEF Publication!Publish, Shown
  <2> QED  BY <1>5, <2>1 DEF Publication!PubNext
<1>6. ASSUME Published(c) \in {Publication!Unknown, Publication!Pending}, Published(c)' = Published(c),
             NEW S \in SUBSET Models, models' = [models EXCEPT ![c] = S]
      PROVE  Publication!PubNext
  <2>1. Publication!Replace(c, S)
    BY <1>1, <1>2, <1>6 DEF Publication!Replace, Shown
  <2> QED  BY <2>1 DEF Publication!PubNext
<1> QED  BY <1>3, <1>4, <1>5, <1>6

(* What is shown depends on the row and, once it is settled, the snapshot. *)
LEMMA ShownFrame ==
  ASSUME NEW b \in Conns, ledger'[b] = ledger[b],
         ledger[b].state \in Settled => models'[b] = models[b]
  PROVE  Published(b)' = Published(b)
BY DEF Published, Settled

LEMMA ShownOutcome ==
  ASSUME NEW c \in Conns, ledger'[c].state \in Settled
  PROVE  Published(c)' = [state |-> ledger'[c].state, shown |-> models'[c]]
BY DEF Published, Settled

LEMMA PublicationStep ==
  ASSUME CatalogInv, [Next]_vars
  PROVE  Publication!PubNext \/ UNCHANGED <<Shown, models>>
<1>1. ledger \in [Conns -> Row] /\ models \in [Conns -> SUBSET Models]
  BY DEF CatalogInv, TypeOK
<1>2. CASE UNCHANGED <<ledger, models, diags, attempts, contacts>>
  BY <1>2, ShownFrame DEF Shown
<1>3. CASE Settle /\ turn \in Turn /\ turn.conn \in Conns
  <2>0. PICK c \in Conns : c = turn.conn
    BY <1>3
  <2>1. /\ ledger'[c].state = turn.state /\ turn.state \in Settled /\ models' = models
        /\ Agrees(turn.state, turn.count, models[c]) /\ models[c] \in SUBSET Models
        /\ \A b \in Conns : b # c => Published(b)' = Published(b)
    BY <1>1, <1>3, <2>0, SettleWrites, ShownFrame
  <2>2. Published(c) \in {Publication!Unknown, Publication!Pending}
    BY <1>3, <2>0, SettleWrites, PublishedCases DEF Settled
  <2>3. Published(c)' = [state |-> turn.state, shown |-> models[c]]
    BY <2>1, ShownOutcome
  <2>4. [state |-> turn.state, shown |-> models[c]] \in Publication!Outcomes
    BY <2>1, SettledShows
  <2>5. Published(c)' \in Publication!Outcomes /\ Published(c)'.shown = models[c]
    BY <2>3, <2>4
  <2> QED  BY <2>1, <2>2, <2>5, ShownStep
<1>4. ASSUME NEW c \in Conns, Claims(c)
      PROVE  Publication!PubNext \/ UNCHANGED <<Shown, models>>
  <2>1. models' = models /\ \A b \in Conns : b # c => Published(b)' = Published(b)
    BY <1>4, ClaimWrites, ShownFrame
  <2>2. Published(c) # Publication!Pending
    BY <1>4, ClaimWrites, PublishedCases, SettledIsNotPending, UnknownIsNotPending
  <2>3. Published(c)' = Publication!Pending
    BY <1>4, ClaimWrites DEF Published, Settled, Publication!Pending
  <2> QED  BY <2>1, <2>2, <2>3, ShownStep
<1>5. ASSUME NEW c \in Conns, Replaces(c)
      PROVE  Publication!PubNext \/ UNCHANGED <<Shown, models>>
  <2>1. /\ ledger' = ledger /\ ledger[c].state \notin Settled
        /\ \E S \in SUBSET Models : models' = [models EXCEPT ![c] = S]
    BY <1>5 DEF Replaces, FailClosed, ScanReturns, ReplaceSnapshot
  <2>2. \A b \in Conns : b # c => models'[b] = models[b]
    BY <1>1, <2>1
  <2>3. \A b \in Conns : Published(b)' = Published(b)
    BY <2>1, <2>2, ShownFrame
  <2>4. Published(c) \in {Publication!Unknown, Publication!Pending}
    BY <2>1, PublishedCases
  <2> QED  BY <2>1, <2>3, <2>4, ShownStep
<1>6. ASSUME NEW c \in Conns, InitializeRow(c)
      PROVE  Publication!PubNext \/ UNCHANGED <<Shown, models>>
  <2>1. /\ ledger[c].state = "none" /\ ledger'[c].state = "never_scanned" /\ models' = models
        /\ \A b \in Conns : b # c => ledger'[b] = ledger[b]
    BY <1>1, <1>6 DEF InitializeRow, NeverScanned, NoRow
  <2>2. \A b \in Conns : b # c => Published(b)' = Published(b)
    BY <2>1, ShownFrame
  <2>3. Published(c)' = Published(c)
    BY <2>1 DEF Published, Settled
  <2> QED  BY <2>1, <2>2, <2>3, ShownStep
<1>7. ASSUME NEW c \in Conns, Adopts(c)
      PROVE  Publication!PubNext \/ UNCHANGED <<Shown, models>>
  <2>1. models' = models /\ \A b \in Conns : b # c => Published(b)' = Published(b)
    BY <1>7, AdoptWrites, ShownFrame
  <2>2. Published(c) = Publication!Unknown
    BY <1>7, AdoptWrites, PublishedCases DEF Settled
  <2>3. Published(c)' = [state |-> ledger'[c].state, shown |-> models[c]]
    BY <1>7, AdoptWrites, ShownOutcome
  <2>4. [state |-> ledger'[c].state, shown |-> models[c]] \in Publication!Outcomes
    <3>1. /\ ledger'[c].state \in Settled /\ models[c] \in SUBSET Models
          /\ Agrees(ledger'[c].state, Cardinality(models[c]), models[c])
      BY <1>1, <1>7, AdoptWrites
    <3> QED  BY <3>1, SettledShows
  <2>5. Published(c)' \in Publication!Outcomes /\ Published(c)'.shown = models[c]
    BY <2>3, <2>4
  <2> QED  BY <2>1, <2>2, <2>5, ShownStep
<1> QED  BY <1>2, <1>3, <1>4, <1>5, <1>6, <1>7, CatalogEffects

(* The catalog implements CatalogPublication: for every set of connections *)
(* and models, with crashes and failed commits between the transaction     *)
(* that replaces a snapshot and the one that settles the row, an outcome   *)
(* is published only with the models every reader finds stored, and the    *)
(* readers that bypass the ledger see other models than those published    *)
(* only while nothing is published.                                        *)
THEOREM PublishedIsStored == Spec => ReadersAgree
<1>1. CatalogInv => Publication!PubInit
  <2> SUFFICES ASSUME CatalogInv
               PROVE  /\ models \in [Conns -> SUBSET Models]
                      /\ \A c \in Conns :
                           /\ Published(c) \in {Publication!Unknown, Publication!Pending} \cup Publication!Outcomes
                           /\ Published(c) \in Publication!Outcomes => Published(c).shown = models[c]
    BY DEF Publication!PubInit
  <2>1. models \in [Conns -> SUBSET Models]
    BY DEF CatalogInv, TypeOK
  <2>2. ASSUME NEW c \in Conns
        PROVE  /\ Published(c) \in {Publication!Unknown, Publication!Pending} \cup Publication!Outcomes
               /\ Published(c) \in Publication!Outcomes => Published(c).shown = models[c]
    <3>1. Agrees(ledger[c].state, ledger[c].count, models[c]) /\ models[c] \in SUBSET Models
      BY <2>1 DEF CatalogInv, RowsAgree
    <3>2. CASE ledger[c].state \in Settled
      <4>1. Published(c) = [state |-> ledger[c].state, shown |-> models[c]]
        BY <3>2, PublishedCases
      <4> QED  BY <3>1, <3>2, <4>1, SettledShows
    <3>3. CASE ledger[c].state \notin Settled
      <4>1. Published(c) \in {Publication!Unknown, Publication!Pending}
        BY <3>3, PublishedCases
      <4>2. Publication!Unknown \notin Publication!Outcomes /\ Publication!Pending \notin Publication!Outcomes
        BY DEF Publication!Outcomes, Publication!Unknown, Publication!Pending, Publication!Failed, Publication!Ready
      <4> QED  BY <4>1, <4>2
    <3> QED  BY <3>2, <3>3
  <2> QED  BY <2>1, <2>2
<1>2. CatalogInv /\ [Next]_vars => [Publication!PubNext]_<<Shown, models>>
  BY PublicationStep
<1> QED
  BY <1>1, <1>2, CatalogInvAlways, PTL DEF Spec, ReadersAgree, Publication!PubSpec, Shown

-----------------------------------------------------------------------------
(* The diagnostics behind the rows *)

(* The sources that record a diagnostic for an attempt: attempt 0 is what  *)
(* the ledger found when it began.                                         *)
SourcesOf(a) ==
  IF a = 0 THEN {"legacy", "contradiction", "interrupted"}
  ELSE {"scan", "coordinator", "interrupted"}

(* Attempts are numbered in the order they are claimed. *)
Numbered ==
  \A c \in Conns :
    /\ ledger[c].attempt <= attempts
    /\ ledger[c].state \in {"none", "never_scanned"} => ledger[c].attempt = 0
    /\ scan[c] # NoScan => scan[c].attempt > 0
    /\ \A d \in diags[c] : d.attempt <= ledger[c].attempt

(* Each source records at most one diagnostic for an attempt. *)
OnePerSource ==
  \A c \in Conns : \A d \in diags[c] :
    /\ d.src \in SourcesOf(d.attempt)
    /\ d.src \in FailKinds => ~ d.ok
    /\ \A e \in diags[c] : e.attempt = d.attempt /\ e.src = d.src => e = d

(* A discovery under way has no diagnostic until its turn records one. *)
Applying(c) == turn \in Turn /\ turn.conn = c /\ turn.kind \in {"scan", "coordinator"}
Undiagnosed ==
  \A c \in Conns : scan[c] # NoScan /\ ~ Applying(c) => \A d \in diags[c] : d.attempt < scan[c].attempt

(* A turn past its first commit holds a stored diagnostic of its outcome. *)
TurnDiagnosed ==
  turn \in Turn =>
    /\ turn.kind = "contradiction" => turn.attempt = 0
    /\ turn.stage \in {"reset", "settle"} =>
         /\ turn.diag \in diags[turn.conn] /\ turn.diag.attempt = turn.attempt
         /\ turn.diag.ok <=> turn.state # "failed"

DiagInv == Numbered /\ OnePerSource /\ Undiagnosed /\ TurnDiagnosed /\ DiagnosticBacksRow

LEMMA AddOne ==
  ASSUME NEW S, IsFiniteSet(S), NEW x, x \notin S
  PROVE  IsFiniteSet(S \cup {x}) /\ Cardinality(S \cup {x}) = Cardinality(S) + 1
BY FS_AddElement

LEMMA RemoveOne ==
  ASSUME NEW S, IsFiniteSet(S), NEW x, x \in S
  PROVE  IsFiniteSet(S \ {x}) /\ Cardinality(S \ {x}) = Cardinality(S) - 1
BY FS_RemoveElement

LEMMA Triple ==
  ASSUME NEW x, NEW y, NEW z, x # y, x # z, y # z
  PROVE  IsFiniteSet({x, y, z}) /\ Cardinality({x, y, z}) = 3
<1>1. PICK A : A = {x}
  OBVIOUS
<1>2. PICK B : B = A \cup {y}
  OBVIOUS
<1>3. IsFiniteSet(A) /\ Cardinality(A) = 1
  BY <1>1, FS_Singleton
<1>4. IsFiniteSet(B) /\ Cardinality(B) = 2
  <2>1. y \notin A
    BY <1>1
  <2>2. IsFiniteSet(B) /\ Cardinality(B) = Cardinality(A) + 1
    BY <1>2, <1>3, <2>1, AddOne, Zenon
  <2> QED  BY <1>3, <2>2
<1>5. {x, y, z} = B \cup {z} /\ z \notin B
  BY <1>1, <1>2
<1>6. IsFiniteSet({x, y, z}) /\ Cardinality({x, y, z}) = Cardinality(B) + 1
  BY <1>4, <1>5, AddOne, Zenon
<1> QED  BY <1>4, <1>6

(* Pruning keeps the newest diagnostic: those of one attempt are fewer     *)
(* than the limit.                                                         *)
LEMMA NewestIsKept ==
  ASSUME NEW D \in SUBSET Diag, NEW d \in D, NEW K \in KeepNewest(D),
         \A e \in D : e.attempt <= d.attempt,
         \A e \in D : e.src \in SourcesOf(e.attempt),
         \A e \in D, f \in D : e.attempt = f.attempt /\ e.src = f.src => e = f
  PROVE  d \in K
<1> SUFFICES ASSUME d \notin K PROVE FALSE
  OBVIOUS
<1>1. K \subseteq D /\ Cardinality(K) = Retention /\ \A k \in K : d.attempt <= k.attempt
  BY DEF KeepNewest
<1>2. \A k \in K : k.attempt = d.attempt
  <2> TAKE k \in K
  <2>1. k.attempt \in Nat /\ d.attempt \in Nat /\ d.attempt <= k.attempt /\ k.attempt <= d.attempt
    BY <1>1 DEF Diag
  <2> QED  BY <2>1
<1> DEFINE S == SourcesOf(d.attempt)
           f == [k \in K |-> k.src]
<1>3. IsFiniteSet(S) /\ Cardinality(S) = 3
  <2>1. CASE d.attempt = 0
    <3>1. PICK x, y, z : x = "legacy" /\ y = "contradiction" /\ z = "interrupted"
      OBVIOUS
    <3>2. x # y /\ x # z /\ y # z /\ S = {x, y, z}
      BY <2>1, <3>1, SMT DEF SourcesOf
    <3> HIDE DEF S
    <3> QED  BY <3>2, Triple, Zenon
  <2>2. CASE d.attempt # 0
    <3>1. PICK x, y, z : x = "scan" /\ y = "coordinator" /\ z = "interrupted"
      OBVIOUS
    <3>2. x # y /\ x # z /\ y # z /\ S = {x, y, z}
      BY <2>2, <3>1, SMT DEF SourcesOf
    <3> HIDE DEF S
    <3> QED  BY <3>2, Triple, Zenon
  <2> QED  BY <2>1, <2>2
<1> HIDE DEF S
<1>4. d.src \in S /\ \A k \in K : k.src \in S \ {d.src}
  BY <1>1, <1>2 DEF S
<1>5. IsFiniteSet(S \ {d.src}) /\ Cardinality(S \ {d.src}) = 2
  <2>1. IsFiniteSet(S \ {d.src}) /\ Cardinality(S \ {d.src}) = Cardinality(S) - 1
    BY <1>3, <1>4, RemoveOne, Zenon
  <2> QED  BY <1>3, <2>1
<1>6. f \in Injection(K, S \ {d.src})
  BY <1>1, <1>2, <1>4 DEF Injection, IsInjective
<1>7. Cardinality(K) <= 2
  BY <1>5, <1>6, FS_Injection
<1> QED  BY <1>1, <1>7, RetentionAssumption, BoundsAssumption

LEMMA DiagIsNotNone == NoDiag \notin Diag
BY DEF NoDiag, Diag, DiagSources

(* Recording the diagnostic of the attempt a row is at. *)
LEMMA Recorded ==
  ASSUME CatalogInv, DiagInv, NEW c \in Conns, NEW ms, NEW cfg, NEW d \in Diag,
         ReplaceSnapshot(c, ms, cfg, d), UNCHANGED <<ledger, attempts, scan>>,
         d.attempt = ledger[c].attempt, d.src \in SourcesOf(d.attempt), d.src \in FailKinds => ~ d.ok,
         \A e \in diags[c] : e.attempt = d.attempt /\ e.src = d.src => e = d,
         ledger[c].state \notin Settled
  PROVE  /\ d \in diags'[c] /\ \A b \in Conns : b # c => diags'[b] = diags[b]
         /\ Numbered' /\ OnePerSource' /\ DiagnosticBacksRow'
<1>1. diags \in [Conns -> SUBSET Diag] /\ ledger \in [Conns -> Row]
  BY DEF CatalogInv, TypeOK
<1>2. PICK D : D = diags[c] \cup {d}
  OBVIOUS
<1>3. PICK K \in KeepNewest(D) : diags' = [diags EXCEPT ![c] = K]
  BY <1>2 DEF ReplaceSnapshot
<1>4. /\ D \in SUBSET Diag /\ d \in D
      /\ \A e \in D : e.attempt <= d.attempt
  <2>1. d.attempt <= d.attempt
    BY DEF Diag
  <2> QED  BY <1>1, <1>2, <2>1 DEF DiagInv, Numbered
<1>5. \A e \in D : e.src \in SourcesOf(e.attempt) /\ (e.src \in FailKinds => ~ e.ok)
  BY <1>2 DEF DiagInv, OnePerSource
<1>6. \A e \in D, f \in D : e.attempt = f.attempt /\ e.src = f.src => e = f
  <2>1. \A e \in diags[c], f \in diags[c] : e.attempt = f.attempt /\ e.src = f.src => e = f
    BY DEF DiagInv, OnePerSource
  <2> QED  BY <1>2, <2>1
<1>7. d \in K /\ K \subseteq D
  BY <1>4, <1>5, <1>6, NewestIsKept, PruningForgets
<1>8. diags'[c] = K /\ \A b \in Conns : b # c => diags'[b] = diags[b]
  BY <1>1, <1>3
<1>9. Numbered'
  <2>1. \A e \in K : e.attempt <= ledger[c].attempt
    BY <1>4, <1>7
  <2> QED  BY <1>8, <2>1 DEF DiagInv, Numbered
<1>10. OnePerSource'
  <2> SUFFICES ASSUME NEW b \in Conns, NEW e \in diags'[b]
               PROVE  /\ e.src \in SourcesOf(e.attempt)
                      /\ e.src \in FailKinds => ~ e.ok
                      /\ \A f \in diags'[b] : f.attempt = e.attempt /\ f.src = e.src => f = e
    BY DEF OnePerSource
  <2>1. CASE b = c
    BY <1>5, <1>6, <1>7, <1>8, <2>1
  <2>2. CASE b # c
    BY <1>8, <2>2 DEF DiagInv, OnePerSource
  <2> QED  BY <2>1, <2>2
<1>11. DiagnosticBacksRow'
  BY <1>8 DEF DiagInv, DiagnosticBacksRow
<1> QED  BY <1>7, <1>8, <1>9, <1>10, <1>11

(* Steps that leave the rows and the diagnostics alone, and end or leave   *)
(* alone each discovery.                                                   *)
LEMMA QuietDiag ==
  ASSUME DiagInv, UNCHANGED <<ledger, diags, attempts>>,
         \A c \in Conns : \/ scan'[c] = NoScan
                          \/ scan'[c] = scan[c] /\ (Applying(c) => Applying(c)'),
         TurnDiagnosed'
  PROVE  DiagInv'
<1>1. Numbered'
  BY DEF DiagInv, Numbered
<1>2. OnePerSource' /\ DiagnosticBacksRow'
  BY DEF DiagInv, OnePerSource, DiagnosticBacksRow
<1>3. Undiagnosed'
  BY DEF DiagInv, Undiagnosed
<1> QED  BY <1>1, <1>2, <1>3 DEF DiagInv

LEMMA NoTurnDiag ==
  /\ turn = NoTurn => TurnDiagnosed /\ \A c \in Conns : ~ Applying(c)
  /\ turn' = NoTurn => TurnDiagnosed'
BY NoTurnIsNoTurn DEF TurnDiagnosed, Applying

LEMMA QuietSteps ==
  ASSUME CatalogInv, DiagInv,
         \/ ResetRoutes \/ ScanTurnThrows \/ CatchThrows \/ StartupThrows \/ Crash
         \/ Boot \/ BeginReconcile \/ OpenHttp \/ UNCHANGED vars
         \/ \E c \in Conns : \/ SettleInterrupted(c) \/ AdoptContradiction(c) \/ SkipStartupScan(c)
                             \/ Revoke(c) \/ DeleteConnection(c) \/ ScanThrows(c)
                             \/ \E life, cfg : Mutate(c, life, cfg)
         \/ \E s \in Scopes, R \in SUBSET Routes : AssignRoutes(s, R)
  PROVE  DiagInv'
<1>1. UNCHANGED <<ledger, diags, attempts>>
  BY DEF ResetRoutes, ScanTurnThrows, CatchThrows, StartupThrows, Crash, Boot, BeginReconcile, OpenHttp, vars,
     SettleInterrupted, AdoptContradiction, SkipStartupScan, Revoke, DeleteConnection, ScanThrows, Mutate,
     AssignRoutes, durable
<1>2. TypeOK /\ (Idle \/ turn \in Turn)
  BY TurnCases DEF CatalogInv
<1>3. CASE ResetRoutes
  <2>1. turn \in Turn /\ turn.stage = "reset"
    BY <1>2, <1>3 DEF ResetRoutes
  <2>2. /\ turn'.conn = turn.conn /\ turn'.kind = turn.kind /\ turn'.stage = "settle"
        /\ turn'.attempt = turn.attempt /\ turn'.state = turn.state /\ turn'.diag = turn.diag
        /\ turn' \in Turn /\ scan' = scan
    BY <1>3, <2>1 DEF ResetRoutes, Turn
  <2>3. TurnDiagnosed'
    BY <1>1, <2>1, <2>2 DEF DiagInv, TurnDiagnosed
  <2>4. \A c \in Conns : Applying(c) => Applying(c)'
    BY <2>2 DEF Applying
  <2> QED  BY <1>1, <2>2, <2>3, <2>4, QuietDiag
<1>4. ASSUME NEW c \in Conns, NEW k \in FailKinds \cup {"mutation"}, NEW a \in Nat, scan' = scan,
             turn'.kind = k, turn'.conn = c, turn'.attempt = a, turn'.stage \in {"clear", "trigger"},
             turn' \in Turn, k = "contradiction" => a = 0,
             \A b \in Conns : Applying(b) => b = c /\ k = "coordinator"
      PROVE  DiagInv'
  <2>1. TurnDiagnosed'
    BY <1>4 DEF TurnDiagnosed
  <2>2. \A b \in Conns : Applying(b) => Applying(b)'
    BY <1>4 DEF Applying
  <2> QED  BY <1>1, <1>4, <2>1, <2>2, QuietDiag
<1>5. ASSUME NEW c \in Conns, NEW k \in FailKinds, NEW a \in Nat
      PROVE  /\ FailTurn(c, k, a).kind = k /\ FailTurn(c, k, a).conn = c /\ FailTurn(c, k, a).attempt = a
             /\ FailTurn(c, k, a).stage = "clear" /\ FailTurn(c, k, a) \in Turn
  BY FailTurnType DEF FailTurn
<1>6. CASE ScanTurnThrows
  <2>1. turn \in Turn /\ turn.conn \in Conns /\ turn.attempt \in Nat
    BY <1>2, <1>6 DEF ScanTurnThrows, Idle, NoTurn, Turn
  <2>2. \A b \in Conns : Applying(b) => b = turn.conn
    BY DEF Applying
  <2>3. PICK c \in Conns, a \in Nat : c = turn.conn /\ a = turn.attempt
    BY <2>1
  <2>4. turn' = FailTurn(c, "coordinator", a) /\ scan' = scan
    BY <1>6, <2>3 DEF ScanTurnThrows
  <2>5. "coordinator" \in FailKinds
    BY DEF FailKinds
  <2>6. /\ turn'.kind = "coordinator" /\ turn'.conn = c /\ turn'.attempt = a
        /\ turn'.stage = "clear" /\ turn' \in Turn
    BY <1>5, <2>4, <2>5
  <2> QED  BY <1>4, <2>2, <2>3, <2>4, <2>5, <2>6
<1>7. ASSUME NEW c \in Conns, SettleInterrupted(c) \/ AdoptContradiction(c) \/ ScanThrows(c)
      PROVE  DiagInv'
  <2>1. turn = NoTurn /\ scan' = scan
    BY <1>7 DEF SettleInterrupted, AdoptContradiction, ScanThrows, Idle, Reconciling
  <2>2. PICK k \in FailKinds, a \in Nat : turn' = FailTurn(c, k, a) /\ (k = "contradiction" => a = 0)
    <3>1. ledger[c].attempt \in Nat /\ scan[c].attempt \in Nat
      BY <1>2 DEF TypeOK, Row, Scan, NoScan
    <3> QED  BY <1>7, <3>1 DEF SettleInterrupted, AdoptContradiction, ScanThrows, FailKinds
  <2>3. /\ turn'.kind = k /\ turn'.conn = c /\ turn'.attempt = a
        /\ turn'.stage = "clear" /\ turn' \in Turn
    BY <1>5, <2>2
  <2>4. \A b \in Conns : ~ Applying(b)
    BY <2>1, NoTurnDiag
  <2> QED  BY <1>4, <2>1, <2>2, <2>3, <2>4
<1>8. ASSUME NEW c \in Conns, NEW life, NEW cfg, Mutate(c, life, cfg)
      PROVE  DiagInv'
  <2>1. turn = NoTurn /\ scan' = scan
    BY <1>8 DEF Mutate, Idle
  <2>2. turn'.kind = "mutation" /\ turn'.stage = "trigger"
    BY <1>8 DEF Mutate, FailTurn
  <2>3. TurnDiagnosed'
    BY <2>2 DEF TurnDiagnosed
  <2>4. \A b \in Conns : ~ Applying(b)
    BY <2>1, NoTurnDiag
  <2> QED  BY <1>1, <2>1, <2>3, <2>4, QuietDiag
<1>9. CASE CatchThrows
  <2>1. turn \in Turn /\ turn' = NoTurn
    BY <1>2, <1>9 DEF CatchThrows, Idle, NoTurn
  <2>2. \A b \in Conns : scan'[b] = NoScan \/ (scan'[b] = scan[b] /\ b # turn.conn)
    BY <1>2, <1>9 DEF CatchThrows, TypeOK
  <2>3. \A b \in Conns : b # turn.conn => ~ Applying(b)
    BY DEF Applying
  <2> QED  BY <1>1, <2>1, <2>2, <2>3, NoTurnDiag, QuietDiag
<1>10. CASE StartupThrows
  <2>1. turn' = NoTurn /\ scan' = scan /\ \A b \in Conns : ~ Applying(b)
    BY <1>10 DEF StartupThrows, Applying
  <2> QED  BY <1>1, <2>1, NoTurnDiag, QuietDiag
<1>11. CASE Crash
  <2>1. turn' = NoTurn /\ \A b \in Conns : scan'[b] = NoScan
    BY <1>11 DEF Crash
  <2> QED  BY <1>1, <2>1, NoTurnDiag, QuietDiag
<1>12. CASE \/ Boot \/ BeginReconcile \/ OpenHttp \/ UNCHANGED vars
            \/ \E c \in Conns : SkipStartupScan(c) \/ Revoke(c) \/ DeleteConnection(c)
            \/ \E s \in Scopes, R \in SUBSET Routes : AssignRoutes(s, R)
  <2>1. UNCHANGED <<turn, scan>>
    BY <1>12 DEF Boot, BeginReconcile, OpenHttp, vars, SkipStartupScan, Revoke, DeleteConnection, AssignRoutes
  <2>2. TurnDiagnosed' /\ \A b \in Conns : Applying(b) => Applying(b)'
    BY <1>1, <2>1 DEF DiagInv, TurnDiagnosed, Applying
  <2> QED  BY <1>1, <2>1, <2>2, QuietDiag
<1> QED  BY <1>3, <1>6, <1>7, <1>8, <1>9, <1>10, <1>11, <1>12

LEMMA FailClosedDiag ==
  ASSUME CatalogInv, DiagInv, FailClosed
  PROVE  DiagInv'
<1>1. turn \in Turn /\ turn.kind \in FailKinds /\ turn.stage = "clear"
  BY TurnCases DEF CatalogInv, FailClosed, Idle, NoTurn, FailKinds
<1>2. PICK c \in Conns : c = turn.conn
  BY <1>1 DEF Turn
<1>3. PICK d : d = [attempt |-> turn.attempt, src |-> turn.kind, ok |-> FALSE]
  OBVIOUS
<1>4. /\ ReplaceSnapshot(c, {}, NoConfig, d) /\ UNCHANGED <<ledger, attempts, scan>>
      /\ turn' = [turn EXCEPT !.stage = "reset", !.diag = d, !.routes = models[c]]
  BY <1>2, <1>3 DEF FailClosed
<1>5. d \in Diag /\ d.attempt = turn.attempt /\ d.src = turn.kind /\ d.ok = FALSE
  BY <1>1, <1>3 DEF Turn, Diag, FailKinds, DiagSources
<1>6. ledger[c].state \notin Settled /\ ledger[c].attempt = turn.attempt
  <2>1. CASE turn.kind = "contradiction"
    BY <1>1, <1>2, <2>1 DEF CatalogInv, TurnOwnsClaim, CanAdopt, DiagInv, TurnDiagnosed, Numbered, Settled
  <2>2. CASE turn.kind # "contradiction"
    BY <1>1, <1>2, <2>2 DEF CatalogInv, TurnOwnsClaim, ScanOwnsClaim, CanSettle, FailKinds, Settled
  <2> QED  BY <2>1, <2>2
<1>7. d.src \in SourcesOf(d.attempt)
  <2>1. CASE turn.kind = "contradiction"
    BY <1>1, <1>5, <2>1 DEF SourcesOf, DiagInv, TurnDiagnosed
  <2>2. CASE turn.kind = "interrupted"
    BY <1>5, <2>2 DEF SourcesOf
  <2>3. CASE turn.kind = "coordinator"
    <3>1. scan[c] # NoScan /\ scan[c].attempt = turn.attempt
      BY <1>1, <1>2, <2>3 DEF CatalogInv, TurnOwnsClaim
    <3>2. turn.attempt > 0
      BY <3>1 DEF DiagInv, Numbered
    <3> QED  BY <1>5, <2>3, <3>2 DEF SourcesOf
  <2> QED  BY <1>1, <2>1, <2>2, <2>3 DEF FailKinds
<1>8. \A e \in diags[c] : e.attempt = d.attempt /\ e.src = d.src => e = d
  <2> SUFFICES ASSUME NEW e \in diags[c], e.attempt = d.attempt, e.src = d.src PROVE e = d
    OBVIOUS
  <2>1. e \in Diag /\ ~ e.ok
    BY <1>1, <1>5 DEF CatalogInv, TypeOK, DiagInv, OnePerSource
  <2>2. e.ok = FALSE
    <3>1. e.ok \in BOOLEAN
      BY <2>1 DEF Diag
    <3> QED  BY <2>1, <3>1
  <2> QED  BY <1>5, <2>1, <2>2 DEF Diag
<1>9. /\ d \in diags'[c] /\ \A b \in Conns : b # c => diags'[b] = diags[b]
      /\ Numbered' /\ OnePerSource' /\ DiagnosticBacksRow'
  BY <1>1, <1>4, <1>5, <1>6, <1>7, <1>8, Recorded
<1>10. /\ turn'.conn = c /\ turn'.kind = turn.kind /\ turn'.stage = "reset" /\ turn'.attempt = turn.attempt
       /\ turn'.diag = d /\ turn'.state = turn.state
  BY <1>1, <1>2, <1>4 DEF Turn
<1>11. turn' \in Turn
  <2>1. models[c] \in SUBSET Models
    BY DEF CatalogInv, TypeOK
  <2> QED  BY <1>1, <1>4, <1>5, <2>1 DEF Turn
<1>12. TurnDiagnosed'
  <2>1. turn.state = "failed"
    BY <1>1 DEF CatalogInv, TurnOwnsClaim
  <2>2. turn.kind = "contradiction" => turn.attempt = 0
    BY <1>1 DEF DiagInv, TurnDiagnosed
  <2> QED  BY <1>5, <1>9, <1>10, <2>1, <2>2 DEF TurnDiagnosed
<1>13. Undiagnosed'
  <2> SUFFICES ASSUME NEW b \in Conns, scan[b] # NoScan, ~ Applying(b)'
               PROVE  \A e \in diags'[b] : e.attempt < scan[b].attempt
    BY <1>4 DEF Undiagnosed
  <2>1. b # c
    <3>1. turn.kind \in {"interrupted", "contradiction"} => scan[c] = NoScan
      BY <1>1 DEF CatalogInv, TurnOwnsClaim
    <3>2. turn.kind = "coordinator" => Applying(c)'
      BY <1>10, <1>11 DEF Applying
    <3> QED  BY <1>1, <3>1, <3>2 DEF FailKinds
  <2>2. ~ Applying(b)
    BY <1>2, <2>1 DEF Applying
  <2> QED  BY <1>9, <2>1, <2>2 DEF DiagInv, Undiagnosed
<1> QED  BY <1>9, <1>12, <1>13 DEF DiagInv

LEMMA ScanReturnsDiag ==
  ASSUME CatalogInv, DiagInv, NEW c \in Conns, NEW ok \in BOOLEAN, NEW ms \in SUBSET Models,
         ScanReturns(c, ok, ms)
  PROVE  DiagInv'
<1>1. PICK d : d = [attempt |-> scan[c].attempt, src |-> "scan", ok |-> ok]
  OBVIOUS
<1>2. /\ ReplaceSnapshot(c, ms, scan[c].cfg, d) /\ turn' = ScanTurn(c, ms, d)
      /\ UNCHANGED <<ledger, attempts, scan>> /\ turn = NoTurn /\ scan[c] # NoScan
  BY <1>1 DEF ScanReturns, Idle
<1>3. /\ ledger[c].attempt = scan[c].attempt /\ ledger[c].state \notin Settled /\ scan[c].attempt > 0
      /\ scan[c].attempt \in Nat
  BY <1>2 DEF CatalogInv, ScanOwnsClaim, CanSettle, Settled, DiagInv, Numbered, TypeOK, Scan
<1>4. d \in Diag /\ d.attempt = scan[c].attempt /\ d.src = "scan" /\ d.ok = ok
  BY <1>1, <1>3 DEF Diag, DiagSources
<1>5. d.src \in SourcesOf(d.attempt) /\ (d.src \in FailKinds => ~ d.ok)
  BY <1>3, <1>4 DEF SourcesOf, FailKinds
<1>6. \A b \in Conns : ~ Applying(b)
  BY <1>2, NoTurnDiag
<1>7. \A e \in diags[c] : e.attempt # d.attempt
  <2> TAKE e \in diags[c]
  <2>1. e.attempt < scan[c].attempt /\ e.attempt \in Nat
    BY <1>2, <1>6 DEF DiagInv, Undiagnosed, CatalogInv, TypeOK, Diag
  <2> QED  BY <1>3, <1>4, <2>1
<1>8. /\ d \in diags'[c] /\ \A b \in Conns : b # c => diags'[b] = diags[b]
      /\ Numbered' /\ OnePerSource' /\ DiagnosticBacksRow'
  BY <1>2, <1>3, <1>4, <1>5, <1>7, Recorded
<1>9. /\ turn'.conn = c /\ turn'.kind = "scan" /\ turn'.stage = "reset" /\ turn'.attempt = scan[c].attempt
      /\ turn'.diag = d
      /\ turn'.state = IF ~ d.ok THEN "failed" ELSE IF ms = {} THEN "empty" ELSE "available"
  BY <1>2 DEF ScanTurn
<1>10. turn' \in Turn
  BY <1>2, <1>4, ScanTurnType DEF CatalogInv
<1>11. TurnDiagnosed'
  <2>1. turn'.diag.ok <=> turn'.state # "failed"
    BY <1>9
  <2> QED  BY <1>4, <1>8, <1>9, <2>1 DEF TurnDiagnosed
<1>12. Undiagnosed'
  <2>1. Applying(c)'
    BY <1>9, <1>10 DEF Applying
  <2> QED  BY <1>2, <1>6, <1>8, <2>1 DEF DiagInv, Undiagnosed
<1> QED  BY <1>8, <1>11, <1>12 DEF DiagInv

LEMMA SettleDiag ==
  ASSUME CatalogInv, DiagInv, Settle
  PROVE  DiagInv'
<1>1. turn \in Turn /\ turn.conn \in Conns /\ turn.stage = "settle" /\ turn.attempt \in Nat
  BY TurnCases DEF CatalogInv, Settle, Turn
<1>2. PICK c \in Conns : c = turn.conn
  BY <1>1
<1>3. /\ UNCHANGED <<diags, attempts>> /\ turn' = NoTurn /\ scan'[c] = NoScan
      /\ \A b \in Conns : b # c => scan'[b] = scan[b]
  BY <1>2 DEF Settle, CatalogInv, TypeOK
<1>4. /\ turn.diag \in diags[c] /\ turn.diag.attempt = turn.attempt
      /\ turn.diag.ok <=> turn.state # "failed"
  BY <1>1, <1>2 DEF DiagInv, TurnDiagnosed
<1>5. /\ \A b \in Conns : b # c => ledger'[b] = ledger[b]
      /\ ledger'[c].state = turn.state /\ turn.state \in Settled /\ ledger'[c].diag = turn.diag
      /\ ledger'[c].attempt = turn.attempt /\ ledger[c].attempt = turn.attempt
  <2>1. CASE turn.kind # "contradiction"
    BY <1>1, <1>2, <2>1, SettleWrites
  <2>2. CASE turn.kind = "contradiction"
    <3>1. turn.attempt = 0 /\ CanAdopt(c)
      BY <1>1, <1>2, <2>2 DEF DiagInv, TurnDiagnosed, CatalogInv, TurnOwnsClaim
    <3>2. ledger[c].attempt = 0
      BY <3>1 DEF CanAdopt, DiagInv, Numbered
    <3> QED  BY <1>1, <1>2, <1>4, <2>2, <3>1, <3>2, SettleWrites
  <2> QED  BY <2>1, <2>2
<1>6. Numbered'
  BY <1>3, <1>5 DEF DiagInv, Numbered, Settled
<1>7. OnePerSource'
  BY <1>3 DEF DiagInv, OnePerSource
<1>8. Undiagnosed'
  <2>1. \A b \in Conns : b # c => ~ Applying(b)
    BY <1>2 DEF Applying
  <2> QED  BY <1>3, <2>1 DEF DiagInv, Undiagnosed
<1>9. DiagnosticBacksRow'
  <2> SUFFICES ASSUME NEW b \in Conns, ledger'[b].state \in Settled
               PROVE  IF ledger'[b].diag = NoDiag
                      THEN ledger'[b].state = "available" /\ ledger'[b].attempt = 0
                      ELSE /\ ledger'[b].diag \in diags[b]
                           /\ ledger'[b].diag.attempt = ledger'[b].attempt
                           /\ ledger'[b].diag.ok <=> ledger'[b].state # "failed"
    BY <1>3 DEF DiagnosticBacksRow
  <2>1. CASE b = c
    <3>1. turn.diag # NoDiag
      BY <1>4, DiagIsNotNone DEF CatalogInv, TypeOK
    <3> QED  BY <1>4, <1>5, <2>1, <3>1
  <2>2. CASE b # c
    BY <1>5, <2>2 DEF DiagInv, DiagnosticBacksRow
  <2> QED  BY <2>1, <2>2
<1> QED  BY <1>3, <1>6, <1>7, <1>8, <1>9, NoTurnDiag DEF DiagInv

LEMMA ClaimDiag ==
  ASSUME CatalogInv, DiagInv, NEW c \in Conns, Claims(c), \A b \in Conns : ~ Applying(b), TurnDiagnosed'
  PROVE  DiagInv'
<1>1. /\ UNCHANGED diags /\ attempts' = attempts + 1 /\ attempts \in Nat
      /\ \A b \in Conns : b # c => ledger'[b] = ledger[b]
      /\ ledger'[c].state = "scanning" /\ ledger'[c].attempt = attempts + 1
  BY ClaimWrites DEF CatalogInv, TypeOK
<1>2. /\ scan'[c].attempt = attempts + 1 /\ \A b \in Conns : b # c => scan'[b] = scan[b]
  BY DEF Claims, BeginScan, CatalogInv, TypeOK
<1>3. \A b \in Conns : ledger[b].attempt \in Nat /\ \A d \in diags[b] : d.attempt \in Nat
  BY DEF CatalogInv, TypeOK, Row, Diag
<1>4. \A d \in diags[c] : d.attempt < attempts + 1
  BY <1>1, <1>3 DEF DiagInv, Numbered
<1>5. Numbered'
  <2> SUFFICES ASSUME NEW b \in Conns
               PROVE  /\ ledger'[b].attempt <= attempts + 1
                      /\ ledger'[b].state \in {"none", "never_scanned"} => ledger'[b].attempt = 0
                      /\ scan'[b] # NoScan => scan'[b].attempt > 0
                      /\ \A d \in diags[b] : d.attempt <= ledger'[b].attempt
    BY <1>1 DEF Numbered
  <2>1. CASE b = c
    BY <1>1, <1>2, <1>3, <1>4, <2>1
  <2>2. CASE b # c
    BY <1>1, <1>2, <1>3, <2>2 DEF DiagInv, Numbered
  <2> QED  BY <2>1, <2>2
<1>6. OnePerSource'
  BY <1>1 DEF DiagInv, OnePerSource
<1>7. Undiagnosed'
  BY <1>1, <1>2, <1>4 DEF DiagInv, Undiagnosed
<1>8. DiagnosticBacksRow'
  BY <1>1 DEF DiagInv, DiagnosticBacksRow, Settled
<1> QED  BY <1>5, <1>6, <1>7, <1>8 DEF DiagInv

LEMMA RowDiag ==
  ASSUME CatalogInv, DiagInv, NEW c \in Conns, InitializeRow(c) \/ Adopts(c)
  PROVE  DiagInv'
<1>1. UNCHANGED <<diags, attempts, scan, turn>>
  BY DEF InitializeRow, Adopts, AdoptDiagnostic, AdoptRows
<1>2. TurnDiagnosed' /\ Undiagnosed' /\ OnePerSource'
  BY <1>1 DEF DiagInv, TurnDiagnosed, Undiagnosed, OnePerSource, Applying
<1>3. attempts \in Nat /\ ledger[c].attempt = 0 /\ \A d \in diags[c] : d.attempt = 0
  <2>1. ledger[c].state \in {"none", "never_scanned"}
    BY AdoptWrites DEF InitializeRow
  <2>2. attempts \in Nat /\ ledger[c].attempt = 0
    BY <2>1 DEF CatalogInv, TypeOK, DiagInv, Numbered
  <2>3. \A d \in diags[c] : d.attempt \in Nat /\ d.attempt <= 0
    BY <2>2 DEF CatalogInv, TypeOK, Diag, DiagInv, Numbered
  <2> QED  BY <2>2, <2>3
<1>4. /\ \A b \in Conns : b # c => ledger'[b] = ledger[b]
      /\ ledger'[c].attempt = 0
      /\ ledger'[c].state \in Settled =>
           \/ /\ ledger'[c].diag \in diags[c] /\ ledger'[c].attempt = ledger'[c].diag.attempt
              /\ ledger'[c].diag.ok <=> ledger'[c].state # "failed"
           \/ ledger'[c].diag = NoDiag /\ ledger'[c].state = "available"
  <2>1. CASE InitializeRow(c)
    <3>1. NeverScanned(TargetVersion).state = "never_scanned" /\ NeverScanned(TargetVersion).attempt = 0
      BY DEF NeverScanned, NoRow
    <3> QED  BY <2>1, <3>1 DEF InitializeRow, CatalogInv, TypeOK, Settled
  <2>2. CASE Adopts(c)
    BY <1>3, <2>2, AdoptWrites
  <2> QED  BY <2>1, <2>2
<1>5. Numbered'
  BY <1>1, <1>3, <1>4 DEF DiagInv, Numbered
<1>6. DiagnosticBacksRow'
  <2>1. \A d \in diags[c] : d # NoDiag
    BY DiagIsNotNone DEF CatalogInv, TypeOK
  <2> QED  BY <1>1, <1>4, <2>1 DEF DiagInv, DiagnosticBacksRow
<1> QED  BY <1>2, <1>5, <1>6 DEF DiagInv

(* What an earlier version stored backs its rows. *)
LEMMA LegacyBacked ==
  ASSUME NEW old \in Legacy
  PROVE  /\ old.row.attempt = 0
         /\ \A d \in old.diags : d.attempt = 0 /\ d.src = "legacy"
         /\ \A d \in old.diags, e \in old.diags : d = e
         /\ old.row.state \in Settled =>
              /\ old.row.diag \in old.diags
              /\ old.row.diag.ok <=> old.row.state # "failed"
<1> DEFINE y == LegacyDiag(TRUE)
           n == LegacyDiag(FALSE)
<1>1. y.attempt = 0 /\ y.src = "legacy" /\ n.attempt = 0 /\ n.src = "legacy" /\ y.ok /\ ~ n.ok
  BY DEF LegacyDiag
<1> HIDE DEF y, n
<1>2. \A s, k, d : /\ OldRow(s, k, d).attempt = 0 /\ OldRow(s, k, d).state = s
                   /\ OldRow(s, k, d).diag = d
  BY DEF OldRow
<1>3. CASE old \in LegacyEvidence
  <2>1. old.row = NoRow /\ (old.diags = {} \/ old.diags = {y} \/ old.diags = {n})
    BY <1>3 DEF LegacyEvidence, y, n
  <2>2. NoRow.attempt = 0 /\ NoRow.state \notin Settled
    BY DEF NoRow, Settled
  <2> QED  BY <1>1, <2>1, <2>2
<1>4. CASE old \in OldUnlisted
  <2>1. \/ old.row \in {OldRow("never_scanned", 0, NoDiag), OldRow("scanning", 0, NoDiag)} /\ old.diags = {}
        \/ old.row = OldRow("failed", 0, n) /\ old.diags = {n}
    BY <1>4 DEF OldUnlisted, n
  <2> QED  BY <1>1, <1>2, <2>1 DEF Settled
<1>5. CASE old \in OldListed
  <2>1. PICK ms : old = [row |-> OldRow("available", Cardinality(ms), y), models |-> ms, diags |-> {y}]
    BY <1>5 DEF OldListed, y
  <2> QED  BY <1>1, <1>2, <2>1
<1> QED  BY <1>3, <1>4, <1>5 DEF Legacy

LEMMA InitDiag == Init => DiagInv
<1> SUFFICES ASSUME Init PROVE DiagInv
  OBVIOUS
<1>1. PICK old \in [Conns -> Legacy] : /\ ledger = [c \in Conns |-> old[c].row]
                                       /\ diags = [c \in Conns |-> old[c].diags]
  BY DEF Init
<1>2. attempts = 0 /\ turn = NoTurn /\ \A c \in Conns : scan[c] = NoScan
  BY DEF Init
<1>3. \A c \in Conns : /\ ledger[c].attempt = 0
                       /\ \A d \in diags[c] : d.attempt = 0 /\ d.src = "legacy"
                       /\ \A d \in diags[c], e \in diags[c] : d = e
                       /\ ledger[c].state \in Settled =>
                            /\ ledger[c].diag \in diags[c]
                            /\ ledger[c].diag.ok <=> ledger[c].state # "failed"
  BY <1>1, LegacyBacked
<1>4. Numbered
  BY <1>2, <1>3 DEF Numbered
<1>5. OnePerSource
  BY <1>3 DEF OnePerSource, SourcesOf, FailKinds
<1>6. Undiagnosed /\ TurnDiagnosed
  BY <1>2, NoTurnIsNoTurn DEF Undiagnosed, TurnDiagnosed
<1>7. DiagnosticBacksRow
  <2>1. \A c \in Conns : \A d \in diags[c] : d # NoDiag
    BY InitType, DiagIsNotNone DEF TypeOK
  <2> QED  BY <1>3, <2>1 DEF DiagnosticBacksRow
<1> QED  BY <1>4, <1>5, <1>6, <1>7 DEF DiagInv

LEMMA NextDiag ==
  ASSUME CatalogInv, DiagInv, [Next]_vars
  PROVE  DiagInv'
<1>1. CASE Continue
  <2>1. CASE TriggerScan
    <3>1. turn \in Turn /\ turn.kind = "mutation" /\ turn' = NoTurn
      BY <2>1, TurnCases DEF TriggerScan, CatalogInv, Idle, NoTurn
    <3>2. TurnDiagnosed' /\ turn.conn \in Conns /\ \A b \in Conns : ~ Applying(b)
      BY <3>1, NoTurnDiag DEF Applying, Turn
    <3>3. Claims(turn.conn) \/ UNCHANGED <<ledger, diags, attempts, scan>>
      BY <2>1 DEF TriggerScan, Claims
    <3> QED  BY <3>2, <3>3, ClaimDiag, QuietDiag
  <2> QED  BY <1>1, <2>1, FailClosedDiag, QuietSteps, SettleDiag DEF Continue
<1>2. CASE Fault \/ Boot \/ BeginReconcile \/ OpenHttp \/ UNCHANGED vars
  BY <1>2, QuietSteps DEF Fault
<1>3. ASSUME NEW c \in Conns, Claims(c), Idle, UNCHANGED turn
      PROVE  DiagInv'
  <2>1. TurnDiagnosed' /\ \A b \in Conns : ~ Applying(b)
    BY <1>3, NoTurnDiag DEF Idle
  <2> QED  BY <1>3, <2>1, ClaimDiag
<1>4. ASSUME NEW c \in Conns, Startup(c) PROVE DiagInv'
  <2>1. CASE StartupScan(c)
    <3>1. Claims(c) /\ Idle /\ UNCHANGED turn
      BY <2>1 DEF StartupScan, StartsScan, Claimable, Claims, Reconciling
    <3> QED  BY <1>3, <3>1
  <2> QED  BY <1>4, <2>1, QuietSteps, RowDiag DEF Startup, Adopts
<1>5. ASSUME NEW c \in Conns, Operator(c) PROVE DiagInv'
  <2>1. CASE RequestScan(c)
    <3>1. Claims(c) /\ Idle /\ UNCHANGED turn
      BY <2>1 DEF RequestScan, Claims
    <3> QED  BY <1>3, <3>1
  <2> QED  BY <1>5, <2>1, QuietSteps DEF Operator, CreateConnection, ChangeConnection, Reactivate
<1>6. ASSUME NEW c \in Conns, ScanThrows(c) PROVE DiagInv'
  BY <1>6, QuietSteps
<1>7. ASSUME NEW c \in Conns, NEW ok \in BOOLEAN, NEW ms \in SUBSET Models, ScanReturns(c, ok, ms)
      PROVE  DiagInv'
  BY <1>7, ScanReturnsDiag
<1>8. ASSUME NEW s \in Scopes, NEW r1 \in Routes, NEW r2 \in Routes, AssignRoutes(s, {r1, r2})
      PROVE  DiagInv'
  <2>1. PICK R \in SUBSET Routes : R = {r1, r2}
    OBVIOUS
  <2> QED  BY <1>8, <2>1, QuietSteps
<1> QED  BY <1>1, <1>2, <1>4, <1>5, <1>6, <1>7, <1>8 DEF Next

LEMMA DiagInvAlways == Spec => []DiagInv
BY InitDiag, NextDiag, CatalogInvAlways, PTL DEF Spec

(* The diagnostic a settled row names is still stored, is of the row's     *)
(* attempt and has its outcome, for any retention limit of at least three, *)
(* whatever fails or dies between recording it and settling the row.       *)
THEOREM RowsAreBacked == Spec => []DiagnosticBacksRow
<1>1. DiagInv => DiagnosticBacksRow
  BY DEF DiagInv
<1> QED  BY <1>1, DiagInvAlways, PTL

(* A settled outcome changes only when a newer attempt claims the row: no  *)
(* late discovery, second settlement or adoption overwrites it.            *)
THEOREM OutcomesStay == Spec => SettledUntilReclaimed
<1>1. ASSUME CatalogInv, DiagInv, [Next]_vars, NEW c \in Conns, ledger[c].state \in Settled,
             ledger'[c] # ledger[c]
      PROVE  ledger'[c].state = "scanning" /\ ledger'[c].attempt > ledger[c].attempt
  <2>1. PICK b \in Conns : Claims(b)
    <3>1. ASSUME Settle, turn \in Turn, turn.conn \in Conns PROVE ledger'[c] = ledger[c]
      BY <1>1, <3>1, SettleWrites DEF Settled
    <3>2. ASSUME NEW b \in Conns, Replaces(b) PROVE ledger'[c] = ledger[c]
      BY <3>2 DEF Replaces
    <3>3. ASSUME NEW b \in Conns, InitializeRow(b) PROVE ledger'[c] = ledger[c]
      BY <1>1, <3>3 DEF InitializeRow, Settled, CatalogInv, TypeOK
    <3>4. ASSUME NEW b \in Conns, Adopts(b) PROVE ledger'[c] = ledger[c]
      BY <1>1, <3>4, AdoptWrites DEF Settled
    <3> QED  BY <1>1, <3>1, <3>2, <3>3, <3>4, CatalogEffects
  <2>2. b = c /\ ledger'[c].state = "scanning" /\ ledger'[c].attempt = attempts + 1
    BY <1>1, <2>1, ClaimWrites
  <2>3. ledger[c].attempt \in Nat /\ attempts \in Nat /\ ledger[c].attempt <= attempts
    BY <1>1 DEF CatalogInv, TypeOK, Row, DiagInv, Numbered
  <2> QED  BY <2>2, <2>3
<1>2. CatalogInv /\ DiagInv /\ [Next]_vars =>
        [\A c \in Conns :
           ledger[c].state \in Settled /\ ledger'[c] # ledger[c] =>
             ledger'[c].state = "scanning" /\ ledger'[c].attempt > ledger[c].attempt]_vars
  BY <1>1
<1> QED  BY <1>2, CatalogInvAlways, DiagInvAlways, PTL DEF Spec, SettledUntilReclaimed
=============================================================================
