--------------------------- MODULE ConnectionProofs ---------------------------
(***************************************************************************)
(* Proofs about ProviderConnections, for any set of launches and any       *)
(* number of secrets and crashes.                                          *)
(***************************************************************************)
EXTENDS ProviderConnections, TLAPS

(* The numbers of the vault follow the number of values entered, and the   *)
(* rows copy versions the vault has had.                                   *)
Counted ==
  /\ vault.version <= entered /\ vault.value <= entered
  /\ dead \subseteq 1..entered
  /\ vault # NoEntry => vault.status # "none" /\ vault.version > 0 /\ vault.value > 0

(* What a row commit that is still to come will find in the vault. *)
PendingAgrees ==
  /\ (~Ready /\ pending.effect = "heals") =>
       /\ pending.version = vault.version
       /\ pending.life = "none" <=> vault = NoEntry
       /\ pending.life = "active" => readable
  /\ (~Ready /\ pending.effect = "keeps") =>
       /\ pending.life = "revoked"
       /\ ~torn => pending.version = vault.version /\ vault # NoEntry

(* A row that exists has a lifecycle, and only a missing one has version 0. *)
RowShape ==
  /\ row.life = "none" => row.version = 0
  /\ pending.life = "none" => pending.version = 0
  /\ pending.life = "nothing" => pending = Nothing

(* The value in the vault is dead unless the entry is active. *)
ActiveIsFresh == readable => vault.value \notin dead

ConnectionInv ==
  TypeOK /\ Counted /\ RowShape /\ PendingAgrees /\ StoresAgree /\ ActiveIsFresh

-----------------------------------------------------------------------------
LEMMA InitHolds == Init => ConnectionInv
<1> SUFFICES ASSUME Init PROVE ConnectionInv
  OBVIOUS
<1> USE BoundsAreNaturals DEF Init, NoRow, NoEntry, Nothing, Idle
<1>1. TypeOK
  <2>1. torn \in BOOLEAN
    OBVIOUS
  <2>2. worker \in [Workers -> [pc : {"idle", "preparing", "running"}, value : 0..MaxSecrets]]
    OBVIOUS
  <2> QED
    BY <2>1, <2>2 DEF TypeOK, Lives, Effects, Values
<1>2. Counted /\ ActiveIsFresh
  BY DEF Counted, ActiveIsFresh, readable
<1>3. RowShape /\ PendingAgrees /\ StoresAgree
  BY DEF RowShape, PendingAgrees, StoresAgree, Ready, Exists, readable
<1> QED
  BY <1>1, <1>2, <1>3 DEF ConnectionInv

(* The vault operations keep the vault's numbers and its fresh key. *)
LEMMA VaultStep ==
  ASSUME ConnectionInv,
         vaultCreate \/ vaultRotate \/ vaultRevoke \/ vaultDelete
  PROVE  /\ vault' \in [status : Lives, version : 0..MaxSecrets, value : 0..MaxSecrets]
         /\ entered' \in 0..MaxSecrets /\ dead' \subseteq Values
         /\ Counted' /\ ActiveIsFresh'
<1> USE BoundsAreNaturals DEF ConnectionInv, TypeOK, Counted, ActiveIsFresh, NoEntry, readable,
        Lives, Values, Enter, Retire
<1>1. CASE vaultCreate
  BY <1>1 DEF vaultCreate
<1>r. ASSUME Retire PROVE dead' \subseteq 1..entered
  <2>1. vault # NoEntry => vault.value \in 1..entered
    OBVIOUS
  <2> QED
    BY <1>r, <2>1
<1>2. CASE vaultRotate
  <2>1. vault' = [status |-> "active", version |-> vault.version + 1, value |-> entered + 1]
    BY <1>2 DEF vaultRotate
  <2>2. entered < MaxSecrets /\ entered' = entered + 1 /\ dead' \subseteq 1..entered
    BY <1>2, <1>r DEF vaultRotate
  <2>3. vault.version \in 0..entered
    OBVIOUS
  <2> QED
    BY <2>1, <2>2, <2>3
<1>3. CASE vaultRevoke
  BY <1>3 DEF vaultRevoke
<1>4. CASE vaultDelete
  <2>1. vault' = NoEntry /\ entered' = entered /\ dead' \subseteq 1..entered
    BY <1>4, <1>r DEF vaultDelete
  <2> QED
    BY <2>1
<1> QED
  BY <1>1, <1>2, <1>3, <1>4

(* The shape of an operation: the vault commit and the row to write. *)
LEMMA OperationHolds ==
  ASSUME ConnectionInv, Ready, NEW l \in Lives, NEW v \in 0..MaxSecrets, NEW e \in Effects,
         Then(l, v, e),
         vault' \in [status : Lives, version : 0..MaxSecrets, value : 0..MaxSecrets],
         entered' \in 0..MaxSecrets, dead' \subseteq Values, Counted', ActiveIsFresh',
         l = "none" => v = 0,
         e = "heals" => /\ v = vault'.version
                        /\ l = "none" <=> vault' = NoEntry
                        /\ l = "active" => vault'.status = "active",
         e = "keeps" => /\ l = "revoked"
                        /\ ~torn => v = vault'.version /\ vault' # NoEntry
  PROVE  ConnectionInv'
<1>1. pending' = [life |-> l, version |-> v, effect |-> e] /\ UNCHANGED <<row, worker, crashes>>
  BY DEF Then
<1>2. torn' = torn
  BY DEF Then
<1>3. pending' # Nothing
  BY <1>1 DEF Nothing, Lives
<1>4. TypeOK'
  <2>1. torn' \in BOOLEAN
    BY <1>2, Zenon DEF ConnectionInv, TypeOK
  <2> QED
    BY <1>1, <2>1 DEF ConnectionInv, TypeOK
<1>5. RowShape'
  BY <1>1 DEF ConnectionInv, RowShape, Lives
<1>6. PendingAgrees'
  BY <1>1, <1>2 DEF PendingAgrees, readable
<1>7. StoresAgree'
  BY <1>3 DEF StoresAgree, Ready
<1> QED
  BY <1>4, <1>5, <1>6, <1>7 DEF ConnectionInv

(* The row that exists has a lifecycle. *)
LEMMA ExistingRow ==
  ASSUME ConnectionInv, Exists
  PROVE  row.life \in {"active", "revoked"}
BY DEF ConnectionInv, TypeOK, RowShape, Exists, NoRow, Lives

(* Every operation on connection and secret. *)
LEMMA OperateHolds ==
  ASSUME ConnectionInv, Operate
  PROVE  ConnectionInv'
<1> USE DEF Lives, Effects
<1>0. TypeOK /\ Counted /\ StoresAgree /\ ActiveIsFresh
  BY DEF ConnectionInv
<1>1. CASE createConnection
  BY <1>1, VaultStep, OperationHolds DEF createConnection, vaultCreate, NoEntry
<1>2. CASE createSecret
  BY <1>2, VaultStep, OperationHolds DEF createSecret, vaultCreate, NoEntry
<1>3. CASE restoreSecret
  BY <1>3, VaultStep, OperationHolds DEF restoreSecret, vaultRotate, NoEntry
<1>4. CASE rotateSecret
  BY <1>4, VaultStep, ExistingRow, OperationHolds DEF rotateSecret, vaultRotate, NoEntry
<1>5. CASE revokeSecret
  <2>1. ~torn => vault # NoEntry /\ row.version = vault.version
    BY <1>0, <1>5 DEF revokeSecret, StoresAgree
  <2>2. vault # NoEntry => vault'.version = vault.version /\ vault' # NoEntry
    BY <1>0, <1>5 DEF revokeSecret, vaultRevoke, TypeOK, NoEntry
  <2>3. row.version \in 0..MaxSecrets
    BY <1>0 DEF TypeOK
  <2> QED
    BY <1>5, <2>1, <2>2, <2>3, VaultStep, OperationHolds DEF revokeSecret
<1>6. CASE deleteConnection
  BY <1>6, VaultStep, OperationHolds, BoundsAreNaturals DEF deleteConnection, vaultDelete, NoEntry
<1>7. CASE deleteWithoutVault
  <2>1. Counted' /\ ActiveIsFresh'
    BY <1>0, <1>7 DEF deleteWithoutVault, Counted, ActiveIsFresh, readable
  <2> QED
    BY <1>0, <1>7, <2>1, OperationHolds, BoundsAreNaturals DEF deleteWithoutVault, TypeOK
<1> QED
  BY <1>1, <1>2, <1>3, <1>4, <1>5, <1>6, <1>7 DEF Operate

(* The row commit. *)
LEMMA CommitHolds ==
  ASSUME ConnectionInv, Commit
  PROVE  ConnectionInv'
<1> USE DEF ConnectionInv
<1>1. row' = [life |-> pending.life, version |-> pending.version] /\ pending' = Nothing
  BY DEF Commit
<1>2. UNCHANGED <<vault, worker, entered, crashes, dead>>
  BY DEF Commit
<1>3. pending.life \in Lives
  BY DEF TypeOK, RowShape, Commit, Ready
<1>4. TypeOK'
  <2>1. torn' \in BOOLEAN
    BY DEF Commit, TypeOK, Effects
  <2>2. row' \in [life : Lives, version : 0..MaxSecrets]
    BY <1>1, <1>3 DEF TypeOK
  <2>3. pending' \in [life : Lives \cup {"nothing"}, version : 0..MaxSecrets, effect : Effects]
    BY <1>1, BoundsAreNaturals DEF Nothing, Effects
  <2> QED
    BY <1>2, <2>1, <2>2, <2>3 DEF TypeOK
<1>5. Counted' /\ ActiveIsFresh'
  BY <1>2 DEF Counted, ActiveIsFresh, readable
<1>6. RowShape' /\ PendingAgrees'
  BY <1>1 DEF RowShape, PendingAgrees, Ready, Nothing
<1>7. StoresAgree'
  <2>1. CASE pending.effect = "heals"
    BY <1>1, <1>2, <2>1 DEF Commit, PendingAgrees, RowShape, StoresAgree, Exists, NoRow, readable
  <2>2. CASE pending.effect = "keeps"
    <3>1. torn' = torn
      BY <2>2 DEF Commit
    <3> QED
      BY <1>1, <1>2, <2>2, <3>1 DEF Commit, PendingAgrees, StoresAgree, Exists, NoRow, readable
  <2>3. CASE pending.effect = "tears"
    BY <2>3 DEF Commit, StoresAgree
  <2> QED
    BY <2>1, <2>2, <2>3 DEF TypeOK, Effects
<1> QED
  BY <1>4, <1>5, <1>6, <1>7

(* A crash loses what is pending, and says so in `torn`. *)
LEMMA CrashHolds ==
  ASSUME ConnectionInv, Crash
  PROVE  ConnectionInv'
<1> USE DEF ConnectionInv
<1>1. pending' = Nothing /\ UNCHANGED <<row, vault, entered, dead>>
  BY DEF Crash
<1>2. TypeOK'
  <2>1. torn' \in BOOLEAN
    BY Zenon DEF Crash
  <2>2. crashes' \in 0..MaxCrashes
    BY BoundsAreNaturals DEF Crash, TypeOK
  <2>3. worker' \in [Workers -> [pc : {"idle", "preparing", "running"}, value : 0..MaxSecrets]]
    BY BoundsAreNaturals DEF Crash, Idle
  <2>4. pending' \in [life : Lives \cup {"nothing"}, version : 0..MaxSecrets, effect : Effects]
    BY <1>1, BoundsAreNaturals DEF Nothing, Effects
  <2> QED
    BY <1>1, <2>1, <2>2, <2>3, <2>4 DEF TypeOK
<1>3. Counted' /\ ActiveIsFresh'
  BY <1>1 DEF Counted, ActiveIsFresh, readable
<1>4. RowShape' /\ PendingAgrees'
  BY <1>1 DEF RowShape, PendingAgrees, Ready, Nothing
<1>5. StoresAgree'
  BY <1>1 DEF Crash, StoresAgree, Exists, Ready, readable
<1> QED
  BY <1>2, <1>3, <1>4, <1>5

(* The steps of a launch touch neither store. *)
LEMMA LaunchHolds ==
  ASSUME ConnectionInv, NEW w \in Workers, PrepareLaunch(w) \/ Launch(w) \/ Settle(w)
  PROVE  ConnectionInv'
<1> USE DEF ConnectionInv
<1>1. UNCHANGED <<row, vault, pending, entered, crashes, torn, dead>>
  BY DEF PrepareLaunch, Launch, Settle
<1>2. worker' \in [Workers -> [pc : {"idle", "preparing", "running"}, value : 0..MaxSecrets]]
  <2> DEFINE W == [pc : {"idle", "preparing", "running"}, value : 0..MaxSecrets]
  <2>1. Idle \in W /\ [Idle EXCEPT !.pc = "preparing"] \in W
    BY BoundsAreNaturals DEF Idle
  <2>2. [pc |-> "running", value |-> vault.value] \in W
    BY DEF TypeOK
  <2>3. worker \in [Workers -> W]
    BY DEF TypeOK
  <2> HIDE DEF W
  <2> QED
    BY <2>1, <2>2, <2>3 DEF PrepareLaunch, Launch, Settle, W
<1>3. TypeOK'
  BY <1>1, <1>2 DEF TypeOK
<1> QED
  BY <1>1, <1>3 DEF Counted, ActiveIsFresh, RowShape, PendingAgrees, StoresAgree, Exists,
     Ready, readable

LEMMA Invariance == Spec => []ConnectionInv
<1>1. ConnectionInv /\ [Next]_vars => ConnectionInv'
  <2> SUFFICES ASSUME ConnectionInv, [Next]_vars PROVE ConnectionInv'
    OBVIOUS
  <2>1. CASE Operate
    BY <2>1, OperateHolds
  <2>2. CASE Commit
    BY <2>2, CommitHolds
  <2>3. CASE Crash
    BY <2>3, CrashHolds
  <2>4. CASE \E w \in Workers : PrepareLaunch(w) \/ Launch(w) \/ Settle(w)
    BY <2>4, LaunchHolds
  <2>5. CASE UNCHANGED vars
    BY <2>5 DEF vars, ConnectionInv, TypeOK, Counted, ActiveIsFresh, RowShape, PendingAgrees,
       StoresAgree, Exists, Ready, readable
  <2> QED
    BY <2>1, <2>2, <2>3, <2>4, <2>5 DEF Next
<1> QED
  BY InitHolds, <1>1, PTL DEF Spec

-----------------------------------------------------------------------------
(* The variables of provider-connection-service.ts and its vault keep their *)
(* types: no version or value beyond the number of secrets entered.        *)
THEOREM ConnectionTypeCorrect == Spec => []TypeOK
BY Invariance, PTL DEF ConnectionInv

(* Vault and connection row agree between operations unless a crash fell   *)
(* between the two commits of one, or a deletion could not reach the vault. *)
THEOREM StoresStayInStep == Spec => []StoresAgree
BY Invariance, PTL DEF ConnectionInv

(* A launch never hands a worker a key that was revoked, replaced or       *)
(* deleted before its readSecret, however long it awaited its hooks.       *)
THEOREM NoDeadKey == Spec => DeadKeyIsNotHandedOut
<1> DEFINE Fresh ==
      \A w \in Workers :
        (worker[w].pc = "preparing" /\ worker'[w].pc = "running") =>
          worker'[w].value \notin dead
<1>1. ConnectionInv /\ [Next]_vars => [Fresh]_vars
  <2> SUFFICES ASSUME ConnectionInv, Next, NEW w \in Workers,
                      worker[w].pc = "preparing", worker'[w].pc = "running"
               PROVE  worker'[w].value \notin dead
    BY DEF Fresh
  <2>1. PICK u \in Workers : PrepareLaunch(u) \/ Launch(u) \/ Settle(u)
    <3>1. ~Operate /\ ~Commit
      BY DEF Operate, createConnection, createSecret, restoreSecret, rotateSecret, revokeSecret,
         deleteConnection, deleteWithoutVault, Then, Commit
    <3>2. ~Crash
      BY DEF Crash, Idle
    <3> QED
      BY <3>1, <3>2 DEF Next
  <2>2. worker \in [Workers -> [pc : {"idle", "preparing", "running"}, value : 0..MaxSecrets]]
    BY DEF ConnectionInv, TypeOK
  <2>3. Launch(w) /\ readable
    BY <2>1, <2>2 DEF PrepareLaunch, Launch, Settle, Idle
  <2>4. worker'[w].value = vault.value
    BY <2>2, <2>3 DEF Launch
  <2> QED
    BY <2>3, <2>4 DEF ConnectionInv, ActiveIsFresh
<1> QED
  BY Invariance, <1>1, PTL DEF Spec, DeadKeyIsNotHandedOut
=============================================================================
