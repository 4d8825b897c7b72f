------------------------- MODULE ProviderConnections -------------------------
(***************************************************************************)
(* One provider connection with an API key: the connection row, its secret *)
(* in the vault, the operations on both, and the workers that are launched *)
(* with the key.                                                           *)
(*                                                                         *)
(* Every operation writes the vault first and the connection row second,   *)
(* in two commits of one turn: `pending` is what is left to write, and     *)
(* only a crash can come between. A launch is different: it reads the row, *)
(* waits for its hooks and its isolated context, and reads the vault then. *)
(* A new connection has a new identity, so this one is created once.       *)
(***************************************************************************)
EXTENDS Naturals, FiniteSets

CONSTANTS
  Workers,     \* launches that may overlap
  MaxSecrets,  \* secret values the operator enters
  MaxCrashes   \* process crashes

ASSUME BoundsAreNaturals == MaxSecrets \in Nat \ {0} /\ MaxCrashes \in Nat

VARIABLES
  row,      \* the connection row
  vault,    \* the vault entry of the connection
  pending,  \* the row to write once the vault has been written
  worker,   \* the launches
  entered,  \* number of secret values entered so far
  crashes,
  torn,     \* history: only one of the two commits of an operation happened
  dead      \* history: values that were revoked, replaced or deleted

vars == <<row, vault, pending, worker, entered, crashes, torn, dead>>

Lives == {"none", "active", "revoked"}
Values == 1..MaxSecrets
\* The numbers of a vault entry and its value: version and value count
\* separately, as an entry that was deleted starts at version 1 again.
NoRow == [life |-> "none", version |-> 0]
NoEntry == [status |-> "none", version |-> 0, value |-> 0]
\* What the row commit does to the agreement of the stores.
Effects == {"heals", "keeps", "tears"}
Nothing == [life |-> "nothing", version |-> 0, effect |-> "keeps"]
Idle == [pc |-> "idle", value |-> 0]

TypeOK ==
  /\ row \in [life : Lives, version : 0..MaxSecrets]
  /\ vault \in [status : Lives, version : 0..MaxSecrets, value : 0..MaxSecrets]
  /\ pending \in [life : Lives \cup {"nothing"}, version : 0..MaxSecrets, effect : Effects]
  /\ worker \in [Workers -> [pc : {"idle", "preparing", "running"}, value : 0..MaxSecrets]]
  /\ entered \in 0..MaxSecrets /\ crashes \in 0..MaxCrashes
  /\ torn \in BOOLEAN /\ dead \subseteq Values

Init ==
  /\ row = NoRow /\ vault = NoEntry /\ pending = Nothing
  /\ worker = [w \in Workers |-> Idle]
  /\ entered = 0 /\ crashes = 0 /\ torn = FALSE /\ dead = {}

Exists == row # NoRow
Ready == pending = Nothing

-----------------------------------------------------------------------------
(* The vault.                                                              *)

Enter == entered < MaxSecrets /\ entered' = entered + 1
Retire == dead' = IF vault = NoEntry THEN dead ELSE dead \cup {vault.value}

\* createSecret inserts; the reference must be new.
vaultCreate ==
  /\ vault = NoEntry
  /\ Enter
  /\ vault' = [status |-> "active", version |-> 1, value |-> entered + 1]
  /\ dead' = dead
\* rotateSecret replaces the value, counts the version and activates, and
\* inserts where there is no entry.
\* Mutant: the status is left alone.
vaultRotateQuietly ==
  /\ Enter /\ Retire
  /\ vault' = [status |-> IF vault = NoEntry THEN "active" ELSE vault.status,
               version |-> vault.version + 1, value |-> entered + 1]
vaultRotate ==
  /\ Enter /\ Retire
  /\ vault' = [status |-> "active", version |-> vault.version + 1, value |-> entered + 1]
vaultRevoke ==
  /\ Retire
  /\ vault' = IF vault = NoEntry THEN NoEntry ELSE [vault EXCEPT !.status = "revoked"]
  /\ UNCHANGED entered
vaultDelete ==
  /\ Retire
  /\ vault' = NoEntry
  /\ UNCHANGED entered

\* readSecret returns active entries only.
\* Mutant: any entry is returned.
anyEntry == vault # NoEntry
readable == vault.status = "active"

-----------------------------------------------------------------------------
(* The operations: the vault commit, and what the row commit will write.   *)

Then(life, version, effect) ==
  /\ pending' = [life |-> life, version |-> version, effect |-> effect]
  /\ UNCHANGED <<row, worker, crashes, torn>>

createConnection ==
  /\ Ready /\ ~Exists /\ entered = 0
  /\ vaultCreate
  /\ Then("active", vault'.version, "heals")

\* createSecret: of an active connection it succeeds only if the vault has no
\* entry for it, a revoked one it restores.
createSecret ==
  /\ Ready /\ row.life = "active"
  /\ vaultCreate
  /\ Then("active", vault'.version, "heals")
restoreSecret ==
  /\ Ready /\ row.life = "revoked"
  /\ vaultRotate
  /\ Then("active", vault'.version, "heals")

\* rotateSecret asks for a reference, not for an active connection, and
\* leaves the lifecycle as it is.
rotateSecret ==
  /\ Ready /\ Exists
  /\ vaultRotate
  /\ Then(row.life, vault'.version, "heals")

revokeSecret ==
  /\ Ready /\ Exists
  /\ vaultRevoke
  /\ Then("revoked", row.version, "keeps")

deleteConnection ==
  /\ Ready /\ Exists
  /\ vaultDelete
  /\ Then("none", 0, "heals")

\* The vault is closed (started without its key) or fails: the row goes all
\* the same, and the secret stays behind.
deleteWithoutVault ==
  /\ Ready /\ Exists
  /\ UNCHANGED <<vault, entered, dead>>
  /\ Then("none", 0, "tears")

\* The row commit that ends the operation.
Commit ==
  /\ ~Ready
  /\ row' = [life |-> pending.life, version |-> pending.version]
  /\ torn' = CASE pending.effect = "heals" -> FALSE
               [] pending.effect = "tears" -> TRUE
               [] OTHER -> torn
  /\ pending' = Nothing
  /\ UNCHANGED <<vault, worker, entered, crashes, dead>>

\* The process dies; its launches die with it.
Crash ==
  /\ crashes < MaxCrashes
  /\ crashes' = crashes + 1
  /\ torn' = (torn \/ ~Ready)
  /\ pending' = Nothing
  /\ worker' = [w \in Workers |-> Idle]
  /\ UNCHANGED <<row, vault, entered, dead>>

-----------------------------------------------------------------------------
(* A worker is launched on the connection.                                 *)

\* The connection is found active and the attempt recorded with it; then the
\* launch awaits its hook and its context.
PrepareLaunch(w) ==
  /\ Ready /\ worker[w].pc = "idle" /\ row.life = "active"
  /\ worker' = [worker EXCEPT ![w] = [Idle EXCEPT !.pc = "preparing"]]
  /\ UNCHANGED <<row, vault, pending, entered, crashes, torn, dead>>

\* readSecret and the spawn with the value in the environment, or the
\* attempt settled as secret_read_failed.
Launch(w) ==
  /\ Ready /\ worker[w].pc = "preparing"
  /\ worker' = [worker EXCEPT ![w] =
       IF readable
       THEN [pc |-> "running", value |-> vault.value]
       ELSE Idle]
  /\ UNCHANGED <<row, vault, pending, entered, crashes, torn, dead>>

\* The attempt is settled, before or after the spawn.
Settle(w) ==
  /\ Ready /\ worker[w].pc # "idle"
  /\ worker' = [worker EXCEPT ![w] = Idle]
  /\ UNCHANGED <<row, vault, pending, entered, crashes, torn, dead>>

Operate ==
  \/ createConnection \/ createSecret \/ restoreSecret
  \/ rotateSecret \/ revokeSecret \/ deleteConnection \/ deleteWithoutVault

Next ==
  \/ Operate \/ Commit \/ Crash
  \/ \E w \in Workers : PrepareLaunch(w) \/ Launch(w) \/ Settle(w)

Spec == Init /\ [][Next]_vars

-----------------------------------------------------------------------------
(* Properties.                                                             *)

\* A key that was revoked, replaced or deleted in the vault is not given to a
\* worker any more, whatever the launch had read before, whatever rotations, restores
\* and crashes came in between.
DeadKeyIsNotHandedOut ==
  [][\A w \in Workers :
       (worker[w].pc = "preparing" /\ worker'[w].pc = "running") =>
         worker'[w].value \notin dead]_vars

\* Vault and row agree between operations: a secret has a row and a row a
\* secret, at the same version, and an active connection an active secret.
\* A crash between the two commits breaks this, and any later operation that
\* writes a key, or the deletion, mends it; a deletion that cannot reach the
\* vault breaks it for good.
StoresAgree ==
  (Ready /\ ~torn) =>
    /\ Exists <=> vault # NoEntry
    /\ row.version = vault.version
    /\ row.life = "active" => readable
=============================================================================
