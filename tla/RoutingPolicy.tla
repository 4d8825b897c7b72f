---------------------------- MODULE RoutingPolicy ----------------------------
(***************************************************************************)
(* The agent routing policy: which connection/model route serves each      *)
(* registered action, how the operator edits the matrix, how a failed      *)
(* catalog scan resets overrides, and how an action is resolved.           *)
(*                                                                         *)
(* The policy, the catalog and the connections live in stores of their     *)
(* own: a scan or a connection change is one commit, the policy revision   *)
(* it calls for another. Policy writers (a second process on the same      *)
(* database included) are serialised by `begin immediate` and by comparing *)
(* the revision they read with the current one.                            *)
(***************************************************************************)
EXTENDS Naturals, FiniteSets

CONSTANTS
  Routes, Conns, ConnOf,   \* connection/model routes and their connection
  Actions, Types, TypeOf,  \* the agent registry
  Grades, Meets,           \* what a model reports, and which actions it suits
  Offers,                  \* the grades a provider may report for a route
  BootRoute,               \* the Pi installation default
  Fragile,                 \* connections that may be revoked, be deleted, or lose models
  MaxLaunches,             \* launches that meet an unset policy at once
  Inherit, Unset           \* a scope without a selector; no policy yet

Global == "global"
Absent == "absent"
Fail == "fail_immediately"
RerouteGlobal == "reroute_global_once"

ASSUME RegistryAssumption ==
  /\ ConnOf \in [Routes -> Conns]
  /\ TypeOf \in [Actions -> Types]
  /\ Actions \cap Types = {} /\ Global \notin Actions \cup Types
  /\ Actions # {} /\ \A t \in Types : \E a \in Actions : TypeOf[a] = t
ASSUME CatalogAssumption ==
  /\ Meets \subseteq Grades \X Actions
  /\ Absent \notin Grades
  /\ Offers \in [Routes -> SUBSET Grades]
  /\ BootRoute \in Routes /\ MaxLaunches \in Nat
  /\ Fragile \subseteq Conns
ASSUME RouteNamesAssumption == Routes \cap {Fail, RerouteGlobal} = {}

VARIABLES
  policy,     \* selectors of the current revision, Unset before the first
  attention,  \* attention of the current revision not yet acknowledged
  facts,      \* the catalog: what each route's model reports, Absent without row
  life,       \* lifecycle of each connection
  booting,    \* number of launches that found no policy and are about to write one
  resetting,  \* routes of the failed scan whose reset is under way
  excused     \* history: overridden routes that left the catalog with no reset to follow

vars == <<policy, attention, facts, life, booting, resetting, excused>>

Scopes == {Global} \cup Types \cup Actions
Selector == [route : Routes, onFail : {Fail, RerouteGlobal} \cup Routes]
Policies == [Scopes -> Selector \cup {Inherit}]
ASSUME AbsenceAssumption == Inherit \notin Selector /\ Unset \notin Policies
Attention == [scope : Types \cup Actions, route : Routes]

TypeOK ==
  /\ policy \in Policies \cup {Unset}
  /\ attention \subseteq Attention
  /\ facts \in [Routes -> Grades \cup {Absent}]
  /\ life \in [Conns -> {"active", "revoked", "deleted"}]
  /\ booting \in 0..MaxLaunches
  /\ resetting \subseteq Routes
  /\ excused \subseteq Routes

Init ==
  /\ policy = Unset /\ attention = {}
  /\ facts = [r \in Routes |-> Absent]
  /\ life = [c \in Conns |-> "active"]
  /\ booting = 0 /\ resetting = {} /\ excused = {}

-----------------------------------------------------------------------------
(* Validation.                                                             *)

\* The registry entries a selector of this scope stands for.
entriesForScope(s) ==
  IF s = Global THEN Actions
  ELSE IF s \in Types THEN {a \in Actions : TypeOf[a] = s} ELSE {s}

Usable(r) == life[ConnOf[r]] = "active" /\ facts[r] # Absent
\* validateRoute: the route is usable and suits every entry.
validateRoute(r, entries) ==
  Usable(r) /\ \A a \in entries : <<facts[r], a>> \in Meets

Explicit(p, s) == p[s] # Inherit
referencedRoutes(sel) == {sel.route} \cup ({sel.onFail} \cap Routes)

\* Does an override name the route?
Overridden(r) ==
  /\ policy # Unset
  /\ \E s \in Scopes \ {Global} : Explicit(policy, s) /\ r \in referencedRoutes(policy[s])

\* validateMutation, for a complete policy.
validateSelector(sel, s) ==
  /\ validateRoute(sel.route, entriesForScope(s))
  /\ sel.onFail \in Routes =>
       sel.onFail # sel.route /\ validateRoute(sel.onFail, entriesForScope(s))
validateMutation(p) ==
  /\ Explicit(p, Global) /\ p[Global].onFail = Fail
  /\ \A s \in Scopes : Explicit(p, s) => validateSelector(p[s], s)

\* The route a selector hands a failed attempt to.
fallbackOf(p, s) ==
  IF p[s].onFail = RerouteGlobal THEN {p[Global].route} ELSE {p[s].onFail} \cap Routes
\* Mutant: reroute_global is not seen as an edge.
explicitEdges(p) ==
  UNION {{p[s].route} \X ({p[s].onFail} \cap Routes) : s \in {t \in Scopes \ {Global} : Explicit(p, t)}}
edges(p) ==
  UNION {{p[s].route} \X fallbackOf(p, s) : s \in {t \in Scopes \ {Global} : Explicit(p, t)}}
\* What hasFallbackCycle is to find (FallbackSearch shows that its search does):
\* some set of routes that a walk along the edges never has to leave. The pairs
\* createsFallbackCycle looks for are among them.
hasFallbackCycle(p) ==
  LET E == edges(p) IN
  \E S \in (SUBSET Routes) \ {{}} : \A r \in S : \E t \in S : <<r, t>> \in E

\* validateRowMutationDraft: what is asked of the edited row alone.
validateDraft(s, sel) ==
  /\ s = Global => sel # Inherit /\ sel.onFail = Fail
  /\ sel # Inherit => validateSelector(sel, s)
  /\ (sel # Inherit /\ sel.onFail = RerouteGlobal) =>
       /\ policy[Global].route # sel.route
       /\ validateRoute(policy[Global].route, entriesForScope(s))

\* prepareRowMutation: the edited row and the policy it leads to.
\* Mutant: the rows that are not edited are taken as they are.
acceptsRowAlone(s, sel) ==
  LET next == [policy EXCEPT ![s] = sel] IN
  /\ validateDraft(s, sel)
  /\ ~hasFallbackCycle(next)
acceptsRow(s, sel) ==
  LET next == [policy EXCEPT ![s] = sel] IN
  /\ validateDraft(s, sel)
  /\ validateMutation(next)
  /\ ~hasFallbackCycle(next)

\* The snapshot's state "global_unavailable": availability, not capability.
GlobalUnavailable == ~Usable(policy[Global].route)

-----------------------------------------------------------------------------
(* Resolution of an action.                                                *)

SelectedScope(a) ==
  IF Explicit(policy, a) THEN a
  ELSE IF Explicit(policy, TypeOf[a]) THEN TypeOf[a] ELSE Global

\* resolvePolicy. "refused" stands for ROUTING_ROUTE_UNAVAILABLE,
\* ROUTING_GLOBAL_UNAVAILABLE and ROUTING_CAPABILITY_MISMATCH, "invalid" for
\* ROUTING_INVALID_POLICY and ROUTING_INVALID_HANDOFF_CHAIN.
Recovery(a) ==
  LET s == SelectedScope(a) IN IF s = Global THEN {} ELSE fallbackOf(policy, s)
resolvePolicy(a) ==
  IF ~Explicit(policy, Global) THEN "invalid"
  ELSE LET primary == policy[SelectedScope(a)].route IN
       IF ~validateRoute(primary, {a}) THEN "refused"
       ELSE IF \E r \in Recovery(a) : r = primary THEN "invalid"
       ELSE IF \E r \in Recovery(a) : ~validateRoute(r, {a}) THEN "refused"
       ELSE "planned"

-----------------------------------------------------------------------------
(* The first launch writes the first policy.                               *)

\* resolve without a policy: the launch reads the catalog, finds the route
\* fit for its action and for every other, and goes to write the revision.
BootRead ==
  /\ policy = Unset /\ booting < MaxLaunches
  /\ validateRoute(BootRoute, entriesForScope(Global))
  /\ booting' = booting + 1
  /\ UNCHANGED <<policy, attention, facts, life, resetting, excused>>

\* applyMutation: the revision is written if there is still none; otherwise
\* the launch resolves its action against the policy it lost to.
BootPolicy == [s \in Scopes |->
                 IF s = Global THEN [route |-> BootRoute, onFail |-> Fail] ELSE Inherit]
\* Mutant: the current revision is not compared with the one the launch read.
BootOverwrite ==
  /\ booting > 0
  /\ booting' = booting - 1
  /\ policy' = BootPolicy
  /\ UNCHANGED <<attention, facts, life, resetting, excused>>
BootCommit ==
  /\ booting > 0
  /\ booting' = booting - 1
  /\ policy' = IF policy = Unset THEN BootPolicy ELSE policy
  /\ UNCHANGED <<attention, facts, life, resetting, excused>>

-----------------------------------------------------------------------------
(* The operator edits the matrix.                                          *)

\* saveRoutingMatrixRow and applyRowMutation, for a draft of the current
\* revision (any other draft is refused and changes nothing). Attention is
\* listed and acknowledged for the current revision only.
SaveRow(s, sel) ==
  /\ policy # Unset
  /\ GlobalUnavailable => s = Global
  /\ acceptsRow(s, sel)
  /\ policy' = [policy EXCEPT ![s] = sel]
  /\ attention' = {}
  /\ excused' = {r \in excused : Overridden(r)'}
  /\ UNCHANGED <<facts, life, booting, resetting>>

\* acknowledgeMatrixAttention.
Acknowledge(item) ==
  /\ item \in attention
  /\ attention' = attention \ {item}
  /\ UNCHANGED <<policy, facts, life, booting, resetting, excused>>

-----------------------------------------------------------------------------
(* Scans. CatalogReconciliation models how an outcome comes about.         *)

RoutesOf(c) == {r \in Routes : ConnOf[r] = c}

\* A successful scan replaces the connection's rows. Routes of models it no
\* longer reports are not reset.
ScanSucceeds(c, reported) ==
  /\ life[c] = "active" /\ resetting \cap RoutesOf(c) = {}
  /\ \A r \in RoutesOf(c) : reported[r] \in Offers[r] \cup {Absent}
  /\ facts' = [r \in Routes |-> IF r \in RoutesOf(c) THEN reported[r] ELSE facts[r]]
  /\ excused' = {r \in excused : facts'[r] = Absent}
                \cup {r \in RoutesOf(c) : Overridden(r) /\ facts'[r] = Absent /\ facts[r] # Absent}
  /\ UNCHANGED <<policy, attention, life, booting, resetting>>

\* A failed scan removes the rows in one commit and asks for the reset of the
\* routes it removed; it holds the connection's claim until that is done, so
\* no other scan brings them back, and without a row no draft can name them:
\* only the routes overridden now matter. Bound: one reset at a time.
ScanFails(c) ==
  /\ life[c] = "active" /\ resetting = {}
  /\ resetting' = {r \in RoutesOf(c) : Overridden(r) /\ facts[r] # Absent}
  /\ facts' = [r \in Routes |-> IF r \in RoutesOf(c) THEN Absent ELSE facts[r]]
  /\ UNCHANGED <<policy, attention, life, booting, excused>>

\* The overrides a reset drops.
\* Mutant: a selector counts as affected by its primary route only.
affectedPrimary ==
  IF policy = Unset THEN {}
  ELSE {s \in Scopes \ {Global} : Explicit(policy, s) /\ policy[s].route \in resetting}
affected ==
  IF policy = Unset THEN {}
  ELSE {s \in Scopes \ {Global} :
          Explicit(policy, s) /\ referencedRoutes(policy[s]) \cap resetting # {}}

\* resetUnavailableRoutes: the affected overrides are dropped in one revision
\* with its attention; without an affected override there is no revision.
Reset ==
  /\ resetting # {}
  /\ resetting' = {}
  /\ policy' = IF policy = Unset THEN Unset
               ELSE [s \in Scopes |-> IF s \in affected THEN Inherit ELSE policy[s]]
  /\ attention' =
       IF affected = {} THEN attention
       ELSE UNION {{[scope |-> s, route |-> r] :
                      r \in referencedRoutes(policy[s]) \cap resetting} : s \in affected}
  /\ UNCHANGED <<facts, life, booting, excused>>

\* The process dies after the catalog commit, or the revision it read is no
\* longer current (ROUTING_POLICY_CONFLICT, a result nobody looks at).
ResetLost ==
  /\ resetting # {}
  /\ resetting' = {}
  /\ excused' = excused \cup {r \in resetting : Overridden(r)}
  /\ UNCHANGED <<policy, attention, facts, life, booting>>

-----------------------------------------------------------------------------
(* Connections. ProviderConnections models their secrets.                  *)

Revoke(c) ==
  /\ life[c] \in {"active", "revoked"}
  /\ life' = [life EXCEPT ![c] = "revoked"]
  /\ UNCHANGED <<policy, attention, facts, booting, resetting, excused>>
Reactivate(c) ==
  /\ life[c] = "revoked"
  /\ life' = [life EXCEPT ![c] = "active"]
  /\ UNCHANGED <<policy, attention, facts, booting, resetting, excused>>
\* deleteConnection asks the connection's dependency rows, which nothing
\* writes, and not the routing policy; catalog rows and overrides stay.
Delete(c) ==
  /\ life[c] # "deleted"
  /\ life' = [life EXCEPT ![c] = "deleted"]
  /\ UNCHANGED <<policy, attention, facts, booting, resetting, excused>>

Edit == \E s \in Scopes : \E sel \in Selector \cup {Inherit} : SaveRow(s, sel)
Scan ==
  \/ \E c \in Conns : \E reported \in [RoutesOf(c) -> Grades \cup {Absent}] :
       /\ c \notin Fragile => \A r \in RoutesOf(c) : reported[r] # Absent
       /\ ScanSucceeds(c, reported)
  \/ \E c \in Fragile : ScanFails(c)

Next ==
  \/ BootRead \/ BootCommit
  \/ Edit
  \/ \E item \in attention : Acknowledge(item)
  \/ Scan
  \/ Reset \/ ResetLost
  \/ \E c \in Fragile : Revoke(c) \/ Reactivate(c) \/ Delete(c)

Spec == Init /\ [][Next]_vars

-----------------------------------------------------------------------------
(* Properties.                                                             *)

\* However the catalog and the connections change after a save, an action
\* that is not planned is refused because of a route it needs: the resolver
\* never meets a policy it calls invalid (no Global, or an override that
\* hands a failed attempt back to the route that failed, which a later change
\* of Global could bring about).
PolicyStaysValid == policy # Unset => \A a \in Actions : resolvePolicy(a) # "invalid"

\* The moment an edit is accepted, every action resolves, those that other
\* rows decide included.
OnlyPolicyChanges == policy' # policy /\ UNCHANGED <<facts, life, booting, resetting>>
EditLeavesAllResolvable ==
  [][(policy # Unset /\ OnlyPolicyChanges) =>
       \A a \in Actions : resolvePolicy(a)' = "planned"]_vars

\* Once it is set, Global changes only by an edit of the Global row: neither
\* a launch that lost the race to write the first policy nor a reset moves it.
GlobalIsTheOperators ==
  [][(policy # Unset /\ policy' # policy /\ policy'[Global] # policy[Global]) =>
       /\ OnlyPolicyChanges
       /\ \A s \in Scopes \ {Global} : policy'[s] = policy[s]]_vars

\* An override names a route without a catalog row only while the reset of a
\* failed scan is under way, or where no reset comes: the model was dropped
\* by a successful scan, or the reset was lost.
DanglingOverrideIsExplained ==
  \A r \in Routes :
    (Overridden(r) /\ facts[r] = Absent) => r \in resetting \cup excused
=============================================================================
