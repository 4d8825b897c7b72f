---------------------------- MODULE RoutingProofs ----------------------------
(***************************************************************************)
(* Proofs about RoutingPolicy, for any registry, any routes over any       *)
(* connections and any catalog.                                            *)
(***************************************************************************)
EXTENDS RoutingPolicy, TLAPS

Overrides(p) == {s \in Scopes \ {Global} : Explicit(p, s)}

(* A policy without cycle among its hand-offs. *)
Ends(p) ==
  \A S \in SUBSET Routes : S # {} => \E r \in S : \A t \in S : <<r, t>> \notin edges(p)

(* Hand-offs of one override after another never lead back to a route that *)
(* was tried: hasFallbackCycle refuses an edit that would close a circle.  *)
FallbacksEnd == policy # Unset => Ends(policy)

(* Every policy names a Global, which fails immediately. *)
GlobalSet == policy # Unset => Explicit(policy, Global) /\ policy[Global].onFail = Fail

RoutingInv ==
  TypeOK /\ GlobalSet /\ FallbacksEnd /\ DanglingOverrideIsExplained

-----------------------------------------------------------------------------
(* Facts about selectors and edges.                                        *)

LEMMA SelectorFacts ==
  ASSUME NEW p \in Policies, NEW s \in Scopes, Explicit(p, s)
  PROVE  /\ p[s] \in Selector /\ p[s].route \in Routes
         /\ referencedRoutes(p[s]) \subseteq Routes
BY DEF Policies, Selector, Explicit, referencedRoutes

LEMMA EdgeFacts ==
  ASSUME NEW p, NEW r, NEW t
  PROVE  <<r, t>> \in edges(p) <=>
           \E s \in Overrides(p) : r = p[s].route /\ t \in fallbackOf(p, s)
BY DEF edges, Overrides

(* Fewer edges close no cycle. *)
LEMMA EndsIsMonotone ==
  ASSUME NEW p, NEW q, Ends(p), edges(q) \subseteq edges(p)
  PROVE  Ends(q)
BY DEF Ends

(* hasFallbackCycle finds every cycle. *)
LEMMA CycleCheck ==
  ASSUME NEW p, ~hasFallbackCycle(p)
  PROVE  Ends(p)
BY DEF hasFallbackCycle, Ends

(* A policy without cycle hands no failed attempt back to its own route. *)
LEMMA NoSelfFallback ==
  ASSUME NEW p \in Policies, Ends(p), NEW s \in Overrides(p)
  PROVE  p[s].route \notin fallbackOf(p, s)
<1>1. p[s].route \in Routes
  BY SelectorFacts DEF Overrides
<1>2. <<p[s].route, p[s].route>> \notin edges(p)
  <2>1. {p[s].route} \in SUBSET Routes
    BY <1>1
  <2>2. PICK r \in {p[s].route} : \A t \in {p[s].route} : <<r, t>> \notin edges(p)
    BY <2>1 DEF Ends
  <2> QED
    BY <2>2
<1> QED
  BY <1>2, EdgeFacts

(* Of a policy with a Global and no cycle the resolver makes a plan, or    *)
(* refuses a route.                                                        *)
LEMMA Resolvable ==
  ASSUME RoutingInv, policy # Unset, NEW a \in Actions
  PROVE  resolvePolicy(a) # "invalid"
<1>1. policy \in Policies /\ Ends(policy) /\ Explicit(policy, Global)
  BY DEF RoutingInv, TypeOK, FallbacksEnd, Ends, GlobalSet
<1> DEFINE s == SelectedScope(a)
<1>2. s # Global => s \in Overrides(policy)
  BY RegistryAssumption DEF SelectedScope, Overrides, Scopes
<1>3. policy[s].route \notin Recovery(a)
  BY <1>1, <1>2, NoSelfFallback DEF Recovery
<1> QED
  BY <1>1, <1>3 DEF resolvePolicy

-----------------------------------------------------------------------------
(* The steps.                                                              *)

LEMMA InitHolds == Init => RoutingInv
BY CatalogAssumption DEF Init, RoutingInv, TypeOK, GlobalSet, FallbacksEnd, Ends,
   DanglingOverrideIsExplained, Overridden

(* Steps that leave the policy alone. *)
LEMMA PolicyKept ==
  ASSUME RoutingInv, TypeOK', UNCHANGED policy,
         \A r \in Routes : (Overridden(r) /\ facts'[r] = Absent) => r \in resetting' \cup excused'
  PROVE  RoutingInv'
BY DEF RoutingInv, GlobalSet, FallbacksEnd, Ends, DanglingOverrideIsExplained, Overridden

LEMMA BootHolds ==
  ASSUME RoutingInv, BootRead \/ BootCommit
  PROVE  RoutingInv'
<1> USE DEF RoutingInv
<1>0. booting' \in 0..MaxLaunches /\ UNCHANGED <<attention, facts, life, resetting, excused>>
  BY CatalogAssumption DEF BootRead, BootCommit, TypeOK
<1>1. CASE UNCHANGED policy
  BY <1>0, <1>1, PolicyKept DEF TypeOK, DanglingOverrideIsExplained
<1>2. CASE policy' = BootPolicy
  <2>1. /\ BootPolicy \in Policies /\ BootPolicy[Global] = [route |-> BootRoute, onFail |-> Fail]
        /\ \A s \in Scopes \ {Global} : BootPolicy[s] = Inherit
    BY CatalogAssumption DEF BootPolicy, Policies, Selector, Scopes
  <2>2. Explicit(BootPolicy, Global) /\ BootPolicy[Global].onFail = Fail
    BY <2>1, CatalogAssumption, AbsenceAssumption DEF Explicit, Selector
  <2>3. Overrides(BootPolicy) = {}
    BY <2>1 DEF Overrides, Explicit
  <2>4. edges(BootPolicy) = {}
    BY <2>3 DEF edges, Overrides
  <2>5. FallbacksEnd'
    BY <1>2, <2>4 DEF FallbacksEnd, Ends
  <2>6. DanglingOverrideIsExplained'
    BY <1>2, <2>3 DEF DanglingOverrideIsExplained, Overridden, Overrides
  <2> QED
    BY <1>0, <1>2, <2>1, <2>2, <2>5, <2>6 DEF TypeOK, GlobalSet
<1> QED
  BY <1>1, <1>2 DEF BootRead, BootCommit

(* What an accepted edit leads to. *)
LEMMA EditFacts ==
  ASSUME RoutingInv, NEW s \in Scopes, NEW sel \in Selector \cup {Inherit}, SaveRow(s, sel)
  PROVE  /\ policy' \in Policies /\ policy' # Unset
         /\ validateMutation(policy') /\ Ends(policy')
         /\ \A u \in Scopes \ {s} : policy'[u] = policy[u]
         /\ UNCHANGED <<facts, life, booting, resetting>>
<1>1. policy \in Policies
  BY DEF RoutingInv, TypeOK, SaveRow
<1>2. policy' = [policy EXCEPT ![s] = sel]
  BY DEF SaveRow
<1>3. policy' \in Policies /\ \A u \in Scopes \ {s} : policy'[u] = policy[u]
  BY <1>1, <1>2 DEF Policies
<1>4. validateMutation(policy') /\ ~hasFallbackCycle(policy')
  BY <1>2 DEF SaveRow, acceptsRow
<1> QED
  BY <1>3, <1>4, CycleCheck, AbsenceAssumption DEF SaveRow

(* Every route an accepted edit leaves in the policy is in the catalog. *)
LEMMA AcceptedIsUsable ==
  ASSUME NEW p \in Policies, validateMutation(p), NEW s \in Scopes, Explicit(p, s),
         NEW r \in referencedRoutes(p[s])
  PROVE  Usable(r)
BY SelectorFacts DEF validateMutation, validateSelector, validateRoute, referencedRoutes

LEMMA EditHolds ==
  ASSUME RoutingInv, NEW s \in Scopes, NEW sel \in Selector \cup {Inherit}, SaveRow(s, sel)
  PROVE  RoutingInv'
<1> USE DEF RoutingInv
<1>1. /\ policy' \in Policies /\ policy' # Unset
      /\ validateMutation(policy') /\ Ends(policy')
      /\ UNCHANGED <<facts, life, booting, resetting>>
  BY EditFacts
<1>2. TypeOK'
  BY <1>1 DEF SaveRow, TypeOK
<1>3. GlobalSet'
  BY <1>1 DEF GlobalSet, validateMutation
<1>4. FallbacksEnd'
  BY <1>1 DEF FallbacksEnd, Ends
<1>5. DanglingOverrideIsExplained'
  <2> SUFFICES ASSUME NEW r \in Routes, Overridden(r)', facts'[r] = Absent PROVE FALSE
    BY DEF DanglingOverrideIsExplained
  <2>1. PICK u \in Scopes \ {Global} : Explicit(policy', u) /\ r \in referencedRoutes(policy'[u])
    BY DEF Overridden
  <2>2. Usable(r)
    BY <1>1, <2>1, AcceptedIsUsable
  <2> QED
    BY <1>1, <2>2 DEF Usable
<1> QED
  BY <1>2, <1>3, <1>4, <1>5

LEMMA ScanHolds ==
  ASSUME RoutingInv, Scan
  PROVE  RoutingInv'
<1> USE DEF RoutingInv
<1>1. ASSUME NEW c \in Conns, NEW reported \in [RoutesOf(c) -> Grades \cup {Absent}],
             ScanSucceeds(c, reported)
      PROVE  RoutingInv'
  <2>1. TypeOK'
    BY <1>1 DEF ScanSucceeds, TypeOK, RoutesOf
  <2>2. ASSUME NEW r \in Routes, Overridden(r), facts'[r] = Absent
        PROVE  r \in resetting' \cup excused'
    <3>1. facts[r] = Absent => r \in resetting \cup excused
      BY <2>2 DEF DanglingOverrideIsExplained
    <3>2. r \notin RoutesOf(c) => facts'[r] = facts[r]
      BY <1>1 DEF ScanSucceeds
    <3> QED
      BY <1>1, <2>2, <3>1, <3>2 DEF ScanSucceeds
  <2> QED
    BY <1>1, <2>1, <2>2, PolicyKept DEF ScanSucceeds
<1>2. ASSUME NEW c \in Fragile, ScanFails(c)
      PROVE  RoutingInv'
  <2>1. TypeOK'
    BY <1>2 DEF ScanFails, TypeOK, RoutesOf
  <2>2. ASSUME NEW r \in Routes, Overridden(r), facts'[r] = Absent
        PROVE  r \in resetting' \cup excused'
    BY <1>2, <2>2 DEF ScanFails, DanglingOverrideIsExplained
  <2> QED
    BY <1>2, <2>1, <2>2, PolicyKept DEF ScanFails
<1> QED
  BY <1>1, <1>2 DEF Scan

LEMMA ResetHolds ==
  ASSUME RoutingInv, Reset
  PROVE  RoutingInv'
<1> USE DEF RoutingInv
<1>0. resetting' = {} /\ UNCHANGED <<facts, life, booting, excused>>
  BY DEF Reset
<1>1. attention' \subseteq Attention
  <2>1. ASSUME NEW s \in affected, NEW r \in referencedRoutes(policy[s]) \cap resetting
        PROVE  [scope |-> s, route |-> r] \in Attention
    BY <2>1 DEF affected, TypeOK, Attention, Scopes
  <2> QED
    BY <2>1 DEF Reset, TypeOK
<1>2. CASE policy = Unset
  <2>1. policy' = Unset
    BY <1>2 DEF Reset
  <2> QED
    BY <1>0, <1>1, <1>2, <2>1 DEF TypeOK, GlobalSet, FallbacksEnd, Ends, DanglingOverrideIsExplained,
       Overridden
<1>3. CASE policy # Unset
  <2>1. policy \in Policies
    BY <1>3 DEF TypeOK
  <2>2. policy' = [s \in Scopes |-> IF s \in affected THEN Inherit ELSE policy[s]]
    BY <1>3 DEF Reset
  <2>3. policy' \in Policies /\ policy' # Unset
    BY <2>1, <2>2, AbsenceAssumption DEF Policies
  <2>4. policy'[Global] = policy[Global]
    BY <1>3, <2>2 DEF affected, Scopes
  <2>5. ASSUME NEW s \in Overrides(policy')
        PROVE  s \in Overrides(policy) /\ policy'[s] = policy[s] /\ s \notin affected
    BY <2>2, <2>5 DEF Overrides, Explicit
  <2>6. edges(policy') \subseteq edges(policy)
    BY <2>4, <2>5 DEF edges, Overrides, fallbackOf
  <2>7. FallbacksEnd'
    BY <1>3, <2>6, EndsIsMonotone DEF FallbacksEnd, Ends
  <2>8. DanglingOverrideIsExplained'
    <3> SUFFICES ASSUME NEW r \in Routes, Overridden(r)', facts'[r] = Absent
                 PROVE  r \in excused
      BY <1>0 DEF DanglingOverrideIsExplained
    <3>1. PICK s \in Overrides(policy') : r \in referencedRoutes(policy'[s])
      BY DEF Overridden, Overrides
    <3>2. Overridden(r) /\ r \notin resetting
      BY <1>3, <2>5, <3>1 DEF Overridden, Overrides, affected
    <3> QED
      BY <1>0, <3>2 DEF DanglingOverrideIsExplained
  <2>9. TypeOK'
    BY <1>0, <1>1, <2>3 DEF TypeOK
  <2>10. GlobalSet'
    BY <1>3, <2>4 DEF GlobalSet, Explicit
  <2> QED
    BY <2>7, <2>8, <2>9, <2>10
<1> QED
  BY <1>2, <1>3

(* Steps that touch the policy neither directly nor through the catalog. *)
LEMMA OtherHolds ==
  ASSUME RoutingInv,
         \/ \E item \in attention : Acknowledge(item)
         \/ ResetLost
         \/ \E c \in Fragile : Revoke(c) \/ Reactivate(c) \/ Delete(c)
  PROVE  RoutingInv'
<1> USE DEF RoutingInv
<1>1. CASE \E item \in attention : Acknowledge(item)
  BY <1>1, PolicyKept DEF Acknowledge, TypeOK, DanglingOverrideIsExplained
<1>2. CASE ResetLost
  BY <1>2, PolicyKept DEF ResetLost, TypeOK, DanglingOverrideIsExplained
<1>3. CASE \E c \in Fragile : Revoke(c) \/ Reactivate(c) \/ Delete(c)
  <2>1. TypeOK'
    BY <1>3, CatalogAssumption DEF Revoke, Reactivate, Delete, TypeOK
  <2> QED
    BY <1>3, <2>1, PolicyKept DEF Revoke, Reactivate, Delete, DanglingOverrideIsExplained
<1> QED
  BY <1>1, <1>2, <1>3

LEMMA Invariance == Spec => []RoutingInv
<1>1. RoutingInv /\ [Next]_vars => RoutingInv'
  <2> SUFFICES ASSUME RoutingInv, [Next]_vars PROVE RoutingInv'
    OBVIOUS
  <2>1. CASE BootRead \/ BootCommit
    BY <2>1, BootHolds
  <2>2. CASE Edit
    BY <2>2, EditHolds DEF Edit
  <2>3. CASE Scan
    BY <2>3, ScanHolds
  <2>4. CASE Reset
    BY <2>4, ResetHolds
  <2>5. CASE \/ \E item \in attention : Acknowledge(item)
             \/ ResetLost
             \/ \E c \in Fragile : Revoke(c) \/ Reactivate(c) \/ Delete(c)
    BY <2>5, OtherHolds
  <2>6. CASE UNCHANGED vars
    BY <2>6 DEF vars, RoutingInv, TypeOK, GlobalSet, FallbacksEnd, Ends, DanglingOverrideIsExplained,
       Overridden
  <2> QED
    BY <2>1, <2>2, <2>3, <2>4, <2>5, <2>6 DEF Next
<1> QED
  BY InitHolds, <1>1, PTL DEF Spec

-----------------------------------------------------------------------------
(* Policy, catalog and connections have their types. *)
THEOREM RoutingTypeCorrect == Spec => []TypeOK
BY Invariance, PTL DEF RoutingInv

(* AgentRoutingResolver never meets a policy it calls invalid: a launch is *)
(* planned, or refused because of a route.                                 *)
THEOREM NeverInvalid == Spec => []PolicyStaysValid
<1>1. RoutingInv => PolicyStaysValid
  BY Resolvable DEF PolicyStaysValid
<1> QED
  BY Invariance, <1>1, PTL

(* An override of a route without catalog row has a reset under way, or    *)
(* one of the two known reasons why none comes.                            *)
THEOREM DanglingExplained == Spec => []DanglingOverrideIsExplained
BY Invariance, PTL DEF RoutingInv

(* The steps that change a policy that was set. *)
LEMMA PolicyChanges ==
  ASSUME RoutingInv, Next, policy # Unset, policy' # policy
  PROVE  \/ \E s \in Scopes : \E sel \in Selector \cup {Inherit} : SaveRow(s, sel)
         \/ Reset
BY DEF Next, BootRead, BootCommit, Edit, Acknowledge, Scan, ScanSucceeds, ScanFails, ResetLost,
   Revoke, Reactivate, Delete

(* Only an edit of the Global row changes Global once it is set: neither   *)
(* a late first launch nor a reset overwrites the operator's choice.       *)
THEOREM GlobalBelongsToOperator == Spec => GlobalIsTheOperators
<1> DEFINE A == (policy # Unset /\ policy' # policy /\ policy'[Global] # policy[Global]) =>
                  /\ OnlyPolicyChanges
                  /\ \A s \in Scopes \ {Global} : policy'[s] = policy[s]
<1>1. RoutingInv /\ [Next]_vars => [A]_vars
  <2> SUFFICES ASSUME RoutingInv, Next, policy # Unset, policy' # policy,
                      policy'[Global] # policy[Global]
               PROVE  /\ OnlyPolicyChanges
                      /\ \A s \in Scopes \ {Global} : policy'[s] = policy[s]
    OBVIOUS
  <2>1. ~Reset
    BY DEF Reset, affected, Scopes
  <2>2. PICK s \in Scopes : \E sel \in Selector \cup {Inherit} : SaveRow(s, sel)
    BY <2>1, PolicyChanges
  <2>3. /\ \A u \in Scopes \ {s} : policy'[u] = policy[u]
        /\ UNCHANGED <<facts, life, booting, resetting>>
    BY <2>2, EditFacts
  <2>4. s = Global
    BY <2>3 DEF Scopes
  <2> QED
    BY <2>3, <2>4 DEF OnlyPolicyChanges
<1> QED
  BY Invariance, <1>1, PTL DEF Spec, GlobalIsTheOperators

(* What the policy an edit leads to says of every action. *)
LEMMA EditPlans ==
  ASSUME RoutingInv, NEW s \in Scopes, NEW sel \in Selector \cup {Inherit}, SaveRow(s, sel),
         NEW a \in Actions
  PROVE  resolvePolicy(a)' = "planned"
<1> DEFINE p == policy'
           u == IF Explicit(p, a) THEN a ELSE IF Explicit(p, TypeOf[a]) THEN TypeOf[a] ELSE Global
           recovery == IF u = Global THEN {} ELSE fallbackOf(p, u)
<1>1. /\ p \in Policies /\ validateMutation(p) /\ Ends(p)
      /\ UNCHANGED <<facts, life, booting, resetting>>
  BY EditFacts
<1>2. Explicit(p, Global) /\ Explicit(p, u) /\ u \in Scopes /\ a \in entriesForScope(u)
  BY <1>1, RegistryAssumption DEF validateMutation, Scopes, entriesForScope
<1>3. validateRoute(p[u].route, {a}) /\ validateRoute(p[Global].route, {a})
  BY <1>1, <1>2 DEF validateMutation, validateSelector, validateRoute, entriesForScope, Scopes
<1>4. p[u].onFail \in Routes => validateRoute(p[u].onFail, {a})
  BY <1>1, <1>2 DEF validateMutation, validateSelector, validateRoute
<1>5. \A r \in fallbackOf(p, u) : validateRoute(r, {a})
  BY <1>3, <1>4 DEF fallbackOf
<1>6. u # Global => p[u].route \notin fallbackOf(p, u)
  BY <1>1, <1>2, NoSelfFallback DEF Overrides
<1>7. (\A r \in recovery : r # p[u].route) /\ \A r \in recovery : validateRoute(r, {a})
  BY <1>5, <1>6
<1> HIDE DEF u, recovery
<1>8. resolvePolicy(a)' =
        IF ~Explicit(p, Global) THEN "invalid"
        ELSE IF ~validateRoute(p[u].route, {a}) THEN "refused"
        ELSE IF \E r \in recovery : r = p[u].route THEN "invalid"
        ELSE IF \E r \in recovery : ~validateRoute(r, {a}) THEN "refused"
        ELSE "planned"
  BY <1>1 DEF resolvePolicy, SelectedScope, Recovery, validateRoute, Usable, Explicit, fallbackOf,
     u, recovery
<1> QED
  BY <1>2, <1>3, <1>7, <1>8

(* The moment an edit is accepted every action resolves, those that other  *)
(* rows than the edited one decide included.                               *)
THEOREM EditsAreResolvable == Spec => EditLeavesAllResolvable
<1>1. RoutingInv /\ [Next]_vars =>
        [(policy # Unset /\ OnlyPolicyChanges) =>
           \A a \in Actions : resolvePolicy(a)' = "planned"]_vars
  <2> SUFFICES ASSUME RoutingInv, Next, policy # Unset, OnlyPolicyChanges, NEW a \in Actions
               PROVE  resolvePolicy(a)' = "planned"
    OBVIOUS
  <2>1. ~Reset
    BY DEF Reset, OnlyPolicyChanges
  <2>2. PICK s \in Scopes : \E sel \in Selector \cup {Inherit} : SaveRow(s, sel)
    BY <2>1, PolicyChanges DEF OnlyPolicyChanges
  <2> QED
    BY <2>2, EditPlans
<1> QED
  BY Invariance, <1>1, PTL DEF Spec, EditLeavesAllResolvable
=============================================================================
