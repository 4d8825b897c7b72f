---------------------------- MODULE FallbackSearch ----------------------------
(***************************************************************************)
(* The depth-first search of hasFallbackCycle, as it is written: two sets  *)
(* that all calls of visit share, a search from every route with an edge,  *)
(* and an early return that leaves both sets as they are.  RoutingPolicy   *)
(* says what the search is to find; here is how.                           *)
(***************************************************************************)
EXTENDS RoutingPolicy

\* The sets visiting and visited, and whether a visit has returned true.
Begun == [visiting |-> {}, visited |-> {}, cycle |-> FALSE]

\* Mutant: the route stays among those being visited.
leaveOpen(st, r) == [st EXCEPT !.visited = @ \cup {r}]
leave(st, r) == [st EXCEPT !.visiting = @ \ {r}, !.visited = @ \cup {r}]

targets(E, r) == {e[2] : e \in {d \in E : d[1] = r}}

RECURSIVE visit(_, _, _)
RECURSIVE visitSome(_, _, _)

\* visit: the states it may end in, in whatever order the maps and sets of the
\* code list the routes.
visit(E, r, st) ==
  IF r \in st.visiting THEN {[st EXCEPT !.cycle = TRUE]}
  ELSE IF r \in st.visited THEN {st}
  ELSE {IF s.cycle THEN s ELSE leave(s, r) :
          s \in visitSome(E, targets(E, r), [st EXCEPT !.visiting = @ \cup {r}])}

\* The loop over the targets, and the one over the keys, until one is true.
visitSome(E, R, st) ==
  IF R = {} \/ st.cycle THEN {st}
  ELSE UNION {UNION {visitSome(E, R \ {r}, s) : s \in visit(E, r, st)} : r \in R}

\* What the search answers for the edges E.
answers(E) == {s.cycle : s \in visitSome(E, {e[1] : e \in E}, Begun)}

-----------------------------------------------------------------------------
\* The drafts that pass everything the store checks before the search.
Drafts ==
  {d \in Scopes \X (Selector \cup {Inherit}) :
     validateDraft(d[1], d[2]) /\ validateMutation([policy EXCEPT ![d[1]] = d[2]])}

\* Whatever policy is current and whichever row is edited next, the store's
\* depth-first search refuses the edit exactly if the overrides would hand a
\* failed attempt round in a circle, through reroute_global or not: it neither
\* misses a cycle nor takes two ways to one route for a cycle.
SearchFindsCycles ==
  policy # Unset =>
    \A d \in Drafts : LET next == [policy EXCEPT ![d[1]] = d[2]]
                      IN  answers(edges(next)) = {hasFallbackCycle(next)}
=============================================================================
