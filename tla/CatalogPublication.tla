-------------------------- MODULE CatalogPublication --------------------------
(***************************************************************************)
(* What the model catalog promises its two kinds of readers.               *)
(*                                                                         *)
(* The connection list and the state shown beside a connection go through  *)
(* the ledger (`pub'): a connection is unknown until a first outcome,      *)
(* pending while a scan runs, and then either available with the models of *)
(* one answer, empty, or failed with nothing left to select.               *)
(*                                                                         *)
(* The routing resolver, the routing editor's choices and the model list   *)
(* read the stored models alone (`listed'). They are not protected from    *)
(* the commits of an outcome: while the others wait for it they see the    *)
(* models of the previous answer, or already those of the next. But what   *)
(* is published is what they see, from then until the next claim.          *)
(***************************************************************************)
CONSTANTS Conns, Models

VARIABLES pub, listed

Unknown == [state |-> "unknown", shown |-> {}]
Pending == [state |-> "pending", shown |-> {}]
Failed == [state |-> "failed", shown |-> {}]
Ready(S) == [state |-> IF S = {} THEN "empty" ELSE "available", shown |-> S]

Outcomes == {Failed} \cup {Ready(S) : S \in SUBSET Models}

PubInit ==
  /\ listed \in [Conns -> SUBSET Models]
  /\ pub \in [Conns -> {Unknown, Pending} \cup Outcomes]
  /\ \A c \in Conns : pub[c] \in Outcomes => pub[c].shown = listed[c]

(* A scan attempt claims the connection: what was published is withdrawn,  *)
(* but still listed.                                                       *)
Claim(c) ==
  /\ pub[c] # Pending
  /\ pub' = [pub EXCEPT ![c] = Pending]
  /\ UNCHANGED listed

(* The stored models are replaced ahead of the outcome they belong to.     *)
Replace(c, S) ==
  /\ pub[c] \in {Unknown, Pending}
  /\ listed' = [listed EXCEPT ![c] = S]
  /\ UNCHANGED pub

(* The attempt, or evidence of an older one, is published: as listed.      *)
Publish(c, o) ==
  /\ pub[c] \in {Unknown, Pending} /\ o.shown = listed[c]
  /\ pub' = [pub EXCEPT ![c] = o]
  /\ UNCHANGED listed

PubNext ==
  \E c \in Conns :
    \/ Claim(c)
    \/ \E S \in SUBSET Models : Replace(c, S)
    \/ \E o \in Outcomes : Publish(c, o)

PubSpec == PubInit /\ [][PubNext]_<<pub, listed>>
=============================================================================
