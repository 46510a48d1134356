----------------------------- MODULE GroupServing -----------------------------
(***************************************************************************)
(* What a source group promises whoever queries it, without builds in      *)
(* progress, workers, leases or timeouts: it serves at most one build, a   *)
(* build starts to be served in one instant, at the configuration revision *)
(* and the source versions that are current at that instant, and a build   *)
(* that has ended, by being served or otherwise, is never served again.    *)
(* docs/source-groups.md:105-111; GroupBuild implements it.                *)
(***************************************************************************)
EXTENDS Naturals

CONSTANTS
  Sources,   \* registry rows that may be members of the group
  Builds,    \* build ids
  None       \* no build

VARIABLES
  revision,   \* the group's configuration revision
  members,    \* its sources
  deleted,    \* whether the group is tombstoned
  published,  \* source -> its current version
  served,     \* what a query is answered from
  ended       \* builds that have ended

vars == <<revision, members, deleted, published, served, ended>>

Nothing == [build |-> None, revision |-> 0, versions |-> [s \in {} |-> 0]]

Init ==
  /\ revision = 1
  /\ members \subseteq Sources
  /\ deleted = FALSE
  /\ published = [s \in Sources |-> 1]
  /\ served = Nothing
  /\ ended = {}

(* An edit, a membership change or the deletion: all of them are revisions. *)
Revise ==
  /\ ~deleted
  /\ revision' = revision + 1
  /\ members' \in SUBSET Sources
  /\ deleted' \in BOOLEAN
  /\ UNCHANGED <<published, served, ended>>

Publish(s) ==
  /\ published' = [published EXCEPT ![s] = @ + 1]
  /\ UNCHANGED <<revision, members, deleted, served, ended>>

(* Build b becomes what the group serves.                                   *)
Serve(b) ==
  /\ ~deleted
  /\ b \notin ended
  /\ served' = [build |-> b, revision |-> revision,
                versions |-> [s \in members |-> published[s]]]
  /\ ended' = ended \cup {b}
  /\ UNCHANGED <<revision, members, deleted, published>>

(* Build b fails, or is given up.                                           *)
End(b) ==
  /\ b \notin ended
  /\ ended' = ended \cup {b}
  /\ UNCHANGED <<revision, members, deleted, published, served>>

Next ==
  \/ Revise
  \/ \E s \in Sources : Publish(s)
  \/ \E b \in Builds : Serve(b) \/ End(b)

Spec == Init /\ [][Next]_vars

=============================================================================
