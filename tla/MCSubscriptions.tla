--------------------------- MODULE MCSubscriptions ---------------------------
(* Model-checking instance of Subscriptions: users ann and ben, a site anyone *)
(* may share, and uploads and a repository that are silos of ann.  A          *)
(* behaviour starts with no source, or after calls that ended: ann registered *)
(* a source, and ben joined it or was added.  It is about one source at a     *)
(* time, for only an offboarding goes from one to the next.                   *)
EXTENDS Subscriptions, TLC

CONSTANTS ann, ben, pool, silo, repo

MCkind == [s \in Source |-> CASE s = pool -> "url" [] s = silo -> "files" [] s = repo -> "git"]
MCsiloOf == [s \in Source |-> IF s = pool THEN None ELSE ann]

Known(scope, n) ==
  [NoRow EXCEPT !.here = TRUE, !.enabled = TRUE, !.scope = scope, !.creator = ann,
                !.count = n, !.runtime = TRUE]

World(s, scope, others) ==
  /\ row = [r \in Source |-> IF r = s THEN Known(scope, 1 + Cardinality(others)) ELSE NoRow]
  /\ grant = [p \in User \X Source |->
       IF p[2] # s \/ p[1] \notin others \cup {ann} THEN None
       ELSE Put(IF p[1] = ann \/ scope = "public" THEN scope ELSE "member")]
  /\ service = {s}
  /\ hidden = IF scope = "private" THEN {s} ELSE {}

MCInit ==
  /\ \/ /\ row = [s \in Source |-> NoRow]
        /\ grant = [p \in User \X Source |-> None]
        /\ service = {} /\ hidden = {}
     \/ World(pool, "public", {ben})
     \/ \E scope \in Scope, others \in SUBSET {ben} : World(silo, scope, others)
  /\ key = [k \in Key |-> [owner |-> None, status |-> "unborn", pointed |-> FALSE]]
  /\ deleted = {} /\ gone = {}
  /\ call = [q \in Call |-> Idle]
  /\ begun = 0 /\ faults = MaxFaults
  /\ torn = {} /\ raced = {} /\ strayed = {}
  /\ emptied = {}

MCSpec == MCInit /\ [][Next]_vars

OneSource ==
  Cardinality({s \in Source : row[s].here \/ \E q \in Call : call[q].src = s}) <= 1

Symmetry == Permutations(Call) \cup Permutations(Key)

=============================================================================
