--------------------------- MODULE GroupBuildProofs ---------------------------
(***************************************************************************)
(* What MCGroupBuild checks on small instances, proved for every number of *)
(* users, sources, workers, keys, versions and revisions and all leases.   *)
(***************************************************************************)
EXTENDS GroupBuild, TLAPS

-----------------------------------------------------------------------------
(* The inductive invariant: what Typed leaves open to be inductive, which *)
(* is that whoever names a build names one that has a ledger row.          *)

RequestNamed(u) ==
  /\ req[u].op \in {"rebuild", "invoke", "unconfirmed", "unrecorded"} => req[u].key \in Keys
  /\ req[u].op \in {"invoke", "unconfirmed", "unrecorded"} => Requested(u) \in DOMAIN ledger

WorkerNamed(w) == worker[w].pc # "idle" => worker[w].build \in DOMAIN ledger

TInv ==
  /\ Typed
  /\ meta.status = "BUILDING" => meta.build_id \in DOMAIN ledger
  /\ \A u \in Users : RequestNamed(u)
  /\ \A w \in Workers : WorkerNamed(w)

-----------------------------------------------------------------------------
(* Lemmas about the operators.                                              *)

(* The versions of some sources are a function the ledger can pin.          *)
LEMMA CurrentIsPins ==
  ASSUME registry \in [Sources -> [version : 1..MaxVersion, usable : BOOLEAN]],
         NEW S \in SUBSET Sources
  PROVE  Current(S) \in Pins /\ DOMAIN Current(S) = S
  <1>1. Current(S) \in [S -> 1..MaxVersion]
    BY DEF Current
  <1> QED BY <1>1 DEF Pins, Current

LEMMA NoPinsIsPins == NoPins \in Pins
  <1>1. NoPins \in [{} -> 1..MaxVersion]
    BY DEF NoPins
  <1> QED BY <1>1 DEF Pins

(* A clock stays within its horizon.                                        *)
LEMMA OlderIsAge == ASSUME NEW a \in Ages PROVE Older(a) \in Ages
  BY ConstantsAssumption DEF Ages, Older, Horizon

LEMMA ZeroAndHorizonAreAges == 0 \in Ages /\ Horizon \in Ages
  BY ConstantsAssumption DEF Ages, Horizon

LEMMA ManualIsBuildId ==
  ASSUME NEW u \in Users, NEW k \in Keys PROVE ManualBuild(u, k) \in BuildIds
  BY DEF ManualBuild, BuildIds

LEMMA AutoIsBuildId ==
  ASSUME NEW r \in Revisions, NEW p \in Pins PROVE AutoBuild(r, p) \in BuildIds
  BY DEF AutoBuild, BuildIds

(* A reservation adds one QUEUED row and leaves the others as they were.    *)
LEMMA RecordAdds ==
  ASSUME Typed, NEW b \in BuildIds, NEW u \in Users, NEW p \in Pins,
         Record(b, u, p)
  PROVE  /\ DOMAIN ledger' = DOMAIN ledger \cup {b}
         /\ b \notin DOMAIN ledger
         /\ ledger'[b] = [status |-> "QUEUED", revision |-> meta.revision,
                          requested_by |-> u, source_versions |-> p]
         /\ \A c \in DOMAIN ledger : ledger'[c] = ledger[c]
         /\ ledger' \in [DOMAIN ledger' -> Row]
         /\ artifacts' \in [DOMAIN ledger' -> Objects]
         /\ \A c \in DOMAIN ledger : artifacts'[c] = artifacts[c]
  <1>1. meta.revision \in Revisions
    BY DEF Typed, Meta
  <1>2. [status |-> "QUEUED", revision |-> meta.revision,
         requested_by |-> u, source_versions |-> p] \in Row
    BY <1>1 DEF Row
  <1>3. [files |-> FALSE, graph |-> None, manifest |-> None] \in Objects
    BY DEF Objects
  <1> QED BY <1>2, <1>3 DEF Typed, Record

-----------------------------------------------------------------------------
(* Typed.                                                                  *)

LEMMA InitTInv == Init => TInv
  <1> SUFFICES ASSUME Init PROVE TInv
    OBVIOUS
  <1>1. meta \in Meta
    BY ZeroAndHorizonAreAges, NoPinsIsPins, ConstantsAssumption
    DEF Init, Meta, Revisions
  <1>2. req \in [Users -> Request]
    BY NoPinsIsPins DEF Init, Request, NoRequest
  <1>3. worker \in [Workers -> Execution]
    BY DEF Init, Execution, Idle
  <1>4. registry \in [Sources -> [version : 1..MaxVersion, usable : BOOLEAN]]
    BY ConstantsAssumption DEF Init
  <1>5. DOMAIN ledger = {} /\ ledger \in [DOMAIN ledger -> Row]
    BY DEF Init
  <1>6. artifacts \in [DOMAIN ledger -> Objects]
    BY DEF Init
  <1>7. Typed
    BY <1>1, <1>2, <1>3, <1>4, <1>5, <1>6, ConstantsAssumption DEF Init, Typed
  <1>8. \A u \in Users : RequestNamed(u)
    BY DEF Init, RequestNamed, NoRequest
  <1>9. \A w \in Workers : WorkerNamed(w)
    BY DEF Init, WorkerNamed, Idle
  <1>10. meta.status # "BUILDING"
    BY DEF Init
  <1> QED BY <1>7, <1>8, <1>9, <1>10 DEF TInv

(* What the names need of a step: no row goes away, and whoever starts   *)
(* naming a build names one that has a row.                              *)
LEMMA NamesKept ==
  ASSUME TInv, NEW u \in Users, DOMAIN ledger \subseteq DOMAIN ledger',
         req' = [req EXCEPT ![u] = req'[u]], RequestNamed(u)', worker' = worker,
         meta'.status = "BUILDING" => meta'.build_id \in DOMAIN ledger', Typed'
  PROVE  TInv'
  <1>1. ASSUME NEW v \in Users PROVE RequestNamed(v)'
    <2>1. CASE v = u
      BY <2>1
    <2>2. CASE v # u
      <3>1. req'[v] = req[v]
        BY <2>2 DEF TInv, Typed
      <3> QED BY <3>1 DEF TInv, RequestNamed, Requested, ManualBuild
    <2> QED BY <2>1, <2>2
  <1>2. ASSUME NEW w \in Workers PROVE WorkerNamed(w)'
    BY DEF TInv, WorkerNamed
  <1> QED BY <1>1, <1>2 DEF TInv

LEMMA RevisedIsMeta ==
  ASSUME Typed, NEW u \in Users, meta.revision < MaxRevision
  PROVE  Revised(u) \in Meta /\ Revised(u).status # "BUILDING"
  <1>1. meta.revision + 1 \in Revisions
    BY ConstantsAssumption DEF Typed, Meta, Revisions
  <1> QED BY <1>1 DEF Typed, Meta, Revised

LEMMA DoneClears ==
  ASSUME Typed, NEW u \in Users, Done(u)
  PROVE  /\ req' \in [Users -> Request]
         /\ req' = [req EXCEPT ![u] = req'[u]]
         /\ RequestNamed(u)'
  <1>1. NoRequest \in Request
    BY NoPinsIsPins DEF NoRequest, Request
  <1>2. req' = [req EXCEPT ![u] = NoRequest] /\ req'[u] = NoRequest
    BY DEF Done, Typed
  <1> QED BY <1>1, <1>2 DEF Typed, RequestNamed, NoRequest

LEMMA ApiTInv == ASSUME TInv, NEW u \in Users, Api(u) PROVE TInv'
  <1>r. ASSUME NEW op \in {"edit", "delete", "members", "rebuild"},
               NEW S \in SUBSET Sources, NEW rows \in Pins,
               NEW k \in Keys \cup {None}, op = "rebuild" => k \in Keys,
               Begin(u, op, S, rows, k)
        PROVE  TInv'
    <2> DEFINE new == [op |-> op, revision |-> meta.revision,
                       built |-> meta.active_version # None,
                       sources |-> S, rows |-> rows, key |-> k]
    <2>1. new \in Request
      BY DEF TInv, Typed, Meta, Request
    <2>2. req' = [req EXCEPT ![u] = new] /\ req'[u] = new
      BY <1>r DEF Begin, TInv, Typed
    <2>3. RequestNamed(u)'
      BY <1>r, <2>2 DEF RequestNamed
    <2>4. Typed'
      BY <1>r, <2>1, <2>2 DEF Begin, TInv, Typed
    <2> HIDE DEF new
    <2> QED BY <1>r, <2>2, <2>3, <2>4, NamesKept DEF Begin, TInv
  <1>t. Typed /\ meta.sources \in SUBSET Sources
    BY DEF TInv, Typed, Meta
  <1>p. \A S \in SUBSET Sources : Current(S) \in Pins
    BY <1>t, CurrentIsPins DEF Typed
  <1>1. CASE BeginEdit(u)
    BY <1>1, <1>r, <1>p, NoPinsIsPins DEF BeginEdit
  <1>2. CASE BeginDelete(u)
    BY <1>2, <1>r, <1>t, NoPinsIsPins DEF BeginDelete
  <1>3. CASE BeginMembers(u)
    BY <1>3, <1>r, <1>t, <1>p DEF BeginMembers
  <1>4. ASSUME NEW k \in Keys, BeginRebuild(u, k) PROVE TInv'
    BY <1>4, <1>r, <1>t, <1>p DEF BeginRebuild
  <1>5. CASE CommitEdit(u)
    <2>1. meta' \in Meta /\ meta'.status # "BUILDING"
      BY <1>5, <1>t, RevisedIsMeta DEF CommitEdit, Typed, Meta, Request
    <2>2. Typed'
      BY <1>5, <1>t, <2>1, DoneClears DEF CommitEdit, Typed
    <2> QED BY <1>5, <1>t, <2>1, <2>2, DoneClears, NamesKept DEF CommitEdit
  <1>6. CASE CommitDelete(u)
    <2>1. meta' \in Meta /\ meta'.status # "BUILDING"
      BY <1>6, <1>t, RevisedIsMeta DEF CommitDelete, Meta
    <2>2. Typed'
      BY <1>6, <1>t, <2>1, DoneClears DEF CommitDelete, Typed
    <2> QED BY <1>6, <1>t, <2>1, <2>2, DoneClears, NamesKept DEF CommitDelete
  <1>7. ASSUME NEW v \in Users, CommitMembers(u, v) PROVE TInv'
    <2>1. meta' \in Meta /\ meta'.status # "BUILDING"
      BY <1>7, <1>t, RevisedIsMeta DEF CommitMembers
    <2>2. Typed'
      BY <1>7, <1>t, <2>1, DoneClears DEF CommitMembers, Typed
    <2> QED BY <1>7, <1>t, <2>1, <2>2, DoneClears, NamesKept DEF CommitMembers
  <1>8. CASE CommitRebuild(u)
    <2> DEFINE b == ManualBuild(u, req[u].key)
    <2>1. b \in BuildIds /\ req[u].rows \in Pins
      BY <1>8, <1>t, ManualIsBuildId DEF CommitRebuild, TInv, RequestNamed, Typed, Request
    <2>2. Record(b, u, req[u].rows) /\ meta' = Building(b, 0)
      BY <1>8 DEF CommitRebuild
    <2> HIDE DEF b
    <2>3. meta' \in Meta /\ meta'.build_id = b
      BY <1>t, <2>1, <2>2, ZeroAndHorizonAreAges DEF Building, Typed, Meta
    <2>4. /\ req' \in [Users -> Request] /\ req' = [req EXCEPT ![u] = req'[u]]
          /\ req'[u].op = "invoke" /\ req'[u].key = req[u].key
      BY <1>8, <1>t DEF CommitRebuild, Typed, Request
    <2>5. /\ DOMAIN ledger' = DOMAIN ledger \cup {b}
          /\ ledger' \in [DOMAIN ledger' -> Row]
          /\ artifacts' \in [DOMAIN ledger' -> Objects]
      BY <1>t, <2>1, <2>2, RecordAdds
    <2>6. Typed'
      BY <1>8, <1>t, <2>1, <2>3, <2>4, <2>5 DEF CommitRebuild, Typed
    <2>7. RequestNamed(u)'
      BY <1>8, <2>4, <2>5 DEF CommitRebuild, TInv, RequestNamed, Requested, ManualBuild, b
    <2> QED BY <1>8, <2>3, <2>4, <2>5, <2>6, <2>7, NamesKept DEF CommitRebuild
  <1>o. ASSUME NEW op \in {"unconfirmed", "unrecorded"},
               req[u].op \in {"invoke", "unconfirmed"},
               req' = [req EXCEPT ![u].op = op], DOMAIN ledger' = DOMAIN ledger
        PROVE  /\ req' \in [Users -> Request] /\ req' = [req EXCEPT ![u] = req'[u]]
               /\ RequestNamed(u)'
    <2>1. req'[u].key = req[u].key /\ req'[u].op = op
      BY <1>o, <1>t DEF Typed, Request
    <2> QED BY <1>o, <1>t, <2>1 DEF TInv, Typed, Request, RequestNamed, Requested, ManualBuild
  <1>n. req[u].op \in {"invoke", "unconfirmed", "unrecorded"} => Requested(u) \in DOMAIN ledger
    BY DEF TInv, RequestNamed
  <1>9. CASE Invoke(u)
    <2>1. /\ req' \in [Users -> Request] /\ req' = [req EXCEPT ![u] = req'[u]]
          /\ RequestNamed(u)'
      BY <1>9, <1>t, <1>o, DoneClears DEF Invoke
    <2>2. Typed'
      BY <1>9, <1>t, <1>n, <2>1 DEF Invoke, Typed
    <2> QED BY <1>9, <2>1, <2>2, NamesKept DEF Invoke, TInv
  <1>10. CASE DispatchFailedLedger(u)
    <2>1. DOMAIN ledger' = DOMAIN ledger /\ ledger' \in [DOMAIN ledger' -> Row]
      BY <1>10, <1>t, <1>n DEF DispatchFailedLedger, Typed, Row
    <2>2. /\ req' \in [Users -> Request] /\ req' = [req EXCEPT ![u] = req'[u]]
          /\ RequestNamed(u)'
      BY <1>10, <1>t, <1>o, <2>1, DoneClears DEF DispatchFailedLedger
    <2>3. Typed'
      BY <1>10, <1>t, <2>1, <2>2 DEF DispatchFailedLedger, Typed
    <2> QED BY <1>10, <2>1, <2>2, <2>3, NamesKept DEF DispatchFailedLedger, TInv
  <1>11. CASE DispatchFailedMeta(u)
    <2>1. meta' \in Meta /\ (meta'.status = "BUILDING" => meta' = meta)
      BY <1>11, <1>t DEF DispatchFailedMeta, Typed, Meta
    <2>2. Typed'
      BY <1>11, <1>t, <2>1, DoneClears DEF DispatchFailedMeta, Typed
    <2> QED BY <1>11, <1>t, <2>1, <2>2, DoneClears, NamesKept DEF DispatchFailedMeta, TInv
  <1>12. CASE Abandon(u)
    <2>1. Typed'
      BY <1>12, <1>t, DoneClears DEF Abandon, Typed
    <2> QED BY <1>12, <1>t, <2>1, DoneClears, NamesKept DEF Abandon, TInv
  <1> QED BY <1>1, <1>2, <1>3, <1>4, <1>5, <1>6, <1>7, <1>8, <1>9, <1>10, <1>11, <1>12
      DEF Api

(* The same for the steps of workers, the reconciler and the platform.      *)
LEMMA NamesKeptElsewhere ==
  ASSUME TInv, DOMAIN ledger \subseteq DOMAIN ledger', req' = req,
         \A w \in Workers : WorkerNamed(w)',
         meta'.status = "BUILDING" => meta'.build_id \in DOMAIN ledger', Typed'
  PROVE  TInv'
  <1>1. ASSUME NEW v \in Users PROVE RequestNamed(v)'
    BY DEF TInv, RequestNamed, Requested, ManualBuild
  <1> QED BY <1>1 DEF TInv

LEMMA GotoMoves ==
  ASSUME TInv, NEW w \in Workers, worker[w].pc # "idle",
         NEW pc \in {"claimed", "inputs", "files", "graph", "manifest", "activate", "failing"},
         Goto(w, pc), DOMAIN ledger' = DOMAIN ledger
  PROVE  /\ worker' \in [Workers -> Execution]
         /\ \A v \in Workers : WorkerNamed(v)'
  <1>1. worker' = [worker EXCEPT ![w].pc = pc]
    BY DEF Goto
  <1>2. worker' \in [Workers -> Execution]
    BY <1>1 DEF TInv, Typed, Execution
  <1>3. ASSUME NEW v \in Workers PROVE worker'[v].build = worker[v].build
    BY <1>1 DEF TInv, Typed, Execution
  <1>4. ASSUME NEW v \in Workers PROVE v # w => worker'[v] = worker[v]
    BY <1>1 DEF TInv, Typed
  <1> QED BY <1>2, <1>3, <1>4 DEF TInv, WorkerNamed

LEMMA IdleEnds ==
  ASSUME TInv, NEW w \in Workers, worker' = [worker EXCEPT ![w] = Idle],
         DOMAIN ledger' = DOMAIN ledger
  PROVE  /\ worker' \in [Workers -> Execution]
         /\ \A v \in Workers : WorkerNamed(v)'
  <1>1. worker' \in [Workers -> Execution]
    BY DEF TInv, Typed, Execution, Idle
  <1>2. \A v \in Workers : WorkerNamed(v)'
    BY DEF TInv, Typed, WorkerNamed, Idle
  <1> QED BY <1>1, <1>2

LEMMA WorkTInv == ASSUME TInv, NEW w \in Workers, Work(w) PROVE TInv'
  <1>t. Typed
    BY DEF TInv
  <1>b. worker[w].pc # "idle" => worker[w].build \in DOMAIN ledger
    BY DEF TInv, WorkerNamed
  <1>m. ASSUME meta' = meta, ledger' = ledger,
               worker' \in [Workers -> Execution], \A v \in Workers : WorkerNamed(v)',
               artifacts' \in [DOMAIN ledger -> Objects],
               UNCHANGED <<registry, writers, reach, gone, events, req, recon>>
        PROVE  TInv'
    <2>1. Typed'
      BY <1>m, <1>t DEF Typed
    <2> QED BY <1>m, <2>1, NamesKeptElsewhere DEF TInv
  <1>a. artifacts \in [DOMAIN ledger -> Objects]
    BY <1>t DEF Typed
  <1>1. ASSUME NEW b \in events, Acquire(w, b) PROVE TInv'
    <2>1. meta' \in Meta /\ meta'.build_id = b /\ b \in DOMAIN ledger
      BY <1>1, <1>t, ZeroAndHorizonAreAges DEF Acquire, Reserved, Typed, Meta
    <2>2. worker' \in [Workers -> Execution]
      BY <1>1, <1>t, <2>1 DEF Acquire, Typed, Execution
    <2>3. \A v \in Workers : WorkerNamed(v)'
      BY <1>1, <1>t, <2>1 DEF Acquire, TInv, Typed, WorkerNamed
    <2>4. Typed'
      BY <1>1, <1>t, <2>1, <2>2 DEF Acquire, Typed
    <2> QED BY <1>1, <2>1, <2>3, <2>4, NamesKeptElsewhere DEF Acquire
  <1>2. CASE ReadLedger(w)
    <2> DEFINE s == ledger[worker[w].build].status
               pc == IF s = "QUEUED" THEN "claimed" ELSE "failing"
    <2>1. s \in {"QUEUED", "READY", "FAILED"} /\ pc \in {"claimed", "failing"}
      BY <1>2, <1>b, <1>t DEF ReadLedger, Typed, Row
    <2>2. worker' = [worker EXCEPT ![w].seen = s, ![w].pc = pc]
      BY <1>2 DEF ReadLedger
    <2> HIDE DEF s, pc
    <2>3. worker' \in [Workers -> Execution]
      BY <1>t, <2>1, <2>2 DEF Typed, Execution
    <2>4. \A v \in Workers : worker'[v].build = worker[v].build
                             /\ (worker[v].pc = "idle" /\ v # w => worker'[v].pc = "idle")
      BY <1>t, <2>1, <2>2 DEF Typed, Execution
    <2>5. \A v \in Workers : WorkerNamed(v)'
      BY <1>2, <2>4 DEF ReadLedger, TInv, WorkerNamed
    <2> QED BY <1>2, <1>m, <1>a, <2>3, <2>5 DEF ReadLedger
  <1>3. CASE CheckInputs(w)
    BY <1>3, <1>m, <1>a, GotoMoves DEF CheckInputs
  <1>4. CASE Build(w)
    <2>1. CASE Goto(w, "failing")
      BY <1>4, <2>1, <1>m, <1>a, GotoMoves DEF Build
    <2>2. ASSUME NEW c \in Contents,
                 worker' = [worker EXCEPT ![w].content = c, ![w].pc = "files"]
          PROVE  TInv'
      <3>0. [worker[w] EXCEPT !.content = c, !.pc = "files"] \in Execution
        BY <1>t DEF Typed, Execution
      <3>1. worker' \in [Workers -> Execution]
        BY <1>t, <2>2, <3>0 DEF Typed
      <3>2. ASSUME NEW v \in Workers PROVE worker'[v].build = worker[v].build
        <4>1. worker[v] \in Execution
          BY <1>t DEF Typed
        <4>2. worker' = [worker EXCEPT ![w] = [@ EXCEPT !.content = c, !.pc = "files"]]
          BY <1>t, <2>2 DEF Typed, Execution
        <4> QED BY <1>t, <4>1, <4>2 DEF Typed, Execution
      <3>3. ASSUME NEW v \in Workers PROVE v # w => worker'[v] = worker[v]
        BY <1>t, <2>2 DEF Typed
      <3>4. \A v \in Workers : WorkerNamed(v)'
        BY <1>4, <3>2, <3>3 DEF Build, TInv, WorkerNamed
      <3> QED BY <1>4, <1>m, <1>a, <3>1, <3>4 DEF Build
    <2> QED BY <1>4, <2>1, <2>2 DEF Build
  <1>5. CASE PutFiles(w)
    <2>1. artifacts' \in [DOMAIN ledger -> Objects]
      BY <1>5, <1>a DEF PutFiles, Objects
    <2> QED BY <1>5, <1>m, <2>1, GotoMoves DEF PutFiles
  <1>c. worker[w].content \in Contents \cup {None}
    BY <1>t DEF Typed, Execution
  <1>6. CASE PutGraph(w)
    <2>1. artifacts' \in [DOMAIN ledger -> Objects]
      BY <1>6, <1>a, <1>c DEF PutGraph, Objects
    <2> QED BY <1>6, <1>m, <2>1, GotoMoves DEF PutGraph
  <1>7. CASE PutManifest(w)
    <2>1. artifacts' \in [DOMAIN ledger -> Objects]
      BY <1>7, <1>a, <1>c DEF PutManifest, Objects
    <2> QED BY <1>7, <1>m, <2>1, GotoMoves DEF PutManifest
  <1>s. ASSUME NEW st \in {"READY", "FAILED"}, NEW b \in DOMAIN ledger
        PROVE  [ledger EXCEPT ![b].status = st] \in [DOMAIN ledger -> Row]
    BY <1>t DEF Typed, Row
  <1>8. CASE Activate(w)
    <2>1. CASE Activatable(w)
      <3>1. meta' \in Meta /\ meta'.status # "BUILDING"
        <4>1. ledger[worker[w].build] \in Row /\ worker[w].build \in BuildIds
          BY <1>8, <1>t, <1>b DEF Activate, Typed
        <4>2. ASSUME NEW b \in BuildIds, NEW pins \in Pins
              PROVE  [meta EXCEPT !.status = "READY", !.active_version = b,
                        !.active_revision = meta.revision,
                        !.active_source_versions = pins, !.started = Horizon,
                        !.worker_token = None, !.lease = Horizon] \in Meta
          <5>1. meta \in Meta /\ Horizon \in Ages
            BY <1>t, ZeroAndHorizonAreAges DEF Typed
          <5> QED BY <5>1 DEF Meta
        <4>3. ledger[worker[w].build].source_versions \in Pins
          BY <4>1 DEF Row
        <4>4. meta'.status = "READY"
          BY <1>8, <1>t, <2>1 DEF Activate, Typed, Meta
        <4> QED BY <1>8, <2>1, <4>1, <4>2, <4>3, <4>4 DEF Activate
      <3>2. ledger' \in [DOMAIN ledger -> Row] /\ DOMAIN ledger' = DOMAIN ledger
        BY <1>8, <1>b, <1>s, <2>1 DEF Activate
      <3>3. worker' \in [Workers -> Execution] /\ \A v \in Workers : WorkerNamed(v)'
        BY <1>8, <2>1, <3>2, IdleEnds DEF Activate
      <3>4. Typed'
        BY <1>8, <1>t, <3>1, <3>2, <3>3 DEF Activate, Typed
      <3> QED BY <1>8, <3>1, <3>2, <3>3, <3>4, NamesKeptElsewhere DEF Activate
    <2>2. CASE ~Activatable(w)
      BY <1>8, <2>2, <1>m, <1>a, GotoMoves DEF Activate
    <2> QED BY <2>1, <2>2
  <1>9. CASE Fail(w)
    <2> DEFINE failed == [meta EXCEPT !.status = "FAILED", !.started = Horizon,
                                      !.worker_token = None, !.lease = Horizon]
    <2>0. failed \in Meta /\ failed.status = "FAILED"
      <3>1. meta \in Meta /\ Horizon \in Ages
        BY <1>t, ZeroAndHorizonAreAges DEF Typed
      <3> QED BY <3>1 DEF Meta
    <2> HIDE DEF failed
    <2>1. meta' \in Meta /\ (meta'.status = "BUILDING" => meta' = meta)
      <3>1. meta' \in {failed, meta}
        BY <1>9 DEF Fail, failed
      <3> QED BY <1>t, <2>0, <3>1 DEF Typed
    <2>2. ledger' \in [DOMAIN ledger -> Row] /\ DOMAIN ledger' = DOMAIN ledger
      BY <1>9, <1>t, <1>b, <1>s DEF Fail, Typed
    <2>3. worker' \in [Workers -> Execution] /\ \A v \in Workers : WorkerNamed(v)'
      BY <1>9, <2>2, IdleEnds DEF Fail
    <2>4. Typed'
      BY <1>9, <1>t, <2>1, <2>2, <2>3 DEF Fail, Typed
    <2> QED BY <1>9, <2>1, <2>2, <2>3, <2>4, NamesKeptElsewhere DEF Fail, TInv
  <1>10. CASE Raise(w)
    BY <1>10, <1>m, <1>a, GotoMoves DEF Raise
  <1>11. CASE Crash(w)
    BY <1>11, <1>m, <1>a, IdleEnds DEF Crash
  <1> QED BY <1>1, <1>2, <1>3, <1>4, <1>5, <1>6, <1>7, <1>8, <1>9, <1>10, <1>11
      DEF Work, Proceed

LEMMA ReconcileTInv == ASSUME TInv, Reconcile PROVE TInv'
  <1>t. Typed
    BY DEF TInv
  <1>w. ASSUME DOMAIN ledger \subseteq DOMAIN ledger', worker' = worker
        PROVE  \A w \in Workers : WorkerNamed(w)'
    BY <1>w DEF TInv, WorkerNamed
  <1>1. ASSUME NEW skew \in 0..RunSkew, Expire(skew) PROVE TInv'
    <2> DEFINE failed == [meta EXCEPT !.status = "FAILED", !.started = Horizon,
                                      !.worker_token = None, !.lease = Horizon]
    <2>1. meta \in Meta /\ Horizon \in Ages
      BY <1>t, ZeroAndHorizonAreAges DEF Typed
    <2>2. failed \in Meta /\ failed.status = "FAILED"
      BY <2>1 DEF Meta
    <2> HIDE DEF failed
    <2>3. meta' = failed
      BY <1>1 DEF Expire, failed
    <2>4. meta.build_id \in DOMAIN ledger
      BY <1>1 DEF Expire, TInv
    <2>5. ledger' \in [DOMAIN ledger -> Row] /\ DOMAIN ledger' = DOMAIN ledger
      BY <1>1, <1>t, <2>4 DEF Expire, Typed, Row
    <2>6. Typed'
      BY <1>1, <1>t, <2>2, <2>3, <2>5 DEF Expire, Typed
    <2> QED BY <1>1, <1>w, <2>2, <2>3, <2>5, <2>6, NamesKeptElsewhere DEF Expire
  <1>2. ASSUME NEW skew \in 0..RunSkew, Claim(skew) PROVE TInv'
    <2> DEFINE pins == Current(meta.sources)
               b == AutoBuild(meta.revision, pins)
    <2>1. meta \in Meta /\ meta.revision \in Revisions /\ meta.sources \in SUBSET Sources
      BY <1>t DEF Typed, Meta
    <2>2. pins \in Pins
      BY <1>t, <2>1, CurrentIsPins DEF Typed
    <2>3. b \in BuildIds
      BY <2>1, <2>2, AutoIsBuildId
    <2>4. /\ Record(b, Owner, pins) /\ recon' = b
          /\ meta' = [Building(b, skew) EXCEPT !.last_auto_signature = b]
          /\ UNCHANGED <<registry, writers, reach, gone, events, req, worker>>
      BY <1>2 DEF Claim
    <2> HIDE DEF b, pins
    <2>5. skew \in Ages
      BY ConstantsAssumption DEF Ages, Horizon
    <2>6. meta' \in Meta /\ meta'.build_id = b
      BY <2>1, <2>3, <2>4, <2>5, ZeroAndHorizonAreAges DEF Building, Meta
    <2>7. /\ DOMAIN ledger' = DOMAIN ledger \cup {b}
          /\ ledger' \in [DOMAIN ledger' -> Row]
          /\ artifacts' \in [DOMAIN ledger' -> Objects]
      BY <1>t, <2>2, <2>3, <2>4, RecordAdds, ConstantsAssumption
    <2>8. Typed'
      BY <1>t, <2>3, <2>4, <2>6, <2>7 DEF Typed
    <2> QED BY <1>w, <2>4, <2>6, <2>7, <2>8, NamesKeptElsewhere
  <1>3. CASE InvokeClaimed
    <2>1. Typed'
      BY <1>3, <1>t DEF InvokeClaimed, Typed
    <2> QED BY <1>3, <1>w, <2>1, NamesKeptElsewhere DEF InvokeClaimed, TInv
  <1> QED BY <1>1, <1>2, <1>3 DEF Reconcile

LEMMA PlatformTInv == ASSUME TInv, Platform \/ Tick PROVE TInv'
  <1>t. Typed
    BY DEF TInv
  <1>w. ASSUME ledger' = ledger, worker' = worker
        PROVE  \A w \in Workers : WorkerNamed(w)'
    BY <1>w DEF TInv, WorkerNamed
  <1>q. ASSUME Typed', UNCHANGED <<meta, ledger, req, worker>> PROVE TInv'
    BY <1>q, <1>w, NamesKeptElsewhere DEF TInv
  <1>1. ASSUME NEW b \in events, DropEvent(b) PROVE TInv'
    BY <1>1, <1>t, <1>q DEF DropEvent, Typed
  <1>2. ASSUME NEW s \in Sources, NEW usable \in BOOLEAN, Publish(s, usable) PROVE TInv'
    <2>1. registry[s].version + 1 \in 1..MaxVersion
      BY <1>2, <1>t, ConstantsAssumption DEF Publish, Typed
    <2>2. registry' \in [Sources -> [version : 1..MaxVersion, usable : BOOLEAN]]
      BY <1>2, <1>t, <2>1 DEF Publish, Typed
    <2> QED BY <1>2, <1>t, <1>q, <2>2 DEF Publish, Typed
  <1>3. ASSUME NEW u \in Exposed, NEW s \in Sources, Revoke(u, s) PROVE TInv'
    BY <1>3, <1>t, <1>q, ConstantsAssumption DEF Revoke, Typed
  <1>4. ASSUME NEW u \in Exposed, NEW s \in Sources, Grant(u, s) PROVE TInv'
    BY <1>4, <1>t, <1>q, ConstantsAssumption DEF Grant, Typed
  <1>5. ASSUME NEW u \in Exposed, Offboard(u) PROVE TInv'
    BY <1>5, <1>t, <1>q, ConstantsAssumption DEF Offboard, Typed
  <1>6. CASE Tick
    <2>1. meta \in Meta /\ Older(meta.started) \in Ages /\ Older(meta.lease) \in Ages
      BY <1>t, OlderIsAge DEF Typed, Meta
    <2>2. meta' \in Meta /\ meta'.status = meta.status /\ meta'.build_id = meta.build_id
      BY <1>6, <2>1 DEF Tick, Meta
    <2>3. Typed'
      BY <1>6, <1>t, <2>2 DEF Tick, Typed
    <2> QED BY <1>6, <1>w, <2>2, <2>3, NamesKeptElsewhere DEF Tick, TInv
  <1> QED BY <1>1, <1>2, <1>3, <1>4, <1>5, <1>6 DEF Platform

LEMMA StutterTInv == ASSUME TInv, UNCHANGED vars PROVE TInv'
  <1>1. Typed'
    BY DEF TInv, Typed, vars
  <1>2. \A w \in Workers : WorkerNamed(w)'
    BY DEF TInv, WorkerNamed, vars
  <1> QED BY <1>1, <1>2, NamesKeptElsewhere DEF TInv, vars

LEMMA StepTInv == TInv /\ [Next]_vars => TInv'
  BY ApiTInv, WorkTInv, ReconcileTInv, PlatformTInv, StutterTInv DEF Next

LEMMA SpecTInv == Spec => []TInv
  BY InitTInv, StepTInv, PTL DEF Spec

-----------------------------------------------------------------------------
(* What every step leaves of the ledger and the objects.                    *)

RowsPersist ==
  \A b \in DOMAIN ledger :
    /\ b \in DOMAIN ledger'
    /\ ledger'[b] = [ledger[b] EXCEPT !.status = ledger'[b].status]

ObjectsPersist ==
  \A b \in DOMAIN ledger :
    /\ artifacts[b].files => artifacts'[b].files
    /\ artifacts[b].graph # None => artifacts'[b].graph = artifacts[b].graph
    /\ artifacts[b].manifest # None => artifacts'[b].manifest = artifacts[b].manifest

LEMMA StatusWritePersists ==
  ASSUME Typed, NEW b \in DOMAIN ledger, NEW st \in {"READY", "FAILED"},
         ledger' = [ledger EXCEPT ![b].status = st]
  PROVE  RowsPersist /\ ledger'[b].status = st /\ DOMAIN ledger' = DOMAIN ledger
         /\ \A c \in DOMAIN ledger : c # b => ledger'[c] = ledger[c]
  BY DEF Typed, Row, RowsPersist

LEMMA SamePersists ==
  /\ Typed /\ ledger' = ledger => RowsPersist
  /\ artifacts' = artifacts => ObjectsPersist
  BY DEF Typed, Row, RowsPersist, ObjectsPersist

LEMMA RecordPersists ==
  ASSUME Typed, NEW b \in BuildIds, NEW u \in Users, NEW p \in Pins, Record(b, u, p)
  PROVE  RowsPersist /\ ObjectsPersist
  <1>1. /\ \A c \in DOMAIN ledger : c \in DOMAIN ledger' /\ ledger'[c] = ledger[c]
        /\ \A c \in DOMAIN ledger : artifacts'[c] = artifacts[c]
    BY RecordAdds
  <1>2. RowsPersist
    BY <1>1 DEF Typed, Row, RowsPersist
  <1>3. ObjectsPersist
    BY <1>1 DEF ObjectsPersist
  <1> QED BY <1>2, <1>3

(* The two reservations, with everything the proofs use of them.            *)
LEMMA CommitRebuildReserves ==
  ASSUME TInv, NEW u \in Users, CommitRebuild(u)
  PROVE  \E b \in BuildIds, p \in Pins, age \in Ages :
           /\ Record(b, u, p)
           /\ meta' = Building(b, age)
  <1>1. req[u].key \in Keys /\ req[u].rows \in Pins
    BY DEF TInv, Typed, Request, RequestNamed, CommitRebuild
  <1> QED BY <1>1, ManualIsBuildId, ZeroAndHorizonAreAges DEF CommitRebuild

LEMMA ClaimReserves ==
  ASSUME TInv, NEW skew \in 0..RunSkew, Claim(skew)
  PROVE  \E b \in BuildIds, p \in Pins, age \in Ages :
           /\ Record(b, Owner, p)
           /\ meta' = [Building(b, age) EXCEPT !.last_auto_signature = b]
  <1>1. meta.revision \in Revisions /\ Current(meta.sources) \in Pins
    BY CurrentIsPins DEF TInv, Typed, Meta
  <1>2. skew \in Ages
    BY ConstantsAssumption DEF Ages, Horizon
  <1> QED BY <1>1, <1>2, AutoIsBuildId DEF Claim

(* Rows keep everything but their status and objects are written once.      *)
LEMMA StepPersists == ASSUME TInv, [Next]_vars PROVE RowsPersist /\ ObjectsPersist
  <1>t. Typed
    BY DEF TInv
  <1>0. ASSUME ledger' = ledger, artifacts' = artifacts PROVE RowsPersist /\ ObjectsPersist
    BY <1>0, <1>t, SamePersists
  <1>1. ASSUME NEW u \in Users, Api(u) PROVE RowsPersist /\ ObjectsPersist
    <2>1. CASE CommitRebuild(u)
      BY <2>1, <1>t, CommitRebuildReserves, RecordPersists
    <2>2. CASE DispatchFailedLedger(u)
      <3>1. Requested(u) \in DOMAIN ledger /\ artifacts' = artifacts
        BY <2>2 DEF DispatchFailedLedger, TInv, RequestNamed
      <3> QED BY <2>2, <3>1, <1>t, StatusWritePersists, SamePersists DEF DispatchFailedLedger
    <2>3. CASE UNCHANGED <<ledger, artifacts>>
      BY <2>3, <1>0
    <2> QED BY <1>1, <2>1, <2>2, <2>3
        DEF Api, BeginEdit, BeginDelete, BeginMembers, BeginRebuild, Begin, CommitEdit,
            CommitDelete, CommitMembers, Invoke, DispatchFailedMeta, Abandon
  <1>2. ASSUME NEW w \in Workers, Work(w) PROVE RowsPersist /\ ObjectsPersist
    <2>b. worker[w].pc # "idle" => worker[w].build \in DOMAIN ledger
      BY DEF TInv, WorkerNamed
    <2>a. artifacts \in [DOMAIN ledger -> Objects]
      BY <1>t DEF Typed
    <2>1. CASE Activate(w) \/ Fail(w)
      BY <2>1, <2>b, <1>t, StatusWritePersists, SamePersists DEF Activate, Fail
    <2>2. CASE PutFiles(w)
      <3>1. ObjectsPersist
        BY <2>2, <2>b, <2>a DEF PutFiles, ObjectsPersist, Objects
      <3> QED BY <2>2, <3>1, <1>t, SamePersists DEF PutFiles
    <2>3. CASE PutGraph(w)
      <3>1. ObjectsPersist
        BY <2>3, <2>b, <2>a DEF PutGraph, ObjectsPersist, Objects
      <3> QED BY <2>3, <3>1, <1>t, SamePersists DEF PutGraph
    <2>4. CASE PutManifest(w)
      <3>1. ObjectsPersist
        BY <2>4, <2>b, <2>a DEF PutManifest, ObjectsPersist, Objects
      <3> QED BY <2>4, <3>1, <1>t, SamePersists DEF PutManifest
    <2>5. CASE UNCHANGED <<ledger, artifacts>>
      BY <2>5, <1>0
    <2> QED BY <1>2, <2>1, <2>2, <2>3, <2>4, <2>5
        DEF Work, Proceed, Acquire, ReadLedger, CheckInputs, Build, Raise, Crash
  <1>3. CASE Reconcile
    <2>1. ASSUME NEW skew \in 0..RunSkew, Expire(skew) PROVE RowsPersist /\ ObjectsPersist
      <3>1. meta.build_id \in DOMAIN ledger
        BY <2>1 DEF Expire, TInv
      <3> QED BY <2>1, <3>1, <1>t, StatusWritePersists, SamePersists DEF Expire
    <2>2. ASSUME NEW skew \in 0..RunSkew, Claim(skew) PROVE RowsPersist /\ ObjectsPersist
      BY <2>2, <1>t, ClaimReserves, RecordPersists, ConstantsAssumption
    <2>3. CASE InvokeClaimed
      BY <2>3, <1>0 DEF InvokeClaimed
    <2> QED BY <1>3, <2>1, <2>2, <2>3 DEF Reconcile
  <1>4. CASE Platform \/ Tick \/ UNCHANGED vars
    BY <1>4, <1>0 DEF Platform, DropEvent, Publish, Revoke, Grant, Offboard, Tick, vars
  <1> QED BY <1>1, <1>2, <1>3, <1>4 DEF Next

-----------------------------------------------------------------------------
(* TypeOK.  TInv names the rows that the handlers look up; META also keeps  *)
(* the builds it was READY or FAILED with.                                  *)

MetaNames == {meta.build_id, meta.active_version, meta.last_auto_signature}

MetaNamesRecorded == MetaNames' \subseteq MetaNames \cup DOMAIN ledger'

WorkersRecorded == \A w \in Workers : worker[w].build \in DOMAIN ledger \cup {None}

LEMMA ApiMetaNames ==
  ASSUME TInv, NEW u \in Users, Api(u) PROVE MetaNamesRecorded
  <1>m. meta \in Meta
    BY DEF TInv, Typed
  <1>1. CASE UNCHANGED meta
    BY <1>1 DEF MetaNamesRecorded, MetaNames
  <1>2. CASE CommitEdit(u) \/ CommitDelete(u) \/ \E v \in Users : CommitMembers(u, v)
    <2>1. /\ meta'.build_id = meta.build_id /\ meta'.active_version = meta.active_version
          /\ meta'.last_auto_signature = meta.last_auto_signature
      BY <1>2, <1>m DEF CommitEdit, CommitDelete, CommitMembers, Revised, Meta
    <2> QED BY <2>1 DEF MetaNamesRecorded, MetaNames
  <1>3. CASE CommitRebuild(u)
    <2>1. PICK b \in BuildIds, p \in Pins, age \in Ages :
            Record(b, u, p) /\ meta' = Building(b, age)
      BY <1>3, CommitRebuildReserves
    <2>2. /\ meta'.build_id = b /\ meta'.active_version = meta.active_version
          /\ meta'.last_auto_signature = meta.last_auto_signature
      BY <2>1, <1>m DEF Building, Meta
    <2>3. b \in DOMAIN ledger'
      BY <2>1 DEF Record
    <2> QED BY <2>2, <2>3 DEF MetaNamesRecorded, MetaNames
  <1>4. CASE DispatchFailedMeta(u)
    <2>1. /\ meta'.build_id = meta.build_id /\ meta'.active_version = meta.active_version
          /\ meta'.last_auto_signature = meta.last_auto_signature
      BY <1>4, <1>m DEF DispatchFailedMeta, Meta
    <2> QED BY <2>1 DEF MetaNamesRecorded, MetaNames
  <1> QED BY <1>1, <1>2, <1>3, <1>4
      DEF Api, BeginEdit, BeginDelete, BeginMembers, BeginRebuild, Begin, Invoke,
          DispatchFailedLedger, Abandon

LEMMA WorkMetaNames ==
  ASSUME TInv, NEW w \in Workers, Work(w) PROVE MetaNamesRecorded
  <1>m. meta \in Meta
    BY DEF TInv, Typed
  <1>1. CASE UNCHANGED meta
    BY <1>1 DEF MetaNamesRecorded, MetaNames
  <1>2. CASE Fail(w) \/ \E b \in events : Acquire(w, b)
    <2>1. /\ meta'.build_id = meta.build_id /\ meta'.active_version = meta.active_version
          /\ meta'.last_auto_signature = meta.last_auto_signature
      BY <1>2, <1>m DEF Fail, Acquire, Meta
    <2> QED BY <2>1 DEF MetaNamesRecorded, MetaNames
  <1>3. CASE Activate(w)
    <2>1. CASE Activatable(w)
      <3>1. /\ meta'.build_id = meta.build_id /\ meta'.active_version = worker[w].build
            /\ meta'.last_auto_signature = meta.last_auto_signature
        BY <1>3, <2>1, <1>m DEF Activate, Meta
      <3>2. meta.build_id = worker[w].build
        BY <2>1 DEF Activatable, Claimed, Reserved
      <3> QED BY <3>1, <3>2 DEF MetaNamesRecorded, MetaNames
    <2>2. CASE ~Activatable(w)
      BY <1>1, <1>3, <2>2 DEF Activate
    <2> QED BY <2>1, <2>2
  <1> QED BY <1>1, <1>2, <1>3
      DEF Work, Proceed, ReadLedger, CheckInputs, Build, PutFiles, PutGraph, PutManifest,
          Raise, Crash

LEMMA StepMetaNames == ASSUME TInv, [Next]_vars PROVE MetaNamesRecorded
  <1>m. meta \in Meta
    BY DEF TInv, Typed
  <1>1. CASE UNCHANGED meta
    BY <1>1 DEF MetaNamesRecorded, MetaNames
  <1>2. CASE Tick \/ \E skew \in 0..RunSkew : Expire(skew)
    <2>1. /\ meta'.build_id = meta.build_id /\ meta'.active_version = meta.active_version
          /\ meta'.last_auto_signature = meta.last_auto_signature
      BY <1>2, <1>m DEF Tick, Expire, Meta
    <2> QED BY <2>1 DEF MetaNamesRecorded, MetaNames
  <1>3. ASSUME NEW skew \in 0..RunSkew, Claim(skew) PROVE MetaNamesRecorded
    <2>1. PICK b \in BuildIds, p \in Pins, age \in Ages :
            /\ Record(b, Owner, p)
            /\ meta' = [Building(b, age) EXCEPT !.last_auto_signature = b]
      BY <1>3, ClaimReserves
    <2>2. /\ meta'.build_id = b /\ meta'.active_version = meta.active_version
          /\ meta'.last_auto_signature = b
      BY <2>1, <1>m DEF Building, Meta
    <2>3. b \in DOMAIN ledger'
      BY <2>1 DEF Record
    <2> QED BY <2>2, <2>3 DEF MetaNamesRecorded, MetaNames
  <1> QED BY <1>1, <1>2, <1>3, ApiMetaNames, WorkMetaNames
      DEF Next, Reconcile, InvokeClaimed, Platform, DropEvent, Publish, Revoke, Grant,
          Offboard, vars

(* An execution takes its build from an event, and idles without one.       *)
LEMMA StepWorkersRecorded ==
  ASSUME TInv, WorkersRecorded, [Next]_vars PROVE WorkersRecorded'
  <1>t. worker \in [Workers -> Execution] /\ events \subseteq DOMAIN ledger
    BY DEF TInv, Typed
  <1>r. DOMAIN ledger \subseteq DOMAIN ledger'
    BY StepPersists DEF RowsPersist
  <1>1. CASE UNCHANGED worker
    BY <1>1, <1>r DEF WorkersRecorded
  <1>2. ASSUME NEW w \in Workers, Work(w) PROVE WorkersRecorded'
    <2>1. /\ worker'[w].build \in {worker[w].build, None} \cup events
          /\ \A v \in Workers \ {w} : worker'[v] = worker[v]
      <3>1. CASE \E b \in events : Acquire(w, b)
        BY <3>1, <1>t DEF Acquire
      <3>2. CASE \E x : worker' = [worker EXCEPT ![w].pc = x]
        BY <3>2, <1>t DEF Execution
      <3>3. CASE \E x, y : worker' = [worker EXCEPT ![w].seen = x, ![w].pc = y]
        BY <3>3, <1>t DEF Execution
      <3>5. CASE \E x, y : worker' = [worker EXCEPT ![w].content = x, ![w].pc = y]
        BY <3>5, <1>t DEF Execution
      <3>6. CASE ReadLedger(w)
        BY <3>3, <3>6 DEF ReadLedger
      <3>7. CASE Build(w)
        BY <3>2, <3>5, <3>7 DEF Build, Goto
      <3>4. CASE worker' = [worker EXCEPT ![w] = Idle]
        BY <3>4, <1>t DEF Idle
      <3> QED BY <1>2, <3>1, <3>2, <3>4, <3>6, <3>7
          DEF Work, Proceed, CheckInputs, PutFiles, PutGraph, PutManifest, Activate, Fail,
              Raise, Crash, Goto
    <2> QED BY <1>t, <1>r, <2>1 DEF WorkersRecorded
  <1> QED BY <1>1, <1>2
      DEF Next, Api, BeginEdit, BeginDelete, BeginMembers, BeginRebuild, Begin, CommitEdit,
          CommitDelete, CommitMembers, CommitRebuild, Invoke, DispatchFailedLedger,
          DispatchFailedMeta, Abandon, Reconcile, Expire, Claim, InvokeClaimed, Platform,
          DropEvent, Publish, Revoke, Grant, Offboard, Tick, vars

RInv == TInv /\ MetaNames \subseteq DOMAIN ledger \cup {None} /\ WorkersRecorded

LEMMA InitRInv == Init => RInv
  <1> SUFFICES ASSUME Init PROVE RInv
    OBVIOUS
  <1>1. MetaNames = {None}
    BY DEF Init, MetaNames
  <1>2. WorkersRecorded
    BY DEF Init, Idle, WorkersRecorded
  <1> QED BY <1>1, <1>2, InitTInv DEF RInv

LEMMA StepRInv == RInv /\ [Next]_vars => RInv'
  <1> SUFFICES ASSUME RInv, [Next]_vars PROVE RInv'
    OBVIOUS
  <1>t. TInv
    BY DEF RInv
  <1>1. DOMAIN ledger \subseteq DOMAIN ledger'
    BY <1>t, StepPersists DEF RowsPersist
  <1>2. MetaNames' \subseteq DOMAIN ledger' \cup {None}
    BY <1>t, <1>1, StepMetaNames DEF RInv, MetaNamesRecorded
  <1>3. WorkersRecorded'
    BY <1>t, StepWorkersRecorded DEF RInv
  <1> QED BY <1>t, <1>2, <1>3, StepTInv DEF RInv

(* Whatever users, executions, the reconciler and the platform do, the rows *)
(* keep their shape and no build is named that has no ledger row.           *)
THEOREM TypeCorrect == Spec => []TypeOK
  <1>1. RInv => TypeOK
    BY DEF RInv, TInv, TypeOK, Recorded, MetaNames, WorkersRecorded, RequestNamed
  <1> QED BY <1>1, InitRInv, StepRInv, PTL DEF Spec

-----------------------------------------------------------------------------
(* What an execution knows of its build at each point of its program.       *)

Holds(w, pcs) == worker[w].pc \in pcs

WorkerKnows(w) ==
  LET b == worker[w].build
      objects == artifacts[b] IN
  /\ Holds(w, {"claimed", "inputs", "files", "graph", "manifest", "activate"})
       => worker[w].seen = "QUEUED"
  /\ Holds(w, {"files", "graph", "manifest", "activate"}) => worker[w].content \in Contents
  /\ Holds(w, {"graph", "manifest", "activate"}) => objects.files
  /\ Holds(w, {"manifest", "activate"}) => objects.graph = worker[w].content
  /\ Holds(w, {"activate"}) => objects.manifest = worker[w].content

WInv == TInv /\ \A w \in Workers : WorkerKnows(w)

(* Only its own steps change an execution.                                  *)
LEMMA OnlyOwnSteps ==
  ASSUME TInv, [Next]_vars, NEW w \in Workers
  PROVE  Work(w) \/ worker'[w] = worker[w]
  <1>1. ASSUME NEW v \in Workers, Work(v), v # w PROVE worker'[w] = worker[w]
    BY <1>1 DEF TInv, Typed, Work, Proceed, Acquire, ReadLedger, CheckInputs, Build, PutFiles,
       PutGraph, PutManifest, Activate, Fail, Raise, Crash, Goto
  <1>2. ASSUME NEW u \in Users, Api(u) PROVE worker' = worker
    BY <1>2 DEF Api, BeginEdit, BeginDelete, BeginMembers, BeginRebuild, Begin, CommitEdit,
       CommitDelete, CommitMembers, CommitRebuild, Invoke, DispatchFailedLedger,
       DispatchFailedMeta, Abandon
  <1>3. Reconcile \/ Platform \/ Tick \/ UNCHANGED vars => worker' = worker
    BY DEF Reconcile, Expire, Claim, InvokeClaimed, Platform, DropEvent, Publish, Revoke,
       Grant, Offboard, Tick, vars
  <1> QED BY <1>1, <1>2, <1>3 DEF Next

(* An execution that does not move keeps what it knows.                     *)
LEMMA KnowledgeKept ==
  ASSUME WInv, NEW w \in Workers, worker'[w] = worker[w], ObjectsPersist
  PROVE  WorkerKnows(w)'
  <1>1. CASE worker[w].pc = "idle"
    BY <1>1 DEF WorkerKnows, Holds
  <1>2. CASE worker[w].pc # "idle"
    <2>1. worker[w].build \in DOMAIN ledger
      BY <1>2 DEF WInv, TInv, WorkerNamed
    <2>2. \A c \in Contents : c # None
      BY ConstantsAssumption
    <2> QED BY <2>1, <2>2 DEF WInv, WorkerKnows, Holds, ObjectsPersist
  <1> QED BY <1>1, <1>2

LEMMA KnowledgeGained ==
  ASSUME WInv, NEW w \in Workers, Work(w), ObjectsPersist
  PROVE  WorkerKnows(w)'
  <1>t. Typed /\ worker[w] \in Execution /\ worker \in [Workers -> Execution]
    BY DEF WInv, TInv, Typed
  <1>b. worker[w].pc # "idle" =>
          worker[w].build \in DOMAIN artifacts /\ artifacts[worker[w].build] \in Objects
    BY DEF WInv, TInv, Typed, WorkerNamed
  <1>k. WorkerKnows(w)
    BY DEF WInv
  <1>f. ASSUME Goto(w, "failing") \/ worker' = [worker EXCEPT ![w] = Idle]
        PROVE  WorkerKnows(w)'
    BY <1>f, <1>t DEF Goto, Idle, WorkerKnows, Holds, Execution
  <1>1. ASSUME NEW b \in events, Acquire(w, b) PROVE WorkerKnows(w)'
    BY <1>1, <1>t DEF Acquire, WorkerKnows, Holds
  <1>2. CASE ReadLedger(w)
    BY <1>2, <1>t DEF ReadLedger, WorkerKnows, Holds, Execution
  <1>3. CASE CheckInputs(w)
    BY <1>3, <1>t, <1>k DEF CheckInputs, Goto, WorkerKnows, Holds, Execution
  <1>4. CASE Build(w)
    <2>1. ASSUME NEW c \in Contents,
                 worker' = [worker EXCEPT ![w].content = c, ![w].pc = "files"]
          PROVE  WorkerKnows(w)'
      <3>1. worker'[w] = [worker[w] EXCEPT !.content = c, !.pc = "files"]
        BY <1>t, <2>1
      <3>2. /\ worker'[w].content = c /\ worker'[w].pc = "files"
            /\ worker'[w].seen = worker[w].seen
        BY <1>t, <3>1 DEF Execution
      <3> QED BY <1>4, <1>k, <3>2 DEF Build, WorkerKnows, Holds
    <2> QED BY <1>4, <1>f, <2>1 DEF Build
  <1>5. CASE PutFiles(w)
    BY <1>5, <1>t, <1>k, <1>f, <1>b DEF PutFiles, Goto, WorkerKnows, Holds, Execution, Objects
  <1>6. CASE PutGraph(w)
    BY <1>6, <1>t, <1>k, <1>f, <1>b
       DEF PutGraph, Accepts, Goto, WorkerKnows, Holds, Execution, Objects
  <1>7. CASE PutManifest(w)
    <2>1. \A c \in Contents : c # None
      BY ConstantsAssumption
    <2> QED BY <1>7, <1>t, <1>k, <1>f, <1>b, <2>1
        DEF PutManifest, Accepts, Goto, WorkerKnows, Holds, Execution, Objects, ObjectsPersist
  <1>8. CASE Activate(w) \/ Fail(w) \/ Raise(w) \/ Crash(w)
    BY <1>8, <1>f DEF Activate, Fail, Raise, Crash
  <1> QED BY <1>1, <1>2, <1>3, <1>4, <1>5, <1>6, <1>7, <1>8 DEF Work, Proceed

LEMMA InitWInv == Init => WInv
  <1> SUFFICES ASSUME Init PROVE WInv
    OBVIOUS
  <1>1. \A w \in Workers : worker[w].pc = "idle"
    BY DEF Init, Idle
  <1> QED BY <1>1, InitTInv DEF WInv, WorkerKnows, Holds

LEMMA StepWInv == WInv /\ [Next]_vars => WInv'
  <1> SUFFICES ASSUME WInv, [Next]_vars PROVE WInv'
    OBVIOUS
  <1>1. TInv /\ TInv'
    BY StepTInv DEF WInv
  <1>2. ObjectsPersist
    BY <1>1, StepPersists
  <1>3. ASSUME NEW w \in Workers PROVE WorkerKnows(w)'
    BY <1>1, <1>2, OnlyOwnSteps, KnowledgeKept, KnowledgeGained
  <1> QED BY <1>1, <1>3 DEF WInv

-----------------------------------------------------------------------------
(* The six things a step can do to META and the ledger.                     *)

ServedKept ==
  /\ meta'.active_version = meta.active_version
  /\ meta'.active_revision = meta.active_revision
  /\ meta'.active_source_versions = meta.active_source_versions

ConfigKept == meta'.revision = meta.revision /\ meta'.sources = meta.sources

Quiet ==
  /\ ledger' = ledger
  /\ meta' = meta \/ Tick
  /\ registry' = registry \/ \E s \in Sources, usable \in BOOLEAN : Publish(s, usable)

Revising ==
  /\ ledger' = ledger /\ registry' = registry
  /\ meta.status # "DELETED" /\ meta'.status \notin {"READY", "BUILDING"}
  /\ meta'.revision = meta.revision + 1
  /\ ServedKept

Closing ==
  /\ registry' = registry
  /\ \/ ledger' = ledger
     \/ \E b \in DOMAIN ledger :
          /\ ledger[b].status = "QUEUED"
          /\ ledger' = [ledger EXCEPT ![b].status = "FAILED"]
  /\ \/ meta' = meta
     \/ /\ meta.status = "BUILDING" /\ meta'.status = "FAILED"
        /\ ServedKept /\ ConfigKept

Reserving ==
  /\ registry' = registry
  /\ meta.status # "DELETED" /\ meta'.status = "BUILDING"
  /\ \E b \in BuildIds, u \in Users, p \in Pins : Record(b, u, p) /\ meta'.build_id = b
  /\ ServedKept /\ ConfigKept

Acquiring == \E w \in Workers, b \in events : Acquire(w, b)

Activating == \E w \in Workers : Activate(w) /\ Activatable(w)

Effect == Quiet \/ Revising \/ Closing \/ Reserving \/ Acquiring \/ Activating

LEMMA FailedMeta ==
  ASSUME Typed, NEW started, NEW token, NEW lease,
         meta.status = "BUILDING",
         meta' = [meta EXCEPT !.status = "FAILED", !.started = started,
                              !.worker_token = token, !.lease = lease]
  PROVE  meta'.status = "FAILED" /\ ServedKept /\ ConfigKept
  BY DEF Typed, Meta, ServedKept, ConfigKept

LEMMA RevisedMeta ==
  ASSUME Typed, NEW u \in Users, NEW S, NEW d \in {"DELETED", Revised(u).status},
         meta' = [Revised(u) EXCEPT !.sources = S, !.status = d]
  PROVE  /\ meta'.status \notin {"READY", "BUILDING"}
         /\ meta'.revision = meta.revision + 1
         /\ ServedKept
  <1>1. Revised(u).status \in {"STALE", "DRAFT"}
    BY DEF Typed, Meta, Revised
  <1> QED BY <1>1 DEF Typed, Meta, Revised, ServedKept

LEMMA ReservedMeta ==
  ASSUME Typed, NEW b, NEW age, NEW signature,
         meta' = [Building(b, age) EXCEPT !.last_auto_signature = signature]
  PROVE  /\ meta'.status = "BUILDING" /\ meta'.build_id = b
         /\ ServedKept /\ ConfigKept
  BY DEF Typed, Meta, Building, ServedKept, ConfigKept

LEMMA ApiEffect == ASSUME TInv, NEW u \in Users, Api(u) PROVE Effect
  <1>t. Typed
    BY DEF TInv
  <1>1. CASE UNCHANGED <<meta, ledger, registry>>
    BY <1>1 DEF Effect, Quiet
  <1>2. CASE CommitEdit(u)
    <2>1. meta' = [Revised(u) EXCEPT !.sources = req[u].sources, !.status = Revised(u).status]
      BY <1>2, <1>t DEF CommitEdit, Revised, Typed, Meta
    <2> QED BY <1>2, <1>t, <2>1, RevisedMeta DEF CommitEdit, Uncontended, Effect, Revising
  <1>3. CASE CommitDelete(u)
    <2>1. meta' = [Revised(u) EXCEPT !.sources = meta.sources, !.status = "DELETED"]
      BY <1>3, <1>t DEF CommitDelete, Revised, Typed, Meta
    <2> QED BY <1>3, <1>t, <2>1, RevisedMeta DEF CommitDelete, Uncontended, Effect, Revising
  <1>4. ASSUME NEW v \in Users, CommitMembers(u, v) PROVE Effect
    <2>1. meta' = [Revised(u) EXCEPT !.sources = meta.sources, !.status = Revised(u).status]
      BY <1>4, <1>t DEF CommitMembers, Revised, Typed, Meta
    <2> QED BY <1>4, <1>t, <2>1, RevisedMeta DEF CommitMembers, Uncontended, Effect, Revising
  <1>5. CASE CommitRebuild(u)
    <2>1. PICK b \in BuildIds, p \in Pins, age \in Ages :
            Record(b, u, p) /\ meta' = Building(b, age)
      BY <1>5, CommitRebuildReserves
    <2>2. meta' = [Building(b, age) EXCEPT !.last_auto_signature = meta.last_auto_signature]
      BY <1>t, <2>1 DEF Building, Typed, Meta
    <2>3. /\ meta'.status = "BUILDING" /\ meta'.build_id = b
          /\ ServedKept /\ ConfigKept
      BY <1>t, <2>2, ReservedMeta
    <2>4. registry' = registry /\ meta.status # "DELETED"
      BY <1>5 DEF CommitRebuild, Uncontended
    <2> QED BY <2>1, <2>3, <2>4 DEF Effect, Reserving
  <1>6. CASE DispatchFailedLedger(u)
    <2>1. Requested(u) \in DOMAIN ledger
      BY <1>6 DEF DispatchFailedLedger, TInv, RequestNamed
    <2> QED BY <1>6, <2>1 DEF DispatchFailedLedger, Effect, Closing
  <1>7. CASE DispatchFailedMeta(u)
    <2>1. CASE Reserved(Requested(u))
      <3>1. meta' = [meta EXCEPT !.status = "FAILED", !.started = meta.started,
                       !.worker_token = meta.worker_token, !.lease = meta.lease]
        BY <1>7, <1>t, <2>1 DEF DispatchFailedMeta, Typed, Meta
      <3>2. meta.status = "BUILDING"
        BY <2>1 DEF Reserved
      <3>3. meta'.status = "FAILED" /\ ServedKept /\ ConfigKept
        BY <1>t, <3>1, <3>2, FailedMeta
      <3>4. registry' = registry /\ ledger' = ledger
        BY <1>7 DEF DispatchFailedMeta
      <3> QED BY <3>2, <3>3, <3>4 DEF Effect, Closing
    <2>2. CASE ~Reserved(Requested(u))
      BY <1>7, <2>2, <1>1 DEF DispatchFailedMeta
    <2> QED BY <2>1, <2>2
  <1> QED BY <1>1, <1>2, <1>3, <1>4, <1>5, <1>6, <1>7
      DEF Api, BeginEdit, BeginDelete, BeginMembers, BeginRebuild, Begin, Invoke, Abandon

LEMMA WorkEffect == ASSUME TInv, NEW w \in Workers, Work(w) PROVE Effect
  <1>t. Typed
    BY DEF TInv
  <1>1. CASE UNCHANGED <<meta, ledger, registry>>
    BY <1>1 DEF Effect, Quiet
  <1>2. CASE Activate(w)
    BY <1>2, <1>1 DEF Activate, Effect, Activating
  <1>3. CASE Fail(w)
    <2>1. worker[w].build \in DOMAIN ledger
      BY <1>3 DEF Fail, TInv, WorkerNamed
    <2>2. CASE Claimed(w) /\ meta' # meta
      <3>1. meta.status = "BUILDING"
        BY <2>2 DEF Claimed, Reserved
      <3>2. meta' = [meta EXCEPT !.status = "FAILED", !.started = Horizon,
                                 !.worker_token = None, !.lease = Horizon]
        BY <1>3, <2>2 DEF Fail
      <3>3. meta'.status = "FAILED" /\ ServedKept /\ ConfigKept
        BY <1>t, <3>1, <3>2, FailedMeta
      <3> QED BY <1>3, <2>1, <3>1, <3>3 DEF Fail, Effect, Closing
    <2>3. CASE meta' = meta
      BY <1>3, <2>1, <2>3 DEF Fail, Effect, Closing
    <2>4. CASE ~Claimed(w)
      BY <1>1, <1>3, <2>4 DEF Fail
    <2> QED BY <2>2, <2>3, <2>4
  <1>4. ASSUME NEW b \in events, Acquire(w, b) PROVE Effect
    BY <1>4 DEF Effect, Acquiring
  <1> QED BY <1>1, <1>2, <1>3, <1>4
      DEF Work, Proceed, ReadLedger, CheckInputs, Build, PutFiles, PutGraph, PutManifest,
          Raise, Crash

LEMMA StepEffect == ASSUME TInv, [Next]_vars PROVE Effect
  <1>t. Typed
    BY DEF TInv
  <1>1. CASE UNCHANGED <<meta, ledger, registry>>
    BY <1>1 DEF Effect, Quiet
  <1>2. ASSUME NEW skew \in 0..RunSkew, Expire(skew) PROVE Effect
    <2>1. meta.build_id \in DOMAIN ledger
      BY <1>2 DEF Expire, TInv
    <2>2. meta'.status = "FAILED" /\ ServedKept /\ ConfigKept
      BY <1>2, <1>t, FailedMeta DEF Expire
    <2> QED BY <1>2, <2>1, <2>2 DEF Expire, Effect, Closing
  <1>3. ASSUME NEW skew \in 0..RunSkew, Claim(skew) PROVE Effect
    <2>1. PICK b \in BuildIds, p \in Pins, age \in Ages :
            /\ Record(b, Owner, p)
            /\ meta' = [Building(b, age) EXCEPT !.last_auto_signature = b]
      BY <1>3, ClaimReserves
    <2> QED BY <1>3, <1>t, <2>1, ReservedMeta, ConstantsAssumption
        DEF Claim, Effect, Reserving
  <1>4. Platform \/ Tick => Effect
    BY ConstantsAssumption
    DEF Platform, DropEvent, Publish, Revoke, Grant, Offboard, Tick, Effect, Quiet
  <1> QED BY <1>1, <1>2, <1>3, <1>4, ApiEffect, WorkEffect
      DEF Next, Reconcile, InvokeClaimed, vars

LEMMA TickKeeps ==
  ASSUME Typed, Tick
  PROVE  /\ ServedKept /\ ConfigKept
         /\ meta'.status = meta.status /\ meta'.build_id = meta.build_id
         /\ meta'.worker_token = meta.worker_token
         /\ meta'.lease = Older(meta.lease)
         /\ meta' = [meta EXCEPT !.started = meta'.started, !.lease = meta'.lease]
  BY DEF Typed, Meta, Tick, ServedKept, ConfigKept

LEMMA AcquireKeeps ==
  ASSUME Typed, NEW w \in Workers, NEW b \in events, Acquire(w, b)
  PROVE  /\ ServedKept /\ ConfigKept
         /\ meta.status = "BUILDING" /\ meta'.status = "BUILDING"
         /\ meta.build_id = b /\ meta'.build_id = b
         /\ ledger' = ledger
  BY DEF Typed, Meta, Acquire, Reserved, ServedKept, ConfigKept

LEMMA ActivateSets ==
  ASSUME WInv, NEW w \in Workers, Activate(w), Activatable(w)
  PROVE  LET b == worker[w].build IN
         /\ b \in DOMAIN ledger /\ b \in DOMAIN artifacts
         /\ meta.status = "BUILDING" /\ meta.build_id = b
         /\ ledger[b].status = "QUEUED" /\ ledger[b].revision = meta.revision
         /\ ledger[b].source_versions = Current(meta.sources)
         /\ ledger' = [ledger EXCEPT ![b].status = "READY"]
         /\ meta'.status = "READY" /\ meta'.build_id = b /\ ConfigKept
         /\ meta'.active_version = b /\ meta'.active_revision = meta.revision
         /\ meta'.active_source_versions = ledger[b].source_versions
         /\ artifacts' = artifacts /\ registry' = registry
         /\ artifacts[b].files /\ artifacts[b].graph \in Contents
         /\ artifacts[b].manifest = artifacts[b].graph
  <1> DEFINE b == worker[w].build
  <1>1. b \in DOMAIN ledger /\ DOMAIN artifacts = DOMAIN ledger
    BY DEF Activate, WInv, TInv, Typed, WorkerNamed
  <1>2. /\ worker[w].seen = "QUEUED" /\ worker[w].content \in Contents
        /\ artifacts[b].files /\ artifacts[b].graph = worker[w].content
        /\ artifacts[b].manifest = worker[w].content
    BY DEF Activate, WInv, WorkerKnows, Holds
  <1>3. /\ meta.status = "BUILDING" /\ meta.build_id = b
        /\ ledger[b].status = "QUEUED" /\ ledger[b].revision = meta.revision
        /\ ledger[b].source_versions = Current(meta.sources)
    BY <1>2 DEF Activatable, Claimed, Reserved, InputsCurrent
  <1>4. /\ ledger' = [ledger EXCEPT ![b].status = "READY"]
        /\ artifacts' = artifacts /\ registry' = registry
        /\ meta' = [meta EXCEPT !.status = "READY", !.active_version = b,
                      !.active_revision = meta.revision,
                      !.active_source_versions = ledger[b].source_versions,
                      !.started = Horizon, !.worker_token = None, !.lease = Horizon]
    BY DEF Activate
  <1>5. meta \in Meta
    BY DEF WInv, TInv, Typed
  <1> HIDE DEF b
  <1>6. /\ meta'.status = "READY" /\ meta'.build_id = meta.build_id /\ ConfigKept
        /\ meta'.active_version = b /\ meta'.active_revision = meta.revision
        /\ meta'.active_source_versions = ledger[b].source_versions
    BY <1>4, <1>5 DEF Meta, ConfigKept
  <1> QED BY <1>1, <1>2, <1>3, <1>4, <1>6 DEF b

(* How the ledger closes, for every kind of step.                           *)
LEMMA ClosedStaysClosed ==
  ASSUME WInv, [Next]_vars, NEW b \in DOMAIN ledger, ledger[b].status # "QUEUED"
  PROVE  b \in DOMAIN ledger' /\ ledger'[b] = ledger[b]
  <1>t. TInv /\ Typed
    BY DEF WInv, TInv
  <1>e. Effect
    BY <1>t, StepEffect
  <1>1. CASE Quiet \/ Revising \/ Acquiring
    BY <1>1 DEF Quiet, Revising, Acquiring, Acquire
  <1>2. CASE Closing
    BY <1>2, <1>t DEF Closing, Typed
  <1>3. CASE Reserving
    BY <1>3, <1>t, RecordAdds DEF Reserving
  <1>4. CASE Activating
    <2>1. PICK w \in Workers : Activate(w) /\ Activatable(w)
      BY <1>4 DEF Activating
    <2> QED BY <1>t, <2>1, ActivateSets DEF Typed
  <1> QED BY <1>e, <1>1, <1>2, <1>3, <1>4 DEF Effect

-----------------------------------------------------------------------------
(* The properties of a state.                                               *)

LEMMA InitMeta ==
  ASSUME Init
  PROVE  /\ meta.active_version = None /\ meta.active_revision = 0
         /\ meta.active_source_versions = NoPins
         /\ meta.status = "DRAFT" /\ meta.revision = 1 /\ meta.sources \subseteq Sources
  BY DEF Init

LEMMA StepActivePointer ==
  WInv /\ ActivePointerSound /\ [Next]_vars => ActivePointerSound'
  <1> SUFFICES ASSUME WInv, ActivePointerSound, [Next]_vars, meta'.active_version # None
               PROVE  ActivePointerSound'
    BY DEF ActivePointerSound
  <1>t. TInv /\ Typed
    BY DEF WInv, TInv
  <1>p. RowsPersist /\ ObjectsPersist
    BY <1>t, StepPersists
  <1>1. CASE ServedKept
    <2> DEFINE b == meta.active_version
    <2>1. /\ b \in DOMAIN ledger /\ ledger[b].status = "READY"
          /\ ledger[b].revision = meta.active_revision
          /\ ledger[b].source_versions = meta.active_source_versions
          /\ artifacts[b].files /\ artifacts[b].graph # None
          /\ artifacts[b].manifest = artifacts[b].graph
      BY <1>1 DEF ActivePointerSound, ServedKept
    <2>2. b \in DOMAIN ledger' /\ ledger'[b] = ledger[b]
      BY <2>1, ClosedStaysClosed
    <2>3. /\ artifacts'[b].files /\ artifacts'[b].graph # None
          /\ artifacts'[b].manifest = artifacts'[b].graph
      BY <1>p, <2>1 DEF ObjectsPersist
    <2> QED BY <1>1, <2>1, <2>2, <2>3 DEF ActivePointerSound, ServedKept
  <1>2. CASE Activating
    <2>1. PICK w \in Workers : Activate(w) /\ Activatable(w)
      BY <1>2 DEF Activating
    <2> DEFINE b == worker[w].build
    <2>2. /\ b \in DOMAIN ledger /\ b \in DOMAIN artifacts
          /\ ledger[b].revision = meta.revision
          /\ ledger' = [ledger EXCEPT ![b].status = "READY"]
          /\ meta'.active_version = b /\ meta'.active_revision = meta.revision
          /\ meta'.active_source_versions = ledger[b].source_versions
          /\ artifacts' = artifacts
          /\ artifacts[b].files /\ artifacts[b].graph \in Contents
          /\ artifacts[b].manifest = artifacts[b].graph
      BY <2>1, ActivateSets
    <2> HIDE DEF b
    <2>3. /\ b \in DOMAIN ledger' /\ ledger'[b].status = "READY"
          /\ ledger'[b].revision = ledger[b].revision
          /\ ledger'[b].source_versions = ledger[b].source_versions
      BY <1>t, <2>2 DEF Typed, Row
    <2> QED BY <2>2, <2>3, ConstantsAssumption DEF ActivePointerSound
  <1>3. ServedKept \/ Activating
    BY <1>t, StepEffect, TickKeeps, AcquireKeeps
    DEF Effect, Quiet, Revising, Closing, Reserving, Acquiring, ServedKept
  <1> QED BY <1>1, <1>2, <1>3

(* Readers of a group are only ever pointed at one complete build, and at *)
(* the row that recorded it, for any number of executions and contents.   *)
THEOREM ActivePointer == Spec => []ActivePointerSound
  <1>1. Init => WInv /\ ActivePointerSound
    BY InitWInv, InitMeta DEF ActivePointerSound
  <1>2. WInv /\ ActivePointerSound /\ [Next]_vars => WInv' /\ ActivePointerSound'
    BY StepWInv, StepActivePointer
  <1> QED BY <1>1, <1>2, PTL DEF Spec

LEMMA StepReady == WInv /\ ReadyIsCurrent /\ [Next]_vars => ReadyIsCurrent'
  <1> SUFFICES ASSUME WInv, ReadyIsCurrent, [Next]_vars, meta'.status = "READY"
               PROVE  ReadyIsCurrent'
    BY DEF ReadyIsCurrent
  <1>t. TInv /\ Typed
    BY DEF WInv, TInv
  <1>e. Effect
    BY <1>t, StepEffect
  <1>1. CASE Quiet
    <2>1. /\ ServedKept /\ ConfigKept /\ meta'.status = meta.status
          /\ meta'.build_id = meta.build_id
      BY <1>1, <1>t, TickKeeps DEF Quiet, ServedKept, ConfigKept
    <2> QED BY <2>1 DEF ReadyIsCurrent, ServedKept, ConfigKept
  <1>2. CASE Closing
    BY <1>2 DEF Closing, ReadyIsCurrent
  <1>3. CASE Activating
    <2>1. PICK w \in Workers : Activate(w) /\ Activatable(w)
      BY <1>3 DEF Activating
    <2>2. /\ meta'.build_id = meta'.active_version
          /\ meta'.active_revision = meta.revision /\ ConfigKept
          /\ meta'.active_source_versions = Current(meta.sources)
      BY <2>1, ActivateSets
    <2> QED BY <2>2 DEF ReadyIsCurrent, ConfigKept, Current
  <1>4. ~Revising /\ ~Reserving /\ ~Acquiring
    BY <1>t, AcquireKeeps DEF Revising, Reserving, Acquiring
  <1> QED BY <1>e, <1>1, <1>2, <1>3, <1>4 DEF Effect

(* READY means the current revision, built by the latest reservation.       *)
THEOREM Ready == Spec => []ReadyIsCurrent
  <1>1. Init => WInv /\ ReadyIsCurrent
    BY InitWInv, InitMeta DEF ReadyIsCurrent
  <1>2. WInv /\ ReadyIsCurrent /\ [Next]_vars => WInv' /\ ReadyIsCurrent'
    BY StepWInv, StepReady
  <1> QED BY <1>1, <1>2, PTL DEF Spec

LEMMA StepBuilding == WInv /\ BuildingIsReserved /\ [Next]_vars => BuildingIsReserved'
  <1> SUFFICES ASSUME WInv, BuildingIsReserved, [Next]_vars, meta'.status = "BUILDING"
               PROVE  BuildingIsReserved'
    BY DEF BuildingIsReserved
  <1>t. TInv /\ Typed
    BY DEF WInv, TInv
  <1>e. Effect
    BY <1>t, StepEffect
  <1>1. CASE Quiet \/ Acquiring
    <2>1. /\ ConfigKept /\ meta'.status = meta.status
          /\ meta'.build_id = meta.build_id /\ ledger' = ledger
      BY <1>1, <1>t, TickKeeps, AcquireKeeps DEF Quiet, Acquiring, ConfigKept
    <2> QED BY <2>1 DEF BuildingIsReserved, ConfigKept
  <1>2. CASE Closing
    <2>1. meta' = meta
      BY <1>2 DEF Closing
    <2>2. /\ meta.build_id \in DOMAIN ledger' /\ ledger'[meta.build_id].status # "READY"
          /\ ledger'[meta.build_id].revision = ledger[meta.build_id].revision
      BY <1>2, <1>t, <2>1 DEF Closing, BuildingIsReserved, Typed, Row
    <2> QED BY <2>1, <2>2 DEF BuildingIsReserved
  <1>3. CASE Reserving
    <2>1. PICK b \in BuildIds, u \in Users, p \in Pins : Record(b, u, p) /\ meta'.build_id = b
      BY <1>3 DEF Reserving
    <2>2. /\ b \in DOMAIN ledger'
          /\ ledger'[b] = [status |-> "QUEUED", revision |-> meta.revision,
                           requested_by |-> u, source_versions |-> p]
      <3>1. Record(b, u, p)
        BY <2>1
      <3>2. DOMAIN ledger' = DOMAIN ledger \cup {b}
        BY <1>t, <3>1, RecordAdds
      <3> QED BY <1>t, <3>1, <3>2 DEF Record
    <2>3. ledger'[b].status = "QUEUED" /\ ledger'[b].revision = meta.revision
      BY <2>2
    <2> QED BY <1>3, <2>1, <2>2, <2>3 DEF Reserving, ConfigKept, BuildingIsReserved
  <1>4. ~Revising /\ ~Activating
    BY ActivateSets DEF Revising, Activating
  <1> QED BY <1>e, <1>1, <1>2, <1>3, <1>4 DEF Effect

(* BUILDING always names an open or failed row of the current revision.     *)
THEOREM Reservation == Spec => []BuildingIsReserved
  <1>1. Init => WInv /\ BuildingIsReserved
    BY InitWInv, InitMeta DEF BuildingIsReserved
  <1>2. WInv /\ BuildingIsReserved /\ [Next]_vars => WInv' /\ BuildingIsReserved'
    BY StepWInv, StepBuilding
  <1> QED BY <1>1, <1>2, PTL DEF Spec

-----------------------------------------------------------------------------
(* One execution per build.  The property is not inductive by itself: what  *)
(* excludes a second execution is the lease that the first one holds for as *)
(* long as it can live.                                                     *)

TokenHeld ==
  \A w \in Workers :
    worker[w].pc # "idle" /\ Reserved(worker[w].build) =>
      meta.worker_token = w /\ meta.lease <= RunLimit

OneInv == WInv /\ TokenHeld /\ OneExecutionPerBuild

LEMMA StillReserved ==
  ASSUME WInv, [Next]_vars, NEW b \in DOMAIN ledger, Reserved(b)'
  PROVE  Reserved(b) /\ (meta' = meta \/ Tick \/ Acquiring)
  <1>t. TInv /\ Typed
    BY DEF WInv, TInv
  <1>e. Effect
    BY <1>t, StepEffect
  <1>p. ledger'[b].revision = ledger[b].revision
    <2>1. RowsPersist /\ ledger[b] \in Row
      BY <1>t, StepPersists DEF Typed
    <2> QED BY <2>1 DEF RowsPersist, Row
  <1>r. meta'.status = "BUILDING" /\ meta'.build_id = b /\ meta'.revision = ledger[b].revision
    BY <1>p DEF Reserved
  <1>1. CASE Quiet
    BY <1>1, <1>t, <1>r, TickKeeps DEF Quiet, Reserved, ConfigKept
  <1>2. CASE Closing
    BY <1>2, <1>r DEF Closing, Reserved
  <1>3. CASE Acquiring
    BY <1>3, <1>t, <1>r, AcquireKeeps DEF Acquiring, Reserved, ConfigKept
  <1>4. ~Reserving
    BY <1>t, <1>r DEF Reserving, Record
  <1>5. ~Revising /\ ~Activating
    BY <1>r, ActivateSets DEF Revising, Activating
  <1> QED BY <1>e, <1>1, <1>2, <1>3, <1>4, <1>5 DEF Effect

(* Whoever is running a reserved build keeps others from acquiring it.      *)
LEMMA AcquireAlone ==
  ASSUME WInv, TokenHeld, NEW w \in Workers, NEW b \in events, Acquire(w, b),
         NEW v \in Workers, worker[v].pc # "idle", worker[v].build = b
  PROVE  FALSE
  <1>1. meta.worker_token = v /\ meta.lease <= RunLimit
    BY DEF Acquire, TokenHeld
  <1>2. meta.lease \in Nat
    BY ConstantsAssumption DEF WInv, TInv, Typed, Meta, Ages, Horizon
  <1> QED BY <1>1, <1>2, ConstantsAssumption DEF Acquire, Free

LEMMA BuildKept ==
  ASSUME WInv, [Next]_vars, ~Acquiring, NEW v \in Workers, worker'[v].pc # "idle"
  PROVE  worker[v].pc # "idle" /\ worker'[v].build = worker[v].build
  <1>t. TInv /\ worker \in [Workers -> Execution] /\ worker[v] \in Execution
    BY DEF WInv, TInv, Typed
  <1>1. CASE worker'[v] = worker[v]
    BY <1>1
  <1>2. CASE Work(v) /\ worker'[v] # worker[v]
    <2>1. Proceed(v)
      BY <1>2 DEF Work, Acquiring
    <2>2. worker[v].pc # "idle"
      BY <2>1 DEF Proceed, ReadLedger, CheckInputs, Build, PutFiles, PutGraph, PutManifest,
         Activate, Fail, Raise, Crash
    <2>3. worker' # [worker EXCEPT ![v] = Idle]
      BY <1>t DEF Idle
    <2>4. \A pc : Goto(v, pc) => worker'[v].build = worker[v].build
      BY <1>t DEF Goto, Execution
    <2>5. CASE ReadLedger(v)
      BY <2>5, <1>t DEF ReadLedger, Execution
    <2>6. CASE Build(v)
      <3>1. ASSUME NEW c \in Contents,
                   worker' = [worker EXCEPT ![v].content = c, ![v].pc = "files"]
            PROVE  worker'[v].build = worker[v].build
        <4>1. worker'[v] = [worker[v] EXCEPT !.content = c, !.pc = "files"]
          BY <1>t, <3>1
        <4> QED BY <1>t, <4>1 DEF Execution
      <3> QED BY <2>4, <2>6, <3>1 DEF Build
    <2> QED BY <2>1, <2>2, <2>3, <2>4, <2>5, <2>6
        DEF Proceed, CheckInputs, PutFiles, PutGraph, PutManifest, Activate, Fail, Raise, Crash
  <1> QED BY <1>t, <1>1, <1>2, OnlyOwnSteps

LEMMA StepOne == OneInv /\ [Next]_vars => OneInv'
  <1> SUFFICES ASSUME OneInv, [Next]_vars PROVE OneInv'
    OBVIOUS
  <1>t. WInv /\ TInv /\ Typed /\ WInv'
    BY StepWInv DEF OneInv, WInv, TInv
  <1>a. ASSUME NEW w \in Workers, NEW b \in events, Acquire(w, b), NEW v \in Workers, v # w
        PROVE  worker'[v] = worker[v] /\ (worker[v].pc # "idle" => worker[v].build # b)
    BY <1>a, <1>t, AcquireAlone DEF OneInv, Acquire, Typed
  <1>w. ASSUME NEW w \in Workers, NEW b \in events, Acquire(w, b)
        PROVE  /\ worker'[w].build = b /\ worker'[w].pc # "idle"
               /\ meta'.worker_token = w /\ meta'.lease = 0 /\ meta'.build_id = b
    BY <1>w, <1>t, AcquireKeeps DEF Acquire, Typed, Meta
  <1>1. OneExecutionPerBuild'
    <2>1. CASE Acquiring
      <3>1. PICK w \in Workers, b \in events : Acquire(w, b)
        BY <2>1 DEF Acquiring
      <3> QED BY <3>1, <1>a, <1>w DEF OneInv, OneExecutionPerBuild
    <2>2. CASE ~Acquiring
      BY <2>2, <1>t, BuildKept DEF OneInv, OneExecutionPerBuild
    <2> QED BY <2>1, <2>2
  <1>2. TokenHeld'
    <2> SUFFICES ASSUME NEW v \in Workers, worker'[v].pc # "idle", Reserved(worker[v].build)'
                 PROVE  meta'.worker_token = v /\ meta'.lease <= RunLimit
      BY DEF TokenHeld
    <2>1. CASE Acquiring
      <3>1. PICK w \in Workers, b \in events : Acquire(w, b)
        BY <2>1 DEF Acquiring
      <3>2. v = w
        BY <3>1, <1>a, <1>w DEF Reserved
      <3> QED BY <3>1, <3>2, <1>w, ConstantsAssumption
    <2>2. CASE ~Acquiring
      <3>1. worker[v].pc # "idle" /\ worker'[v].build = worker[v].build
        BY <2>2, <1>t, BuildKept
      <3>2. worker[v].build \in DOMAIN ledger
        BY <3>1, <1>t DEF TInv, WorkerNamed
      <3>3. Reserved(worker[v].build) /\ (meta' = meta \/ Tick)
        BY <2>2, <3>1, <3>2, <1>t, StillReserved DEF Reserved
      <3>4. meta.worker_token = v /\ meta.lease <= RunLimit
        BY <3>1, <3>3 DEF OneInv, TokenHeld
      <3>5. CASE Tick
        <4>1. meta.lease < RunLimit /\ meta.lease \in Nat
          BY <3>1, <3>4, <3>5, <1>t, ConstantsAssumption
          DEF Tick, Typed, Meta, Ages, Horizon
        <4> QED BY <3>4, <3>5, <4>1, <1>t, TickKeeps, ConstantsAssumption DEF Older, Horizon
      <3> QED BY <3>3, <3>4, <3>5
    <2> QED BY <2>1, <2>2
  <1> QED BY <1>t, <1>1, <1>2 DEF OneInv

(* However often an invocation is delivered or retried, and however late, *)
(* no two executions of one build are alive at the same time.             *)
THEOREM OneExecution == Spec => []OneExecutionPerBuild
  <1>1. Init => OneInv
    <2> SUFFICES ASSUME Init PROVE OneInv
      OBVIOUS
    <2>1. \A w \in Workers : worker[w].pc = "idle"
      BY DEF Init, Idle
    <2> QED BY <2>1, InitWInv DEF OneInv, TokenHeld, OneExecutionPerBuild
  <1>2. OneInv => OneExecutionPerBuild
    BY DEF OneInv
  <1> QED BY <1>1, <1>2, StepOne, PTL DEF Spec

-----------------------------------------------------------------------------
(* The properties of a step.                                                *)

(* A row that a worker, a lost dispatch or the timeout closed stays as it *)
(* is, and nobody rewrites the inputs a row pins.                         *)
THEOREM RowsClose == Spec => LedgerRowsClose
  <1> DEFINE Closes ==
        \A b \in DOMAIN ledger :
          /\ b \in DOMAIN ledger'
          /\ ledger'[b] = [ledger[b] EXCEPT !.status = ledger'[b].status]
          /\ ledger[b].status # "QUEUED" => ledger'[b] = ledger[b]
  <1>1. WInv /\ [Next]_vars => [Closes]_vars
    BY StepPersists, ClosedStaysClosed DEF WInv, RowsPersist
  <1> QED BY <1>1, InitWInv, StepWInv, PTL DEF Spec, LedgerRowsClose

(* Nothing slips between the worker's checks and its commit.                *)
THEOREM Activation == Spec => ActivationIsCurrent
  <1> DEFINE Fresh ==
        meta'.active_version # meta.active_version =>
          LET b == meta'.active_version IN
          /\ meta.status = "BUILDING" /\ meta.build_id = b
          /\ meta'.active_revision = meta.revision
          /\ meta'.active_source_versions = Current(meta.sources)
          /\ CanWrite(ledger[b].requested_by)
  <1>1. ASSUME WInv, [Next]_vars PROVE Fresh
    <2>t. TInv /\ Typed
      BY <1>1 DEF WInv, TInv
    <2>1. CASE ServedKept
      BY <2>1 DEF ServedKept
    <2>2. CASE Activating
      <3>1. PICK w \in Workers : Activate(w) /\ Activatable(w)
        BY <2>2 DEF Activating
      <3>2. LET b == worker[w].build IN
            /\ meta.status = "BUILDING" /\ meta.build_id = b
            /\ meta'.active_version = b /\ meta'.active_revision = meta.revision
            /\ meta'.active_source_versions = Current(meta.sources)
        BY <1>1, <3>1, ActivateSets
      <3>3. CanWrite(ledger[worker[w].build].requested_by)
        BY <3>1, <3>2 DEF Activatable, CanWrite
      <3> QED BY <3>2, <3>3
    <2>3. ServedKept \/ Activating
      BY <1>1, <2>t, StepEffect, TickKeeps, AcquireKeeps
      DEF Effect, Quiet, Revising, Closing, Reserving, Acquiring, ServedKept
    <2> QED BY <2>1, <2>2, <2>3
  <1>2. WInv /\ [Next]_vars => [Fresh]_vars
    BY <1>1
  <1> QED BY <1>2, InitWInv, StepWInv, PTL DEF Spec, ActivationIsCurrent

(* The tombstone of a deleted group fences every late writer.               *)
THEOREM Deleted == Spec => DeletedIsFinal
  <1> DEFINE Final ==
        meta.status = "DELETED" =>
          meta' = [meta EXCEPT !.started = meta'.started, !.lease = meta'.lease]
  <1>1. ASSUME WInv, [Next]_vars, meta.status = "DELETED"
        PROVE  meta' = [meta EXCEPT !.started = meta'.started, !.lease = meta'.lease]
    <2>t. TInv /\ Typed /\ meta \in Meta
      BY <1>1 DEF WInv, TInv, Typed
    <2>1. meta' = meta \/ Tick
      BY <1>1, <2>t, StepEffect, AcquireKeeps, ActivateSets
      DEF Effect, Quiet, Revising, Closing, Reserving, Acquiring, Activating
    <2>2. meta' = meta => meta' = [meta EXCEPT !.started = meta'.started, !.lease = meta'.lease]
      BY <2>t DEF Meta
    <2> QED BY <2>t, <2>1, <2>2, TickKeeps
  <1>2. WInv /\ [Next]_vars => [Final]_vars
    BY <1>1
  <1> QED BY <1>2, InitWInv, StepWInv, PTL DEF Spec, DeletedIsFinal

-----------------------------------------------------------------------------
(* The refinement.                                                          *)

Ended == {b \in DOMAIN ledger : ledger[b].status # "QUEUED"}
Published == [s \in Sources |-> registry[s].version]
Served == [build |-> meta.active_version, revision |-> meta.active_revision,
           versions |-> meta.active_source_versions]

LEMMA EndedSame ==
  ASSUME ledger' = ledger PROVE Ended' = Ended
  BY DEF Ended

LEMMA EndedMore ==
  ASSUME Typed, NEW b \in DOMAIN ledger, NEW st \in {"READY", "FAILED"},
         ledger[b].status = "QUEUED", ledger' = [ledger EXCEPT ![b].status = st]
  PROVE  b \notin Ended /\ Ended' = Ended \cup {b}
  <1>1. /\ DOMAIN ledger' = DOMAIN ledger /\ ledger'[b].status = st
        /\ \A c \in DOMAIN ledger : c # b => ledger'[c] = ledger[c]
    BY StatusWritePersists
  <1> QED BY <1>1 DEF Ended

LEMMA EndedReserved ==
  ASSUME Typed, NEW b \in BuildIds, NEW u \in Users, NEW p \in Pins, Record(b, u, p)
  PROVE  Ended' = Ended
  <1>1. /\ DOMAIN ledger' = DOMAIN ledger \cup {b}
        /\ \A c \in DOMAIN ledger : ledger'[c] = ledger[c]
    BY RecordAdds
  <1>2. ledger'[b].status = "QUEUED"
    BY <1>1 DEF Record
  <1> QED BY <1>1, <1>2 DEF Ended

LEMMA InitServing == Init => Serving!Init
  <1> SUFFICES ASSUME Init PROVE Serving!Init
    OBVIOUS
  <1>1. {b \in DOMAIN ledger : ledger[b].status # "QUEUED"} = {}
    BY DEF Init
  <1>2. [s \in Sources |-> registry[s].version] = [s \in Sources |-> 1]
    BY DEF Init
  <1> QED BY <1>1, <1>2, InitMeta DEF Serving!Init, Serving!Nothing, NoPins

LEMMA StepServing == WInv /\ [Next]_vars => [Serving!Next]_(Serving!vars)
  <1> SUFFICES ASSUME WInv, [Next]_vars PROVE Serving!Next \/ UNCHANGED Serving!vars
    OBVIOUS
  <1>t. TInv /\ Typed /\ Typed'
    BY StepWInv DEF WInv, TInv
  <1>e. Effect
    BY <1>t, StepEffect
  <1>s. meta'.sources \in SUBSET Sources
    BY <1>t DEF Typed, Meta
  <1>k. ServedKept => Served' = Served
    BY DEF ServedKept, Served
  <1>r. registry' = registry => Published' = Published
    BY DEF Published
  <1>1. CASE Quiet
    <2>1. /\ ServedKept /\ ConfigKept /\ meta'.status = meta.status
      BY <1>1, <1>t, TickKeeps DEF Quiet, ServedKept, ConfigKept
    <2>2. Ended' = Ended
      BY <1>1, EndedSame DEF Quiet
    <2>3. CASE registry' = registry
      BY <1>k, <1>r, <2>1, <2>2, <2>3 DEF Serving!vars, ConfigKept, Served, Published, Ended
    <2>4. ASSUME NEW s \in Sources, NEW usable \in BOOLEAN, Publish(s, usable)
          PROVE  Serving!Publish(s)
      <3>1. Published' = [Published EXCEPT ![s] = @ + 1]
        BY <1>t, <2>4 DEF Publish, Published, Typed
      <3> QED BY <1>k, <2>1, <2>2, <3>1
          DEF Serving!Publish, ConfigKept, Served, Published, Ended
    <2> QED BY <1>1, <2>3, <2>4 DEF Quiet, Serving!Next
  <1>2. CASE Revising
    <2>1. Ended' = Ended
      BY <1>2, EndedSame DEF Revising
    <2>2. Serving!Revise
      BY <1>2, <1>s, <1>k, <1>r, <2>1 DEF Revising, Serving!Revise, Served, Published, Ended
    <2> QED BY <2>2 DEF Serving!Next
  <1>3. CASE Closing
    <2>1. /\ ServedKept /\ ConfigKept
          /\ (meta'.status = "DELETED") = (meta.status = "DELETED")
      BY <1>3 DEF Closing, ServedKept, ConfigKept
    <2>2. Published' = Published
      BY <1>3, <1>r DEF Closing
    <2>3. CASE ledger' = ledger
      BY <1>k, <2>1, <2>2, <2>3, EndedSame
      DEF Serving!vars, ConfigKept, Served, Published, Ended
    <2>4. ASSUME NEW b \in DOMAIN ledger, ledger[b].status = "QUEUED",
                 ledger' = [ledger EXCEPT ![b].status = "FAILED"]
          PROVE  Serving!Next
      <3>1. b \notin Ended /\ Ended' = Ended \cup {b}
        BY <1>t, <2>4, EndedMore
      <3>2. Serving!End(b)
        BY <1>k, <2>1, <2>2, <3>1 DEF Serving!End, ConfigKept, Served, Published, Ended
      <3> QED BY <1>t, <3>2 DEF Serving!Next, Typed
    <2> QED BY <1>3, <2>3, <2>4 DEF Closing
  <1>4. CASE Reserving
    <2>1. Ended' = Ended
      BY <1>4, <1>t, EndedReserved DEF Reserving
    <2> QED BY <1>4, <1>k, <1>r, <2>1
        DEF Reserving, Serving!vars, ConfigKept, Served, Published, Ended
  <1>5. CASE Acquiring
    <2>1. /\ ServedKept /\ ConfigKept /\ registry' = registry /\ ledger' = ledger
          /\ meta.status = "BUILDING" /\ meta'.status = "BUILDING"
      BY <1>5, <1>t, AcquireKeeps DEF Acquiring, Acquire
    <2>2. Ended' = Ended
      BY <2>1, EndedSame
    <2> QED BY <1>k, <1>r, <2>1, <2>2 DEF Serving!vars, ConfigKept, Served, Published, Ended
  <1>6. CASE Activating
    <2>1. PICK w \in Workers : Activate(w) /\ Activatable(w)
      BY <1>6 DEF Activating
    <2> DEFINE b == worker[w].build
    <2>2. /\ b \in DOMAIN ledger
          /\ meta.status = "BUILDING" /\ meta'.status = "READY" /\ ConfigKept
          /\ ledger[b].status = "QUEUED"
          /\ ledger' = [ledger EXCEPT ![b].status = "READY"]
          /\ meta'.active_version = b /\ meta'.active_revision = meta.revision
          /\ meta'.active_source_versions = Current(meta.sources)
          /\ registry' = registry
      BY <2>1, ActivateSets
    <2> HIDE DEF b
    <2>3. b \notin Ended /\ Ended' = Ended \cup {b}
      BY <1>t, <2>2, EndedMore
    <2>4. Current(meta.sources) = [s \in meta.sources |-> Published[s]]
      BY <1>t DEF Current, Published, Typed, Meta
    <2>5. Served' = [build |-> b, revision |-> meta.revision,
                     versions |-> [s \in meta.sources |-> Published[s]]]
      BY <2>2, <2>4 DEF Served
    <2>6. PICK c \in BuildIds : c = b
      BY <1>t, <2>2 DEF Typed
    <2>7. Serving!Serve(c)
      BY <1>r, <2>2, <2>3, <2>5, <2>6 DEF Serving!Serve, ConfigKept, Served, Published, Ended
    <2> QED BY <2>7 DEF Serving!Next
  <1> QED BY <1>e, <1>1, <1>2, <1>3, <1>4, <1>5, <1>6 DEF Effect

(* A group implements what GroupServing promises its readers: every step of *)
(* every actor is one step of the promise or none.                          *)
THEOREM Implements == Spec => Serves
  <1>1. Init => WInv /\ Serving!Init
    BY InitWInv, InitServing
  <1>2. WInv /\ [Next]_vars => WInv' /\ [Serving!Next]_(Serving!vars)
    BY StepWInv, StepServing
  <1> QED BY <1>1, <1>2, PTL DEF Spec, Serves, Serving!Spec

=============================================================================
