------------------------------ MODULE GroupBuild ------------------------------
(***************************************************************************)
(* One source group: the management API that edits and reserves builds     *)
(* (lambdas/platform_api/groups_api.py), the asynchronous worker that      *)
(* builds and activates them (lambdas/group_worker/handler.py), the        *)
(* five-minute reconciler that times builds out and dispatches automatic   *)
(* ones (lambdas/group_worker/reconcile.py), and what the rest of the      *)
(* platform does to the group's sources and users meanwhile.               *)
(*                                                                         *)
(* Every DynamoDB transaction is one step.  A handler that reads, decides  *)
(* and then commits under a condition weaker than what it read is two      *)
(* steps; `_expire` and the claim of `_process` condition on every field   *)
(* they read, so that each is one step.  READY stands for READY and        *)
(* PARTIAL, which every condition of the code treats alike; a row's        *)
(* version stands for its (active_source_version, description_version)     *)
(* pair, which every condition compares together.                          *)
(***************************************************************************)
EXTENDS Naturals

CONSTANTS
  Users,         \* Cognito subs that may hold a role in the group
  Owner,         \* META.owner_sub
  Sources,       \* registry rows that may be members of the group
  Keys,          \* idempotency keys of rebuild requests
  Workers,       \* concurrent Lambda executions of the worker
  Contents,      \* what the engine may compute from one set of inputs
  BuildLease,    \* BUILD_LEASE_SECONDS, in clock ticks
  WorkerLease,   \* WORKER_LEASE_SECONDS and the reconciler's LEASE_SECONDS
  RunLimit,      \* the Lambda timeout of the worker function
  RunSkew,       \* how old the reconciler's `now` may be when it is used
  Exposed,       \* bound: users who may be offboarded or lose and regain sources
  MaxVersion,    \* bound: versions published for each source
  MaxRevision,   \* bound: configuration revisions of the group
  None           \* an absent attribute

ASSUME ConstantsAssumption ==
  /\ Owner \in Users /\ Exposed \subseteq Users
  /\ BuildLease \in Nat /\ WorkerLease \in Nat /\ RunLimit \in Nat /\ RunSkew \in Nat
  /\ BuildLease <= WorkerLease /\ RunLimit < WorkerLease
  /\ MaxVersion \in Nat \ {0} /\ MaxRevision \in Nat \ {0}
  /\ None \notin Workers /\ None \notin Contents

VARIABLES
  meta,       \* the group's META row
  ledger,     \* its BUILD# rows: build id -> row
  artifacts,  \* groups/<gid>/versions/<bid>/ in S3: build id -> objects
  registry,   \* the sources' registry rows
  writers,    \* users whose group grant says owner or editor
  reach,      \* user -> sources that are enabled and public or granted
  gone,       \* users with a USER#<sub>/DELETED tombstone
  events,     \* builds whose asynchronous invocation Lambda may still start
  req,        \* user -> the API request it has in progress
  worker,     \* worker -> the execution it is
  recon       \* the build the reconciler has claimed and not yet invoked

vars == <<meta, ledger, artifacts, registry, writers, reach, gone, events,
          req, worker, recon>>

-----------------------------------------------------------------------------
(* Clocks.  META keeps build_started_at and worker_lease_expires_at; the    *)
(* model keeps the time elapsed since each was written, up to Horizon,      *)
(* which also stands for 0 and for an absent attribute: no comparison of    *)
(* the code tells them from a lapsed one.                                   *)

Horizon == WorkerLease + RunSkew + 1
Ages == 0..Horizon
Older(age) == IF age < Horizon THEN age + 1 ELSE age

(* Build ids.  A manual id is a digest of (sub, gid, idempotency key), an   *)
(* automatic one of the input signature.                                    *)

NoPins == [s \in {} |-> 0]
Pins == UNION {[S -> 1..MaxVersion] : S \in SUBSET Sources}
ManualBuild(u, k) == <<"bld", u, k>>
AutoBuild(rev, pins) == <<"auto", rev, pins>>
Revisions == 1..MaxRevision
BuildIds == ({"bld"} \X Users \X Keys) \cup ({"auto"} \X Revisions \X Pins)

Row == [status: {"QUEUED", "READY", "FAILED"}, revision: Revisions, requested_by: Users,
        source_versions: Pins]
Objects == [files: BOOLEAN, graph: Contents \cup {None}, manifest: Contents \cup {None}]
Meta == [status: {"DRAFT", "BUILDING", "READY", "STALE", "FAILED", "DELETED"},
         revision: Revisions, sources: SUBSET Sources,
         active_version: BuildIds \cup {None}, active_revision: Revisions \cup {0},
         active_source_versions: Pins,
         build_id: BuildIds \cup {None}, started: Ages,
         worker_token: Workers \cup {None}, lease: Ages,
         last_auto_signature: BuildIds \cup {None}]
Request == [op: {"none", "edit", "delete", "members", "rebuild", "invoke",
                 "unconfirmed", "unrecorded"},
            revision: Revisions \cup {0}, built: BOOLEAN, sources: SUBSET Sources, rows: Pins,
            key: Keys \cup {None}]
Execution == [pc: {"idle", "acquired", "claimed", "inputs", "files", "graph",
                   "manifest", "activate", "failing"},
              build: BuildIds \cup {None}, seen: {"QUEUED", "READY", "FAILED", None},
              content: Contents \cup {None}]

NoRequest == [op |-> "none", revision |-> 0, built |-> FALSE, sources |-> {},
              rows |-> NoPins, key |-> None]
Idle == [pc |-> "idle", build |-> None, seen |-> None, content |-> None]

-----------------------------------------------------------------------------
(* What the guards of the code read.                                        *)

(* The current version of every source in S. *)
Current(S) == [s \in S |-> registry[s].version]

(* `source_access` and `_active`: no tombstone, and every source of S is    *)
(* enabled and public or granted.                                           *)
CanRead(u, S) == u \notin gone /\ S \subseteq reach[u]

(* `require_access(write=True)`. *)
CanWrite(u) ==
  /\ meta.status # "DELETED"
  /\ u \in writers
  /\ CanRead(u, meta.sources)

(* META still carries the reservation of build b: the condition of every    *)
(* write that a worker or an unconfirmed dispatch makes.                    *)
Reserved(b) ==
  /\ meta.status = "BUILDING"
  /\ meta.build_id = b
  /\ meta.revision = ledger[b].revision

(* Every source has an immutable snapshot version. *)
Versioned(S) == \A s \in S : registry[s].usable

Init ==
  /\ \E S \in SUBSET Sources :
       meta = [status |-> "DRAFT", revision |-> 1, sources |-> S,
               active_version |-> None, active_revision |-> 0,
               active_source_versions |-> NoPins,
               build_id |-> None, started |-> Horizon,
               worker_token |-> None, lease |-> Horizon,
               last_auto_signature |-> None]
  /\ ledger = [b \in {} |-> NoPins]
  /\ artifacts = [b \in {} |-> NoPins]
  /\ registry = [s \in Sources |-> [version |-> 1, usable |-> TRUE]]
  /\ writers = {Owner}
  /\ reach = [u \in Users |-> Sources]
  /\ gone = {}
  /\ events = {}
  /\ req = [u \in Users |-> NoRequest]
  /\ worker = [w \in Workers |-> Idle]
  /\ recon = None

-----------------------------------------------------------------------------
(* The management API.  A request reads META, grants and registry rows,     *)
(* then commits one transaction whose conditions are weaker than what was   *)
(* read: the revision, the tombstones, the author's grant and the source    *)
(* rows it looked at.                                                       *)

Begin(u, op, S, rows, k) ==
  /\ req[u].op = "none"
  /\ u \notin gone
  /\ meta.status # "DELETED"
  /\ req' = [req EXCEPT ![u] =
       [op |-> op, revision |-> meta.revision, built |-> meta.active_version # None,
        sources |-> S, rows |-> rows, key |-> k]]
  /\ UNCHANGED <<meta, ledger, artifacts, registry, writers, reach, gone, events,
                 worker, recon>>

(* `_edit`: the owner may repair a configuration that names sources it can  *)
(* no longer read, but then adds none and no source row is guarded.         *)
BeginEdit(u) ==
  /\ meta.revision < MaxRevision
  /\ \E S \in SUBSET Sources :
       \/ CanWrite(u) /\ CanRead(u, S) /\ Begin(u, "edit", S, Current(S), None)
       \/ /\ u = Owner /\ ~CanWrite(u) /\ S \subseteq meta.sources
          /\ Begin(u, "edit", S, IF CanRead(u, S) THEN Current(S) ELSE NoPins, None)

BeginDelete(u) ==
  /\ meta.revision < MaxRevision
  /\ u = Owner
  /\ Begin(u, "delete", meta.sources, NoPins, None)

BeginMembers(u) ==
  /\ meta.revision < MaxRevision
  /\ u = Owner /\ CanWrite(u)
  /\ Begin(u, "members", meta.sources, Current(meta.sources), None)

(* `_rebuild`, up to its transaction.  A replayed key, which returns the    *)
(* stored ledger row, changes nothing.                                      *)
BeginRebuild(u, k) ==
  /\ CanWrite(u)
  /\ ManualBuild(u, k) \notin DOMAIN ledger
  /\ meta.sources # {}
  /\ meta.started >= BuildLease
  /\ Versioned(meta.sources)
  /\ Begin(u, "rebuild", meta.sources, Current(meta.sources), k)

(* The conditions every commit shares: `_meta_update`, `_authority`,        *)
(* `_active` and the guards `_source_access` returned.                      *)
Uncontended(u) ==
  /\ meta.revision = req[u].revision
  /\ meta.status # "DELETED"
  /\ u \in writers
  /\ CanRead(u, DOMAIN req[u].rows)
  /\ Current(DOMAIN req[u].rows) = req[u].rows

(* Mutant of Revised: an edit leaves the status alone.                      *)
RevisedSilently(u) == [meta EXCEPT !.revision = @ + 1]

(* `_next_fields`: a new revision, STALE if the row that was READ had an    *)
(* active version.                                                          *)
Revised(u) == [meta EXCEPT !.revision = @ + 1,
                           !.status = IF req[u].built THEN "STALE" ELSE "DRAFT"]

Done(u) == req' = [req EXCEPT ![u] = NoRequest]

CommitEdit(u) ==
  /\ req[u].op = "edit"
  /\ Uncontended(u)
  /\ meta.revision < MaxRevision
  /\ meta' = [Revised(u) EXCEPT !.sources = req[u].sources]
  /\ Done(u)
  /\ UNCHANGED <<ledger, artifacts, registry, writers, reach, gone, events, worker, recon>>

CommitDelete(u) ==
  /\ req[u].op = "delete"
  /\ Uncontended(u)
  /\ meta.revision < MaxRevision
  /\ meta' = [Revised(u) EXCEPT !.status = "DELETED"]
  /\ Done(u)
  /\ UNCHANGED <<ledger, artifacts, registry, writers, reach, gone, events, worker, recon>>

(* `_members`: the owner makes v an editor, or takes the role away (removed *)
(* or made a viewer).                                                       *)
CommitMembers(u, v) ==
  /\ req[u].op = "members"
  /\ Uncontended(u)
  /\ meta.revision < MaxRevision
  /\ v # Owner
  /\ \/ CanRead(v, meta.sources) /\ writers' = writers \cup {v}
     \/ writers' = writers \ {v}
  /\ meta' = Revised(u)
  /\ Done(u)
  /\ UNCHANGED <<ledger, artifacts, registry, reach, gone, events, worker, recon>>

(* A reservation: META turns BUILDING without a worker, and the ledger row  *)
(* that pins its inputs appears, in one transaction.                        *)
Building(b, age) ==
  [meta EXCEPT !.status = "BUILDING", !.build_id = b, !.started = age,
               !.worker_token = None, !.lease = Horizon]

(* Mutant of Record: the reservation commits without its ledger row.        *)
RecordLater(b, u, pins) == b \notin DOMAIN ledger /\ UNCHANGED <<ledger, artifacts>>

Record(b, u, pins) ==
  /\ b \notin DOMAIN ledger
  /\ ledger' = [c \in DOMAIN ledger \cup {b} |->
       IF c = b THEN [status |-> "QUEUED", revision |-> meta.revision,
                      requested_by |-> u, source_versions |-> pins]
       ELSE ledger[c]]
  /\ artifacts' = [c \in DOMAIN artifacts \cup {b} |->
       IF c = b THEN [files |-> FALSE, graph |-> None, manifest |-> None]
       ELSE artifacts[c]]

CommitRebuild(u) ==
  /\ req[u].op = "rebuild"
  /\ Uncontended(u)
  /\ meta.started >= BuildLease
  /\ meta' = Building(ManualBuild(u, req[u].key), 0)
  /\ Record(ManualBuild(u, req[u].key), u, req[u].rows)
  /\ req' = [req EXCEPT ![u].op = "invoke"]
  /\ UNCHANGED <<registry, writers, reach, gone, events, worker, recon>>

(* The asynchronous invocation that follows: accepted, or without a 202, in *)
(* which case Lambda may have it all the same.                              *)
Requested(u) == ManualBuild(u, req[u].key)

Invoke(u) ==
  /\ req[u].op = "invoke"
  /\ \/ events' = events \cup {Requested(u)} /\ Done(u)
     \/ /\ events' \in {events, events \cup {Requested(u)}}
        /\ req' = [req EXCEPT ![u].op = "unconfirmed"]
  /\ UNCHANGED <<meta, ledger, artifacts, registry, writers, reach, gone, worker, recon>>

(* `_dispatch_failed`: the ledger row first; only if it was still QUEUED,   *)
(* and separately, META.                                                    *)
DispatchFailedLedger(u) ==
  /\ req[u].op = "unconfirmed"
  /\ IF ledger[Requested(u)].status = "QUEUED"
     THEN /\ ledger' = [ledger EXCEPT ![Requested(u)].status = "FAILED"]
          /\ req' = [req EXCEPT ![u].op = "unrecorded"]
     ELSE Done(u) /\ UNCHANGED ledger
  /\ UNCHANGED <<meta, artifacts, registry, writers, reach, gone, events, worker, recon>>

DispatchFailedMeta(u) ==
  /\ req[u].op = "unrecorded"
  /\ meta' = IF Reserved(Requested(u)) THEN [meta EXCEPT !.status = "FAILED"] ELSE meta
  /\ Done(u)
  /\ UNCHANGED <<ledger, artifacts, registry, writers, reach, gone, events, worker, recon>>

(* A request whose transaction is cancelled (409), or whose Lambda dies     *)
(* between any two of its calls.                                            *)
Abandon(u) ==
  /\ req[u].op # "none"
  /\ Done(u)
  /\ UNCHANGED <<meta, ledger, artifacts, registry, writers, reach, gone, events,
                 worker, recon>>

-----------------------------------------------------------------------------
(* The worker.  Lambda delivers an invocation any number of times, late or  *)
(* never, until it drops it.                                                *)

DropEvent(b) ==
  /\ b \in events
  /\ events' = events \ {b}
  /\ UNCHANGED <<meta, ledger, artifacts, registry, writers, reach, gone, req,
                 worker, recon>>

(* `_claimed` with the token of execution w; mutant: on the token alone.     *)
ClaimedByToken(w) == meta.worker_token = w
Claimed(w) == Reserved(worker[w].build) /\ meta.worker_token = w

(* `_checkpoint`: the claim holds and the requester may still write.        *)
Checkpoint(w) == Claimed(w) /\ CanWrite(ledger[worker[w].build].requested_by)

(* The rows are those whose versions the reservation pinned; mutant: only   *)
(* that the same sources are there.                                         *)
SourcesCurrent(w) == DOMAIN ledger[worker[w].build].source_versions = meta.sources
InputsCurrent(w) == ledger[worker[w].build].source_versions = Current(meta.sources)

Goto(w, pc) == worker' = [worker EXCEPT ![w].pc = pc]

(* No execution holds the build, or the lease of the one that does lapsed;  *)
(* mutant: a lease as long as the Lambda timeout.                           *)
FreeAtTimeout == meta.worker_token = None \/ meta.lease >= RunLimit
Free == meta.worker_token = None \/ meta.lease > WorkerLease

(* `_acquire`.  An execution whose claim fails returns BUSY or STALE and    *)
(* changes nothing.                                                         *)
Acquire(w, b) ==
  /\ worker[w].pc = "idle"
  /\ b \in events
  /\ Reserved(b)
  /\ Free
  /\ meta' = [meta EXCEPT !.worker_token = w, !.lease = 0]
  /\ worker' = [worker EXCEPT ![w] =
       [pc |-> "acquired", build |-> b, seen |-> None, content |-> None]]
  /\ UNCHANGED <<ledger, artifacts, registry, writers, reach, gone, events, req, recon>>

ReadLedger(w) ==
  /\ worker[w].pc = "acquired"
  /\ LET s == ledger[worker[w].build].status IN
     worker' = [worker EXCEPT ![w].seen = s,
                              ![w].pc = IF s = "QUEUED" THEN "claimed" ELSE "failing"]
  /\ UNCHANGED <<meta, ledger, artifacts, registry, writers, reach, gone, events,
                 req, recon>>

(* Rows, ledger comparison, guards, and the checkpoint after them.          *)
CheckInputs(w) ==
  /\ worker[w].pc = "claimed"
  /\ Goto(w, IF Checkpoint(w) /\ meta.sources # {} /\ InputsCurrent(w)
             THEN "inputs" ELSE "failing")
  /\ UNCHANGED <<meta, ledger, artifacts, registry, writers, reach, gone, events,
                 req, recon>>

(* Loading the pinned snapshots and running the engine, a checkpoint before *)
(* each model call.  A model makes the result differ between executions.    *)
Build(w) ==
  /\ worker[w].pc = "inputs"
  /\ IF Checkpoint(w) /\ InputsCurrent(w)
     THEN \E c \in Contents :
            worker' = [worker EXCEPT ![w].content = c, ![w].pc = "files"]
     ELSE Goto(w, "failing")
  /\ UNCHANGED <<meta, ledger, artifacts, registry, writers, reach, gone, events,
                 req, recon>>

(* The text copies: their bytes are those of the pinned snapshots.          *)
PutFiles(w) ==
  /\ worker[w].pc = "files"
  /\ IF Checkpoint(w) /\ InputsCurrent(w)
     THEN /\ artifacts' = [artifacts EXCEPT ![worker[w].build].files = TRUE]
          /\ Goto(w, "graph")
     ELSE Goto(w, "failing") /\ UNCHANGED artifacts
  /\ UNCHANGED <<meta, ledger, registry, writers, reach, gone, events, req, recon>>

(* `_immutable_put`, IfNoneMatch: an object that already exists is left     *)
(* alone, and with other bytes fails the build; mutant: it never does.      *)
AcceptsAny(old, new) == TRUE
Accepts(old, new) == old \in {None, new}

PutGraph(w) ==
  /\ worker[w].pc = "graph"
  /\ LET b == worker[w].build IN
     IF Accepts(artifacts[b].graph, worker[w].content)
     THEN /\ artifacts' = [artifacts EXCEPT ![b].graph =
                               IF @ = None THEN worker[w].content ELSE @]
          /\ Goto(w, "manifest")
     ELSE Goto(w, "failing") /\ UNCHANGED artifacts
  /\ UNCHANGED <<meta, ledger, registry, writers, reach, gone, events, req, recon>>

(* The manifest carries the checksum of the graph this execution computed.  *)
PutManifest(w) ==
  /\ worker[w].pc = "manifest"
  /\ LET b == worker[w].build IN
     IF Accepts(artifacts[b].manifest, worker[w].content)
     THEN /\ artifacts' = [artifacts EXCEPT ![b].manifest =
                               IF @ = None THEN worker[w].content ELSE @]
          /\ Goto(w, "activate")
     ELSE Goto(w, "failing") /\ UNCHANGED artifacts
  /\ UNCHANGED <<meta, ledger, registry, writers, reach, gone, events, req, recon>>

(* What `_finish` conditions its transaction on: the claim, the guards of   *)
(* `_guards` (tombstone, group grant, source rows and grants) and the       *)
(* ledger row.                                                              *)
(* Mutants: without the access guards, without the ledger row.              *)
ActivatableUnguarded(w) ==
  Claimed(w) /\ InputsCurrent(w) /\ ledger[worker[w].build].status = worker[w].seen
ActivatableUnrecorded(w) ==
  Checkpoint(w) /\ InputsCurrent(w)

Activatable(w) ==
  LET b == worker[w].build IN
  /\ Claimed(w)
  /\ ledger[b].requested_by \in writers
  /\ CanRead(ledger[b].requested_by, meta.sources)
  /\ InputsCurrent(w)
  /\ ledger[b].status = worker[w].seen

(* The last checkpoint and `_finish`.                                       *)
Activate(w) ==
  /\ worker[w].pc = "activate"
  /\ LET b == worker[w].build IN
     IF Activatable(w)
     THEN /\ meta' = [meta EXCEPT !.status = "READY",
                        !.active_version = b,
                        !.active_revision = meta.revision,
                        !.active_source_versions = ledger[b].source_versions,
                        !.started = Horizon, !.worker_token = None, !.lease = Horizon]
          /\ ledger' = [ledger EXCEPT ![b].status = "READY"]
          /\ worker' = [worker EXCEPT ![w] = Idle]
     ELSE Goto(w, "failing") /\ UNCHANGED <<meta, ledger>>
  /\ UNCHANGED <<artifacts, registry, writers, reach, gone, events, req, recon>>

(* `_failed`: one transaction over META and the ledger row, if the row read *)
(* was still open; any lost condition cancels both.                         *)
Fail(w) ==
  /\ worker[w].pc = "failing"
  /\ LET b == worker[w].build
         open == worker[w].seen = "QUEUED" IN
     IF Claimed(w) /\ (open => ledger[b].status = "QUEUED")
     THEN /\ meta' = [meta EXCEPT !.status = "FAILED", !.started = Horizon,
                                  !.worker_token = None, !.lease = Horizon]
          /\ ledger' = IF open THEN [ledger EXCEPT ![b].status = "FAILED"] ELSE ledger
     ELSE UNCHANGED <<meta, ledger>>
  /\ worker' = [worker EXCEPT ![w] = Idle]
  /\ UNCHANGED <<artifacts, registry, writers, reach, gone, events, req, recon>>

(* Any call or check that raises: S3, Bedrock, the engine, the deadline.    *)
Raise(w) ==
  /\ worker[w].pc \notin {"idle", "failing"}
  /\ Goto(w, "failing")
  /\ UNCHANGED <<meta, ledger, artifacts, registry, writers, reach, gone, events,
                 req, recon>>

(* The execution ends without another write: killed at the Lambda timeout,  *)
(* out of memory, or unable to record its failure.                          *)
Crash(w) ==
  /\ worker[w].pc # "idle"
  /\ worker' = [worker EXCEPT ![w] = Idle]
  /\ UNCHANGED <<meta, ledger, artifacts, registry, writers, reach, gone, events,
                 req, recon>>

-----------------------------------------------------------------------------
(* The reconciler, at most one run at a time (its cursor lease outlives the *)
(* Lambda).  A run reads the clock once, so that its `now` may be RunSkew   *)
(* old when it reaches this group.                                          *)

(* `_leased`, evaluated with a clock that is `skew` behind; mutant: a       *)
(* worker token counts as a lease, however old.                             *)
LeasedByToken(skew) == meta.started <= WorkerLease + skew \/ meta.worker_token # None
Leased(skew) ==
  \/ meta.started <= WorkerLease + skew
  \/ meta.lease <= WorkerLease + skew

(* `_expire`: a reservation nobody finished becomes FAILED, its ledger row  *)
(* with it unless that is closed already.                                   *)
Expire(skew) ==
  /\ recon = None
  /\ meta.status = "BUILDING"
  /\ ~Leased(skew)
  /\ meta' = [meta EXCEPT !.status = "FAILED", !.started = Horizon,
                          !.worker_token = None, !.lease = Horizon]
  /\ ledger' = IF ledger[meta.build_id].status = "QUEUED"
               THEN [ledger EXCEPT ![meta.build_id].status = "FAILED"] ELSE ledger
  /\ UNCHANGED <<artifacts, registry, writers, reach, gone, events, req, worker, recon>>

(* The inputs differ from those the active version was built from; mutant:  *)
(* the revision is not compared.                                            *)
VersionsChanged == meta.active_source_versions # Current(meta.sources)
InputsChanged ==
  \/ meta.active_source_versions # Current(meta.sources)
  \/ meta.active_revision # meta.revision

(* The rest of `_process`: one automatic build of a changed signature of a  *)
(* group that has been built before, in the owner's name.                   *)
Claim(skew) ==
  LET pins == Current(meta.sources)
      b == AutoBuild(meta.revision, pins) IN
  /\ recon = None
  /\ meta.active_version # None
  /\ meta.status \in {"READY", "STALE", "FAILED"}
  /\ ~Leased(skew)
  /\ CanWrite(Owner)
  /\ meta.sources # {} /\ Versioned(meta.sources)
  /\ InputsChanged
  /\ meta.last_auto_signature # b
  /\ meta' = [Building(b, skew) EXCEPT !.last_auto_signature = b]
  /\ Record(b, Owner, pins)
  /\ recon' = b
  /\ UNCHANGED <<registry, writers, reach, gone, events, req, worker>>

(* The one invocation of an automatic build; its outcome is only noted.     *)
InvokeClaimed ==
  /\ recon # None
  /\ events' \in {events, events \cup {recon}}
  /\ recon' = None
  /\ UNCHANGED <<meta, ledger, artifacts, registry, writers, reach, gone, req, worker>>

-----------------------------------------------------------------------------
(* The rest of the platform.                                                *)

(* A source build publishes a version, or withdraws the one there was; a    *)
(* description edit is a new version of the row too.                        *)
Publish(s, usable) ==
  /\ registry[s].version < MaxVersion
  /\ registry' = [registry EXCEPT ![s] = [version |-> @.version + 1, usable |-> usable]]
  /\ UNCHANGED <<meta, ledger, artifacts, writers, reach, gone, events, req, worker, recon>>

(* A grant is deleted or a source disabled or made private, and back.       *)
Revoke(u, s) ==
  /\ s \in reach[u]
  /\ reach' = [reach EXCEPT ![u] = @ \ {s}]
  /\ UNCHANGED <<meta, ledger, artifacts, registry, writers, gone, events, req, worker, recon>>

Grant(u, s) ==
  /\ s \notin reach[u]
  /\ reach' = [reach EXCEPT ![u] = @ \cup {s}]
  /\ UNCHANGED <<meta, ledger, artifacts, registry, writers, gone, events, req, worker, recon>>

(* `_offboard_user` writes the tombstone before anything else.              *)
Offboard(u) ==
  /\ u \notin gone
  /\ gone' = gone \cup {u}
  /\ UNCHANGED <<meta, ledger, artifacts, registry, writers, reach, events, req, worker, recon>>

(* A tick of the clock.  Lambda kills an execution at RunLimit, so that the *)
(* one that holds the worker token cannot outlast it.                       *)
Tick ==
  /\ \A w \in Workers :
       worker[w].pc # "idle" /\ meta.worker_token = w => meta.lease < RunLimit
  /\ meta' = [meta EXCEPT !.started = Older(@), !.lease = Older(@)]
  /\ UNCHANGED <<ledger, artifacts, registry, writers, reach, gone, events, req,
                 worker, recon>>

-----------------------------------------------------------------------------
Api(u) ==
  \/ BeginEdit(u) \/ BeginDelete(u) \/ BeginMembers(u)
  \/ \E k \in Keys : BeginRebuild(u, k)
  \/ CommitEdit(u) \/ CommitDelete(u) \/ CommitRebuild(u)
  \/ \E v \in Users : CommitMembers(u, v)
  \/ Invoke(u) \/ DispatchFailedLedger(u) \/ DispatchFailedMeta(u)
  \/ Abandon(u)

Proceed(w) ==
  \/ ReadLedger(w) \/ CheckInputs(w) \/ Build(w)
  \/ PutFiles(w) \/ PutGraph(w) \/ PutManifest(w)
  \/ Activate(w) \/ Fail(w) \/ Raise(w) \/ Crash(w)

Work(w) == Proceed(w) \/ \E b \in events : Acquire(w, b)

Reconcile ==
  \/ \E skew \in 0..RunSkew : Expire(skew) \/ Claim(skew)
  \/ InvokeClaimed

Platform ==
  \/ \E b \in events : DropEvent(b)
  \/ \E s \in Sources, usable \in BOOLEAN : Publish(s, usable)
  \/ \E u \in Exposed, s \in Sources : Revoke(u, s) \/ Grant(u, s)
  \/ \E u \in Exposed : Offboard(u)

Next ==
  \/ \E u \in Users : Api(u)
  \/ \E w \in Workers : Work(w)
  \/ Reconcile
  \/ Platform
  \/ Tick

Spec == Init /\ [][Next]_vars

(* Fairness.  Time passes; an execution runs on to its end or is killed;    *)
(* Lambda gives up on every invocation in the end (two retries, six hours); *)
(* the reconciler's five-minute schedule keeps reaching the group.  Nothing *)
(* is assumed of API requests or of invocations being delivered at all.     *)
FairSpec ==
  /\ Spec
  /\ WF_vars(Tick)
  /\ \A w \in Workers : WF_vars(Proceed(w))
  /\ WF_vars(\E b \in events : DropEvent(b))
  /\ WF_vars(\E skew \in 0..RunSkew : Expire(skew))
  /\ WF_vars(\E skew \in 0..RunSkew : Claim(skew))
  /\ WF_vars(InvokeClaimed)

-----------------------------------------------------------------------------
(* Properties.                                                              *)

(* What every variable ranges over. *)
Typed ==
  /\ meta \in Meta
  /\ DOMAIN ledger \subseteq BuildIds
  /\ ledger \in [DOMAIN ledger -> Row]
  /\ artifacts \in [DOMAIN ledger -> Objects]
  /\ registry \in [Sources -> [version : 1..MaxVersion, usable : BOOLEAN]]
  /\ writers \subseteq Users
  /\ reach \in [Users -> SUBSET Sources]
  /\ gone \subseteq Users
  /\ events \subseteq DOMAIN ledger
  /\ req \in [Users -> Request]
  /\ worker \in [Workers -> Execution]
  /\ recon \in DOMAIN ledger \cup {None}

(* Every build id that META carries (its latest reservation, its active     *)
(* version, its last automatic signature), that a request has reserved and  *)
(* not yet invoked, or that an execution works on has a ledger row.         *)
Recorded ==
  /\ {meta.build_id, meta.active_version, meta.last_auto_signature}
       \subseteq DOMAIN ledger \cup {None}
  /\ \A u \in Users : req[u].op \in {"invoke", "unconfirmed", "unrecorded"} =>
                        Requested(u) \in DOMAIN ledger
  /\ \A w \in Workers : worker[w].build \in DOMAIN ledger \cup {None}

(* Every variable has its type, and a build id that META, a request, an     *)
(* event, an execution or the reconciler names has a ledger row: `_rebuild` *)
(* and `_process` reserve and record in one transaction, and every handler  *)
(* after them looks the row up.                                             *)
TypeOK == Typed /\ Recorded

(* What a query reads through the active pointer is one finished build: its *)
(* ledger row says READY and pins the same revision and source versions,    *)
(* and its objects are complete and of one execution (the manifest's        *)
(* checksum is the graph's), whatever executions of the same build wrote.   *)
(* `_finish`, `_ledger_update`, `_immutable_put`.                           *)
ActivePointerSound ==
  meta.active_version # None =>
    LET b == meta.active_version IN
    /\ b \in DOMAIN ledger
    /\ ledger[b].status = "READY"
    /\ ledger[b].revision = meta.active_revision
    /\ ledger[b].source_versions = meta.active_source_versions
    /\ artifacts[b].files
    /\ artifacts[b].graph # None
    /\ artifacts[b].manifest = artifacts[b].graph

(* A group whose status is READY serves its current revision, built by its  *)
(* latest reservation from all its sources: a late, duplicate or superseded *)
(* worker, an edit or a timeout never leaves READY over an older version.   *)
ReadyIsCurrent ==
  meta.status = "READY" =>
    /\ meta.active_version = meta.build_id
    /\ meta.active_revision = meta.revision
    /\ DOMAIN meta.active_source_versions = meta.sources

(* A group that is BUILDING names a ledger row of its current revision that *)
(* no worker has completed, so that the reconciler can time it out and      *)
(* close it, and nobody waits for a build that has already ended well.      *)
BuildingIsReserved ==
  meta.status = "BUILDING" =>
    /\ meta.build_id \in DOMAIN ledger
    /\ ledger[meta.build_id].revision = meta.revision
    /\ ledger[meta.build_id].status # "READY"

(* Only the execution that holds the worker token can write META or the     *)
(* ledger, and a build that is reserved has at most one living execution:   *)
(* the 960-second lease outlives the 900-second Lambda, so that a duplicate *)
(* or retried delivery never spends on a build another execution works on.  *)
OneExecutionPerBuild ==
  \A v, w \in Workers :
    /\ worker[v].pc # "idle" /\ worker[w].pc # "idle"
    /\ worker[v].build = worker[w].build
    => v = w

(* The active pointer moves only to a build whose inputs are, at that very  *)
(* instant, the current revision and source versions of a group that is     *)
(* BUILDING it, requested by someone who may still write the group and read *)
(* all its sources: no revocation, edit or source build slips between the   *)
(* worker's checks and its commit.  `_finish` and its guards.               *)
ActivationIsCurrent ==
  [][meta'.active_version # meta.active_version =>
       LET b == meta'.active_version IN
       /\ meta.status = "BUILDING" /\ meta.build_id = b
       /\ meta'.active_revision = meta.revision
       /\ meta'.active_source_versions = Current(meta.sources)
       /\ CanWrite(ledger[b].requested_by)]_vars

(* A ledger row that is closed is never written again, and its pinned       *)
(* inputs never change: the durable no-redispatch marker.  A worker, an     *)
(* unconfirmed dispatch and a timeout race to close it.                     *)
LedgerRowsClose ==
  [][\A b \in DOMAIN ledger :
       /\ b \in DOMAIN ledger'
       /\ ledger'[b] = [ledger[b] EXCEPT !.status = ledger'[b].status]
       /\ ledger[b].status # "QUEUED" => ledger'[b] = ledger[b]]_vars

(* A deleted group is a tombstone: no late worker, reservation or timeout   *)
(* writes it again except for clocks.                                       *)
DeletedIsFinal ==
  [][meta.status = "DELETED" =>
       meta' = [meta EXCEPT !.started = meta'.started, !.lease = meta'.lease]]_vars

(* The group implements GroupServing: `_finish` is the only step that       *)
(* changes what queries are answered from, and it serves the revision and   *)
(* the versions that are current at its commit, of a build nobody has ended *)
(* before, whatever edits, publications, timeouts, lost dispatches and late *)
(* or duplicate workers do meanwhile.                                       *)
Serving == INSTANCE GroupServing WITH
  Builds <- BuildIds,
  revision <- meta.revision,
  members <- meta.sources,
  deleted <- (meta.status = "DELETED"),
  published <- [s \in Sources |-> registry[s].version],
  served <- [build |-> meta.active_version, revision |-> meta.active_revision,
             versions |-> meta.active_source_versions],
  ended <- {b \in DOMAIN ledger : ledger[b].status # "QUEUED"}

Serves == Serving!Spec

(* No group stays BUILDING: whatever is lost (the invocation, the worker,   *)
(* the API's Lambda between its calls), the reconciler closes the           *)
(* reservation once its leases lapse.                                       *)
BuildingEnds == meta.status = "BUILDING" ~> meta.status # "BUILDING"

(* A built group whose inputs changed is attempted automatically.           *)
AttemptDue ==
  /\ meta.active_version # None
  /\ meta.status \in {"READY", "STALE", "FAILED"}
  /\ meta.sources # {} /\ Versioned(meta.sources) /\ CanWrite(Owner)
  /\ \/ meta.active_revision # meta.revision
     \/ meta.active_source_versions # Current(meta.sources)
  /\ AutoBuild(meta.revision, Current(meta.sources)) \notin DOMAIN ledger

ChangedInputsAreAttempted == AttemptDue ~> ~AttemptDue

(* What the comment in `_dispatch_marker` says of the row of an automatic   *)
(* build, that it stays QUEUED until the worker or the timeout closes it.   *)
(* Both close only the row of the reservation META carries: once an edit    *)
(* has moved the revision, the row is nobody's any more.                    *)
SupersededRowsEnd ==
  \A rev \in Revisions, pins \in Pins :
    LET b == AutoBuild(rev, pins)
        open == b \in DOMAIN ledger /\ ledger[b].status = "QUEUED"
    IN open /\ meta.revision # rev ~> ~open

(* What docs/source-groups.md promises of a built group, that the           *)
(* reconciler looks at it: `_process` skips the status DRAFT, which an edit *)
(* must therefore never give to a group with an active version.             *)
BuiltGroupIsWatched ==
  meta.active_version # None => meta.status # "DRAFT"

=============================================================================
