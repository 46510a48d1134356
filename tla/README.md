# Verification of the Graphify MCP platform

The platform turns git repositories, uploaded files and crawled web sites
("sources") into knowledge graphs, serves each graph over MCP, and lets users
combine sources into *source groups*, whose merged graph an asynchronous worker
builds. It runs on AWS: DynamoDB tables hold the state, Lambda functions act on
it, CodeBuild and S3 make and keep the artifacts, EventBridge and schedules
connect them. Nothing holds a lock across two calls: correctness rests on
conditional writes, leases written as timestamps, immutable objects, and
handlers that may die between any two of their calls.

This directory models and verifies three lifecycles in depth, a group's, a
source's builds and who may use a source, and eleven smaller components each in
a module of its own.

| module | what it is |
|---|---|
| `GroupBuild` | one source group: management API, build worker, reconciler, and what the platform does to its sources and users |
| `GroupServing` | what a group promises its readers; GroupBuild implements it |
| `SourceBuild` | one git source: poller, webhook, console builds, CodeBuild, completion handler |
| `Subscriptions` | registry rows, grants, services, API keys and offboarding, under interleaved and killed API calls |
| `GroupArtifacts` | the objects of a group's versions: uploads, the sweep, a client that lists page by page |
| `ReconcileScan` | the reconciler's walk over all groups, with its cursor and run lease |
| `GroupDiscovery`, `GroupJudgement` | the group engine: candidate pairs under limits; their judgement under a token budget |
| `GraphQueries` | path search and code search of a group query |
| `SourcePublication` | what the builds of a url or files source publish, and the hub graph |
| `SourceService`, `McpProxy` | the container that serves a source, and the proxy before it |
| `DocsCrawler`, `DocumentOCR` | the crawl of a url source; the transcription of scanned pages |
| `Playground` | chat turns under a token budget and a wall clock |
| `Services` | the eleven components below `Subscriptions`, side by side |
| `MCGroupBuild`, `MCSourceBuild`, `MCSubscriptions`, `MCServices` | the instances TLC checks |
| `GroupBuildProofs`, `SourceBuildProofs`, `SubscriptionsProofs`, `ServicesProofs` | what is proved of those four for all constants |
| `GroupArtifactsProofs`, `GraphQueriesProofs`, `GroupJudgementProofs`, `DocumentOCRProofs` | the inductive invariants of single components, the first three used by `ServicesProofs` |

`PROJECT.json` maps every definition that models code to the lines it stands
for, and lists runs, mutants, findings, hazards and theorems.

## 1. The system

Paths are relative to the repository's `src/`.

### Components that keep state

**Source groups** (`lambdas/platform_api/groups_api.py`,
`lambdas/group_worker/handler.py`, `lambdas/group_worker/reconcile.py`,
`lambdas/shared/python/group_access.py`). *State*: a META row (status,
configuration revision, member sources, active pointer, reservation with two
clocks), one `BUILD#` ledger row per build, grants, objects under
`groups/<gid>/versions/<build>/`. *Operations*: create, edit, delete, change
members, rebuild (reserve, invoke, note a failed dispatch); the worker acquires a
lease, checks its pinned inputs, runs the engine, writes immutable objects,
activates or fails; the reconciler expires reservations and dispatches automatic
builds. *Interaction*: asynchronous Lambda invocations (duplicated, late,
dropped), versions published by source builds, grants and tombstones written by
the rest of the API. *Hard*: every handler decides on rows it read earlier;
deliveries repeat; executions are killed. *Correct if*: what is served is one
complete build of the revision and versions that were current when it was
activated, a build is worked on once at a time, nobody waits for ever.

**Source builds** (`lambdas/poller/handler.py`, `lambdas/webhook/handler.py`,
`lambdas/platform_api/handler.py` `_start_build`, `lambdas/completion/handler.py`,
`cdk/buildspec.py`, `cdk/build_scripts/publish_source_version.py`). *State*: the
registry row (status, build_id/build_arn, build_started_at, last_built_sha,
next_poll_at), CodeBuild's builds, objects under `repos/<id>/latest` and immutable
versions. *Operations*: poll, claim, take over a dead claim, start a build, record
it, defer a push, rebuild from the console, complete. *Hard*: three starters share
one row, two of their writes carry no condition, the row names the previous build
between a claim and the record, events are lost, repeated and reordered.
*Correct if*: `last_built_sha` is a commit that was built, every head is built in
the end, and no claim stays without a build.

**Registration, subscriptions, offboarding** (`lambdas/platform_api/handler.py`,
`gitreg.py`). *State*: `enabled` and `subscriber_count` of the registry row, grants
and their pointers, key rows, the `USER#<sub>/DELETED` tombstone. *Operations*:
register, join, leave, delete (cascade), change scope, add and remove members,
offboard. *Hard*: cascades of single writes that may stop in the middle, racing
joins and leaves. *Correct if*: the count equals the grants, a disabled source
has none that works, and nothing revives what an offboarding removed.

**API keys and authorizer** (`lambdas/platform_api/keys.py`,
`lambdas/authorizer/handler.py`). *State*: key rows by hash, pointer rows by owner.
*Correct if*: a key reaches only what its scope and its owner's grants still allow.

**Group queries and artifact collection** (`lambdas/shared/python/group_query.py`,
`lambdas/group_worker/garbage.py`). *State*: a warm cache of snapshots, S3 objects.
*Hard*: a request holds one META while builds activate and the sweep deletes.
*Correct if*: an answer comes from one snapshot the caller may still read, and no
object of an active version is deleted.

**Runtime container and MCP proxy** (`runtime/entrypoint.py`,
`lambdas/mcp_proxy/handler.py`, `lambdas/platform_api/runtimes.py`). *State*: the
downloaded graph, the extracted source tree behind a symbolic link, a host cache.
*Hard*: threads that refresh while requests read. *Correct if*: the link always
names a complete tree and a reader never sees half a graph.

### Components with little state

The **group engine** (`lambdas/group_worker/engine.py`) is a sequential
computation with a budget and retries. The **build scripts**
(`cdk/build_scripts/*`) convert documents inside one build; the crawler's frontier
is the part with an algorithm. The **playground** is a tool loop over one
conversation. **Build diagnostics** only reads. The **console** and **webapp** are
clients. The **infrastructure** (`cdk/graphify_stack.py`) is declarative and
supplies the assumptions below: timeouts, schedules, retries, concurrency.

## 2. GroupBuild

### Correspondence

| state | code |
|---|---|
| `meta` | the META row; `started` and `lease` are the time since `build_started_at` and since `worker_lease_expires_at` was set |
| `ledger`, `artifacts` | the `BUILD#` rows; the objects of each build (text copies, graph, manifest) |
| `registry`, `writers`, `reach`, `gone` | source rows with their version, group grants, who can read which source, tombstones |
| `events`, `recon` | invocations Lambda may still deliver; the reconciler between its claim and its invocation |
| `req`, `worker` | what each API request and each execution has read and where it stands |

| actions | code |
|---|---|
| `BeginEdit`/`CommitEdit`, `...Delete`, `...Members` | `_edit`, `_delete`, `_members` with `_meta_update`, `_next_fields` |
| `BeginRebuild`, `CommitRebuild`, `Invoke`, `DispatchFailedLedger`, `DispatchFailedMeta`, `Abandon` | `_rebuild`, `_dispatch`, `_dispatch_failed`, a cancelled transaction or a killed request |
| `Acquire` to `Activate`, `Fail`, `Raise`, `Crash` | `_acquire`, `_build`, `_checkpoint`, `_immutable_put`, `_finish`, `_failed` |
| `Expire`, `Claim`, `InvokeClaimed` | `_expire`, `_process`, its invocation |
| `DropEvent`, `Publish`, `Revoke`, `Grant`, `Offboard`, `Tick` | Lambda gives up on an event; the rest of the platform; time |

A DynamoDB transaction is one step, and so is a handler whose condition names
every field it read. A handler that commits under a weaker condition than what it
read is two steps, so that everybody else may act in between. The engine's result
is any element of `Contents`: a model makes two executions differ. READY stands
for READY and PARTIAL, which all conditions treat alike.

### Properties and runs

| run | instance | shows |
|---|---|---|
| `group_leases` | 2 executions, 2 rebuild keys, 2 results | `OneExecutionPerBuild`, `ActivePointerSound`, `LedgerRowsClose`: duplicate and late deliveries, kills and retries never overlap on one build, mix its objects or reopen a closed ledger row |
| `group_changes` | 2 revisions, 2 versions, a reconciler whose clock is late, an owner who may be offboarded | `BuildingIsReserved`, `ReadyIsCurrent`, `DeletedIsFinal`, and `Serves`: GroupBuild implements GroupServing |
| `group_members` | owner and an editor who may lose role, sources or account | `TypeOK`, `ActivationIsCurrent` |
| `group_liveness` | `FairSpec`, 2 revisions, 2 versions | `BuildingEnds`, `ChangedInputsAreAttempted` |
| `group_draft` | violation | `BuiltGroupIsWatched`, see the findings |
| `group_orphans` | violation, under `FairSpec` | `SupersededRowsEnd`, see the findings |

GroupServing says what a reader relies on: a group serves one build at a time, that
build becomes the one served only once, at an instant when its revision and
versions are current, never after the deletion, and never after it has ended. It
knows nothing of leases, statuses, ledger rows or workers; the refinement mapping
is at `Serving` in GroupBuild.

*Bounds.* Two executions and two keys give every pair of racing executions, of
the same and of different builds; a third adds nothing that OneExecutionPerBuild, a
statement about pairs, speaks of. Two revisions and two versions give one change
before, during and after a build. `BuildLease` 1, `RunLimit` 1, `WorkerLease` 2
keep the order of the real 900, 900 and 960 seconds: less or equal, and less.
`RunSkew` 1 is a reconciler that uses a clock it read a tick ago. The theorems
have none of these bounds.

*Fairness.* `Tick`: time passes. `Proceed(w)`: an execution runs on or is killed
by Lambda. `DropEvent`: Lambda gives up on an asynchronous event after two
retries or six hours (its defaults, which `cdk/graphify_stack.py` keeps).
`Expire`, `Claim`, `InvokeClaimed`: the schedule of five minutes keeps reaching
the group. Nothing is assumed of API requests or of invocations being delivered:
BuildingEnds holds if none is.

### Proofs

`GroupBuildProofs` proves, from `ConstantsAssumption` alone (the owner is a user;
limits are natural numbers; `BuildLease <= WorkerLease`, `RunLimit < WorkerLease`;
`None` is no worker or content):

`TypeCorrect`, `ActivePointer`, `Ready`, `Reservation`, `OneExecution`,
`RowsClose`, `Activation`, `Deleted`, and `Implements` (`Spec => Serves`), for any
number of users, sources, keys, workers, results, versions and revisions.

The argument goes up in four layers.

1. `TInv`, whose first conjunct is TypeOK: the types, and `Recorded`, that every build
   META (by its reservation, its active version or its last automatic signature), a
   request, an event, an execution or the reconciler names has a ledger row. Without it
   `ledger[b]` would be meaningless in half the actions.
2. `StepPersists`: no step removes a row, changes a closed row or a pinned input,
   or changes an object that exists. From it follows `WInv`: what an execution
   knows at each point (`WorkerKnows`) stays true while others act: the objects it
   has put are there, with its own content.
3. `StepEffect` sorts all steps by what they do to META and the ledger: quiet,
   revising, closing, reserving, acquiring, activating. Each property is then
   proved against six kinds of step instead of thirty actions.
4. The properties. `ActivePointer` needs `WInv` at the step of activation and
   `StepPersists` everywhere else. `OneExecution` is not inductive: `OneInv` adds
   `TokenHeld`, that an execution of a build that is still reserved holds the
   worker token with a lease no older than `RunLimit`, so that `RunLimit <
   WorkerLease` keeps `Free` false for everyone else. `Implements` shows that
   Init maps to Init and each of the six kinds of step to a step of GroupServing
   or to a stutter.

## 3. SourceBuild

### Correspondence

| state | code |
|---|---|
| `row` | the registry row: status, `age` since `build_started_at`, `build` for build_id and build_arn (always written together), `built` for last_built_sha, `wait` until next_poll_at |
| `call` | one invocation of the poller, the webhook or the console: the row it read, the commit it builds, whether build_started_at is still the one it knows |
| `build`, `events`, `pushes`, `head` | CodeBuild, its state changes, GitHub's pushes, the tracked ref |
| `mishaps` | how many more mishaps the behaviour may suffer |
| `landed`, `succeeded` | history: whether the row's build is the one its claim started; commits some build of which succeeded |

| actions | code |
|---|---|
| `Poll`, `PollLater`, `PollNoChange`, `PollLost`, `PollClaim` | `poller/handler.py` `handler`, `build_is_dead`, `claim_build` |
| `Push`, `HookClaim`, `HookDefer` | `webhook/handler.py` `handler`, `claim_build` |
| `Rebuild` | `rebuild_repo`, the first build of a registration, the rebuild of `change_scope` |
| `Start`, `StartFails`, `Record`, `Crash` | `start_build`, the error path, the write of the ARN, a killed invocation |
| `End`, `Complete`, `CompleteUnseen`, `LoseEvent` | CodeBuild; `completion/handler.py` and EventBridge |
| `Commit`, `Tick` | the repository and time |

Every write keeps exactly the condition it has in the code. The poller's no-change
update, its failed-StartBuild update, both records of the ARN and the console's
claim have none; the poller's takeover compares build_started_at
(`call[p].same`); the completion handler compares the ARN. Two claims in the same
second, which that comparison could not tell apart, are not modelled.

A tick is fifteen minutes, so that an invocation sees at most one and the grace of
`build_is_dead` is one. An event is delivered before the next tick unless it is
late, which is a mishap. A build succeeds only after its starter has recorded it
or died, because it takes minutes; it may fail at once.

### Properties and runs

| run | instance | shows |
|---|---|---|
| `source_builds` | `FairSpec`; a poller, a push, a console request, 2 build ids, 2 commits, any 2 mishaps | `TypeOK`; `BuiltSucceeded`: last_built_sha was really built; `HeadIsBuilt`: an unbuilt head is built or moves on; `ClaimsEnd`: BUILDING ends |
| `source_stale` | violation | `StaleEventsIgnored`, see the findings |
| `source_grace` | violation | `GraceIsGiven`, see the findings |

*Bounds.* Build ids that nothing names any more are used again, so two give
any number of builds in a row, two of them at a time. Two commits give an older
and a newer one, and pushes out of order. A mishap is a killed invocation, a
refused or failed build, a lost, late or repeated event, a console build, or
a takeover that beats the event of the build it declares dead. Two of
them cover what one can do while another is being repaired. `Grace` 1, `Window` 2
are the real 900 and 1800 seconds; `Backstop` 2 stands for twelve hours, which is
long after anything else; `BuildLimit` 1 is below it as CodeBuild's timeout is.

*Fairness.* `Tick`; each `Poll`, by the five-minute schedule; every step of an
invocation that has begun, which Lambda's timeout bounds; the end of a build
(CodeBuild's timeout) and the delivery of some event. Nothing is assumed of
commits, pushes, the console. That mishaps are finitely many is what makes
HeadIsBuilt true: the system recovers after the last, it cannot promise
progress under failures without end.

### Proofs

`SourceBuildProofs` proves `SourceTypeCorrect` and `BuiltIsBuilt` from
`SourceAssumption` (the three kinds of invocation are disjoint, delays and bounds
are natural numbers, a grace and CodeBuild's limit are below the backstop) for any
number of invocations, builds, commits and mishaps. BuiltSucceeded is not
inductive: the completion handler records what an event says. `SInv` adds that a
successful event names a commit in `succeeded` and that a build in progress has a
commit, beside the types by variable (`RowOK`, `CallOK`, `BuildOK`, `EventOK`,
`WorldOK`); then only `Complete` of a successful event changes the row's commit.

## 4. Subscriptions

### Correspondence

| state | code |
|---|---|
| `row` | the registry row of a source: whether it exists, `enabled`, `graph_scope`, `created_by_sub`, `subscriber_count`, whether `runtime_arn` is recorded |
| `grant` | the row `USER#<sub>/REPO#<id>`: absent, or its scope and whether it has the gsi1 keys that `_repo_grants` queries |
| `service` | the ECS services that exist |
| `key` | an `AKEY#` row (owner; unborn, active, lapsed, revoked) and whether its owner's pointer is there |
| `deleted`, `gone` | tombstones; users deleted from Cognito |
| `call` | one invocation of the API: its route, its next step, and what it read that it still uses |
| `hidden`, `torn`, `raced`, `strayed`, `emptied` | history variables: the premises of the properties, see below |

| actions | code (`lambdas/platform_api/`) |
|---|---|
| `Enter`, `EnterOffboard` | the route, its check of the tombstone (which a failed lookup lets pass) |
| `FilesRead`, `UrlRead`, `GitRead`, `RegisterFiles`, `RegisterUrl`, `RegisterGit`, `EnsureRuntime`, `RecordRuntime`, `PutGrantAgain` | `_register_files_repo`, `_register_url_repo`, `register_repo`, `_join_enabled_repo`; `runtimes.ensure_repo_runtime` and `_ensure_runtime_info`, `rebuild_repo` |
| `JoinRead`, `Join`, `MemberRead`, `AddMember`, `RemoveMember` | joining, `add_member`, `remove_member`, `_owned_repo` |
| `DeleteRead`, `Leave`, `CheckCount`, `Disable`, `DeleteRuntime`, `ListGrants`, `DropGrant`, `Close` | `delete_repo`, `_teardown_source`, `runtimes.delete_repo_runtime` |
| `ScopeRead`, `Flip`, `TagGrant`, `RebuildRead` | `change_scope`, `rebuild_repo` |
| `CreateRead`, `MintKey`, `PointKey`, `RevokeRead`, `Revoke`, `Lapse`, `Authorizes` | `create_key`, `revoke_key`; what `authorizer/handler.py` accepts |
| `Tombstone`, `ListKeys`, `CutKey`, `NextGrant`, `Forget` | `_offboard_user`; each grant takes the steps of `delete_repo` |
| `Kill` | the invocation ends between two steps |

Each transaction, conditional write, listing and deletion is a step; the reads at
the head of a handler are one step, so everybody may act between a read and the
write that relies on it. Conditions are those of the code: where a write has none
(`change_scope` tagging a grant, the recount of a silo, the record of a service) the
model has none. The calls to ECS that create a service are one step, for only their last
effect, that the service exists, is read by others; the write of its ARN to the row is a
step of its own.

### Properties and runs

`subscriptions` checks six safety properties; `subscriptions_removal` refutes one
(see the findings). Several promises of the code's comments hold only under a
premise, which a history variable states, so that the property says exactly where
the code keeps its word:

* `SharedSourceCounted` (a shared source that was never private): the count is the
  number of grants, and a subscriber implies that the source is enabled. Joins,
  leaves, members and killed calls may interleave in any way.
* `CountNeverOverstates` (outside a teardown that is at work or was killed half
  way, `torn`). A count may understate: registering an enabled private url or files
  silo anew puts the owner's grant without counting it.
* `RecordedServiceRuns` (unless the source was put again or revived between a call's
  disabling and its deletion of the service, or between the creation of the service
  and its record, `raced`).
* `ActiveKeysBounded`: the check-then-write of `create_key` exceeds the limit by
  less than the number of invocations, and by one for each creation killed before it
  wrote the pointer: such a key still authorizes, and no later check counts it.
* `OffboardedIsPowerless` (no call of the user passed the tombstone, `strayed`):
  no visible key authorizes anything, no own grant is left. What can be left are
  keys a killed creation never pointed to, another user's invitation that raced the
  offboarding, and the row that `change_scope` puts back without its index keys.
* `NothingAbandoned` (no fault, all calls ended, `emptied` aside): an enabled source
  has a subscriber counted.

*Bounds.* Two users, because every race is between two; three calls, two of them
at a time, one fault; a shared site, an upload silo and a git silo, of which a
behaviour uses one (an offboarding is the only call that goes from one source to
the next, and touches them one after the other). Behaviours start empty, or after
calls that ended: a source with one or two subscribers. `MaxActiveKeys` 1 lets two
creations exceed it. There is no fairness: everything said is safety.

### Proofs

`SubscriptionsProofs` proves, from `SubscriptionsAssumption` (users and invocations
are finite, files sources are silos, `None` is nothing else), for any number of
users, sources, keys, calls and faults:

* `SharedCounts`: `Spec => []SharedSourceCounted`. The inductive invariant `CountInv`
  is `Calls` (what an invocation may assume at each point, `Fits`: a call that tears
  a source down or tags its grant knows that the source was private), `Tables` (types)
  and `Counts`. The property alone is not inductive: a teardown would break it, and
  only `Fits` says that a shared source is torn down by the transaction that finds its
  count at 0. Each action changes at most one grant and the count with it (`RowCounts`,
  `GrantCounts`), and the library's lemmas on cardinality do the rest.
* `ServicesStay`: `Spec => []RecordedServiceRuns`. `ServiceInv` adds that a call about
  to delete a service is about a source that is disabled or was revived under it, and one
  about to record a service about a source that has it, is disabled, or was put again.
* `KeysBounded`: `Spec => []ActiveKeysBounded`. `KeyInv` counts a user's authorizing
  keys together with their creations that are past the check: the sum never exceeds the
  limit less one plus the number of invocations and the faults so far, since a creation
  that passes saw fewer live keys than the limit, one that ends turns itself into a key,
  and a key that no pointer shows is of a creation at work or of one that a fault ended.
* `CountsCovered`: `Spec => []CountNeverOverstates`, for private sources and silos too.
  `LevelInv` adds that a disabled row counts nobody: of two teardowns of one source the
  second may find the row disabled and stop, and nothing else would bound the count then;
  and that what the table of grants holds is a grant or nothing, which `change_scope`'s
  update of a missing row needs. A teardown at work is only ever ended by its own
  `Close` or by a kill (`TeardownGoesOn`).

* `Offboarded`: `Spec => []OffboardedIsPowerless`. `OffInv` says where the offboarding
  is: of a user none of whose calls got past the tombstone, a key that still authorizes
  and a grant of their own still lie ahead of every offboarding of that user at work
  (`KeysAhead`, `GrantsAhead`), in what it has listed and not cut yet or in what it has
  still to list, and none is left when it records its end. `Rooted` and `Marking` are
  needed beside it: a listed grant is of a source whose row exists, and whoever is gone
  was marked deleted first.
* `NoneAbandoned`: `Spec => []NothingAbandoned`. `AbandonInv`: as long as nothing was
  killed and no call failed, an enabled source with nobody counted is watched by a call
  that is about to look at the count or to disable it. Only `Leave` makes a source
  deserted, and becomes its watcher in the same step (`DesertedBefore`); no step of the
  watcher but the disabling ends the watch (`WatchGoesOn`).

## 5. The other components

They share no state with each other, so one run, `services`, checks them all:
the variable `part` says which component a behaviour is about and the variables of the
others keep one value. The instances are the `INSTANCE`s of `Services`, which leaves their
constants open; `MCServices` gives values to them and fairness to the schedules; its
variable `world` chooses which of two bounded settings of a component a behaviour has.

| component | code | state and steps |
|---|---|---|
| `GroupArtifacts` | `group_worker/garbage.py`, `handler._immutable_put`, `group_query.get_graph_page` | objects with their age, META, an execution that may be killed and retried at any time, the sweep (list, read META, delete, store the cursor), a listing that pins a version |
| `ReconcileScan` | `group_worker/reconcile.py` `run` | the table, the state row (cursor, holder, lease), runs that read, take the lease, query a page, process, release, or are killed |
| `GroupDiscovery` | `engine.discover` | the texts, the index, the candidates, the reasons why a result is partial |
| `GroupJudgement` | `engine._model_relations`, `_observe_usage`, `pair_cache` | pairs, batches, attempts, tokens reserved; builds in a row |
| `GraphQueries` | `group_query._find_path`, `_search_code`, `_glob_match` | the queue and back links of the search; the scan and its budgets |
| `SourcePublication` | `cdk/buildspec.py`, `fetch_uploads.py`, `publish_source_version.py`, the poller's fingerprint | `latest/` (graph, hash), the immutable version, the hub, builds that overlap, edits of corpus, settings and scope |
| `SourceService` | `runtime/entrypoint.py` | graph and ETags on disk, archive, directories, the two links, the sync loop and an on-demand caller step by step |
| `McpProxy` | `mcp_proxy/handler.py` | the lookup cache and its age, attempts and the time left |
| `Playground` | `playground/handler.py`, `playground_stream/index.mjs` | the day's tokens; turns that authorize, check, generate, meter, call tools, reply |
| `DocsCrawler` | `cdk/build_scripts/docs_crawler.py` | a site, the queue, what was seen, the pages kept |
| `DocumentOCR` | `cdk/build_scripts/document_ocr.py`, `convert_docs.py` | pages and their threads, the two caches, new pages reserved, builds in a row |

| property | says | premise and fairness |
|---|---|---|
| `ActiveIsWhole` | the sweep never takes an object of the served version | none |
| `ListingIsOneVersion` | a paged listing that ends is one version, whole and in order | none |
| `ObsoleteIsCollected` | again and again nothing obsolete is left | the sweep is scheduled, time passes |
| `EveryGroupIsVisited` | no group that stays in the table is left out for ever | the schedule, steps of a run |
| `DiscoveryIsComplete` | a result that names no reason is exactly the related pairs, said from the texts alone | a reference to lines that cannot be quoted is dropped without a reason |
| `BudgetHolds` | a build is charged at most its budget and one answer's excess, which is the last | none |
| `PairsAreJudged` | only pairs judged completely are carried over, and in the end all that come before the first one too large for a build are | builds are asked for again |
| `PathIsShortest` | against the set of nodes within k links | none |
| `SearchIsHonest` | an answer not marked partial is complete, against what a glob means | none |
| `CorpusIsPublished` | a corpus that stops changing is what is served and what groups read | no build published its hash over another's graph, no two files builds overlapped, the corpus did not return to an earlier one after a build died between graph and hash, the build that published last skipped no upload; the schedule and running builds |
| `HubFollowsScope` | a source that stays private leaves the hub, whatever merges of its own or of other sources were at work | for files sources no build was in flight or failed at the flip, and no other source's merge from before it is put after; the same fairness |
| `TreesAreOneVersion` | a directory never turns into another version's, and the linked tree is whole | the second part: the sync loop and an on-demand caller did not overlap |
| `LatestIsServed` | what is published last is served, whatever was served before | it extracts, no overlap; loop and caller run on |
| `CallsShareOneBudget` | attempts share one budget | none; an attempt that also waits to connect may take it twice |
| `DisabledIsCutOff` | a source switched off is cut off within the entry's lifetime | none |
| `SpendIsBounded` | a day's spend exceeds the budget by less than one call per concurrent turn | counting what the code could record |
| `ReplyShips` | no turn outlives its Lambda, and it has time left for its reply | for the second, no tool was late to connect |
| `CrawlIsComplete` | a crawl below its cap keeps all that can be reached from what it tried, each page once, in scope; it tries the seed and all the sitemap lists, unless the cap cut the list | the site does not change |
| `PagesArePaidOnce` | no page that S3 held when the build began or looked, or that the build put, is sent again; a build stays within its new pages; in the end the corpus is converted | builds are tried again |

*Bounds*, each the least that lets the case happen: two versions of two objects, a
page of two and one fault, so that a sweep is cut inside a version; three groups,
a page of two, two runs, one kill; three sources with one or two lines and limits that cut
each phase, and references to lines the file has not or that no quote holds; five pairs in
1, 2, 1, 4 and 1 batches and three tokens, so that the fourth never fits; all graphs of four
nodes and three hops; three files and a budget of three bytes; two corpora, two
settings, two builds and, without another source's merge, two edits (one for url
sources) and one fault, with one at any moment a single edit or flip; two versions of
which the first does not extract, with an on-demand caller, or three without, so that a
served tree is superseded; a cache of two ticks and eight half seconds; two
turns; all sites of three URLs and an alias, with sitemaps longer than the cap; three
pages in three documents, two workers, one new page per build, two faults, and a build
beside that puts a page at any moment.

### Proofs

`ServicesProofs` proves every invariant of the run, and `TreesAreOneVersion`, as theorems
of the specification of `Services`, for any constants that satisfy its
`ServicesAssumption`: bounds and sizes are numbers, texts, files and patterns are finite
sequences, nodes and turns are finite sets, no file is larger than the limit of a file,
the crawl starts in scope, the daily budget is positive, `None` is nothing else. A step
of `Services` is a step of one component and none of the others (`Parting`). Three
components have their invariants in modules of their own, instantiated here.

* `ActiveKept` (`ActiveIsWhole`), from `ArtifactInv`: builds are reserved in order and
  META comes to serve only the build it waits for, so every stored object is of a
  version reserved before; the keys the sweep is about to delete are of neither version
  META names, and what a build has uploaded stays while META waits for it. The property
  alone would not survive an activation.
* `OneVersionListed` (`ListingIsOneVersion`), from `ListingInv`: what the client has is
  the beginning of the version it pinned.
* `ShortestPath` (`PathIsShortest`), from `PathInv`: the queue is sorted by the exact
  distance of its nodes, which differs by one at most, and a node that left it has no
  neighbour that was not reached. Hence all nodes nearer than the queue were reached
  (`Complete`), and what is reached anew is one step farther than the head. On the way
  back distances fall by one with each link.
* `HonestSearch` (`SearchIsHonest`), from `ScanInv`: the matches so far are those of the
  files before the next one, and a reason is named when they are not all. What the table
  of `_glob_match` says of its row t and column i is that the first i characters can be
  cut into parts for the first t tokens (`GlobIs`), for any path and pattern.
* `TreesHold` (`TreesAreOneVersion`), from `SyncType`, `NamesInv` and `TreeInv`: names in
  use are so few that a fresh one exists (each directory is linked, of a run at work, or
  the one remainder of an overtaken reaping); without an overlap one run at a time makes
  a directory, fills it, flips the link and reaps.
* `SwitchedOff` (`DisabledIsCutOff`), from `CacheInv`: an entry that still says "enabled"
  is at least as old as the source has been off. `OneDeadline` (`CallsShareOneBudget`),
  from `CallInv`: what is left only falls, and below zero only when one attempt has
  waited twice.
* `WithinBudget` (`BudgetHolds`), from `BudgetInv`: what is charged is at most what is
  reserved, and what is reserved passes the limit only by the one answer after which
  nothing is asked.
* `DiscoveredAll` (`DiscoveryIsComplete`), from `DiscoverInv`: while no reason is named,
  every line of what is indexed can be quoted by itself and the candidates are the pairs of
  the phases that are over. At the end the three phases together are the related pairs
  (`Complete`), in which the tests for a unique target and for "more than one" agree.
* `Ships` (`ReplyShips`), from `TurnInv`: a turn that comes to its model call has all of its
  wall time but what its authorization took, and what a step may take is cut to what is
  left less a reserve; the client's three seconds to connect and the rounding of its read
  timeout are at most that reserve, and less without the first.
* `SpendBounded` (`SpendIsBounded`), from `SpendInv`: what is used is the day's counter
  and what turns still owe it; the counter passes the budget by at most the cost of one
  call for each turn that is not busy any more. Sums over turns are sizes of sets of
  (turn, token).
* `CrawledAll` (`CrawlIsComplete`), from `CrawlInv`: what is kept can be reached and has
  a path of its own; what was queued and is not denied waits or has ended at a page that
  is kept; what a kept page links to was queued. So when the queue is empty the pages
  kept are closed, and "can be reached" is the least closed set. What was tried (`Tried`)
  is the queue a crawl starts with: the seed and the list, which has no repeats, so that
  as many as the cap are left when it was cut.

`GroupJudgementProofs` and `DocumentOCRProofs` also have theorems of their components'
own specifications: `BudgetOfABuild`; `CarriedPairsWereJudged`, the safety half of
`PairsAreJudged`; and `SpendBounded`, the safety half of `PagesArePaidOnce`, from
`SpendInv`: only reserved pages are sent, reservations are at most the budget, and a page
about to be sent was not in S3 when its thread read the cache. A build that overlaps may
put it in between (`OtherPut`), and it is paid for twice.

Where an argument needs induction (the nearness of nodes, the rows and columns of the
table), it is over a set of numbers: the library's theorem takes a predicate as a
parameter, which the provers cannot instantiate, so `Induction` of `GraphQueriesProofs`
says it of a set, from the minimality of well-founded relations.

## 6. Findings

* **A built group becomes a DRAFT** (`group_draft`). `_next_fields` derives the
  status from the META that was read; the transaction compares only the revision
  and DELETED. If a worker activates in between, the edit writes DRAFT over a group
  with an active version, and the reconciler, which skips DRAFT, never checks it
  again, although `docs/source-groups.md:114-115` says built groups are checked.
* **A superseded row stays QUEUED** (`group_orphans`). The comment at
  `lambdas/group_worker/reconcile.py:188` expects the worker or the timeout to close the
  row of an automatic build. If an edit moves the revision before the worker took its
  lease, the worker finds its event stale and writes nothing, the timeout looks only at
  the build META names, and no later reconciliation uses that row's key.
* **A stale event ends a newer claim** (`source_stale`). The completion handler's
  guard compares build_arn, but a claim leaves the previous ARN in the row until
  the new build is recorded. `lambdas/completion/handler.py:9-10` promises that
  such an event is ignored.
* **The grace is not given** (`source_grace`). A claim keeps the previous
  build_id, so `build_is_dead` looks at a build that ended long ago. The comment at
  `lambdas/poller/handler.py:215` promises fifteen minutes; they apply only to a
  source that never recorded a build.
* **A removal leaves no subscriber** (`subscriptions_removal`). The creator of a
  public source may leave it and stays its owner; with a member's grant the last
  one, `remove_member` takes the count to 0 and tears nothing down, although
  `lambdas/platform_api/handler.py:1954-1957` says the count stays at least 1.

The third and fourth have one cause: the claim does not clear build_id and
build_arn. Both repair themselves, as `HeadIsBuilt` and `ClaimsEnd` show, at the
price of builds that need not have been.

The premises of sections 4 and 5 are places where the code does less than a comment
says, met while modelling and kept as premises: an uncounted grant after a
registration anew (`platform_api/handler.py:484-492`, comment 968-973), a member added
while a source is torn down (docstring 927-935), a service deleted under a revival
(993-1013), what an offboarding leaves (docstring 2323-2328), a sync loop that overlaps
an on-demand caller although it is called single-flight (`runtime/entrypoint.py`
243-251), an attempt whose socket waits twice (`mcp_proxy/handler.py` 131-139), a hash
published for another build's graph (`cdk/buildspec.py:512-514`), a files source
flipped to private while its build is in flight (comment at `handler.py:1316-1319`), a
merge of another source that puts the hub as it was before a flip
(`cdk/buildspec.py:543-600`), an upload whose download fails and which the published hash
covers all the same (`build_scripts/fetch_uploads.py:72-90`), a runtime recorded for a
service deleted meanwhile (`handler.py:437-441`, 1243-1247), a reference to lines that
cannot be quoted, dropped without a partial reason (`engine.py:497-500`), a pair of
sources that needs more calls than a build may pay for, which is tried first in every
build and stops it there (`engine.py:685-689`, 738-742), a reserve for the reply that a
client's timeouts can use up (`playground/handler.py:63-65`), listed pages that stay
untried because the list is cut to the cap while entries that fail are not counted
(`docs_crawler.py:271-273`, 374, 383), and a page that two overlapping builds pay for
(`document_ocr.py:592-612`).

## 7. What is proved, and what only checked

| property | checked | proved |
|---|---|---|
| GroupBuild: TypeOK, ActivePointerSound, ReadyIsCurrent, BuildingIsReserved, OneExecutionPerBuild, LedgerRowsClose, ActivationIsCurrent, DeletedIsFinal, Serves | yes | yes |
| SourceBuild: TypeOK, BuiltSucceeded | yes | yes |
| Subscriptions: SharedSourceCounted, CountNeverOverstates, RecordedServiceRuns, ActiveKeysBounded, OffboardedIsPowerless, NothingAbandoned | yes | yes |
| Services: ActiveIsWhole, ListingIsOneVersion, PathIsShortest, SearchIsHonest, TreesAreOneVersion, DisabledIsCutOff, CallsShareOneBudget, BudgetHolds, DiscoveryIsComplete, ReplyShips, SpendIsBounded, CrawlIsComplete | yes | yes |
| Services: PairsAreJudged, PagesArePaidOnce | yes | the safety half, of the component |
| BuildingEnds, ChangedInputsAreAttempted, HeadIsBuilt, ClaimsEnd, ObsoleteIsCollected, EveryGroupIsVisited, CorpusIsPublished, HubFollowsScope, LatestIsServed | yes | no: liveness under fairness is beyond the prover |
| the five findings | a counterexample each | no |

ENABLED and recursive operators are out of the prover's reach as well; no module that is
proved about has one.

## 8. What is not modelled

* *Eventually consistent reads*: those of the proxy's lookup (`mcp_proxy/handler.py:89`),
  of the playground's counter (`playground/handler.py:268`,
  `playground_stream/index.mjs:134`) and of the hub's members, through an index
  (`cdk/buildspec.py:553`), are modelled as current. What they lag, usually less than a
  second, comes on top of `DisabledIsCutOff` and `SpendIsBounded`.

* *Source groups*: creation. Its cap on groups per account is best effort by the
  code's own comment (`groups_api.py:307-308`), so there is no promise to check.
  Reads and listings.
* *Source builds*: the immutable versions of git sources (those of url and files
  sources are in SourcePublication), the console's polling interval, crawl
  schedules. `llm_corpus_cap_mb` is in no fingerprint, so raising it rebuilds nothing
  until the corpus changes; the model leaves it out.
* *Registration*: what the Git provider answers, Cognito beyond "exists", the
  wiki and audit rows, listings for administrators.
* *Artifacts*: the sweep of `source-versions/`, which walks as the one of `groups/`
  does but keeps the versions a source's registry row names.
* *Queries and engine*: the read-only tools other than the two that loop under limits;
  parsing of source files and of the model's text, ranking, rendering; the final 413 for
  a single node too large for an answer (`group_query.py:225-226`), which ends a listing.
* *Data plane*: the MCP tools the container serves, ECS parameters.
* *Build scripts*: the conversion of text, tables and images, the LLM extraction
  driver, the graph explorer. They transform data in one process and keep no state.
* *Build diagnostics*, *console*, *infrastructure and operator scripts*: they read, or
  are clients, or are declarative; timeouts, schedules and retry limits of the
  infrastructure are assumptions of the models.
