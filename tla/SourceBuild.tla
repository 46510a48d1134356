----------------------------- MODULE SourceBuild -----------------------------
(***************************************************************************)
(* The builds of one git source: the five-minute poller                    *)
(* (lambdas/poller/handler.py), the push webhook                           *)
(* (lambdas/webhook/handler.py) and the console                            *)
(* (lambdas/platform_api/handler.py) that start CodeBuild builds, and the  *)
(* completion handler (lambdas/completion/handler.py) that records how the *)
(* builds ended.                                                           *)
(*                                                                         *)
(* An invocation reads the registry row, decides, claims, calls StartBuild *)
(* and records the build's ARN: each of these is a step, any of them may   *)
(* be the last.  The row stays enabled.  build_id and build_arn are always *)
(* written together and are one field; READY stands for READY and          *)
(* TOO_LARGE.  A tick of the clock is fifteen minutes, longer than any     *)
(* invocation lives.  What a build uploads is not modelled: a build is a   *)
(* commit and a verdict.                                                   *)
(*                                                                         *)
(* What a run may suffer at most MaxMishaps times is a mishap: a killed    *)
(* invocation, a refused or failed build, a lost, late or repeated event,  *)
(* a build started from the console.                                       *)
(***************************************************************************)
EXTENDS Naturals

CONSTANTS
  Pollers,      \* concurrent invocations of the poller
  Hooks,        \* concurrent deliveries of push events
  Consoles,     \* concurrent registrations or rebuilds from the console
  Builds,       \* build ids; CodeBuild refuses a build when all are in use
  Grace,        \* ticks: the 900 seconds of build_is_dead
  Window,       \* ticks: the 1800 seconds of rebuild_repo
  Backstop,     \* ticks: STALE_BUILD_BACKSTOP_SECONDS
  BuildLimit,   \* ticks: the longest a CodeBuild build runs
  Interval,     \* ticks: poll_interval_seconds
  MaxMishaps,   \* bound: mishaps in a behaviour
  MaxHead,      \* bound: commits of the tracked ref
  None          \* an absent attribute

Invocations == Pollers \cup Hooks \cup Consoles

ASSUME SourceAssumption ==
  /\ Pollers \cap Hooks = {} /\ Pollers \cap Consoles = {} /\ Hooks \cap Consoles = {}
  /\ Grace \in Nat /\ Window \in Nat /\ Interval \in Nat
  /\ BuildLimit \in Nat /\ Backstop \in Nat /\ BuildLimit < Backstop
  /\ Grace < Backstop /\ Window <= Backstop
  /\ MaxHead \in Nat \ {0} /\ MaxMishaps \in Nat
  /\ None \notin Builds

VARIABLES
  row,       \* the source's registry row
  call,      \* invocation -> what it is doing
  build,     \* build id -> the build
  events,    \* CodeBuild state changes EventBridge may still deliver
  pushes,    \* commits whose push event GitHub may yet deliver
  head,      \* the commit the tracked ref is at
  mishaps,   \* how many more mishaps there may be
  landed,    \* history: the row's build is the one its claim started
  succeeded  \* history: commits a build of which succeeded

vars == <<row, call, build, events, pushes, head, mishaps, landed, succeeded>>

-----------------------------------------------------------------------------
Horizon == Backstop + 1
Commits == 1..MaxHead
Shas == 0..MaxHead                        \* 0: no commit

Row == [status: {"REGISTERED", "BUILDING", "READY", "FAILED"},
        age: 0..Horizon,                  \* since build_started_at, while BUILDING
        build: Builds \cup {None},        \* build_id, build_arn
        built: Shas,                      \* last_built_sha
        wait: 0..Interval]                \* until next_poll_at
Seen == [status: {"REGISTERED", "BUILDING", "READY", "FAILED"}, lapsed: BOOLEAN,
         build: Builds \cup {None}, built: Shas]
Call == [pc: {"idle", "polling", "pushed", "rebuilding", "claimed", "started"},
         sha: Shas,                       \* the commit it builds
         seen: Seen \cup {None},          \* the row it read
         same: BOOLEAN,                   \* the row's build_started_at is still the one
                                          \* this invocation read or wrote
         build: Builds \cup {None},       \* the build it started
         late: BOOLEAN]                   \* the clock ticked since it began
Build == [running: BOOLEAN, sha: Shas, age: 0..BuildLimit]
Event == [build: Builds, sha: Commits, ok: BOOLEAN, slow: BOOLEAN]

Idle == [pc |-> "idle", sha |-> 0, seen |-> None, same |-> FALSE, build |-> None,
         late |-> FALSE]
NoBuild == [running |-> FALSE, sha |-> 0, age |-> 0]

InProgress(b) == build[b].running

(* Ids nothing refers to any more stand for new ones.                       *)
FreshBuilds == {b \in Builds :
  /\ ~InProgress(b)
  /\ b # row.build
  /\ \A h \in Invocations : call[h].build # b /\ (call[h].seen # None => call[h].seen.build # b)
  /\ \A e \in events : e.build # b}

Mishap == mishaps > 0 /\ mishaps' = mishaps - 1

Init ==
  /\ row = [status |-> "REGISTERED", age |-> 0, build |-> None,
            built |-> 0, wait |-> Interval]
  /\ call = [h \in Invocations |-> Idle]
  /\ build = [b \in Builds |-> NoBuild]
  /\ events = {}
  /\ pushes = {}
  /\ head = 1
  /\ mishaps = MaxMishaps
  /\ landed = FALSE
  /\ succeeded = {}

-----------------------------------------------------------------------------
(* The poller: the due rows are read once, then looked at one by one.       *)

(* Without asking CodeBuild: the backstop, and the grace of a claim whose   *)
(* build is not recorded.                                                   *)
Lapsed == row.age > Backstop \/ (row.build = None /\ row.age > Grace)

Poll(p) ==
  /\ call[p].pc = "idle"
  /\ row.wait = 0
  /\ call' = [call EXCEPT ![p] = [Idle EXCEPT
       !.pc = "polling", !.same = TRUE,
       !.seen = [status |-> row.status, lapsed |-> Lapsed, build |-> row.build,
                 built |-> row.built]]]
  /\ UNCHANGED <<row, build, events, pushes, head, mishaps, landed, succeeded>>

(* The row with a final status; its claim's age matters no more.            *)
Closed(status) == [row EXCEPT !.status = status, !.age = 0]

(* `build_is_dead`, of the row that was read; a lookup that fails says no.  *)
Dead(seen) == seen.lapsed \/ (seen.build # None /\ ~InProgress(seen.build))

Return(h) == call' = [call EXCEPT ![h] = Idle]

(* The build is in flight, or its lookup or the head's resolution failed.   *)
PollLater(p) ==
  /\ call[p].pc = "polling"
  /\ IF call[p].seen.status = "BUILDING" /\ ~Dead(call[p].seen) THEN UNCHANGED mishaps ELSE Mishap
  /\ row' = [row EXCEPT !.wait = Interval]
  /\ Return(p)
  /\ UNCHANGED <<build, events, pushes, head, landed, succeeded>>

(* The dead claim the row was read with is cleared.                         *)
ClearedNever(seen) == row                 \* mutant: the status is left alone
Cleared(seen) == IF seen.status = "BUILDING" THEN Closed("FAILED") ELSE row

(* The head is what the row that was read had built: an update without a    *)
(* condition.                                                               *)
PollNoChange(p) ==
  LET seen == call[p].seen IN
  /\ call[p].pc = "polling"
  /\ seen.status = "BUILDING" => Dead(seen)
  /\ head = seen.built
  /\ row' = [Cleared(seen) EXCEPT !.wait = Interval]
  /\ Return(p)
  /\ UNCHANGED <<build, events, pushes, head, mishaps, landed, succeeded>>

(* What the poller's `claim_build` conditions its claim on.                 *)
(* Mutant: there is no takeover of a dead build.                            *)
ClaimableIdle(p) == row.status # "BUILDING"
Claimable(p) ==
  LET seen == call[p].seen IN
  IF seen.status = "BUILDING" THEN row.status = "BUILDING" /\ call[p].same
                              ELSE row.status # "BUILDING"

(* The build_started_at another invocation knows is now a former one.       *)
Superseded(g) == [call[g] EXCEPT !.same = FALSE]

Claim(h, sha) ==
  /\ row' = [row EXCEPT !.status = "BUILDING", !.age = 0, !.wait = Interval]
  /\ call' = [g \in Invocations |->
       IF g = h THEN [Idle EXCEPT !.pc = "claimed", !.sha = sha, !.same = TRUE,
                                  !.late = call[h].late]
       ELSE Superseded(g)]
  /\ landed' = FALSE

(* The head must be built and no living build is in the way; the claim may  *)
(* be lost all the same.  The lookup of the build and the resolution of the *)
(* head are one step with the write they lead to.                           *)
Due(p) ==
  /\ call[p].pc = "polling"
  /\ call[p].seen.status = "BUILDING" => Dead(call[p].seen)
  /\ head # call[p].seen.built

PollLost(p) ==
  /\ Due(p) /\ ~Claimable(p)
  /\ Return(p)
  /\ UNCHANGED <<row, build, events, pushes, head, mishaps, landed, succeeded>>

(* The dead build's own event is usually there first.                       *)
PollClaim(p) ==
  /\ Due(p) /\ Claimable(p)
  /\ Claim(p, head)
  /\ IF \E e \in events : e.build = row.build /\ ~e.slow /\ row.status = "BUILDING"
     THEN Mishap ELSE UNCHANGED mishaps
  /\ UNCHANGED <<build, events, pushes, head, succeeded>>

-----------------------------------------------------------------------------
(* The webhook: pushes are delivered late, in any order, or not at all.     *)

Push(h, sha) ==
  /\ call[h].pc = "idle"
  /\ sha \in pushes
  /\ pushes' = pushes \ {sha}
  /\ call' = IF sha = row.built THEN call
             ELSE [call EXCEPT ![h] = [Idle EXCEPT !.pc = "pushed", !.sha = sha]]
  /\ UNCHANGED <<row, build, events, head, mishaps, landed, succeeded>>

HookClaim(h) ==
  /\ call[h].pc = "pushed"
  /\ row.status # "BUILDING"
  /\ Claim(h, call[h].sha)
  /\ UNCHANGED <<build, events, pushes, head, mishaps, succeeded>>

(* Deferred to the poller, in 120 seconds.                                  *)
HookDefer(h) ==
  /\ call[h].pc = "pushed"
  /\ row.status = "BUILDING"
  /\ row' = [row EXCEPT !.wait = 0]
  /\ Return(h)
  /\ UNCHANGED <<build, events, pushes, head, mishaps, landed, succeeded>>

(* The console: a registration's first build and `rebuild_repo` build the   *)
(* head, `change_scope` once more what the row says is built.               *)
Rebuild(k) ==
  /\ call[k].pc = "idle"
  /\ ~(row.status = "BUILDING" /\ row.age < Window)
  /\ \E sha \in {head, row.built} \ {0} :
       call' = [call EXCEPT ![k] = [Idle EXCEPT !.pc = "rebuilding", !.sha = sha]]
  /\ Mishap
  /\ UNCHANGED <<row, build, events, pushes, head, landed, succeeded>>

-----------------------------------------------------------------------------
(* `start_build`.  CodeBuild may refuse, or start the build although the    *)
(* answer is lost; the caller then gives up, and marks the row FAILED       *)
(* without a condition if it had claimed it.  The poller's error path also  *)
(* sets the next poll.                                                      *)

Launch(h, b) ==
  build' = [build EXCEPT ![b] = [running |-> TRUE, sha |-> call[h].sha, age |-> 0]]

Starting(h) == call[h].pc \in {"claimed", "rebuilding"}

Start(h) ==
  /\ Starting(h)
  /\ \E b \in FreshBuilds :
       /\ Launch(h, b)
       /\ call' = [call EXCEPT ![h].pc = "started", ![h].build = b]
  /\ UNCHANGED <<row, events, pushes, head, mishaps, landed, succeeded>>

StartFails(h) ==
  /\ Starting(h)
  /\ \/ UNCHANGED build
     \/ \E b \in FreshBuilds : Launch(h, b)
  /\ row' = CASE h \in Pollers  -> [Closed("FAILED") EXCEPT !.wait = Interval]
              [] h \in Hooks    -> Closed("FAILED")
              [] h \in Consoles -> row
  /\ Return(h)
  /\ Mishap
  /\ UNCHANGED <<events, pushes, head, landed, succeeded>>

(* The build's id and ARN, again without a condition; the console's update  *)
(* is also its claim.                                                       *)
Record(h) ==
  /\ call[h].pc = "started"
  /\ IF h \in Consoles
     THEN /\ row' = [row EXCEPT !.status = "BUILDING", !.build = call[h].build, !.age = 0]
          /\ call' = [g \in Invocations |-> IF g = h THEN Idle ELSE Superseded(g)]
          /\ landed' = TRUE
     ELSE /\ row' = [row EXCEPT !.build = call[h].build]
          /\ landed' = call[h].same
          /\ Return(h)
  /\ UNCHANGED <<build, events, pushes, head, mishaps, succeeded>>

(* An invocation dies, or its request ends in an error.                     *)
Crash(h) ==
  /\ call[h].pc # "idle"
  /\ Return(h)
  /\ Mishap
  /\ UNCHANGED <<row, build, events, pushes, head, landed, succeeded>>

-----------------------------------------------------------------------------
(* A build may fail, time out or be stopped at any point.  It succeeds only *)
(* after its starter has recorded it or died: it takes minutes.             *)
Recorded(b) == \A h \in Invocations : call[h].build # b

End(b, ok) ==
  /\ InProgress(b)
  /\ IF ok THEN Recorded(b) /\ UNCHANGED mishaps ELSE Mishap
  /\ build' = [build EXCEPT ![b] = NoBuild]
  /\ events' = events \cup {[build |-> b, sha |-> build[b].sha, ok |-> ok, slow |-> FALSE]}
  /\ succeeded' = IF ok THEN succeeded \cup {build[b].sha} ELSE succeeded
  /\ UNCHANGED <<row, call, pushes, head, landed>>

-----------------------------------------------------------------------------
(* The completion handler, guarded on the build's ARN.  A delivered event   *)
(* may be delivered again.                                                  *)

(* Mutant: the commit of a failed build is recorded too.                    *)
RecordedAnyway(e) == [Closed(IF e.ok THEN "READY" ELSE "FAILED") EXCEPT !.built = e.sha]

Completed(e) ==
  IF e.ok THEN [Closed("READY") EXCEPT !.built = e.sha] ELSE Closed("FAILED")

(* It will be delivered again, or not until after a tick.                   *)
Slowed(e) == (events \ {e}) \cup {[e EXCEPT !.slow = TRUE]}

(* An event of a build the row does not name is ignored.                    *)
Complete(e) ==
  /\ e \in events
  /\ row' = IF row.build = e.build THEN Completed(e) ELSE row
  /\ \/ events' = events \ {e} /\ UNCHANGED mishaps
     \/ Mishap /\ events' = Slowed(e)
  /\ UNCHANGED <<call, build, pushes, head, landed, succeeded>>

(* It finds no graph under latest/, or cannot look.                         *)
CompleteUnseen(e) ==
  /\ e \in events
  /\ row.build = e.build
  /\ row' = Closed("FAILED")
  /\ events' = events \ {e}
  /\ Mishap
  /\ UNCHANGED <<call, build, pushes, head, landed, succeeded>>

LoseEvent(e) ==
  /\ e \in events
  /\ events' \in {events \ {e}, Slowed(e)}
  /\ Mishap
  /\ UNCHANGED <<row, call, build, pushes, head, landed, succeeded>>

Commit ==
  /\ head < MaxHead
  /\ head' = head + 1
  /\ pushes' \in {pushes, pushes \cup {head'}}
  /\ UNCHANGED <<row, call, build, events, mishaps, landed, succeeded>>

Older(age) == IF age < Horizon THEN age + 1 ELSE age

(* CodeBuild's timeout, with a mutant that leaves it out.                   *)
Unlimited == TRUE
WithinLimit == \A b \in Builds : InProgress(b) => build[b].age < BuildLimit

(* An invocation sees at most one tick, an event that is not late none.     *)

Tick ==
  /\ \A h \in Invocations : ~call[h].late
  /\ \A e \in events : e.slow
  /\ WithinLimit
  /\ row' = [row EXCEPT !.age = IF row.status = "BUILDING" THEN Older(@) ELSE 0,
                        !.wait = IF @ = 0 THEN 0 ELSE @ - 1]
  /\ call' = [h \in Invocations |-> [call[h] EXCEPT !.late = (@ \/ call[h].pc # "idle")]]
  /\ build' = [b \in Builds |-> [build[b] EXCEPT !.age = IF InProgress(b) THEN @ + 1 ELSE @]]
  /\ UNCHANGED <<events, pushes, head, mishaps, landed, succeeded>>

-----------------------------------------------------------------------------
Run(h) == Start(h) \/ StartFails(h) \/ Record(h) \/ Crash(h)
Polling(p) == Poll(p) \/ PollLater(p) \/ PollNoChange(p) \/ PollLost(p) \/ PollClaim(p)
Pushing(h) == (\E sha \in pushes : Push(h, sha)) \/ HookClaim(h) \/ HookDefer(h)
Next ==
  \/ \E h \in Invocations : Run(h)
  \/ \E p \in Pollers : Polling(p)
  \/ \E h \in Hooks : Pushing(h)
  \/ \E k \in Consoles : Rebuild(k)
  \/ \E b \in Builds, ok \in BOOLEAN : End(b, ok)
  \/ \E e \in events : Complete(e) \/ CompleteUnseen(e) \/ LoseEvent(e)
  \/ Commit
  \/ Tick

Spec == Init /\ [][Next]_vars

(* Fairness.  Time passes; no invocation, build or event lasts for ever;    *)
(* the five-minute schedule keeps starting the poller.  Nothing is assumed  *)
(* of commits, pushes, the console and mishaps.                             *)
Goes(h) ==
  \/ PollLater(h) \/ PollNoChange(h) \/ PollLost(h) \/ PollClaim(h)
  \/ HookClaim(h) \/ HookDefer(h) \/ Start(h) \/ Record(h)

FairSpec ==
  /\ Spec
  /\ WF_vars(Tick)
  /\ \A p \in Pollers : WF_vars(Poll(p))
  /\ \A h \in Invocations : WF_vars(Goes(h))
  /\ \A b \in Builds : WF_vars(End(b, TRUE))
  /\ WF_vars(\E e \in events : Complete(e))

-----------------------------------------------------------------------------
(* Every field keeps its type: no build outlives CodeBuild's limit, no      *)
(* invocation starts a build of no commit.                                  *)
TypeOK ==
  /\ row \in Row
  /\ call \in [Invocations -> Call]
  /\ \A h \in Invocations : call[h].pc \in {"pushed", "rebuilding", "claimed", "started"}
                             => call[h].sha # 0
  /\ build \in [Builds -> Build]
  /\ events \subseteq Event
  /\ pushes \subseteq Commits
  /\ head \in Commits
  /\ mishaps \in 0..MaxMishaps
  /\ landed \in BOOLEAN
  /\ succeeded \subseteq Commits

(* last_built_sha is a commit that some build really built, whatever order  *)
(* claims, records and late, repeated or crossed events come in: it is what *)
(* the next poll compares the head with, and a wrong one is never built     *)
(* (completion/handler.py, `handler`).                                      *)
BuiltSucceeded == row.built # 0 => row.built \in succeeded

(* A head that is not built gets built, or the head moves on: whoever dies  *)
(* between a claim, StartBuild and its record, whichever build fails and    *)
(* whichever event is lost (poller/handler.py, `build_is_dead`,             *)
(* `claim_build`).                                                          *)
HeadIsBuilt == row.built # head ~> row.built = head

(* BUILDING ends: a claim nobody works on is taken over or cleared          *)
(* (poller/handler.py, `build_is_dead` and the no-change update).           *)
ClaimsEnd == row.status = "BUILDING" ~> row.status # "BUILDING"

(* What the completion handler's docstring promises: an event of a build    *)
(* that is not the one the row's claim started changes no status.           *)
StaleEventsIgnored ==
  [][\A e \in events : (Complete(e) \/ CompleteUnseen(e)) /\ row'.status # row.status
       => landed]_vars

(* What `build_is_dead` says of a claim whose StartBuild bookkeeping never  *)
(* landed: no poller takes it over within its fifteen minutes of grace.     *)
GraceIsGiven ==
  [][\A p \in Pollers : PollClaim(p) /\ row.status = "BUILDING" /\ ~landed
       => row.age >= Grace]_vars
=============================================================================
