---------------------------- MODULE Subscriptions ----------------------------
(***************************************************************************)
(* Who may use a source: the registry rows of the sources, the users'      *)
(* grants, their API keys and the offboarding of a user, as the console's  *)
(* API handles them (lambdas/platform_api/handler.py, keys.py,             *)
(* runtimes.py).                                                           *)
(*                                                                         *)
(* A call checks the caller's tombstone, reads the grant and the row, then *)
(* writes: each transaction, conditional write, listing and deletion is a  *)
(* step, calls interleave, and a call may be killed between two steps.     *)
(* The reads at the head of a handler are one step.  A source's id says    *)
(* whether it is shared or embeds a user (siloOf).  The builds the calls   *)
(* start are in SourceBuild; validation of names and sizes is left out, as *)
(* is the clone token, whose only effect here is that its source's scope   *)
(* is never changed.                                                       *)
(***************************************************************************)
EXTENDS Integers, FiniteSets

CONSTANTS
  User, Source, Key,
  Call,           \* invocations of the API that may run at once
  kind,           \* [Source -> {"git", "url", "files"}]: source_type
  siloOf,         \* [Source -> User or None]: the user the id embeds
  MaxActiveKeys,
  MaxCalls,       \* bound: calls begun in a behaviour
  MaxFaults,      \* bound: killed calls, failed lookups and failed deletions of a service
  None            \* an absent item or attribute

ASSUME SubscriptionsAssumption ==
  /\ IsFiniteSet(User) /\ IsFiniteSet(Call)
  /\ kind \in [Source -> {"git", "url", "files"}]
  /\ siloOf \in [Source -> User \cup {None}]
  /\ \A s \in Source : kind[s] = "files" => siloOf[s] # None
  /\ MaxActiveKeys \in Nat \ {0} /\ MaxCalls \in Nat /\ MaxFaults \in Nat
  /\ None \notin User \cup Source \cup Key
  /\ None \notin [scope : {"public", "private", "member"}, listed : BOOLEAN]

VARIABLES
  row,       \* source -> its registry row: whether it exists, is enabled, its scope,
             \* created_by_sub, subscriber_count, whether runtime_arn is recorded
  grant,     \* user, source -> the row USER#<user>/REPO#<source>, or None: its scope,
             \* and whether it has the gsi1 keys that _repo_grants queries
  service,   \* sources whose container service exists
  key,       \* key id -> its AKEY row (owner; unborn, active, lapsed or revoked) and
             \* whether its owner's pointer is there
  deleted,   \* users with a tombstone
  gone,      \* users deleted from Cognito
  call,      \* what each invocation is doing
  begun,     \* calls begun
  faults,    \* faults there may yet be
  hidden,    \* history: sources that were private at some time
  torn,      \* history: sources a killed call left with grants half deleted
  raced,     \* history: sources revived while a call was about to delete the service,
             \* or to record one
  strayed,   \* history: users with a call that the tombstone did not stop
  emptied    \* history: sources the last counted subscriber of which was removed

vars == <<row, grant, service, key, deleted, gone, call, begun, faults,
          hidden, torn, raced, strayed, emptied>>

-----------------------------------------------------------------------------
Scope == {"public", "private"}
Idle == [op |-> "idle", pc |-> "idle", user |-> None, src |-> None, arg |-> None,
         todo |-> {}, listing |-> {}]

NoRow == [here |-> FALSE, enabled |-> FALSE, scope |-> "public", creator |-> None,
          count |-> 0, runtime |-> FALSE]
Subscribers(s) == {u \in User : grant[<<u, s>>] # None}
Put(scope) == [scope |-> scope, listed |-> TRUE]
At(q, pc) == call[q].pc = pc
Goto(q, pc) == call' = [call EXCEPT ![q].pc = pc]
Enabled(s) == row[s].here /\ row[s].enabled
Owned(s, u) == Enabled(s) /\ row[s].creator = u

(* The end of a handler; an offboarding goes on with the next grant.        *)
Done(q) == IF call[q].op = "offboard" THEN Goto(q, "grants")
                                      ELSE call' = [call EXCEPT ![q] = Idle]

Fault == faults > 0 /\ faults' = faults - 1
History == <<hidden, torn, raced, strayed, emptied>>
Accounts == <<key, deleted, gone>>

Init ==
  /\ row = [s \in Source |-> NoRow]
  /\ grant = [p \in User \X Source |-> None]
  /\ service = {}
  /\ key = [k \in Key |-> [owner |-> None, status |-> "unborn", pointed |-> FALSE]]
  /\ deleted = {} /\ gone = {}
  /\ call = [q \in Call |-> Idle]
  /\ begun = 0 /\ faults = MaxFaults
  /\ hidden = {} /\ torn = {} /\ raced = {} /\ strayed = {}
  /\ emptied = {}

-----------------------------------------------------------------------------
(* The routes.  What a call asks for: <<op, source, argument>>.             *)
Asked(u) ==
  {<<"register", s, scope>> : s \in {s \in Source : siloOf[s] = u}, scope \in {"private"}}
  \cup {<<"register", s, "public">> :
          s \in {s \in Source : siloOf[s] = None \/ (kind[s] = "files" /\ siloOf[s] = u)}}
  \cup {<<op, s, None>> : op \in {"join", "delete", "rebuild"}, s \in Source}
  \cup {<<op, s, t>> : op \in {"add", "remove"}, s \in Source, t \in User \ {u}}
  \cup {<<"scope", s, target>> : s \in Source, target \in Scope}
  \cup {<<"create", None, None>>}
  \cup {<<"revoke", None, k>> : k \in Key}

Begin(q, op, pc, u, s, arg) ==
  /\ call[q] = Idle /\ begun < MaxCalls
  /\ begun' = begun + 1
  /\ call' = [call EXCEPT ![q] = [Idle EXCEPT !.op = op, !.pc = pc, !.user = u,
                                              !.src = s, !.arg = arg]]
  /\ UNCHANGED <<row, grant, service, key, deleted, gone, hidden, torn, raced, emptied>>

(* A failed lookup of the tombstone lets the call through.                  *)
Enter(q, u) ==
  \E a \in Asked(u) :
    /\ Begin(q, a[1], "read", u, a[2], a[3])
    /\ \/ u \notin deleted /\ UNCHANGED <<faults, strayed>>
       \/ u \in deleted /\ Fault /\ strayed' = strayed \cup {u}

(* An admin deletes the account of t, which Cognito still knows.            *)
EnterOffboard(q, t) ==
  /\ t \notin gone
  /\ Begin(q, "offboard", "tombstone", t, None, None)
  /\ UNCHANGED <<faults, strayed>>

-----------------------------------------------------------------------------
(* Registration.  What is there decides between a new row, the revival of a *)
(* disabled one, the owner's grant put again, a join and a refusal.         *)
Decide(q, admits, again) ==
  LET s == call[q].src IN
  /\ \/ ~row[s].here /\ Goto(q, "put")
     \/ row[s].here /\ ~row[s].enabled /\ admits /\ Goto(q, "revive")
     \/ Enabled(s) /\ admits /\ Goto(q, again)
     \/ row[s].here /\ ~admits /\ Done(q)
  /\ UNCHANGED <<row, grant, service, begun, faults, Accounts, History>>

Registers(q, k) == At(q, "read") /\ call[q].op = "register" /\ kind[call[q].src] = k

(* The row is the shared public one, or the caller's own silo.              *)
Admits(u, s) ==
  \/ siloOf[s] = None /\ row[s].scope = "public"
  \/ siloOf[s] # None /\ row[s].creator = u

FilesRead(q) == Registers(q, "files") /\ Decide(q, TRUE, "regrant")
UrlRead(q) ==
  /\ Registers(q, "url")
  /\ Decide(q, Admits(call[q].user, call[q].src),
            IF siloOf[call[q].src] # None THEN "regrant" ELSE "join")
GitRead(q) ==
  Registers(q, "git") /\ Decide(q, Admits(call[q].user, call[q].src), "join")

(* The item of a registration; mutant: the row's old runtime_arn is kept.   *)
RegisteredOver(u, s, scope) ==
  [here |-> TRUE, enabled |-> TRUE, scope |-> scope, creator |-> u, count |-> 1,
   runtime |-> row[s].runtime]
Registered(u, s, scope) ==
  [here |-> TRUE, enabled |-> TRUE, scope |-> scope, creator |-> u, count |-> 1,
   runtime |-> FALSE]

Vacant(q) ==
  LET s == call[q].src IN
  IF At(q, "put") THEN ~row[s].here ELSE row[s].here /\ ~row[s].enabled

PutRow(q) ==
  LET u == call[q].user  s == call[q].src IN
  /\ At(q, "put") \/ At(q, "revive")
  /\ \/ /\ Vacant(q)
        /\ row' = [row EXCEPT ![s] = Registered(u, s, call[q].arg)]
        /\ grant' = [grant EXCEPT ![<<u, s>>] = Put(call[q].arg)]
        /\ hidden' = IF call[q].arg = "private" THEN hidden \cup {s} ELSE hidden
        /\ raced' = IF \E p \in Call : call[p].pc \in {"unserve", "record"} /\ call[p].src = s
                    THEN raced \cup {s} ELSE raced
        /\ Goto(q, "serve")
     \/ ~Vacant(q) /\ Done(q) /\ UNCHANGED <<row, grant, hidden, raced>>
  /\ UNCHANGED <<service, begun, faults, Accounts, torn, strayed, emptied>>

RegisterFiles(q) == PutRow(q) /\ kind[call[q].src] = "files"
RegisterUrl(q) == PutRow(q) /\ kind[call[q].src] = "url"
RegisterGit(q) == PutRow(q) /\ kind[call[q].src] = "git"

(* ensure_repo_runtime, for a registration or a rebuild, creates the service *)
(* or updates the one there is.  Best effort: ECS refuses while a deleted    *)
(* service drains, and when another call created or deleted it in between.   *)
EnsureRuntime(q) ==
  /\ At(q, "serve")
  /\ \/ service' = service \cup {call[q].src} /\ Goto(q, "record")
     \/ Done(q) /\ UNCHANGED service
  /\ UNCHANGED <<row, grant, begun, faults, Accounts, History>>

(* The record of it on the row carries no condition: the row may have been   *)
(* disabled or put again since, and the service deleted.                     *)
RecordRuntime(q) ==
  /\ At(q, "record")
  /\ row' = [row EXCEPT ![call[q].src].runtime = TRUE]
  /\ Done(q)
  /\ UNCHANGED <<grant, service, begun, faults, Accounts, History>>

(* The enabled row of a silo: its owner's grant is put again.               *)
PutGrantAgain(q) ==
  /\ At(q, "regrant")
  /\ grant' = [grant EXCEPT ![<<call[q].user, call[q].src>>] = Put("private")]
  /\ Done(q)
  /\ UNCHANGED <<row, service, begun, faults, Accounts, History>>

(* A grant and the count that goes with it, in one transaction.             *)
Subscribe(q, u, s, scope, admits) ==
  /\ \/ /\ grant[<<u, s>>] = None /\ Enabled(s) /\ admits
        /\ grant' = [grant EXCEPT ![<<u, s>>] = Put(scope)]
        /\ row' = [row EXCEPT ![s].count = @ + 1]
     \/ /\ ~(grant[<<u, s>>] = None /\ Enabled(s) /\ admits)
        /\ UNCHANGED <<grant, row>>
  /\ Done(q)
  /\ UNCHANGED <<service, begun, faults, Accounts, History>>

(* _join_enabled_repo                                                       *)
Join(q) ==
  LET s == call[q].src IN
  At(q, "join") /\ Subscribe(q, call[q].user, s, "public", row[s].scope = "public")

JoinRead(q) ==
  LET s == call[q].src IN
  /\ At(q, "read") /\ call[q].op = "join"
  /\ IF Enabled(s) /\ row[s].scope = "public" THEN Goto(q, "join") ELSE Done(q)
  /\ UNCHANGED <<row, grant, service, begun, faults, Accounts, History>>

-----------------------------------------------------------------------------
(* add_member, remove_member; Cognito must know the user who is added.      *)
MemberRead(q) ==
  LET s == call[q].src IN
  /\ At(q, "read") /\ call[q].op \in {"add", "remove"}
  /\ IF Owned(s, call[q].user) /\ (call[q].op = "add" => call[q].arg \notin gone)
     THEN Goto(q, call[q].op) ELSE Done(q)
  /\ UNCHANGED <<row, grant, service, begun, faults, Accounts, History>>

AddMember(q) ==
  At(q, "add") /\ Subscribe(q, call[q].arg, call[q].src, "member", TRUE)

IsMember(t, s) == grant[<<t, s>>] # None /\ grant[<<t, s>>].scope = "member"

RemoveMember(q) ==
  LET t == call[q].arg  s == call[q].src IN
  /\ At(q, "remove")
  /\ \/ /\ IsMember(t, s)
        /\ grant' = [grant EXCEPT ![<<t, s>>] = None]
        /\ row' = [row EXCEPT ![s].count = @ - 1]
        /\ emptied' = IF row[s].count <= 1 THEN emptied \cup {s} ELSE emptied
     \/ ~IsMember(t, s) /\ UNCHANGED <<grant, row, emptied>>
  /\ Done(q)
  /\ UNCHANGED <<service, begun, faults, Accounts, hidden, torn, raced, strayed>>

-----------------------------------------------------------------------------
(* delete_repo, and the same work for one grant of an offboarded user       *)
Destroys(u, s) == Owned(s, u) /\ row[s].scope # "public"

DeleteRead(q) ==
  LET u == call[q].user  s == call[q].src IN
  /\ \/ At(q, "read") /\ call[q].op = "delete"
     \/ At(q, "next")
  /\ IF call[q].op = "delete" /\ grant[<<u, s>>] = None
     THEN Done(q)
     ELSE Goto(q, IF Destroys(u, s) THEN "list" ELSE "leave")
  /\ UNCHANGED <<row, grant, service, begun, faults, Accounts, History>>

(* The condition of the transaction; mutant: not on the grant.              *)
LeavesTwice(u, s) == row[s].here
Leaves(u, s) == row[s].here /\ grant[<<u, s>>] # None

Leave(q) ==
  LET u == call[q].user  s == call[q].src IN
  /\ At(q, "leave")
  /\ \/ /\ Leaves(u, s)
        /\ grant' = [grant EXCEPT ![<<u, s>>] = None]
        /\ row' = [row EXCEPT ![s].count = @ - 1]
        /\ Goto(q, "check")
     \/ ~Leaves(u, s) /\ Done(q) /\ UNCHANGED <<grant, row>>
  /\ UNCHANGED <<service, begun, faults, Accounts, History>>

NobodyBut(s) == row[s].count < 0          \* mutant: off by one
Nobody(s) == row[s].count <= 0

CheckCount(q) ==
  /\ At(q, "check")
  /\ IF Nobody(call[q].src) THEN Goto(q, "disable") ELSE Done(q)
  /\ UNCHANGED <<row, grant, service, begun, faults, Accounts, History>>

Disable(q) ==
  LET s == call[q].src IN
  /\ At(q, "disable")
  /\ \/ /\ Nobody(s) /\ row[s].enabled
        /\ row' = [row EXCEPT ![s].enabled = FALSE]
        /\ Goto(q, "unserve")
     \/ ~(Nobody(s) /\ row[s].enabled) /\ Done(q) /\ UNCHANGED row
  /\ UNCHANGED <<grant, service, begun, faults, Accounts, History>>

(* delete_repo_runtime; what it raises is swallowed.                        *)
DeleteRuntime(q) ==
  /\ At(q, "unserve")
  /\ \/ service' = service \ {call[q].src} /\ UNCHANGED faults
     \/ Fault /\ UNCHANGED service
  /\ Done(q)
  /\ UNCHANGED <<row, grant, begun, Accounts, History>>

(* _teardown_source: list the grants, delete them one by one, disable.      *)
ListGrants(q) ==
  LET s == call[q].src IN
  /\ At(q, "list")
  /\ call' = [call EXCEPT ![q].pc = "drop",
                          ![q].listing = {u \in Subscribers(s) : grant[<<u, s>>].listed}]
  /\ UNCHANGED <<row, grant, service, begun, faults, Accounts, History>>

DropGrant(q) ==
  LET s == call[q].src IN
  /\ At(q, "drop")
  /\ \/ \E u \in call[q].listing :
          /\ grant' = [grant EXCEPT ![<<u, s>>] = None]
          /\ call' = [call EXCEPT ![q].listing = @ \ {u}]
     \/ call[q].listing = {} /\ Goto(q, "close") /\ UNCHANGED grant
  /\ UNCHANGED <<row, service, begun, faults, Accounts, History>>

ClosedCounting(r) == [r EXCEPT !.enabled = FALSE]       \* mutant: the count stays
Closed(r) == [r EXCEPT !.enabled = FALSE, !.count = 0]

Close(q) ==
  LET s == call[q].src IN
  /\ At(q, "close")
  /\ \/ /\ row[s].enabled
        /\ row' = [row EXCEPT ![s] = Closed(@)]
        /\ Goto(q, "unserve")
     \/ ~row[s].enabled /\ Done(q) /\ UNCHANGED row
  /\ UNCHANGED <<grant, service, begun, faults, Accounts, History>>

-----------------------------------------------------------------------------
(* change_scope                                                             *)
ScopeRead(q) ==
  LET u == call[q].user  s == call[q].src  target == call[q].arg IN
  /\ At(q, "read") /\ call[q].op = "scope"
  /\ IF /\ grant[<<u, s>>] # None /\ Owned(s, u) /\ row[s].scope # target
        /\ target = "private" => row[s].count <= 1
     THEN Goto(q, "flip") ELSE Done(q)
  /\ UNCHANGED <<row, grant, service, begun, faults, Accounts, History>>

Flip(q) ==
  LET s == call[q].src  target == call[q].arg
      admitted == /\ row[s].scope # target /\ row[s].enabled
                  /\ target = "private" => row[s].count <= 1 IN
  /\ At(q, "flip")
  /\ \/ /\ admitted
        /\ row' = [row EXCEPT ![s].scope = target]
        /\ hidden' = hidden \cup {s}
        /\ Goto(q, "tag")
     \/ ~admitted /\ Done(q) /\ UNCHANGED <<row, hidden>>
  /\ UNCHANGED <<grant, service, begun, faults, Accounts, torn, raced, strayed, emptied>>

(* An update of the grant row, which creates the row when it is not there, *)
(* without the keys that _repo_grants finds it by.                         *)
TagGrant(q) ==
  LET u == call[q].user  s == call[q].src IN
  /\ At(q, "tag")
  /\ grant' = [grant EXCEPT ![<<u, s>>] =
       IF @ = None THEN [scope |-> call[q].arg, listed |-> FALSE]
                   ELSE [@ EXCEPT !.scope = call[q].arg]]
  /\ Done(q)
  /\ UNCHANGED <<row, service, begun, faults, Accounts, History>>

(* rebuild_repo: a row without a service gets one.                          *)
RebuildRead(q) ==
  LET s == call[q].src IN
  /\ At(q, "read") /\ call[q].op = "rebuild"
  /\ IF grant[<<call[q].user, s>>] # None /\ Enabled(s) /\ ~row[s].runtime
     THEN Goto(q, "serve") ELSE Done(q)
  /\ UNCHANGED <<row, grant, service, begun, faults, Accounts, History>>

-----------------------------------------------------------------------------
(* create_key, revoke_key                                                   *)
Live(u) == {k \in Key : key[k].owner = u /\ key[k].pointed /\ key[k].status = "active"}

FullPast(u) == Cardinality(Live(u)) > MaxActiveKeys     \* mutant: off by one
Full(u) == Cardinality(Live(u)) >= MaxActiveKeys

CreateRead(q) ==
  /\ At(q, "read") /\ call[q].op = "create"
  /\ IF Full(call[q].user) THEN Done(q) ELSE Goto(q, "mint")
  /\ UNCHANGED <<row, grant, service, begun, faults, Accounts, History>>

MintKey(q) ==
  /\ At(q, "mint")
  /\ \E k \in Key :
       /\ key[k].status = "unborn"
       /\ key' = [key EXCEPT ![k] = [owner |-> call[q].user, status |-> "active",
                                     pointed |-> FALSE]]
       /\ call' = [call EXCEPT ![q].pc = "point", ![q].arg = k]
  /\ UNCHANGED <<row, grant, service, deleted, gone, begun, faults, History>>

PointKey(q) ==
  /\ At(q, "point")
  /\ key' = [key EXCEPT ![call[q].arg].pointed = TRUE]
  /\ Done(q)
  /\ UNCHANGED <<row, grant, service, deleted, gone, begun, faults, History>>

RevokeRead(q) ==
  LET k == call[q].arg IN
  /\ At(q, "read") /\ call[q].op = "revoke"
  /\ IF key[k].owner = call[q].user /\ key[k].pointed THEN Goto(q, "revoke") ELSE Done(q)
  /\ UNCHANGED <<row, grant, service, begun, faults, Accounts, History>>

Revoke(q) ==
  /\ At(q, "revoke")
  /\ key' = [key EXCEPT ![call[q].arg].status = "revoked"]
  /\ Done(q)
  /\ UNCHANGED <<row, grant, service, deleted, gone, begun, faults, History>>

(* What the data plane's authorizer lets a key of scope ALL reach: the hub *)
(* "all", which serves public graphs only, and the sources it may.         *)
Authorizes(k, server) ==
  /\ key[k].status = "active"
  /\ server # "all" =>
       /\ Enabled(server)
       /\ row[server].scope = "public" \/ grant[<<key[k].owner, server>>] # None

(* A key passes its expires_at.                                             *)
Lapse(k) ==
  /\ key[k].status = "active"
  /\ key' = [key EXCEPT ![k].status = "lapsed"]
  /\ UNCHANGED <<row, grant, service, deleted, gone, call, begun, faults, History>>

-----------------------------------------------------------------------------
(* _offboard_user: tombstone, keys, grants, and then admin_delete_user.     *)
InFlight(u) == \E q \in Call : call[q] # Idle /\ call[q].op # "offboard" /\ call[q].user = u

Unmarked(u) == deleted                    \* mutant: no tombstone
Marked(u) == deleted \cup {u}

Tombstone(q) ==
  LET u == call[q].user IN
  /\ At(q, "tombstone")
  /\ deleted' = Marked(u)
  /\ strayed' = IF InFlight(u) THEN strayed \cup {u} ELSE strayed
  /\ Goto(q, "keys")
  /\ UNCHANGED <<row, grant, service, key, gone, begun, faults, hidden, torn, raced,
                 emptied>>

ListKeys(q) ==
  /\ At(q, "keys")
  /\ call' = [call EXCEPT ![q].pc = "cut",
                          ![q].todo = {k \in Key : key[k].owner = call[q].user /\ key[k].pointed}]
  /\ UNCHANGED <<row, grant, service, begun, faults, Accounts, History>>

CutKey(q) ==
  /\ At(q, "cut")
  /\ \/ \E k \in call[q].todo :
          /\ key' = IF key[k].status = "active" THEN [key EXCEPT ![k].status = "revoked"] ELSE key
          /\ call' = [call EXCEPT ![q].todo = @ \ {k}]
     \/ /\ call[q].todo = {}
        /\ call' = [call EXCEPT ![q].pc = "grants",
                                ![q].todo = {s \in Source : grant[<<call[q].user, s>>] # None}]
        /\ UNCHANGED key
  /\ UNCHANGED <<row, grant, service, deleted, gone, begun, faults, History>>

NextGrant(q) ==
  /\ At(q, "grants")
  /\ \/ \E s \in call[q].todo :
          call' = [call EXCEPT ![q].pc = "next", ![q].src = s, ![q].todo = @ \ {s}]
     \/ call[q].todo = {} /\ Goto(q, "forget")
  /\ UNCHANGED <<row, grant, service, begun, faults, Accounts, History>>

Forget(q) ==
  /\ At(q, "forget")
  /\ gone' = gone \cup {call[q].user}
  /\ call' = [call EXCEPT ![q] = Idle]
  /\ UNCHANGED <<row, grant, service, key, deleted, begun, faults, History>>

-----------------------------------------------------------------------------
(* The invocation ends without another step.                                *)
Kill(q) ==
  /\ call[q] # Idle /\ Fault
  /\ call' = [call EXCEPT ![q] = Idle]
  /\ torn' = IF call[q].pc \in {"drop", "close"} THEN torn \cup {call[q].src} ELSE torn
  /\ UNCHANGED <<row, grant, service, begun, Accounts, hidden, raced, strayed, emptied>>

Step(q) ==
  \/ FilesRead(q) \/ UrlRead(q) \/ GitRead(q)
  \/ RegisterFiles(q) \/ RegisterUrl(q) \/ RegisterGit(q)
  \/ EnsureRuntime(q) \/ RecordRuntime(q) \/ PutGrantAgain(q)
  \/ JoinRead(q) \/ Join(q)
  \/ MemberRead(q) \/ AddMember(q) \/ RemoveMember(q)
  \/ DeleteRead(q) \/ Leave(q) \/ CheckCount(q) \/ Disable(q) \/ DeleteRuntime(q)
  \/ ListGrants(q) \/ DropGrant(q) \/ Close(q)
  \/ ScopeRead(q) \/ Flip(q) \/ TagGrant(q) \/ RebuildRead(q)
  \/ CreateRead(q) \/ MintKey(q) \/ PointKey(q) \/ RevokeRead(q) \/ Revoke(q)
  \/ Tombstone(q) \/ ListKeys(q) \/ CutKey(q) \/ NextGrant(q) \/ Forget(q)

Next ==
  \/ \E q \in Call : Step(q) \/ Kill(q)
  \/ \E q \in Call, u \in User : Enter(q, u) \/ EnterOffboard(q, u)
  \/ \E k \in Key : Lapse(k)

Spec == Init /\ [][Next]_vars

-----------------------------------------------------------------------------
TearingDown(s) == \E q \in Call : call[q].src = s /\ call[q].pc \in {"drop", "close"}

(* "pooled: one build, one graph, one service ... ref-counting; teardown at *)
(* 0": the count of a shared source that was never private is the number of *)
(* its grants whatever calls overlap or die, and a source with a subscriber *)
(* is enabled (_join_enabled_repo, delete_repo, add_member).                *)
SharedSourceCounted ==
  \A s \in Source \ hidden : siloOf[s] = None =>
    /\ row[s].count = Cardinality(Subscribers(s))
    /\ Subscribers(s) # {} => Enabled(s)

(* No source is kept for subscribers it does not have: the count is never *)
(* above the number of grants, unless a teardown is at work or was killed *)
(* half way (_teardown_source, _register_files_repo, change_scope).       *)
CountNeverOverstates ==
  \A s \in Source : ~TearingDown(s) /\ s \notin torn =>
    row[s].count <= Cardinality(Subscribers(s))

(* A join that races a teardown keeps its service (delete_repo): an enabled *)
(* source whose service was recorded still has it, unless it was revived    *)
(* while a call was between the disabling and the deletion of the service,  *)
(* or between the creation of the service and its record.                   *)
RecordedServiceRuns ==
  \A s \in Source \ raced : Enabled(s) /\ row[s].runtime => s \in service

(* The keys that still authorize, those a killed creation left without the *)
(* pointer by which their owner sees them included.                        *)
Authorizing(u) == {k \in Key : key[k].owner = u /\ key[k].status = "active"}

(* Concurrent creations exceed MAX_ACTIVE_KEYS by less than the number of   *)
(* invocations, plus a key for each creation that was killed before its     *)
(* pointer, however keys lapse and are revoked (create_key).                *)
ActiveKeysBounded ==
  \A u \in User : Cardinality(Authorizing(u)) <
                   MaxActiveKeys + Cardinality(Call) + (MaxFaults - faults)

(* _offboard_user: "Leaves no key that still authorizes and no grant that   *)
(* still counts".  It holds of the keys their owner can see and of the      *)
(* grants that are neither another user's invitation nor a row change_scope *)
(* put back, when no call of the user got past the tombstone.               *)
OffboardedIsPowerless ==
  \A u \in gone \ strayed :
    /\ \A k \in Key, server \in Source \cup {"all"} :
         key[k].owner = u /\ key[k].pointed => ~Authorizes(k, server)
    /\ \A s \in Source :
         grant[<<u, s>>] # None /\ grant[<<u, s>>].listed => grant[<<u, s>>].scope = "member"

(* The service of a source nobody subscribes to is not kept: once the calls *)
(* have ended, none of them killed or failed, a source with no subscriber   *)
(* counted is disabled, unless it was a removal that took the last one      *)
(* (delete_repo, _offboard_user).                                           *)
NothingAbandoned ==
  (\A q \in Call : call[q] = Idle) /\ faults = MaxFaults =>
    \A s \in Source \ emptied : Enabled(s) => row[s].count > 0

(* "the creator's own grant always survives and the count stays >= 1": a *)
(* removal leaves the source a subscriber (remove_member).               *)
RemovalLeavesASubscriber ==
  [][\A s \in Source : emptied' \ emptied # {s}]_vars

=============================================================================
