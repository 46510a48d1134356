-------------------------- MODULE SourceBuildProofs --------------------------
(*************************************************************************)
(* What MCSourceBuild checks on one poller, one push and one console     *)
(* request, proved for any number of them, of builds and of commits, for *)
(* all delays and however many mishaps a behaviour suffers.              *)
(*************************************************************************)
EXTENDS SourceBuild, TLAPS

-----------------------------------------------------------------------------
(* The inductive invariant: TypeOK and BuiltSucceeded by the variable they *)
(* speak of.  What makes BuiltSucceeded inductive is that a build in       *)
(* progress is one of a commit, and that an event tells the truth.         *)

RowOK == row \in Row /\ BuiltSucceeded

CallTyped(c) ==
  c \in Call /\ (c.pc \in {"pushed", "rebuilding", "claimed", "started"} => c.sha # 0)
CallOK == call \in [Invocations -> Call] /\ \A h \in Invocations : CallTyped(call[h])

BuildOK == build \in [Builds -> Build] /\ \A b \in Builds : InProgress(b) => build[b].sha # 0

EventOK == events \subseteq Event /\ \A e \in events : e.ok => e.sha \in succeeded

WorldOK ==
  /\ pushes \subseteq Commits /\ head \in Commits /\ succeeded \subseteq Commits
  /\ mishaps \in 0..MaxMishaps /\ landed \in BOOLEAN

SInv == RowOK /\ CallOK /\ BuildOK /\ EventOK /\ WorldOK

-----------------------------------------------------------------------------
(* Lemmas about the operators.                                              *)

LEMMA Ranges ==
  /\ 0 \in 0..Horizon /\ 0 \in 0..Interval /\ Interval \in 0..Interval
  /\ 0 \in Shas /\ Commits \subseteq Shas /\ 0 \notin Commits /\ 1 \in Commits
  BY SourceAssumption DEF Horizon, Shas, Commits

LEMMA IdleIsTyped == CallTyped(Idle) /\ Idle \in Call
  BY Ranges DEF CallTyped, Idle, Call

(* One invocation moves on.                                                 *)
LEMMA OneCall ==
  ASSUME CallOK, NEW h \in Invocations, NEW c, CallTyped(c), call' = [call EXCEPT ![h] = c]
  PROVE  CallOK'
  BY DEF CallOK, CallTyped

LEMMA ReturnIsTyped ==
  ASSUME CallOK, NEW h \in Invocations, Return(h) PROVE CallOK'
  BY IdleIsTyped, OneCall DEF Return

LEMMA SupersededIsTyped ==
  ASSUME CallOK, NEW h \in Invocations PROVE CallTyped(Superseded(h))
  BY DEF CallOK, CallTyped, Superseded, Call

(* A final status and a next poll leave last_built_sha alone.               *)
LEMMA ClosedIsRow ==
  ASSUME RowOK, NEW s \in {"REGISTERED", "BUILDING", "READY", "FAILED"}
  PROVE  Closed(s) \in Row /\ Closed(s).built = row.built
  BY Ranges DEF RowOK, Row, Closed

LEMMA MishapIsTyped == ASSUME WorldOK, Mishap PROVE mishaps' \in 0..MaxMishaps
  BY SourceAssumption DEF WorldOK, Mishap

(* Nothing the row's built commit depends on changes.                       *)
LEMMA RowKept ==
  ASSUME RowOK, row' \in Row, row'.built = row.built, succeeded' = succeeded PROVE RowOK'
  BY DEF RowOK, BuiltSucceeded

LEMMA ClaimKeeps ==
  ASSUME SInv, NEW h \in Invocations, NEW sha \in Commits, Claim(h, sha),
         UNCHANGED succeeded
  PROVE  RowOK' /\ CallOK' /\ landed' \in BOOLEAN
  <1>1. row' \in Row /\ row'.built = row.built
    BY Ranges DEF SInv, RowOK, Row, Claim
  <1>2. [Idle EXCEPT !.pc = "claimed", !.sha = sha, !.same = TRUE, !.late = call[h].late]
          \in Call
    BY Ranges DEF SInv, CallOK, CallTyped, Idle, Call
  <1>3. sha # 0
    BY DEF Commits
  <1>4. CallOK'
    BY <1>2, <1>3, SupersededIsTyped DEF SInv, CallOK, CallTyped, Claim, Idle
  <1> QED BY <1>1, <1>4, RowKept DEF SInv, Claim

-----------------------------------------------------------------------------
LEMMA InitSInv == Init => SInv
  <1> SUFFICES ASSUME Init PROVE SInv
    OBVIOUS
  <1>1. RowOK
    BY SourceAssumption DEF Init, RowOK, Row, BuiltSucceeded, Horizon, Shas
  <1>2. CallOK
    BY IdleIsTyped DEF Init, CallOK
  <1>3. BuildOK
    BY SourceAssumption DEF Init, BuildOK, Build, NoBuild, InProgress, Shas
  <1>4. EventOK /\ WorldOK
    <2>1. MaxMishaps \in 0..MaxMishaps
      BY SourceAssumption
    <2> QED BY <2>1, Ranges DEF Init, EventOK, WorldOK
  <1> QED BY <1>1, <1>2, <1>3, <1>4 DEF SInv

(* The poller.                                                              *)
LEMMA PollerKeeps ==
  ASSUME SInv, NEW p \in Pollers, Polling(p) PROVE SInv'
  <1> p \in Invocations
    BY DEF Invocations
  <1>1. CASE Poll(p)
    <2>1. [status |-> row.status, lapsed |-> Lapsed, build |-> row.build,
           built |-> row.built] \in Seen
      BY <1>1 DEF SInv, RowOK, Row, Seen, Lapsed
    <2>2. CallTyped([Idle EXCEPT !.pc = "polling", !.same = TRUE,
            !.seen = [status |-> row.status, lapsed |-> Lapsed, build |-> row.build,
                      built |-> row.built]])
      BY <2>1, Ranges DEF CallTyped, Idle, Call
    <2>3. CallOK'
      BY <1>1, <2>2, OneCall DEF SInv, Poll
    <2> QED BY <1>1, <2>3
      DEF Poll, SInv, RowOK, BuiltSucceeded, BuildOK, InProgress, EventOK, WorldOK
  <1>2. CASE PollLater(p)
    <2>1. RowOK'
      BY <1>2, SourceAssumption, RowKept DEF PollLater, SInv, RowOK, Row
    <2>2. CallOK'
      BY <1>2, ReturnIsTyped DEF PollLater, SInv
    <2>3. mishaps' \in 0..MaxMishaps
      BY <1>2, MishapIsTyped DEF PollLater, SInv, WorldOK
    <2> QED BY <1>2, <2>1, <2>2, <2>3
      DEF PollLater, SInv, BuildOK, InProgress, EventOK, WorldOK
  <1>3. CASE PollNoChange(p)
    <2>1. Cleared(call[p].seen) \in Row /\ Cleared(call[p].seen).built = row.built
      BY ClosedIsRow DEF Cleared, SInv, RowOK
    <2>2. RowOK'
      BY <1>3, <2>1, SourceAssumption, RowKept DEF PollNoChange, SInv, Row
    <2>3. CallOK'
      BY <1>3, ReturnIsTyped DEF PollNoChange, SInv
    <2> QED BY <1>3, <2>2, <2>3
      DEF PollNoChange, SInv, BuildOK, InProgress, EventOK, WorldOK
  <1>4. CASE PollLost(p)
    <2>1. CallOK'
      BY <1>4, ReturnIsTyped DEF PollLost, SInv
    <2> QED BY <1>4, <2>1
      DEF PollLost, SInv, RowOK, BuiltSucceeded, BuildOK, InProgress, EventOK, WorldOK
  <1>5. CASE PollClaim(p)
    <2>1. RowOK' /\ CallOK' /\ landed' \in BOOLEAN
      BY <1>5, ClaimKeeps DEF PollClaim, SInv, WorldOK
    <2>2. mishaps' \in 0..MaxMishaps
      BY <1>5, MishapIsTyped DEF PollClaim, SInv, WorldOK
    <2> QED BY <1>5, <2>1, <2>2
      DEF PollClaim, SInv, BuildOK, InProgress, EventOK, WorldOK
  <1> QED BY <1>1, <1>2, <1>3, <1>4, <1>5 DEF Polling

(* The webhook.                                                             *)
LEMMA HookKeeps ==
  ASSUME SInv, NEW h \in Hooks, Pushing(h) PROVE SInv'
  <1> h \in Invocations
    BY DEF Invocations
  <1>1. ASSUME NEW sha \in pushes, Push(h, sha) PROVE SInv'
    <2>1. sha \in Commits
      BY <1>1 DEF SInv, WorldOK
    <2>2. CallTyped([Idle EXCEPT !.pc = "pushed", !.sha = sha])
      BY <2>1, Ranges DEF CallTyped, Idle, Call
    <2>3. CallOK'
      BY <1>1, <2>2, OneCall DEF SInv, Push, CallOK, CallTyped
    <2> QED BY <1>1, <2>3
      DEF Push, SInv, RowOK, BuiltSucceeded, BuildOK, InProgress, EventOK, WorldOK
  <1>2. CASE HookClaim(h)
    <2>1. call[h].sha \in Commits
      BY <1>2 DEF HookClaim, SInv, CallOK, CallTyped, Call, Shas, Commits
    <2>2. RowOK' /\ CallOK' /\ landed' \in BOOLEAN
      BY <1>2, <2>1, ClaimKeeps DEF HookClaim
    <2> QED BY <1>2, <2>2
      DEF HookClaim, SInv, BuildOK, InProgress, EventOK, WorldOK
  <1>3. CASE HookDefer(h)
    <2>1. RowOK'
      BY <1>3, SourceAssumption, RowKept DEF HookDefer, SInv, RowOK, Row
    <2>2. CallOK'
      BY <1>3, ReturnIsTyped DEF HookDefer, SInv
    <2> QED BY <1>3, <2>1, <2>2
      DEF HookDefer, SInv, BuildOK, InProgress, EventOK, WorldOK
  <1> QED BY <1>1, <1>2, <1>3 DEF Pushing

(* The console's request.                                                   *)
LEMMA ConsoleKeeps ==
  ASSUME SInv, NEW k \in Consoles, Rebuild(k) PROVE SInv'
  <1> k \in Invocations
    BY DEF Invocations
  <1>1. PICK sha \in {head, row.built} \ {0} :
          call' = [call EXCEPT ![k] = [Idle EXCEPT !.pc = "rebuilding", !.sha = sha]]
    BY DEF Rebuild
  <1>2. sha \in Shas /\ sha # 0
    BY DEF SInv, RowOK, Row, WorldOK, Commits, Shas
  <1>3. CallTyped([Idle EXCEPT !.pc = "rebuilding", !.sha = sha])
    BY <1>2 DEF CallTyped, Idle, Call
  <1>4. CallOK'
    BY <1>1, <1>3, OneCall DEF SInv
  <1>5. mishaps' \in 0..MaxMishaps
    BY MishapIsTyped DEF Rebuild, SInv
  <1> QED BY <1>4, <1>5
    DEF Rebuild, SInv, RowOK, BuiltSucceeded, BuildOK, InProgress, EventOK, WorldOK

(* StartBuild and the record of its answer.                                 *)
LEMMA LaunchKeeps ==
  ASSUME SInv, NEW h \in Invocations, Starting(h), NEW b \in Builds, Launch(h, b)
  PROVE  BuildOK'
  <1>1. call[h].sha \in Shas /\ call[h].sha # 0
    BY DEF SInv, CallOK, CallTyped, Call, Starting
  <1>2. [running |-> TRUE, sha |-> call[h].sha, age |-> 0] \in Build
    BY <1>1, SourceAssumption DEF Build
  <1> QED BY <1>1, <1>2 DEF SInv, BuildOK, Launch, InProgress

LEMMA RunKeeps ==
  ASSUME SInv, NEW h \in Invocations, Run(h) PROVE SInv'
  <1>1. CASE Start(h)
    <2>1. PICK b \in FreshBuilds :
            Launch(h, b) /\ call' = [call EXCEPT ![h].pc = "started", ![h].build = b]
      BY <1>1 DEF Start
    <2>2. b \in Builds
      BY DEF FreshBuilds
    <2>3. BuildOK'
      BY <1>1, <2>1, <2>2, LaunchKeeps DEF Start
    <2>4. call[h] \in Call /\ call[h].sha # 0
      BY <1>1 DEF SInv, CallOK, CallTyped, Start, Starting
    <2>5. CallTyped([call[h] EXCEPT !.pc = "started", !.build = b])
      BY <2>2, <2>4 DEF CallTyped, Call
    <2>6. call' = [call EXCEPT ![h] = [call[h] EXCEPT !.pc = "started", !.build = b]]
      BY <2>1 DEF SInv, CallOK, Call
    <2>7. CallOK'
      BY <2>5, <2>6, OneCall DEF SInv
    <2> QED BY <1>1, <2>3, <2>7
      DEF Start, SInv, RowOK, BuiltSucceeded, EventOK, WorldOK
  <1>2. CASE StartFails(h)
    <2>1. BuildOK'
      BY <1>2, LaunchKeeps DEF StartFails, FreshBuilds, SInv, BuildOK, InProgress
    <2>2. row' \in Row /\ row'.built = row.built
      BY <1>2, ClosedIsRow, SourceAssumption DEF StartFails, SInv, RowOK, Row, Invocations
    <2>3. RowOK'
      BY <1>2, <2>2, RowKept DEF StartFails, SInv
    <2>4. CallOK' /\ mishaps' \in 0..MaxMishaps
      BY <1>2, ReturnIsTyped, MishapIsTyped DEF StartFails, SInv
    <2> QED BY <1>2, <2>1, <2>3, <2>4 DEF StartFails, SInv, EventOK, WorldOK
  <1>3. CASE Record(h)
    <2>1. row' \in Row /\ row'.built = row.built
      <3>1. row \in Row /\ call[h].build \in Builds \cup {None}
        BY DEF SInv, RowOK, CallOK, CallTyped, Call
      <3>2. CASE h \in Consoles
        BY <1>3, <3>1, <3>2, Ranges DEF Record, Row
      <3>3. CASE h \notin Consoles
        BY <1>3, <3>1, <3>3 DEF Record, Row
      <3> QED BY <3>2, <3>3
    <2>2. RowOK'
      BY <1>3, <2>1, RowKept DEF Record, SInv
    <2>3. CASE h \in Consoles
      <3>1. CallOK' /\ landed' \in BOOLEAN
        BY <1>3, <2>3, IdleIsTyped, SupersededIsTyped DEF Record, SInv, CallOK, CallTyped
      <3> QED BY <1>3, <2>2, <3>1 DEF Record, SInv, BuildOK, InProgress, EventOK, WorldOK
    <2>4. CASE h \notin Consoles
      <3>1. CallOK' /\ landed' \in BOOLEAN
        BY <1>3, <2>4, ReturnIsTyped DEF Record, SInv, CallOK, CallTyped, Call
      <3> QED BY <1>3, <2>2, <3>1 DEF Record, SInv, BuildOK, InProgress, EventOK, WorldOK
    <2> QED BY <2>3, <2>4
  <1>4. CASE Crash(h)
    <2>1. CallOK' /\ mishaps' \in 0..MaxMishaps
      BY <1>4, ReturnIsTyped, MishapIsTyped DEF Crash, SInv
    <2> QED BY <1>4, <2>1
      DEF Crash, SInv, RowOK, BuiltSucceeded, BuildOK, InProgress, EventOK, WorldOK
  <1> QED BY <1>1, <1>2, <1>3, <1>4 DEF Run

(* The end of a build: an event that says so, and a commit that succeeded.  *)
LEMMA EndKeeps ==
  ASSUME SInv, NEW b \in Builds, NEW ok \in BOOLEAN, End(b, ok) PROVE SInv'
  <1>1. build[b].sha \in Commits
    BY DEF SInv, BuildOK, Build, End, Shas, Commits
  <1>2. BuildOK'
    BY SourceAssumption DEF SInv, BuildOK, Build, End, NoBuild, InProgress, Shas
  <1>3. succeeded \subseteq succeeded' /\ succeeded' \subseteq Commits
    BY <1>1 DEF End, SInv, WorldOK
  <1>4. EventOK'
    <2> DEFINE new == [build |-> b, sha |-> build[b].sha, ok |-> ok, slow |-> FALSE]
    <2>1. new \in Event
      BY <1>1 DEF Event
    <2>2. events' = events \cup {new}
      BY DEF End
    <2>3. new.ok => new.sha \in succeeded'
      BY DEF End
    <2>4. \A e \in events : e.ok => e.sha \in succeeded'
      BY <1>3 DEF SInv, EventOK
    <2> HIDE DEF new
    <2>5. events' \subseteq Event
      BY <2>1, <2>2 DEF SInv, EventOK
    <2> QED BY <2>2, <2>3, <2>4, <2>5 DEF EventOK
  <1>5. mishaps' \in 0..MaxMishaps
    BY MishapIsTyped DEF End, SInv, WorldOK
  <1>6. RowOK'
    BY <1>3 DEF End, SInv, RowOK, BuiltSucceeded
  <1>7. CallOK'
    BY DEF End, SInv, CallOK, CallTyped
  <1> QED BY <1>2, <1>3, <1>4, <1>5, <1>6, <1>7 DEF End, SInv, WorldOK

(* The completion handler and the events it may never see: what is recorded *)
(* as built is what a truthful event says, or what was recorded before.     *)
LEMMA EventKeeps ==
  ASSUME SInv, NEW e \in events, Complete(e) \/ CompleteUnseen(e) \/ LoseEvent(e)
  PROVE  SInv'
  <1>1. e \in Event
    BY DEF SInv, EventOK
  <1>2. [e EXCEPT !.slow = TRUE] \in Event /\ [e EXCEPT !.slow = TRUE].ok = e.ok
        /\ [e EXCEPT !.slow = TRUE].sha = e.sha
    BY <1>1 DEF Event
  <1>3. EventOK'
    BY <1>2 DEF Complete, CompleteUnseen, LoseEvent, Slowed, SInv, EventOK
  <1>4. mishaps' \in 0..MaxMishaps
    BY MishapIsTyped DEF Complete, CompleteUnseen, LoseEvent, SInv, WorldOK
  <1>5. RowOK'
    <2>1. CASE row' = row
      BY <2>1 DEF Complete, CompleteUnseen, LoseEvent, SInv, RowOK, BuiltSucceeded
    <2>2. CASE row' = Closed("FAILED")
      BY <2>2, ClosedIsRow, RowKept DEF Complete, CompleteUnseen, LoseEvent, SInv
    <2>3. CASE e.ok /\ row' = [Closed("READY") EXCEPT !.built = e.sha]
      <3>1. e.sha \in Shas /\ e.sha \in succeeded
        BY <1>1, <2>3 DEF Event, Commits, Shas, SInv, EventOK
      <3>2. row' \in Row /\ row'.built = e.sha
        BY <2>3, <3>1, ClosedIsRow DEF SInv, Row
      <3> QED BY <3>1, <3>2 DEF Complete, CompleteUnseen, LoseEvent, RowOK, BuiltSucceeded
    <2> QED BY <2>1, <2>2, <2>3 DEF Complete, CompleteUnseen, LoseEvent, Completed
  <1>6. CallOK' /\ BuildOK'
    BY DEF Complete, CompleteUnseen, LoseEvent, SInv, CallOK, CallTyped, BuildOK, InProgress
  <1> QED BY <1>3, <1>4, <1>5, <1>6 DEF Complete, CompleteUnseen, LoseEvent, SInv, WorldOK

LEMMA CommitKeeps == ASSUME SInv, Commit PROVE SInv'
  <1>1. head' \in Commits
    BY SourceAssumption DEF Commit, SInv, WorldOK, Commits
  <1> QED BY <1>1
    DEF Commit, SInv, RowOK, BuiltSucceeded, CallOK, CallTyped, BuildOK, InProgress,
        EventOK, WorldOK

LEMMA TickKeeps == ASSUME SInv, Tick PROVE SInv'
  <1>1. Older(row.age) \in 0..Horizon
    BY SourceAssumption DEF SInv, RowOK, Row, Older, Horizon
  <1>2. row' \in Row /\ row'.built = row.built
    <2>1. 0 \in 0..Interval /\ (row.wait # 0 => row.wait - 1 \in 0..Interval)
      BY SourceAssumption DEF SInv, RowOK, Row
    <2> QED BY <1>1, <2>1, Ranges DEF Tick, SInv, RowOK, Row
  <1>3. RowOK'
    BY <1>2, RowKept DEF Tick, SInv
  <1>4. CallOK'
    BY DEF Tick, SInv, CallOK, CallTyped, Call
  <1>5. \A b \in Builds : InProgress(b) => build[b].age < BuildLimit
    BY DEF Tick, WithinLimit
  <1>6. BuildOK'
    BY <1>5, SourceAssumption DEF Tick, SInv, BuildOK, Build, InProgress
  <1> QED BY <1>3, <1>4, <1>6 DEF Tick, SInv, EventOK, WorldOK

LEMMA NextSInv == SInv /\ [Next]_vars => SInv'
  <1> SUFFICES ASSUME SInv, [Next]_vars PROVE SInv'
    OBVIOUS
  <1>1. CASE Next
    BY <1>1, PollerKeeps, HookKeeps, ConsoleKeeps, RunKeeps, EndKeeps, EventKeeps,
       CommitKeeps, TickKeeps DEF Next
  <1>2. CASE UNCHANGED vars
    BY <1>2 DEF vars, SInv, RowOK, BuiltSucceeded, CallOK, CallTyped, BuildOK, InProgress,
                EventOK, WorldOK
  <1> QED BY <1>1, <1>2

LEMMA SInvImplies == SInv => TypeOK /\ BuiltSucceeded
  BY DEF SInv, RowOK, CallOK, CallTyped, BuildOK, EventOK, WorldOK, TypeOK

LEMMA Always == Spec => []SInv
  BY InitSInv, NextSInv, PTL DEF Spec

-----------------------------------------------------------------------------
(* Every field keeps its type: no build outlives CodeBuild's limit, no   *)
(* invocation starts a build of no commit.                               *)
THEOREM SourceTypeCorrect == Spec => []TypeOK
  BY Always, SInvImplies, PTL

(* last_built_sha is a commit that a build really built, however many    *)
(* invocations, builds and mishaps there are (completion/handler.py,     *)
(* `handler`).                                                           *)
THEOREM BuiltIsBuilt == Spec => []BuiltSucceeded
  BY Always, SInvImplies, PTL
=============================================================================
