---------------------------- MODULE SourceService ----------------------------
(****************************************************************************)
(* The container that serves one source (runtime/entrypoint.py): the sync   *)
(* loop fetches graph.json and the source snapshot, a code-search call that *)
(* finds no snapshot fetches it too, and calls read the tree that the link  *)
(* points to.                                                               *)
(*                                                                          *)
(* sync_src is one program run by the loop and by the on-demand caller; the *)
(* archive, the temporary link and the directories are shared, the lock is  *)
(* only between on-demand callers.  What an archive is left with that two   *)
(* threads write is any of whole and broken.  An ETag is the version.       *)
(****************************************************************************)
EXTENDS Integers

CONSTANTS
  MaxVersion,   \* bound: builds that publish
  Bad,          \* versions whose snapshot does not extract
  MaxFaults     \* bound: failed S3 calls and restarts of the container

VARIABLES
  published,    \* version of graph.json and src.tar.gz under latest/; 0 none
  graph,        \* version of the graph on disk, with its ETag; 0 none
  srcEtag,      \* recorded ETag of the snapshot
  srcFailed,    \* _src_failed
  tar,          \* .src.tar.gz.tmp
  dirs,         \* .src-* directory -> version and files that are there
  links,        \* src and .src.lnk.tmp: the directory each names; 0 none
  thread,       \* the loop and the on-demand caller
  mishaps,      \* faults so far
  overlapped    \* history: two runs of sync_src overlapped

serviceVars == <<published, graph, srcEtag, srcFailed, tar, dirs, links, thread,
                 mishaps, overlapped>>

Thread == {"loop", "demand"}
File == {1, 2}
Idle == [pc |-> "idle", version |-> 0, dir |-> 0]
NoTar == [state |-> "none", version |-> 0]

Exists(dir) == dir \in DOMAIN dirs
Alone(t) == \A o \in Thread \ {t} : thread[o].pc \in {"idle", "graph", "head"}
Goto(t, pc) == thread' = [thread EXCEPT ![t].pc = pc]
End(t) == thread' = [thread EXCEPT ![t] = Idle]

(* .src-<time_ns>: a name nothing has.                                      *)
FreshOne(t) == 1                          \* mutant: always the same directory
Fresh(t) ==
  CHOOSE d \in 1..6 : d \notin DOMAIN dirs \cup {links.src, links.tmp}
                            \cup {thread[o].dir : o \in Thread}

Booted ==
  /\ graph = 0 /\ srcEtag = 0 /\ srcFailed = 0 /\ tar = NoTar /\ dirs = <<>>
  /\ links = [src |-> 0, tmp |-> 0]
  /\ thread = [t \in Thread |-> Idle]

(* The task starts before the source's first build or after some.           *)
Init ==
  /\ published \in 0 .. MaxVersion
  /\ Booted /\ mishaps \in 0 .. MaxFaults /\ overlapped = FALSE

-----------------------------------------------------------------------------
(* A build publishes both.                                                  *)
Publish ==
  /\ published < MaxVersion /\ published' = published + 1
  /\ UNCHANGED <<graph, srcEtag, srcFailed, tar, dirs, links, thread, mishaps,
                 overlapped>>

(* sync_all comes round.                                                    *)
Tick ==
  /\ thread["loop"] = Idle
  /\ Goto("loop", "graph")
  /\ UNCHANGED <<published, graph, srcEtag, srcFailed, tar, dirs, links, mishaps,
                 overlapped>>

(* _download_atomic of graph.json: the ETag recorded is that of the GET.    *)
SyncGraph ==
  /\ thread["loop"].pc = "graph"
  /\ graph' = published
  /\ Goto("loop", "head")
  /\ UNCHANGED <<published, srcEtag, srcFailed, tar, dirs, links, mishaps, overlapped>>

(* _ensure_src_now: a call finds no tree, and the lock free.                *)
Demand ==
  /\ thread["demand"] = Idle /\ ~Exists(links.src)
  /\ Goto("demand", "head")
  /\ UNCHANGED <<published, graph, srcEtag, srcFailed, tar, dirs, links, mishaps,
                 overlapped>>

-----------------------------------------------------------------------------
(* sync_src.                                                                *)

GivenUp(version) == srcFailed = version

(* mutant: whatever tree there is will do.                                  *)
CurrentOnce(version) == Exists(links.src)
Current(version) == srcEtag = version /\ Exists(links.src)

Head(t) ==
  /\ thread[t].pc = "head"
  /\ IF \/ published = 0
        \/ Current(published)
        \/ GivenUp(published)
     THEN End(t) /\ UNCHANGED overlapped
     ELSE Goto(t, "get") /\ overlapped' = (overlapped \/ ~Alone(t))
  /\ UNCHANGED <<published, graph, srcEtag, srcFailed, tar, dirs, links, mishaps>>

(* GET, and the open that truncates the archive.                            *)
Get(t) ==
  /\ thread[t].pc = "get"
  /\ thread' = [thread EXCEPT ![t].pc = "write", ![t].version = published]
  /\ tar' = [state |-> "broken", version |-> published]
  /\ UNCHANGED <<published, graph, srcEtag, srcFailed, dirs, links, mishaps,
                 overlapped>>

Write(t) ==
  /\ thread[t].pc = "write"
  /\ \/ tar.state = "none" /\ UNCHANGED tar       \* it was unlinked meanwhile
     \/ tar.state # "none" /\ tar' = [state |-> "whole", version |-> thread[t].version]
     \/ tar.state # "none" /\ ~Alone(t) /\ tar' = [tar EXCEPT !.state = "broken"]
  /\ thread' = [thread EXCEPT ![t].pc = "extract", ![t].dir = Fresh(t)]
  /\ UNCHANGED <<published, graph, srcEtag, srcFailed, dirs, links, mishaps,
                 overlapped>>

(* _extract_src_tar, its first files and the rest; an error removes the  *)
(* directory and gives the version up.                                   *)
Without(d) == [e \in DOMAIN dirs \ {d} |-> dirs[e]]
With(d, tree) == [e \in DOMAIN dirs \cup {d} |-> IF e = d THEN tree ELSE dirs[e]]

Extract(t) ==
  /\ thread[t].pc = "extract"
  /\ tar.state = "whole" /\ tar.version \notin Bad
  /\ dirs' = With(thread[t].dir, [version |-> tar.version, files |-> {1}])
  /\ Goto(t, "rest")
  /\ UNCHANGED <<published, graph, srcEtag, srcFailed, tar, links, mishaps, overlapped>>

Rest(t) ==
  /\ thread[t].pc = "rest"
  /\ dirs' = With(thread[t].dir, IF Exists(thread[t].dir)
                                 THEN [dirs[thread[t].dir] EXCEPT !.files = @ \cup {2}]
                                 ELSE [version |-> thread[t].version, files |-> {2}])
  /\ tar' = NoTar
  /\ Goto(t, "unlink")
  /\ UNCHANGED <<published, graph, srcEtag, srcFailed, links, mishaps, overlapped>>

ExtractFails(t) ==
  /\ \/ thread[t].pc = "extract" /\ (tar.state # "whole" \/ tar.version \in Bad)
     \/ thread[t].pc = "rest" /\ ~Alone(t)
  /\ dirs' = Without(thread[t].dir)
  /\ srcFailed' = thread[t].version
  /\ tar' = NoTar
  /\ End(t)
  /\ UNCHANGED <<published, graph, srcEtag, links, mishaps, overlapped>>

(* The temporary link is removed, made and put over src; each step raises *)
(* when the other thread has been there.  The directory of a run that     *)
(* raises has no name any more and waits for a reap: it is left out.      *)
Raise(t) ==
  /\ dirs' = IF thread[t].dir \in {links.src, links.tmp} THEN dirs ELSE Without(thread[t].dir)
  /\ End(t)

UnlinkTmp(t) ==
  /\ thread[t].pc = "unlink"
  /\ links' = [links EXCEPT !.tmp = 0]
  /\ Goto(t, "link")
  /\ UNCHANGED <<published, graph, srcEtag, srcFailed, tar, dirs, mishaps, overlapped>>

Symlink(t) ==
  /\ thread[t].pc = "link"
  /\ IF links.tmp = 0
     THEN /\ links' = [links EXCEPT !.tmp = thread[t].dir]
          /\ Goto(t, "replace") /\ UNCHANGED dirs
     ELSE Raise(t) /\ UNCHANGED links
  /\ UNCHANGED <<published, graph, srcEtag, srcFailed, tar, mishaps, overlapped>>

(* The flip, the ETag of what was fetched, and the mark that is taken back. *)
Replace(t) ==
  /\ thread[t].pc = "replace"
  /\ IF links.tmp # 0
     THEN /\ links' = [src |-> links.tmp, tmp |-> 0]
          /\ srcEtag' = thread[t].version /\ srcFailed' = 0
          /\ Goto(t, "reap") /\ UNCHANGED dirs
     ELSE Raise(t) /\ UNCHANGED <<links, srcEtag, srcFailed>>
  /\ UNCHANGED <<published, graph, tar, mishaps, overlapped>>

Reap(t) ==
  /\ thread[t].pc = "reap"
  /\ dirs' = [d \in DOMAIN dirs \cap {thread[t].dir} |-> dirs[d]]
  /\ End(t)
  /\ UNCHANGED <<published, graph, srcEtag, srcFailed, tar, links, mishaps, overlapped>>

-----------------------------------------------------------------------------
(* An S3 call raises: sync_all and _ensure_src_now log it.                  *)
CallFails(t) ==
  /\ thread[t].pc \in {"graph", "head", "get", "write"} /\ mishaps < MaxFaults
  /\ mishaps' = mishaps + 1
  /\ End(t)
  /\ UNCHANGED <<published, graph, srcEtag, srcFailed, tar, dirs, links, overlapped>>

(* The task is replaced: memory and disk are new.                           *)
Restart ==
  /\ mishaps < MaxFaults /\ mishaps' = mishaps + 1
  /\ graph' = 0 /\ srcEtag' = 0 /\ srcFailed' = 0 /\ tar' = NoTar /\ dirs' = <<>>
  /\ links' = [src |-> 0, tmp |-> 0]
  /\ thread' = [t \in Thread |-> Idle]
  /\ UNCHANGED <<published, overlapped>>

SyncSrc(t) ==
  \/ Head(t) \/ Get(t) \/ Write(t) \/ Extract(t) \/ Rest(t) \/ ExtractFails(t)
  \/ UnlinkTmp(t) \/ Symlink(t) \/ Replace(t) \/ Reap(t)

Loop == Tick \/ SyncGraph \/ SyncSrc("loop")
OnDemand == SyncSrc("demand")

Next ==
  \/ Publish \/ Loop \/ Demand \/ OnDemand
  \/ \E t \in Thread : CallFails(t)
  \/ Restart

Spec ==
  Init /\ [][Next]_serviceVars /\ WF_serviceVars(Loop) /\ WF_serviceVars(OnDemand)

-----------------------------------------------------------------------------
(* "atomic for concurrent readers": a tree that a call resolved may lose its *)
(* files but never turns into another version's, whatever is synced, reaped  *)
(* or overlaps; and unless the loop and an on-demand caller overlapped, the  *)
(* linked tree is whole and the one whose ETag is recorded (sync_src,        *)
(* _src_root, _tool_read_source, _tool_search_code).                         *)
TreesAreOneVersion ==
  [][/\ \A d \in DOMAIN dirs \cap DOMAIN dirs' : dirs'[d].version = dirs[d].version
     /\ ~overlapped /\ links.src # 0 =>
          Exists(links.src) /\ dirs[links.src] = [version |-> srcEtag, files |-> File]]_serviceVars

(* What is published last is served in the end and from then on, though S3 *)
(* fails and the task restarts: the graph always, and the snapshot, if it  *)
(* extracts and two syncs did not overlap (sync_loop, sync_src).           *)
LatestIsServed ==
  <>[](/\ graph = published
       /\ \/ published \in Bad \cup {0} \/ overlapped
          \/ /\ Exists(links.src)
             /\ dirs[links.src] = [version |-> published, files |-> File])

=============================================================================
