-------------------------- MODULE SourcePublication --------------------------
(**************************************************************************)
(* What the CodeBuild builds of one url or files source publish           *)
(* (cdk/buildspec.py, build_scripts/fetch_uploads.py,                     *)
(* build_scripts/publish_source_version.py): the objects under latest/,   *)
(* the hash that tells the next build or poll whether anything changed,   *)
(* the version the source groups read, and the hub graph of all public    *)
(* sources, which every build merges anew.                                *)
(*                                                                        *)
(* A text is what a build extracted from its checkout: the corpus it saw, *)
(* None where an upload was skipped, the LLM settings it was started      *)
(* with, and whether the LLM pass was complete.  A fingerprint has the    *)
(* same form: an incomplete pass is marked "fallback" in it.  S3 writes   *)
(* are atomic per object.  Two builds overlap when a stale claim is taken *)
(* over or the console asks for a rebuild; how they are claimed is in     *)
(* SourceBuild.  The settings are those the fingerprint has;              *)
(* llm_corpus_cap_mb is left out.                                         *)
(**************************************************************************)
EXTENDS Naturals

CONSTANTS
  Corpus,       \* what the site or the uploads may contain
  First,        \* the corpus at the start
  Knobs,        \* the LLM settings of the row
  Plain,        \* the settings at the start
  Slot,         \* builds that may run at once, numbered; the first free one is taken
  MaxEdits,     \* bound: changes of the corpus, the settings and the scope, rebuilds
  MaxFaults,    \* bound: failed builds and steps, skipped uploads, incomplete LLM passes
  None          \* no object, no attribute

VARIABLES
  kind,         \* "url" or "files"
  corpus,       \* what is out there now
  knobs,        \* llm_extract, llm_images, llm_model of the row
  past,         \* the texts there should have been
  scope,        \* graph_scope of the row
  row,          \* the row's build_arn, last_built_sha and active_source_version
  latest,       \* the objects under latest/: graph and hash
  hub,          \* this source's graph is in the hub graph
  merging,      \* whether it is in what another source's build merges; None no such build
  build,        \* slot -> the build
  asked,        \* a flip of the scope asked for a build
  left,         \* edits and faults left
  history       \* what happened to the properties' premises

publishVars == <<kind, corpus, knobs, past, scope, row, latest, hub, merging, build, asked,
                 left, history>>

Whole(c, k) == [corpus |-> c, knobs |-> k, full |-> TRUE]
Wanted == Whole(corpus, knobs)
Idle == [pc |-> "idle", knobs |-> Plain, hash |-> None, text |-> None, tar |-> TRUE,
         forced |-> FALSE, member |-> FALSE]

Running(b) == build[b].pc # "idle"

Init ==
  /\ kind \in {"url", "files"} /\ scope \in {"public", "private"}
  /\ corpus = First /\ knobs = Plain /\ past = {Wanted}
  /\ row = [arn |-> None, built |-> None, active |-> None]
  /\ latest = [graph |-> None, hash |-> None]
  /\ hub = FALSE /\ merging = None /\ asked = FALSE
  /\ build = [b \in Slot |-> Idle]
  /\ left \in [edits : 0 .. MaxEdits, faults : 0 .. MaxFaults]
  /\ history = [reverted |-> FALSE, torn |-> FALSE, overlapped |-> FALSE,
                skipped |-> FALSE, unversioned |-> FALSE, missed |-> FALSE]

Spend == left.faults > 0 /\ left' = [left EXCEPT !.faults = @ - 1]

(* A step that may go wrong: ok, or it fails at the cost of a fault. *)
May(ok) == IF ok THEN UNCHANGED left ELSE Spend

(* A files source has no other build to bring its scope to the hub. *)
Missed(lost) == history.missed \/ (kind = "files" /\ lost)

Go(b, to) == build' = [build EXCEPT ![b].pc = to]

Others == UNCHANGED <<kind, corpus, knobs, past, scope, merging>>

(* What build b reads of the corpus now, with the settings in its
   environment. *)
Read(b) == Whole(corpus, build[b].knobs)

-----------------------------------------------------------------------------
(* The poller builds a url source at every due tick, a files source when
   its listing is not what was last built; a scope flip asks for a build.
   The ARN's write may be lost; a build that starts beside another is the
   fault of a stale claim or of a rebuild after half an hour. *)
Due == kind = "url" \/ asked \/ row.built # Wanted

Launch(b, forced, fault) ==
  /\ ~Running(b) /\ \A d \in Slot : d < b => Running(d)
  /\ build' = [build EXCEPT ![b].pc = "fetch", ![b].knobs = knobs, ![b].forced = forced]
  /\ \E recorded \in BOOLEAN :
       /\ fault = (~recorded \/ \E d \in Slot : Running(d))
       /\ row' = IF recorded THEN [row EXCEPT !.arn = b]
                 ELSE [row EXCEPT !.arn = IF @ = b THEN None ELSE @]
  /\ history' = [history EXCEPT
       !.overlapped = @ \/ (kind = "files" /\ \E d \in Slot : Running(d))]
  /\ Others /\ UNCHANGED <<latest, hub>>

Start(b) ==
  /\ Due /\ asked' = FALSE
  /\ \E fault \in BOOLEAN : Launch(b, FALSE, fault) /\ May(~fault)

(* A rebuild from the console, which does not SKIP. *)
Rebuild(b) ==
  /\ left.edits > 0 /\ UNCHANGED asked
  /\ \E fault \in BOOLEAN :
       /\ Launch(b, TRUE, fault)
       /\ fault => left.faults > 0
       /\ left' = [edits |-> left.edits - 1, faults |-> left.faults - (IF fault THEN 1 ELSE 0)]

(* The uploads are listed and hashed, then downloaded one by one: the hash
   may be of an earlier corpus than the text, and covers an upload whose
   download failed, which is skipped. *)
List(b) ==
  /\ build[b].pc = "fetch" /\ kind = "files"
  /\ build' = [build EXCEPT ![b].pc = "download", ![b].hash = Read(b)]
  /\ Others /\ UNCHANGED <<row, latest, hub, asked, left, history>>

Download(b) ==
  /\ build[b].pc = "download"
  /\ \E all \in BOOLEAN :
       /\ May(all)
       /\ build' = [build EXCEPT ![b].pc = "extract",
                                 ![b].text = IF all THEN Read(b) ELSE Whole(None, build[b].knobs)]
  /\ Others /\ UNCHANGED <<row, latest, hub, asked, history>>

(* mutant: SKIP also skips the merge of the hub *)
AfterSkipNothing == "end"

AfterSkip == "merge"

(* The crawl; the rest is skipped when the published hash is the same,
   unless the console asked for the rebuild. *)
Crawl(b) ==
  /\ build[b].pc = "fetch" /\ kind = "url"
  /\ build' = [build EXCEPT
       ![b].pc = IF latest.hash = Read(b) /\ ~build[b].forced THEN AfterSkip ELSE "extract",
       ![b].hash = Read(b), ![b].text = Read(b)]
  /\ Others /\ UNCHANGED <<row, latest, hub, asked, left, history>>

(* mutant: the fingerprint of an incomplete pass is not marked *)
MarkedNever(hash, full) == hash

Marked(hash, full) == [hash EXCEPT !.full = full]

(* An LLM pass that fails, or of which a chunk fails, falls back to the
   quick scan and marks the fingerprint. *)
Extract(b) ==
  /\ build[b].pc = "extract"
  /\ \E full \in BOOLEAN :
       /\ May(full)
       /\ build' = [build EXCEPT ![b].text.full = full, ![b].hash = Marked(@, full),
                                 ![b].pc = IF kind = "files" THEN "src" ELSE "graph"]
  /\ Others /\ UNCHANGED <<row, latest, hub, asked, history>>

(* src.tar.gz, without which a files build does not go on. *)
Snapshot(b) ==
  /\ build[b].pc = "src"
  /\ \E ok \in BOOLEAN :
       /\ May(ok)
       /\ build' = [build EXCEPT ![b].tar = ok,
            ![b].pc = IF ~ok /\ kind = "files" THEN "end"
                      ELSE IF kind = "files" THEN "graph" ELSE "hash"]
  /\ history' = [history EXCEPT !.missed = Missed(build'[b].pc = "end")]
  /\ Others /\ UNCHANGED <<row, latest, hub, asked>>

Graph(b) ==
  /\ build[b].pc = "graph"
  /\ latest' = [latest EXCEPT !.graph = build[b].text]
  /\ Go(b, IF kind = "files" THEN "hash" ELSE "src")
  /\ Others /\ UNCHANGED <<row, hub, asked, left, history>>

(* source_hash, after everything it describes. *)
Hash(b) ==
  /\ build[b].pc = "hash"
  /\ latest' = [latest EXCEPT !.hash = build[b].hash]
  /\ Go(b, "version")
  /\ history' = [history EXCEPT
       !.torn = @ \/ build[b].text.corpus \notin {None, build[b].hash.corpus},
       !.skipped = build[b].text.corpus = None,
       !.overlapped = @ \/ latest.graph # build[b].text]
  /\ Others /\ UNCHANGED <<row, hub, asked, left>>

(* The version of graph and snapshot that source groups read, if the row
   still records this build.  Without a snapshot there is none. *)
Publish(b) ==
  /\ build[b].pc = "version"
  /\ row' = IF row.arn # b THEN row
            ELSE [row EXCEPT !.active = IF build[b].tar THEN build[b].text ELSE None]
  /\ history' = [history EXCEPT !.torn = @ \/ row.arn # b,
                                 !.unversioned = @ \/ row.arn # b \/ ~build[b].tar]
  /\ Go(b, "merge")
  /\ Others /\ UNCHANGED <<latest, hub, asked, left>>

(* The members of the hub are the rows that are public now. *)
Member == scope = "public" /\ latest.graph # None

Merge(b) ==
  /\ build[b].pc = "merge"
  /\ build' = [build EXCEPT ![b].pc = "hub", ![b].member = Member]
  /\ Others /\ UNCHANGED <<row, latest, hub, asked, left, history>>

(* The merged graph is put, whoever else put one; best effort. *)
PutHub(b) ==
  /\ build[b].pc = "hub"
  /\ \E ok \in BOOLEAN :
       /\ May(ok)
       /\ hub' = IF ok THEN build[b].member ELSE hub
       /\ history' = [history EXCEPT !.missed = Missed(~ok)]
  /\ Go(b, "done")
  /\ Others /\ UNCHANGED <<row, latest, asked>>

(* The builds of the other sources merge and put the same object. *)
OtherMerge ==
  /\ merging = None /\ merging' = Member
  /\ UNCHANGED <<kind, corpus, knobs, past, scope, row, latest, hub, build, asked, left, history>>

Merges(b) == build[b].pc \notin {"idle", "done", "end"}

OtherPut ==
  /\ merging # None /\ merging' = None
  /\ hub' = merging
  /\ history' = [history EXCEPT
       !.missed = Missed(merging # Member /\ ~asked /\ ~\E b \in Slot : Merges(b))]
  /\ UNCHANGED <<kind, corpus, knobs, past, scope, row, latest, build, asked, left>>

(* The completion of a build the row records takes the published hash. *)
Complete(b) ==
  /\ build[b].pc \in {"done", "end"}
  /\ row' = IF build[b].pc = "done" /\ row.arn = b THEN [row EXCEPT !.built = latest.hash] ELSE row
  /\ build' = [build EXCEPT ![b] = Idle]
  /\ Others /\ UNCHANGED <<latest, hub, asked, left, history>>

(* A command of the build fails, or it times out. *)
Fail(b) ==
  /\ Running(b) /\ build[b].pc # "end" /\ Spend
  /\ build' = [build EXCEPT ![b] = Idle]
  /\ history' = [history EXCEPT
       !.torn = @ \/ latest.graph = build[b].text,
       !.unversioned = @ \/ build[b].pc = "version",
       !.missed = Missed(TRUE)]
  /\ Others /\ UNCHANGED <<row, latest, hub, asked>>

-----------------------------------------------------------------------------
(* Something a build should see changes: the site, or the uploads the
   creator adds and deletes, or the settings. *)
Changed ==
  /\ left.edits > 0 /\ left' = [left EXCEPT !.edits = @ - 1]
  /\ past' = past \cup {Wanted'}
  /\ history' = [history EXCEPT !.reverted = @ \/ Wanted' \in past]
  /\ UNCHANGED <<kind, scope, row, latest, hub, merging, build>>

Edit ==
  /\ \E c \in Corpus \ {corpus} : corpus' = c
  /\ UNCHANGED <<knobs, asked>> /\ Changed

(* New settings ask for a build unless one is in flight, which goes on with
   the old ones. *)
SetLlmExtract ==
  /\ \E k \in Knobs \ {knobs} : knobs' = k
  /\ asked' = (asked \/ \A b \in Slot : ~Running(b))
  /\ UNCHANGED corpus /\ Changed

(* The creator flips the scope; a build is asked for if something was built
   and no build is in flight. *)
Flip ==
  /\ left.edits > 0 /\ left' = [left EXCEPT !.edits = @ - 1]
  /\ scope' = IF scope = "public" THEN "private" ELSE "public"
  /\ LET quiet == \A b \in Slot : ~Running(b)
     IN /\ asked' = (asked \/ (row.built # None /\ quiet))
        /\ history' = [history EXCEPT !.missed = Missed(~quiet)]
  /\ UNCHANGED <<kind, corpus, knobs, past, row, latest, hub, merging, build>>

Step(b) ==
  \/ List(b) \/ Download(b) \/ Crawl(b) \/ Extract(b) \/ Snapshot(b) \/ Graph(b)
  \/ Hash(b) \/ Publish(b) \/ Merge(b) \/ PutHub(b) \/ Complete(b)

Next ==
  \/ Edit \/ SetLlmExtract \/ Flip \/ OtherMerge \/ OtherPut
  \/ \E b \in Slot : Start(b) \/ Rebuild(b) \/ Step(b) \/ Fail(b)

(* Builds end, and a due source is built. *)
Fairness ==
  /\ \A b \in Slot : WF_publishVars(Step(b))
  /\ WF_publishVars(\E b \in Slot : Start(b))

Spec == Init /\ [][Next]_publishVars /\ Fairness

-----------------------------------------------------------------------------
(* The hash is published last "so it only ever describes a fully published
   graph" (cdk/buildspec.py:512-514), and an incomplete LLM pass is marked
   so that it is retried; "the poller rebuilds with the new settings after"
   the build in flight (platform_api/handler.py:1183-1188).  A corpus that
   stops changing ends up in the graph that is served, extracted in full
   with the settings of the row, and in the version the groups read.
   Premises: no build published its hash over another's graph, no two
   builds of a files source overlapped, the corpus did not return to an
   earlier one after a build that published a graph and did not get its
   hash into source_hash and the row, and the build that published last
   skipped no upload (fetch_uploads.py:84-90). *)
Published ==
  /\ latest.graph = Wanted
  /\ history.unversioned \/ row.active = Wanted

CorpusIsPublished ==
  <>[](~history.overlapped /\ ~history.skipped /\ (history.torn => ~history.reverted)
         => Published)

(* A source that stays private leaves the hub (platform_api/handler.py:
   1267-1270 and cdk/buildspec.py:548-552), whatever merges of its own and
   of other sources were under way when it was flipped.  For a url source
   the next ticks see to it; a files source has only the build that the
   flip asks for: the premises are that no build was in flight at a flip,
   that none failed, and that no other source's merge from before the flip
   is put after it. *)
HubFollowsScope ==
  <>[](~history.missed /\ scope = "private" => ~hub)
=============================================================================
