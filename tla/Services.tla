------------------------------ MODULE Services ------------------------------
(*************************************************************************)
(* The components that share no state with each other, side by side.  A  *)
(* behaviour is about one of them, its part, and the variables of the    *)
(* others keep one value: what is checked and proved here of a component *)
(* is what its module states, for one setting of all the constants.      *)
(*************************************************************************)
EXTENDS Integers, Sequences, FiniteSets

CONSTANTS
  Version, Part, Floor, SweepPage, Size(_), MaxLimit, MaxSweepFaults,   \* GroupArtifacts
  Node, MaxHops, Manifests, Globs, MaxResults, MaxFiles, MaxBytes, MaxFileBytes,   \* GraphQueries
  MaxVersion, Bad, MaxSyncFaults,   \* SourceService
  Ttl, Budget,   \* McpProxy
  Pairs, Batches(_), MaxTokens, MaxModelAttempts, MaxModelFaults,   \* GroupJudgement
  Texts, MaxCandidates, MaxOccurrences, MaxComparisons, MaxQuote,   \* GroupDiscovery
  Corpus, First, Knobs, Plain, Slot, MaxEdits, MaxBuildFaults,   \* SourcePublication
  Turns, DailyBudget, MaxCost, MaxAsks, MaxLosses,   \* Playground
  Url, Seed, InScope, Base(_), Answers, Robots, Sitemaps, Limits, MaxRedirects,   \* DocsCrawler
  Groups, Runs, ScanPage, Lease, Lifetime, MaxKills,   \* ReconcileScan
  Page, Docs, PagesOf(_), Workers, MaxNewPages, MaxOcrAttempts, MaxOcrFaults,   \* DocumentOCR
  None

ASSUME ServicesAssumption ==
  /\ Version \subseteq Nat /\ None \notin Version /\ \A v \in Version : Size(v) \in Nat
  /\ IsFiniteSet(Node) /\ MaxHops \in Nat
  /\ MaxResults \in Nat /\ MaxFiles \in Nat /\ MaxBytes \in Nat /\ MaxFileBytes \in Nat
  /\ \A g \in Globs : Len(g) \in Nat
  /\ \A m \in Manifests :
       Len(m) \in Nat /\ \A f \in 1 .. Len(m) :
         m[f].bytes \in 0 .. MaxFileBytes /\ Len(m[f].path) \in Nat /\ Len(m[f].lines) \in Nat
  /\ Ttl \in Nat /\ Budget \in Nat /\ None \notin [value : BOOLEAN, age : Nat]
  /\ Pairs \in Nat /\ MaxTokens \in Nat
  /\ MaxCandidates \in Nat /\ None \notin 1 .. 3
  /\ \A t \in Texts, s \in 1 .. 3 :
       /\ Len(t[s].lines) \in Nat /\ DOMAIN t[s].lines = 1 .. Len(t[s].lines)
       /\ \A n \in DOMAIN t[s].lines : t[s].lines[n].from \in Nat /\ t[s].lines[n].to \in Nat
  /\ Limits \subseteq Nat \ {0} /\ Seed \in InScope
  /\ \A m \in Sitemaps : Len(m) \in Nat /\ DOMAIN m = 1 .. Len(m)
  /\ IsFiniteSet(Turns) /\ DailyBudget \in Nat \ {0} /\ MaxCost \in Nat /\ MaxAsks \in Nat

VARIABLES
  part,
  stored, meta, execution, sweep, cursor, listing, faultsLeft,   \* GroupArtifacts
  asked, pending, previous, trace, scan, phase,   \* GraphQueries
  published, graph, srcEtag, srcFailed, tar, dirs, links, thread, mishaps, overlapped,   \* SourceService
  enabled, offFor, seen, call, forwarded,   \* McpProxy
  carried, cache, at, reserved, stopped, cacheable, trouble, charged, overrun, judged,   \* GroupJudgement
  text, indexed, candidates, why, doing,   \* GroupDiscovery
  kind, corpus, knobs, past, scope, row, latest, hub, merging, build, askedFor, left, history,   \* SourcePublication
  tokens, turn, losses, used,   \* Playground
  site, denied, limit, listed, follow, queue, seenUrls, fetched, ended,   \* DocsCrawler
  table, state, run, changes, kills, visited,   \* ReconcileScan
  doc, job, attempt, cancelled, newPages, kept, remote, failed, converted, sent, held, repaid, faults  \* DocumentOCR

A == INSTANCE GroupArtifacts WITH PageSize <- SweepPage, MaxFaults <- MaxSweepFaults
G == INSTANCE GraphQueries
S == INSTANCE SourceService WITH MaxFaults <- MaxSyncFaults
X == INSTANCE McpProxy
J == INSTANCE GroupJudgement WITH
       MaxAttempts <- MaxModelAttempts, MaxFaults <- MaxModelFaults, published <- carried
D == INSTANCE GroupDiscovery
P == INSTANCE SourcePublication WITH MaxFaults <- MaxBuildFaults, asked <- askedFor
L == INSTANCE Playground
C == INSTANCE DocsCrawler WITH seen <- seenUrls
R == INSTANCE ReconcileScan WITH PageSize <- ScanPage
O == INSTANCE DocumentOCR WITH
       MaxAttempts <- MaxOcrAttempts, MaxFaults <- MaxOcrFaults, reserved <- newPages

-----------------------------------------------------------------------------
Parts == {"artifacts", "queries", "service", "proxy", "judgement", "discovery",
          "publication", "playground", "crawl", "scan", "ocr"}

Init ==
  /\ part \in Parts
  /\ A!Init /\ G!Init /\ S!Init /\ X!Init /\ J!Init /\ D!Init
  /\ P!Init /\ L!Init /\ C!Init /\ R!Init /\ O!Init

artifactVars == <<stored, meta, execution, sweep, cursor, listing, faultsLeft>>
queryVars == <<asked, pending, previous, trace, scan, phase>>
serviceVars == <<published, graph, srcEtag, srcFailed, tar, dirs, links, thread, mishaps, overlapped>>
proxyVars == <<enabled, offFor, seen, call, forwarded>>
judgeVars == <<carried, cache, at, reserved, stopped, cacheable, trouble, charged, overrun, judged>>
discoverVars == <<text, indexed, candidates, why, doing>>
publishVars == <<kind, corpus, knobs, past, scope, row, latest, hub, merging, build, askedFor, left, history>>
playVars == <<tokens, turn, losses, used>>
crawlVars == <<site, denied, limit, listed, follow, queue, seenUrls, fetched, ended>>
scanVars == <<table, state, run, changes, kills, visited>>
ocrVars == <<doc, job, attempt, cancelled, newPages, kept, remote, failed, converted, sent, held, repaid, faults>>

(* The others stand still. *)
Only(p) ==
  /\ part = p /\ part' = part
  /\ p # "artifacts" => UNCHANGED artifactVars
  /\ p # "queries" => UNCHANGED queryVars
  /\ p # "service" => UNCHANGED serviceVars
  /\ p # "proxy" => UNCHANGED proxyVars
  /\ p # "judgement" => UNCHANGED judgeVars
  /\ p # "discovery" => UNCHANGED discoverVars
  /\ p # "publication" => UNCHANGED publishVars
  /\ p # "playground" => UNCHANGED playVars
  /\ p # "crawl" => UNCHANGED crawlVars
  /\ p # "scan" => UNCHANGED scanVars
  /\ p # "ocr" => UNCHANGED ocrVars

Next ==
  \/ Only("artifacts") /\ A!Next
  \/ Only("queries") /\ G!Next
  \/ Only("service") /\ S!Next
  \/ Only("proxy") /\ X!Next
  \/ Only("judgement") /\ J!Next
  \/ Only("discovery") /\ D!Next
  \/ Only("publication") /\ P!Next
  \/ Only("playground") /\ L!Next
  \/ Only("crawl") /\ C!Next
  \/ Only("scan") /\ R!Next
  \/ Only("ocr") /\ O!Next

vars == <<part, artifactVars, queryVars, serviceVars, proxyVars, judgeVars,
          discoverVars, publishVars, playVars, crawlVars, scanVars, ocrVars>>

Spec == Init /\ [][Next]_vars

-----------------------------------------------------------------------------
(* The version META serves keeps all its objects
   (garbage.py, GroupArtifacts). *)
ActiveIsWhole == part = "artifacts" => A!ActiveIsWhole

(* A paged listing is of one version
   (group_query.py, GroupArtifacts). *)
ListingIsOneVersion == part = "artifacts" => A!ListingIsOneVersion

(* What no pointer names is deleted in the end
   (garbage.py, GroupArtifacts). *)
ObsoleteIsCollected == <>[](part = "artifacts") => A!ObsoleteIsCollected

(* find_path answers a shortest path or says
   there is none within the hops (group_query.py, GraphQueries). *)
PathIsShortest == part = "queries" => G!PathIsShortest

(* search_code misses nothing without a reason
   (group_query.py, GraphQueries). *)
SearchIsHonest == part = "queries" => G!SearchIsHonest

(* A source tree that is put in place is of
   one build (runtime/entrypoint.py, SourceService). *)
TreesAreOneVersion == S!TreesAreOneVersion

(* A container serves the newest graph and
   tree in the end (runtime/entrypoint.py, SourceService). *)
LatestIsServed == <>[](part = "service") => S!LatestIsServed

(* The attempts of a call share one budget of
   time (mcp_proxy/handler.py, McpProxy). *)
CallsShareOneBudget == part = "proxy" => X!CallsShareOneBudget

(* A disabled source is cut off when the cached
   row expires (mcp_proxy/handler.py, McpProxy). *)
DisabledIsCutOff == part = "proxy" => X!DisabledIsCutOff

(* The model calls of a build stay within its
   budget (engine.py, GroupJudgement). *)
BudgetHolds == part = "judgement" => J!BudgetHolds

(* Over the builds every pair is judged that one
   budget pays for (engine.py, GroupJudgement). *)
PairsAreJudged ==
  /\ [](part = "judgement" => J!CarriedWasJudged)
  /\ <>[](part = "judgement") => <>[]J!PayableAreCarried

(* Candidates are complete unless a reason is given
   or a quote cannot be made (engine.py, GroupDiscovery). *)
DiscoveryIsComplete == part = "discovery" => D!DiscoveryIsComplete

(* A corpus that stays is published in full
   (buildspec.py, SourcePublication). *)
CorpusIsPublished == <>[](part = "publication") => P!CorpusIsPublished

(* A private source leaves the hub
   (buildspec.py, SourcePublication). *)
HubFollowsScope == <>[](part = "publication") => P!HubFollowsScope

(* What a user spends beyond the daily budget is
   bounded (playground/handler.py, Playground). *)
SpendIsBounded == part = "playground" => L!SpendIsBounded

(* A turn has time left for its reply
   (playground/handler.py, index.mjs, Playground). *)
ReplyShips == part = "playground" => L!ReplyShips

(* A crawl keeps what it can reach and no more
   (docs_crawler.py, DocsCrawler). *)
CrawlIsComplete == part = "crawl" => C!CrawlIsComplete

(* The reconciler comes to every group again and
   again (reconcile.py, ReconcileScan). *)
EveryGroupIsVisited == <>[](part = "scan") => R!EveryGroupIsVisited

(* A build sends no page that S3 has and no more than
   its budget, and over the builds every document is converted
   (document_ocr.py, convert_docs.py, DocumentOCR). *)
PagesArePaidOnce ==
  /\ [](part = "ocr" => O!OcrSpendIsBounded)
  /\ <>[](part = "ocr") => O!CorpusIsConverted
=============================================================================
