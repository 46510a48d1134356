----------------------------- MODULE DocsCrawler -----------------------------
(***************************************************************************)
(* The crawl of a url source (cdk/build_scripts/docs_crawler.py): the      *)
(* sitemap's pages or, without one, the links followed from the seed,      *)
(* clamped to the scope, to robots.txt and to a number of pages.           *)
(*                                                                         *)
(* A site is a small web of normalised URLs: a URL answers with a page and *)
(* its links, with a redirect, or with nothing that is kept (an error, an  *)
(* asset, a page that is neither HTML nor Markdown).  It does not change   *)
(* during a crawl.  The checks of the host's addresses are left out.       *)
(***************************************************************************)
EXTENDS Integers, Sequences, FiniteSets, SequencesExt

CONSTANTS
  Url,          \* the URLs of the site
  Seed,         \* SOURCE_URL
  InScope,      \* URLs of the host under the seed's directory
  Base(_),      \* the path a URL's page is written to before collisions
  Answers,      \* the answers a URL may give
  Robots,       \* the sets of URLs robots.txt may disallow
  Sitemaps,     \* what the sitemaps may list
  Limits,       \* values of CRAWL_MAX_PAGES
  MaxRedirects  \* MAX_REDIRECTS

VARIABLES
  site,         \* URL -> its answer
  denied,       \* URLs robots.txt disallows
  limit,        \* CRAWL_MAX_PAGES
  listed,       \* the URLs in scope that the sitemaps read list
  follow,       \* there was no sitemap: links are followed
  queue, seen,  \* URLs to visit, URLs ever queued
  fetched,      \* the pages kept: final URL -> path
  ended         \* "no", "done" or "late"

crawlVars == <<site, denied, limit, listed, follow, queue, seen, fetched, ended>>

(* The members of keep that s lists, in the order they are first listed. *)
InOrder(s, keep) ==
  LET kept == ToSet(s) \cap keep
  IN {r \in UNION {[1 .. n -> kept] : n \in 0 .. Len(s)} :
        /\ ToSet(r) = kept
        /\ \A i, j \in DOMAIN r : i < j =>
             \E k \in DOMAIN s : s[k] = r[i] /\ \A l \in 1 .. k : s[l] # r[j]}

Cut(s, n) == SubSeq(s, 1, IF Len(s) < n THEN Len(s) ELSE n)

(* The URLs to start from: the sitemap's, cut to the cap before the seed is
   put first and cut again after. *)
Pages(first) ==
  IF first = <<>> THEN <<Seed>>
  ELSE IF Seed \in ToSet(first) THEN first ELSE Cut(<<Seed>> \o first, limit)

Init ==
  /\ site \in [Url -> Answers] /\ denied \in Robots /\ limit \in Limits
  /\ \E locs \in Sitemaps : \E all \in InOrder(locs, InScope) :
       /\ listed = ToSet(all) /\ follow = (Cut(all, limit) = <<>>)
       /\ queue = Pages(Cut(all, limit))
  /\ seen = ToSet(queue) /\ fetched = <<>> /\ ended = "no"

(* The page where a request ends, if it ends at one: redirects are followed
   a few times, each target in scope again.  A target is not checked against
   robots.txt, only the URL that was queued. *)
Fetch(u) ==
  LET hop[n \in 0 .. MaxRedirects] ==
        LET at == IF n = 0 THEN {u}
                  ELSE {site[v].to : v \in {x \in hop[n - 1] : site[x].is = "moved"}}
        IN at \cap InScope
      ends == {v \in InScope : site[v].is = "page" /\ \E n \in 0 .. MaxRedirects : v \in hop[n]}
  IN IF ends = {} THEN {} ELSE {CHOOSE v \in ends : TRUE}

(* mutant: the cap counts the URLs that were queued *)
FullWhenQueued == Cardinality(seen) >= limit

Full == Cardinality(DOMAIN fetched) >= limit

(* Two URLs may collapse onto one path: the later gets a suffix. *)
Rel(u) ==
  IF <<Base(u)>> \in {fetched[v] : v \in DOMAIN fetched} THEN <<Base(u), u>> ELSE <<Base(u)>>

(* Links in scope that were never queued, when there was no sitemap. *)
NewLinks(u) == IF follow THEN InOrder(site[u].links, InScope \ seen) ELSE {<<>>}

(* The next URL: skipped, or its page is kept and its links are queued. *)
Visit ==
  /\ ended = "no" /\ queue # <<>> /\ ~Full
  /\ LET u == Head(queue)
         got == IF u \in denied THEN {} ELSE Fetch(u) \ DOMAIN fetched
     IN \/ got = {} /\ queue' = Tail(queue) /\ UNCHANGED <<seen, fetched>>
        \/ \E page \in got : \E links \in NewLinks(page) :
             /\ fetched' = [v \in DOMAIN fetched \cup {page} |->
                              IF v = page THEN Rel(page) ELSE fetched[v]]
             /\ queue' = Tail(queue) \o links
             /\ seen' = seen \cup ToSet(links)
  /\ UNCHANGED <<site, denied, limit, listed, follow, ended>>

(* The queue is empty, the cap is reached, or the time budget is spent;
   without a page the build fails. *)
Finish ==
  /\ ended = "no"
  /\ ended' = IF fetched = <<>> THEN "failed" ELSE IF queue = <<>> \/ Full THEN "done" ELSE "late"
  /\ UNCHANGED <<site, denied, limit, listed, follow, queue, seen, fetched>>

Next == Visit \/ Finish

Spec == Init /\ [][Next]_crawlVars

-----------------------------------------------------------------------------
(* What a crawl that starts from some URLs should keep: the pages where
   requests for them end and, without a sitemap, those where their links
   lead, and so on: the least set of pages that is closed. *)
Closed(from, S) ==
  /\ \A u \in from \ denied : Fetch(u) \subseteq S
  /\ follow => \A v \in S : \A u \in (ToSet(site[v].links) \cap InScope) \ denied : Fetch(u) \subseteq S

Reached(from) ==
  LET closed == {S \in SUBSET InScope : Closed(from, S)}
  IN {v \in InScope : \A S \in closed : v \in S}

(* What the site offers to start from, whatever the cap. *)
Offered == {Seed} \cup listed

(* A crawl that was not cut short keeps every page it can reach, whatever
   the redirects, dead ends and cycles on the way, from the seed and all the
   sitemap lists or, when that is more than the cap, from the seed and as
   many as the cap: the sitemap is cut before a page of it is requested, so
   with dead ends or duplicates among its first entries a crawl stops below
   the cap with listed pages it never tried.  Any crawl keeps only pages it
   can reach, in scope, each at a path of its own, and no more than the cap:
   what is missing is deleted from the graph, as a crawl replaces the whole
   corpus (docs_crawler.py:243-274, 363-441). *)
CrawlIsComplete ==
  /\ DOMAIN fetched \subseteq Reached(Offered)
  /\ Cardinality(DOMAIN fetched) <= limit
  /\ \A u, v \in DOMAIN fetched : fetched[u] = fetched[v] => u = v
  /\ ended = "done" /\ Cardinality(DOMAIN fetched) < limit =>
       \E tried \in SUBSET Offered :
         /\ Seed \in tried /\ (tried = Offered \/ Cardinality(tried) = limit)
         /\ DOMAIN fetched = Reached(tried)
=============================================================================
