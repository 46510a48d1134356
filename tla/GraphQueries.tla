----------------------------- MODULE GraphQueries -----------------------------
(***************************************************************************)
(* The two searches of a group query that loop under limits                *)
(* (lambdas/shared/python/group_query.py): find_path, a breadth-first      *)
(* search over the links of the graph, and search_code, a scan of the      *)
(* version's files under a glob, a byte budget, a file budget, a result    *)
(* limit and a deadline.  A behaviour is one call on one input.            *)
(*                                                                         *)
(* A character is a member of a small set, a line is whether it contains   *)
(* the searched text, and the deadline may pass whenever the code looks at *)
(* the clock.                                                              *)
(***************************************************************************)
EXTENDS Integers, Sequences, FiniteSets, SequencesExt

CONSTANTS
  Node,          \* nodes of the graph
  MaxHops,
  Manifests,     \* sequences of files [path, bytes, lines]
  Globs,         \* patterns
  MaxResults,
  MaxFiles,      \* SEARCH_MAX_FILES
  MaxBytes,      \* SEARCH_MAX_BYTES
  MaxFileBytes,  \* SOURCE_MAX_BYTES
  None

VARIABLES
  asked,      \* the call and the data it is about
  pending,    \* find_path: the queue of nodes with their depth
  previous,   \* find_path: node reached -> [node, link] it was reached by
  trace,      \* find_path: links from the end of the path on
  scan,       \* search_code: next file, files and bytes read, matches, reasons
  phase

queryVars == <<asked, pending, previous, trace, scan, phase>>

-----------------------------------------------------------------------------
(* The domain of a function to integers, sorted by its values.              *)
Sorted(key) ==
  {s \in [1..Cardinality(DOMAIN key) -> DOMAIN key] :
     /\ ToSet(s) = DOMAIN key
     /\ \A i, j \in DOMAIN s : i < j => key[s[i]] < key[s[j]]}

-----------------------------------------------------------------------------
(* find_path                                                                *)
Edges == {p \in Node \X Node : p[1] < p[2]}

PathCalls ==
  {[links |-> SetToSeq(e), source |-> s, target |-> t, hops |-> h] :
     e \in SUBSET Edges, s \in Node, t \in Node, h \in 1..MaxHops}

Linked(i, m, n) == asked.links[i] \in {<<m, n>>, <<n, m>>}

(* The neighbours of a node that were not reached, each with the first of *)
(* the links, followed either way, that leads there.                      *)
New(m) ==
  [n \in {x \in Node \ DOMAIN previous : \E i \in DOMAIN asked.links : Linked(i, m, x)} |->
     CHOOSE i \in DOMAIN asked.links :
       Linked(i, m, n) /\ \A j \in DOMAIN asked.links : Linked(j, m, n) => i <= j]

DeepOnce(depth) == depth > asked.hops     \* mutant: off by one
Deep(depth) == depth >= asked.hops

Visit ==
  /\ phase = "walk" /\ pending # <<>>
  /\ LET at == Head(pending)
         rest == Tail(pending)
         new == New(at.node) IN
     \/ /\ at.node = asked.target
        /\ phase' = "back" /\ UNCHANGED <<pending, previous>>
     \/ /\ at.node # asked.target /\ Deep(at.depth)
        /\ pending' = rest /\ UNCHANGED <<previous, phase>>
     \/ /\ at.node # asked.target /\ ~Deep(at.depth)
        /\ \E order \in Sorted(new) :
             pending' = rest \o [i \in DOMAIN order |-> [node |-> order[i], depth |-> at.depth + 1]]
        /\ previous' = [n \in DOMAIN previous \cup DOMAIN new |->
              IF n \in DOMAIN new THEN [node |-> at.node, link |-> new[n]] ELSE previous[n]]
        /\ UNCHANGED phase
  /\ UNCHANGED <<asked, trace, scan>>

Exhausted ==
  /\ phase = "walk" /\ pending = <<>>
  /\ phase' = IF asked.target \in DOMAIN previous THEN "back" ELSE "none"
  /\ UNCHANGED <<asked, pending, previous, trace, scan>>

Reached == IF trace = <<>> THEN asked.target ELSE previous[Last(trace).to].node

(* The path is followed back from the target.                               *)
Back ==
  /\ phase = "back"
  /\ IF Reached = asked.source
     THEN phase' = "path" /\ UNCHANGED trace
     ELSE /\ trace' = Append(trace, [to |-> Reached, link |-> previous[Reached].link])
          /\ UNCHANGED phase
  /\ UNCHANGED <<asked, pending, previous, scan>>

-----------------------------------------------------------------------------
(* search_code                                                              *)

(* _glob_match: the table of which beginnings of the path the beginnings of *)
(* the pattern match, row by row.                                           *)
GlobRow(row, token, path) ==
  LET cell[i \in 0..Len(path)] ==
        IF token = "*" THEN row[i] \/ (i > 0 /\ cell[i - 1])
        ELSE i > 0 /\ row[i - 1] /\ token \in {"?", path[i]}
  IN cell

GlobMatch(path, pattern) ==
  LET row[t \in 0..Len(pattern)] ==
        IF t = 0 THEN [i \in 0..Len(path) |-> i = 0]
        ELSE GlobRow(row[t - 1], pattern[t], path)
  IN row[Len(pattern)][Len(path)]

SearchCalls ==
  {[files |-> m, glob |-> g, limit |-> n] : m \in Manifests, g \in Globs, n \in 1..MaxResults}

NoScan == [next |-> 1, files |-> 0, bytes |-> 0, matches |-> <<>>, reasons |-> {}]

Stop(reason) == scan' = [scan EXCEPT !.reasons = {reason}] /\ phase' = "found"

(* mutant: the file is read before the budget is looked at.                 *)
ExhaustedAfter(files, bytes) == files >= MaxFiles \/ bytes >= MaxBytes
BudgetSpent(files, bytes) == files >= MaxFiles \/ bytes + MaxFileBytes > MaxBytes

Hits(f) == {l \in 1..Len(asked.files[f].lines) : asked.files[f].lines[l]}

(* The matches of file f, as far as the limit and the deadline let them be. *)
Collect(f) ==
  LET room == asked.limit - Len(scan.matches)
      count == Cardinality(Hits(f))
      read(n, reasons) ==
        \E lines \in Sorted([l \in Hits(f) |-> l]) :
          scan' = [next |-> f + 1, files |-> scan.files + 1,
                   bytes |-> scan.bytes + asked.files[f].bytes,
                   matches |-> scan.matches \o [i \in 1..n |-> <<f, lines[i]>>],
                   reasons |-> reasons] IN
  \/ count >= room /\ read(room, {"result_limit"}) /\ phase' = "found"
  \/ count < room /\ read(count, {}) /\ UNCHANGED phase
  \/ \E n \in 0..count :
       /\ n < room /\ n < Len(asked.files[f].lines)
       /\ read(n, {"time_limit"}) /\ phase' = "found"

ScanFile ==
  /\ phase = "scan" /\ scan.next <= Len(asked.files)
  /\ LET f == scan.next IN
     \/ Stop("time_limit")
     \/ /\ ~GlobMatch(asked.files[f].path, asked.glob)
        /\ scan' = [scan EXCEPT !.next = f + 1] /\ UNCHANGED phase
     \/ /\ GlobMatch(asked.files[f].path, asked.glob)
        /\ IF BudgetSpent(scan.files, scan.bytes) THEN Stop("scan_limit") ELSE Collect(f)
  /\ UNCHANGED <<asked, pending, previous, trace>>

ScanEnds ==
  /\ phase = "scan" /\ scan.next > Len(asked.files)
  /\ phase' = "found"
  /\ UNCHANGED <<asked, pending, previous, trace, scan>>

-----------------------------------------------------------------------------
Init ==
  /\ \/ /\ phase = "walk" /\ asked \in PathCalls
        /\ pending = <<[node |-> asked.source, depth |-> 0]>>
        /\ previous = [n \in {asked.source} |-> None]
     \/ /\ phase = "scan" /\ asked \in SearchCalls
        /\ pending = <<>> /\ previous = <<>>
  /\ trace = <<>> /\ scan = NoScan

Next == Visit \/ Exhausted \/ Back \/ ScanFile \/ ScanEnds

Spec == Init /\ [][Next]_queryVars

-----------------------------------------------------------------------------
(* The nodes within k links of the source: at the end of a walk that at  *)
(* each of its k steps follows a link or stays.                          *)
Within(k) ==
  {n \in Node : \E walk \in [0..k -> Node] :
     /\ walk[0] = asked.source /\ walk[k] = n
     /\ \A i \in 1..k :
          \/ walk[i] = walk[i - 1]
          \/ \E l \in DOMAIN asked.links : Linked(l, walk[i - 1], walk[i])}

(* "Find a shortest undirected trace through actual graph edges, at most    *)
(* eight hops": the links of the answer lead from the source to the target, *)
(* no fewer would, and no answer means that max_hops links do not lead      *)
(* there (_find_path).                                                      *)
PathIsShortest ==
  /\ phase = "path" =>
       LET path == Reverse(trace)
           at(i) == IF i = 0 THEN asked.source ELSE path[i].to IN
       /\ \A i \in 1..Len(path) :
            path[i].link \in DOMAIN asked.links /\ Linked(path[i].link, at(i - 1), at(i))
       /\ at(Len(path)) = asked.target
       /\ Len(path) <= asked.hops
       /\ Len(path) > 0 => asked.target \notin Within(Len(path) - 1)
  /\ phase = "none" => asked.target \notin Within(asked.hops)

(* What the wildcards mean: the path can be cut into a part for each token. *)
GlobMeans(path, pattern) ==
  \E cut \in [0..Len(pattern) -> 0..Len(path)] :
    /\ cut[0] = 0 /\ cut[Len(pattern)] = Len(path)
    /\ \A i \in 1..Len(pattern) :
         IF pattern[i] = "*" THEN cut[i] >= cut[i - 1]
         ELSE cut[i] = cut[i - 1] + 1 /\ pattern[i] \in {"?", path[cut[i]]}

(* "bounded scans report partial results": an answer that does not say it   *)
(* is partial has every matching line of every file the glob names, and the *)
(* scan never reads more than its budgets (_search_code, _glob_match).      *)
SearchIsHonest ==
  /\ scan.bytes <= MaxBytes /\ scan.files <= MaxFiles
  /\ phase = "found" =>
       LET all == {m \in UNION {{f} \X Hits(f) : f \in 1..Len(asked.files)} :
                     GlobMeans(asked.files[m[1]].path, asked.glob)} IN
       /\ ToSet(scan.matches) \subseteq all /\ Len(scan.matches) <= asked.limit
       /\ scan.reasons = {} => ToSet(scan.matches) = all

=============================================================================
