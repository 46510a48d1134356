--------------------------- MODULE GroupDiscovery ---------------------------
(***************************************************************************)
(* How the group engine finds pairs of places worth relating               *)
(* (lambdas/group_worker/engine.py, discover): it indexes the lines of all *)
(* sources, then pairs equal features of different sources, references to  *)
(* files and references to symbols, each up to a limit.  Whatever is cut   *)
(* short is reported as a reason why the result is partial.                *)
(*                                                                         *)
(* A source has one file, a sequence of lines.  A line mentions one thing: *)
(* a feature (a requirement, a test case or an HTTP route, this one with   *)
(* the hosts it names), a file, with or without a source and a range of    *)
(* its lines, a symbol, the declaration of a symbol, or it is too long to  *)
(* be quoted.                                                              *)
(***************************************************************************)
EXTENDS Integers, Sequences, FiniteSets

CONSTANTS
  Texts,          \* what the three sources may hold: a file name and lines each
  MaxCandidates,  \* MAX_CANDIDATES
  MaxOccurrences, \* max_occurrences
  MaxComparisons, \* MAX_CANDIDATES * 16
  MaxQuote,       \* lines that MAX_QUOTE_BYTES have room for
  None            \* no source named

VARIABLES
  text,           \* source -> its file and lines
  indexed,        \* sources indexed so far
  candidates,     \* the pairs found
  why,            \* reasons why the result is partial
  doing           \* the phase of discover

discoverVars == <<text, indexed, candidates, why, doing>>

Source == 1 .. 3

Place(s, n) == [source |-> s, line |-> n]

(* A line that is too long is no evidence. *)
Lines(s) == {n \in DOMAIN text[s].lines : text[s].lines[n].is # "long"}

(* The places in the sources S that mention a thing of a kind. *)
Places(S, is) ==
  {p \in UNION {{Place(s, n) : n \in Lines(s)} : s \in S} : text[p.source].lines[p.line].is = is}

Said(p) == text[p.source].lines[p.line]

(* A file is stood for by its first line, lines of it by the first of them. *)
FileTargets(S, name) ==
  {Place(s, 1) : s \in {x \in S : text[x].file = name /\ 1 \in Lines(x)}}

Init ==
  /\ text \in Texts
  /\ indexed = {} /\ candidates = {} /\ why = {} /\ doing = "index"

Occurrences(S) == Cardinality(UNION {Places(S, is) : is \in {"feature", "file", "symbol", "declares"}})

(* The next source is indexed, unless the index is full.  The source in
   which it fills up is indexed to its end here, which only a result that
   is partial anyway can tell. *)
Index ==
  /\ doing = "index"
  /\ \E s \in Source \ indexed :
       /\ \A r \in Source \ indexed : s <= r
       /\ indexed' = indexed \cup {s}
       /\ LET full == Occurrences(indexed \cup {s}) >= MaxOccurrences
          IN /\ why' = why \cup (IF full THEN {"EVIDENCE_INDEX_LIMIT"} ELSE {})
                           \cup (IF Lines(s) = DOMAIN text[s].lines THEN {} ELSE {"EVIDENCE_LINE_LIMIT"})
             /\ doing' = IF full \/ s = 3 THEN "features" ELSE "index"
  /\ UNCHANGED <<text, candidates>>

(* Two features of different sources, unless both name hosts and none is
   common. *)
Comparable(S) ==
  {q \in Places(S, "feature") \X Places(S, "feature") :
     q[1].source < q[2].source /\ Said(q[1]).of = Said(q[2]).of}

(* mutant: hosts must be common, also where one side names none *)
AgreeOnHosts(p, q) == Said(p).hosts \cap Said(q).hosts # {}

Agree(p, q) ==
  Said(p).hosts = {} \/ Said(q).hosts = {} \/ Said(p).hosts \cap Said(q).hosts # {}

FeaturePairs(S) == {q \in Comparable(S) : Agree(q[1], q[2])}

(* The lines a reference asks for are in the file and fit into a quote. *)
Quotable(p, s) ==
  /\ Said(p).from <= Said(p).to /\ Said(p).from .. Said(p).to \subseteq Lines(s)
  /\ Said(p).to - Said(p).from < MaxQuote

(* What is quoted of the file at t: without a word when it cannot be, nothing. *)
Quotes(p, t) ==
  IF Said(p).from = 0 THEN {t}
  ELSE IF Quotable(p, t.source) THEN {Place(t.source, Said(p).from)} ELSE {}

(* A named file belongs to the source named or, when the reference's own
   source has no such file, to the only other source that does. *)
FilePairs(S) ==
  UNION {LET to == {t \in FileTargets(S, Said(p).of) :
                      t.source # p.source /\ Said(p).source \in {None, t.source}}
             own == Said(p).source = None /\ text[p.source].file = Said(p).of
         IN IF own \/ Cardinality(to) # 1 THEN {} ELSE {p} \X UNION {Quotes(p, t) : t \in to}
         : p \in Places(S, "file")}

SymbolPairs(S) ==
  UNION {LET declared == {t \in Places(S, "declares") : Said(t).of = Said(p).of}
             other == {t \in declared : t.source # p.source}
         IN IF other # declared \/ Cardinality(other) # 1 THEN {} ELSE {p} \X other
         : p \in Places(S, "symbol")}

(* Pairs are added until there are MaxCandidates; one more ends it all. *)
Add(pairs, next) ==
  IF Cardinality(candidates \cup pairs) <= MaxCandidates
  THEN /\ candidates' = candidates \cup pairs /\ doing' = next
       /\ UNCHANGED why
  ELSE /\ \E kept \in SUBSET pairs :
            /\ Cardinality(candidates \cup kept) = MaxCandidates
            /\ candidates' = candidates \cup kept
       /\ why' = why \cup {"CANDIDATE_LIMIT"} /\ doing' = "done"

Features ==
  /\ doing = "features"
  /\ IF Cardinality(Comparable(indexed)) > MaxComparisons
     THEN /\ why' = why \cup {"COMPARISON_LIMIT"} /\ doing' = "done"
          /\ \E kept \in SUBSET FeaturePairs(indexed) :
               /\ Cardinality(kept) <= MaxComparisons /\ Cardinality(kept) <= MaxCandidates
               /\ candidates' = kept
     ELSE Add(FeaturePairs(indexed), "files")
  /\ UNCHANGED <<text, indexed>>

Files ==
  /\ doing = "files" /\ Add(FilePairs(indexed), "symbols")
  /\ UNCHANGED <<text, indexed>>

Symbols ==
  /\ doing = "symbols" /\ Add(SymbolPairs(indexed), "done")
  /\ UNCHANGED <<text, indexed>>

(* The Lambda's time is up, which only indexing and pairing look at. *)
Late ==
  /\ doing \in {"index", "features"}
  /\ why' = why \cup {"DEADLINE_EXCEEDED"} /\ doing' = "done"
  /\ UNCHANGED <<text, indexed, candidates>>

Next == Index \/ Features \/ Files \/ Symbols \/ Late

Spec == Init /\ [][Next]_discoverVars

-----------------------------------------------------------------------------
(* Said from the texts alone: two places of different sources belong
   together when they mention the same feature with no contrary host, or
   when one mentions the only thing in the other sources that bears the
   name, and nothing of the name is in its own source: the whole of it, or
   the lines of it that are asked for and can be quoted. *)
Related(p, q) ==
  \/ /\ p.source < q.source /\ Said(p).is = "feature" /\ Said(q).is = "feature"
     /\ Said(p).of = Said(q).of
     /\ ~(Said(p).hosts # {} /\ Said(q).hosts # {} /\ \A h \in Said(p).hosts : h \notin Said(q).hosts)
  \/ /\ Said(p).is = "symbol" /\ Said(q).is = "declares" /\ p.source # q.source
     /\ \A r \in Places(Source, "declares") : Said(r).of = Said(p).of => r = q
     /\ Said(q).of = Said(p).of
  \/ /\ Said(p).is = "file" /\ p.source # q.source
     /\ IF Said(p).from = 0 THEN q.line = 1 ELSE q.line = Said(p).from /\ Quotable(p, q.source)
     /\ text[q.source].file = Said(p).of
     /\ \/ Said(p).source = q.source
        \/ /\ Said(p).source = None
           /\ \A s \in Source : text[s].file = Said(p).of /\ 1 \in DOMAIN text[s].lines => s = q.source

AllPlaces == UNION {{Place(s, n) : n \in Lines(s)} : s \in Source}

(* A result that names no reason for being partial misses nothing and
   invents nothing: every limit that cuts the search short says so, also
   one that is reached at its very last item, but for a reference to lines
   that the file has not or that are too long to quote, which is dropped
   with no reason; and the limit holds (engine.py:375-386 and 411-507). *)
DiscoveryIsComplete ==
  /\ Cardinality(candidates) <= MaxCandidates
  /\ doing = "done" /\ why = {} =>
       candidates = {q \in AllPlaces \X AllPlaces : Related(q[1], q[2])}
=============================================================================
