----------------------------- MODULE MCServices -----------------------------
(***************************************************************************)
(* The components of Services on small instances.                          *)
(***************************************************************************)
EXTENDS Services

MCNode == 1 .. 4
MCUrl == 1 .. 3
MCGroups == 1 .. 3
MCPage == 1 .. 3
MCSize(v) == 2

File(p, b, l) == [path |-> p, bytes |-> b, lines |-> l]

MCManifests ==
  {<<File(<<"a", "b">>, b1, l1), File(<<"b", "b", "a">>, b2, l2), File(<<"a">>, b1, l2)>> :
     b1 \in 1 .. 2, b2 \in 0 .. 2,
     l1 \in {<<TRUE>>, <<TRUE, TRUE>>, <<FALSE>>}, l2 \in {<<TRUE, FALSE>>, <<FALSE>>}}

MCGlobs ==
  UNION {[1 .. n -> {"a", "*", "?"}] : n \in 1 .. 2}
    \cup {<<"*", "a", "?">>, <<"?", "*", "a">>, <<"*", "a", "*">>}

(* The fourth pair is too large for one build, the fifth waits behind it. *)
MCBatches(p) == CASE p = 2 -> 2 [] p = 4 -> 4 [] OTHER -> 1

Line(is, of, hosts) == [is |-> is, of |-> of, hosts |-> hosts, source |-> None, from |-> 0, to |-> 0]

(* All of the file p of a source, a line of it, or lines too many to quote. *)
Reference(s, from, to) == [Line("file", "p", {}) EXCEPT !.source = s, !.from = from, !.to = to]

MCLines ==
  {Line("feature", "f", h) : h \in {{}, {"h"}, {"k"}}}
    \cup {Line("symbol", "s", {}), Line("declares", "s", {}), Line("long", "", {})}
    \cup {Reference(s, 0, 0) : s \in {None, 1}} \cup {Reference(1, 2, 2), Reference(1, 1, 2), Reference(None, 2, 2)}

One(name, lines) == [file |-> name, lines |-> lines]

MCTexts ==
  LET first == {One("p", <<a, b>>) : a \in MCLines,
                  b \in {Line("feature", "f", {}), Line("symbol", "s", {})}}
               \cup {One("q", <<a>>) : a \in MCLines}
      other == {One(name, <<a>>) : name \in {"p", "q"}, a \in MCLines}
  IN {<<x, y, z>> : x \in first, y \in other, z \in {One("p", <<a>>) : a \in MCLines}}

MCPagesOf(d) == IF d = 2 THEN {3} ELSE {1, 2}

MCBase(u) == IF u = 3 THEN 2 ELSE u

MCAnswers ==
  [is : {"page"}, links : {<<>>, <<2>>, <<3>>, <<4, 3>>, <<1, 2>>}, to : {0}]
    \cup [is : {"moved"}, links : {<<>>}, to : 1 .. 3]
    \cup [is : {"gone"}, links : {<<>>}, to : {0}]

MCRobots == {{}, {3}}
MCSitemaps == {<<>>, <<4, 3, 2, 3>>, <<3, 2, 1>>}

-----------------------------------------------------------------------------
(* A world bounds what else goes on.  Two runs of sync_src may overlap on a  *)
(* version that does not extract and one that does, or one run at a time     *)
(* replaces a tree by a newer one; the builds of other sources merge the hub *)
(* or not.                                                                   *)
VARIABLE world

NoWorld == [searched |-> FALSE, last |-> 0, others |-> FALSE]
Worlds ==
  CASE part = "service" -> {[NoWorld EXCEPT !.searched = TRUE, !.last = 2],
                            [NoWorld EXCEPT !.last = MaxVersion]}
    [] part = "publication" -> {NoWorld, [NoWorld EXCEPT !.others = TRUE]}
    [] OTHER -> {NoWorld}

(* A component that the behaviour is not about has one initial state.       *)
MCInit ==
  /\ part \in Parts
  /\ IF part = "artifacts"
     THEN \/ listing = A!NoListing /\ faultsLeft = 0
          \/ listing = [A!NoListing EXCEPT !.pc = "absent"] /\ faultsLeft = 1
     ELSE listing = A!NoListing /\ faultsLeft = 0
  /\ world \in Worlds
  /\ published = 0 /\ mishaps = 0
  /\ part # "queries" => phase = "walk" /\ asked = (CHOOSE a \in G!PathCalls : TRUE)
  /\ part # "proxy" => enabled = TRUE
  /\ part # "discovery" => text = (CHOOSE t \in Texts : TRUE)
  /\ scope = "public"
  /\ IF part = "publication"
     THEN IF world.others
          THEN left = [edits |-> 1, faults |-> 0]
          ELSE \/ kind = "url" /\ left = [edits |-> 1, faults |-> MaxBuildFaults]
               \/ kind = "files" /\ left = [edits |-> 2, faults |-> MaxBuildFaults]
     ELSE kind = "url" /\ left = [edits |-> 2, faults |-> MaxBuildFaults]
  /\ part # "crawl" => /\ site = [u \in Url |-> [is |-> "gone", links |-> <<>>, to |-> 0]]
                       /\ denied = {} /\ limit = 2 /\ follow = TRUE
  /\ table = Groups /\ changes = TRUE
  /\ Init

(* The fairness of the components, each in its own behaviours. *)
Fairness ==
  /\ WF_vars(\/ Only("artifacts") /\ A!Sweep
             \/ Only("service") /\ S!Loop
             \/ Only("judgement") /\ J!Next
             \/ Only("publication") /\ P!Step(1)
             \/ Only("scan") /\ R!Tick
             \/ Only("ocr") /\ O!Work)
  /\ WF_vars(\/ Only("artifacts") /\ A!Age
             \/ Only("service") /\ S!OnDemand
             \/ Only("publication") /\ P!Step(2)
             \/ Only("scan") /\ R!Step(1))
  /\ WF_vars(\/ Only("publication") /\ (\E b \in {1, 2} : P!Start(b))
             \/ Only("scan") /\ R!Step(2))

MCNext ==
  /\ Next /\ UNCHANGED world
  /\ part = "service" => /\ published' <= world.last
                         /\ world.searched \/ thread'["demand"] = S!Idle
  /\ part = "publication" => world.others \/ merging' = None

MCSpec == MCInit /\ [][MCNext]_<<vars, world>> /\ Fairness
=============================================================================
