------------------------- MODULE GraphQueriesProofs -------------------------
(*************************************************************************)
(* find_path answers a shortest path and search_code misses nothing      *)
(* without a reason, proved for any graph, files, patterns and limits.   *)
(*************************************************************************)
EXTENDS GraphQueries, FiniteSetTheorems, WellFoundedInduction, TLAPS

(* Induction, for sets instead of predicates.                               *)
LEMMA Least ==
  ASSUME NEW T \in SUBSET Nat, T # {}
  PROVE  \E x \in T : \A y \in T : x <= y
<1> DEFINE Less == {p \in Nat \X Nat : p[1] < p[2]}
<1>1. IsWellFoundedOn(Less, Nat)
  BY NatLessThanWellFounded DEF OpToRel
<1>2. PICK x \in T : \A y \in T : ~ (<<y, x>> \in Less)
  <2> HIDE DEF Less
  <2> QED
    BY <1>1, WFMin
<1>3. ASSUME NEW y \in T
      PROVE  x <= y
  <2>1. ~ (y < x)
    BY <1>2, <1>3
  <2> QED
    BY <2>1, <1>3
<1> QED
  BY <1>3

LEMMA Induction ==
  ASSUME NEW n \in Nat, NEW S, 0 \in S, \A k \in 0 .. n - 1 : k \in S => k + 1 \in S
  PROVE  0 .. n \subseteq S
<1> SUFFICES ASSUME (0 .. n) \ S # {}
             PROVE  FALSE
  OBVIOUS
<1>1. PICK k \in (0 .. n) \ S : \A j \in (0 .. n) \ S : k <= j
  <2>1. (0 .. n) \ S \in SUBSET Nat
    OBVIOUS
  <2> QED
    BY <2>1, Least
<1> QED
  BY <1>1

-----------------------------------------------------------------------------
(* Walks.                                                                   *)
Joined(m, n) == \E l \in DOMAIN asked.links : Linked(l, m, n)

LEMMA WithinStart ==
  ASSUME asked.source \in Node
  PROVE  Within(0) = {asked.source}
<1> DEFINE stay == [i \in 0 .. 0 |-> asked.source]
<1>1. stay \in [0 .. 0 -> Node] /\ stay[0] = asked.source
  OBVIOUS
<1> HIDE DEF stay
<1>2. asked.source \in Within(0)
  BY <1>1 DEF Within
<1>3. \A n \in Within(0) : n = asked.source
  BY DEF Within
<1> QED
  BY <1>2, <1>3

LEMMA WithinGrows ==
  ASSUME NEW j \in Nat, NEW k \in Nat, j <= k
  PROVE  Within(j) \subseteq Within(k)
<1> SUFFICES ASSUME NEW n \in Within(j)
             PROVE  n \in Within(k)
  OBVIOUS
<1>1. PICK walk \in [0 .. j -> Node] :
        /\ walk[0] = asked.source /\ walk[j] = n
        /\ \A i \in 1 .. j : walk[i] = walk[i - 1] \/ Joined(walk[i - 1], walk[i])
  BY DEF Within, Joined
<1> DEFINE longer == [i \in 0 .. k |-> IF i <= j THEN walk[i] ELSE n]
<1>2. n \in Node /\ longer \in [0 .. k -> Node] /\ longer[0] = asked.source /\ longer[k] = n
  BY <1>1 DEF Within
<1>3. ASSUME NEW i \in 1 .. k
      PROVE  longer[i] = longer[i - 1] \/ Joined(longer[i - 1], longer[i])
  <2>1. CASE i <= j
    BY <1>1, <2>1
  <2>2. CASE i > j
    BY <1>1, <2>2
  <2> QED
    BY <2>1, <2>2
<1> QED
  BY <1>2, <1>3 DEF Within, Joined

LEMMA WithinStep ==
  ASSUME NEW k \in Nat, NEW m \in Within(k), NEW n \in Node, Joined(m, n)
  PROVE  n \in Within(k + 1)
<1>1. PICK walk \in [0 .. k -> Node] :
        /\ walk[0] = asked.source /\ walk[k] = m
        /\ \A i \in 1 .. k : walk[i] = walk[i - 1] \/ Joined(walk[i - 1], walk[i])
  BY DEF Within, Joined
<1> DEFINE longer == [i \in 0 .. k + 1 |-> IF i <= k THEN walk[i] ELSE n]
<1>2. longer \in [0 .. k + 1 -> Node] /\ longer[0] = asked.source /\ longer[k + 1] = n
  BY <1>1
<1>3. ASSUME NEW i \in 1 .. k + 1
      PROVE  longer[i] = longer[i - 1] \/ Joined(longer[i - 1], longer[i])
  <2>1. CASE i <= k
    BY <1>1, <2>1
  <2>2. CASE i = k + 1
    BY <1>1, <2>2
  <2> QED
    BY <2>1, <2>2
<1> HIDE DEF longer
<1> QED
  BY <1>2, <1>3 DEF Within, Joined

LEMMA WithinBack ==
  ASSUME NEW k \in Nat, NEW n \in Within(k + 1)
  PROVE  n \in Within(k) \/ \E m \in Within(k) : Joined(m, n)
<1>1. PICK walk \in [0 .. k + 1 -> Node] :
        /\ walk[0] = asked.source /\ walk[k + 1] = n
        /\ \A i \in 1 .. k + 1 : walk[i] = walk[i - 1] \/ Joined(walk[i - 1], walk[i])
  BY DEF Within, Joined
<1> DEFINE shorter == [i \in 0 .. k |-> walk[i]]
<1>2. shorter \in [0 .. k -> Node] /\ shorter[0] = asked.source /\ shorter[k] = walk[k]
  BY <1>1
<1>3. \A i \in 1 .. k : shorter[i] = shorter[i - 1] \/ Joined(shorter[i - 1], shorter[i])
  BY <1>1
<1>4. walk[k] \in Within(k)
  <2>1. walk[k] \in Node
    BY <1>1
  <2> HIDE DEF shorter
  <2> QED
    BY <1>2, <1>3, <2>1 DEF Within, Joined
<1> QED
  BY <1>1, <1>4

-----------------------------------------------------------------------------
(* A node that k links lead to and no fewer.                                *)
At(n, k) == k \in Nat /\ n \in Within(k) /\ \A j \in 0 .. k - 1 : n \notin Within(j)

LEMMA AtOnce ==
  ASSUME NEW n, NEW j, NEW k, At(n, j), At(n, k)
  PROVE  j = k
<1>1. j < k => n \notin Within(j)
  BY DEF At
<1>2. k < j => n \notin Within(k)
  BY DEF At
<1> QED
  BY <1>1, <1>2 DEF At

LEMMA Steady ==
  ASSUME asked' = asked
  PROVE  /\ \A i, m, n : Linked(i, m, n)' <=> Linked(i, m, n)
         /\ \A m, n : Joined(m, n)' <=> Joined(m, n)
         /\ \A k : Within(k)' = Within(k)
         /\ \A n, k : At(n, k)' <=> At(n, k)
<1>1. \A i, m, n : Linked(i, m, n)' <=> Linked(i, m, n)
  BY DEF Linked
<1>2. \A m, n : Joined(m, n)' <=> Joined(m, n)
  BY DEF Joined, Linked
<1>3. \A k : Within(k)' = Within(k)
  BY DEF Within, Linked
<1>4. \A n, k : At(n, k)' <=> At(n, k)
  BY <1>3 DEF At
<1> QED
  BY <1>1, <1>2, <1>3, <1>4

(* A node was reached over one link from a node that is one link nearer.    *)
Came(n) ==
  \E m \in DOMAIN previous, l \in DOMAIN asked.links, k \in 0 .. asked.hops - 1 :
    previous[n] = [node |-> m, link |-> l] /\ Linked(l, m, n) /\ At(m, k) /\ At(n, k + 1)

(* The queue is sorted by depth and spans two of them, the depths are    *)
(* right, and a node that left the queue before the last depth has no    *)
(* neighbour that was not reached.  (The quantified h is asked.hops, as  *)
(* an argument whose value does not change with a step.)                 *)
Waits(n) == \E i \in DOMAIN pending : pending[i].node = n

Queue ==
  /\ pending \in Seq([node : Node, depth : Nat])
  /\ \A i \in DOMAIN pending : \E n \in DOMAIN previous, k \in 0 .. asked.hops :
       pending[i] = [node |-> n, depth |-> k] /\ At(n, k)
  /\ \A i, j \in DOMAIN pending : i <= j => pending[i].depth <= pending[j].depth
  /\ \A i \in DOMAIN pending : pending[i].depth <= pending[1].depth + 1
  /\ \A n \in DOMAIN previous :
       \/ Waits(n)
       \/ \E h \in {asked.hops} : At(n, h)
       \/ \A m \in Node : Joined(n, m) => m \in DOMAIN previous

(* The links from the end of the trace to the target.                       *)
From(i) == IF i = Len(trace) THEN Reached ELSE trace[i + 1].to

Chain ==
  /\ trace \in Seq([to : Node, link : DOMAIN asked.links])
  /\ trace # <<>> => trace[1].to = asked.target
  /\ \A i \in DOMAIN trace : Linked(trace[i].link, From(i), trace[i].to)
  /\ \E r \in DOMAIN previous, t \in DOMAIN previous, k, d \in 0 .. asked.hops :
       r = Reached /\ t = asked.target /\ k + Len(trace) = d /\ At(r, k) /\ At(t, d)

PathType ==
  /\ IsFiniteSet(Node)
  /\ asked.hops \in Nat \ {0} /\ asked.source \in Node /\ asked.target \in Node
  /\ asked.links \in Seq(Node \X Node)
  /\ asked.source \in DOMAIN previous /\ DOMAIN previous \subseteq Node

PathInv ==
  phase \in {"walk", "back", "path", "none"} =>
    /\ PathType
    /\ \A n \in DOMAIN previous \ {asked.source} : Came(n)
    /\ phase = "walk" => trace = <<>> /\ Queue
    /\ phase \in {"back", "path"} => Chain
    /\ phase = "path" => Reached = asked.source
    /\ phase = "none" => \A h \in {asked.hops} : asked.target \notin Within(h)

(* All nodes nearer than what is in the queue were reached.                 *)
LEMMA Complete ==
  ASSUME PathType, Queue, NEW d \in 0 .. asked.hops,
         \A i \in DOMAIN pending : d <= pending[i].depth
  PROVE  Within(d) \subseteq DOMAIN previous
<1> DEFINE S == {k \in 0 .. d : Within(k) \subseteq DOMAIN previous}
<1>0. d \in Nat /\ asked.hops \in Nat /\ d <= asked.hops
  BY DEF PathType
<1>1. 0 \in S
  BY <1>0, WithinStart DEF PathType
<1>2. ASSUME NEW k \in 0 .. d - 1, k \in S
      PROVE  k + 1 \in S
  <2>0. k \in Nat /\ k < d /\ k + 1 \in 0 .. d
    BY <1>0
  <2>1. ASSUME NEW n \in Within(k), NEW m \in Node, Joined(n, m)
        PROVE  m \in DOMAIN previous
    <3>1. n \in DOMAIN previous
      BY <1>2
    <3>2. ~Waits(n)
      <4>1. SUFFICES ASSUME NEW i \in DOMAIN pending, pending[i].node = n
                     PROVE  FALSE
        BY DEF Waits
      <4>2. At(n, pending[i].depth) /\ d <= pending[i].depth
        BY <4>1 DEF Queue
      <4> QED
        BY <4>2, <2>0, <1>0 DEF At
    <3>3. ~At(n, asked.hops)
      BY <1>0, <2>0 DEF At
    <3> QED
      BY <2>1, <3>1, <3>2, <3>3 DEF Queue
  <2>2. Within(k + 1) \subseteq DOMAIN previous
    <3>1. SUFFICES ASSUME NEW m \in Within(k + 1)
                   PROVE  m \in DOMAIN previous
      OBVIOUS
    <3>2. m \in Within(k) \/ \E n \in Within(k) : Joined(n, m)
      BY <2>0, WithinBack
    <3>3. m \in Node
      BY DEF Within
    <3> QED
      BY <1>2, <2>1, <3>2, <3>3
  <2> QED
    BY <2>0, <2>2
<1> HIDE DEF S
<1>3. 0 .. d \subseteq S
  BY <1>0, <1>1, <1>2, Induction
<1> QED
  BY <1>0, <1>3 DEF S

LEMMA SourceAt ==
  ASSUME PathType
  PROVE  At(asked.source, 0)
BY WithinStart DEF At, PathType

LEMMA NewNodes ==
  ASSUME PathType, NEW m
  PROVE  /\ DOMAIN New(m) = {n \in Node \ DOMAIN previous : Joined(m, n)}
         /\ \A n \in DOMAIN New(m) : New(m)[n] \in DOMAIN asked.links /\ Linked(New(m)[n], m, n)
<1>1. DOMAIN New(m) = {n \in Node \ DOMAIN previous : Joined(m, n)}
  BY DEF New, Joined
<1>2. ASSUME NEW n \in DOMAIN New(m)
      PROVE  New(m)[n] \in DOMAIN asked.links /\ Linked(New(m)[n], m, n)
  <2> DEFINE T == {i \in DOMAIN asked.links : Linked(i, m, n)}
             Is(i) == Linked(i, m, n) /\ \A j \in DOMAIN asked.links : Linked(j, m, n) => i <= j
  <2>1. T \in SUBSET Nat /\ T # {}
    BY <1>1, <1>2 DEF PathType, Joined
  <2>2. PICK i \in T : \A j \in T : i <= j
    <3> HIDE DEF T
    <3> QED
      BY <2>1, Least
  <2>3. i \in DOMAIN asked.links /\ Is(i)
    BY <2>2
  <2>4. New(m)[n] = CHOOSE k \in DOMAIN asked.links : Is(k)
    BY <1>2 DEF New
  <2>5. \A k : Is(k) => Linked(k, m, n)
    OBVIOUS
  <2> HIDE DEF Is
  <2> QED
    BY <2>3, <2>4, <2>5
<1> QED
  BY <1>1, <1>2

LEMMA QueueEntry ==
  ASSUME PathType, Queue, NEW i \in DOMAIN pending
  PROVE  /\ pending[i].node \in DOMAIN previous /\ pending[i].node \in Node
         /\ pending[i].depth \in 0 .. asked.hops /\ pending[i].depth \in Nat
         /\ At(pending[i].node, pending[i].depth)
<1>1. PICK n \in DOMAIN previous, k \in 0 .. asked.hops : pending[i] = [node |-> n, depth |-> k] /\ At(n, k)
  BY DEF Queue
<1>2. pending[i].node = n /\ pending[i].depth = k
  BY <1>1
<1> QED
  BY <1>1, <1>2 DEF PathType, At

LEMMA HeadNearest ==
  ASSUME PathType, Queue, pending # <<>>
  PROVE  /\ pending[1] = Head(pending) /\ 1 \in DOMAIN pending
         /\ Head(pending).node \in DOMAIN previous /\ Head(pending).node \in Node
         /\ Head(pending).depth \in 0 .. asked.hops
         /\ At(Head(pending).node, Head(pending).depth)
         /\ Within(Head(pending).depth) \subseteq DOMAIN previous
<1>1. pending[1] = Head(pending) /\ 1 \in DOMAIN pending
  BY DEF Queue
<1>2. \A i \in DOMAIN pending : Head(pending).depth <= pending[i].depth
  BY <1>1 DEF Queue
<1> QED
  BY <1>1, <1>2, QueueEntry, Complete

(* What leaving the queue keeps.                                            *)
LEMMA Leaving ==
  ASSUME PathType, Queue, pending # <<>>
  PROVE  LET rest == Tail(pending)
         IN /\ rest \in Seq([node : Node, depth : Nat]) /\ Len(rest) \in Nat
            /\ DOMAIN rest = 1 .. Len(rest)
            /\ \A i \in DOMAIN rest :
                 /\ \E n \in DOMAIN previous, k \in 0 .. asked.hops :
                      rest[i] = [node |-> n, depth |-> k] /\ At(n, k)
                 /\ rest[i].depth \in Nat
                 /\ Head(pending).depth <= rest[i].depth /\ rest[i].depth <= Head(pending).depth + 1
            /\ \A i, j \in DOMAIN rest : i <= j => rest[i].depth <= rest[j].depth
            /\ \A n : Waits(n) => n = Head(pending).node \/ \E i \in DOMAIN rest : rest[i].node = n
<1> DEFINE rest == Tail(pending)
           E == [node : Node, depth : Nat]
<1>1. pending \in Seq(E) /\ pending[1] = Head(pending) /\ 1 \in DOMAIN pending
  BY DEF Queue
<1> HIDE DEF E
<1>2. /\ rest \in Seq(E) /\ Len(rest) = Len(pending) - 1 /\ Len(pending) \in Nat
      /\ DOMAIN pending = 1 .. Len(pending) /\ DOMAIN rest = 1 .. Len(rest)
      /\ \A i \in 1 .. Len(pending) - 1 : rest[i] = pending[i + 1]
  BY <1>1
<1> HIDE DEF rest
<1>3. \A i \in DOMAIN rest : i \in Nat \ {0} /\ i + 1 \in DOMAIN pending /\ rest[i] = pending[i + 1]
  BY <1>2
<1>4. ASSUME NEW n, Waits(n), n # Head(pending).node
      PROVE  \E i \in DOMAIN rest : rest[i].node = n
  <2>1. PICK i \in DOMAIN pending : pending[i].node = n
    BY <1>4 DEF Waits
  <2>2. i # 1
    BY <1>1, <1>4, <2>1
  <2>3. i - 1 \in 1 .. Len(pending) - 1 /\ (i - 1) + 1 = i
    BY <1>2, <2>2
  <2> QED
    BY <1>2, <2>1, <2>3
<1>5. ASSUME NEW i \in DOMAIN rest
      PROVE  /\ \E n \in DOMAIN previous, k \in 0 .. asked.hops :
                  rest[i] = [node |-> n, depth |-> k] /\ At(n, k)
             /\ rest[i].depth \in Nat
             /\ Head(pending).depth <= rest[i].depth /\ rest[i].depth <= Head(pending).depth + 1
  BY <1>1, <1>3, <1>5, QueueEntry DEF Queue
<1>6. ASSUME NEW i \in DOMAIN rest, NEW j \in DOMAIN rest, i <= j
      PROVE  rest[i].depth <= rest[j].depth
  BY <1>3, <1>6 DEF Queue
<1>7. rest \in Seq([node : Node, depth : Nat]) /\ Len(rest) \in Nat
  BY <1>2 DEF E
<1> QED
  BY <1>2, <1>4, <1>5, <1>6, <1>7 DEF rest

LEMMA NoFarther ==
  ASSUME NEW a \in Nat, NEW b \in Nat, NEW c \in Nat, a <= b + 1, b <= c
  PROVE  a <= c + 1
OBVIOUS

(* The visit of a node that is deep enough.                                 *)
LEMMA VisitDeep ==
  ASSUME PathType, Queue, pending # <<>>, Deep(Head(pending).depth),
         pending' = Tail(pending), asked' = asked, previous' = previous
  PROVE  Queue'
<1> DEFINE at == Head(pending)
           rest == Tail(pending)
<1>1. at.node \in DOMAIN previous /\ at.depth \in Nat /\ At(at.node, at.depth) /\ at.depth = asked.hops
  BY HeadNearest DEF Deep, PathType
<1>2. /\ rest \in Seq([node : Node, depth : Nat]) /\ Len(rest) \in Nat
      /\ DOMAIN rest = 1 .. Len(rest)
      /\ \A i \in DOMAIN rest :
           /\ \E n \in DOMAIN previous, k \in 0 .. asked.hops :
                rest[i] = [node |-> n, depth |-> k] /\ At(n, k)
           /\ rest[i].depth \in Nat
           /\ at.depth <= rest[i].depth /\ rest[i].depth <= at.depth + 1
      /\ \A i, j \in DOMAIN rest : i <= j => rest[i].depth <= rest[j].depth
      /\ \A n : Waits(n) => n = at.node \/ \E i \in DOMAIN rest : rest[i].node = n
  BY Leaving
<1>3. pending' = rest
  OBVIOUS
<1> HIDE DEF rest, at
<1>4. \A i \in DOMAIN pending' : \E n \in DOMAIN previous', k \in 0 .. asked'.hops :
        pending'[i] = [node |-> n, depth |-> k] /\ At(n, k)'
  BY <1>2, <1>3, Steady
<1>5. \A i \in DOMAIN pending' : pending'[i].depth <= pending'[1].depth + 1
  <2>1. ASSUME NEW i \in DOMAIN rest
        PROVE  rest[i].depth <= rest[1].depth + 1
    <3>1. 1 \in DOMAIN rest /\ at.depth \in Nat
      BY <1>1, <1>2
    <3>2. rest[i].depth \in Nat /\ rest[i].depth <= at.depth + 1
      BY <1>2, <2>1
    <3>3. rest[1].depth \in Nat /\ at.depth <= rest[1].depth
      BY <1>2, <3>1
    <3> QED
      BY <3>1, <3>2, <3>3, NoFarther
  <2> QED
    BY <1>3, <2>1
<1>6. ASSUME NEW n \in DOMAIN previous
      PROVE  \/ Waits(n)'
             \/ \E h \in {asked'.hops} : At(n, h)'
             \/ \A m \in Node : Joined(n, m)' => m \in DOMAIN previous
  <2>1. CASE Waits(n)
    BY <1>1, <1>2, <1>3, <2>1, Steady DEF Waits
  <2>2. CASE ~Waits(n)
    BY <2>2, Steady DEF Queue
  <2> QED
    BY <2>1, <2>2
<1> QED
  BY <1>2, <1>3, <1>4, <1>5, <1>6 DEF Queue

(* The visit of a node whose new neighbours join the queue.                 *)
Expands(order) ==
  LET at == Head(pending)
      new == New(at.node)
  IN /\ pending # <<>> /\ ~Deep(at.depth) /\ order \in Sorted(new)
     /\ pending' = Tail(pending) \o [i \in DOMAIN order |-> [node |-> order[i], depth |-> at.depth + 1]]
     /\ previous' = [n \in DOMAIN previous \cup DOMAIN new |->
           IF n \in DOMAIN new THEN [node |-> at.node, link |-> new[n]] ELSE previous[n]]
     /\ asked' = asked

LEMMA VisitReaches ==
  ASSUME PathType, Queue, NEW order, Expands(order),
         \A n \in DOMAIN previous \ {asked.source} : Came(n)
  PROVE  /\ PathType'
         /\ \A n \in (DOMAIN previous \ {asked.source})' : Came(n)'
         /\ \A n \in DOMAIN New(Head(pending).node) : At(n, Head(pending).depth + 1)
<1> DEFINE at == Head(pending)
           new == New(at.node)
<1>1. /\ at.node \in DOMAIN previous /\ at.node \in Node /\ at.depth \in 0 .. asked.hops
      /\ At(at.node, at.depth) /\ Within(at.depth) \subseteq DOMAIN previous
  BY HeadNearest DEF Expands
<1>2. at.depth \in 0 .. asked.hops - 1 /\ at.depth \in Nat
  BY <1>1 DEF Expands, Deep, PathType
<1>3. /\ DOMAIN new = {n \in Node \ DOMAIN previous : Joined(at.node, n)}
      /\ \A n \in DOMAIN new : new[n] \in DOMAIN asked.links /\ Linked(new[n], at.node, n)
  BY NewNodes
<1>4. ASSUME NEW n \in DOMAIN new
      PROVE  At(n, at.depth + 1)
  <2>1. n \in Within(at.depth + 1)
    BY <1>1, <1>2, <1>3, <1>4, WithinStep DEF At
  <2>2. n \notin Within(at.depth)
    BY <1>1, <1>3, <1>4
  <2>3. \A j \in 0 .. at.depth : n \notin Within(j)
    BY <1>2, <2>2, WithinGrows
  <2> QED
    BY <1>2, <2>1, <2>3 DEF At
<1>5. /\ DOMAIN previous' = DOMAIN previous \cup DOMAIN new
      /\ \A n \in DOMAIN new : previous'[n] = [node |-> at.node, link |-> new[n]]
      /\ \A n \in DOMAIN previous : n \notin DOMAIN new /\ previous'[n] = previous[n]
      /\ asked' = asked
  BY <1>3 DEF Expands
<1>6. PathType'
  BY <1>3, <1>5 DEF PathType
<1> HIDE DEF new, at
<1>7. ASSUME NEW n \in DOMAIN previous', n # asked.source
      PROVE  Came(n)'
  <2>1. CASE n \in DOMAIN new
    <3>1. previous'[n] = [node |-> at.node, link |-> new[n]]
      BY <1>5, <2>1
    <3>2. PICK m \in DOMAIN previous, l \in DOMAIN asked.links, k \in 0 .. asked.hops - 1 :
            m = at.node /\ l = new[n] /\ k = at.depth
      BY <1>1, <1>2, <1>3, <2>1
    <3>3. Linked(l, m, n)' /\ At(m, k)' /\ At(n, k + 1)'
      BY <1>1, <1>3, <1>4, <1>5, <2>1, <3>2, Steady
    <3>4. previous'[n] = [node |-> m, link |-> l] /\ m \in DOMAIN previous'
          /\ l \in DOMAIN asked'.links /\ k \in 0 .. asked'.hops - 1
      BY <1>5, <3>1, <3>2
    <3> QED
      BY <3>3, <3>4 DEF Came
  <2>2. CASE n \in DOMAIN previous
    BY <1>5, <1>7, <2>2, Steady DEF Came
  <2> QED
    BY <1>5, <1>7, <2>1, <2>2
<1> QED
  BY <1>4, <1>5, <1>6, <1>7 DEF new, at

LEMMA VisitQueues ==
  ASSUME PathType, Queue, NEW order, Expands(order),
         \A n \in DOMAIN previous \ {asked.source} : Came(n)
  PROVE  Queue'
<1> DEFINE at == Head(pending)
           new == New(at.node)
           rest == Tail(pending)
           depth == at.depth + 1
           added == [i \in DOMAIN order |-> [node |-> order[i], depth |-> depth]]
<1>1. /\ at.node \in DOMAIN previous /\ at.depth \in Nat /\ depth \in 0 .. asked.hops /\ depth \in Nat
      /\ depth = at.depth + 1
  BY HeadNearest DEF Expands, Deep, PathType
<1>2. /\ rest \in Seq([node : Node, depth : Nat]) /\ Len(rest) \in Nat
      /\ DOMAIN rest = 1 .. Len(rest)
      /\ \A i \in DOMAIN rest :
           /\ \E n \in DOMAIN previous, k \in 0 .. asked.hops :
                rest[i] = [node |-> n, depth |-> k] /\ At(n, k)
           /\ rest[i].depth \in Nat
           /\ at.depth <= rest[i].depth /\ rest[i].depth <= at.depth + 1
      /\ \A i, j \in DOMAIN rest : i <= j => rest[i].depth <= rest[j].depth
      /\ \A n : Waits(n) => n = at.node \/ \E i \in DOMAIN rest : rest[i].node = n
  BY Leaving DEF Expands
<1>3. /\ DOMAIN new = {n \in Node \ DOMAIN previous : Joined(at.node, n)}
      /\ \A n \in DOMAIN new : At(n, depth)
      /\ DOMAIN previous' = DOMAIN previous \cup DOMAIN new
      /\ asked' = asked
  BY NewNodes, VisitReaches DEF Expands
<1>4. /\ order \in [1 .. Cardinality(DOMAIN new) -> DOMAIN new]
      /\ \A n \in DOMAIN new : \E i \in DOMAIN order : order[i] = n
  BY DEF Expands, Sorted, ToSet
<1>5. pending' = rest \o added
  BY DEF Expands
<1>6. /\ added \in Seq([node : Node, depth : Nat]) /\ Len(added) \in Nat
      /\ DOMAIN added = 1 .. Len(added)
      /\ \A i \in DOMAIN added : order[i] \in DOMAIN new /\ added[i] = [node |-> order[i], depth |-> depth]
      /\ \A n \in DOMAIN new : \E i \in DOMAIN added : added[i].node = n
  <2>1. Cardinality(DOMAIN new) \in Nat
    BY <1>3, FS_Subset, FS_CardinalityType DEF PathType
  <2>2. DOMAIN order = 1 .. Cardinality(DOMAIN new)
    BY <1>4
  <2>3. \A i \in DOMAIN order : order[i] \in DOMAIN new /\ order[i] \in Node
    BY <1>3, <1>4
  <2> HIDE DEF new, depth
  <2>4. added \in Seq([node : Node, depth : Nat]) /\ Len(added) = Cardinality(DOMAIN new)
    <3>1. \A i \in DOMAIN order : [node |-> order[i], depth |-> depth] \in [node : Node, depth : Nat]
      BY <1>1, <2>3
    <3> DEFINE E == [node : Node, depth : Nat]
               N == Cardinality(DOMAIN new)
    <3>2. added \in [1 .. N -> E]
      BY <2>2, <3>1
    <3> HIDE DEF E, added, N
    <3>3. N \in Nat
      BY <2>1 DEF N
    <3>4. added \in Seq(E) /\ Len(added) = N
      BY <3>2, <3>3
    <3> QED
      BY <3>4 DEF E, N
  <2> QED
    BY <1>4, <2>1, <2>2, <2>3, <2>4
<1> HIDE DEF at, new, rest, depth, added
<1>7. /\ pending' \in Seq([node : Node, depth : Nat])
      /\ Len(pending') = Len(rest) + Len(added) /\ DOMAIN pending' = 1 .. Len(pending')
      /\ \A i \in DOMAIN rest : i \in DOMAIN pending' /\ pending'[i] = rest[i]
      /\ \A i \in DOMAIN added : i + Len(rest) \in DOMAIN pending' /\ pending'[i + Len(rest)] = added[i]
  <2> DEFINE E == [node : Node, depth : Nat]
  <2>1. rest \in Seq(E) /\ added \in Seq(E)
    BY <1>2, <1>6
  <2> HIDE DEF E
  <2>2. pending' \in Seq(E) /\ Len(pending') = Len(rest) + Len(added)
    BY <1>5, <2>1
  <2>3. \A i \in DOMAIN rest : i \in 1 .. Len(pending') /\ pending'[i] = rest[i]
    BY <1>2, <1>5, <1>6, <2>1, <2>2
  <2>4. \A i \in DOMAIN added : i + Len(rest) \in 1 .. Len(pending') /\ pending'[i + Len(rest)] = added[i]
    BY <1>2, <1>5, <1>6, <2>1, <2>2
  <2> QED
    BY <2>2, <2>3, <2>4 DEF E
<1>8. ASSUME NEW i \in DOMAIN pending'
      PROVE  \/ i \in DOMAIN rest /\ pending'[i] = rest[i]
             \/ i > Len(rest) /\ \E n \in DOMAIN new : pending'[i] = [node |-> n, depth |-> depth]
  <2>1. CASE i <= Len(rest)
    BY <1>2, <1>7, <1>8, <2>1
  <2>2. CASE i > Len(rest)
    <3>1. i - Len(rest) \in DOMAIN added /\ (i - Len(rest)) + Len(rest) = i
      BY <1>2, <1>6, <1>7, <1>8, <2>2
    <3>2. pending'[i] = added[i - Len(rest)]
      BY <1>7, <3>1
    <3>3. added[i - Len(rest)] = [node |-> order[i - Len(rest)], depth |-> depth]
          /\ order[i - Len(rest)] \in DOMAIN new
      BY <1>6, <3>1
    <3> QED
      BY <2>2, <3>2, <3>3
  <2> QED
    BY <1>2, <1>7, <1>8, <2>1, <2>2
<1>9. \A i \in DOMAIN pending' :
        /\ i \in Nat \ {0} /\ pending'[i].depth \in Nat
        /\ at.depth <= pending'[i].depth /\ pending'[i].depth <= depth
        /\ i > Len(rest) => pending'[i].depth = depth
  BY <1>1, <1>2, <1>7, <1>8
<1>10. \A i \in DOMAIN pending' : \E n \in DOMAIN previous', k \in 0 .. asked'.hops :
         pending'[i] = [node |-> n, depth |-> k] /\ At(n, k)'
  BY <1>1, <1>2, <1>3, <1>8, Steady
<1>11. ASSUME NEW i \in DOMAIN pending', NEW j \in DOMAIN pending', i <= j
       PROVE  pending'[i].depth <= pending'[j].depth
  <2>1. CASE j > Len(rest)
    BY <1>9, <2>1
  <2>2. CASE j <= Len(rest)
    <3>1. i \in DOMAIN rest /\ j \in DOMAIN rest
      BY <1>2, <1>9, <1>11, <2>2
    <3>2. pending'[i] = rest[i] /\ pending'[j] = rest[j]
      BY <1>7, <3>1
    <3>3. rest[i].depth <= rest[j].depth
      BY <1>2, <1>11, <3>1
    <3> QED
      BY <3>2, <3>3
  <2> QED
    BY <1>2, <1>9, <2>1, <2>2
<1>12. \A i \in DOMAIN pending' : pending'[i].depth <= pending'[1].depth + 1
  <2>1. ASSUME NEW i \in DOMAIN pending'
        PROVE  1 \in DOMAIN pending'
    BY <1>7
  <2> QED
    BY <1>1, <1>9, <2>1
<1>13. ASSUME NEW n \in DOMAIN previous'
       PROVE  \/ Waits(n)'
              \/ \E h \in {asked'.hops} : At(n, h)'
              \/ \A m \in Node : Joined(n, m)' => m \in DOMAIN previous'
  <2>1. CASE n \in DOMAIN new
    BY <1>6, <1>7, <2>1 DEF Waits
  <2>2. CASE Waits(n) /\ n # at.node
    <3>1. PICK i \in DOMAIN rest : rest[i].node = n
      BY <1>2, <2>2
    <3> QED
      BY <1>7, <3>1 DEF Waits
  <2>3. CASE n = at.node
    BY <1>3, <2>3, Steady
  <2>4. CASE n \in DOMAIN previous /\ ~Waits(n)
    BY <1>3, <2>4, Steady DEF Queue
  <2> QED
    BY <1>3, <2>1, <2>2, <2>3, <2>4
<1> QED
  BY <1>7, <1>10, <1>11, <1>12, <1>13 DEF Queue

LEMMA PathVisit ==
  ASSUME PathInv, Visit
  PROVE  PathInv'
<1> DEFINE at == Head(pending)
<1>0. /\ phase = "walk" /\ pending # <<>> /\ PathType /\ Queue /\ trace = <<>>
      /\ \A n \in DOMAIN previous \ {asked.source} : Came(n)
      /\ asked' = asked /\ trace' = trace
  BY DEF PathInv, Visit
<1>1. CASE at.node = asked.target /\ phase' = "back" /\ UNCHANGED <<pending, previous>>
  <2>1. /\ at.node \in DOMAIN previous /\ at.depth \in 0 .. asked.hops /\ At(at.node, at.depth)
    BY <1>0, HeadNearest
  <2>2. Chain'
    <3>1. PICK t \in DOMAIN previous, d \in 0 .. asked.hops : t = asked.target /\ d = at.depth /\ At(t, d)
      BY <1>1, <2>1
    <3>2. Reached' = asked.target /\ trace' = <<>> /\ Len(trace') = 0 /\ trace' \in Seq([to : Node, link : DOMAIN asked'.links])
      BY <1>0, <1>1 DEF Reached
    <3>3. At(t, d)'
      BY <1>0, <3>1, Steady
    <3>4. d + 0 = d
      BY <1>0, <3>1 DEF PathType
    <3> HIDE DEF at
    <3> QED
      BY <1>0, <1>1, <3>1, <3>2, <3>3, <3>4 DEF Chain
  <2>3. PathType' /\ \A n \in (DOMAIN previous \ {asked.source})' : Came(n)'
    BY <1>0, <1>1, Steady DEF PathType, Came
  <2> QED
    BY <1>1, <2>2, <2>3 DEF PathInv
<1>2. CASE Deep(at.depth) /\ pending' = Tail(pending) /\ UNCHANGED <<previous, phase>>
  <2>1. Queue'
    BY <1>0, <1>2, VisitDeep
  <2>2. PathType' /\ \A n \in (DOMAIN previous \ {asked.source})' : Came(n)'
    BY <1>0, <1>2, Steady DEF PathType, Came
  <2> QED
    BY <1>0, <1>2, <2>1, <2>2 DEF PathInv
<1>3. CASE /\ ~Deep(at.depth)
           /\ \E order \in Sorted(New(at.node)) : Expands(order)
           /\ UNCHANGED phase
  <2>1. PICK order \in Sorted(New(at.node)) : Expands(order)
    BY <1>3
  <2> QED
    BY <1>0, <1>3, <2>1, VisitReaches, VisitQueues DEF PathInv
<1> QED
  BY <1>0, <1>1, <1>2, <1>3 DEF Visit, Expands

LEMMA PathExhausted ==
  ASSUME PathInv, Exhausted
  PROVE  PathInv'
<1>0. /\ phase = "walk" /\ pending = <<>> /\ PathType /\ Queue /\ trace = <<>>
      /\ \A n \in DOMAIN previous \ {asked.source} : Came(n)
      /\ asked' = asked /\ trace' = trace /\ previous' = previous
  BY DEF PathInv, Exhausted
<1>1. PathType' /\ \A n \in (DOMAIN previous \ {asked.source})' : Came(n)'
  BY <1>0, Steady DEF PathType, Came
<1>2. CASE asked.target \in DOMAIN previous /\ phase' = "back"
  <2>1. PICK t \in DOMAIN previous, d \in 0 .. asked.hops : t = asked.target /\ At(t, d)
    <3>1. CASE asked.target = asked.source
      BY <1>0, <3>1, SourceAt DEF PathType
    <3>2. CASE asked.target # asked.source
      <4>1. PICK k \in 0 .. asked.hops - 1 : At(asked.target, k + 1)
        BY <1>0, <1>2, <3>2 DEF Came
      <4>2. k + 1 \in 0 .. asked.hops
        BY <1>0 DEF PathType
      <4> QED
        BY <1>2, <4>1, <4>2
    <3> QED
      BY <3>1, <3>2
  <2>2. Chain'
    <3>2. Reached' = asked.target /\ trace' = <<>> /\ Len(trace') = 0
          /\ trace' \in Seq([to : Node, link : DOMAIN asked'.links])
      BY <1>0 DEF Reached
    <3>3. At(t, d)'
      BY <1>0, <2>1, Steady
    <3>4. d + 0 = d
      BY <1>0 DEF PathType
    <3> QED
      BY <1>0, <2>1, <3>2, <3>3, <3>4 DEF Chain
  <2> QED
    BY <1>1, <1>2, <2>2 DEF PathInv
<1>3. CASE asked.target \notin DOMAIN previous /\ phase' = "none"
  <2>1. Within(asked.hops) \subseteq DOMAIN previous
    BY <1>0, Complete DEF PathType
  <2>2. \A h \in {asked'.hops} : asked'.target \notin Within(h)'
    BY <1>0, <1>3, <2>1, Steady
  <2> QED
    BY <1>1, <1>3, <2>2 DEF PathInv
<1> QED
  BY <1>2, <1>3 DEF Exhausted

LEMMA PathBack ==
  ASSUME PathInv, Back
  PROVE  PathInv'
<1>0. /\ phase = "back" /\ PathType /\ Chain
      /\ \A n \in DOMAIN previous \ {asked.source} : Came(n)
      /\ asked' = asked /\ previous' = previous
  BY DEF PathInv, Back
<1>1. PathType' /\ \A n \in (DOMAIN previous \ {asked.source})' : Came(n)'
  BY <1>0, Steady DEF PathType, Came
<1>2. PICK r \in DOMAIN previous, t \in DOMAIN previous, k \in 0 .. asked.hops, d \in 0 .. asked.hops :
        r = Reached /\ t = asked.target /\ k + Len(trace) = d /\ At(r, k) /\ At(t, d)
  BY <1>0 DEF Chain
<1>3. CASE Reached = asked.source /\ phase' = "path" /\ trace' = trace
  <2>1. Reached' = Reached /\ \A i : From(i)' = From(i)
    BY <1>0, <1>3 DEF Reached, From
  <2>2. Chain'
    BY <1>0, <1>3, <2>1, Steady DEF Chain
  <2> QED
    BY <1>0, <1>1, <1>3, <2>1, <2>2 DEF PathInv
<1>4. CASE /\ Reached # asked.source /\ phase' = "back"
           /\ trace' = Append(trace, [to |-> Reached, link |-> previous[Reached].link])
  <2>1. PICK m \in DOMAIN previous, l \in DOMAIN asked.links, j \in 0 .. asked.hops - 1 :
          previous[r] = [node |-> m, link |-> l] /\ Linked(l, m, r) /\ At(m, j) /\ At(r, j + 1)
    BY <1>0, <1>2, <1>4 DEF Came
  <2>2. j + 1 = k
    BY <1>2, <2>1, AtOnce
  <2>3. trace' = Append(trace, [to |-> r, link |-> l]) /\ r \in Node
    BY <1>0, <1>2, <1>4, <2>1 DEF PathType
  <2>4. /\ trace \in Seq([to : Node, link : DOMAIN asked.links]) /\ Len(trace) \in Nat
        /\ DOMAIN trace = 1 .. Len(trace)
    BY <1>0 DEF Chain
  <2>5. /\ trace' \in Seq([to : Node, link : DOMAIN asked.links]) /\ Len(trace') = Len(trace) + 1
        /\ DOMAIN trace' = 1 .. Len(trace) + 1
        /\ \A i \in DOMAIN trace : trace'[i] = trace[i]
        /\ trace'[Len(trace) + 1] = [to |-> r, link |-> l]
    <3> DEFINE E == [to : Node, link : DOMAIN asked.links]
    <3>1. [to |-> r, link |-> l] \in E
      BY <2>3
    <3> HIDE DEF E
    <3>2. trace \in Seq(E)
      BY <2>4 DEF E
    <3> QED
      BY <2>3, <2>4, <3>1, <3>2 DEF E
  <2>6. Reached' = m
    <3>1. trace' # <<>> /\ trace'[Len(trace')].to = r
      BY <2>4, <2>5
    <3> QED
      BY <1>0, <2>1, <3>1 DEF Reached, Last
  <2>7. trace' # <<>> => trace'[1].to = asked.target
    <3>1. CASE trace = <<>>
      BY <1>2, <2>5, <3>1 DEF Reached
    <3>2. CASE trace # <<>>
      <4>1. 1 \in DOMAIN trace
        BY <2>4, <3>2
      <4> QED
        BY <1>0, <2>5, <3>2, <4>1 DEF Chain
    <3> QED
      BY <3>1, <3>2
  <2>8. ASSUME NEW i \in DOMAIN trace'
        PROVE  Linked(trace'[i].link, From(i)', trace'[i].to)
    <3>1. CASE i = Len(trace) + 1
      <4>1. From(i)' = m
        BY <2>5, <2>6, <3>1 DEF From
      <4> QED
        BY <2>1, <2>5, <3>1, <4>1
    <3>2. CASE i \in DOMAIN trace
      <4>1. From(i)' = trace'[i + 1].to
        BY <2>4, <2>5, <3>2 DEF From
      <4>2. trace'[i + 1].to = From(i)
        BY <1>2, <2>4, <2>5, <3>2 DEF From
      <4> QED
        BY <1>0, <2>5, <3>2, <4>1, <4>2 DEF Chain
    <3> QED
      BY <2>4, <2>5, <3>1, <3>2
  <2>9. j \in 0 .. asked.hops /\ j + Len(trace') = d
    <3>1. asked.hops \in Nat /\ j \in Int /\ j <= asked.hops - 1 /\ 0 <= j
      BY <1>0 DEF PathType
    <3>2. k + Len(trace) = d /\ j + 1 = k /\ Len(trace) \in Nat /\ Len(trace') = Len(trace) + 1
      BY <1>2, <2>2, <2>4, <2>5
    <3> QED
      BY <3>1, <3>2
  <2>10. Chain'
    <3>1. \A i \in DOMAIN trace' : Linked(trace[i].link, From(i), trace[i].to)'
      BY <1>0, <2>8 DEF Linked
    <3>2. At(m, j)' /\ At(t, d)'
      BY <1>0, <1>2, <2>1, Steady
    <3> QED
      BY <1>0, <1>2, <2>1, <2>5, <2>6, <2>7, <2>9, <3>1, <3>2 DEF Chain
  <2> QED
    BY <1>1, <1>4, <2>10 DEF PathInv
<1> QED
  BY <1>0, <1>3, <1>4 DEF Back

LEMMA LinksOf ==
  ASSUME NEW e, IsFiniteSet(e)
  PROVE  SetToSeq(e) \in Seq(e)
<1>1. Cardinality(e) \in Nat /\ ExistsBijection(1 .. Cardinality(e), e)
  BY FS_CardinalityType
<1>2. \E f \in [1 .. Cardinality(e) -> e] : IsInjective(f)
  BY <1>1 DEF ExistsBijection, Bijection, Injection
<1>3. SetToSeq(e) \in [1 .. Cardinality(e) -> e]
  BY <1>2 DEF SetToSeq
<1> QED
  BY <1>1, <1>3

LEMMA PathInit ==
  ASSUME IsFiniteSet(Node), MaxHops \in Nat, Init
  PROVE  PathInv
<1>1. CASE phase = "scan"
  BY <1>1 DEF PathInv
<1>2. CASE /\ phase = "walk" /\ asked \in PathCalls
           /\ pending = <<[node |-> asked.source, depth |-> 0]>>
           /\ previous = [n \in {asked.source} |-> None]
  <2>1. PICK e \in SUBSET Edges, s \in Node, t \in Node, h \in 1 .. MaxHops :
          asked = [links |-> SetToSeq(e), source |-> s, target |-> t, hops |-> h]
    BY <1>2 DEF PathCalls
  <2>2. asked.links \in Seq(Node \X Node)
    <3>1. IsFiniteSet(e) /\ e \subseteq Node \X Node
      BY FS_Product, FS_Subset DEF Edges
    <3>2. SetToSeq(e) \in Seq(e)
      BY <3>1, LinksOf
    <3>3. SetToSeq(e) \in Seq(Node \X Node)
      BY <3>1, <3>2
    <3> QED
      BY <2>1, <3>3
  <2>3. asked.source = s /\ asked.target = t /\ asked.hops = h
    BY <2>1
  <2>4. DOMAIN previous = {asked.source}
    BY <1>2
  <2>5. PathType
    BY <2>2, <2>3, <2>4 DEF PathType
  <2>6. At(asked.source, 0)
    BY <2>5, SourceAt
  <2>7. Queue
    <3>1. Len(pending) = 1 /\ DOMAIN pending = {1} /\ pending[1] = [node |-> asked.source, depth |-> 0]
          /\ pending \in Seq([node : Node, depth : Nat])
      BY <1>2, <2>3
    <3>2. 0 \in 0 .. asked.hops
      BY <2>5 DEF PathType
    <3>3. Waits(asked.source)
      BY <3>1 DEF Waits
    <3> QED
      BY <2>4, <2>6, <3>1, <3>2, <3>3 DEF Queue
  <2> QED
    BY <1>2, <2>4, <2>5, <2>7 DEF PathInv, Init
<1> QED
  BY <1>1, <1>2 DEF Init

LEMMA PathNext ==
  ASSUME PathInv, [Next]_queryVars
  PROVE  PathInv'
<1>1. CASE ScanFile
  <2>1. phase' \in {"scan", "found"}
    BY <1>1 DEF ScanFile, Stop, Collect
  <2> QED
    BY <2>1 DEF PathInv
<1>2. CASE ScanEnds
  BY <1>2 DEF ScanEnds, PathInv
<1>3. CASE UNCHANGED queryVars
  <2>1. /\ asked' = asked /\ pending' = pending /\ previous' = previous /\ trace' = trace /\ phase' = phase
    BY <1>3 DEF queryVars
  <2>2. PathType' = PathType /\ Reached' = Reached /\ \A i : From(i)' = From(i)
    BY <2>1 DEF PathType, Reached, From
  <2>3. \A n : Came(n)' <=> Came(n)
    BY <2>1, Steady DEF Came
  <2>4. Queue' <=> Queue
    BY <2>1, Steady DEF Queue, Waits
  <2>5. Chain' <=> Chain
    BY <2>1, <2>2, Steady DEF Chain
  <2>6. \A h : Within(h)' = Within(h)
    BY <2>1, Steady
  <2> QED
    BY <2>1, <2>2, <2>3, <2>4, <2>5, <2>6 DEF PathInv
<1> QED
  BY <1>1, <1>2, <1>3, PathVisit, PathExhausted, PathBack DEF Next

(* The links of the answer lead from the source to the target.              *)
LEMMA PathShort ==
  ASSUME PathInv
  PROVE  PathIsShortest
<1>1. ASSUME phase = "path"
      PROVE  LET path == Reverse(trace)
                 at(i) == IF i = 0 THEN asked.source ELSE path[i].to IN
             /\ \A i \in 1..Len(path) :
                  path[i].link \in DOMAIN asked.links /\ Linked(path[i].link, at(i - 1), at(i))
             /\ at(Len(path)) = asked.target
             /\ Len(path) <= asked.hops
             /\ Len(path) > 0 => asked.target \notin Within(Len(path) - 1)
  <2> DEFINE path == Reverse(trace)
             at(i) == IF i = 0 THEN asked.source ELSE path[i].to
             n == Len(trace)
  <2>1. PathType /\ Chain /\ Reached = asked.source
    BY <1>1 DEF PathInv
  <2>2. /\ trace \in Seq([to : Node, link : DOMAIN asked.links]) /\ n \in Nat /\ DOMAIN trace = 1 .. n
        /\ \A i \in 1 .. n : trace[i].link \in DOMAIN asked.links /\ Linked(trace[i].link, From(i), trace[i].to)
        /\ n > 0 => trace[1].to = asked.target
        /\ n = 0 => trace = <<>>
    <3> DEFINE E == [to : Node, link : DOMAIN asked.links]
    <3>1. trace \in Seq(E)
      BY <2>1 DEF Chain
    <3> HIDE DEF E
    <3>4. \A i \in DOMAIN trace : trace[i] \in E
      BY <3>1
    <3>2. \A i \in DOMAIN trace : trace[i].link \in DOMAIN asked.links
      BY <3>4 DEF E
    <3>3. n \in Nat /\ DOMAIN trace = 1 .. n /\ (n > 0 => trace # <<>>) /\ (n = 0 => trace = <<>>)
      BY <3>1
    <3> QED
      BY <2>1, <3>1, <3>2, <3>3 DEF Chain, E
  <2>3. /\ Len(path) = n /\ \A i \in 1 .. n : path[i] = trace[n - i + 1]
    BY <2>2 DEF Reverse
  <2>4. PICK r \in DOMAIN previous, t \in DOMAIN previous, k \in 0 .. asked.hops, d \in 0 .. asked.hops :
          r = Reached /\ t = asked.target /\ k + n = d /\ At(r, k) /\ At(t, d)
    BY <2>1 DEF Chain
  <2>5. k = 0 /\ d = n /\ n <= asked.hops
    <3>1. k = 0
      BY <2>1, <2>4, SourceAt, AtOnce
    <3>2. asked.hops \in Nat
      BY <2>1 DEF PathType
    <3>3. d <= asked.hops /\ k + n = d
      BY <2>4, <3>2
    <3> HIDE DEF n
    <3> QED
      BY <2>2, <3>1, <3>3
  <2> HIDE DEF path, n
  <2>6. ASSUME NEW i \in 1 .. n
        PROVE  path[i].link \in DOMAIN asked.links /\ Linked(path[i].link, at(i - 1), at(i))
    <3>1. n - i + 1 \in 1 .. n /\ path[i] = trace[n - i + 1]
      BY <2>2, <2>3
    <3>2. at(i - 1) = From(n - i + 1)
      <4>1. CASE i = 1
        <5>1. n - i + 1 = n /\ i - 1 = 0
          BY <2>2, <4>1
        <5>2. From(n) = Reached
          BY DEF From, n
        <5> QED
          BY <2>1, <5>1, <5>2
      <4>2. CASE i # 1
        <5>1. i - 1 \in 1 .. n /\ n - (i - 1) + 1 = (n - i + 1) + 1 /\ n - i + 1 # n
          BY <2>2, <4>2
        <5>2. at(i - 1) = trace[(n - i + 1) + 1].to
          BY <2>3, <5>1
        <5> QED
          BY <5>1, <5>2 DEF From, n
      <4> QED
        BY <4>1, <4>2
    <3>3. at(i) = trace[n - i + 1].to
      BY <2>2, <3>1
    <3> HIDE DEF at
    <3> QED
      BY <2>2, <3>1, <3>2, <3>3
  <2>7. at(Len(path)) = asked.target
    <3>1. CASE n = 0
      BY <2>1, <2>2, <2>3, <3>1 DEF Reached
    <3>2. CASE n > 0
      <4>1. n \in 1 .. n /\ n - n + 1 = 1
        BY <2>2, <3>2
      <4>2. path[n] = trace[1]
        BY <2>3, <4>1
      <4> QED
        BY <2>2, <2>3, <3>2, <4>2
    <3> QED
      BY <2>2, <3>1, <3>2
  <2>8. n > 0 => asked.target \notin Within(n - 1)
    <3>1. n > 0 => n - 1 \in 0 .. n - 1
      BY <2>2
    <3> QED
      BY <2>4, <2>5, <3>1 DEF At
  <2> HIDE DEF at
  <2>9. /\ \A i \in 1..Len(path) :
             path[i].link \in DOMAIN asked.links /\ Linked(path[i].link, at(i - 1), at(i))
        /\ at(Len(path)) = asked.target
        /\ Len(path) <= asked.hops
        /\ Len(path) > 0 => asked.target \notin Within(Len(path) - 1)
    BY <2>3, <2>5, <2>6, <2>7, <2>8
  <2> QED
    BY <2>9 DEF path, at
<1>2. phase = "none" => asked.target \notin Within(asked.hops)
  BY DEF PathInv
<1> QED
  BY <1>1, <1>2 DEF PathIsShortest

-----------------------------------------------------------------------------
(* _glob_match computes what the wildcards mean: row t, column i of the  *)
(* table says that the first i characters fit the first t tokens.        *)
Fits(path, pattern, t, i) ==
  \E cut \in [0..t -> 0..Len(path)] :
    /\ cut[0] = 0 /\ cut[t] = i
    /\ \A s \in 1..t :
         IF pattern[s] = "*" THEN cut[s] >= cut[s - 1]
         ELSE cut[s] = cut[s - 1] + 1 /\ pattern[s] \in {"?", path[cut[s]]}

(* A row in closed form.                                                    *)
Row(row, token, path) ==
  [i \in 0..Len(path) |-> IF token = "*" THEN \E j \in 0..i : row[j]
                          ELSE i > 0 /\ row[i - 1] /\ token \in {"?", path[i]}]

LEMMA GlobRowIs ==
  ASSUME NEW path, Len(path) \in Nat, NEW token, NEW row \in [0..Len(path) -> BOOLEAN]
  PROVE  GlobRow(row, token, path) = Row(row, token, path)
<1> DEFINE n == Len(path)
           cell(c, i) == IF token = "*" THEN row[i] \/ (i > 0 /\ c[i - 1])
                         ELSE i > 0 /\ row[i - 1] /\ token \in {"?", path[i]}
           Is(c) == c = [i \in 0..n |-> cell(c, i)]
           closed == Row(row, token, path)
<1>1. GlobRow(row, token, path) = CHOOSE c : Is(c)
  BY DEF GlobRow
<1>2. Is(closed)
  <2>1. ASSUME NEW i \in 0..n
        PROVE  closed[i] = cell(closed, i)
    <3>1. CASE token = "*" /\ i = 0
      <4>1. 0 \in 0..n /\ 0 \in 0..0 /\ \A j \in 0..0 : j = 0
        BY <2>1
      <4>2. closed[0] = \E j \in 0..0 : row[j]
        BY <3>1, <4>1 DEF Row
      <4>3. closed[0] = row[0] /\ cell(closed, 0) = row[0]
        <5>1. row[0] \in BOOLEAN
          BY <4>1
        <5>2. closed[0] = row[0]
          BY <4>1, <4>2, <5>1, Zenon
        <5> QED
          BY <3>1, <5>1, <5>2
      <4> QED
        BY <3>1, <4>3
    <3>2. CASE token = "*" /\ i > 0
      <4>1. /\ i - 1 \in 0..n /\ i \in 0..i /\ row[i] \in BOOLEAN
            /\ \A j \in 0..i : j = i \/ j \in 0..i - 1
            /\ \A j \in 0..i - 1 : j \in 0..i
        BY <2>1, <3>2
      <4>2. closed[i] = \E j \in 0..i : row[j]
        BY <2>1, <3>2 DEF Row
      <4>3. closed[i - 1] = \E j \in 0..i - 1 : row[j]
        BY <3>2, <4>1 DEF Row
      <4>4. closed[i] = (row[i] \/ closed[i - 1])
        BY <4>1, <4>2, <4>3, Zenon
      <4> HIDE DEF closed
      <4> QED
        BY <3>2, <4>4
    <3>3. CASE token # "*"
      BY <3>3 DEF Row
    <3> QED
      BY <2>1, <3>1, <3>2, <3>3
  <2> QED
    BY <2>1 DEF Row
<1>3. ASSUME NEW c, Is(c)
      PROVE  c = closed
  <2> DEFINE S == {i \in 0..n : c[i] = closed[i]}
  <2>1. \A i \in 0..n : c[i] = cell(c, i) /\ closed[i] = cell(closed, i)
    BY <1>2, <1>3
  <2>2. 0 \in S
    BY <2>1
  <2>3. ASSUME NEW k \in 0..n - 1, k \in S
        PROVE  k + 1 \in S
    <3>1. k + 1 \in 0..n /\ (k + 1) - 1 = k
      BY <2>3
    <3> QED
      BY <2>1, <2>3, <3>1
  <2> HIDE DEF S
  <2>4. 0..n \subseteq S
    BY <2>2, <2>3, Induction
  <2>5. \A i \in 0..n : c[i] = closed[i]
    BY <2>4 DEF S
  <2> QED
    BY <1>3, <2>5 DEF Row
<1> HIDE DEF Is, closed
<1>4. Is(CHOOSE c : Is(c))
  BY <1>2
<1> QED
  BY <1>1, <1>3, <1>4 DEF closed

LEMMA FitsStart ==
  ASSUME NEW path, Len(path) \in Nat, NEW pattern, NEW i \in 0..Len(path)
  PROVE  Fits(path, pattern, 0, i) <=> i = 0
<1>1. Fits(path, pattern, 0, i) => i = 0
  BY DEF Fits
<1>2. ASSUME i = 0
      PROVE  Fits(path, pattern, 0, i)
  <2> DEFINE cut == [s \in 0..0 |-> 0]
  <2>1. cut \in [0..0 -> 0..Len(path)] /\ cut[0] = 0 /\ \A s \in 1..0 : FALSE
    OBVIOUS
  <2> HIDE DEF cut
  <2> QED
    BY <1>2, <2>1 DEF Fits
<1> QED
  BY <1>1, <1>2

LEMMA FitsStep ==
  ASSUME NEW path, Len(path) \in Nat, NEW pattern, NEW t \in Nat, NEW i \in 0..Len(path)
  PROVE  Fits(path, pattern, t + 1, i) <=>
           IF pattern[t + 1] = "*" THEN \E j \in 0..i : Fits(path, pattern, t, j)
           ELSE i > 0 /\ Fits(path, pattern, t, i - 1) /\ pattern[t + 1] \in {"?", path[i]}
<1> DEFINE n == Len(path)
           Part(cut, s) == IF pattern[s] = "*" THEN cut[s] >= cut[s - 1]
                           ELSE cut[s] = cut[s - 1] + 1 /\ pattern[s] \in {"?", path[cut[s]]}
<1>1. ASSUME Fits(path, pattern, t + 1, i)
      PROVE  IF pattern[t + 1] = "*" THEN \E j \in 0..i : Fits(path, pattern, t, j)
             ELSE i > 0 /\ Fits(path, pattern, t, i - 1) /\ pattern[t + 1] \in {"?", path[i]}
  <2>1. PICK cut \in [0..t + 1 -> 0..n] :
          cut[0] = 0 /\ cut[t + 1] = i /\ \A s \in 1..t + 1 : Part(cut, s)
    BY <1>1 DEF Fits
  <2> DEFINE less == [s \in 0..t |-> cut[s]]
  <2>2. less \in [0..t -> 0..n] /\ less[0] = 0 /\ less[t] = cut[t] /\ \A s \in 1..t : Part(less, s)
    BY <2>1
  <2>3. Fits(path, pattern, t, cut[t])
    <3> HIDE DEF less
    <3> QED
      BY <2>2 DEF Fits
  <2>4. Part(cut, t + 1) /\ (t + 1) - 1 = t /\ cut[t] \in 0..n
    BY <2>1
  <2>5. CASE pattern[t + 1] = "*"
    BY <2>1, <2>3, <2>4, <2>5
  <2>6. CASE pattern[t + 1] # "*"
    <3>1. i = cut[t] + 1 /\ pattern[t + 1] \in {"?", path[i]}
      BY <2>1, <2>4, <2>6
    <3>2. i > 0 /\ i - 1 = cut[t]
      BY <2>4, <3>1
    <3> QED
      BY <2>3, <2>6, <3>1, <3>2
  <2> QED
    BY <2>5, <2>6
<1>2. ASSUME NEW j \in 0..n, Fits(path, pattern, t, j),
             IF pattern[t + 1] = "*" THEN i >= j
             ELSE i = j + 1 /\ pattern[t + 1] \in {"?", path[i]}
      PROVE  Fits(path, pattern, t + 1, i)
  <2>1. PICK cut \in [0..t -> 0..n] : cut[0] = 0 /\ cut[t] = j /\ \A s \in 1..t : Part(cut, s)
    BY <1>2 DEF Fits
  <2> DEFINE more == [s \in 0..t + 1 |-> IF s = t + 1 THEN i ELSE cut[s]]
  <2>2. more \in [0..t + 1 -> 0..n] /\ more[0] = 0 /\ more[t + 1] = i /\ more[t] = j
    BY <2>1
  <2>3. ASSUME NEW s \in 1..t + 1
        PROVE  Part(more, s)
    <3>1. CASE s = t + 1
      BY <1>2, <2>2, <3>1
    <3>2. CASE s \in 1..t
      <4>1. more[s] = cut[s] /\ more[s - 1] = cut[s - 1] /\ Part(cut, s)
        BY <2>1, <3>2
      <4> HIDE DEF more
      <4> QED
        BY <4>1
    <3> QED
      BY <3>1, <3>2
  <2> HIDE DEF more
  <2> QED
    BY <2>2, <2>3 DEF Fits
<1>3. CASE pattern[t + 1] = "*"
  <2>1. \A j \in 0..i : j \in 0..n /\ i >= j
    OBVIOUS
  <2> QED
    BY <1>1, <1>2, <1>3, <2>1
<1>4. CASE pattern[t + 1] # "*"
  <2>1. i > 0 => i - 1 \in 0..n /\ i = (i - 1) + 1
    OBVIOUS
  <2> QED
    BY <1>1, <1>2, <1>4, <2>1
<1> QED
  BY <1>3, <1>4

LEMMA GlobIs ==
  ASSUME NEW path, Len(path) \in Nat, NEW pattern, Len(pattern) \in Nat
  PROVE  GlobMatch(path, pattern) = GlobMeans(path, pattern)
<1> DEFINE n == Len(path)
           m == Len(pattern)
           next(r, t) == IF t = 0 THEN [i \in 0..n |-> i = 0] ELSE GlobRow(r[t - 1], pattern[t], path)
           Is(r) == r = [t \in 0..m |-> next(r, t)]
           table == [t \in 0..m |-> [i \in 0..n |-> Fits(path, pattern, t, i)]]
<1>0. n \in Nat /\ m \in Nat
  OBVIOUS
<1>1. GlobMatch(path, pattern) = (CHOOSE r : Is(r))[m][n]
  BY DEF GlobMatch
<1>2. ASSUME NEW t \in 0..m
      PROVE  table[t] = next(table, t)
  <2>1. CASE t = 0
    <3>1. \A i \in 0..n : Fits(path, pattern, 0, i) = (i = 0)
      BY FitsStart DEF Fits
    <3>2. table[t] = [i \in 0..n |-> Fits(path, pattern, 0, i)]
      BY <2>1
    <3>3. [i \in 0..n |-> Fits(path, pattern, 0, i)] = [i \in 0..n |-> i = 0]
      BY <3>1
    <3> QED
      BY <2>1, <3>2, <3>3
  <2>2. CASE t # 0
    <3>1. t - 1 \in 0..m /\ t - 1 \in Nat /\ (t - 1) + 1 = t
      BY <1>2, <2>2
    <3> DEFINE row == table[t - 1]
    <3>2. row \in [0..n -> BOOLEAN] /\ \A i \in 0..n : row[i] = Fits(path, pattern, t - 1, i)
      BY <3>1 DEF Fits
    <3> HIDE DEF row
    <3>3. GlobRow(row, pattern[t], path) = Row(row, pattern[t], path)
      BY <3>2, GlobRowIs
    <3>4. ASSUME NEW i \in 0..n
          PROVE  Fits(path, pattern, t, i) = Row(row, pattern[t], path)[i]
      <4>1. \A j \in 0..i : j \in 0..n
        BY <1>0, <3>4
      <4>2. i > 0 => i - 1 \in 0..n
        BY <1>0, <3>4
      <4>3. Fits(path, pattern, t, i) <=>
              IF pattern[t] = "*" THEN \E j \in 0..i : Fits(path, pattern, t - 1, j)
              ELSE i > 0 /\ Fits(path, pattern, t - 1, i - 1) /\ pattern[t] \in {"?", path[i]}
        BY <3>1, FitsStep
      <4>4. CASE pattern[t] = "*"
        <5>1. Row(row, pattern[t], path)[i] = \E j \in 0..i : row[j]
          BY <3>4, <4>4 DEF Row
        <5>2. Fits(path, pattern, t, i) = \E j \in 0..i : row[j]
          <6>1. \A j \in 0..i : row[j] <=> Fits(path, pattern, t - 1, j)
            BY <3>2, <4>1
          <6>2. Fits(path, pattern, t, i) <=> \E j \in 0..i : row[j]
            BY <4>3, <4>4, <6>1
          <6> QED
            BY <6>2 DEF Fits
        <5> QED
          BY <5>1, <5>2
      <4>5. CASE pattern[t] # "*"
        <5>1. Row(row, pattern[t], path)[i] = (i > 0 /\ row[i - 1] /\ pattern[t] \in {"?", path[i]})
          BY <3>4, <4>5 DEF Row
        <5>2. Fits(path, pattern, t, i) = (i > 0 /\ row[i - 1] /\ pattern[t] \in {"?", path[i]})
          BY <3>2, <4>2, <4>3, <4>5 DEF Fits
        <5> QED
          BY <5>1, <5>2
      <4> QED
        BY <4>4, <4>5
    <3>5. [i \in 0..n |-> Fits(path, pattern, t, i)] = Row(row, pattern[t], path)
      BY <3>4 DEF Row
    <3>6. table[t] = [i \in 0..n |-> Fits(path, pattern, t, i)]
      OBVIOUS
    <3> QED
      BY <2>2, <3>3, <3>5, <3>6 DEF row
  <2> QED
    BY <2>1, <2>2
<1> HIDE DEF n, m, table
<1>3. Is(table)
  BY <1>2 DEF table
<1>4. ASSUME NEW r, Is(r)
      PROVE  r[m] = table[m]
  <2> DEFINE S == {t \in 0..m : r[t] = table[t]}
  <2>1. \A t \in 0..m : r[t] = next(r, t)
    BY <1>4
  <2>2. 0 \in S
    <3>1. 0 \in 0..m
      BY <1>0
    <3>2. r[0] = next(r, 0) /\ table[0] = next(table, 0)
      BY <1>2, <2>1, <3>1
    <3> QED
      BY <3>1, <3>2
  <2>3. ASSUME NEW k \in 0..m - 1, k \in S
        PROVE  k + 1 \in S
    <3>1. k + 1 \in 0..m /\ (k + 1) - 1 = k /\ k + 1 # 0
      BY <1>0, <2>3
    <3>2. r[k + 1] = next(r, k + 1) /\ table[k + 1] = next(table, k + 1)
      BY <1>2, <2>1, <3>1
    <3>3. r[k] = table[k]
      BY <2>3
    <3>4. next(r, k + 1) = GlobRow(r[k], pattern[k + 1], path)
          /\ next(table, k + 1) = GlobRow(table[k], pattern[k + 1], path)
      BY <3>1
    <3>5. r[k + 1] = table[k + 1]
      BY <3>2, <3>3, <3>4
    <3> QED
      BY <3>1, <3>5
  <2> HIDE DEF S
  <2>4. 0..m \subseteq S
    BY <1>0, <2>2, <2>3, Induction
  <2> QED
    BY <1>0, <2>4 DEF S
<1> HIDE DEF Is
<1>5. Is(CHOOSE r : Is(r))
  BY <1>3
<1>6. GlobMatch(path, pattern) = table[m][n]
  BY <1>1, <1>4, <1>5
<1>7. table[m][n] = Fits(path, pattern, m, n)
  BY <1>0 DEF table
<1> QED
  BY <1>6, <1>7 DEF Fits, GlobMeans, n, m

-----------------------------------------------------------------------------
(* The scan: the matches so far are those of the files before the next one. *)
Inputs ==
  /\ MaxResults \in Nat /\ MaxFiles \in Nat /\ MaxBytes \in Nat /\ MaxFileBytes \in Nat
  /\ \A m \in Manifests :
       Len(m) \in Nat /\ \A f \in 1..Len(m) :
         m[f].bytes \in 0..MaxFileBytes /\ Len(m[f].path) \in Nat /\ Len(m[f].lines) \in Nat
  /\ \A g \in Globs : Len(g) \in Nat

Matching(k) ==
  {m \in UNION {{f} \X Hits(f) : f \in 1..k} : GlobMatch(asked.files[m[1]].path, asked.glob)}

Reason == {"time_limit", "scan_limit", "result_limit"}

ScanType ==
  scan \in [next : Nat \ {0}, files : Nat, bytes : Nat, matches : Seq(Nat \X Nat), reasons : SUBSET Reason]

ScanInv ==
  /\ ScanType
  /\ scan.bytes <= MaxBytes /\ scan.files <= MaxFiles
  /\ phase \in {"scan", "found"} =>
       /\ asked \in SearchCalls
       /\ scan.next <= Len(asked.files) + 1
       /\ ToSet(scan.matches) \subseteq Matching(Len(asked.files))
       /\ Len(scan.matches) <= asked.limit
       /\ scan.reasons = {} => ToSet(scan.matches) = Matching(scan.next - 1)
       /\ phase = "scan" => scan.reasons = {} /\ Len(scan.matches) < asked.limit
       /\ phase = "found" /\ scan.reasons = {} => scan.next = Len(asked.files) + 1

LEMMA AskedSearch ==
  ASSUME Inputs, asked \in SearchCalls
  PROVE  /\ Len(asked.files) \in Nat /\ Len(asked.glob) \in Nat /\ asked.limit \in Nat \ {0}
         /\ \A f \in 1..Len(asked.files) :
              /\ asked.files[f].bytes \in 0..MaxFileBytes
              /\ Len(asked.files[f].path) \in Nat /\ Len(asked.files[f].lines) \in Nat
<1>1. PICK m \in Manifests, g \in Globs, n \in 1..MaxResults :
        asked = [files |-> m, glob |-> g, limit |-> n]
  BY DEF SearchCalls
<1>2. asked.files = m /\ asked.glob = g /\ asked.limit = n
  BY <1>1
<1> QED
  BY <1>2 DEF Inputs

LEMMA ScanInit ==
  ASSUME Inputs, Init
  PROVE  ScanInv
<1>1. scan = NoScan
  BY DEF Init
<1>2. scan.matches = <<>> /\ ToSet(scan.matches) = {} /\ Len(scan.matches) = 0 /\ scan.next = 1
  BY <1>1 DEF NoScan, ToSet
<1>3. Matching(0) = {}
  BY DEF Matching
<1>4. ScanType /\ scan.bytes <= MaxBytes /\ scan.files <= MaxFiles /\ scan.reasons = {}
  BY <1>1 DEF NoScan, ScanType, Inputs
<1>5. phase \in {"scan", "found"} => phase = "scan" /\ asked \in SearchCalls
  BY DEF Init
<1>6. Matching(scan.next - 1) = {}
  <2>1. scan.next - 1 = 0
    BY <1>2
  <2> QED
    BY <1>3, <2>1
<1>7. asked \in SearchCalls => Len(asked.files) \in Nat /\ asked.limit \in Nat \ {0}
  BY AskedSearch
<1>8. asked \in SearchCalls =>
        /\ scan.next <= Len(asked.files) + 1 /\ Len(scan.matches) < asked.limit
        /\ Len(scan.matches) <= asked.limit
  BY <1>2, <1>7
<1>9. ToSet(scan.matches) \subseteq Matching(Len(asked.files)) /\ ToSet(scan.matches) = {}
  BY <1>2
<1> QED
  BY <1>4, <1>5, <1>6, <1>8, <1>9 DEF ScanInv

LEMMA MatchingGrows ==
  ASSUME NEW f \in Nat \ {0}
  PROVE  Matching(f) = Matching(f - 1) \cup
           (IF GlobMatch(asked.files[f].path, asked.glob) THEN {f} \X Hits(f) ELSE {})
<1>1. 1..f = (1..f - 1) \cup {f}
  OBVIOUS
<1>2. \A m \in {f} \X Hits(f) : m[1] = f
  OBVIOUS
<1> QED
  BY <1>1, <1>2 DEF Matching

LEMMA MatchingUpTo ==
  ASSUME NEW j \in Nat, NEW k \in Nat, j <= k
  PROVE  Matching(j) \subseteq Matching(k)
<1>1. 1..j \subseteq 1..k
  OBVIOUS
<1> QED
  BY <1>1 DEF Matching

(* The first n matches of a file join those before.                         *)
After(before, f, n, lines) == before \o [i \in 1..n |-> <<f, lines[i]>>]

LEMMA Collecting ==
  ASSUME NEW f \in Nat, IsFiniteSet(Hits(f)), NEW n \in 0..Cardinality(Hits(f)),
         NEW lines \in Sorted([l \in Hits(f) |-> l]), Hits(f) \subseteq Nat,
         NEW before \in Seq(Nat \X Nat)
  PROVE  LET after == After(before, f, n, lines)
         IN /\ after \in Seq(Nat \X Nat) /\ Len(after) = Len(before) + n
            /\ ToSet(after) \subseteq ToSet(before) \cup ({f} \X Hits(f))
            /\ n = Cardinality(Hits(f)) => ToSet(after) = ToSet(before) \cup ({f} \X Hits(f))
<1> DEFINE N == Cardinality(Hits(f))
           more == [i \in 1..n |-> <<f, lines[i]>>]
           after == before \o more
<1>1. N \in Nat /\ n \in Nat /\ n <= N
  BY FS_CardinalityType
<1>2. /\ lines \in [1..N -> Hits(f)]
      /\ \A l \in Hits(f) : \E i \in 1..N : lines[i] = l
  BY DEF Sorted, ToSet
<1> HIDE DEF N
<1>3. \A i \in 1..n : lines[i] \in Hits(f) /\ <<f, lines[i]>> \in Nat \X Nat
  BY <1>1, <1>2
<1>4. more \in Seq(Nat \X Nat) /\ Len(more) = n /\ DOMAIN more = 1..n
  BY <1>1, <1>3
<1>5. \A i \in 1..n : more[i] = <<f, lines[i]>>
  OBVIOUS
<1> HIDE DEF more
<1>6. /\ after \in Seq(Nat \X Nat) /\ Len(after) = Len(before) + n /\ Len(before) \in Nat
      /\ DOMAIN after = 1..Len(before) + n /\ DOMAIN before = 1..Len(before)
      /\ \A i \in 1..Len(before) : after[i] = before[i]
      /\ \A i \in 1..n : after[i + Len(before)] = <<f, lines[i]>>
  <2> DEFINE E == Nat \X Nat
  <2>1. before \in Seq(E) /\ more \in Seq(E)
    BY <1>4
  <2> HIDE DEF E
  <2>2. after \in Seq(E) /\ Len(after) = Len(before) + n /\ Len(before) \in Nat
    <3>1. after \in Seq(E) /\ Len(after) = Len(before) + Len(more) /\ Len(before) \in Nat
      BY <2>1
    <3> QED
      BY <1>4, <3>1
  <2>3. DOMAIN after = 1..Len(before) + n /\ DOMAIN before = 1..Len(before)
    BY <2>1, <2>2
  <2>4. \A i \in 1..Len(before) : after[i] = before[i]
    BY <1>1, <1>4, <2>1, <2>2
  <2>5. \A i \in 1..n : after[i + Len(before)] = more[i]
    BY <1>1, <1>4, <2>1, <2>2
  <2> QED
    BY <1>5, <2>2, <2>3, <2>4, <2>5 DEF E
<1> HIDE DEF after
<1>7. ASSUME NEW x \in ToSet(after)
      PROVE  x \in ToSet(before) \cup ({f} \X Hits(f))
  <2>1. PICK i \in 1..Len(before) + n : x = after[i]
    BY <1>6, <1>7 DEF ToSet
  <2>2. CASE i <= Len(before)
    <3>1. i \in DOMAIN before /\ x = before[i]
      BY <1>6, <2>1, <2>2
    <3> QED
      BY <3>1 DEF ToSet
  <2>3. CASE i > Len(before)
    <3>1. i - Len(before) \in 1..n /\ (i - Len(before)) + Len(before) = i
      BY <1>1, <1>6, <2>3
    <3>2. x = <<f, lines[i - Len(before)]>> /\ lines[i - Len(before)] \in Hits(f)
      BY <1>3, <1>6, <2>1, <3>1
    <3> QED
      BY <3>2
  <2> QED
    BY <1>1, <1>6, <2>2, <2>3
<1>8. ASSUME n = N, NEW x \in ToSet(before) \cup ({f} \X Hits(f))
      PROVE  x \in ToSet(after)
  <2>1. CASE x \in ToSet(before)
    <3>1. PICK i \in 1..Len(before) : x = before[i]
      BY <1>6, <2>1 DEF ToSet
    <3>2. i \in DOMAIN after /\ after[i] = x
      BY <1>1, <1>6, <3>1
    <3> QED
      BY <3>2 DEF ToSet
  <2>2. CASE x \in {f} \X Hits(f)
    <3>1. PICK l \in Hits(f) : x = <<f, l>>
      BY <2>2
    <3>2. PICK i \in 1..N : lines[i] = l
      BY <1>2
    <3>3. i \in 1..n
      BY <1>8, <3>2
    <3>4. i + Len(before) \in 1..Len(before) + n
      BY <1>1, <1>6, <3>3
    <3>5. after[i + Len(before)] = x
      BY <1>6, <3>1, <3>2, <3>3
    <3> QED
      BY <1>6, <3>4, <3>5 DEF ToSet
  <2> QED
    BY <1>8, <2>1, <2>2
<1>9. n = N => ToSet(after) = ToSet(before) \cup ({f} \X Hits(f))
  BY <1>7, <1>8
<1> QED
  BY <1>6, <1>7, <1>9 DEF After, after, more, N

LEMMA SumIsNat ==
  ASSUME NEW a \in Nat, NEW b \in Nat
  PROVE  a + b \in Nat
OBVIOUS

LEMMA RoomIsLeft ==
  ASSUME NEW a \in Nat, NEW b \in Nat, a < b
  PROVE  b - a \in Nat \ {0}
OBVIOUS

LEMMA ScanCollects ==
  ASSUME Inputs, ScanInv, phase = "scan", scan.next <= Len(asked.files),
         GlobMatch(asked.files[scan.next].path, asked.glob),
         ~BudgetSpent(scan.files, scan.bytes), Collect(scan.next), asked' = asked
  PROVE  ScanInv'
<1> DEFINE f == scan.next
           count == Cardinality(Hits(f))
           room == asked.limit - Len(scan.matches)
<1>s. /\ scan.files \in Nat /\ scan.bytes \in Nat /\ scan.matches \in Seq(Nat \X Nat)
      /\ scan.next \in Nat \ {0} /\ asked \in SearchCalls
  BY DEF ScanInv, ScanType
<1>a. /\ Len(asked.files) \in Nat /\ asked.limit \in Nat
      /\ asked.files[f].bytes \in 0..MaxFileBytes /\ Len(asked.files[f].lines) \in Nat
  BY <1>s, AskedSearch
<1>0. /\ asked \in SearchCalls /\ Len(asked.files) \in Nat /\ f \in 1..Len(asked.files)
      /\ asked.limit \in Nat /\ asked.files[f].bytes \in 0..MaxFileBytes
      /\ Len(asked.files[f].lines) \in Nat
      /\ scan.files \in Nat /\ scan.bytes \in Nat /\ scan.matches \in Seq(Nat \X Nat)
      /\ Len(scan.matches) \in Nat /\ Len(scan.matches) < asked.limit
      /\ ToSet(scan.matches) = Matching(f - 1)
  BY <1>s, <1>a DEF ScanInv
<1>n. /\ scan.files \in Nat /\ scan.bytes \in Nat /\ f \in Nat \ {0} /\ f <= Len(asked.files)
      /\ Len(asked.files) \in Nat
  BY <1>0
<1>f. room \in Nat \ {0} /\ room = asked.limit - Len(scan.matches) /\ f \in Nat \ {0} /\ f <= Len(asked.files)
  <2>1. asked.limit \in Nat /\ Len(scan.matches) \in Nat /\ Len(scan.matches) < asked.limit
    BY <1>0
  <2>2. room \in Nat \ {0}
    BY <2>1, RoomIsLeft
  <2> QED
    BY <1>n, <2>2
<1>c. Collect(f) /\ GlobMatch(asked.files[f].path, asked.glob)
  OBVIOUS
<1> HIDE DEF f, room, count
<1>1. Hits(f) \subseteq Nat /\ IsFiniteSet(Hits(f)) /\ count \in Nat
  <2>1. Hits(f) \subseteq 1..Len(asked.files[f].lines)
    BY DEF Hits
  <2>2. IsFiniteSet(1..Len(asked.files[f].lines))
    <3>1. 1 \in Int /\ Len(asked.files[f].lines) \in Int
      BY <1>0
    <3> QED
      BY <3>1, FS_Interval
  <2>3. IsFiniteSet(Hits(f))
    BY <2>1, <2>2, FS_Subset
  <2> QED
    BY <2>1, <2>3, FS_CardinalityType DEF count
<1> DEFINE Read(n, reasons, lines) ==
             /\ scan' = [next |-> f + 1, files |-> scan.files + 1,
                         bytes |-> scan.bytes + asked.files[f].bytes,
                         matches |-> After(scan.matches, f, n, lines),
                         reasons |-> reasons]
           Then(n, reasons) ==
             \/ phase' = "found" /\ reasons # {} /\ n <= room
             \/ phase' = phase /\ reasons = {} /\ n = count /\ n < room
<1>2. \E n \in 0..count, reasons \in SUBSET Reason, lines \in Sorted([l \in Hits(f) |-> l]) :
        Read(n, reasons, lines) /\ Then(n, reasons)
  <2>1. \/ /\ count >= room /\ phase' = "found"
           /\ \E lines \in Sorted([l \in Hits(f) |-> l]) : Read(room, {"result_limit"}, lines)
        \/ /\ count < room /\ phase' = phase
           /\ \E lines \in Sorted([l \in Hits(f) |-> l]) : Read(count, {}, lines)
        \/ \E n \in 0..count :
             /\ n < room /\ phase' = "found"
             /\ \E lines \in Sorted([l \in Hits(f) |-> l]) : Read(n, {"time_limit"}, lines)
    BY <1>c DEF Collect, After, room, count
  <2>2. {"result_limit"} \in SUBSET Reason /\ {"time_limit"} \in SUBSET Reason /\ {} \in SUBSET Reason
        /\ {"result_limit"} # {} /\ {"time_limit"} # {}
    BY DEF Reason
  <2> HIDE DEF Read
  <2>3. ASSUME count >= room, phase' = "found"
        PROVE  room \in 0..count /\ Then(room, {"result_limit"})
    BY <1>1, <1>f, <2>3
  <2>4. ASSUME count < room, phase' = phase
        PROVE  count \in 0..count /\ Then(count, {})
    BY <1>1, <2>4
  <2>5. ASSUME NEW n \in 0..count, n < room, phase' = "found"
        PROVE  Then(n, {"time_limit"})
    BY <1>1, <1>f, <2>5
  <2> HIDE DEF Then
  <2> QED
    BY <2>1, <2>2, <2>3, <2>4, <2>5, SMTT(30)
<1>r. PICK n \in 0..count, reasons \in SUBSET Reason, lines \in Sorted([l \in Hits(f) |-> l]) :
        Read(n, reasons, lines) /\ Then(n, reasons)
  BY <1>2
<1> DEFINE after == After(scan.matches, f, n, lines)
<1>3. /\ after \in Seq(Nat \X Nat) /\ Len(after) = Len(scan.matches) + n
      /\ ToSet(after) \subseteq ToSet(scan.matches) \cup ({f} \X Hits(f))
      /\ n = count => ToSet(after) = ToSet(scan.matches) \cup ({f} \X Hits(f))
  <2>1. n \in 0..Cardinality(Hits(f)) /\ f \in Nat
    BY <1>f DEF count
  <2> QED
    <3>1. scan.matches \in Seq(Nat \X Nat) /\ IsFiniteSet(Hits(f)) /\ Hits(f) \subseteq Nat
      BY <1>0, <1>1
    <3> HIDE DEF after
    <3> QED
      BY <2>1, <3>1, Collecting DEF count, after
<1>4. Matching(f) = Matching(f - 1) \cup ({f} \X Hits(f))
  BY <1>c, <1>f, MatchingGrows
<1>5. Matching(f) \subseteq Matching(Len(asked.files))
  BY <1>0, <1>f, MatchingUpTo
<1>6. \A k : Matching(k)' = Matching(k)
  BY DEF Matching, Hits
<1>7. /\ scan'.next = f + 1 /\ scan'.files = scan.files + 1
      /\ scan'.bytes = scan.bytes + asked.files[f].bytes
      /\ scan'.matches = after /\ scan'.reasons = reasons
  BY <1>r
<1>8. ScanType'
  <2>1. f + 1 \in Nat \ {0} /\ scan.files + 1 \in Nat /\ scan.bytes + asked.files[f].bytes \in Nat
    <3>1. asked.files[f].bytes \in Nat
      BY <1>0
    <3>2. f + 1 \in Nat \ {0} /\ scan.files + 1 \in Nat
      BY <1>n
    <3> QED
      BY <1>n, <3>1, <3>2, SumIsNat
  <2> HIDE DEF after
  <2> QED
    BY <1>r, <1>3, <2>1 DEF ScanType, after
<1>9. scan'.bytes <= MaxBytes /\ scan'.files <= MaxFiles
  <2>1. /\ scan.files < MaxFiles /\ scan.bytes + MaxFileBytes <= MaxBytes
        /\ MaxFiles \in Nat /\ MaxFileBytes \in Nat /\ MaxBytes \in Nat
    <3>1. MaxFiles \in Nat /\ MaxFileBytes \in Nat /\ MaxBytes \in Nat
      BY DEF Inputs
    <3>2. ~(scan.files >= MaxFiles) /\ ~(scan.bytes + MaxFileBytes > MaxBytes)
      BY DEF BudgetSpent
    <3> QED
      BY <1>n, <3>1, <3>2
  <2>2. asked.files[f].bytes \in Nat /\ asked.files[f].bytes <= MaxFileBytes
    BY <1>0, <2>1
  <2>3. scan.files + 1 <= MaxFiles
    BY <1>n, <2>1
  <2>4. scan.bytes + asked.files[f].bytes <= MaxBytes
    BY <1>n, <2>1, <2>2
  <2> QED
    BY <1>7, <2>3, <2>4
<1> HIDE DEF after
<1>10. ToSet(scan.matches)' = ToSet(after)
  BY <1>7 DEF ToSet
<1>11. Len(scan'.matches) <= asked.limit /\ (phase' = phase => Len(scan'.matches) < asked.limit)
  <2>1. n \in Nat /\ n <= room /\ (phase' = phase => n < room)
    <3>1. n \in Nat /\ Then(n, reasons)
      BY <1>1, <1>r
    <3>2. n < room => n <= room
      BY <1>f, <3>1
    <3>3. phase' = phase => phase' # "found"
      OBVIOUS
    <3> QED
      BY <3>1, <3>2, <3>3
  <2>2. /\ Len(scan'.matches) = Len(scan.matches) + n /\ room = asked.limit - Len(scan.matches)
        /\ Len(scan.matches) \in Nat /\ asked.limit \in Nat
    BY <1>0, <1>f, <1>3, <1>7
  <2> QED
    BY <2>1, <2>2
<1>12. scan'.next - 1 = f /\ scan'.next <= Len(asked.files) + 1
  <2>1. (f + 1) - 1 = f /\ f + 1 <= Len(asked.files) + 1
    BY <1>n
  <2> QED
    BY <1>7, <2>1, Zenon
<1>13. ToSet(after) \subseteq Matching(Len(asked.files)) /\ (reasons = {} => ToSet(after) = Matching(f))
  BY <1>0, <1>r, <1>3, <1>4, <1>5
<1>14. Matching(Len(asked.files))' = Matching(Len(asked.files))
       /\ Matching(scan.next - 1)' = Matching(f)
  BY <1>6, <1>12 DEF Matching, Hits
<1> QED
  BY <1>0, <1>r, <1>7, <1>8, <1>9, <1>10, <1>11, <1>12, <1>13, <1>14 DEF ScanInv

LEMMA ScanNext ==
  ASSUME Inputs, ScanInv, [Next]_queryVars
  PROVE  ScanInv'
<1>m. asked' = asked => \A k : Matching(k)' = Matching(k)
  BY DEF Matching, Hits
<1>1. CASE ScanFile
  <2>1. /\ phase = "scan" /\ asked' = asked /\ scan.next <= Len(asked.files)
        /\ ScanType /\ scan.next \in Nat /\ asked \in SearchCalls /\ Len(asked.files) \in Nat
    BY <1>1, AskedSearch DEF ScanFile, ScanInv, ScanType
  <2>2. ASSUME NEW reason \in Reason, Stop(reason)
        PROVE  ScanInv'
    <3>1. /\ scan'.next = scan.next /\ scan'.files = scan.files /\ scan'.bytes = scan.bytes
          /\ scan'.matches = scan.matches /\ scan'.reasons = {reason} /\ ScanType'
          /\ phase' = "found"
      BY <2>1, <2>2 DEF Stop, ScanType
    <3>2. ToSet(scan.matches)' = ToSet(scan.matches) /\ {reason} # {}
      BY <3>1 DEF ToSet
    <3>3. Matching(Len(asked.files))' = Matching(Len(asked.files))
      BY <2>1 DEF Matching, Hits
    <3> QED
      BY <2>1, <3>1, <3>2, <3>3 DEF ScanInv
  <2>3. CASE /\ ~GlobMatch(asked.files[scan.next].path, asked.glob)
             /\ scan' = [scan EXCEPT !.next = scan.next + 1] /\ phase' = phase
    <3>1. /\ scan'.next = scan.next + 1 /\ scan'.files = scan.files /\ scan'.bytes = scan.bytes
          /\ scan'.matches = scan.matches /\ scan'.reasons = scan.reasons /\ ScanType'
      <4>1. scan.next + 1 \in Nat \ {0}
        BY <2>1 DEF ScanType
      <4> DEFINE next == scan.next + 1
      <4>2. next \in Nat \ {0} /\ scan' = [scan EXCEPT !.next = next]
        BY <2>3, <4>1
      <4> HIDE DEF next
      <4>3. /\ scan'.next = next /\ scan'.files = scan.files /\ scan'.bytes = scan.bytes
            /\ scan'.matches = scan.matches /\ scan'.reasons = scan.reasons /\ ScanType'
        BY <2>1, <4>2 DEF ScanType
      <4> QED
        BY <4>3 DEF next
    <3>2. ToSet(scan.matches)' = ToSet(scan.matches)
      BY <3>1 DEF ToSet
    <3>3. Matching(Len(asked.files))' = Matching(Len(asked.files))
          /\ Matching(scan.next - 1)' = Matching(scan.next)
      <4>1. scan'.next - 1 = scan.next
        BY <2>1, <3>1
      <4> QED
        BY <2>1, <4>1 DEF Matching, Hits
    <3>4. Matching(scan.next) = Matching(scan.next - 1)
      <4>1. scan.next \in Nat \ {0}
        BY <2>1 DEF ScanType
      <4> QED
        BY <2>3, <4>1, MatchingGrows
    <3>5. scan'.next <= Len(asked.files) + 1
      BY <2>1, <3>1
    <3> QED
      BY <2>1, <2>3, <3>1, <3>2, <3>3, <3>4, <3>5 DEF ScanInv
  <2>4. CASE /\ GlobMatch(asked.files[scan.next].path, asked.glob)
             /\ ~BudgetSpent(scan.files, scan.bytes) /\ Collect(scan.next)
    BY <2>1, <2>4, ScanCollects
  <2>5. "time_limit" \in Reason /\ "scan_limit" \in Reason
    BY DEF Reason
  <2> QED
    BY <1>1, <2>2, <2>3, <2>4, <2>5 DEF ScanFile
<1>2. CASE ScanEnds
  <2>1. /\ phase = "scan" /\ phase' = "found" /\ asked' = asked /\ scan' = scan
        /\ scan.next > Len(asked.files)
    BY <1>2 DEF ScanEnds
  <2>2. scan.next = Len(asked.files) + 1
    <3>1. scan.next \in Nat /\ Len(asked.files) \in Nat /\ scan.next <= Len(asked.files) + 1
      BY <2>1, AskedSearch DEF ScanInv, ScanType
    <3> QED
      BY <2>1, <3>1
  <2> QED
    BY <2>1, <2>2 DEF ScanInv, ScanType, Matching, Hits
<1>3. CASE Visit \/ Exhausted \/ Back
  <2>1. scan' = scan /\ phase \in {"walk", "back"} /\ phase' \in {"walk", "back", "path", "none"}
    BY <1>3 DEF Visit, Exhausted, Back
  <2> QED
    BY <2>1 DEF ScanInv, ScanType
<1>4. CASE UNCHANGED queryVars
  BY <1>4 DEF queryVars, ScanInv, ScanType, Matching, Hits
<1> QED
  BY <1>1, <1>2, <1>3, <1>4 DEF Next

LEMMA ScanHonest ==
  ASSUME Inputs, ScanInv
  PROVE  SearchIsHonest
<1>1. ASSUME phase = "found"
      PROVE  LET all == {m \in UNION {{f} \X Hits(f) : f \in 1..Len(asked.files)} :
                           GlobMeans(asked.files[m[1]].path, asked.glob)} IN
             /\ ToSet(scan.matches) \subseteq all /\ Len(scan.matches) <= asked.limit
             /\ scan.reasons = {} => ToSet(scan.matches) = all
  <2> DEFINE n == Len(asked.files)
             all == {m \in UNION {{f} \X Hits(f) : f \in 1..n} :
                       GlobMeans(asked.files[m[1]].path, asked.glob)}
  <2>1. n \in Nat /\ Len(asked.glob) \in Nat /\ \A f \in 1..n : Len(asked.files[f].path) \in Nat
    BY <1>1, AskedSearch DEF ScanInv
  <2>2. \A f \in 1..n : GlobMatch(asked.files[f].path, asked.glob) = GlobMeans(asked.files[f].path, asked.glob)
    BY <2>1, GlobIs
  <2>3. \A m \in UNION {{f} \X Hits(f) : f \in 1..n} : m[1] \in 1..n
    OBVIOUS
  <2>4. all = Matching(n)
    BY <2>2, <2>3 DEF Matching
  <2>5. scan.reasons = {} => Matching(scan.next - 1) = Matching(n)
    <3>1. scan.reasons = {} => scan.next = n + 1
      BY <1>1 DEF ScanInv
    <3>2. scan.next = n + 1 => scan.next - 1 = n
      BY <2>1
    <3> QED
      BY <3>1, <3>2
  <2> HIDE DEF all
  <2>6. /\ ToSet(scan.matches) \subseteq all /\ Len(scan.matches) <= asked.limit
        /\ scan.reasons = {} => ToSet(scan.matches) = all
    BY <1>1, <2>4, <2>5 DEF ScanInv
  <2> QED
    BY <2>6 DEF all
<1> QED
  BY <1>1 DEF ScanInv, SearchIsHonest
=============================================================================
