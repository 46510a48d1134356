---------------------------- MODULE ReconcileScan ----------------------------
(***************************************************************************)
(* How the group reconciler walks the table of all groups                  *)
(* (lambdas/group_worker/reconcile.py, run): each run takes a lease on the *)
(* one state row, reads a page of the index after the stored cursor,       *)
(* processes it as far as its time goes and stores where it got to.  What  *)
(* it does to one group is in GroupBuild.                                  *)
(*                                                                         *)
(* Ticks of the clock are five minutes: the schedule.  A run is killed     *)
(* after Lifetime ticks, which its lease outlasts.  Groups come and go.    *)
(***************************************************************************)
EXTENDS Integers, FiniteSets

CONSTANTS
  Groups,     \* keys of the index, in its order: 1 .. n
  Runs,       \* invocations that may be alive at once
  PageSize,   \* PAGE_SIZE
  Lease,      \* ticks: LEASE_SECONDS
  Lifetime,   \* ticks a run may live
  MaxKills,   \* bound: runs that are killed, get nowhere, or whose last write fails
  None        \* no run

VARIABLES
  table,      \* the groups there are
  state,      \* the state row: cursor (0: the start), holder, ticks left of its lease
  run,        \* invocation -> what it is doing
  changes,    \* whether a group may still come or go
  kills,      \* kills so far
  visited     \* history: the group processed last

scanVars == <<table, state, run, changes, kills, visited>>

Off == [pc |-> "off", seen |-> [cursor |-> 0, holder |-> None], page |-> {},
        more |-> FALSE, at |-> 0, age |-> 0]

Init ==
  /\ table \in SUBSET Groups
  /\ state = [cursor |-> 0, holder |-> None, left |-> 0]
  /\ run = [r \in Runs |-> Off]
  /\ changes \in BOOLEAN /\ kills = 0 /\ visited = 0

(* A run reads the state row; a lease that is held makes it give up. *)
Read(r) ==
  /\ run[r].pc = "off" /\ state.left = 0
  /\ run' = [run EXCEPT ![r] = [Off EXCEPT !.pc = "claim", !.seen = [cursor |-> state.cursor, holder |-> state.holder]]]
  /\ UNCHANGED <<table, state, changes, kills, visited>>

Unchanged(r) == state.holder = run[r].seen.holder /\ state.cursor = run[r].seen.cursor

Claim(r) ==
  /\ run[r].pc = "claim"
  \* the lease counts from when the run began
  /\ IF Unchanged(r)
     THEN /\ state' = [state EXCEPT !.holder = r, !.left = Lease - run[r].age]
          /\ run' = [run EXCEPT ![r].pc = "query", ![r].at = run[r].seen.cursor]
     ELSE /\ run' = [run EXCEPT ![r] = Off]
          /\ UNCHANGED state
  /\ UNCHANGED <<table, changes, kills, visited>>

After(n) == {g \in table : g > n}

Query(r) ==
  /\ run[r].pc = "query"
  /\ LET page == {g \in After(run[r].at) : Cardinality({h \in After(run[r].at) : h <= g}) <= PageSize}
     IN run' = [run EXCEPT ![r].pc = "work", ![r].page = page,
                           ![r].more = (After(run[r].at) # page)]
  /\ UNCHANGED <<table, state, changes, kills, visited>>

Process(r) ==
  /\ run[r].pc = "work" /\ run[r].page # {}
  /\ LET g == CHOOSE x \in run[r].page : \A y \in run[r].page : x <= y
     IN /\ run' = [run EXCEPT ![r].page = @ \ {g}, ![r].at = g]
        /\ visited' = g
  /\ UNCHANGED <<table, state, changes, kills>>

(* mutant: a finished page always starts the table over *)
NextCursorStart(r) == 0

(* The last key processed, or the start when the page was the last. *)
NextCursor(r) == IF run[r].page = {} /\ ~run[r].more THEN 0 ELSE run[r].at

(* The end of the page, or of the run's time once it processed something.
   Only the holder stores its cursor and gives the lease back. *)
Save(r) ==
  /\ run[r].pc = "work"
  /\ run[r].page = {} \/ run[r].at # run[r].seen.cursor
  /\ state' = IF state.holder = r
              THEN [cursor |-> NextCursor(r), holder |-> None, left |-> 0] ELSE state
  /\ run' = [run EXCEPT ![r] = Off]
  /\ UNCHANGED <<table, changes, kills, visited>>

(* The query fails, or the run has no time left for its first group: the
   lease is given back and the cursor stays. *)
Retreat(r) ==
  /\ run[r].pc \in {"query", "work"} /\ run[r].at = run[r].seen.cursor
  /\ kills < MaxKills /\ kills' = kills + 1
  /\ state' = IF state.holder = r
              THEN [cursor |-> run[r].at, holder |-> None, left |-> 0] ELSE state
  /\ run' = [run EXCEPT ![r] = Off]
  /\ UNCHANGED <<table, changes, visited>>

(* A run dies, or its last write fails; its lease stays until it expires. *)
Kill(r) ==
  /\ run[r].pc # "off" /\ kills < MaxKills
  /\ kills' = kills + 1
  /\ run' = [run EXCEPT ![r] = Off]
  /\ UNCHANGED <<table, state, changes, visited>>

(* Time passes; no run outlives its Lambda. *)
Tick ==
  /\ \A r \in Runs : run[r].pc # "off" => run[r].age < Lifetime
  /\ state.left > 0 \/ \E r \in Runs : run[r].pc # "off"
  /\ state' = [state EXCEPT !.left = IF @ > 0 THEN @ - 1 ELSE 0]
  /\ run' = [r \in Runs |-> IF run[r].pc = "off" THEN run[r] ELSE [run[r] EXCEPT !.age = @ + 1]]
  /\ UNCHANGED <<table, changes, kills, visited>>

(* A group is created or its row removed from the index. *)
Change ==
  /\ changes /\ changes' = FALSE
  /\ \E g \in Groups : table' = IF g \in table THEN table \ {g} ELSE table \cup {g}
  /\ UNCHANGED <<state, run, kills, visited>>

Step(r) == Read(r) \/ Claim(r) \/ Query(r) \/ Process(r) \/ Save(r)

Next == Tick \/ Change \/ \E r \in Runs : Step(r) \/ Retreat(r) \/ Kill(r)

Fairness == WF_scanVars(Tick) /\ \A r \in Runs : WF_scanVars(Step(r))

Spec == Init /\ [][Next]_scanVars /\ Fairness

-----------------------------------------------------------------------------
(* However runs overlap, die or run out of time and whichever groups come
   and go, the walk goes on: every group that stays is processed again and
   again (reconcile.py:284-360: "Overlapping EventBridge deliveries must
   not rewind each other's cursor"). *)
EveryGroupIsVisited ==
  \A g \in Groups : <>[](g \in table) => []<>(visited = g)
=============================================================================
