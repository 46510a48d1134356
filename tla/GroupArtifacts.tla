---------------------------- MODULE GroupArtifacts ----------------------------
(****************************************************************************)
(* The immutable objects of a group's versions: the worker uploads them and *)
(* activates the version, the reconciler's sweep deletes obsolete ones      *)
(* (lambdas/group_worker/garbage.py), and a client lists a version's graph  *)
(* page by page (lambdas/shared/python/group_query.py).                     *)
(*                                                                          *)
(* Who may build, edit and activate is in GroupBuild: here META is what the *)
(* sweep and a query compare, and an execution of a build may be killed and *)
(* tried again at any later time, while META still waits for the build.     *)
(* Ages count in units of the sweep's age floor over Floor.                 *)
(****************************************************************************)
EXTENDS Integers, Sequences, FiniteSets, FiniteSetsExt

CONSTANTS
  Version,     \* build ids, which are also the names of the versions; naturals
  Part,        \* objects of a version in the order of keys and of uploads
  Floor,       \* age an object must have to be deleted
  PageSize,    \* objects a sweep lists
  Size(_),     \* nodes in the graph of a version
  MaxLimit,    \* nodes a client asks for
  MaxFaults,   \* bound: sweeps killed or refused deletions
  None

VARIABLES
  stored,     \* stored object -> its age
  meta,       \* what META says of builds and versions
  execution,  \* the running execution of a build, or None
  sweep,      \* the sweep at work
  cursor,     \* SYSTEM#GROUP_GC: the key the next sweep starts after
  listing,    \* a client that lists the nodes of the group
  faultsLeft

artifactVars == <<stored, meta, execution, sweep, cursor, listing, faultsLeft>>

Object == Version \X Part
Before(a, b) == a[1] < b[1] \/ (a[1] = b[1] /\ a[2] < b[2])

NoSweep == [pc |-> "idle", keys |-> {}, next |-> None]
NoListing == [pc |-> "idle", version |-> None, got |-> <<>>]

Init ==
  /\ stored = <<>>
  /\ meta = [active |-> None, build |-> None, status |-> "DRAFT"]
  /\ execution = None
  /\ sweep = NoSweep /\ cursor = None
  /\ \/ listing = NoListing
     \/ listing = [NoListing EXCEPT !.pc = "absent"]
  /\ faultsLeft \in 0..MaxFaults

-----------------------------------------------------------------------------
(* Builds.  A version is reserved once.                                     *)
Reserve(v) ==
  /\ meta.status \notin {"BUILDING", "DELETED"}
  /\ \A w \in Version : w >= v => w # meta.build /\ w # meta.active
  /\ meta' = [meta EXCEPT !.build = v, !.status = "BUILDING"]
  /\ UNCHANGED <<stored, execution, sweep, cursor, listing, faultsLeft>>

Execute ==
  /\ execution = None /\ meta.status = "BUILDING"
  /\ execution' = [version |-> meta.build, put |-> {}]
  /\ UNCHANGED <<stored, meta, sweep, cursor, listing, faultsLeft>>

(* _immutable_put: what is there is kept.                                   *)
Upload ==
  /\ execution # None
  /\ \E p \in Part :
       /\ p \notin execution.put /\ \A q \in Part : q < p => q \in execution.put
       /\ stored' = [k \in DOMAIN stored \cup {<<execution.version, p>>} |->
                       IF k \in DOMAIN stored THEN stored[k] ELSE 0]
       /\ execution' = [execution EXCEPT !.put = @ \cup {p}]
  /\ UNCHANGED <<meta, sweep, cursor, listing, faultsLeft>>

(* _finish, if the build is still the one META waits for.                   *)
Activate ==
  /\ execution # None /\ execution.put = Part
  /\ meta' = IF meta.status = "BUILDING" /\ meta.build = execution.version
             THEN [meta EXCEPT !.active = execution.version, !.status = "READY"]
             ELSE meta
  /\ execution' = None
  /\ UNCHANGED <<stored, sweep, cursor, listing, faultsLeft>>

KillExecution ==
  /\ execution # None /\ execution' = None
  /\ UNCHANGED <<stored, meta, sweep, cursor, listing, faultsLeft>>

(* The build fails or an edit makes the group stale, which a query does not *)
(* tell apart; or the group is deleted.                                     *)
Turn(status) ==
  /\ meta.status # "DELETED" /\ meta.status # status /\ meta.build # None
  /\ meta' = [meta EXCEPT !.status = status]
  /\ UNCHANGED <<stored, execution, sweep, cursor, listing, faultsLeft>>

Age ==
  /\ \E k \in DOMAIN stored : stored[k] < Floor
  /\ stored' = [k \in DOMAIN stored |-> Min({stored[k] + 1, Floor})]
  /\ UNCHANGED <<meta, execution, sweep, cursor, listing, faultsLeft>>

-----------------------------------------------------------------------------
(* The sweep: a page of the listing, META, the deletion, the cursor.  The *)
(* keys it holds are the old ones of the page, then those it will delete. *)

LastOf(page) == CHOOSE k \in page : \A j \in page : ~Before(k, j)

(* mutant: the cursor stays at the end of the listing.                      *)
NextCursorStays(page, more) == IF page # {} THEN LastOf(page) ELSE cursor
NextCursor(page, more) == IF more /\ page # {} THEN LastOf(page) ELSE None

List ==
  /\ sweep.pc = "idle"
  /\ LET after == {k \in DOMAIN stored : cursor = None \/ Before(cursor, k)} IN
     \E page \in SUBSET after :
       /\ Cardinality(page) = Min({PageSize, Cardinality(after)})
       /\ \A k \in page, j \in after \ page : Before(k, j)
       /\ sweep' = [pc |-> "listed", keys |-> {k \in page : stored[k] = Floor},
                    next |-> NextCursor(page, page # after)]
  /\ UNCHANGED <<stored, meta, execution, cursor, listing, faultsLeft>>

(* mutant: the version in flight is not kept.                               *)
PinsActive(m) == IF m.status = "DELETED" THEN {} ELSE {m.active}
Pins(m) == IF m.status = "DELETED" THEN {} ELSE {m.active, m.build}

ReadMeta ==
  /\ sweep.pc = "listed"
  /\ sweep' = [sweep EXCEPT !.pc = "read",
                            !.keys = {k \in @ : k[1] \notin Pins(meta)}]
  /\ UNCHANGED <<stored, meta, execution, cursor, listing, faultsLeft>>

(* All of them, and the cursor moves on; or S3 reports errors for some, and *)
(* the cursor stays.                                                        *)
Delete ==
  /\ sweep.pc = "read"
  /\ stored' = [k \in DOMAIN stored \ sweep.keys |-> stored[k]]
  /\ sweep' = [sweep EXCEPT !.pc = "save", !.keys = {}]
  /\ UNCHANGED <<meta, execution, cursor, listing, faultsLeft>>

DeleteFails ==
  /\ sweep.pc = "read" /\ sweep.keys # {} /\ faultsLeft > 0
  /\ faultsLeft' = faultsLeft - 1
  /\ \E kept \in SUBSET sweep.keys \ {{}} :
       stored' = [k \in DOMAIN stored \ (sweep.keys \ kept) |-> stored[k]]
  /\ sweep' = NoSweep
  /\ UNCHANGED <<meta, execution, cursor, listing>>

SaveCursor ==
  /\ sweep.pc = "save"
  /\ cursor' = sweep.next
  /\ sweep' = NoSweep
  /\ UNCHANGED <<stored, meta, execution, listing, faultsLeft>>

KillSweep ==
  /\ sweep.pc # "idle" /\ faultsLeft > 0
  /\ faultsLeft' = faultsLeft - 1
  /\ sweep' = NoSweep
  /\ UNCHANGED <<stored, meta, execution, cursor, listing>>

-----------------------------------------------------------------------------
(* A listing: get_graph_page again and again, from the offset and with the *)
(* version of the answer before.                                           *)
Served(version) == meta.status = "READY" /\ meta.active = version
GiveUp == listing' = NoListing

PinnedFirst(pin) == meta.status = "READY"   \* mutant: later pages are not held to it
Pinned(pin) == meta.status = "READY" /\ (pin # None => pin = meta.active)

Ask ==
  /\ listing.pc \in {"idle", "page"}
  /\ listing.pc = "page" \/ meta.status = "READY"
  /\ IF Pinned(listing.version)
     THEN listing' = [listing EXCEPT !.pc = "asked", !.version = meta.active]
     ELSE GiveUp
  /\ UNCHANGED <<stored, meta, execution, sweep, cursor, faultsLeft>>

(* load_manifest and load_graph.  A process keeps the graphs it indexed  *)
(* last, which are copies of what it would read again.                   *)
Load ==
  /\ listing.pc = "asked"
  /\ IF \A p \in Part : <<listing.version, p>> \in DOMAIN stored
     THEN listing' = [listing EXCEPT !.pc = "loaded"]
     ELSE GiveUp
  /\ UNCHANGED <<stored, meta, execution, sweep, cursor, faultsLeft>>

(* A page is halved, and halved again, until it fits into the answer; one   *)
(* node is answered whatever its size.                                      *)
Halvings(n) == {c \in 0..n : (n > 0 => c > 0) /\ \E k \in 0..n : c = n \div 2^k}

(* The answer, after the access check and the comparison with META.         *)
Answer ==
  /\ listing.pc = "loaded"
  /\ LET v == listing.version
         offset == Len(listing.got) IN
     \/ /\ Served(v)
        /\ \E limit \in 1..MaxLimit :
           \E count \in Halvings(Min({offset + limit, Size(v)}) - offset) :
             listing' = [listing EXCEPT
               !.pc = IF offset + count < Size(v) THEN "page" ELSE "done",
               !.got = @ \o [i \in 1..count |-> <<v, offset + i>>]]
     \/ ~Served(v) /\ GiveUp
  /\ UNCHANGED <<stored, meta, execution, sweep, cursor, faultsLeft>>

Close ==
  /\ listing.pc = "done" /\ GiveUp
  /\ UNCHANGED <<stored, meta, execution, sweep, cursor, faultsLeft>>

Sweep == List \/ ReadMeta \/ Delete \/ SaveCursor

Next ==
  \/ \E v \in Version : Reserve(v)
  \/ Execute \/ Upload \/ Activate \/ KillExecution
  \/ \E status \in {"STALE", "DELETED"} : Turn(status)
  \/ Age \/ Sweep \/ DeleteFails \/ KillSweep
  \/ Ask \/ Load \/ Answer \/ Close

Spec == Init /\ [][Next]_artifactVars /\ WF_artifactVars(Sweep) /\ WF_artifactVars(Age)

-----------------------------------------------------------------------------
(* The sweep never takes an object of the version META serves, however late *)
(* the build that made it was tried again (sweep, _immutable_put).          *)
ActiveIsWhole ==
  meta.status # "DELETED" /\ meta.active # None =>
    \A p \in Part : <<meta.active, p>> \in DOMAIN stored

(* "subsequent pages must pin the first page's version": a listing that  *)
(* ends is every node of one version, once and in order, whatever is     *)
(* activated, collected or cut short in between (get_graph_page).        *)
ListingIsOneVersion ==
  listing.pc = "done" =>
    listing.got = [i \in 1..Size(listing.version) |-> <<listing.version, i>>]

Obsolete(v) ==
  meta.status = "DELETED" \/ (meta.active # v /\ meta.build # v)

(* "Reclaim obsolete immutable artifacts": again and again nothing is left  *)
(* that no pointer names, though deletions fail and sweeps die now and then *)
(* (sweep).                                                                 *)
ObsoleteIsCollected ==
  []<>(\A k \in DOMAIN stored : ~Obsolete(k[1]))

=============================================================================
