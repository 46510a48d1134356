------------------------- MODULE GroupArtifactsProofs -------------------------
(***************************************************************************)
(* The sweep and the listing, for any versions, objects and page sizes.    *)
(***************************************************************************)
EXTENDS GroupArtifacts, SequenceTheorems, TLAPS

Statuses == {"DRAFT", "BUILDING", "READY", "STALE", "DELETED"}

-----------------------------------------------------------------------------
(* The sweep.  A build is reserved after every build before it, and META    *)
(* can only come to serve the one it waits for.                             *)
Reserved(v) == v \in Version /\ meta.build \in Version /\ v <= meta.build

MetaInv ==
  /\ meta \in [active : Version \cup {None}, build : Version \cup {None}, status : Statuses]
  /\ meta.active # None => Reserved(meta.active)
  /\ meta.status = "BUILDING" => meta.build # None
  /\ meta.status = "READY" => meta.active # None

(* Everything that is stored or about to be deleted was reserved; what the  *)
(* sweep will delete is of neither version META names,                      *)
SweepInv ==
  /\ \A k \in DOMAIN stored : k \in Object /\ Reserved(k[1])
  /\ sweep = [pc |-> sweep.pc, keys |-> sweep.keys, next |-> sweep.next]
  /\ \A k \in sweep.keys : k \in Object /\ Reserved(k[1])
  /\ sweep.pc = "read" /\ meta.status # "DELETED" =>
       \A k \in sweep.keys : k[1] # meta.active /\ k[1] # meta.build

(* and so what a build has uploaded stays as long as META waits for it.     *)
BuildInv ==
  execution # None =>
    /\ execution \in [version : Version, put : SUBSET Part] /\ Reserved(execution.version)
    /\ execution.version = meta.build /\ meta.status # "DELETED" =>
         \A p \in execution.put : <<meta.build, p>> \in DOMAIN stored

ArtifactInv == MetaInv /\ SweepInv /\ BuildInv /\ ActiveIsWhole

(* Only what no version of META has is taken from the store.                *)
LEMMA Taking ==
  ASSUME ArtifactInv, sweep.pc = "read", NEW gone \in SUBSET sweep.keys,
         stored' = [k \in DOMAIN stored \ gone |-> stored[k]], UNCHANGED <<meta, execution>>,
         sweep' = [pc |-> sweep'.pc, keys |-> {}, next |-> sweep'.next]
  PROVE  ArtifactInv'
<1>1. DOMAIN stored' = DOMAIN stored \ gone
  OBVIOUS
<1>2. MetaInv' /\ SweepInv'
  BY <1>1 DEF ArtifactInv, MetaInv, SweepInv, Reserved
<1>3. ASSUME NEW v \in {meta.active, meta.build}, NEW p, meta.status # "DELETED",
             <<v, p>> \in DOMAIN stored
      PROVE  <<v, p>> \in DOMAIN stored'
  <2>1. <<v, p>> \notin sweep.keys
    BY <1>3 DEF ArtifactInv, SweepInv
  <2> QED
    BY <1>1, <1>3, <2>1
<1>4. BuildInv' /\ ActiveIsWhole'
  BY <1>3 DEF ArtifactInv, BuildInv, ActiveIsWhole, Reserved
<1> QED
  BY <1>2, <1>4 DEF ArtifactInv

LEMMA ArtifactInit ==
  ASSUME Init
  PROVE  ArtifactInv
BY DEF Init, ArtifactInv, MetaInv, SweepInv, BuildInv, ActiveIsWhole, NoSweep, Statuses

LEMMA ArtifactNext ==
  ASSUME Version \subseteq Nat, None \notin Version, ArtifactInv, [Next]_artifactVars
  PROVE  ArtifactInv'
<1> USE DEF ArtifactInv
<1>1. ASSUME NEW v \in Version, Reserve(v)
      PROVE  ArtifactInv'
  <2>1. /\ meta' = [meta EXCEPT !.build = v, !.status = "BUILDING"]
        /\ UNCHANGED <<stored, execution, sweep>>
        /\ meta.build # None => meta.build < v
        /\ meta.active # None => meta.active < v
        /\ meta.status # "DELETED"
    BY <1>1 DEF Reserve, MetaInv
  <2>2. /\ meta'.build = v /\ meta'.active = meta.active /\ meta'.status = "BUILDING"
        /\ meta' \in [active : Version \cup {None}, build : Version \cup {None}, status : Statuses]
    BY <2>1 DEF MetaInv, Statuses
  <2>3. ASSUME NEW w, Reserved(w)
        PROVE  w < v /\ Reserved(w)'
    BY <2>1, <2>2, <2>3 DEF Reserved
  <2>4. MetaInv'
    BY <2>2, <2>3 DEF MetaInv
  <2>5. SweepInv'
    BY <2>1, <2>2, <2>3 DEF SweepInv
  <2>6. BuildInv'
    BY <2>1, <2>2, <2>3 DEF BuildInv
  <2>7. ActiveIsWhole'
    BY <2>1, <2>2 DEF ActiveIsWhole
  <2> QED
    BY <2>4, <2>5, <2>6, <2>7
<1>2. CASE Execute
  <2>1. /\ UNCHANGED <<stored, meta, sweep>> /\ meta.status = "BUILDING"
        /\ execution' = [version |-> meta.build, put |-> {}]
    BY <1>2 DEF Execute
  <2>2. meta.build \in Version
    BY <2>1 DEF MetaInv
  <2> QED
    BY <2>1, <2>2 DEF MetaInv, SweepInv, BuildInv, ActiveIsWhole, Reserved
<1>3. CASE Upload
  <2>1. PICK p \in Part :
          /\ stored' = [k \in DOMAIN stored \cup {<<execution.version, p>>} |->
                          IF k \in DOMAIN stored THEN stored[k] ELSE 0]
          /\ execution' = [execution EXCEPT !.put = @ \cup {p}]
    BY <1>3 DEF Upload
  <2>2. execution # None /\ UNCHANGED <<meta, sweep>>
    BY <1>3 DEF Upload
  <2>3. DOMAIN stored' = DOMAIN stored \cup {<<execution.version, p>>}
    BY <2>1
  <2>4. MetaInv' /\ ActiveIsWhole'
    BY <2>2, <2>3 DEF MetaInv, ActiveIsWhole, Reserved
  <2>5. SweepInv'
    BY <2>1, <2>2, <2>3 DEF SweepInv, BuildInv, Reserved, Object
  <2>6. BuildInv'
    BY <2>1, <2>2, <2>3 DEF BuildInv, Reserved
  <2> QED
    BY <2>4, <2>5, <2>6
<1>4. CASE Activate
  <2>1. CASE meta.status = "BUILDING" /\ meta.build = execution.version
    <3>1. /\ meta' = [meta EXCEPT !.active = meta.build, !.status = "READY"]
          /\ execution # None /\ execution.put = Part /\ execution' = None
          /\ UNCHANGED <<stored, sweep>>
      BY <1>4, <2>1 DEF Activate
    <3>2. meta.build \in Version /\ Reserved(meta.build)
      BY <2>1, <3>1 DEF BuildInv
    <3>3. /\ meta'.active = meta.build /\ meta'.build = meta.build /\ meta'.status = "READY"
          /\ meta' \in [active : Version \cup {None}, build : Version \cup {None}, status : Statuses]
      BY <3>1, <3>2 DEF MetaInv, Statuses
    <3>4. \A p \in Part : <<meta.build, p>> \in DOMAIN stored
      BY <2>1, <3>1 DEF BuildInv
    <3>5. MetaInv' /\ SweepInv' /\ BuildInv'
      BY <2>1, <3>1, <3>2, <3>3 DEF MetaInv, SweepInv, BuildInv, Reserved
    <3>6. ActiveIsWhole'
      BY <3>1, <3>3, <3>4 DEF ActiveIsWhole
    <3> QED
      BY <3>5, <3>6
  <2>2. CASE ~(meta.status = "BUILDING" /\ meta.build = execution.version)
    BY <1>4, <2>2 DEF Activate, MetaInv, SweepInv, BuildInv, ActiveIsWhole, Reserved
  <2> QED
    BY <2>1, <2>2
<1>5. CASE KillExecution
  BY <1>5 DEF KillExecution, MetaInv, SweepInv, BuildInv, ActiveIsWhole, Reserved
<1>6. ASSUME NEW status \in {"STALE", "DELETED"}, Turn(status)
      PROVE  ArtifactInv'
  BY <1>6 DEF Turn, MetaInv, SweepInv, BuildInv, ActiveIsWhole, Reserved, Statuses
<1>7. CASE Age
  BY <1>7 DEF Age, MetaInv, SweepInv, BuildInv, ActiveIsWhole, Reserved
<1>8. CASE List
  <2>1. /\ UNCHANGED <<stored, meta, execution>>
        /\ \E keys \in SUBSET DOMAIN stored : \E next :
             sweep' = [pc |-> "listed", keys |-> keys, next |-> next]
    BY <1>8 DEF List
  <2> QED
    BY <2>1 DEF MetaInv, SweepInv, BuildInv, ActiveIsWhole, Reserved
<1>9. CASE ReadMeta
  BY <1>9 DEF ReadMeta, Pins, MetaInv, SweepInv, BuildInv, ActiveIsWhole, Reserved
<1>10. CASE Delete
  BY <1>10, Taking DEF Delete, SweepInv
<1>11. CASE DeleteFails
  <2>1. PICK kept2 \in SUBSET sweep.keys :
          stored' = [k \in DOMAIN stored \ (sweep.keys \ kept2) |-> stored[k]]
    BY <1>11 DEF DeleteFails
  <2>2. sweep.keys \ kept2 \in SUBSET sweep.keys
    OBVIOUS
  <2> QED
    BY <1>11, <2>1, <2>2, Taking DEF DeleteFails, NoSweep
<1>12. CASE SaveCursor \/ KillSweep
  BY <1>12 DEF SaveCursor, KillSweep, NoSweep, MetaInv, SweepInv, BuildInv, ActiveIsWhole, Reserved
<1>13. CASE Ask \/ Load \/ Answer \/ Close \/ UNCHANGED artifactVars
  <2>1. UNCHANGED <<stored, meta, execution, sweep>>
    BY <1>13 DEF Ask, Load, Answer, Close, artifactVars
  <2> QED
    BY <2>1 DEF MetaInv, SweepInv, BuildInv, ActiveIsWhole, Reserved
<1> QED
  BY <1>1, <1>2, <1>3, <1>4, <1>5, <1>6, <1>7, <1>8, <1>9, <1>10, <1>11, <1>12, <1>13 DEF Next, Sweep

-----------------------------------------------------------------------------
(* The listing.  What a client has got is the beginning of the version it   *)
(* is held to.                                                              *)
Started(l) ==
  /\ l.version \in Version
  /\ Len(l.got) <= Size(l.version)
  /\ \A i \in 1..Len(l.got) : l.got[i] = <<l.version, i>>

ListingInv ==
  /\ listing \in [pc : {"idle", "absent", "asked", "loaded", "page", "done"},
                  version : Version \cup {None}, got : Seq(Version \X Nat)]
  /\ listing.pc = "idle" => listing.version = None /\ listing.got = <<>>
  /\ listing.pc \notin {"idle", "absent"} => Started(listing)
  /\ listing.pc = "done" => Len(listing.got) = Size(listing.version)

(* A page appended to what was got before.                                  *)
LEMMA NextPage ==
  ASSUME NEW S, NEW v, NEW got \in Seq(S), NEW count \in Nat,
         \A i \in Nat : <<v, i>> \in S,
         \A i \in 1..Len(got) : got[i] = <<v, i>>
  PROVE  LET all == got \o [i \in 1..count |-> <<v, Len(got) + i>>] IN
           /\ all \in Seq(S) /\ Len(all) = Len(got) + count
           /\ \A i \in 1..Len(all) : all[i] = <<v, i>>
<1> DEFINE page == [i \in 1..count |-> <<v, Len(got) + i>>]
<1>1. page \in Seq(S) /\ Len(page) = count
  OBVIOUS
<1>2. \A i \in 1..count : page[i] = <<v, Len(got) + i>>
  OBVIOUS
<1> HIDE DEF page
<1>3. /\ got \o page \in Seq(S) /\ Len(got \o page) = Len(got) + count
      /\ Len(got) \in Nat
  <2>1. got \in Seq(S) /\ Len(got) \in Nat
    OBVIOUS
  <2>2. got \o page \in Seq(S)
    BY <1>1, <2>1
  <2>3. Len(got \o page) = Len(got) + Len(page)
    BY <1>1, <2>1, ConcatProperties, Zenon
  <2> QED
    BY <1>1, <2>1, <2>2, <2>3
<1>4. ASSUME NEW i \in 1..Len(got) + count
      PROVE  (got \o page)[i] = <<v, i>>
  <2>1. CASE i <= Len(got)
    BY <1>1, <1>3, <2>1
  <2>2. CASE i > Len(got)
    <3>1. (got \o page)[i] = page[i - Len(got)]
      BY <1>1, <1>3, <2>2
    <3>2. i - Len(got) \in 1..count
      BY <1>3, <2>2
    <3> QED
      BY <1>2, <1>3, <3>1, <3>2
  <2> QED
    BY <1>3, <2>1, <2>2
<1> QED
  BY <1>3, <1>4 DEF page

LEMMA ListingInit ==
  ASSUME Init
  PROVE  ListingInv
<1>1. \E pc \in {"idle", "absent"} : listing = [pc |-> pc, version |-> None, got |-> <<>>]
  BY DEF Init, NoListing
<1> QED
  BY <1>1 DEF ListingInv

LEMMA ListingNext ==
  ASSUME None \notin Version, \A v \in Version : Size(v) \in Nat, MetaInv, ListingInv,
         [Next]_artifactVars
  PROVE  ListingInv'
<1>1. ASSUME GiveUp
      PROVE  ListingInv'
  BY <1>1 DEF GiveUp, NoListing, ListingInv
<1>2. CASE Ask
  <2>1. CASE Pinned(listing.version)
    <3>1. /\ listing' = [listing EXCEPT !.pc = "asked", !.version = meta.active]
          /\ listing.pc \in {"idle", "page"} /\ meta.active \in Version
      BY <1>2, <2>1 DEF Ask, Pinned, MetaInv
    <3>2. CASE listing.pc = "idle"
      <4>1. listing' = [pc |-> "asked", version |-> meta.active, got |-> <<>>]
        BY <3>1, <3>2 DEF ListingInv
      <4>2. Started(listing')
        <5>1. Len(listing'.got) = 0 /\ listing'.version = meta.active
          BY <4>1
        <5> QED
          BY <3>1, <5>1 DEF Started
      <4> QED
        BY <3>1, <4>1, <4>2 DEF ListingInv
    <3>3. CASE listing.pc = "page"
      <4>1. listing.version = meta.active
        BY <2>1, <3>3 DEF ListingInv, Started, Pinned
      <4> QED
        BY <3>1, <3>3, <4>1 DEF ListingInv, Started
    <3> QED
      BY <3>1, <3>2, <3>3
  <2> QED
    BY <1>1, <1>2, <2>1 DEF Ask
<1>3. CASE Load
  <2>1. listing.pc = "asked" /\ (listing' = [listing EXCEPT !.pc = "loaded"] \/ GiveUp)
    BY <1>3 DEF Load
  <2>2. CASE listing' = [listing EXCEPT !.pc = "loaded"]
    BY <2>1, <2>2 DEF ListingInv, Started
  <2> QED
    BY <1>1, <2>1, <2>2
<1>4. CASE Answer
  <2> DEFINE v == listing.version
             offset == Len(listing.got)
  <2>1. CASE Served(v)
    <3>0. PICK limit \in 1..MaxLimit :
            \E count \in Halvings(Min({offset + limit, Size(v)}) - offset) :
              listing' = [listing EXCEPT
                !.pc = IF offset + count < Size(v) THEN "page" ELSE "done",
                !.got = @ \o [i \in 1..count |-> <<v, offset + i>>]]
      BY <1>4, <2>1 DEF Answer
    <3>1. PICK count \in Halvings(Min({offset + limit, Size(v)}) - offset) :
            listing' = [listing EXCEPT
              !.pc = IF offset + count < Size(v) THEN "page" ELSE "done",
              !.got = @ \o [i \in 1..count |-> <<v, offset + i>>]]
      BY <3>0
    <3>2. /\ Started(listing) /\ v \in Version /\ Size(v) \in Nat /\ offset \in Nat
          /\ listing.got \in Seq(Version \X Nat) /\ offset <= Size(v)
      <4>1. listing.pc = "loaded" /\ Started(listing) /\ listing.got \in Seq(Version \X Nat)
        BY <1>4 DEF Answer, ListingInv
      <4> QED
        BY <4>1 DEF Started
    <3>3. Min({offset + limit, Size(v)}) = IF offset + limit <= Size(v) THEN offset + limit ELSE Size(v)
      <4> HIDE DEF v, offset
      <4> QED
        BY <3>0, <3>2 DEF Min
    <3>4. count \in Nat /\ offset + count <= Size(v)
      BY <3>1, <3>2, <3>3 DEF Halvings
    <3> DEFINE all == listing.got \o [i \in 1..count |-> <<v, offset + i>>]
    <3>5. /\ all \in Seq(Version \X Nat) /\ Len(all) = offset + count
          /\ \A i \in 1..Len(all) : all[i] = <<v, i>>
      BY <3>2, <3>4, NextPage DEF Started
    <3>6. /\ listing'.got = all /\ listing'.version = v
          /\ listing'.pc = IF offset + count < Size(v) THEN "page" ELSE "done"
          /\ listing' \in [pc : {"idle", "absent", "asked", "loaded", "page", "done"},
                           version : Version \cup {None}, got : Seq(Version \X Nat)]
      <4> HIDE DEF all
      <4>1. listing' = [listing EXCEPT
              !.pc = IF offset + count < Size(v) THEN "page" ELSE "done", !.got = all]
        BY <3>1 DEF all
      <4> QED
        BY <3>5, <4>1 DEF ListingInv
    <3>7. Started(listing')
      <4> HIDE DEF all, v, offset
      <4> QED
        BY <3>2, <3>4, <3>5, <3>6 DEF Started
    <3>8. listing'.pc = "done" => Len(listing'.got) = Size(listing'.version)
      <4> HIDE DEF all, v, offset
      <4> QED
        BY <3>2, <3>4, <3>5, <3>6
    <3>9. listing'.pc \in {"page", "done"}
      BY <3>6
    <3> QED
      BY <3>6, <3>7, <3>8, <3>9 DEF ListingInv
  <2> QED
    BY <1>1, <1>4, <2>1 DEF Answer
<1>5. CASE Close
  BY <1>1, <1>5 DEF Close
<1>6. CASE UNCHANGED listing
  BY <1>6 DEF ListingInv, Started
<1>7. [Next]_artifactVars => Ask \/ Load \/ Answer \/ Close \/ UNCHANGED listing
  BY DEF Next, Sweep, Reserve, Execute, Upload, Activate, KillExecution, Turn, Age, List, ReadMeta,
     Delete, DeleteFails, SaveCursor, KillSweep, artifactVars
<1> QED
  BY <1>1, <1>2, <1>3, <1>4, <1>5, <1>6, <1>7

LEMMA ListingWhole ==
  ASSUME ListingInv
  PROVE  ListingIsOneVersion
<1> SUFFICES ASSUME listing.pc = "done"
             PROVE  listing.got = [i \in 1..Size(listing.version) |-> <<listing.version, i>>]
  BY DEF ListingIsOneVersion
<1>1. /\ listing.got \in Seq(Version \X Nat) /\ Len(listing.got) = Size(listing.version)
      /\ \A i \in 1..Len(listing.got) : listing.got[i] = <<listing.version, i>>
  BY DEF ListingInv, Started
<1>2. listing.got = [i \in 1..Len(listing.got) |-> listing.got[i]]
  BY <1>1
<1> QED
  BY <1>1, <1>2

=============================================================================
