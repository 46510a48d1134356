--------------------------- MODULE ServicesProofs ---------------------------
(***************************************************************************)
(* What the run of MCServices checks of the components it composes, proved *)
(* for any value of the constants.  The invariants of the artifacts, the   *)
(* queries and the judgement, and their proofs, are those of the           *)
(* components' modules, instantiated where they are needed.                *)
(***************************************************************************)
EXTENDS Services, FiniteSetTheorems, TLAPS

(* A step of Services is a step of the component it is about, and none of *)
(* the others.                                                            *)
LEMMA Parting ==
  ASSUME [Next]_vars
  PROVE  /\ A!Next \/ UNCHANGED artifactVars
         /\ G!Next \/ UNCHANGED queryVars
         /\ S!Next \/ UNCHANGED serviceVars
         /\ X!Next \/ UNCHANGED proxyVars
         /\ J!Next \/ UNCHANGED judgeVars
         /\ D!Next \/ UNCHANGED discoverVars
         /\ L!Next \/ UNCHANGED playVars
         /\ C!Next \/ UNCHANGED crawlVars
<1>1. CASE A!Next /\ Only("artifacts")
  BY <1>1 DEF Only
<1>q. CASE G!Next /\ Only("queries")
  BY <1>q DEF Only
<1>s. CASE S!Next /\ Only("service")
  BY <1>s DEF Only
<1>2. CASE X!Next /\ Only("proxy")
  BY <1>2 DEF Only
<1>3. CASE J!Next /\ Only("judgement")
  BY <1>3 DEF Only
<1>d. CASE D!Next /\ Only("discovery")
  BY <1>d DEF Only
<1>4. CASE L!Next /\ Only("playground")
  BY <1>4 DEF Only
<1>c. CASE C!Next /\ Only("crawl")
  BY <1>c DEF Only
<1>5. ASSUME NEW p, Only(p),
             p \in {"publication", "scan", "ocr"}
      PROVE  /\ UNCHANGED artifactVars /\ UNCHANGED queryVars
             /\ UNCHANGED serviceVars /\ UNCHANGED proxyVars
             /\ UNCHANGED judgeVars /\ UNCHANGED discoverVars /\ UNCHANGED playVars
             /\ UNCHANGED crawlVars
  BY <1>5 DEF Only
<1>6. CASE UNCHANGED vars
  BY <1>6 DEF vars
<1> QED
  BY <1>1, <1>q, <1>s, <1>2, <1>3, <1>d, <1>4, <1>c, <1>5, <1>6 DEF Next

-----------------------------------------------------------------------------
(* The trees of a container that serves a source.  A run of sync_src has a *)
(* directory from the archive it wrote until it ends.                      *)
Quiet == {"idle", "graph", "head"}
Naming == {"extract", "rest", "unlink", "link", "replace", "reap"}
Run == [pc : Quiet \cup Naming \cup {"get", "write"}, version : Nat, dir : 0..6]
Tree == [version : Nat, files : SUBSET S!File]

SyncType ==
  /\ published \in Nat
  /\ thread \in [S!Thread -> Run]
  /\ tar \in [state : {"none", "broken", "whole"}, version : Nat]
  /\ links \in [src : 0..6, tmp : 0..6]
  /\ \A d \in DOMAIN dirs : d \in 1..6 /\ dirs[d] \in Tree
  /\ \A t \in S!Thread : thread[t].dir # 0 <=> thread[t].pc \in Naming

(* A directory has a name, or a run that flipped the link has not reaped it, *)
(* or the last run that reaped was itself overtaken and left its own.        *)
Kept(d, g, a) ==
  \/ d \in {links.src, a}
  \/ \E t \in S!Thread : d = thread[t].dir \/ (thread[t].pc = "reap" /\ d = g[t])

NamesInv ==
  /\ \A t, o \in S!Thread : t # o /\ thread[t].dir # 0 => thread[t].dir # thread[o].dir
  /\ \A t \in S!Thread : thread[t].pc = "extract" => thread[t].dir \notin DOMAIN dirs
  /\ links.tmp # 0 => \E t \in S!Thread : thread[t].pc = "replace" /\ thread[t].dir = links.tmp
  /\ \E g \in [S!Thread -> 1..6], a \in 1..6 : \A d \in DOMAIN dirs : Kept(d, g, a)

LEMMA FreeName ==
  ASSUME NEW a \in 0..6, NEW b \in 0..6, NEW c \in 0..6, NEW e \in 0..6
  PROVE  \E d \in 1..6 : d \notin {0, a, b, c, e}
<1>1. \E d \in {1, 2, 3, 4, 5} : d \notin {0, a, b, c, e}
  OBVIOUS
<1> QED
  BY <1>1

LEMMA FreshIsNew ==
  ASSUME SyncType, NamesInv, NEW t \in S!Thread, thread[t].pc = "write"
  PROVE  /\ S!Fresh(t) \in 1..6 /\ S!Fresh(t) \notin DOMAIN dirs
         /\ S!Fresh(t) # links.src /\ S!Fresh(t) # links.tmp
         /\ \A o \in S!Thread : S!Fresh(t) # thread[o].dir
<1> DEFINE taken == DOMAIN dirs \cup {links.src, links.tmp} \cup {thread[o].dir : o \in S!Thread}
<1>1. \E d \in 1..6 : d \notin taken
  <2>1. PICK g \in [S!Thread -> 1..6], a \in 1..6 : \A d \in DOMAIN dirs : Kept(d, g, a)
    BY DEF NamesInv
  <2>2. PICK o \in S!Thread : o # t /\ S!Thread = {t, o}
    BY DEF S!Thread
  <2>3. thread[t].dir = 0
    BY DEF SyncType, Naming
  <2>4. links.tmp \in {0, thread[o].dir}
    BY <2>2 DEF NamesInv
  <2>5. \A d \in taken : d \in {0, links.src, a, thread[o].dir, g[o]}
    BY <2>1, <2>2, <2>3, <2>4 DEF Kept
  <2>6. links.src \in 0..6 /\ a \in 0..6 /\ thread[o].dir \in 0..6 /\ g[o] \in 0..6
    BY <2>1, <2>2 DEF SyncType, Run
  <2> HIDE DEF taken
  <2> QED
    BY <2>5, <2>6, FreeName
<1>2. S!Fresh(t) \in 1..6 /\ S!Fresh(t) \notin taken
  BY <1>1 DEF S!Fresh
<1> QED
  BY <1>2

LEMMA SyncInit ==
  ASSUME S!Init
  PROVE  SyncType /\ NamesInv
<1>1. SyncType
  BY DEF S!Init, S!Booted, S!Idle, S!NoTar, SyncType, Run, Quiet, Naming
<1>2. [t \in S!Thread |-> 1] \in [S!Thread -> 1..6]
  OBVIOUS
<1>3. DOMAIN dirs = {} /\ links.tmp = 0 /\ \A t \in S!Thread : thread[t] = S!Idle
  BY DEF S!Init, S!Booted
<1>4. PICK g \in [S!Thread -> 1..6] : g = [t \in S!Thread |-> 1]
  BY <1>2
<1> QED
  <2>1. g \in [S!Thread -> 1..6] /\ 1 \in 1..6 /\ \A d \in DOMAIN dirs : Kept(d, g, 1)
    BY <1>3, <1>4
  <2> QED
    BY <1>1, <1>3, <2>1 DEF S!Idle, NamesInv

LEMMA SyncTypeNext ==
  ASSUME SyncType, NamesInv, [S!Next]_serviceVars
  PROVE  SyncType'
<1> USE DEF SyncType, Run, Quiet, Naming, S!Goto, S!End, S!Idle
<1>0. "loop" \in S!Thread /\ "demand" \in S!Thread
  BY DEF S!Thread
<1>1. CASE S!Publish
  BY <1>1 DEF S!Publish
<1>2. CASE S!Tick
  BY <1>0, <1>2 DEF S!Tick
<1>3. CASE S!SyncGraph
  BY <1>3, ZenonT(40) DEF S!SyncGraph
<1>4. CASE S!Demand
  BY <1>0, <1>4 DEF S!Demand
<1>5. CASE S!Restart
  BY <1>5 DEF S!Restart, S!NoTar
<1>6. CASE UNCHANGED serviceVars
  BY <1>6 DEF serviceVars
<1>7. ASSUME NEW t \in S!Thread, S!Head(t)
      PROVE  SyncType'
  BY <1>7 DEF S!Head
<1>8. ASSUME NEW t \in S!Thread, S!Get(t)
      PROVE  SyncType'
  BY <1>8, ZenonT(40) DEF S!Get
<1>9. ASSUME NEW t \in S!Thread, S!Write(t)
      PROVE  SyncType'
  BY <1>9, FreshIsNew DEF S!Write
<1>10. ASSUME NEW t \in S!Thread, S!Extract(t)
      PROVE  SyncType'
  BY <1>10 DEF S!Extract, S!With, Tree, S!File
<1>11. ASSUME NEW t \in S!Thread, S!Rest(t)
      PROVE  SyncType'
  BY <1>11 DEF S!Rest, S!With, Tree, S!File, S!NoTar, S!Exists
<1>12. ASSUME NEW t \in S!Thread, S!ExtractFails(t)
      PROVE  SyncType'
  BY <1>12 DEF S!ExtractFails, S!Without, S!NoTar
<1>13. ASSUME NEW t \in S!Thread, S!UnlinkTmp(t)
      PROVE  SyncType'
  BY <1>13 DEF S!UnlinkTmp
<1>14. ASSUME NEW t \in S!Thread, S!Symlink(t)
      PROVE  SyncType'
  BY <1>14 DEF S!Symlink, S!Raise, S!Without
<1>15. ASSUME NEW t \in S!Thread, S!Replace(t)
      PROVE  SyncType'
  BY <1>15 DEF S!Replace, S!Raise, S!Without
<1>16. ASSUME NEW t \in S!Thread, S!Reap(t)
      PROVE  SyncType'
  BY <1>16 DEF S!Reap
<1>17. ASSUME NEW t \in S!Thread, S!CallFails(t)
      PROVE  SyncType'
  BY <1>17 DEF S!CallFails
<1> QED
  BY <1>1, <1>2, <1>3, <1>4, <1>5, <1>6, <1>7, <1>8, <1>9, <1>10, <1>11, <1>12, <1>13, <1>14, <1>15, <1>16, <1>17 DEF S!Next, S!Loop, S!OnDemand, S!SyncSrc, S!Thread

LEMMA NamesNext ==
  ASSUME SyncType, NamesInv, [S!Next]_serviceVars
  PROVE  NamesInv'
<1> USE DEF Naming, S!Goto, S!End, S!Idle
<1>0. "loop" \in S!Thread /\ "demand" \in S!Thread
  BY DEF S!Thread
<1>g. PICK g \in [S!Thread -> 1..6], a \in 1..6 : \A d \in DOMAIN dirs : Kept(d, g, a)
  BY DEF NamesInv
<1>t. ASSUME NEW t \in S!Thread
      PROVE  thread[t] \in Run /\ (thread[t].dir # 0 <=> thread[t].pc \in Naming) /\ 0 \notin DOMAIN dirs
  BY DEF SyncType
<1>d. DOMAIN thread = S!Thread
  BY DEF SyncType
<1>1. ASSUME NEW t \in S!Thread, NEW r, r.dir = thread[t].dir, r.pc # "extract",
             thread' = [thread EXCEPT ![t] = r], UNCHANGED links,
             DOMAIN dirs' \subseteq DOMAIN dirs, thread[t].pc \notin {"replace", "reap"}
      PROVE  NamesInv'
  <2>1. thread'[t] = r /\ \A o \in S!Thread \ {t} : thread'[o] = thread[o]
    BY <1>1, <1>d
  <2>2. \A d \in DOMAIN dirs' : Kept(d, g, a)'
    BY <1>1, <1>g, <2>1 DEF Kept
  <2> QED
    BY <1>1, <2>1, <2>2 DEF NamesInv
<1>2. ASSUME NEW t \in S!Thread, S!End(t), UNCHANGED links, thread[t].pc # "reap",
             thread[t].pc = "replace" => links.tmp = 0,
             \A d \in DOMAIN dirs' : d \in DOMAIN dirs /\ (d = thread[t].dir => d \in {links.src, links.tmp})
      PROVE  NamesInv'
  <2>1. thread'[t].dir = 0 /\ thread'[t].pc = "idle" /\ \A o \in S!Thread \ {t} : thread'[o] = thread[o]
    BY <1>2, <1>d
  <2>2. links.tmp # 0 => \E o \in S!Thread \ {t} : thread[o].pc = "replace" /\ thread[o].dir = links.tmp
    BY <1>2 DEF NamesInv
  <2>3. \A d \in DOMAIN dirs' : Kept(d, g, a)'
    BY <1>2, <1>g, <1>t, <2>1, <2>2 DEF Kept
  <2> QED
    BY <1>2, <2>1, <2>2, <2>3 DEF NamesInv
<1>3. CASE S!Publish \/ UNCHANGED serviceVars
  BY <1>3 DEF S!Publish, serviceVars, NamesInv, Kept
<1>4. CASE S!Tick \/ S!SyncGraph \/ S!Demand
  <2>1. PICK t \in S!Thread, pc \in {"graph", "head"} :
          /\ thread' = [thread EXCEPT ![t].pc = pc] /\ thread[t].pc \in {"idle", "graph"}
          /\ UNCHANGED <<links, dirs>>
    BY <1>4, <1>0 DEF S!Tick, S!SyncGraph, S!Demand
  <2> DEFINE r == [thread[t] EXCEPT !.pc = pc]
  <2>2. r.dir = thread[t].dir /\ r.pc # "extract" /\ thread' = [thread EXCEPT ![t] = r]
    BY <2>1, <1>t DEF Run
  <2> HIDE DEF r
  <2> QED
    BY <1>1, <2>1, <2>2
<1>5. CASE S!Restart
  <2>1. DOMAIN dirs' = {} /\ links'.tmp = 0 /\ \A t \in S!Thread : thread'[t] = S!Idle
    BY <1>5 DEF S!Restart
  <2>2. \E g2 \in [S!Thread -> 1..6], a2 \in 1..6 : \A d \in DOMAIN dirs' : Kept(d, g2, a2)'
    BY <1>g, <2>1
  <2> QED
    BY <2>1, <2>2 DEF NamesInv
<1>6. ASSUME NEW t \in S!Thread, S!Head(t) \/ S!CallFails(t)
      PROVE  NamesInv'
  <2>1. UNCHANGED <<links, dirs>> /\ thread[t].pc \in {"graph", "head", "get", "write"}
    BY <1>6 DEF S!Head, S!CallFails
  <2>2. CASE S!End(t)
    BY <1>2, <1>t, <2>1, <2>2
  <2>3. CASE S!Goto(t, "get")
    <3> DEFINE r == [thread[t] EXCEPT !.pc = "get"]
    <3>1. r.dir = thread[t].dir /\ r.pc # "extract" /\ thread' = [thread EXCEPT ![t] = r]
      BY <2>3, <1>t DEF Run
    <3> HIDE DEF r
    <3> QED
      BY <1>1, <2>1, <3>1
  <2> QED
    BY <1>6, <2>2, <2>3 DEF S!Head, S!CallFails
<1>7. ASSUME NEW t \in S!Thread, S!Get(t)
      PROVE  NamesInv'
  <2> DEFINE r == [thread[t] EXCEPT !.pc = "write", !.version = published]
  <2>1. r.dir = thread[t].dir /\ r.pc # "extract"
    BY <1>t DEF Run
  <2>3. thread' = [thread EXCEPT ![t] = r]
    BY <1>7 DEF S!Get
  <2>2. UNCHANGED <<links, dirs>> /\ thread[t].pc = "get"
    BY <1>7 DEF S!Get
  <2> HIDE DEF r
  <2> QED
    BY <1>1, <2>1, <2>2, <2>3
<1>8. ASSUME NEW t \in S!Thread, S!Write(t)
      PROVE  NamesInv'
  <2>1. /\ S!Fresh(t) \in 1..6 /\ S!Fresh(t) \notin DOMAIN dirs
        /\ \A o \in S!Thread : S!Fresh(t) # thread[o].dir
    BY <1>8, FreshIsNew DEF S!Write
  <2>2. UNCHANGED <<links, dirs>> /\ thread[t].pc = "write" /\ thread[t].dir = 0
    BY <1>8, <1>t DEF S!Write
  <2>3. thread'[t].dir = S!Fresh(t) /\ \A o \in S!Thread \ {t} : thread'[o] = thread[o]
    BY <1>8, <1>t, <1>d DEF S!Write, Run
  <2>4. \A d \in DOMAIN dirs' : Kept(d, g, a)'
    BY <1>g, <1>t, <2>2, <2>3 DEF Kept
  <2> QED
    BY <2>1, <2>2, <2>3, <2>4 DEF NamesInv
<1>9. ASSUME NEW t \in S!Thread, S!Extract(t) \/ S!Rest(t)
      PROVE  NamesInv'
  <2>1. DOMAIN dirs' = DOMAIN dirs \cup {thread[t].dir} /\ UNCHANGED links
    BY <1>9 DEF S!Extract, S!Rest, S!With
  <2>2. /\ thread'[t].dir = thread[t].dir /\ thread'[t].pc # "extract" /\ thread[t].dir # 0
        /\ thread[t].pc \notin {"replace", "reap"}
        /\ \A o \in S!Thread \ {t} : thread'[o] = thread[o]
    BY <1>9, <1>t, <1>d DEF S!Extract, S!Rest, Run
  <2>3. \A d \in DOMAIN dirs' : Kept(d, g, a)'
    BY <1>g, <2>1, <2>2 DEF Kept
  <2> QED
    BY <2>1, <2>2, <2>3 DEF NamesInv
<1>10. ASSUME NEW t \in S!Thread, S!ExtractFails(t)
       PROVE  NamesInv'
  <2>1. DOMAIN dirs' = DOMAIN dirs \ {thread[t].dir} /\ UNCHANGED links /\ S!End(t)
        /\ thread[t].pc \in {"extract", "rest"}
    BY <1>10 DEF S!ExtractFails, S!Without
  <2> QED
    BY <1>2, <2>1
<1>11. ASSUME NEW t \in S!Thread, S!UnlinkTmp(t)
       PROVE  NamesInv'
  <2>1. /\ thread'[t].dir = thread[t].dir /\ thread'[t].pc = "link" /\ thread[t].pc = "unlink"
        /\ \A o \in S!Thread \ {t} : thread'[o] = thread[o]
        /\ links'.tmp = 0 /\ links'.src = links.src /\ dirs' = dirs
    BY <1>11, <1>t, <1>d DEF S!UnlinkTmp, Run, SyncType
  <2>2. \A d \in DOMAIN dirs' : Kept(d, g, a)'
    BY <1>g, <2>1 DEF Kept
  <2> QED
    BY <2>1, <2>2 DEF NamesInv
<1>12. ASSUME NEW t \in S!Thread, S!Raise(t), UNCHANGED links, thread[t].pc # "reap",
              thread[t].pc = "replace" => links.tmp = 0
       PROVE  NamesInv'
  <2>1. \A d \in DOMAIN dirs' : d \in DOMAIN dirs /\ (d = thread[t].dir => d \in {links.src, links.tmp})
    BY <1>12 DEF S!Raise, S!Without
  <2> QED
    BY <1>2, <1>12, <2>1 DEF S!Raise
<1>13. ASSUME NEW t \in S!Thread, S!Symlink(t)
       PROVE  NamesInv'
  <2>1. CASE links.tmp = 0
    <3>1. /\ thread'[t].dir = thread[t].dir /\ thread'[t].pc = "replace" /\ thread[t].pc = "link"
          /\ \A o \in S!Thread \ {t} : thread'[o] = thread[o]
          /\ links'.tmp = thread[t].dir /\ links'.src = links.src /\ dirs' = dirs
      BY <1>13, <1>t, <1>d, <2>1 DEF S!Symlink, Run, SyncType
    <3>2. \A d \in DOMAIN dirs' : Kept(d, g, a)'
      BY <1>g, <3>1 DEF Kept
    <3> QED
      BY <3>1, <3>2 DEF NamesInv
  <2>2. CASE links.tmp # 0
    BY <1>12, <1>13, <2>2 DEF S!Symlink
  <2> QED
    BY <2>1, <2>2
<1>14. ASSUME NEW t \in S!Thread, S!Replace(t)
       PROVE  NamesInv'
  <2>1. CASE links.tmp # 0
    <3> DEFINE old == IF links.src = 0 THEN 1 ELSE links.src
    <3>1. /\ thread'[t].dir = thread[t].dir /\ thread'[t].pc = "reap" /\ thread[t].pc = "replace"
          /\ \A o \in S!Thread \ {t} : thread'[o] = thread[o]
          /\ links'.tmp = 0 /\ dirs' = dirs
      BY <1>14, <1>t, <1>d, <2>1 DEF S!Replace, Run, SyncType
    <3>2. PICK g2 \in [S!Thread -> 1..6] : g2[t] = old /\ \A o \in S!Thread \ {t} : g2[o] = g[o]
      <4>1. [g EXCEPT ![t] = old] \in [S!Thread -> 1..6]
        BY <1>g DEF SyncType
      <4> QED
        BY <4>1, <1>g
    <3> HIDE DEF old
    <3>3. \A d \in DOMAIN dirs : d # 0 /\ (d = links.src => d = old)
      BY <1>t DEF old
    <3>4. \A d \in DOMAIN dirs' : Kept(d, g2, a)'
      BY <1>g, <3>1, <3>2, <3>3 DEF Kept
    <3> QED
      BY <1>g, <3>1, <3>2, <3>4 DEF NamesInv
  <2>2. CASE links.tmp = 0
    BY <1>12, <1>14, <2>2 DEF S!Replace
  <2> QED
    BY <2>1, <2>2
<1>15. ASSUME NEW t \in S!Thread, S!Reap(t)
       PROVE  NamesInv'
  <2>1. /\ DOMAIN dirs' \subseteq DOMAIN dirs \cap {thread[t].dir} /\ UNCHANGED links /\ thread[t].pc = "reap"
        /\ thread'[t].dir = 0 /\ thread'[t].pc = "idle"
        /\ \A o \in S!Thread \ {t} : thread'[o] = thread[o]
    BY <1>15, <1>d DEF S!Reap
  <2>2. PICK own \in 1..6 : own = thread[t].dir
    BY <1>t, <2>1 DEF Run
  <2>3. \A d \in DOMAIN dirs' : Kept(d, g, own)'
    BY <2>1, <2>2 DEF Kept
  <2> QED
    BY <1>g, <2>1, <2>2, <2>3 DEF NamesInv
<1> QED
  BY <1>3, <1>4, <1>5, <1>6, <1>7, <1>8, <1>9, <1>10, <1>11, <1>13, <1>14, <1>15
     DEF S!Next, S!Loop, S!OnDemand, S!SyncSrc, S!Thread

-----------------------------------------------------------------------------
(* Without an overlap one run at a time makes a directory, fills it, flips *)
(* the link to it and reaps the others.                                    *)
Whole(d, version) == d \in DOMAIN dirs /\ dirs[d] = [version |-> version, files |-> S!File]

Tidy(t) ==
  /\ thread[t].pc \in Naming \ {"reap"} => thread[t].dir # links.src
  /\ thread[t].pc = "extract" /\ tar.state = "whole" => tar.version = thread[t].version
  /\ thread[t].pc = "rest" =>
       /\ thread[t].dir \in DOMAIN dirs
       /\ dirs[thread[t].dir] = [version |-> thread[t].version, files |-> {1}]
  /\ thread[t].pc \in {"unlink", "link", "replace"} => Whole(thread[t].dir, thread[t].version)
  /\ thread[t].pc = "replace" => links.tmp = thread[t].dir
  /\ thread[t].pc = "reap" => links.src = thread[t].dir

TreeInv ==
  ~overlapped =>
    /\ \A t, o \in S!Thread : t # o => thread[t].pc \in Quiet \/ thread[o].pc \in Quiet
    /\ links.src # 0 => Whole(links.src, srcEtag)
    /\ \A t \in S!Thread : Tidy(t)

LEMMA TreeInit ==
  ASSUME S!Init
  PROVE  TreeInv
BY DEF S!Init, S!Booted, S!Idle, TreeInv, Tidy, Quiet, Naming

LEMMA TreeNext ==
  ASSUME SyncType, NamesInv, TreeInv, [S!Next]_serviceVars
  PROVE  TreeInv'
<1> SUFFICES ASSUME ~overlapped'
             PROVE  /\ \A t, o \in S!Thread : t # o => thread'[t].pc \in Quiet \/ thread'[o].pc \in Quiet
                    /\ links'.src # 0 => Whole(links.src, srcEtag)'
                    /\ \A t \in S!Thread : Tidy(t)'
  BY DEF TreeInv
<1> DEFINE Goal == /\ \A t, o \in S!Thread : t # o => thread'[t].pc \in Quiet \/ thread'[o].pc \in Quiet
                   /\ links'.src # 0 => Whole(links.src, srcEtag)'
                   /\ \A t \in S!Thread : Tidy(t)'
<1> USE DEF S!Goto, S!End, S!Idle
<1>0. "loop" \in S!Thread /\ "demand" \in S!Thread /\ DOMAIN thread = S!Thread
  BY DEF S!Thread, SyncType
<1>a. ~overlapped
  <2>1. UNCHANGED overlapped \/ \E t \in S!Thread : overlapped' = (overlapped \/ ~S!Alone(t))
    BY <1>0 DEF S!Next, S!Publish, S!Loop, S!Tick, S!SyncGraph, S!Demand, S!OnDemand, S!SyncSrc, S!Head, S!Get, S!Write,
       S!Extract, S!Rest, S!ExtractFails, S!UnlinkTmp, S!Symlink, S!Replace, S!Reap, S!CallFails, S!Restart, serviceVars
  <2> QED
    BY <2>1
<1>i. /\ \A t, o \in S!Thread : t # o => thread[t].pc \in Quiet \/ thread[o].pc \in Quiet
      /\ links.src # 0 => Whole(links.src, srcEtag)
      /\ \A t \in S!Thread : Tidy(t)
  BY <1>a DEF TreeInv
<1>t. ASSUME NEW t \in S!Thread
      PROVE  /\ thread[t] = [pc |-> thread[t].pc, version |-> thread[t].version, dir |-> thread[t].dir]
             /\ thread[t].dir # 0 <=> thread[t].pc \in Naming
  BY DEF SyncType, Run
<1>q. \A t \in S!Thread : thread'[t].pc \in Quiet => Tidy(t)'
  BY DEF Tidy, Quiet, Naming
(* The thread at work is t. *)
<1>1. ASSUME NEW t \in S!Thread, \A o \in S!Thread \ {t} : thread'[o] = thread[o] /\ thread[o].pc \in Quiet,
             links'.src # 0 => Whole(links.src, srcEtag)', Tidy(t)'
      PROVE  Goal
  <2>1. \A o \in S!Thread \ {t} : thread'[o].pc \in Quiet
    BY <1>1
  <2> QED
    BY <1>1, <1>q, <2>1
<1>2. ASSUME NEW t \in S!Thread, \A o \in S!Thread \ {t} : thread'[o] = thread[o], thread'[t].pc \in Quiet,
             UNCHANGED <<links, dirs, srcEtag, tar>>
      PROVE  Goal
  <2>1. \A o \in S!Thread \ {t} : Tidy(o)'
    BY <1>2, <1>i DEF Tidy, Whole
  <2>2. Tidy(t)'
    BY <1>2, <1>q
  <2>3. \A o \in S!Thread : Tidy(o)'
    BY <2>1, <2>2
  <2>4. links'.src # 0 => Whole(links.src, srcEtag)'
    BY <1>2, <1>i DEF Whole
  <2>5. \A u, o \in S!Thread : u # o => thread'[u].pc \in Quiet \/ thread'[o].pc \in Quiet
    BY <1>2, <1>i
  <2> QED
    BY <2>3, <2>4, <2>5
<1>3. CASE S!Publish \/ UNCHANGED serviceVars
  <2>1. UNCHANGED <<thread, links, dirs, srcEtag, tar>>
    BY <1>3 DEF S!Publish, serviceVars
  <2> QED
    BY <1>i, <2>1 DEF Tidy, Whole
<1>4. CASE S!Tick \/ S!SyncGraph \/ S!Demand
  <2>1. PICK t \in S!Thread, pc \in Quiet : thread' = [thread EXCEPT ![t].pc = pc] /\ UNCHANGED <<links, dirs, srcEtag, tar>>
    BY <1>4, <1>0 DEF S!Tick, S!SyncGraph, S!Demand, Quiet
  <2>2. thread'[t].pc = pc /\ \A o \in S!Thread \ {t} : thread'[o] = thread[o]
    BY <1>0, <1>t, <2>1
  <2> QED
    BY <1>2, <2>1, <2>2
<1>5. CASE S!Restart
  <2>1. links'.src = 0 /\ \A t \in S!Thread : thread'[t].pc = "idle"
    BY <1>5 DEF S!Restart
  <2> QED
    BY <1>q, <2>1 DEF Quiet
<1>6. ASSUME NEW t \in S!Thread, S!Head(t)
      PROVE  Goal
  <2>1. CASE S!End(t)
    <3>1. thread'[t].pc = "idle" /\ \A o \in S!Thread \ {t} : thread'[o] = thread[o]
      BY <1>0, <2>1
    <3> QED
      BY <1>2, <1>6, <3>1 DEF S!Head, Quiet
  <2>2. CASE S!Goto(t, "get") /\ overlapped' = (overlapped \/ ~S!Alone(t))
    <3>0. S!Alone(t)
      BY <2>2
    <3>1. thread'[t].pc = "get" /\ \A o \in S!Thread \ {t} : thread'[o] = thread[o] /\ thread[o].pc \in Quiet
      BY <1>0, <1>t, <2>2, <3>0 DEF S!Alone, Quiet
    <3>2. Tidy(t)'
      BY <3>1 DEF Tidy, Naming
    <3>3. links'.src # 0 => Whole(links.src, srcEtag)'
      BY <1>6, <1>i DEF S!Head, Whole
    <3> QED
      BY <1>1, <3>1, <3>2, <3>3
  <2> QED
    BY <1>6, <2>1, <2>2 DEF S!Head
<1>7. ASSUME NEW t \in S!Thread, S!CallFails(t)
      PROVE  Goal
  <2>1. thread'[t].pc = "idle" /\ \A o \in S!Thread \ {t} : thread'[o] = thread[o]
    BY <1>0, <1>7 DEF S!CallFails
  <2> QED
    BY <1>2, <1>7, <2>1 DEF S!CallFails, Quiet
<1>8. ASSUME NEW t \in S!Thread, thread[t].pc \notin Quiet
      PROVE  S!Alone(t) /\ \A o \in S!Thread \ {t} : thread[o].pc \in Quiet
  BY <1>8, <1>i DEF S!Alone, Quiet
<1>10. ASSUME NEW t \in S!Thread, S!Get(t)
       PROVE  Goal
  <2>1. thread'[t].pc = "write" /\ \A o \in S!Thread \ {t} : thread'[o] = thread[o] /\ thread[o].pc \in Quiet
    BY <1>0, <1>8, <1>10, <1>t DEF S!Get, Quiet
  <2>2. Tidy(t)' /\ (links'.src # 0 => Whole(links.src, srcEtag)')
    BY <1>10, <1>i, <2>1 DEF S!Get, Tidy, Whole, Naming
  <2> QED
    BY <1>1, <2>1, <2>2
<1>11. ASSUME NEW t \in S!Thread, S!Write(t)
       PROVE  Goal
  <2>0. S!Alone(t) /\ S!Fresh(t) # links.src
    BY <1>8, <1>11, FreshIsNew DEF S!Write, Quiet
  <2> DEFINE r == [thread[t] EXCEPT !.pc = "extract", !.dir = S!Fresh(t)]
  <2>f. r.pc = "extract" /\ r.version = thread[t].version /\ r.dir = S!Fresh(t)
    BY <1>t
  <2>r. thread' = [thread EXCEPT ![t] = r]
    BY <1>11 DEF S!Write
  <2> HIDE DEF r
  <2>1. /\ thread'[t].pc = "extract" /\ thread'[t].version = thread[t].version /\ thread'[t].dir = S!Fresh(t)
        /\ \A o \in S!Thread \ {t} : thread'[o] = thread[o] /\ thread[o].pc \in Quiet
    BY <1>0, <1>8, <1>11, <2>f, <2>r DEF S!Write, Quiet
  <2>2. tar'.state = "whole" => tar'.version = thread[t].version
    BY <1>11, <2>0 DEF S!Write
  <2>3. Tidy(t)' /\ (links'.src # 0 => Whole(links.src, srcEtag)')
    BY <1>11, <1>i, <2>0, <2>1, <2>2 DEF S!Write, Tidy, Whole
  <2> QED
    BY <1>1, <2>1, <2>3
<1>12. ASSUME NEW t \in S!Thread, S!Extract(t)
       PROVE  Goal
  <2>1. /\ thread'[t] = [pc |-> "rest", version |-> thread[t].version, dir |-> thread[t].dir]
        /\ \A o \in S!Thread \ {t} : thread'[o] = thread[o] /\ thread[o].pc \in Quiet
    BY <1>0, <1>8, <1>12, <1>t DEF S!Extract, Quiet
  <2>2. thread[t].dir # links.src /\ tar.version = thread[t].version
    BY <1>12, <1>i DEF S!Extract, Tidy, Naming
  <2>3. /\ DOMAIN dirs' = DOMAIN dirs \cup {thread[t].dir}
        /\ dirs'[thread[t].dir] = [version |-> thread[t].version, files |-> {1}]
        /\ \A d \in DOMAIN dirs \ {thread[t].dir} : dirs'[d] = dirs[d]
    BY <1>12, <2>2 DEF S!Extract, S!With
  <2>4. Tidy(t)' /\ (links'.src # 0 => Whole(links.src, srcEtag)')
    <3>1. UNCHANGED <<links, srcEtag>>
      BY <1>12 DEF S!Extract
    <3>2. links'.src # 0 => Whole(links.src, srcEtag)'
      BY <1>i, <2>2, <2>3, <3>1 DEF Whole
    <3>3. Tidy(t)'
      BY <2>1, <2>2, <2>3, <3>1 DEF Tidy, Whole
    <3> QED
      BY <3>2, <3>3
  <2> QED
    BY <1>1, <2>1, <2>4
<1>13. ASSUME NEW t \in S!Thread, S!Rest(t)
       PROVE  Goal
  <2>1. /\ thread'[t] = [pc |-> "unlink", version |-> thread[t].version, dir |-> thread[t].dir]
        /\ \A o \in S!Thread \ {t} : thread'[o] = thread[o] /\ thread[o].pc \in Quiet
    BY <1>0, <1>8, <1>13, <1>t DEF S!Rest, Quiet
  <2>2. /\ thread[t].dir # links.src /\ thread[t].dir \in DOMAIN dirs
        /\ dirs[thread[t].dir] = [version |-> thread[t].version, files |-> {1}]
    BY <1>13, <1>i DEF S!Rest, Tidy, Naming
  <2>3. /\ DOMAIN dirs' = DOMAIN dirs
        /\ dirs'[thread[t].dir] = [version |-> thread[t].version, files |-> S!File]
        /\ \A d \in DOMAIN dirs \ {thread[t].dir} : dirs'[d] = dirs[d]
    <3> DEFINE tree == [dirs[thread[t].dir] EXCEPT !.files = @ \cup {2}]
    <3>1. tree = [version |-> thread[t].version, files |-> S!File]
      BY <2>2 DEF S!File
    <3>2. dirs' = S!With(thread[t].dir, tree)
      BY <1>13, <2>2 DEF S!Rest, S!Exists
    <3> HIDE DEF tree
    <3> QED
      BY <2>2, <3>1, <3>2 DEF S!With
  <2>4. Tidy(t)' /\ (links'.src # 0 => Whole(links.src, srcEtag)')
    <3>1. UNCHANGED <<links, srcEtag>>
      BY <1>13 DEF S!Rest
    <3>2. links'.src # 0 => Whole(links.src, srcEtag)'
      BY <1>i, <2>2, <2>3, <3>1 DEF Whole
    <3>3. Tidy(t)'
      BY <2>1, <2>2, <2>3, <3>1 DEF Tidy, Whole
    <3> QED
      BY <3>2, <3>3
  <2> QED
    BY <1>1, <2>1, <2>4
<1>14. ASSUME NEW t \in S!Thread, S!End(t), UNCHANGED <<links, srcEtag>>, thread[t].pc \notin Quiet,
              \A d \in DOMAIN dirs \ {thread[t].dir} : d \in DOMAIN dirs' /\ dirs'[d] = dirs[d],
              thread[t].dir # links.src
       PROVE  Goal
  <2>1. /\ thread'[t].pc = "idle"
        /\ \A o \in S!Thread \ {t} : thread'[o] = thread[o] /\ thread[o].pc \in Quiet
    BY <1>0, <1>8, <1>14
  <2>2. links'.src # 0 => Whole(links.src, srcEtag)'
    BY <1>14, <1>i DEF Whole
  <2>3. Tidy(t)'
    BY <1>q, <2>1 DEF Quiet
  <2> QED
    BY <1>1, <2>1, <2>2, <2>3
<1>15. ASSUME NEW t \in S!Thread, S!ExtractFails(t)
       PROVE  Goal
  <2>1. thread[t].pc \in {"extract", "rest"}
    BY <1>15 DEF S!ExtractFails
  <2>2. thread[t].dir # links.src
    BY <1>i, <2>1 DEF Tidy, Naming
  <2> QED
    BY <1>14, <1>15, <2>1, <2>2 DEF S!ExtractFails, S!Without, Quiet
<1>16. ASSUME NEW t \in S!Thread, S!UnlinkTmp(t)
       PROVE  Goal
  <2>1. /\ thread'[t] = [pc |-> "link", version |-> thread[t].version, dir |-> thread[t].dir]
        /\ \A o \in S!Thread \ {t} : thread'[o] = thread[o] /\ thread[o].pc \in Quiet
    BY <1>0, <1>8, <1>16, <1>t DEF S!UnlinkTmp, Quiet
  <2>2. thread[t].dir # links.src /\ Whole(thread[t].dir, thread[t].version)
    BY <1>16, <1>i DEF S!UnlinkTmp, Tidy, Naming
  <2>3. links'.src = links.src
    BY <1>16 DEF S!UnlinkTmp
  <2>4. Tidy(t)' /\ (links'.src # 0 => Whole(links.src, srcEtag)')
    BY <1>16, <1>i, <2>1, <2>2, <2>3 DEF S!UnlinkTmp, Tidy, Whole
  <2> QED
    BY <1>1, <2>1, <2>4
<1>17. ASSUME NEW t \in S!Thread, S!Symlink(t)
       PROVE  Goal
  <2>0. links.tmp = 0 /\ thread[t].pc = "link"
    BY <1>8, <1>17 DEF S!Symlink, NamesInv, Quiet
  <2>1. /\ thread'[t] = [pc |-> "replace", version |-> thread[t].version, dir |-> thread[t].dir]
        /\ \A o \in S!Thread \ {t} : thread'[o] = thread[o] /\ thread[o].pc \in Quiet
    BY <1>0, <1>8, <1>17, <1>t, <2>0 DEF S!Symlink, Quiet
  <2>2. thread[t].dir # links.src /\ Whole(thread[t].dir, thread[t].version)
    BY <1>i, <2>0 DEF Tidy, Naming
  <2>3. links'.src = links.src /\ links'.tmp = thread[t].dir
    BY <1>17, <2>0 DEF S!Symlink, SyncType
  <2>4. Tidy(t)' /\ (links'.src # 0 => Whole(links.src, srcEtag)')
    BY <1>17, <1>i, <2>0, <2>1, <2>2, <2>3 DEF S!Symlink, Tidy, Whole
  <2> QED
    BY <1>1, <2>1, <2>4
<1>18. ASSUME NEW t \in S!Thread, S!Replace(t)
       PROVE  Goal
  <2>0. thread[t].pc = "replace" /\ links.tmp = thread[t].dir /\ thread[t].dir # 0
    BY <1>18, <1>i, <1>t DEF S!Replace, Tidy, Naming
  <2>1. /\ thread'[t] = [pc |-> "reap", version |-> thread[t].version, dir |-> thread[t].dir]
        /\ \A o \in S!Thread \ {t} : thread'[o] = thread[o] /\ thread[o].pc \in Quiet
    BY <1>0, <1>8, <1>18, <1>t, <2>0 DEF S!Replace, Quiet
  <2>2. Whole(thread[t].dir, thread[t].version)
    BY <1>i, <2>0 DEF Tidy
  <2>3. links'.src = thread[t].dir /\ srcEtag' = thread[t].version /\ dirs' = dirs
    BY <1>18, <2>0 DEF S!Replace
  <2>4. Tidy(t)' /\ (links'.src # 0 => Whole(links.src, srcEtag)')
    BY <2>1, <2>2, <2>3 DEF Tidy, Whole, Naming
  <2> QED
    BY <1>1, <2>1, <2>4
<1>19. ASSUME NEW t \in S!Thread, S!Reap(t)
       PROVE  Goal
  <2>1. /\ thread'[t].pc = "idle" /\ thread[t].pc = "reap"
        /\ \A o \in S!Thread \ {t} : thread'[o] = thread[o] /\ thread[o].pc \in Quiet
    BY <1>0, <1>8, <1>19 DEF S!Reap, Quiet
  <2>2. links.src = thread[t].dir
    BY <1>i, <2>1 DEF Tidy
  <2>3. links'.src # 0 => Whole(links.src, srcEtag)'
    BY <1>19, <1>i, <2>2 DEF S!Reap, Whole
  <2>4. Tidy(t)'
    BY <1>q, <2>1 DEF Quiet
  <2> QED
    BY <1>1, <2>1, <2>3, <2>4
<1> QED
  BY <1>3, <1>4, <1>5, <1>6, <1>7, <1>10, <1>11, <1>12, <1>13, <1>15, <1>16, <1>17, <1>18, <1>19
     DEF S!Next, S!Loop, S!OnDemand, S!SyncSrc, S!Thread

(* What a step may do to a tree.                                            *)
LEMMA TreesKept ==
  ASSUME SyncType, NamesInv, TreeInv, [S!Next]_serviceVars
  PROVE  /\ \A d \in DOMAIN dirs \cap DOMAIN dirs' : dirs'[d].version = dirs[d].version
         /\ ~overlapped /\ links.src # 0 =>
              S!Exists(links.src) /\ dirs[links.src] = [version |-> srcEtag, files |-> S!File]
<1>1. ASSUME NEW t \in S!Thread, S!Extract(t) \/ S!Rest(t), NEW d \in DOMAIN dirs
      PROVE  dirs'[d].version = dirs[d].version
  <2>1. CASE S!Extract(t)
    BY <1>1, <2>1 DEF S!Extract, S!With, NamesInv
  <2>2. CASE S!Rest(t)
    BY <1>1, <2>2 DEF S!Rest, S!With, S!Exists, SyncType, Tree
  <2> QED
    BY <1>1, <2>1, <2>2
<1>2. ASSUME NEW t \in S!Thread, S!SyncSrc(t), ~S!Extract(t), ~S!Rest(t), NEW d \in DOMAIN dirs \cap DOMAIN dirs'
      PROVE  dirs'[d] = dirs[d]
  BY <1>2 DEF S!SyncSrc, S!Head, S!Get, S!Write, S!ExtractFails, S!Without, S!UnlinkTmp, S!Symlink, S!Raise, S!Replace, S!Reap
<1>3. \A t \in S!Thread, d \in DOMAIN dirs \cap DOMAIN dirs' : S!SyncSrc(t) => dirs'[d].version = dirs[d].version
  BY <1>1, <1>2
<1>4. S!Publish \/ S!Tick \/ S!SyncGraph \/ S!Demand \/ (\E t \in S!Thread : S!CallFails(t)) \/ S!Restart \/ UNCHANGED serviceVars
        => DOMAIN dirs' = {} \/ dirs' = dirs
  BY DEF S!Publish, S!Tick, S!SyncGraph, S!Demand, S!CallFails, S!Restart, serviceVars
<1>5. \A d \in DOMAIN dirs \cap DOMAIN dirs' : dirs'[d].version = dirs[d].version
  BY <1>3, <1>4 DEF S!Next, S!Loop, S!OnDemand, S!Thread
<1> QED
  BY <1>5 DEF TreeInv, Whole, S!Exists

(* "atomic for concurrent readers": a tree that a call resolved never turns *)
(* into another version's, and unless the loop and an on-demand caller      *)
(* overlapped the linked tree is whole and that of the recorded ETag        *)
(* (runtime/entrypoint.py, sync_src).                                       *)
THEOREM TreesHold == Spec => TreesAreOneVersion
<1> DEFINE TreesInv == SyncType /\ NamesInv /\ TreeInv
<1>1. Init => TreesInv
  BY SyncInit, TreeInit DEF Init
<1>2. [Next]_vars => [S!Next]_serviceVars
  BY Parting
<1>3. TreesInv /\ [Next]_vars => TreesInv'
  BY <1>2, SyncTypeNext, NamesNext, TreeNext
<1>4. TreesInv /\ [Next]_vars =>
        [/\ \A d \in DOMAIN dirs \cap DOMAIN dirs' : dirs'[d].version = dirs[d].version
         /\ ~overlapped /\ links.src # 0 =>
              S!Exists(links.src) /\ dirs[links.src] = [version |-> srcEtag, files |-> S!File]]_(S!serviceVars)
  BY <1>2, TreesKept
<1> HIDE DEF TreesInv
<1> QED
  BY <1>1, <1>3, <1>4, PTL DEF Spec, TreesAreOneVersion, S!TreesAreOneVersion

-----------------------------------------------------------------------------
(* The proxy. *)
LEMMA MinOfTwo ==
  ASSUME NEW a \in Int, NEW b \in Int
  PROVE  X!Min({a, b}) = IF a <= b THEN a ELSE b
BY DEF X!Min

LEMMA MaxOfTwo ==
  ASSUME NEW a \in Int, NEW b \in Int
  PROVE  X!Max({a, b}) = IF a >= b THEN a ELSE b
BY DEF X!Max

(* An entry that says "enabled" and still counts is at least as old as the *)
(* source has been off.                                                    *)
CacheInv ==
  /\ enabled \in BOOLEAN /\ offFor \in Nat /\ forwarded \in Nat
  /\ enabled => offFor = 0
  /\ seen # None =>
       /\ seen \in [value : BOOLEAN, age : Nat]
       /\ seen.value /\ seen.age < Ttl => offFor <= seen.age
  /\ forwarded <= Ttl

LEMMA CacheNext ==
  ASSUME Ttl \in Nat, None \notin [value : BOOLEAN, age : Nat], CacheInv, [X!Next]_proxyVars
  PROVE  CacheInv'
<1> USE DEF CacheInv
<1>1. CASE X!Switch
  BY <1>1 DEF X!Switch
<1>2. CASE X!Pass
  <2>1. offFor' = (IF enabled THEN 0 ELSE IF offFor + 1 <= Ttl + 1 THEN offFor + 1 ELSE Ttl + 1)
    BY <1>2, MinOfTwo DEF X!Pass
  <2>2. seen # None => seen' = [seen EXCEPT !.age = IF seen.age + 1 <= Ttl THEN seen.age + 1 ELSE Ttl]
    BY <1>2, MinOfTwo DEF X!Pass
  <2>3. enabled' = enabled /\ forwarded' = forwarded /\ (seen = None => seen' = None)
    BY <1>2 DEF X!Pass
  <2> QED
    BY <2>1, <2>2, <2>3
<1>3. CASE X!Resolve
  <2>1. X!Lookup \in [value : BOOLEAN, age : Nat]
    BY DEF X!Lookup
  <2>2. X!Lookup.value => offFor <= Ttl /\ (X!Lookup.age < Ttl => offFor <= X!Lookup.age)
    BY DEF X!Lookup
  <2>3. seen' = X!Lookup /\ offFor' = offFor /\ enabled' = enabled
    BY <1>3 DEF X!Resolve
  <2>4. forwarded' \in Nat /\ forwarded' <= Ttl
    BY <1>3, <2>2 DEF X!Resolve
  <2> QED
    BY <2>1, <2>2, <2>3, <2>4
<1>4. CASE X!Attempt \/ X!GiveUp
  <2>1. UNCHANGED <<enabled, offFor, seen, forwarded>>
    BY <1>4 DEF X!Attempt, X!GiveUp
  <2> QED
    BY <2>1, SMTT(30)
<1>5. CASE X!Return
  BY <1>5 DEF X!Return
<1>6. CASE UNCHANGED proxyVars
  BY <1>6 DEF proxyVars
<1> QED
  BY <1>1, <1>2, <1>3, <1>4, <1>5, <1>6 DEF X!Next

CallType == [pc : {"idle", "try", "done"}, attempt : Nat, left : Int, slow : BOOLEAN, usage : Nat]

(* The ways a call's record changes.                                        *)
LEMMA SpendingCall ==
  ASSUME NEW c \in CallType, NEW a \in Nat, NEW l \in Int, NEW s \in BOOLEAN
  PROVE  [c EXCEPT !.attempt = a, !.left = l, !.slow = s] \in CallType
BY DEF CallType

LEMMA EndingCall ==
  ASSUME NEW c \in CallType
  PROVE  X!Ended(c) \in CallType /\ X!Ended(c).attempt = c.attempt
           /\ X!Ended(c).left = c.left /\ X!Ended(c).slow = c.slow
<1>1. ASSUME NEW n \in Nat
      PROVE  LET e == [c EXCEPT !.pc = "done", !.usage = n] IN
               e \in CallType /\ e.attempt = c.attempt /\ e.left = c.left /\ e.slow = c.slow
  BY DEF CallType
<1>2. c.usage + 1 \in Nat
  BY DEF CallType
<1> QED
  BY <1>1, <1>2 DEF X!Ended

LEMMA PausingCall ==
  ASSUME NEW c \in CallType, NEW l \in Int
  PROVE  LET n == [c EXCEPT !.left = l] IN
           n \in CallType /\ n.attempt = c.attempt /\ n.left = l /\ n.slow = c.slow
BY DEF CallType

LEMMA BegunCall ==
  ASSUME Budget \in Nat
  PROVE  LET n == [X!NoCall EXCEPT !.pc = "try", !.left = Budget] IN
           n \in CallType /\ n.attempt = 0 /\ n.left = Budget
<1>1. ASSUME NEW c \in CallType, NEW l \in Int
      PROVE  LET n == [c EXCEPT !.pc = "try", !.left = l] IN
               n \in CallType /\ n.attempt = c.attempt /\ n.left = l
  BY DEF CallType
<1>2. X!NoCall \in CallType /\ X!NoCall.attempt = 0
  BY DEF CallType, X!NoCall
<1>3. Budget \in Int
  OBVIOUS
<1> QED
  BY <1>1, <1>2, <1>3, Zenon

(* What is left of a call's time: it only falls, and below zero only when *)
(* one attempt waited twice.                                              *)
CallInv ==
  /\ call \in CallType
  /\ call.attempt <= 3
  /\ call.left >= -Budget /\ call.left <= Budget
  /\ call.slow = FALSE => call.left >= 0

LEMMA CallNext ==
  ASSUME Budget \in Nat, CallInv, [X!Next]_proxyVars
  PROVE  CallInv'
<1> USE DEF CallInv
<1>t. call \in CallType /\ call.attempt \in Nat /\ call.left \in Int /\ call.slow \in BOOLEAN
  BY DEF CallType
<1>1. CASE X!Switch \/ X!Pass \/ UNCHANGED proxyVars
  <2>1. call' = call
    BY <1>1 DEF X!Switch, X!Pass, proxyVars
  <2> QED
    BY <2>1 DEF CallType
<1>2. CASE X!Resolve
  <2>1. call' = call \/ call' = [X!NoCall EXCEPT !.pc = "try", !.left = Budget]
    BY <1>2 DEF X!Resolve
  <2>2. CASE call' = [X!NoCall EXCEPT !.pc = "try", !.left = Budget]
    <3>1. call' \in CallType /\ call'.attempt = 0 /\ call'.left = Budget
      BY <2>2, BegunCall, Zenon
    <3> QED
      BY <3>1
  <2> QED
    BY <2>1, <2>2
<1>3. CASE X!Attempt
  <2>0. call.attempt < 3 /\ call.left > 1
    BY <1>3 DEF X!Attempt
  <2>1. PICK c \in 0..call.left, r \in 0..call.left :
          LET spent == [call EXCEPT !.attempt = @ + 1, !.left = @ - c - r,
                                    !.slow = @ \/ (c > 0 /\ r > 0)]
              pause == IF call.attempt < 2
                       THEN X!Min({call.attempt + 1, X!Max({spent.left, 0})}) ELSE 0 IN
          call' = X!Ended(spent) \/ call' = [spent EXCEPT !.left = @ - pause]
    BY <1>3 DEF X!Attempt, X!Allowance
  <2> DEFINE slow == call.slow \/ (c > 0 /\ r > 0)
             tries == call.attempt + 1
             remains == call.left - c - r
             spent == [call EXCEPT !.attempt = tries, !.left = remains, !.slow = slow]
             pause == IF call.attempt < 2 THEN X!Min({tries, X!Max({spent.left, 0})}) ELSE 0
             rest == spent.left - pause
  <2>2. call' = X!Ended(spent) \/ call' = [spent EXCEPT !.left = rest]
    BY <2>1, Zenon
  <2>3. /\ slow \in BOOLEAN /\ (slow = FALSE => remains >= 0)
        /\ tries \in Nat /\ tries <= 3
        /\ remains \in Int /\ remains >= -Budget /\ remains <= Budget
    BY <1>t, <2>0
  <2> HIDE DEF slow, tries, remains
  <2>4. /\ spent \in CallType /\ spent.attempt = tries
        /\ spent.left = remains /\ spent.slow = slow
    <3>1. spent \in CallType
      BY <1>t, <2>3, SpendingCall, Zenon
    <3>2. spent.attempt = tries
      BY <1>t, <2>3 DEF CallType
    <3>3. spent.left = remains
      BY <1>t, <2>3 DEF CallType
    <3>4. spent.slow = slow
      BY <1>t, <2>3 DEF CallType
    <3> QED
      BY <3>1, <3>2, <3>3, <3>4, Zenon
  <2> HIDE DEF spent
  <2>5. pause \in Nat /\ (pause <= remains \/ pause = 0)
    <3>1. X!Max({remains, 0}) = IF remains >= 0 THEN remains ELSE 0
      BY <2>3, MaxOfTwo
    <3>2. X!Max({remains, 0}) \in Nat
      BY <2>3, <3>1
    <3>3. X!Min({tries, X!Max({remains, 0})}) = IF tries <= X!Max({remains, 0}) THEN tries ELSE X!Max({remains, 0})
      BY <2>3, <3>2, MinOfTwo
    <3> QED
      BY <2>3, <2>4, <3>1, <3>2, <3>3
  <2>6. rest \in Int /\ rest <= Budget /\ rest >= -Budget /\ (remains >= 0 => rest >= 0)
    BY <2>3, <2>4, <2>5
  <2> HIDE DEF pause, rest
  <2>7. CASE call' = X!Ended(spent)
    <3>1. call' \in CallType /\ call'.attempt = tries /\ call'.left = remains /\ call'.slow = slow
      BY <2>4, <2>7, EndingCall, Zenon
    <3> QED
      BY <2>3, <3>1
  <2>8. CASE call' = [spent EXCEPT !.left = rest]
    <3>1. call' \in CallType /\ call'.attempt = tries /\ call'.left = rest /\ call'.slow = slow
      BY <2>4, <2>6, <2>8, PausingCall, Zenon
    <3> QED
      BY <2>3, <2>6, <3>1
  <2> QED
    BY <2>2, <2>7, <2>8
<1>4. CASE X!GiveUp
  BY <1>4, EndingCall DEF X!GiveUp
<1>5. CASE X!Return
  BY <1>5 DEF X!Return, X!NoCall, CallType
<1> QED
  BY <1>1, <1>2, <1>3, <1>4, <1>5 DEF X!Next

(* A source that is switched off gets no call once _ENABLED_TTL has passed, *)
(* however many calls keep asking for it (mcp_proxy/handler.py,             *)
(* resolve_host).                                                           *)
THEOREM SwitchedOff == Spec => []DisabledIsCutOff
<1>1. Init => CacheInv
  BY ServicesAssumption DEF Init, X!Init, CacheInv
<1>2. CacheInv /\ [Next]_vars => CacheInv'
  BY ServicesAssumption, Parting, CacheNext
<1>3. CacheInv => DisabledIsCutOff
  BY DEF CacheInv, X!DisabledIsCutOff, DisabledIsCutOff
<1> QED
  BY <1>1, <1>2, <1>3, PTL DEF Spec

(* "never per-attempt": however often a call is retried, its attempts share *)
(* one budget of time (mcp_proxy/handler.py, _forward).                     *)
THEOREM OneDeadline == Spec => []CallsShareOneBudget
<1>1. Init => CallInv
  BY ServicesAssumption DEF Init, X!Init, X!NoCall, CallInv, CallType
<1>2. CallInv /\ [Next]_vars => CallInv'
  BY ServicesAssumption, Parting, CallNext
<1>3. CallInv => CallsShareOneBudget
  BY ServicesAssumption DEF CallInv, CallType, X!CallsShareOneBudget, CallsShareOneBudget
<1> QED
  BY <1>1, <1>2, <1>3, PTL DEF Spec

-----------------------------------------------------------------------------
(* What the engine's discovery finds.  While no reason is given for a    *)
(* partial result, every line of what is indexed can be quoted and the   *)
(* candidates are the pairs of the phases that are over.                 *)
LEMMA TextsAreLines ==
  /\ MaxCandidates \in Nat /\ None \notin 1 .. 3
  /\ \A t \in Texts, s \in 1 .. 3 :
       /\ Len(t[s].lines) \in Nat /\ DOMAIN t[s].lines = 1 .. Len(t[s].lines)
       /\ \A n \in DOMAIN t[s].lines : t[s].lines[n].from \in Nat /\ t[s].lines[n].to \in Nat
BY ServicesAssumption

Found(stage) ==
  {q \in D!FeaturePairs(indexed) : stage \in {"files", "symbols", "done"}}
    \cup {q \in D!FilePairs(indexed) : stage \in {"symbols", "done"}}
    \cup {q \in D!SymbolPairs(indexed) : stage = "done"}

DiscoverInv ==
  /\ text \in Texts /\ indexed \subseteq D!Source
  /\ D!Cardinality(candidates) <= MaxCandidates
  /\ why = {} =>
       /\ \A s \in indexed : D!Lines(s) = DOMAIN text[s].lines
       /\ doing # "index" => indexed = D!Source
       /\ candidates = Found(doing)

LEMMA LinesAreBounded ==
  ASSUME text \in Texts
  PROVE  \E N \in Nat : \A s \in D!Source : DOMAIN text[s].lines \subseteq 1 .. N
<1>1. PICK a \in Nat, b \in Nat, c \in Nat :
        /\ DOMAIN text[1].lines = 1 .. a
        /\ DOMAIN text[2].lines = 1 .. b
        /\ DOMAIN text[3].lines = 1 .. c
  BY TextsAreLines
<1>2. PICK N \in Nat : N = a + b + c
  OBVIOUS
<1>3. DOMAIN text[1].lines \subseteq 1 .. N
  BY <1>1, <1>2
<1>4. DOMAIN text[2].lines \subseteq 1 .. N
  BY <1>1, <1>2
<1>5. DOMAIN text[3].lines \subseteq 1 .. N
  BY <1>1, <1>2
<1>6. \A s \in D!Source : s = 1 \/ s = 2 \/ s = 3
  BY DEF D!Source
<1> QED
  BY <1>3, <1>4, <1>5, <1>6

LEMMA PlacesAreFinite ==
  ASSUME text \in Texts
  PROVE  IsFiniteSet(D!AllPlaces)
<1>1. PICK N \in Nat : \A s \in D!Source : DOMAIN text[s].lines \subseteq 1 .. N
  BY LinesAreBounded
<1>2. IsFiniteSet(D!Source \X (1 .. N))
  <2>1. ASSUME NEW k \in Nat
        PROVE  IsFiniteSet(1 .. k)
    BY <2>1, FS_Interval
  <2>2. IsFiniteSet(D!Source)
    BY <2>1 DEF D!Source
  <2> QED
    BY <2>1, <2>2, FS_Product
<1> DEFINE f == [u \in D!Source \X (1 .. N) |-> D!Place(u[1], u[2])]
           T == {D!Place(u[1], u[2]) : u \in D!Source \X (1 .. N)}
<1>3. f \in Surjection(D!Source \X (1 .. N), T)
  BY DEF Surjection
<1>4. D!AllPlaces \subseteq T
  <2>1. ASSUME NEW s \in D!Source, NEW n \in D!Lines(s)
        PROVE  D!Place(s, n) \in T
    <3>1. n \in 1 .. N
      BY <1>1, <2>1 DEF D!Lines
    <3>2. <<s, n>> \in D!Source \X (1 .. N)
      BY <3>1
    <3> QED
      BY <3>2
  <2> HIDE DEF T
  <2> QED
    BY <2>1 DEF D!AllPlaces
<1> HIDE DEF f, T
<1> QED
  BY <1>2, <1>3, <1>4, FS_Surjection, FS_Subset

LEMMA OnlyOne ==
  ASSUME text \in Texts, NEW T \in SUBSET D!AllPlaces
  PROVE  D!Cardinality(T) = 1 <=> \E x : T = {x}
<1>1. Cardinality(T) = 1 <=> \E x : T = {x}
  BY PlacesAreFinite, FS_Subset, FS_Singleton
<1>2. D!Cardinality(T) = Cardinality(T)
  BY DEF D!Cardinality, Cardinality
<1> QED
  BY <1>1, <1>2

LEMMA PlacesOf ==
  ASSUME NEW is
  PROVE  D!Places(D!Source, is) = {p \in D!AllPlaces : D!Said(p).is = is}
BY DEF D!Places, D!AllPlaces, D!Said

(* The pairs of one reference.                                              *)
FileTo(p) ==
  {t \in D!FileTargets(D!Source, D!Said(p).of) : t.source # p.source /\ D!Said(p).source \in {None, t.source}}
FileOf(p) ==
  IF (D!Said(p).source = None /\ text[p.source].file = D!Said(p).of) \/ D!Cardinality(FileTo(p)) # 1
  THEN {} ELSE {p} \X UNION {D!Quotes(p, t) : t \in FileTo(p)}
Declared(p) == {t \in D!Places(D!Source, "declares") : D!Said(t).of = D!Said(p).of}
SymbolTo(p) == {t \in Declared(p) : t.source # p.source}
SymbolOf(p) ==
  IF SymbolTo(p) # Declared(p) \/ D!Cardinality(SymbolTo(p)) # 1 THEN {} ELSE {p} \X SymbolTo(p)

LEMMA ByReference ==
  /\ \A p, q : <<p, q>> \in D!FilePairs(D!Source) <=>
       /\ p \in D!Places(D!Source, "file") /\ ~(D!Said(p).source = None /\ text[p.source].file = D!Said(p).of)
       /\ D!Cardinality(FileTo(p)) = 1 /\ \E t \in FileTo(p) : q \in D!Quotes(p, t)
  /\ \A p, q : <<p, q>> \in D!SymbolPairs(D!Source) <=>
       /\ p \in D!Places(D!Source, "symbol") /\ SymbolTo(p) = Declared(p)
       /\ D!Cardinality(SymbolTo(p)) = 1 /\ q \in SymbolTo(p)
  /\ \A u \in D!FilePairs(D!Source) \cup D!SymbolPairs(D!Source) : u = <<u[1], u[2]>>
<1>1. D!FilePairs(D!Source) = UNION {FileOf(p) : p \in D!Places(D!Source, "file")}
  BY DEF D!FilePairs, FileOf, FileTo
<1>2. D!SymbolPairs(D!Source) = UNION {SymbolOf(p) : p \in D!Places(D!Source, "symbol")}
  BY DEF D!SymbolPairs, SymbolOf, SymbolTo, Declared
<1>3. \A p : \A u \in FileOf(p) \cup SymbolOf(p) : u = <<u[1], u[2]>> /\ u[1] = p
  BY DEF FileOf, SymbolOf
<1>4. \A p, q : <<p, q>> \in FileOf(p) <=>
        /\ ~(D!Said(p).source = None /\ text[p.source].file = D!Said(p).of)
        /\ D!Cardinality(FileTo(p)) = 1 /\ \E t \in FileTo(p) : q \in D!Quotes(p, t)
  BY DEF FileOf
<1>5. \A p, q : <<p, q>> \in SymbolOf(p) <=>
        SymbolTo(p) = Declared(p) /\ D!Cardinality(SymbolTo(p)) = 1 /\ q \in SymbolTo(p)
  BY DEF SymbolOf
<1>6. \A p, q : <<p, q>> \in D!FilePairs(D!Source) <=> p \in D!Places(D!Source, "file") /\ <<p, q>> \in FileOf(p)
  BY <1>1, <1>3
<1>7. \A p, q : <<p, q>> \in D!SymbolPairs(D!Source) <=> p \in D!Places(D!Source, "symbol") /\ <<p, q>> \in SymbolOf(p)
  BY <1>2, <1>3
<1> QED
  BY <1>1, <1>2, <1>3, <1>4, <1>5, <1>6, <1>7

LEMMA Complete ==
  ASSUME text \in Texts, \A s \in D!Source : D!Lines(s) = DOMAIN text[s].lines
  PROVE  D!FeaturePairs(D!Source) \cup D!FilePairs(D!Source) \cup D!SymbolPairs(D!Source)
           = {q \in D!AllPlaces \X D!AllPlaces : D!Related(q[1], q[2])}
<1>1. ASSUME NEW s \in D!Source
      PROVE  \A n \in D!Lines(s) : 1 \in D!Lines(s)
  BY <1>1, TextsAreLines DEF D!Source
<1>p. \A p \in D!AllPlaces : p.source \in D!Source /\ p.line \in D!Lines(p.source) /\ p = D!Place(p.source, p.line)
  BY DEF D!AllPlaces, D!Place
<1>f. ASSUME NEW p \in D!AllPlaces, NEW q \in D!AllPlaces
      PROVE  <<p, q>> \in D!FeaturePairs(D!Source) <=>
               /\ p.source < q.source /\ D!Said(p).is = "feature" /\ D!Said(q).is = "feature"
               /\ D!Said(p).of = D!Said(q).of
               /\ ~(D!Said(p).hosts # {} /\ D!Said(q).hosts # {} /\ \A h \in D!Said(p).hosts : h \notin D!Said(q).hosts)
  BY <1>f, PlacesOf DEF D!FeaturePairs, D!Comparable, D!Agree
<1>s. ASSUME NEW p \in D!AllPlaces, NEW q \in D!AllPlaces
      PROVE  <<p, q>> \in D!SymbolPairs(D!Source) <=>
               /\ D!Said(p).is = "symbol" /\ D!Said(q).is = "declares" /\ p.source # q.source
               /\ \A r \in D!Places(D!Source, "declares") : D!Said(r).of = D!Said(p).of => r = q
               /\ D!Said(q).of = D!Said(p).of
  <2> DEFINE declared == Declared(p)
             other == SymbolTo(p)
  <2>1. D!Cardinality(other) = 1 <=> \E x : other = {x}
    <3>1. other \in SUBSET D!AllPlaces
      BY PlacesOf DEF SymbolTo, Declared
    <3> HIDE DEF other
    <3> QED
      BY <3>1, OnlyOne
  <2>2. <<p, q>> \in D!SymbolPairs(D!Source) <=>
          D!Said(p).is = "symbol" /\ other = declared /\ D!Cardinality(other) = 1 /\ q \in other
    <3>1. p \in D!Places(D!Source, "symbol") <=> D!Said(p).is = "symbol"
      BY PlacesOf
    <3> QED
      BY <3>1, ByReference
  <2>3. q \in other <=> D!Said(q).is = "declares" /\ D!Said(q).of = D!Said(p).of /\ q.source # p.source
    BY PlacesOf DEF SymbolTo, Declared
  <2>4. other = declared /\ D!Cardinality(other) = 1 /\ q \in other =>
          \A r \in D!Places(D!Source, "declares") : D!Said(r).of = D!Said(p).of => r = q
    BY <2>1 DEF SymbolTo, Declared
  <2>5. q \in other /\ (\A r \in D!Places(D!Source, "declares") : D!Said(r).of = D!Said(p).of => r = q) =>
          other = declared /\ other = {q}
    BY DEF SymbolTo, Declared
  <2> HIDE DEF declared, other
  <2> QED
    BY <2>1, <2>2, <2>3, <2>4, <2>5
<1>r. ASSUME NEW p \in D!AllPlaces, NEW q \in D!AllPlaces
      PROVE  <<p, q>> \in D!FilePairs(D!Source) <=>
               /\ D!Said(p).is = "file" /\ p.source # q.source
               /\ IF D!Said(p).from = 0 THEN q.line = 1 ELSE q.line = D!Said(p).from /\ D!Quotable(p, q.source)
               /\ text[q.source].file = D!Said(p).of
               /\ \/ D!Said(p).source = q.source
                  \/ /\ D!Said(p).source = None
                     /\ \A s \in D!Source : text[s].file = D!Said(p).of /\ 1 \in DOMAIN text[s].lines => s = q.source
  <2> DEFINE to == FileTo(p)
             own == D!Said(p).source = None /\ text[p.source].file = D!Said(p).of
             whole == D!Place(q.source, 1)
  <2>0. whole \in D!AllPlaces /\ whole.source = q.source /\ whole.line = 1
    BY <1>1, <1>p DEF D!AllPlaces, D!Place
  <2>1. \A t : t \in D!FileTargets(D!Source, D!Said(p).of) <=>
          t \in D!AllPlaces /\ t.line = 1 /\ text[t.source].file = D!Said(p).of
    BY <1>p DEF D!FileTargets, D!AllPlaces, D!Place
  <2>2. D!Cardinality(to) = 1 <=> \E x : to = {x}
    <3>1. to \in SUBSET D!AllPlaces
      BY <2>1 DEF FileTo
    <3> HIDE DEF to
    <3> QED
      BY <3>1, OnlyOne
  <2>3. <<p, q>> \in D!FilePairs(D!Source) <=>
          D!Said(p).is = "file" /\ ~own /\ D!Cardinality(to) = 1 /\ \E t \in to : q \in D!Quotes(p, t)
    <3>1. p \in D!Places(D!Source, "file") <=> D!Said(p).is = "file"
      BY PlacesOf
    <3> QED
      BY <3>1, ByReference
  <2>4. whole \in to <=> /\ p.source # q.source /\ text[q.source].file = D!Said(p).of
                         /\ D!Said(p).source \in {None, q.source}
    BY <2>0, <2>1 DEF FileTo
  <2>q. (\E t \in to : q \in D!Quotes(p, t)) <=>
          /\ whole \in to
          /\ IF D!Said(p).from = 0 THEN q.line = 1 ELSE q.line = D!Said(p).from /\ D!Quotable(p, q.source)
    <3>1. \A t \in to : t = D!Place(t.source, 1)
      BY <1>p, <2>1 DEF FileTo
    <3>2. q = D!Place(q.source, q.line)
      BY <1>p
    <3>3. \A a, b, c, d : D!Place(a, b) = D!Place(c, d) <=> a = c /\ b = d
      BY DEF D!Place
    <3> HIDE DEF to
    <3> QED
      BY <3>1, <3>2, <3>3, <2>0 DEF D!Quotes
  <2>5. ASSUME ~own, D!Cardinality(to) = 1, whole \in to, D!Said(p).source = None,
               NEW s \in D!Source, text[s].file = D!Said(p).of, 1 \in DOMAIN text[s].lines
        PROVE  s = q.source
    <3>1. D!Place(s, 1) \in D!AllPlaces /\ D!Place(s, 1).source = s /\ D!Place(s, 1).line = 1
      BY <2>5 DEF D!AllPlaces, D!Place
    <3>2. D!Place(s, 1) \in to
      BY <2>1, <2>5, <3>1 DEF FileTo
    <3> HIDE DEF to, own, whole
    <3> QED
      BY <2>0, <2>2, <2>5, <3>1, <3>2
  <2>6. ASSUME whole \in to, D!Said(p).source = q.source \/
                 /\ D!Said(p).source = None
                 /\ \A s \in D!Source : text[s].file = D!Said(p).of /\ 1 \in DOMAIN text[s].lines => s = q.source
        PROVE  ~own /\ to = {whole}
    <3>1. 1 \in DOMAIN text[p.source].lines /\ p.source \in D!Source /\ q.source \in D!Source /\ None \notin D!Source
      BY <1>1, <1>p, TextsAreLines DEF D!Source
    <3>2. ~own
      BY <2>4, <2>6, <3>1
    <3>3. ASSUME NEW t \in to
          PROVE  t = whole
      <4>1. t \in D!AllPlaces /\ t.line = 1 /\ text[t.source].file = D!Said(p).of /\ D!Said(p).source \in {None, t.source}
        BY <2>1, <3>3 DEF FileTo
      <4>2. t.source \in D!Source /\ 1 \in DOMAIN text[t.source].lines
        BY <1>p, <4>1
      <4>3. t.source = q.source
        BY <2>6, <3>1, <4>1, <4>2
      <4> QED
        BY <1>p, <2>0, <4>1, <4>3
    <3> QED
      BY <2>6, <3>2, <3>3
  <2> HIDE DEF to, own, whole
  <2>7. None \notin D!Source /\ q.source \in D!Source
    BY <1>p, TextsAreLines DEF D!Source
  <2> QED
    BY <2>2, <2>3, <2>4, <2>q, <2>5, <2>6, <2>7
<1>2. D!FeaturePairs(D!Source) \cup D!FilePairs(D!Source) \cup D!SymbolPairs(D!Source) \subseteq D!AllPlaces \X D!AllPlaces
  <2>1. \A is : D!Places(D!Source, is) \subseteq D!AllPlaces
    BY PlacesOf
  <2>2. \A name : D!FileTargets(D!Source, name) \subseteq D!AllPlaces
    BY DEF D!FileTargets, D!AllPlaces
  <2>3. D!FeaturePairs(D!Source) \subseteq D!AllPlaces \X D!AllPlaces
    BY <2>1 DEF D!FeaturePairs, D!Comparable
  <2>4. D!FilePairs(D!Source) \subseteq D!AllPlaces \X D!AllPlaces
    <3>1. ASSUME NEW u \in D!FilePairs(D!Source)
          PROVE  u \in D!AllPlaces \X D!AllPlaces
      <4>1. u = <<u[1], u[2]>>
        BY <3>1, ByReference
      <4>2. PICK t \in FileTo(u[1]) : u[1] \in D!AllPlaces /\ u[2] \in D!Quotes(u[1], t)
        BY <2>1, <3>1, <4>1, ByReference
      <4>3. t \in D!AllPlaces
        BY <2>2 DEF FileTo
      <4>4. D!Said(u[1]).from \in Nat /\ D!Said(u[1]).to \in Nat
        BY <1>p, <4>2, TextsAreLines DEF D!Said, D!Lines, D!Source
      <4>5. D!Quotable(u[1], t.source) => D!Said(u[1]).from \in D!Lines(t.source)
        BY <4>4 DEF D!Quotable
      <4>6. u[2] \in D!AllPlaces
        BY <1>p, <4>2, <4>3, <4>5 DEF D!Quotes, D!AllPlaces
      <4> QED
        BY <4>1, <4>2, <4>6
    <3> QED
      BY <3>1
  <2>5. D!SymbolPairs(D!Source) \subseteq D!AllPlaces \X D!AllPlaces
    <3>1. ASSUME NEW u \in D!SymbolPairs(D!Source)
          PROVE  u \in D!AllPlaces \X D!AllPlaces
      <4>1. u = <<u[1], u[2]>>
        BY <3>1, ByReference
      <4>2. u[1] \in D!AllPlaces /\ u[2] \in SymbolTo(u[1])
        BY <2>1, <3>1, <4>1, ByReference
      <4> QED
        BY <2>1, <4>1, <4>2 DEF SymbolTo, Declared
    <3> QED
      BY <3>1
  <2> QED
    BY <2>3, <2>4, <2>5
<1>3. ASSUME NEW p \in D!AllPlaces, NEW q \in D!AllPlaces
      PROVE  <<p, q>> \in D!FeaturePairs(D!Source) \cup D!FilePairs(D!Source) \cup D!SymbolPairs(D!Source) <=> D!Related(p, q)
  BY <1>f, <1>s, <1>r, <1>3 DEF D!Related
<1> QED
  BY <1>2, <1>3

LEMMA DiscoverInit ==
  ASSUME D!Init
  PROVE  DiscoverInv
<1>1. Cardinality({}) = 0
  BY FS_EmptySet
<1>2. D!Cardinality({}) = Cardinality({})
  BY DEF D!Cardinality, Cardinality
<1> QED
  BY <1>1, <1>2, TextsAreLines DEF D!Init, DiscoverInv, Found

LEMMA DiscoverNext ==
  ASSUME DiscoverInv, [D!Next]_discoverVars
  PROVE  DiscoverInv'
<1>0. text' = text
  BY DEF D!Next, D!Index, D!Features, D!Files, D!Symbols, D!Late, discoverVars
<1>1. CASE D!Index
  <2>1. PICK s \in D!Source \ indexed :
          /\ \A r \in D!Source \ indexed : s <= r
          /\ indexed' = indexed \cup {s}
          /\ why' = {} => why = {} /\ D!Lines(s) = DOMAIN text[s].lines /\ (doing' # "index" => s = 3)
          /\ doing' \in {"index", "features"}
    BY <1>1 DEF D!Index
  <2>2. s = 3 => indexed' = D!Source
    <3>1. ASSUME s = 3, NEW r \in D!Source
          PROVE  r \in indexed'
      BY <2>1, <3>1 DEF D!Source
    <3>2. indexed' \subseteq D!Source
      BY <2>1 DEF DiscoverInv
    <3> QED
      BY <3>1, <3>2
  <2>3. why' = {} => candidates' = {}
    BY <1>1, <2>1 DEF D!Index, DiscoverInv, Found
  <2>4. Found(doing)' = {}
    BY <2>1 DEF Found
  <2>5. \A r \in D!Source : D!Lines(r)' = D!Lines(r)
    BY <1>0 DEF D!Lines
  <2> QED
    BY <1>0, <1>1, <2>1, <2>2, <2>3, <2>4, <2>5 DEF DiscoverInv, D!Index
<1>c. ASSUME indexed' = indexed
      PROVE  /\ D!FeaturePairs(indexed)' = D!FeaturePairs(indexed) /\ D!FilePairs(indexed)' = D!FilePairs(indexed)
             /\ D!SymbolPairs(indexed)' = D!SymbolPairs(indexed)
             /\ \A s \in indexed : D!Lines(s)' = D!Lines(s)
  BY <1>0, <1>c DEF D!FeaturePairs, D!Comparable, D!Agree, D!FilePairs, D!FileTargets, D!Quotes, D!Quotable, D!SymbolPairs, D!Places, D!Lines, D!Said
<1>2. ASSUME doing # "index", indexed' = indexed, D!Cardinality(candidates') <= MaxCandidates,
             why' = {} => why = {} /\ doing' # "index" /\ candidates' = Found(doing)'
      PROVE  DiscoverInv'
  BY <1>0, <1>2, <1>c DEF DiscoverInv
<1>3. ASSUME NEW pairs, NEW next, D!Add(pairs, next)
      PROVE  /\ D!Cardinality(candidates') <= MaxCandidates
             /\ why' = {} => why = {} /\ doing' = next /\ candidates' = candidates \cup pairs
  <2>1. CASE D!Cardinality(candidates \cup pairs) <= MaxCandidates
    BY <1>3, <2>1 DEF D!Add
  <2>2. CASE ~(D!Cardinality(candidates \cup pairs) <= MaxCandidates)
    <3>1. PICK fit \in SUBSET pairs : D!Cardinality(candidates \cup fit) = MaxCandidates /\ candidates' = candidates \cup fit
      BY <1>3, <2>2 DEF D!Add
    <3>2. D!Cardinality(candidates') <= MaxCandidates
      BY <3>1, TextsAreLines
    <3> QED
      BY <1>3, <2>2, <3>2 DEF D!Add
  <2> QED
    BY <2>1, <2>2
<1>4. CASE D!Features
  <2>1. CASE D!Add(D!FeaturePairs(indexed), "files")
    <3>1. indexed' = indexed /\ doing = "features"
      BY <1>4 DEF D!Features
    <3>2. why = {} => candidates = {}
      BY <3>1 DEF DiscoverInv, Found
    <3>3. doing' = "files" => Found(doing)' = D!FeaturePairs(indexed)
      BY <1>c, <3>1 DEF Found
    <3> QED
      BY <1>2, <1>3, <2>1, <3>1, <3>2, <3>3
  <2> QED
    BY <1>2, <1>4, <2>1 DEF D!Features
<1>5. CASE D!Files
  <2>1. indexed' = indexed /\ doing = "files" /\ D!Add(D!FilePairs(indexed), "symbols")
    BY <1>5 DEF D!Files
  <2>2. why = {} => candidates = D!FeaturePairs(indexed)
    BY <2>1 DEF DiscoverInv, Found
  <2>3. doing' = "symbols" => Found(doing)' = D!FeaturePairs(indexed) \cup D!FilePairs(indexed)
    BY <1>c, <2>1 DEF Found
  <2> QED
    BY <1>2, <1>3, <2>1, <2>2, <2>3
<1>6. CASE D!Symbols
  <2>1. indexed' = indexed /\ doing = "symbols" /\ D!Add(D!SymbolPairs(indexed), "done")
    BY <1>6 DEF D!Symbols
  <2>2. why = {} => candidates = D!FeaturePairs(indexed) \cup D!FilePairs(indexed)
    BY <2>1 DEF DiscoverInv, Found
  <2>3. doing' = "done" => Found(doing)' = D!FeaturePairs(indexed) \cup D!FilePairs(indexed) \cup D!SymbolPairs(indexed)
    BY <1>c, <2>1 DEF Found
  <2> QED
    BY <1>2, <1>3, <2>1, <2>2, <2>3
<1>7. CASE D!Late
  BY <1>0, <1>7 DEF D!Late, DiscoverInv
<1>8. CASE UNCHANGED discoverVars
  BY <1>8, <1>c DEF discoverVars, DiscoverInv, Found
<1> QED
  BY <1>1, <1>4, <1>5, <1>6, <1>7, <1>8 DEF D!Next

LEMMA DiscoveryWhole ==
  ASSUME DiscoverInv
  PROVE  D!DiscoveryIsComplete
<1>1. ASSUME doing = "done", why = {}
      PROVE  candidates = {q \in D!AllPlaces \X D!AllPlaces : D!Related(q[1], q[2])}
  <2>1. indexed = D!Source /\ \A s \in D!Source : D!Lines(s) = DOMAIN text[s].lines
    BY <1>1 DEF DiscoverInv
  <2>2. candidates = D!FeaturePairs(D!Source) \cup D!FilePairs(D!Source) \cup D!SymbolPairs(D!Source)
    BY <1>1, <2>1 DEF DiscoverInv, Found
  <2> QED
    BY <2>1, <2>2, Complete DEF DiscoverInv
<1> QED
  BY <1>1 DEF DiscoverInv, D!DiscoveryIsComplete

(* A result that names no reason for being partial is every pair of places *)
(* that belong together and no other, and the limit holds (engine.py,      *)
(* discover).                                                              *)
THEOREM DiscoveredAll == Spec => []DiscoveryIsComplete
<1>1. Init => DiscoverInv
  BY DiscoverInit DEF Init
<1>2. DiscoverInv /\ [Next]_vars => DiscoverInv'
  BY Parting, DiscoverNext
<1>3. DiscoverInv => DiscoveryIsComplete
  BY DiscoveryWhole DEF DiscoveryIsComplete
<1> QED
  BY <1>1, <1>2, <1>3, PTL DEF Spec

-----------------------------------------------------------------------------
(* The playground.  Every turn has time for its reply: *)
Kinds == {"chat", "stream"}
Steps == {"rest", "budget", "model", "meter", "tools"}
TurnType ==
  [pc : Steps, kind : Kinds, left : Int, asks : Nat, answers : Nat, cost : 0 .. MaxCost,
   aborted : BOOLEAN, slow : BOOLEAN]

(* until the model is called it has nearly all of its Lambda's time.        *)
Timely(c) ==
  /\ c.pc # "rest" => c.left >= 0 /\ (~c.slow => c.left > 0)
  /\ c.pc \in {"budget", "model"} =>
       c.left \in (IF c.kind = "chat" THEN {28} ELSE {285, 300})

TurnInv == DOMAIN turn = Turns /\ \A t \in Turns : turn[t] \in TurnType /\ Timely(turn[t])

LEMMA TurnSet ==
  ASSUME TurnInv, NEW t \in Turns, NEW c \in TurnType, Timely(c), turn' = [turn EXCEPT ![t] = c]
  PROVE  TurnInv'
BY DEF TurnInv, Timely

LEMMA TurnStep ==
  ASSUME TurnInv, NEW t \in Turns,
         \/ L!Authorize(t) \/ L!CheckBudget(t) \/ L!Generate(t) \/ L!Break(t) \/ L!Meter(t)
         \/ L!CallTool(t) \/ L!SkipTool(t) \/ L!Reply(t)
  PROVE  TurnInv'
<1> DEFINE c == turn[t]
<1>0. /\ c \in TurnType /\ Timely(c) /\ DOMAIN turn = Turns
      /\ c.pc \in Steps /\ c.kind \in Kinds /\ c.left \in Int /\ c.asks \in Nat /\ c.answers \in Nat
      /\ c.cost \in 0 .. MaxCost /\ c.aborted \in BOOLEAN /\ c.slow \in BOOLEAN
      /\ MaxCost \in Nat /\ MaxAsks \in Nat /\ 0 \in 0 .. MaxCost
  BY ServicesAssumption DEF TurnInv, TurnType
<1>r. c = [pc |-> c.pc, kind |-> c.kind, left |-> c.left, asks |-> c.asks, answers |-> c.answers,
           cost |-> c.cost, aborted |-> c.aborted, slow |-> c.slow]
  BY <1>0 DEF TurnType
<1>b. c.pc = "model" => (c.kind = "chat" /\ c.left = 28) \/ (c.kind # "chat" /\ c.left \in {285, 300})
  BY <1>0 DEF Timely
<1>m. L!ModelTime(t) = IF c.kind = "chat" THEN 24 ELSE IF 5 >= c.left - 12 THEN 5 ELSE c.left - 12
  BY DEF L!ModelTime, L!Most
<1>1. ASSUME turn' = [turn EXCEPT ![t] = L!Resting]
      PROVE  TurnInv'
  <2>1. L!Resting \in TurnType /\ L!Resting.pc = "rest"
    BY <1>0 DEF L!Resting, TurnType, Kinds, Steps
  <2> QED
    BY <1>1, <2>1, TurnSet DEF Timely
<1>2. CASE L!Authorize(t)
  <2>1. PICK kind2 \in Kinds, d \in {0, 15} :
          /\ kind2 = "chat" => d = 0
          /\ turn' = [turn EXCEPT ![t] = [L!Resting EXCEPT !.pc = "budget", !.kind = kind2,
                                                          !.left = L!Wall[kind2] - d]]
    BY <1>2 DEF L!Authorize, Kinds
  <2>2. ASSUME NEW l \in Int
        PROVE  LET n == [L!Resting EXCEPT !.pc = "budget", !.kind = kind2, !.left = l] IN
                 n \in TurnType /\ n.pc = "budget" /\ n.kind = kind2 /\ n.left = l
    BY <1>0 DEF L!Resting, TurnType, Kinds, Steps
  <2>3. /\ L!Wall[kind2] - d \in Int
        /\ L!Wall[kind2] - d \in (IF kind2 = "chat" THEN {28} ELSE {285, 300})
    BY <2>1 DEF L!Wall, Kinds
  <2> DEFINE n == [L!Resting EXCEPT !.pc = "budget", !.kind = kind2, !.left = L!Wall[kind2] - d]
  <2>4. n \in TurnType /\ n.pc = "budget" /\ n.kind = kind2 /\ n.left = L!Wall[kind2] - d
    BY <2>2, <2>3, Zenon
  <2> HIDE DEF n
  <2>5. Timely(n)
    BY <2>3, <2>4 DEF Timely
  <2> QED
    BY <2>1, <2>4, <2>5, TurnSet DEF n
<1>3. CASE L!CheckBudget(t)
  BY <1>0, <1>1, <1>3, TurnSet DEF L!CheckBudget, L!End, L!Goto, L!At, TurnType, Timely, Kinds, Steps
<1>4. CASE L!Generate(t)
  <2>0. c.pc = "model"
    BY <1>4, ZenonT(40) DEF L!Generate, L!At
  <2>1. PICK d \in {4, L!ModelTime(t)}, cost \in 1 .. MaxCost, asks \in 0 .. MaxAsks :
          turn' = [turn EXCEPT ![t].pc = "meter", ![t].left = @ - d, ![t].cost = cost, ![t].asks = asks]
    BY <1>4, ZenonT(40) DEF L!Generate
  <2>2. c.left - d \in Int /\ c.left - d > 0
    BY <1>0, <1>b, <1>m, <2>0, <2>1
  <2>3. PICK l \in Int : l = c.left - d /\ l > 0
    BY <2>2
  <2>4. l \in Int /\ asks \in Nat /\ cost \in 0 .. MaxCost
    BY <1>0, <2>3, <2>1
  <2> DEFINE n == [turn[t] EXCEPT !.pc = "meter", !.left = l, !.cost = cost, !.asks = asks]
  <2>5. turn' = [turn EXCEPT ![t] = n]
    BY <2>1, <2>3
  <2>6. n \in TurnType
    BY <1>0, <2>4 DEF TurnType, Steps
  <2>7. Timely(n)
    BY <1>0, <2>0, <2>3 DEF TurnType, Timely
  <2> HIDE DEF n
  <2> QED
    BY <2>5, <2>6, <2>7, SMTT(30) DEF TurnInv
<1>5. CASE L!Break(t)
  <2>0. c.pc = "model"
    BY <1>5 DEF L!Break, L!At
  <2>1. ASSUME NEW cost \in 1 .. MaxCost,
               turn' = [turn EXCEPT ![t].pc = "meter", ![t].left = @ - L!ModelTime(t),
                                    ![t].cost = cost, ![t].aborted = TRUE]
        PROVE  TurnInv'
    <3>2. c.left - L!ModelTime(t) \in Int /\ c.left - L!ModelTime(t) > 0
      BY <1>0, <1>b, <1>m, <2>0
    <3>3. PICK l \in Int : l = c.left - L!ModelTime(t) /\ l > 0
      BY <3>2
    <3>4. l \in Int /\ cost \in 0 .. MaxCost
      BY <1>0, <3>3
    <3> DEFINE n == [turn[t] EXCEPT !.pc = "meter", !.left = l, !.cost = cost, !.aborted = TRUE]
    <3>5. turn' = [turn EXCEPT ![t] = n]
      BY <2>1, <3>3
    <3>6. n \in TurnType
      BY <1>0, <3>4 DEF TurnType, Steps
    <3>7. Timely(n)
      BY <1>0, <3>3 DEF TurnType, Timely
    <3> HIDE DEF n
    <3> QED
      BY <3>5, <3>6, <3>7 DEF TurnInv
  <2> QED
    BY <1>1, <1>5, <2>1, ZenonT(40) DEF L!Break, L!End
<1>6. CASE L!Meter(t)
  BY <1>0, <1>1, <1>6, TurnSet DEF L!Meter, L!End, L!At, TurnType, Timely, Kinds, Steps
<1>7. CASE L!CallTool(t)
  <2>0. c.pc = "tools"
    BY <1>7 DEF L!CallTool, L!At
  <2>1. PICK d \in {1, L!ToolTime(t)}, k \in {0, L!ConnectTime(t)} :
          turn' = [turn EXCEPT ![t].answers = @ + 1, ![t].left = @ - (k + d), ![t].slow = @ \/ k > 0]
    BY <1>7 DEF L!CallTool
  <2>2. /\ c.left - (k + d) \in Int /\ c.left - (k + d) >= 0
        /\ k = 0 => c.left - (k + d) > 0
        /\ k >= 0
    BY <1>0, <1>7, <2>1 DEF L!CallTool, L!At, L!Spare, L!ToolTime, L!ConnectTime, L!Most, L!Least, Kinds
  <2>3. PICK l \in Int : l = c.left - (k + d) /\ l >= 0 /\ (k = 0 => l > 0)
    BY <2>2
  <2>4. PICK s \in BOOLEAN : s = (c.slow \/ k > 0) /\ (~s => l > 0)
    <3>1. c.slow \in BOOLEAN /\ (~(k > 0) => k = 0)
      BY <1>0, <2>1, <2>2 DEF L!ConnectTime
    <3> QED
      BY <2>3, <3>1
  <2> DEFINE m == [turn[t] EXCEPT !.answers = @ + 1]
             n == [[m EXCEPT !.left = l] EXCEPT !.slow = s]
  <2>5. turn' = [turn EXCEPT ![t] = n]
    BY <2>1, <2>3, <2>4
  <2>6. n \in TurnType /\ n.left = l /\ n.slow = s /\ n.pc = c.pc /\ n.kind = c.kind
    <3>1. m \in TurnType /\ m.pc = c.pc /\ m.kind = c.kind
      BY <1>0 DEF TurnType
    <3> HIDE DEF m
    <3> QED
      BY <3>1, <2>3, <2>4 DEF TurnType
  <2>7. Timely(n)
    BY <2>0, <2>3, <2>4, <2>6 DEF Timely
  <2> HIDE DEF n
  <2> QED
    BY <2>5, <2>6, <2>7 DEF TurnInv
<1>8. CASE L!SkipTool(t)
  <2>0. c.pc = "tools"
    BY <1>8 DEF L!SkipTool, L!At
  <2> DEFINE n == [turn[t] EXCEPT !.answers = @ + 1]
  <2>5. turn' = [turn EXCEPT ![t] = n]
    BY <1>8 DEF L!SkipTool, L!At
  <2>6. n \in TurnType
    BY <1>0 DEF TurnType, Steps
  <2>7. Timely(n)
    BY <1>0, <2>0 DEF TurnType, Timely
  <2> HIDE DEF n
  <2> QED
    BY <2>5, <2>6, <2>7 DEF TurnInv
<1>9. CASE L!Reply(t)
  BY <1>1, <1>9 DEF L!Reply, L!End
<1> QED
  BY <1>2, <1>3, <1>4, <1>5, <1>6, <1>7, <1>8, <1>9

LEMMA TurnInit == Init => TurnInv
<1>1. L!Resting \in TurnType /\ L!Resting.pc = "rest"
  BY ServicesAssumption DEF L!Resting, TurnType, Kinds, Steps
<1> QED
  BY <1>1 DEF Init, L!Init, TurnInv, Timely

LEMMA TurnNext == TurnInv /\ [Next]_vars => TurnInv'
<1>1. UNCHANGED playVars => (TurnInv <=> TurnInv')
  BY DEF playVars, TurnInv
<1> QED
  BY <1>1, Parting, TurnStep DEF L!Next

(* No turn outlives its Lambda, whatever the model and its tools take, and    *)
(* one whose tools were never late to connect to has time left to answer      *)
(* ("so the response itself still ships", playground/handler.py:340-350).     *)
THEOREM Ships == Spec => []ReplyShips
<1>1. Init => TurnInv
  BY TurnInit
<1>2. TurnInv /\ [Next]_vars => TurnInv'
  BY TurnNext
<1>3. TurnInv => ReplyShips
  BY DEF TurnInv, Timely, L!ReplyShips, ReplyShips
<1> QED
  BY <1>1, <1>2, <1>3, PTL DEF Spec

-----------------------------------------------------------------------------
(* The day's budget.  What is used and not yet in the counter is what the  *)
(* turns at "meter" owe: their costs, token by token, so that their sum is *)
(* the size of a set.                                                      *)
Debt(c) == IF c.pc = "meter" THEN c.cost ELSE 0
Works(c) == c.pc \in {"model", "meter"}
Owed(f) == {u \in Turns \X (1 .. MaxCost) : u[2] <= Debt(f[u[1]])}
Busy(f) == {t \in Turns : Works(f[t])}

(* Every turn that passed the check and has not reached the counter may add *)
(* MaxCost to it, and only a counter below the budget lets a turn pass.     *)
SpendInv ==
  /\ tokens \in Nat /\ used \in Int
  /\ used = tokens + Cardinality(Owed(turn))
  /\ tokens <= DailyBudget - 1 + (Cardinality(Turns) - Cardinality(Busy(turn))) * MaxCost

LEMMA SizesAreNat ==
  ASSUME NEW f
  PROVE  /\ IsFiniteSet(Owed(f)) /\ Cardinality(Owed(f)) \in Nat
         /\ IsFiniteSet(Busy(f)) /\ Cardinality(Busy(f)) \in Nat
         /\ Cardinality(Turns) \in Nat /\ Cardinality(Busy(f)) <= Cardinality(Turns)
         /\ Cardinality(Owed(f)) <= Cardinality(Busy(f)) * MaxCost
<1>1. IsFiniteSet(1 .. MaxCost) /\ Cardinality(1 .. MaxCost) = MaxCost
  <2>1. MaxCost \in Nat
    BY ServicesAssumption
  <2> QED
    BY <2>1, FS_Interval
<1>2. /\ IsFiniteSet(Busy(f)) /\ Cardinality(Busy(f)) \in Nat
      /\ Cardinality(Turns) \in Nat /\ Cardinality(Busy(f)) <= Cardinality(Turns)
  BY ServicesAssumption, FS_Subset, FS_CardinalityType DEF Busy
<1>3. /\ IsFiniteSet(Busy(f) \X (1 .. MaxCost))
      /\ Cardinality(Busy(f) \X (1 .. MaxCost)) = Cardinality(Busy(f)) * MaxCost
  BY <1>1, <1>2, FS_Product
<1>4. Owed(f) \subseteq Busy(f) \X (1 .. MaxCost)
  BY DEF Owed, Busy, Debt, Works
<1> QED
  BY <1>2, <1>3, <1>4, FS_Subset, FS_CardinalityType

(* One turn changes what is owed by the change of its own debt,             *)
LEMMA OwedMoves ==
  ASSUME NEW f, NEW g, NEW t \in Turns, Debt(f[t]) \in 0 .. MaxCost, Debt(g[t]) \in 0 .. MaxCost,
         \A s \in Turns \ {t} : g[s] = f[s]
  PROVE  Cardinality(Owed(g)) = Cardinality(Owed(f)) - Debt(f[t]) + Debt(g[t])
<1> DEFINE Rest == {u \in Owed(f) : u[1] # t}
<1>1. IsFiniteSet(Rest) /\ Cardinality(Rest) \in Nat
  BY SizesAreNat, FS_Subset, FS_CardinalityType
<1>2. ASSUME NEW h, \A s \in Turns \ {t} : h[s] = f[s], Debt(h[t]) \in 0 .. MaxCost
      PROVE  Cardinality(Owed(h)) = Cardinality(Rest) + Debt(h[t])
  <2> DEFINE T == {t} \X (1 .. Debt(h[t]))
  <2>1. Owed(h) = Rest \cup T
    <3>1. ASSUME NEW u \in Turns \X (1 .. MaxCost)
          PROVE  u \in Owed(h) <=> u \in Rest \cup T
      <4>1. CASE u[1] = t
        BY <1>2, <4>1, ServicesAssumption DEF Owed
      <4>2. CASE u[1] # t
        BY <1>2, <4>2 DEF Owed
      <4> QED
        BY <4>1, <4>2
    <3>2. Owed(h) \subseteq Turns \X (1 .. MaxCost) /\ Rest \subseteq Turns \X (1 .. MaxCost)
      BY DEF Owed
    <3>3. T \subseteq Turns \X (1 .. MaxCost)
      BY <1>2, ServicesAssumption
    <3> HIDE DEF Rest, T
    <3> QED
      BY <3>1, <3>2, <3>3
  <2>2. IsFiniteSet(T) /\ Cardinality(T) = Debt(h[t])
    <3>1. PICK k \in Nat : k = Debt(h[t])
      BY <1>2, ServicesAssumption
    <3>2. IsFiniteSet(1 .. k) /\ Cardinality(1 .. k) = k
      BY <3>1, FS_Interval
    <3>3. IsFiniteSet({t}) /\ Cardinality({t}) = 1
      BY FS_Singleton
    <3>4. IsFiniteSet({t} \X (1 .. k)) /\ Cardinality({t} \X (1 .. k)) = 1 * k
      BY <3>2, <3>3, FS_Product, SMTT(30)
    <3>5. 1 * k = k /\ T = {t} \X (1 .. k)
      BY <3>1
    <3> QED
      BY <3>1, <3>4, <3>5
  <2>3. Rest \cap T = {}
    OBVIOUS
  <2>4. Cardinality({}) = 0
    BY FS_EmptySet
  <2>5. Cardinality(Rest \cup T) = Cardinality(Rest) + Cardinality(T) - Cardinality({})
    <3> HIDE DEF Rest, T
    <3> QED
      BY <1>1, <2>2, <2>3, FS_Union
  <2> HIDE DEF Rest, T
  <2> QED
    BY <1>1, <1>2, <2>1, <2>2, <2>4, <2>5
<1> HIDE DEF Rest
<1>3. Cardinality(Owed(f)) = Cardinality(Rest) + Debt(f[t])
  BY <1>2
<1>4. Cardinality(Owed(g)) = Cardinality(Rest) + Debt(g[t])
  BY <1>2
<1> QED
  BY <1>1, <1>3, <1>4

(* and who is busy by itself.                                               *)
LEMMA BusyMoves ==
  ASSUME NEW f, NEW g, NEW t \in Turns, \A s \in Turns \ {t} : g[s] = f[s]
  PROVE  Cardinality(Busy(g)) = Cardinality(Busy(f)) - (IF Works(f[t]) THEN 1 ELSE 0)
                                                     + (IF Works(g[t]) THEN 1 ELSE 0)
<1> DEFINE Rest == {s \in Busy(f) : s # t}
<1>1. IsFiniteSet(Rest) /\ Cardinality(Rest) \in Nat
  BY SizesAreNat, FS_Subset, FS_CardinalityType
<1>2. ASSUME NEW h, \A s \in Turns \ {t} : h[s] = f[s]
      PROVE  Cardinality(Busy(h)) = Cardinality(Rest) + (IF Works(h[t]) THEN 1 ELSE 0)
  <2>1. Busy(h) = IF Works(h[t]) THEN Rest \cup {t} ELSE Rest
    BY <1>2 DEF Busy
  <2>2. t \notin Rest
    OBVIOUS
  <2> HIDE DEF Rest
  <2>3. Cardinality(Rest \cup {t}) = Cardinality(Rest) + 1
    BY <1>1, <2>2, FS_AddElement
  <2> QED
    BY <1>1, <2>1, <2>3
<1> HIDE DEF Rest
<1>3. Cardinality(Busy(f)) = Cardinality(Rest) + (IF Works(f[t]) THEN 1 ELSE 0)
  BY <1>2
<1>4. Cardinality(Busy(g)) = Cardinality(Rest) + (IF Works(g[t]) THEN 1 ELSE 0)
  BY <1>2
<1> QED
  BY <1>1, <1>3, <1>4

LEMMA Product ==
  ASSUME NEW n \in Nat, NEW k \in Nat
  PROVE  n * k \in Nat /\ (n + 1) * k = n * k + k
OBVIOUS

(* A step keeps the invariant if it moves what is owed into the counter, and *)
(* the counter grows only by a turn that is busy no more.                    *)
LEMMA Spending ==
  ASSUME SpendInv, NEW t \in Turns, \A s \in Turns \ {t} : turn'[s] = turn[s],
         Debt(turn[t]) \in 0 .. MaxCost, Debt(turn'[t]) \in 0 .. MaxCost,
         tokens' \in Nat, used' \in Int,
         used' - tokens' = used - tokens - Debt(turn[t]) + Debt(turn'[t]),
         \/ tokens' <= tokens /\ (Works(turn'[t]) => Works(turn[t]))
         \/ tokens' < DailyBudget
         \/ tokens' <= tokens + MaxCost /\ Works(turn[t]) /\ ~Works(turn'[t])
  PROVE  SpendInv'
<1> DEFINE n == Cardinality(Turns) - Cardinality(Busy(turn))
           m == Cardinality(Turns) - Cardinality(Busy(turn'))
<1>1. n \in Nat /\ m \in Nat
  BY SizesAreNat
<1>2. m = n + (IF Works(turn[t]) THEN 1 ELSE 0) - (IF Works(turn'[t]) THEN 1 ELSE 0)
  <2>1. Cardinality(Busy(turn')) = Cardinality(Busy(turn)) - (IF Works(turn[t]) THEN 1 ELSE 0)
                                                           + (IF Works(turn'[t]) THEN 1 ELSE 0)
    BY BusyMoves
  <2> QED
    BY <2>1, SizesAreNat
<1>3. Cardinality(Owed(turn')) = Cardinality(Owed(turn)) - Debt(turn[t]) + Debt(turn'[t])
  BY OwedMoves
<1>4. used' = tokens' + Cardinality(Owed(turn'))
  BY <1>3, SizesAreNat DEF SpendInv
<1>5. MaxCost \in Nat /\ DailyBudget \in Nat /\ tokens \in Nat
  BY ServicesAssumption DEF SpendInv
<1>6. tokens <= DailyBudget - 1 + n * MaxCost
  BY DEF SpendInv
<1>7. /\ n * MaxCost \in Nat /\ m * MaxCost \in Nat
      /\ (n + 1) * MaxCost = n * MaxCost + MaxCost
  BY <1>1, <1>5, Product
<1> HIDE DEF n, m
<1>8. tokens' <= DailyBudget - 1 + m * MaxCost
  <2>1. CASE tokens' < DailyBudget
    BY <1>5, <1>7, <2>1
  <2>2. CASE tokens' <= tokens /\ m = n
    BY <1>5, <1>6, <1>7, <2>2
  <2>3. CASE tokens' <= tokens + MaxCost /\ m = n + 1
    BY <1>5, <1>6, <1>7, <2>3
  <2>4. CASE tokens' <= tokens /\ m = n + 1
    BY <1>5, <1>6, <1>7, <2>4
  <2> QED
    BY <1>1, <1>2, <2>1, <2>2, <2>3, <2>4
<1>9. Owed(turn)' = Owed(turn') /\ Busy(turn)' = Busy(turn')
  BY DEF Owed, Busy, Debt, Works
<1> QED
  BY <1>4, <1>8, <1>9 DEF SpendInv, n, m

LEMMA SpendStep ==
  ASSUME SpendInv, TurnInv, TurnInv', NEW t \in Turns,
         \/ L!Authorize(t) \/ L!CheckBudget(t) \/ L!Generate(t) \/ L!Break(t) \/ L!Meter(t)
         \/ L!CallTool(t) \/ L!SkipTool(t) \/ L!Reply(t)
  PROVE  SpendInv'
<1>1. /\ Debt(turn[t]) \in 0 .. MaxCost /\ Debt(turn'[t]) \in 0 .. MaxCost
      /\ tokens \in Nat /\ used \in Int /\ MaxCost \in Nat /\ DailyBudget \in Nat
  BY ServicesAssumption DEF TurnInv, TurnType, SpendInv, Debt
<1>2. \A s \in Turns \ {t} : turn'[s] = turn[s]
  BY DEF TurnInv, L!Authorize, L!CheckBudget, L!Generate, L!Break, L!Meter, L!CallTool,
     L!SkipTool, L!Reply, L!End, L!Goto
<1>3. ASSUME UNCHANGED <<tokens, used>>, Debt(turn'[t]) = Debt(turn[t]),
             Works(turn'[t]) => Works(turn[t])
      PROVE  SpendInv'
  BY <1>1, <1>2, <1>3, Spending
<1>4. CASE L!Authorize(t)
  <2>1. turn[t].pc = "rest" /\ turn'[t].pc = "budget"
    BY <1>4 DEF L!Authorize, L!At, L!Resting, TurnInv
  <2> QED
    BY <1>3, <1>4, <2>1 DEF L!Authorize, Debt, Works
<1>5. CASE L!CheckBudget(t)
  <2>1. /\ turn[t].pc = "budget" /\ UNCHANGED <<tokens, used>>
        /\ \/ turn'[t].pc = "rest"
           \/ turn'[t].pc = "model" /\ tokens < DailyBudget
    BY <1>1, <1>5 DEF L!CheckBudget, L!At, L!End, L!Goto, L!Resting, TurnInv, TurnType
  <2>2. Debt(turn[t]) = 0 /\ Debt(turn'[t]) = 0
    BY <2>1 DEF Debt
  <2>3. CASE turn'[t].pc = "rest"
    BY <1>3, <2>1, <2>2, <2>3 DEF Works
  <2>4. CASE tokens' < DailyBudget
    BY <1>1, <1>2, <2>1, <2>2, <2>4, Spending
  <2> QED
    BY <2>1, <2>3, <2>4
<1>6. ASSUME tokens' = tokens, turn[t].pc = "model", turn'[t].pc = "meter",
             used' = used + turn'[t].cost
      PROVE  SpendInv'
  <2>1. Debt(turn[t]) = 0 /\ Debt(turn'[t]) = turn'[t].cost /\ Works(turn[t])
    BY <1>6, SMTT(30) DEF Debt, Works
  <2> QED
    BY <1>1, <1>2, <1>6, <2>1, Spending
<1>7. CASE L!Generate(t)
  <2>1. turn[t].pc = "model" /\ turn'[t].pc = "meter" /\ used' = used + turn'[t].cost
    <3>1. PICK d \in {4, L!ModelTime(t)}, cost \in 1 .. MaxCost, asks \in 0 .. MaxAsks :
            turn' = [turn EXCEPT ![t].pc = "meter", ![t].left = @ - d, ![t].cost = cost, ![t].asks = asks]
      BY <1>7 DEF L!Generate
    <3>2. turn'[t].pc = "meter"
      BY <3>1 DEF TurnInv, TurnType
    <3> QED
      BY <1>7, <3>2, ZenonT(40) DEF L!Generate, L!At
  <2> QED
    BY <1>6, <1>7, <2>1, ZenonT(40) DEF L!Generate
<1>8. CASE L!Break(t)
  <2>1. \/ turn'[t].pc = "rest" /\ used' = used
        \/ turn'[t].pc = "meter" /\ used' = used + turn'[t].cost
    <3>1. ASSUME NEW cost \in 1 .. MaxCost, used' = used + cost,
                 turn' = [turn EXCEPT ![t].pc = "meter", ![t].left = @ - L!ModelTime(t),
                                      ![t].cost = cost, ![t].aborted = TRUE]
          PROVE  turn'[t].pc = "meter" /\ used' = used + turn'[t].cost
      BY <3>1 DEF TurnInv, TurnType
    <3>2. CASE L!End(t) /\ used' = used
      BY <3>2 DEF L!End, L!Resting, TurnInv
    <3> QED
      BY <1>8, <3>1, <3>2 DEF L!Break
  <2>2. turn[t].pc = "model" /\ tokens' = tokens
    BY <1>8 DEF L!Break, L!At
  <2>3. CASE turn'[t].pc = "rest" /\ used' = used
    BY <1>3, <2>2, <2>3 DEF Debt, Works
  <2> QED
    BY <1>6, <2>1, <2>2, <2>3, SMTT(30)
<1>9. CASE L!Meter(t)
  <2>1. turn[t].pc = "meter" /\ turn'[t].pc \in {"rest", "tools"}
    BY <1>9 DEF L!Meter, L!At, L!End, L!Resting, TurnInv, TurnType
  <2>2. /\ Debt(turn[t]) = turn[t].cost /\ Debt(turn'[t]) = 0
        /\ Works(turn[t]) /\ ~Works(turn'[t])
    BY <2>1 DEF Debt, Works
  <2>3. \/ tokens' = tokens + turn[t].cost /\ used' = used
        \/ tokens' = tokens /\ used' = used - turn[t].cost
    BY <1>1, <1>9, <2>2 DEF L!Meter, L!Metered
  <2> QED
    BY <1>1, <1>2, <2>2, <2>3, Spending
<1>10. CASE L!CallTool(t)
  <2>1. turn[t].pc = "tools" /\ turn'[t].pc = "tools"
    BY <1>10 DEF L!CallTool, L!At, TurnInv, TurnType
  <2> QED
    BY <1>3, <1>10, <2>1 DEF L!CallTool, Debt, Works
<1>11. CASE L!SkipTool(t)
  <2>1. turn[t].pc = "tools" /\ turn'[t].pc = "tools"
    BY <1>11 DEF L!SkipTool, L!At, TurnInv, TurnType
  <2> QED
    BY <1>3, <1>11, <2>1 DEF L!SkipTool, Debt, Works
<1>12. CASE L!Reply(t)
  <2>1. turn[t].pc = "tools" /\ turn'[t].pc = "rest"
    BY <1>12 DEF L!Reply, L!At, L!End, L!Resting, TurnInv, TurnType
  <2> QED
    BY <1>3, <1>12, <2>1 DEF L!Reply, Debt, Works
<1> QED
  BY <1>4, <1>5, <1>7, <1>8, <1>9, <1>10, <1>11, <1>12

(* "meter partial spend": what a user can spend beyond the day's budget is *)
(* less than one model call of each turn that runs at once, cut off or not *)
(* (playground/handler.py:264-289, index.mjs:132-156 and 367-376).         *)
THEOREM SpendBounded == Spec => []SpendIsBounded
<1>1. Init => TurnInv /\ SpendInv
  <2>1. Init => TurnInv
    BY TurnInit
  <2>2. ASSUME Init
        PROVE  SpendInv
    <3>1. Owed(turn) = {} /\ Busy(turn) = {} /\ tokens = 0 /\ used = 0
      BY <2>2 DEF Init, L!Init, L!Resting, Owed, Busy, Debt, Works
    <3>2. Cardinality({}) = 0
      BY FS_EmptySet
    <3>3. Cardinality(Turns) * MaxCost \in Nat
      BY SizesAreNat, ServicesAssumption, Product
    <3>4. Cardinality(Turns) - Cardinality(Busy(turn)) = Cardinality(Turns)
      BY <3>1, <3>2, SizesAreNat
    <3>5. 0 <= DailyBudget - 1 + Cardinality(Turns) * MaxCost
      BY <3>3, ServicesAssumption
    <3>6. tokens <= DailyBudget - 1 + (Cardinality(Turns) - Cardinality(Busy(turn))) * MaxCost
      BY <3>1, <3>4, <3>5, Zenon
    <3> QED
      BY <3>1, <3>2, <3>6 DEF SpendInv
  <2> QED
    BY <2>1, <2>2
<1>2. TurnInv /\ SpendInv /\ [Next]_vars => (TurnInv /\ SpendInv)'
  <2>1. TurnInv /\ [Next]_vars => TurnInv'
    BY TurnNext
  <2>2. UNCHANGED playVars /\ SpendInv => SpendInv'
    BY DEF playVars, SpendInv, Owed, Busy, Debt, Works
  <2> QED
    BY <2>1, <2>2, Parting, SpendStep DEF L!Next
<1>3. SpendInv => SpendIsBounded
  <2> SUFFICES ASSUME SpendInv
               PROVE  L!SpendIsBounded
    BY DEF SpendIsBounded
  <2> DEFINE n == Cardinality(Turns)
             m == Cardinality(Busy(turn))
  <2>1. n \in Nat /\ m \in Nat /\ m <= n /\ MaxCost \in Nat
    BY SizesAreNat, ServicesAssumption
  <2>2. used <= DailyBudget - 1 + (n - m) * MaxCost + m * MaxCost
    <3>1. (n - m) * MaxCost \in Nat /\ m * MaxCost \in Nat
      <4>1. n - m \in Nat
        BY <2>1
      <4> HIDE DEF n, m
      <4> QED
        BY <2>1, <4>1, Product
    <3>2. /\ used = tokens + Cardinality(Owed(turn)) /\ Cardinality(Owed(turn)) <= m * MaxCost
          /\ tokens <= DailyBudget - 1 + (n - m) * MaxCost
          /\ tokens \in Nat /\ used \in Int /\ Cardinality(Owed(turn)) \in Nat
      BY SizesAreNat DEF SpendInv
    <3> HIDE DEF n, m
    <3> QED
      BY <3>1, <3>2, ServicesAssumption
  <2>3. (n - m) * MaxCost + m * MaxCost = n * MaxCost
    <3> HIDE DEF n, m
    <3> QED
      BY <2>1
  <2>4. n * MaxCost \in Nat /\ m * MaxCost \in Nat /\ (n - m) * MaxCost \in Int
    <3> HIDE DEF n, m
    <3> QED
      BY <2>1, Product
  <2>5. used \in Int /\ DailyBudget \in Int
    BY ServicesAssumption DEF SpendInv
  <2> QED
    <3> HIDE DEF n, m
    <3>1. used <= DailyBudget - 1 + n * MaxCost
      BY <2>2, <2>3, <2>4, <2>5
    <3>2. L!Cardinality(Turns) = Cardinality(Turns)
      BY DEF L!Cardinality, Cardinality
    <3> QED
      BY <3>1, <3>2 DEF L!SpendIsBounded, n
<1> QED
  BY <1>1, <1>2, <1>3, PTL DEF Spec

-----------------------------------------------------------------------------
(* The crawl.  It tries all the site offers, or as many URLs as the cap.    *)
(* What is kept can be reached from them, each page at a path of its own; *)
(* what was queued and is not denied waits or has ended at a page that is   *)
(* kept; and what a kept page links to was queued, if links are followed.   *)
Tried == IF follow THEN {Seed} ELSE seenUrls
Lead(u) == \E v \in DOMAIN fetched : u \in C!ToSet(site[v].links)

CrawlInv ==
  /\ Seed \in Tried /\ Tried \subseteq C!Offered
  /\ Tried = C!Offered \/ Cardinality(Tried) = limit
  /\ queue \in Seq(InScope) /\ limit \in Nat /\ ended \in {"no", "done", "late", "failed"}
  /\ IsFiniteSet(DOMAIN fetched) /\ Cardinality(DOMAIN fetched) <= limit
  /\ DOMAIN fetched \subseteq C!Reached(Tried)
  /\ \A v \in DOMAIN fetched : fetched[v] \in {<<Base(v)>>, <<Base(v), v>>}
  /\ \A u, v \in DOMAIN fetched : fetched[u] = fetched[v] => u = v
  /\ C!ToSet(queue) \subseteq seenUrls /\ Tried \subseteq seenUrls
  /\ \A u \in seenUrls \ denied : u \in C!ToSet(queue) \/ C!Fetch(u) \subseteq DOMAIN fetched
  /\ \A u \in seenUrls : u \in Tried \/ (follow /\ u \in InScope /\ Lead(u))
  /\ follow => \A v \in DOMAIN fetched : C!ToSet(site[v].links) \cap InScope \subseteq seenUrls
  /\ ended = "done" => queue = <<>> \/ C!Full

LEMMA OneEnd ==
  ASSUME NEW u
  PROVE  C!Fetch(u) \subseteq InScope /\ \A v, w \in C!Fetch(u) : v = w
BY DEF C!Fetch

LEMMA Members ==
  ASSUME NEW T, NEW q \in Seq(T), NEW r \in Seq(T)
  PROVE  /\ C!ToSet(q) \subseteq T /\ C!ToSet(q \o r) = C!ToSet(q) \cup C!ToSet(r)
         /\ q # <<>> => Tail(q) \in Seq(T) /\ C!ToSet(q) = {Head(q)} \cup C!ToSet(Tail(q))
<1>1. C!ToSet(q) \subseteq T
  BY DEF C!ToSet
<1>2. C!ToSet(q \o r) = C!ToSet(q) \cup C!ToSet(r)
  <2>1. ASSUME NEW i \in 1 .. Len(r)
        PROVE  (q \o r)[i + Len(q)] = r[i] /\ i + Len(q) \in 1 .. Len(q \o r)
    OBVIOUS
  <2>2. ASSUME NEW i \in 1 .. Len(q)
        PROVE  (q \o r)[i] = q[i] /\ i \in 1 .. Len(q \o r)
    OBVIOUS
  <2>3. ASSUME NEW i \in 1 .. Len(q \o r)
        PROVE  (q \o r)[i] \in C!ToSet(q) \cup C!ToSet(r)
    BY DEF C!ToSet
  <2>4. q \o r \in Seq(T)
    OBVIOUS
  <2>5. /\ C!ToSet(q \o r) = {(q \o r)[i] : i \in 1 .. Len(q \o r)}
        /\ C!ToSet(q) = {q[i] : i \in 1 .. Len(q)} /\ C!ToSet(r) = {r[i] : i \in 1 .. Len(r)}
    BY <2>4 DEF C!ToSet
  <2> QED
    BY <2>1, <2>2, <2>3, <2>5
<1>3. ASSUME q # <<>>
      PROVE  Tail(q) \in Seq(T) /\ C!ToSet(q) = {Head(q)} \cup C!ToSet(Tail(q))
  <2>1. /\ Tail(q) \in Seq(T) /\ Len(Tail(q)) = Len(q) - 1 /\ Len(q) \in Nat \ {0} /\ Head(q) = q[1]
        /\ \A i \in 1 .. Len(q) - 1 : Tail(q)[i] = q[i + 1]
    BY <1>3
  <2>2. ASSUME NEW i \in 1 .. Len(q)
        PROVE  i = 1 \/ (i - 1 \in 1 .. Len(q) - 1 /\ Tail(q)[i - 1] = q[i])
    BY <2>1
  <2>3. /\ C!ToSet(q) = {q[i] : i \in 1 .. Len(q)}
        /\ C!ToSet(Tail(q)) = {Tail(q)[i] : i \in 1 .. Len(q) - 1}
    <3>1. DOMAIN q = 1 .. Len(q) /\ DOMAIN Tail(q) = 1 .. Len(q) - 1
      BY <2>1
    <3>2. \A t : C!ToSet(t) = {t[i] : i \in DOMAIN t}
      BY DEF C!ToSet
    <3> QED
      BY <3>1, <3>2, Zenon
  <2>4. \A i \in 1 .. Len(q) - 1 : i + 1 \in 1 .. Len(q)
    BY <2>1
  <2>5. 1 \in 1 .. Len(q)
    BY <2>1
  <2>6. C!ToSet(Tail(q)) \subseteq C!ToSet(q) /\ Head(q) \in C!ToSet(q)
    BY <2>1, <2>3, <2>4, <2>5
  <2>7. C!ToSet(q) \subseteq {Head(q)} \cup C!ToSet(Tail(q))
    <3>1. ASSUME NEW x \in C!ToSet(q)
          PROVE  x = Head(q) \/ x \in C!ToSet(Tail(q))
      <4>1. PICK i \in 1 .. Len(q) : x = q[i]
        BY <2>3, <3>1
      <4>2. i = 1 => x = Head(q)
        BY <2>1, <4>1
      <4> QED
        BY <2>2, <2>3, <4>1, <4>2
    <3> QED
      BY <3>1
  <2> QED
    BY <2>1, <2>6, <2>7
<1> QED
  BY <1>1, <1>2, <1>3

LEMMA InOrderLists ==
  ASSUME NEW s, NEW keep, NEW r \in C!InOrder(s, keep)
  PROVE  r \in Seq(keep) /\ C!ToSet(r) = C!ToSet(s) \cap keep
<1>1. PICK n \in 0 .. Len(s) : r \in [1 .. n -> C!ToSet(s) \cap keep]
  BY DEF C!InOrder
<1>2. n \in Nat
  BY <1>1
<1> QED
  BY <1>1, <1>2 DEF C!InOrder

LEMMA CrawlSize == \A T : C!Cardinality(T) = Cardinality(T)
BY DEF C!Cardinality, Cardinality

(* A list without repetitions has as many members as entries. *)
Once(q) == \A i, j \in 1 .. Len(q) : q[i] = q[j] => i = j

LEMMA NoRepeats ==
  ASSUME NEW T, NEW q \in Seq(T), Once(q)
  PROVE  Cardinality(C!ToSet(q)) = Len(q)
<1>1. C!ToSet(q) = {q[i] : i \in 1 .. Len(q)} /\ Len(q) \in Nat
  BY DEF C!ToSet
<1>2. q \in [1 .. Len(q) -> C!ToSet(q)]
  BY <1>1
<1>3. q \in Bijection(1 .. Len(q), C!ToSet(q))
  BY <1>1, <1>2 DEF Once, Bijection, Injection, IsInjective, Surjection
<1> QED
  BY <1>1, <1>3, FS_CountingElements DEF ExistsBijection

LEMMA InOrderOnce ==
  ASSUME NEW s, Len(s) \in Nat, DOMAIN s = 1 .. Len(s), NEW keep, NEW r \in C!InOrder(s, keep)
  PROVE  Once(r)
<1>1. r \in Seq(keep)
  BY InOrderLists
<1>2. ASSUME NEW i \in 1 .. Len(r), NEW j \in 1 .. Len(r), i < j
      PROVE  r[i] # r[j]
  <2>1. \E k \in DOMAIN s : s[k] = r[i] /\ \A l \in 1 .. k : s[l] # r[j]
    BY <1>1, <1>2 DEF C!InOrder
  <2>2. PICK k \in 1 .. Len(s) : s[k] = r[i] /\ \A l \in 1 .. k : s[l] # r[j]
    BY <2>1
  <2>3. k \in 1 .. k
    BY <2>2
  <2> QED
    BY <2>2, <2>3
<1>3. ASSUME NEW i \in 1 .. Len(r), NEW j \in 1 .. Len(r), r[i] = r[j]
      PROVE  i = j
  <2>1. ~(i < j) /\ ~(j < i)
    BY <1>2, <1>3
  <2> QED
    BY <1>1, <2>1
<1> QED
  BY <1>3 DEF Once

(* Cutting a list keeps all of it or as many entries as asked. *)
LEMMA Cuts ==
  ASSUME NEW T, NEW q \in Seq(T), NEW n \in Nat, Once(q)
  PROVE  /\ C!Cut(q, n) \in Seq(T) /\ Once(C!Cut(q, n)) /\ C!ToSet(C!Cut(q, n)) \subseteq C!ToSet(q)
         /\ C!Cut(q, n) = q \/ Len(C!Cut(q, n)) = n
         /\ 0 < n /\ q # <<>> => C!Cut(q, n) # <<>> /\ C!Cut(q, n)[1] = q[1]
<1> DEFINE r == C!Cut(q, n)
<1>1. CASE Len(q) < n
  <2>1. r = q
    BY <1>1 DEF C!Cut
  <2> QED
    BY <2>1
<1>2. CASE ~(Len(q) < n)
  <2>1. r = SubSeq(q, 1, n)
    BY <1>2 DEF C!Cut
  <2>2. r \in Seq(T) /\ Len(r) = n /\ n <= Len(q) /\ \A i \in 1 .. n : r[i] = q[i]
    BY <1>2, <2>1
  <2> HIDE DEF r
  <2>3. Once(r)
    BY <2>2 DEF Once
  <2>4. C!ToSet(r) \subseteq C!ToSet(q)
    BY <2>2 DEF C!ToSet
  <2>5. 0 < n => r # <<>> /\ r[1] = q[1]
    BY <2>2
  <2> QED
    BY <2>2, <2>3, <2>4, <2>5 DEF r
<1> QED
  BY <1>1, <1>2

LEMMA CrawlInit ==
  ASSUME C!Init
  PROVE  CrawlInv
<1>0. PICK locs \in Sitemaps : \E all \in C!InOrder(locs, InScope) :
        listed = C!ToSet(all) /\ follow = (C!Cut(all, limit) = <<>>) /\ queue = C!Pages(C!Cut(all, limit))
  BY DEF C!Init
<1>1. PICK all \in C!InOrder(locs, InScope) :
        listed = C!ToSet(all) /\ follow = (C!Cut(all, limit) = <<>>) /\ queue = C!Pages(C!Cut(all, limit))
  BY <1>0
<1>2. all \in Seq(InScope) /\ limit \in Nat /\ 0 < limit /\ Once(all) /\ Seed \in InScope
  <2>1. all \in Seq(InScope)
    BY <1>1, InOrderLists
  <2>2. limit \in Limits /\ Limits \subseteq Nat \ {0} /\ Seed \in InScope
    BY ServicesAssumption DEF C!Init
  <2>3. Len(locs) \in Nat /\ DOMAIN locs = 1 .. Len(locs)
    BY ServicesAssumption
  <2>4. Once(all)
    BY <1>1, <2>3, InOrderOnce
  <2> QED
    BY <2>1, <2>2, <2>4
<1> DEFINE first == C!Cut(all, limit)
<1>3. /\ first \in Seq(InScope) /\ Once(first) /\ C!ToSet(first) \subseteq C!ToSet(all)
      /\ first = all \/ Len(first) = limit
      /\ all # <<>> => first # <<>>
  BY <1>2, Cuts
<1>4. follow = (first = <<>>) /\ queue = C!Pages(first) /\ listed = C!ToSet(all)
  BY <1>1
<1> HIDE DEF first
<1>5. /\ C!ToSet(<<Seed>>) = {Seed} /\ C!ToSet(<<>>) = {}
      /\ <<Seed>> \in Seq(InScope) /\ Once(<<Seed>>)
  BY <1>2 DEF C!ToSet, Once
<1>6. /\ queue \in Seq(InScope) /\ Once(queue) /\ Seed \in C!ToSet(queue)
      /\ C!ToSet(queue) \subseteq C!Offered
      /\ C!ToSet(queue) = C!Offered \/ Len(queue) = limit
  <2>1. CASE first = <<>>
    <3>1. queue = <<Seed>> /\ C!Offered = {Seed}
      <4>1. queue = <<Seed>>
        BY <1>4, <2>1 DEF C!Pages
      <4>2. all = <<>>
        BY <1>3, <2>1
      <4> QED
        BY <1>4, <1>5, <4>1, <4>2 DEF C!Offered
    <3> QED
      BY <1>5, <3>1
  <2>2. CASE first # <<>> /\ Seed \in C!ToSet(first)
    <3>1. queue = first
      BY <1>4, <2>2 DEF C!Pages
    <3>2. C!Offered = C!ToSet(all)
      BY <1>3, <1>4, <2>2 DEF C!Offered
    <3> QED
      BY <1>3, <2>2, <3>1, <3>2
  <2>3. CASE first # <<>> /\ Seed \notin C!ToSet(first)
    <3> DEFINE whole == <<Seed>> \o first
    <3>1. whole \in Seq(InScope) /\ C!ToSet(whole) = {Seed} \cup C!ToSet(first)
      <4>1. whole \in Seq(InScope)
        BY <1>3, <1>5
      <4>2. C!ToSet(whole) = C!ToSet(<<Seed>>) \cup C!ToSet(first)
        <5> DEFINE one == <<Seed>>
        <5>1. one \in Seq(InScope) /\ first \in Seq(InScope)
          BY <1>3, <1>5
        <5>2. whole = one \o first
          OBVIOUS
        <5> HIDE DEF one, whole
        <5>3. C!ToSet(one \o first) = C!ToSet(one) \cup C!ToSet(first)
          BY ONLY <5>1, Members
        <5> QED
          BY <5>2, <5>3 DEF one
      <4> QED
        BY <1>5, <4>1, <4>2
    <3>2. /\ Len(whole) = Len(first) + 1 /\ whole[1] = Seed
          /\ \A i \in 1 .. Len(whole) : i = 1 \/ (i - 1 \in 1 .. Len(first) /\ whole[i] = first[i - 1])
      BY <1>3
    <3>3. Once(whole)
      <4>1. \A i \in 1 .. Len(first) : first[i] # Seed
        BY <1>3, <2>3 DEF C!ToSet
      <4> HIDE DEF whole
      <4>2. ASSUME NEW i \in 1 .. Len(whole), NEW j \in 1 .. Len(whole), whole[i] = whole[j]
            PROVE  i = j
        <5>1. i = 1 <=> j = 1
          BY <3>2, <4>1, <4>2
        <5>2. i # 1 /\ j # 1 => i - 1 = j - 1
          BY <1>3, <3>2, <4>2 DEF Once
        <5> QED
          BY <3>1, <5>1, <5>2
      <4> QED
        BY <4>2 DEF Once
    <3>4. queue = C!Cut(whole, limit)
      BY <1>4, <2>3 DEF C!Pages
    <3>5. whole # <<>>
      BY <1>3
    <3> HIDE DEF whole
    <3>6. /\ queue \in Seq(InScope) /\ Once(queue) /\ C!ToSet(queue) \subseteq C!ToSet(whole)
          /\ queue = whole \/ Len(queue) = limit
          /\ queue # <<>> /\ queue[1] = Seed
      BY <1>2, <3>1, <3>2, <3>3, <3>4, <3>5, Cuts
    <3>7. Seed \in C!ToSet(queue)
      <4>1. 1 \in DOMAIN queue
        BY <3>6
      <4> QED
        BY <3>6, <4>1 DEF C!ToSet
    <3>8. C!ToSet(whole) \subseteq C!Offered
      BY <1>3, <1>4, <3>1 DEF C!Offered
    <3>9. queue = whole => C!ToSet(queue) = C!Offered \/ Len(queue) = limit
      <4>1. CASE first = all
        BY <1>4, <3>1, <4>1 DEF C!Offered
      <4>2. CASE Len(first) = limit /\ queue = whole
        <5>1. Len(queue) = limit + 1
          BY <3>2, <4>2
        <5>2. queue = whole /\ Len(whole) <= limit
          <6>1. Len(C!Cut(whole, limit)) <= limit
            BY <1>2, <3>1 DEF C!Cut
          <6> QED
            BY <3>4, <4>2, <6>1
        <5> QED
          BY <1>2, <4>2, <5>1, <5>2
      <4> QED
        BY <1>3, <4>1, <4>2
    <3> QED
      BY <3>6, <3>7, <3>8, <3>9
  <2> QED
    BY <2>1, <2>2, <2>3
<1>7. Cardinality(C!ToSet(queue)) = Len(queue)
  BY <1>6, NoRepeats
<1>8. follow => queue = <<Seed>>
  BY <1>4 DEF C!Pages
<1>9. seenUrls = C!ToSet(queue) /\ Tried = seenUrls
  <2>1. seenUrls = C!ToSet(queue)
    BY DEF C!Init
  <2> QED
    BY <1>5, <1>8, <2>1 DEF Tried
<1>10. DOMAIN fetched = {} /\ IsFiniteSet({}) /\ Cardinality({}) = 0
  BY FS_EmptySet DEF C!Init
<1>11. Seed \in Tried /\ Tried \subseteq C!Offered /\ (Tried = C!Offered \/ Cardinality(Tried) = limit)
  BY <1>6, <1>7, <1>9
<1>12. ended = "no"
  BY DEF C!Init
<1> QED
  BY <1>2, <1>6, <1>9, <1>10, <1>11, <1>12 DEF CrawlInv

(* What a crawl should keep does not change.                                *)
LEMMA CrawlSteady ==
  ASSUME UNCHANGED <<site, denied, limit, listed, follow>>, follow \/ seenUrls' = seenUrls
  PROVE  /\ Tried' = Tried /\ C!Reached(Tried)' = C!Reached(Tried) /\ \A u : C!Fetch(u)' = C!Fetch(u)
         /\ C!Offered' = C!Offered
<1>1. Tried' = Tried /\ C!Offered' = C!Offered
  BY DEF Tried, C!Offered
<1>2. \A u : C!Fetch(u)' = C!Fetch(u)
  BY DEF C!Fetch
<1>3. \A T : C!Closed(Tried, T)' = C!Closed(Tried, T)
  BY <1>1, <1>2 DEF C!Closed
<1> QED
  BY <1>1, <1>2, <1>3 DEF C!Reached

LEMMA CrawlNext ==
  ASSUME CrawlInv, [C!Next]_crawlVars
  PROVE  CrawlInv'
<1>1. CASE C!Visit
  <2> DEFINE u == Head(queue)
  <2>0. UNCHANGED <<site, denied, limit, listed, follow, ended>> /\ ended = "no" /\ ~C!Full /\ queue # <<>>
    BY <1>1 DEF C!Visit
  <2>1. /\ u \in seenUrls /\ Tail(queue) \in Seq(InScope) /\ C!ToSet(Tail(queue)) \subseteq C!ToSet(queue)
        /\ C!ToSet(queue) = {u} \cup C!ToSet(Tail(queue))
    BY <2>0, Members DEF CrawlInv
  <2>2. ASSUME u \in denied \/ C!Fetch(u) \subseteq DOMAIN fetched,
               queue' = Tail(queue), UNCHANGED <<seenUrls, fetched>>
        PROVE  CrawlInv'
    <3>1. Tried' = Tried /\ C!Reached(Tried)' = C!Reached(Tried) /\ \A w : C!Fetch(w)' = C!Fetch(w) /\ C!Offered' = C!Offered
      BY <2>0, <2>2, CrawlSteady
    <3>2. \A w \in seenUrls' \ denied' : w \in C!ToSet(queue') \/ C!Fetch(w) \subseteq DOMAIN fetched
      BY <2>0, <2>1, <2>2 DEF CrawlInv
    <3>3. C!ToSet(queue)' = C!ToSet(Tail(queue))
      BY <2>2 DEF C!ToSet
    <3>4. \A w : Lead(w)' = Lead(w)
      BY <2>0, <2>2 DEF Lead
    <3> QED
      BY <2>0, <2>1, <2>2, <3>1, <3>2, <3>3, <3>4 DEF CrawlInv
  <2>3. ASSUME u \notin denied, NEW page \in C!Fetch(u) \ DOMAIN fetched, NEW found \in C!NewLinks(page),
               fetched' = [v \in DOMAIN fetched \cup {page} |-> IF v = page THEN C!Rel(page) ELSE fetched[v]],
               queue' = Tail(queue) \o found, seenUrls' = seenUrls \cup C!ToSet(found)
        PROVE  CrawlInv'
    <3>1. found \in Seq(InScope) /\ C!ToSet(found) = (IF follow THEN C!ToSet(site[page].links) \cap (InScope \ seenUrls) ELSE {})
      <4>1. CASE follow
        <5>1. found \in Seq(InScope \ seenUrls) /\ C!ToSet(found) = C!ToSet(site[page].links) \cap (InScope \ seenUrls)
          BY <2>3, <4>1, InOrderLists DEF C!NewLinks
        <5>2. found \in Seq(InScope)
          BY <5>1
        <5> QED
          BY <4>1, <5>1, <5>2
      <4>2. CASE ~follow
        <5>1. found = <<>>
          BY <2>3, <4>2 DEF C!NewLinks
        <5> QED
          BY <4>2, <5>1 DEF C!ToSet
      <4> QED
        BY <4>1, <4>2
    <3>2. /\ Tried' = Tried /\ C!Reached(Tried)' = C!Reached(Tried) /\ \A w : C!Fetch(w)' = C!Fetch(w) /\ C!Offered' = C!Offered
      <4>1. follow \/ seenUrls' = seenUrls
        BY <2>3, <3>1
      <4> QED
        BY <2>0, <4>1, CrawlSteady
    <3>3. queue' \in Seq(InScope) /\ C!ToSet(queue)' = C!ToSet(Tail(queue)) \cup C!ToSet(found)
      <4>1. Tail(queue) \o found \in Seq(InScope) /\ C!ToSet(Tail(queue) \o found) = C!ToSet(Tail(queue)) \cup C!ToSet(found)
        <5>1. PICK rest \in Seq(InScope), new \in Seq(InScope) : rest = Tail(queue) /\ new = found
          BY <2>1, <3>1
        <5>2. rest \o new \in Seq(InScope) /\ C!ToSet(rest \o new) = C!ToSet(rest) \cup C!ToSet(new)
          BY Members
        <5> QED
          BY <5>1, <5>2
      <4>2. C!ToSet(queue)' = C!ToSet(queue')
        BY DEF C!ToSet
      <4> QED
        BY <2>3, <4>1, <4>2
    <3>4. DOMAIN fetched' = DOMAIN fetched \cup {page}
      BY <2>3
    <3>5. page \in C!Reached(Tried)
      <4>1. page \in InScope
        BY <2>3, OneEnd
      <4>2. ASSUME NEW T \in SUBSET InScope, C!Closed(Tried, T)
            PROVE  page \in T
        <5>1. CASE u \in Tried
          BY <2>3, <4>2, <5>1 DEF C!Closed
        <5>2. CASE follow /\ u \in InScope /\ Lead(u)
          <6>1. PICK v \in DOMAIN fetched : u \in C!ToSet(site[v].links)
            BY <5>2 DEF Lead
          <6>2. v \in T
            BY <4>2, <6>1 DEF CrawlInv, C!Reached
          <6> HIDE DEF u
          <6> QED
            BY <2>3, <4>2, <5>2, <6>1, <6>2 DEF C!Closed
        <5> HIDE DEF u
        <5> QED
          BY <2>1, <5>1, <5>2 DEF CrawlInv
      <4> HIDE DEF u
      <4> QED
        BY <4>1, <4>2 DEF C!Reached
    <3>6. IsFiniteSet(DOMAIN fetched') /\ Cardinality(DOMAIN fetched') <= limit
      <4>1. IsFiniteSet(DOMAIN fetched) /\ Cardinality(DOMAIN fetched) \in Nat /\ limit \in Nat
            /\ Cardinality(DOMAIN fetched) < limit
        BY <2>0, FS_CardinalityType, CrawlSize DEF CrawlInv, C!Full
      <4>2. IsFiniteSet(DOMAIN fetched \cup {page}) /\ Cardinality(DOMAIN fetched \cup {page}) = Cardinality(DOMAIN fetched) + 1
        BY <2>3, <4>1, FS_AddElement
      <4> QED
        BY <3>4, <4>1, <4>2
    <3>7. /\ fetched'[page] = C!Rel(page)
          /\ \A v \in DOMAIN fetched : fetched'[v] = fetched[v] /\ v # page
      BY <2>3
    <3>8. /\ C!Rel(page) \in {<<Base(page)>>, <<Base(page), page>>}
          /\ \A v \in DOMAIN fetched : fetched[v] # C!Rel(page)
      <4>1. ASSUME NEW v \in DOMAIN fetched
            PROVE  fetched[v] # C!Rel(page)
        <5>1. CASE C!Rel(page) = <<Base(page)>>
          <6>1. <<Base(page)>> # <<Base(page), page>>
            OBVIOUS
          <6> QED
            BY <4>1, <5>1, <6>1 DEF C!Rel
        <5>2. CASE C!Rel(page) = <<Base(page), page>>
          <6>1. fetched[v] = <<Base(v)>> \/ fetched[v] = <<Base(v), v>>
            BY <4>1 DEF CrawlInv
          <6>2. v # page
            BY <3>7, <4>1
          <6> QED
            BY <5>2, <6>1, <6>2
        <5> QED
          BY <5>1, <5>2 DEF C!Rel
      <4>2. C!Rel(page) \in {<<Base(page)>>, <<Base(page), page>>}
        BY DEF C!Rel
      <4> QED
        BY <4>1, <4>2
    <3>9. /\ \A v \in DOMAIN fetched' : fetched'[v] \in {<<Base(v)>>, <<Base(v), v>>}
          /\ \A v, w \in DOMAIN fetched' : fetched'[v] = fetched'[w] => v = w
      <4>1. \A v \in DOMAIN fetched' : fetched'[v] \in {<<Base(v)>>, <<Base(v), v>>}
        BY <3>4, <3>7, <3>8 DEF CrawlInv
      <4>2. \A v, w \in DOMAIN fetched' : fetched'[v] = fetched'[w] => v = w
        BY <3>4, <3>7, <3>8 DEF CrawlInv
      <4> QED
        BY <4>1, <4>2
    <3>10. \A w \in seenUrls' \ denied : w \in C!ToSet(queue)' \/ C!Fetch(w) \subseteq DOMAIN fetched'
      <4>1. C!Fetch(u) \subseteq DOMAIN fetched'
        <5> HIDE DEF u
        <5> QED
          BY <2>3, <3>4, OneEnd
      <4> HIDE DEF u
      <4> QED
        BY <2>1, <2>3, <3>3, <3>4, <4>1 DEF CrawlInv
    <3>11. \A w \in seenUrls' : w \in Tried \/ (follow /\ w \in InScope /\ Lead(w)')
      <4>1. \A w : Lead(w) \/ w \in C!ToSet(site[page].links) => Lead(w)'
        BY <2>0, <3>4 DEF Lead, C!ToSet
      <4> QED
        BY <2>3, <3>1, <4>1 DEF CrawlInv
    <3>12. follow => \A v \in DOMAIN fetched' : C!ToSet(site[v].links) \cap InScope \subseteq seenUrls'
      BY <2>3, <3>1, <3>4 DEF CrawlInv
    <3>13. C!ToSet(queue)' \subseteq seenUrls'
      BY <2>1, <2>3, <3>3 DEF CrawlInv
    <3>14. \A v : C!ToSet(site[v].links)' = C!ToSet(site[v].links)
      BY <2>0 DEF C!ToSet
    <3> HIDE DEF u
    <3>15. (/\ Seed \in Tried /\ Tried \subseteq C!Offered
            /\ Tried = C!Offered \/ Cardinality(Tried) = limit
            /\ queue \in Seq(InScope) /\ limit \in Nat /\ ended \in {"no", "done", "late", "failed"}
            /\ IsFiniteSet(DOMAIN fetched) /\ Cardinality(DOMAIN fetched) <= limit
            /\ DOMAIN fetched \subseteq C!Reached(Tried))'
      BY <2>0, <2>3, <3>2, <3>3, <3>4, <3>5, <3>6 DEF CrawlInv
    <3>16. (/\ C!ToSet(queue) \subseteq seenUrls /\ Tried \subseteq seenUrls
            /\ \A w \in seenUrls \ denied : w \in C!ToSet(queue) \/ C!Fetch(w) \subseteq DOMAIN fetched
            /\ \A w \in seenUrls : w \in Tried \/ (follow /\ w \in InScope /\ Lead(w))
            /\ follow => \A v \in DOMAIN fetched : C!ToSet(site[v].links) \cap InScope \subseteq seenUrls
            /\ ended = "done" => queue = <<>> \/ C!Full)'
      <4>1. (C!ToSet(queue) \subseteq seenUrls)' /\ (Tried \subseteq seenUrls)'
        BY <2>0, <2>3, <3>2, <3>13 DEF CrawlInv
      <4>2. (\A w \in seenUrls \ denied : w \in C!ToSet(queue) \/ C!Fetch(w) \subseteq DOMAIN fetched)'
        BY <2>0, <3>2, <3>10
      <4>3. (\A w \in seenUrls : w \in Tried \/ (follow /\ w \in InScope /\ Lead(w)))'
        BY <2>0, <3>2, <3>11
      <4>4. (follow => \A v \in DOMAIN fetched : C!ToSet(site[v].links) \cap InScope \subseteq seenUrls)'
        BY <2>0, <3>12, <3>14
      <4>5. (ended = "done" => queue = <<>> \/ C!Full)'
        BY <2>0
      <4> QED
        BY <4>1, <4>2, <4>3, <4>4, <4>5
    <3>17. (/\ \A v \in DOMAIN fetched : fetched[v] \in {<<Base(v)>>, <<Base(v), v>>}
            /\ \A v, w \in DOMAIN fetched : fetched[v] = fetched[w] => v = w)'
      BY <3>9
    <3> QED
      BY <3>15, <3>16, <3>17 DEF CrawlInv
  <2> QED
    BY <1>1, <2>2, <2>3 DEF C!Visit
<1>2. CASE C!Finish
  <2>1. Tried' = Tried /\ C!Reached(Tried)' = C!Reached(Tried) /\ \A w : C!Fetch(w)' = C!Fetch(w) /\ C!Offered' = C!Offered
    BY <1>2, CrawlSteady DEF C!Finish
  <2>2. \A w : Lead(w)' = Lead(w)
    BY <1>2 DEF C!Finish, Lead
  <2>3. ended' = "done" => queue = <<>> \/ C!Full
    BY <1>2 DEF C!Finish
  <2> QED
    BY <1>2, <2>1, <2>2, <2>3 DEF C!Finish, CrawlInv, C!Full, C!ToSet
<1>3. CASE UNCHANGED crawlVars
  <2>1. Tried' = Tried /\ C!Reached(Tried)' = C!Reached(Tried) /\ \A w : C!Fetch(w)' = C!Fetch(w) /\ C!Offered' = C!Offered
    BY <1>3, CrawlSteady DEF crawlVars
  <2> QED
    BY <1>3, <2>1 DEF crawlVars, CrawlInv, Lead, C!Full, C!ToSet
<1> QED
  BY <1>1, <1>2, <1>3 DEF C!Next

LEMMA CrawlWhole ==
  ASSUME CrawlInv
  PROVE  C!CrawlIsComplete
<1>1. ASSUME ended = "done", Cardinality(DOMAIN fetched) < limit
      PROVE  DOMAIN fetched = C!Reached(Tried)
  <2>1. C!ToSet(queue) = {}
    <3>1. ~C!Full
      BY <1>1, FS_CardinalityType, CrawlSize DEF CrawlInv, C!Full
    <3>2. queue = <<>>
      BY <1>1, <3>1 DEF CrawlInv
    <3> QED
      BY <3>2 DEF C!ToSet
  <2>2. C!Closed(Tried, DOMAIN fetched)
    BY <2>1 DEF CrawlInv, C!Closed
  <2>3. DOMAIN fetched \in SUBSET InScope
    BY DEF CrawlInv, C!Reached
  <2> QED
    BY <2>2, <2>3 DEF CrawlInv, C!Reached
<1>2. DOMAIN fetched \subseteq C!Reached(C!Offered)
  <2>1. \A T : C!Closed(C!Offered, T) => C!Closed(Tried, T)
    BY DEF CrawlInv, C!Closed
  <2> QED
    BY <2>1 DEF CrawlInv, C!Reached
<1>3. /\ Tried \in SUBSET C!Offered /\ Seed \in Tried
      /\ Tried = C!Offered \/ C!Cardinality(Tried) = limit
  BY CrawlSize DEF CrawlInv
<1>4. /\ C!Cardinality(DOMAIN fetched) <= limit
      /\ \A u, v \in DOMAIN fetched : fetched[u] = fetched[v] => u = v
  BY CrawlSize DEF CrawlInv
<1> QED
  BY <1>1, <1>2, <1>3, <1>4, CrawlSize DEF C!CrawlIsComplete

(* A crawl that was not cut short keeps the least set of pages that the    *)
(* URLs it tried and the links of its pages lead to, and it tried the seed *)
(* and all the sitemap lists or as many as the cap; any crawl keeps only   *)
(* pages that can be reached, in scope, at different paths, within the cap *)
(* (docs_crawler.py, sitemap_pages and main).                              *)
THEOREM CrawledAll == Spec => []CrawlIsComplete
<1>1. Init => CrawlInv
  BY CrawlInit DEF Init
<1>2. CrawlInv /\ [Next]_vars => CrawlInv'
  BY Parting, CrawlNext
<1>3. CrawlInv => CrawlIsComplete
  BY CrawlWhole DEF CrawlIsComplete
<1> QED
  BY <1>1, <1>2, <1>3, PTL DEF Spec

-----------------------------------------------------------------------------
(* The engine's budget. *)
JP == INSTANCE GroupJudgementProofs WITH
        MaxAttempts <- MaxModelAttempts, MaxFaults <- MaxModelFaults, published <- carried

LEMMA JudgementStep ==
  ASSUME [Next]_vars
  PROVE  [JP!Next]_(JP!judgeVars)
<1>1. J!Next => JP!Next
  BY DEF J!Next, JP!Next, J!Reuse, JP!Reuse, J!Open, JP!Open, J!Deadline, JP!Deadline,
     J!Exhausted, JP!Exhausted, J!Answer, JP!Answer, J!CallFails, JP!CallFails, J!Useless,
     JP!Useless, J!Overrun, JP!Overrun, J!Finish, JP!Finish, J!Judging, JP!Judging, J!NextPair,
     JP!NextPair, J!Break, JP!Break, J!Trouble, JP!Trouble, J!Known, JP!Known, J!OverBudget,
     JP!OverBudget, J!Calls, JP!Calls, J!Cacheable, JP!Cacheable, J!Answered, JP!Answered,
     J!Reserved, JP!Reserved, J!Start, JP!Start
<1> QED
  BY <1>1, Parting DEF judgeVars, JP!judgeVars

(* "Reservations are NEVER refunded": what the provider charges one build *)
(* stays within its budget however calls fail (engine.py,                 *)
(* _model_relations).                                                     *)
THEOREM WithinBudget == Spec => []BudgetHolds
<1>1. Init => JP!BudgetInv
  <2>1. Init => JP!Init
    BY DEF Init, J!Init, JP!Init, J!Start, JP!Start
  <2> QED
    BY <2>1, ServicesAssumption, JP!BudgetInit
<1>2. JP!BudgetInv /\ [Next]_vars => JP!BudgetInv'
  BY ServicesAssumption, JudgementStep, JP!BudgetNext
<1>3. JP!BudgetInv => BudgetHolds
  BY ServicesAssumption DEF JP!BudgetInv, J!BudgetHolds, BudgetHolds, J!Judging, JP!Judging
<1> QED
  BY <1>1, <1>2, <1>3, PTL DEF Spec

-----------------------------------------------------------------------------
(* The objects of a group's versions. *)
AP == INSTANCE GroupArtifactsProofs WITH PageSize <- SweepPage, MaxFaults <- MaxSweepFaults

LEMMA ArtifactStep ==
  ASSUME [Next]_vars
  PROVE  [AP!Next]_(AP!artifactVars)
<1> USE DEF A!Pins, AP!Pins, A!NoSweep, AP!NoSweep, A!NoListing, AP!NoListing, A!Served, AP!Served,
            A!GiveUp, AP!GiveUp, A!Pinned, AP!Pinned, A!Before, AP!Before, A!LastOf, AP!LastOf,
            A!NextCursor, AP!NextCursor, A!Halvings, AP!Halvings
<1>1. /\ \A v \in Version : A!Reserve(v) => AP!Reserve(v)
      /\ \A status \in {"STALE", "DELETED"} : A!Turn(status) => AP!Turn(status)
  BY DEF A!Reserve, AP!Reserve, A!Turn, AP!Turn
<1>2. A!Execute \/ A!Upload \/ A!Activate \/ A!KillExecution
        => AP!Execute \/ AP!Upload \/ AP!Activate \/ AP!KillExecution
  BY DEF A!Execute, AP!Execute, A!Upload, AP!Upload, A!Activate, AP!Activate,
     A!KillExecution, AP!KillExecution
<1>3. A!Age => AP!Age
  BY DEF A!Age, AP!Age, A!Min, AP!Min
<1>4. A!List => AP!List
  BY DEF A!List, AP!List, A!Min, AP!Min, A!Cardinality, AP!Cardinality
<1>5. A!ReadMeta \/ A!Delete \/ A!SaveCursor \/ A!DeleteFails \/ A!KillSweep
        => AP!ReadMeta \/ AP!Delete \/ AP!SaveCursor \/ AP!DeleteFails \/ AP!KillSweep
  BY DEF A!ReadMeta, AP!ReadMeta, A!Delete, AP!Delete, A!SaveCursor, AP!SaveCursor,
     A!DeleteFails, AP!DeleteFails, A!KillSweep, AP!KillSweep
<1>6. A!Ask \/ A!Load \/ A!Close => AP!Ask \/ AP!Load \/ AP!Close
  BY DEF A!Ask, AP!Ask, A!Load, AP!Load, A!Close, AP!Close
<1>7. A!Answer => AP!Answer
  BY DEF A!Answer, AP!Answer, A!Min, AP!Min
<1>8. A!Next => AP!Next
  BY <1>1, <1>2, <1>3, <1>4, <1>5, <1>6, <1>7 DEF A!Next, AP!Next, A!Sweep, AP!Sweep
<1> QED
  BY <1>8, Parting DEF artifactVars, AP!artifactVars

(* The sweep never takes an object of the version META serves, however late *)
(* the build that made it was tried again (garbage.py, sweep;               *)
(* handler.py, _immutable_put).                                             *)
THEOREM ActiveKept == Spec => []ActiveIsWhole
<1>1. Init => AP!ArtifactInv
  <2>1. Init => AP!Init
    BY DEF Init, A!Init, AP!Init, A!NoSweep, AP!NoSweep, A!NoListing, AP!NoListing
  <2> QED
    BY <2>1, AP!ArtifactInit
<1>2. AP!ArtifactInv /\ [Next]_vars => AP!ArtifactInv'
  BY ServicesAssumption, ArtifactStep, AP!ArtifactNext
<1>3. AP!ArtifactInv => ActiveIsWhole
  BY DEF AP!ArtifactInv, AP!ActiveIsWhole, A!ActiveIsWhole, ActiveIsWhole
<1> QED
  BY <1>1, <1>2, <1>3, PTL DEF Spec

(* "subsequent pages must pin the first page's version": a listing that ends *)
(* is every node of one version, once and in order (group_query.py,          *)
(* get_graph_page).                                                          *)
THEOREM OneVersionListed == Spec => []ListingIsOneVersion
<1>1. Init => AP!ArtifactInv /\ AP!ListingInv
  <2>1. Init => AP!Init
    BY DEF Init, A!Init, AP!Init, A!NoSweep, AP!NoSweep, A!NoListing, AP!NoListing
  <2> QED
    BY <2>1, AP!ArtifactInit, AP!ListingInit
<1>2. AP!ArtifactInv /\ AP!ListingInv /\ [Next]_vars => (AP!ArtifactInv /\ AP!ListingInv)'
  <2>1. AP!ArtifactInv => AP!MetaInv
    BY DEF AP!ArtifactInv
  <2> QED
    BY <2>1, ServicesAssumption, ArtifactStep, AP!ArtifactNext, AP!ListingNext
<1>3. AP!ListingInv => ListingIsOneVersion
  <2>1. AP!ListingInv => AP!ListingIsOneVersion
    BY AP!ListingWhole
  <2> QED
    BY <2>1 DEF AP!ListingIsOneVersion, A!ListingIsOneVersion, ListingIsOneVersion
<1> QED
  BY <1>1, <1>2, <1>3, PTL DEF Spec

-----------------------------------------------------------------------------
(* The two searches of a group query. *)
GP == INSTANCE GraphQueriesProofs

LEMMA SameOperators ==
  /\ \A key : G!Sorted(key) = GP!Sorted(key)
  /\ \A i, m, n : G!Linked(i, m, n) = GP!Linked(i, m, n)
  /\ \A m : G!New(m) = GP!New(m)
  /\ \A p, g : G!GlobMatch(p, g) = GP!GlobMatch(p, g)
  /\ \A f : G!Hits(f) = GP!Hits(f)
  /\ \A s : G!Cardinality(s) = GP!Cardinality(s)
<1>1. \A s : G!Cardinality(s) = GP!Cardinality(s)
  BY DEF G!Cardinality, GP!Cardinality
<1>2. \A s : G!ToSet(s) = GP!ToSet(s)
  BY DEF G!ToSet, GP!ToSet
<1>3. \A key : G!Sorted(key) = GP!Sorted(key)
  BY <1>1, <1>2 DEF G!Sorted, GP!Sorted
<1>4. \A i, m, n : G!Linked(i, m, n) = GP!Linked(i, m, n)
  BY DEF G!Linked, GP!Linked
<1>5. \A m : G!New(m) = GP!New(m)
  BY DEF G!New, GP!New, G!Linked, GP!Linked
<1>6. \A p, g : G!GlobMatch(p, g) = GP!GlobMatch(p, g)
  BY DEF G!GlobMatch, GP!GlobMatch, G!GlobRow, GP!GlobRow
<1>7. \A f : G!Hits(f) = GP!Hits(f)
  BY DEF G!Hits, GP!Hits
<1> QED
  BY <1>1, <1>3, <1>4, <1>5, <1>6, <1>7

LEMMA QueryStep ==
  ASSUME [Next]_vars
  PROVE  [GP!Next]_(GP!queryVars)
<1>1. G!Visit => GP!Visit
  BY SameOperators, Zenon DEF G!Visit, GP!Visit, G!Deep, GP!Deep
<1>2. G!Exhausted => GP!Exhausted
  BY DEF G!Exhausted, GP!Exhausted
<1>3. G!Back => GP!Back
  BY DEF G!Back, GP!Back, G!Reached, GP!Reached, G!Last, GP!Last
<1>4. G!ScanFile => GP!ScanFile
  <2>1. \A f : G!Collect(f) => GP!Collect(f)
    BY SameOperators, Zenon DEF G!Collect, GP!Collect
  <2> QED
    BY <2>1, SameOperators DEF G!ScanFile, GP!ScanFile, G!Stop, GP!Stop, G!BudgetSpent, GP!BudgetSpent
<1>5. G!ScanEnds => GP!ScanEnds
  BY DEF G!ScanEnds, GP!ScanEnds
<1>6. G!Next => GP!Next
  BY <1>1, <1>2, <1>3, <1>4, <1>5 DEF G!Next, GP!Next
<1> QED
  BY <1>6, Parting DEF queryVars, GP!queryVars

LEMMA QueryInit ==
  ASSUME Init
  PROVE  GP!Init
<1>1. G!PathCalls = GP!PathCalls
  <2>1. \A s : G!SetToSeq(s) = GP!SetToSeq(s)
    BY DEF G!SetToSeq, GP!SetToSeq, G!IsInjective, GP!IsInjective, G!Cardinality, GP!Cardinality
  <2> QED
    BY <2>1 DEF G!PathCalls, GP!PathCalls, G!Edges, GP!Edges
<1>2. G!SearchCalls = GP!SearchCalls /\ G!NoScan = GP!NoScan
  BY DEF G!SearchCalls, GP!SearchCalls, G!NoScan, GP!NoScan
<1> QED
  BY <1>1, <1>2 DEF Init, G!Init, GP!Init

(* "Find a shortest undirected trace through actual graph edges": a path that *)
(* is answered is one of the graph and no other is shorter, and none is       *)
(* answered only if none has so few hops (group_query.py, _find_path).        *)
THEOREM ShortestPath == Spec => []PathIsShortest
<1>1. Init => GP!PathInv
  <2>1. GP!IsFiniteSet(Node) /\ MaxHops \in Nat
    BY ServicesAssumption DEF IsFiniteSet, GP!IsFiniteSet
  <2> QED
    BY <2>1, QueryInit, GP!PathInit
<1>2. GP!PathInv /\ [Next]_vars => GP!PathInv'
  BY QueryStep, GP!PathNext
<1>3. GP!PathInv => PathIsShortest
  <2>1. GP!PathInv => GP!PathIsShortest
    BY GP!PathShort
  <2>2. \A k : G!Within(k) = GP!Within(k)
    BY SMTT(30) DEF G!Within, GP!Within, G!Linked, GP!Linked
  <2>3. GP!PathIsShortest => G!PathIsShortest
    BY <2>2 DEF G!PathIsShortest, GP!PathIsShortest, G!Reverse, GP!Reverse, G!Linked, GP!Linked
  <2> QED
    BY <2>1, <2>3 DEF PathIsShortest
<1> QED
  BY <1>1, <1>2, <1>3, PTL DEF Spec

(* "bounded scans report partial results": an answer that does not say it is *)
(* partial has every match of every file the pattern names, whatever the     *)
(* pattern, and the budgets are kept (group_query.py, _search_code,          *)
(* _glob_match).                                                             *)
THEOREM HonestSearch == Spec => []SearchIsHonest
<1>i. GP!Inputs
  BY ServicesAssumption DEF GP!Inputs
<1>1. Init => GP!ScanInv
  BY <1>i, QueryInit, GP!ScanInit
<1>2. GP!ScanInv /\ [Next]_vars => GP!ScanInv'
  BY <1>i, QueryStep, GP!ScanNext
<1>3. GP!ScanInv => SearchIsHonest
  <2>1. GP!ScanInv => GP!SearchIsHonest
    BY <1>i, GP!ScanHonest
  <2>2. \A p, g : G!GlobMeans(p, g) = GP!GlobMeans(p, g)
    BY DEF G!GlobMeans, GP!GlobMeans
  <2>3. GP!SearchIsHonest => G!SearchIsHonest
    BY <2>2, SameOperators DEF G!SearchIsHonest, GP!SearchIsHonest, G!ToSet, GP!ToSet
  <2> QED
    BY <2>1, <2>3 DEF SearchIsHonest
<1> QED
  BY <1>1, <1>2, <1>3, PTL DEF Spec
=============================================================================
