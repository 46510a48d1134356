------------------------- MODULE SubscriptionsProofs -------------------------
(**************************************************************************)
(* What MCSubscriptions checks on two users and two calls at once, proved *)
(* for any number of users, sources, keys, calls and faults.              *)
(**************************************************************************)
EXTENDS Subscriptions, FiniteSetTheorems, TLAPS

-----------------------------------------------------------------------------
(* What is known of a call at each point.  h is hidden: a call that tears a *)
(* source down, or tags its grant, knows that it is or was private.         *)

Op == {"idle", "register", "join", "add", "remove", "delete", "scope", "rebuild", "create",
       "revoke", "offboard"}
Pc == {"idle", "read", "put", "revive", "regrant", "join", "serve", "add", "remove", "next",
       "leave", "check", "disable", "unserve", "list", "drop", "close", "flip", "tag",
       "record", "mint", "point", "revoke", "tombstone", "keys", "cut", "grants", "forget"}

CallType ==
  [op : Op, pc : Pc, user : User \cup {None}, src : Source \cup {None},
   arg : Scope \cup User \cup Key \cup {None}, todo : SUBSET (Key \cup Source),
   listing : SUBSET User]

OnSource == {"put", "revive", "regrant", "join", "serve", "record", "add", "remove", "next", "leave",
             "check", "disable", "unserve", "list", "drop", "close", "flip", "tag"}
OfOffboarding == {"tombstone", "keys", "cut", "grants", "next", "forget"}

Before == {"tombstone", "keys", "cut"}

Fits(c, h) ==
  /\ c.op # "idle" => c.user \in User
  /\ c.pc # "idle" => c.op # "idle"
  /\ c.pc \in OnSource \/ c.op \in {"register", "join", "add", "remove", "delete", "scope", "rebuild"} =>
       c.src \in Source
  /\ c.pc \in OfOffboarding => c.op = "offboard"
  /\ c.pc \in {"add", "remove"} => c.op = c.pc
  /\ c.op = "offboard" /\ c.pc \notin Before => c.todo \subseteq Source
  /\ c.op \in {"add", "remove"} => c.arg \in User
  /\ c.pc \in {"put", "revive", "regrant"} => c.op = "register"
  /\ c.pc \in {"flip", "tag"} => c.op = "scope"
  /\ c.op \in {"register", "scope"} => c.arg \in Scope
  /\ c.op = "register" /\ siloOf[c.src] = None => c.arg = "public"
  /\ c.pc = "regrant" => siloOf[c.src] # None
  /\ c.pc = "tag" => c.src \in h
  /\ c.pc \in {"list", "drop", "close"} => c.src \in h \/ siloOf[c.src] # None
  /\ c.pc \in {"mint", "point"} => c.op = "create"
  /\ c.pc = "revoke" => c.op = "revoke"
  /\ c.op = "revoke" => c.arg \in Key

Calls == DOMAIN call = Call /\ \A q \in Call : call[q] \in CallType /\ Fits(call[q], hidden)

Row == [here : BOOLEAN, enabled : BOOLEAN, scope : Scope, creator : User \cup {None},
        count : Int, runtime : BOOLEAN]

Tables ==
  /\ row \in [Source -> Row]
  /\ DOMAIN grant = User \X Source
  /\ hidden \subseteq Source

(* The shared sources that were never private, and what holds of them.      *)
Shared(s) == s \in Source \ hidden /\ siloOf[s] = None
Counted(s) ==
  /\ row[s].scope = "public"
  /\ row[s].count = Cardinality(Subscribers(s))
  /\ Subscribers(s) # {} => Enabled(s)

Counts == \A s \in Source : Shared(s) => Counted(s)

CountInv == Calls /\ Tables /\ Counts

-----------------------------------------------------------------------------
(* How a call moves.                                                        *)
LEMMA Moved ==
  ASSUME Calls, NEW q \in Call, NEW c \in CallType, Fits(c, hidden'),
         call' = [call EXCEPT ![q] = c], hidden \subseteq hidden'
  PROVE  Calls'
<1>1. DOMAIN call' = Call
  BY DEF Calls
<1>2. ASSUME NEW p \in Call
      PROVE  call'[p] \in CallType /\ Fits(call'[p], hidden')
  <2>1. call'[p] = IF p = q THEN c ELSE call[p]
    BY DEF Calls
  <2>2. Fits(call[p], hidden) => Fits(call[p], hidden')
    BY DEF Fits
  <2> QED
    BY <2>1, <2>2 DEF Calls
<1> QED
  BY <1>1, <1>2 DEF Calls

LEMMA AtPoint ==
  ASSUME NEW c \in CallType, NEW pc \in Pc
  PROVE  LET n == [c EXCEPT !.pc = pc] IN
           n \in CallType /\ n.op = c.op /\ n.pc = pc /\ n.user = c.user /\ n.src = c.src
             /\ n.arg = c.arg /\ n.todo = c.todo
BY DEF CallType

LEMMA IdleFits ==
  ASSUME NEW h
  PROVE  Idle \in CallType /\ Fits(Idle, h)
<1>1. Idle.op = "idle" /\ Idle.pc = "idle"
  BY DEF Idle
<1>2. Fits(Idle, h)
  BY <1>1 DEF Fits, OnSource, OfOffboarding
<1>3. Idle \in CallType
  <2>1. {} \in SUBSET (Key \cup Source) /\ {} \in SUBSET User
    OBVIOUS
  <2> QED
    BY <2>1 DEF Idle, CallType, Op, Pc
<1> QED
  BY <1>2, <1>3

LEMMA Went ==
  ASSUME Calls, NEW q \in Call, NEW pc \in Pc, Goto(q, pc), hidden \subseteq hidden',
         Fits([call[q] EXCEPT !.pc = pc], hidden')
  PROVE  Calls'
<1>1. call' = [call EXCEPT ![q] = [call[q] EXCEPT !.pc = pc]]
  BY DEF Goto, Calls
<1>2. [call[q] EXCEPT !.pc = pc] \in CallType
  BY AtPoint DEF Calls
<1> QED
  BY <1>1, <1>2, Moved

LEMMA DoneKeeps ==
  ASSUME Calls, NEW q \in Call, Done(q), hidden \subseteq hidden', call[q].pc \notin Before
  PROVE  Calls'
<1>1. CASE call[q].op = "offboard"
  <2>1. Goto(q, "grants")
    BY <1>1 DEF Done
  <2>2. Fits([call[q] EXCEPT !.pc = "grants"], hidden')
    BY <1>1, AtPoint DEF Calls, Fits, OnSource, OfOffboarding, Pc
  <2> QED
    BY <1>1, <2>1, <2>2, Went DEF Pc
<1>2. CASE call[q].op # "offboard"
  <2>1. call' = [call EXCEPT ![q] = Idle]
    BY <1>2 DEF Done
  <2>2. Idle \in CallType /\ Fits(Idle, hidden')
    BY IdleFits
  <2> QED
    BY <2>1, <2>2, Moved
<1> QED
  BY <1>1, <1>2

-----------------------------------------------------------------------------
(* Every step moves a call to a point that fits it.                         *)
(* What the routes can ask for.                                             *)
Asks(a) ==
  /\ a[1] \in Op
  /\ a[2] \in Source \cup {None} /\ a[3] \in Scope \cup User \cup Key \cup {None}
  /\ a[1] \in {"register", "join", "add", "remove", "delete", "scope", "rebuild"} =>
       a[2] \in Source
  /\ a[1] \in {"add", "remove"} => a[3] \in User
  /\ a[1] \in {"register", "scope"} => a[3] \in Scope
  /\ a[1] = "register" /\ siloOf[a[2]] = None => a[3] = "public"
  /\ a[1] = "revoke" => a[3] \in Key
  /\ a[1] \notin {"idle", "offboard"}

LEMMA Requests ==
  ASSUME NEW u \in User, NEW a \in Asked(u)
  PROVE  Asks(a)
<1>1. CASE \E s2 \in Source, scope \in Scope :
             /\ siloOf[s2] = None => scope = "public"
             /\ a = <<"register", s2, scope>>
  BY <1>1 DEF Asks, Op, Scope
<1>2. CASE \E op \in {"join", "delete", "rebuild"}, s2 \in Source : a = <<op, s2, None>>
  BY <1>2 DEF Asks, Op
<1>3. CASE \E op \in {"add", "remove"}, s2 \in Source, t \in User : a = <<op, s2, t>>
  BY <1>3 DEF Asks, Op
<1>4. CASE \E s2 \in Source, target \in Scope : a = <<"scope", s2, target>>
  BY <1>4 DEF Asks, Op
<1>5. CASE a = <<"create", None, None>>
  BY <1>5 DEF Asks, Op
<1>6. CASE \E k \in Key : a = <<"revoke", None, k>>
  BY <1>6 DEF Asks, Op
<1> QED
  BY <1>1, <1>2, <1>3, <1>4, <1>5, <1>6, SubscriptionsAssumption DEF Asked, Asks, Scope

LEMMA EnterKeeps ==
  ASSUME CountInv, NEW q \in Call, NEW u \in User, Enter(q, u) \/ EnterOffboard(q, u)
  PROVE  Calls'
<1> USE DEF CountInv
<1>1. CASE Enter(q, u)
  <2>1. PICK a \in Asked(u) : Begin(q, a[1], "read", u, a[2], a[3])
    BY <1>1 DEF Enter
  <2> DEFINE c == [Idle EXCEPT !.op = a[1], !.pc = "read", !.user = u, !.src = a[2], !.arg = a[3]]
  <2>2. Asks(a)
    BY Requests
  <2>3. "read" \in Pc
    BY DEF Pc
  <2>4. /\ c \in CallType /\ c.op = a[1] /\ c.pc = "read" /\ c.user = u /\ c.src = a[2]
        /\ c.arg = a[3]
    <3>1. /\ a[1] \in Op /\ a[2] \in Source \cup {None}
          /\ a[3] \in Scope \cup User \cup Key \cup {None}
      BY <2>2 DEF Asks
    <3> QED
      BY <2>3, <3>1, IdleFits DEF CallType
  <2>5. Fits(c, hidden')
    <3> HIDE DEF c
    <3> QED
      BY <2>2, <2>4 DEF Asks, Fits, OnSource, OfOffboarding
  <2>6. call' = [call EXCEPT ![q] = c] /\ hidden' = hidden
    BY <2>1 DEF Begin
  <2> QED
    BY <2>4, <2>5, <2>6, Moved
<1>2. CASE EnterOffboard(q, u)
  <2> DEFINE c == [Idle EXCEPT !.op = "offboard", !.pc = "tombstone", !.user = u, !.src = None,
                               !.arg = None]
  <2>1. "offboard" \in Op /\ "tombstone" \in Pc
    BY DEF Op, Pc
  <2>2. /\ c \in CallType /\ c.op = "offboard" /\ c.pc = "tombstone" /\ c.user = u
        /\ c.src = None
    <3>1. None \in Source \cup {None} /\ None \in Scope \cup User \cup Key \cup {None}
      OBVIOUS
    <3> QED
      BY <2>1, <3>1, IdleFits DEF CallType
  <2>3. Fits(c, hidden')
    <3> HIDE DEF c
    <3> QED
      BY <2>2 DEF Fits, OnSource, OfOffboarding, Before
  <2>4. call' = [call EXCEPT ![q] = c] /\ hidden' = hidden
    BY <1>2 DEF EnterOffboard, Begin
  <2> QED
    BY <2>2, <2>3, <2>4, Moved
<1> QED
  BY <1>1, <1>2

(* A call that goes on to a point that suits it.                            *)
LEMMA WentOn ==
  ASSUME Calls, NEW q \in Call, NEW pc \in Pc \ {"idle"}, Goto(q, pc), hidden \subseteq hidden',
         call[q].op # "idle", pc \in Before \/ call[q].pc \notin Before,
         pc \in OnSource => call[q].src \in Source,
         pc \in OfOffboarding => call[q].op = "offboard",
         pc \in {"add", "remove"} => call[q].op = pc,
         pc \in {"put", "revive", "regrant"} => call[q].op = "register",
         pc \in {"flip", "tag"} => call[q].op = "scope",
         pc = "regrant" => siloOf[call[q].src] # None,
         pc = "tag" => call[q].src \in hidden',
         pc \in {"list", "drop", "close"} =>
           call[q].src \in hidden' \/ siloOf[call[q].src] # None,
         pc \in {"mint", "point"} => call[q].op = "create",
         pc = "revoke" => call[q].op = "revoke"
  PROVE  Calls'
<1>1. Fits([call[q] EXCEPT !.pc = pc], hidden')
  BY AtPoint DEF Calls, Fits
<1> QED
  BY <1>1, Went

LEMMA RegistrationCalls ==
  ASSUME CountInv, NEW q \in Call,
         \/ FilesRead(q) \/ UrlRead(q) \/ GitRead(q) \/ PutRow(q)
         \/ EnsureRuntime(q) \/ RecordRuntime(q)
         \/ PutGrantAgain(q) \/ JoinRead(q) \/ Join(q)
  PROVE  Calls'
<1> USE DEF CountInv, At, Before
<1>1. ASSUME NEW admits, NEW again \in {"regrant", "join"}, Decide(q, admits, again),
             call[q].pc = "read", call[q].op = "register",
             again = "regrant" => siloOf[call[q].src] # None
      PROVE  Calls'
  <2>1. hidden \subseteq hidden' /\ call[q].pc \notin Before /\ call[q].src \in Source
    BY <1>1 DEF Decide, History, Calls, Fits
  <2>2. Done(q) \/ \E pc \in {"put", "revive", again} : Goto(q, pc)
    BY <1>1 DEF Decide
  <2>3. CASE Done(q)
    BY <2>1, <2>3, DoneKeeps
  <2>4. ASSUME NEW pc \in {"put", "revive", again}, Goto(q, pc)
        PROVE  Calls'
    <3>1. pc \in Pc \ {"idle"} /\ pc \in {"put", "revive", "regrant", "join"}
      BY <1>1, <2>4 DEF Pc
    <3> QED
      BY <1>1, <2>1, <2>4, <3>1, WentOn DEF OfOffboarding
  <2> QED
    BY <2>2, <2>3, <2>4
<1>2. CASE FilesRead(q)
  <2>1. siloOf[call[q].src] # None
    BY <1>2, SubscriptionsAssumption DEF FilesRead, Registers, Calls, Fits
  <2> QED
    BY <1>1, <1>2, <2>1 DEF FilesRead, Registers
<1>3. CASE UrlRead(q)
  <2>1. CASE siloOf[call[q].src] # None
    BY <1>1, <1>3, <2>1 DEF UrlRead, Registers
  <2>2. CASE siloOf[call[q].src] = None
    BY <1>1, <1>3, <2>2 DEF UrlRead, Registers
  <2> QED
    BY <2>1, <2>2
<1>4. CASE GitRead(q)
  BY <1>1, <1>4 DEF GitRead, Registers
<1>5. CASE PutRow(q)
  <2>1. /\ hidden \subseteq hidden' /\ call[q].pc \notin Before /\ call[q].src \in Source
        /\ call[q].op = "register"
    BY <1>5 DEF PutRow, Calls, Fits
  <2>2. Done(q) \/ Goto(q, "serve")
    BY <1>5 DEF PutRow
  <2>3. CASE Goto(q, "serve")
    BY <2>1, <2>3, WentOn DEF Pc, OfOffboarding
  <2> QED
    BY <2>1, <2>2, <2>3, DoneKeeps
<1>6. CASE RecordRuntime(q) \/ PutGrantAgain(q) \/ Join(q)
  <2>1. hidden \subseteq hidden' /\ call[q].pc \notin Before /\ Done(q)
    BY <1>6 DEF RecordRuntime, PutGrantAgain, Join, Subscribe, History
  <2> QED
    BY <2>1, DoneKeeps
<1>8. CASE EnsureRuntime(q)
  <2>1. /\ hidden \subseteq hidden' /\ call[q].pc \notin Before /\ call[q].src \in Source
        /\ call[q].op # "idle"
    BY <1>8 DEF EnsureRuntime, Calls, Fits, OnSource, History
  <2>2. Done(q) \/ Goto(q, "record")
    BY <1>8 DEF EnsureRuntime
  <2>3. CASE Goto(q, "record")
    BY <2>1, <2>3, WentOn DEF Pc, OfOffboarding
  <2> QED
    BY <2>1, <2>2, <2>3, DoneKeeps
<1>7. CASE JoinRead(q)
  <2>1. /\ hidden \subseteq hidden' /\ call[q].pc \notin Before /\ call[q].src \in Source
        /\ call[q].op = "join"
    BY <1>7 DEF JoinRead, Calls, Fits, History
  <2>2. Done(q) \/ Goto(q, "join")
    BY <1>7 DEF JoinRead
  <2>3. CASE Goto(q, "join")
    BY <2>1, <2>3, WentOn DEF Pc, OfOffboarding
  <2> QED
    BY <2>1, <2>2, <2>3, DoneKeeps
<1> QED
  BY <1>2, <1>3, <1>4, <1>5, <1>6, <1>7, <1>8

LEMMA SharingCalls ==
  ASSUME CountInv, NEW q \in Call,
         \/ MemberRead(q) \/ AddMember(q) \/ RemoveMember(q)
         \/ ScopeRead(q) \/ Flip(q) \/ TagGrant(q) \/ RebuildRead(q)
  PROVE  Calls'
<1> USE DEF CountInv, At, Before
<1>1. CASE MemberRead(q)
  <2>1. /\ hidden \subseteq hidden' /\ call[q].pc \notin Before /\ call[q].src \in Source
        /\ call[q].op \in {"add", "remove"}
    BY <1>1 DEF MemberRead, Calls, Fits, History
  <2>2. Done(q) \/ Goto(q, call[q].op)
    BY <1>1 DEF MemberRead
  <2>3. CASE Goto(q, call[q].op)
    BY <2>1, <2>3, WentOn DEF Pc, OfOffboarding
  <2> QED
    BY <2>1, <2>2, <2>3, DoneKeeps
<1>2. CASE AddMember(q) \/ RemoveMember(q) \/ TagGrant(q)
  <2>1. hidden \subseteq hidden' /\ call[q].pc \notin Before /\ Done(q)
    BY <1>2 DEF AddMember, RemoveMember, TagGrant, Subscribe, History
  <2> QED
    BY <2>1, DoneKeeps
<1>3. CASE ScopeRead(q)
  <2>1. /\ hidden \subseteq hidden' /\ call[q].pc \notin Before /\ call[q].src \in Source
        /\ call[q].op = "scope"
    BY <1>3 DEF ScopeRead, Calls, Fits, History
  <2>2. Done(q) \/ Goto(q, "flip")
    BY <1>3 DEF ScopeRead
  <2>3. CASE Goto(q, "flip")
    BY <2>1, <2>3, WentOn DEF Pc, OfOffboarding
  <2> QED
    BY <2>1, <2>2, <2>3, DoneKeeps
<1>4. CASE Flip(q)
  <2>1. /\ hidden \subseteq hidden' /\ call[q].pc \notin Before /\ call[q].src \in Source
        /\ call[q].op = "scope"
    BY <1>4 DEF Flip, Calls, Fits, OnSource
  <2>2. Done(q) \/ (Goto(q, "tag") /\ call[q].src \in hidden')
    <3>1. Done(q) \/ Goto(q, "tag")
      BY <1>4 DEF Flip
    <3>2. Done(q) \/ call[q].src \in hidden'
      BY <1>4 DEF Flip
    <3> QED
      BY <3>1, <3>2
  <2>3. CASE Goto(q, "tag") /\ call[q].src \in hidden'
    BY <2>1, <2>3, WentOn DEF Pc, OfOffboarding
  <2> QED
    BY <2>1, <2>2, <2>3, DoneKeeps
<1>5. CASE RebuildRead(q)
  <2>1. /\ hidden \subseteq hidden' /\ call[q].pc \notin Before /\ call[q].src \in Source
        /\ call[q].op = "rebuild"
    BY <1>5 DEF RebuildRead, Calls, Fits, History
  <2>2. Done(q) \/ Goto(q, "serve")
    BY <1>5 DEF RebuildRead
  <2>3. CASE Goto(q, "serve")
    BY <2>1, <2>3, WentOn DEF Pc, OfOffboarding
  <2> QED
    BY <2>1, <2>2, <2>3, DoneKeeps
<1> QED
  BY <1>1, <1>2, <1>3, <1>4, <1>5

LEMMA LeavingCalls ==
  ASSUME CountInv, NEW q \in Call,
         \/ DeleteRead(q) \/ Leave(q) \/ CheckCount(q) \/ Disable(q) \/ DeleteRuntime(q)
         \/ ListGrants(q) \/ DropGrant(q) \/ Close(q)
  PROVE  Calls'
<1> USE DEF CountInv, At, Before
<1>1. CASE DeleteRead(q)
  <2>1. /\ hidden \subseteq hidden' /\ call[q].pc \notin Before /\ call[q].src \in Source
        /\ call[q].op # "idle" /\ call[q].pc \notin Before
    BY <1>1 DEF DeleteRead, Calls, Fits, History, OnSource
  <2>2. \/ Done(q) \/ Goto(q, "leave")
        \/ (Goto(q, "list") /\ Destroys(call[q].user, call[q].src))
    BY <1>1 DEF DeleteRead
  <2>3. CASE Goto(q, "leave")
    BY <2>1, <2>3, WentOn DEF Pc, OfOffboarding
  <2>4. CASE Goto(q, "list") /\ Destroys(call[q].user, call[q].src)
    <3>1. call[q].src \in hidden' \/ siloOf[call[q].src] # None
      BY <2>1, <2>4 DEF Destroys, Counts, Shared, Counted
    <3> QED
      BY <2>1, <2>4, <3>1, WentOn DEF Pc, OfOffboarding
  <2> QED
    BY <2>1, <2>2, <2>3, <2>4, DoneKeeps
<1>2. CASE Leave(q) \/ CheckCount(q) \/ Disable(q) \/ Close(q)
  <2>1. /\ hidden \subseteq hidden' /\ call[q].pc \notin Before /\ call[q].src \in Source
        /\ call[q].op # "idle" /\ call[q].pc \notin Before
    BY <1>2 DEF Leave, CheckCount, Disable, Close, Calls, Fits, History, OnSource
  <2>2. Done(q) \/ \E pc \in {"check", "disable", "unserve"} : Goto(q, pc)
    BY <1>2 DEF Leave, CheckCount, Disable, Close
  <2>3. ASSUME NEW pc \in {"check", "disable", "unserve"}, Goto(q, pc)
        PROVE  Calls'
    BY <2>1, <2>3, WentOn DEF Pc, OfOffboarding
  <2> QED
    BY <2>1, <2>2, <2>3, DoneKeeps
<1>3. CASE DeleteRuntime(q)
  <2>1. hidden \subseteq hidden' /\ call[q].pc \notin Before /\ Done(q)
    BY <1>3 DEF DeleteRuntime, History
  <2> QED
    BY <2>1, DoneKeeps
<1>4. CASE ListGrants(q)
  <2> DEFINE L == {u \in Subscribers(call[q].src) : grant[<<u, call[q].src>>].listed}
             c == [call[q] EXCEPT !.pc = "drop", !.listing = L]
  <2>1. L \in SUBSET User
    BY DEF Subscribers
  <2>2. call' = [call EXCEPT ![q] = c] /\ hidden' = hidden
    BY <1>4 DEF ListGrants, History
  <2>3. /\ c \in CallType /\ c.pc = "drop" /\ c.op = call[q].op /\ c.user = call[q].user
        /\ c.src = call[q].src /\ c.arg = call[q].arg /\ c.todo = call[q].todo
    <3> HIDE DEF L
    <3> QED
      BY <2>1 DEF Calls, CallType, Pc
  <2>4. Fits(c, hidden')
    <3> HIDE DEF c
    <3> QED
      <4>1. Fits(call[q], hidden) /\ call[q].pc = "list"
        BY <1>4 DEF ListGrants, Calls
      <4> QED
        BY <4>1, <2>2, <2>3 DEF Fits, OnSource, OfOffboarding
  <2> QED
    BY <2>2, <2>3, <2>4, Moved
<1>5. CASE DropGrant(q)
  <2>1. ASSUME NEW u \in call[q].listing, call' = [call EXCEPT ![q].listing = @ \ {u}]
        PROVE  Calls'
    <3> DEFINE L == call[q].listing \ {u}
               c == [call[q] EXCEPT !.listing = L]
    <3>1. L \in SUBSET User
      BY DEF Calls, CallType
    <3>2. call' = [call EXCEPT ![q] = c] /\ hidden' = hidden
      BY <1>5, <2>1 DEF DropGrant, History
    <3>3. /\ c \in CallType /\ c.pc = call[q].pc /\ c.op = call[q].op /\ c.user = call[q].user
          /\ c.src = call[q].src /\ c.arg = call[q].arg /\ c.todo = call[q].todo
      <4> HIDE DEF L
      <4> QED
        BY <3>1 DEF Calls, CallType
    <3>4. Fits(c, hidden')
      <4> HIDE DEF c
      <4> QED
        BY <3>2, <3>3 DEF Calls, Fits
    <3> QED
      BY <3>2, <3>3, <3>4, Moved
  <2>2. CASE Goto(q, "close")
    <3>1. /\ hidden \subseteq hidden' /\ call[q].pc \notin Before
          /\ call[q].src \in Source /\ call[q].op # "idle"
          /\ call[q].src \in hidden' \/ siloOf[call[q].src] # None
      BY <1>5 DEF DropGrant, Calls, Fits, OnSource, History
    <3> QED
      BY <2>2, <3>1, WentOn DEF Pc, OfOffboarding
  <2> QED
    BY <1>5, <2>1, <2>2 DEF DropGrant
<1> QED
  BY <1>1, <1>2, <1>3, <1>4, <1>5

LEMMA AccountCalls ==
  ASSUME CountInv, NEW q \in Call,
         \/ CreateRead(q) \/ MintKey(q) \/ PointKey(q) \/ RevokeRead(q) \/ Revoke(q)
         \/ Tombstone(q) \/ ListKeys(q) \/ CutKey(q) \/ NextGrant(q) \/ Forget(q) \/ Kill(q)
  PROVE  Calls'
<1> USE DEF CountInv, At, Before
<1>1. CASE CreateRead(q) \/ RevokeRead(q)
  <2>1. /\ hidden \subseteq hidden'
        /\ call[q].pc \notin Before /\ call[q].op \in {"create", "revoke"}
        /\ Done(q) \/ (Goto(q, "mint") /\ call[q].op = "create")
             \/ (Goto(q, "revoke") /\ call[q].op = "revoke")
    BY <1>1 DEF CreateRead, RevokeRead, History
  <2>2. CASE Goto(q, "mint") /\ call[q].op = "create"
    BY <2>1, <2>2, WentOn DEF Pc, OfOffboarding, OnSource
  <2>3. CASE Goto(q, "revoke") /\ call[q].op = "revoke"
    BY <2>1, <2>3, WentOn DEF Pc, OfOffboarding, OnSource
  <2> QED
    BY <2>1, <2>2, <2>3, DoneKeeps
<1>2. CASE MintKey(q)
  <2>1. PICK k \in Key : call' = [call EXCEPT ![q] = [call[q] EXCEPT !.pc = "point", !.arg = k]]
    BY <1>2 DEF MintKey, Calls
  <2> DEFINE c == [call[q] EXCEPT !.pc = "point", !.arg = k]
  <2>2. /\ c \in CallType /\ c.pc = "point" /\ c.op = call[q].op /\ c.user = call[q].user
        /\ c.src = call[q].src /\ c.arg = k
    BY DEF Calls, CallType, Pc
  <2>3. hidden' = hidden /\ call[q].op = "create" /\ Fits(call[q], hidden)
    BY <1>2 DEF MintKey, Calls, Fits, History
  <2>4. Fits(c, hidden')
    <3> HIDE DEF c
    <3> QED
      BY <2>2, <2>3 DEF Fits, OnSource, OfOffboarding
  <2> QED
    BY <2>1, <2>2, <2>3, <2>4, Moved
<1>3. CASE PointKey(q) \/ Revoke(q)
  <2>1. hidden \subseteq hidden' /\ call[q].pc \notin Before /\ Done(q)
    BY <1>3 DEF PointKey, Revoke, History
  <2> QED
    BY <2>1, DoneKeeps
<1>4. CASE Tombstone(q)
  <2>1. hidden \subseteq hidden' /\ Goto(q, "keys") /\ call[q].op = "offboard"
    BY <1>4 DEF Tombstone, Calls, Fits, OfOffboarding
  <2> QED
    BY <2>1, WentOn DEF Pc, OnSource
<1>5. ASSUME NEW pc \in {"cut", "grants", "next"}, NEW s \in Source \cup {None},
             NEW T \in SUBSET (Key \cup Source), call[q].op = "offboard",
             hidden' = hidden, pc = "next" => s \in Source, pc \in Before \/ T \subseteq Source,
             call' = [call EXCEPT ![q] = [call[q] EXCEPT !.pc = pc, !.src = s, !.todo = T]]
      PROVE  Calls'
  <2> DEFINE c == [call[q] EXCEPT !.pc = pc, !.src = s, !.todo = T]
  <2>1. pc \in Pc
    BY DEF Pc
  <2>2. /\ c \in CallType /\ c.pc = pc /\ c.op = call[q].op /\ c.user = call[q].user
        /\ c.src = s /\ c.arg = call[q].arg /\ c.todo = T
    BY <2>1 DEF Calls, CallType
  <2>3. Fits(call[q], hidden)
    BY DEF Calls
  <2>4. Fits(c, hidden')
    <3> HIDE DEF c
    <3> QED
      BY <1>5, <2>2, <2>3 DEF Fits, OnSource, OfOffboarding
  <2> QED
    BY <1>5, <2>2, <2>4, Moved
<1>6. ASSUME call[q].op = "offboard"
      PROVE  [call[q] EXCEPT !.src = call[q].src] = call[q] /\ call[q].src \in Source \cup {None}
  BY DEF Calls, CallType
<1>7. CASE ListKeys(q)
  <2> DEFINE T == {k \in Key : key[k].owner = call[q].user /\ key[k].pointed}
  <2>1. T \in SUBSET (Key \cup Source)
    OBVIOUS
  <2>2. call[q].op = "offboard" /\ hidden' = hidden
    BY <1>7 DEF ListKeys, Calls, Fits, OfOffboarding, History
  <2>3. call' = [call EXCEPT ![q] = [call[q] EXCEPT !.pc = "cut", !.src = call[q].src, !.todo = T]]
    BY <1>7, <2>2 DEF ListKeys, Calls, CallType
  <2> HIDE DEF T
  <2> QED
    BY <1>5, <1>6, <2>1, <2>2, <2>3
<1>8. CASE CutKey(q)
  <2>1. call[q].op = "offboard" /\ hidden' = hidden /\ call[q].pc = "cut"
    BY <1>8 DEF CutKey, Calls, Fits, OfOffboarding, History
  <2>2. ASSUME NEW k \in call[q].todo, call' = [call EXCEPT ![q].todo = @ \ {k}]
        PROVE  Calls'
    <3> DEFINE T == call[q].todo \ {k}
    <3>1. T \in SUBSET (Key \cup Source)
      BY DEF Calls, CallType
    <3>2. call' = [call EXCEPT ![q] = [call[q] EXCEPT !.pc = "cut", !.src = call[q].src, !.todo = T]]
      BY <2>1, <2>2 DEF Calls, CallType
    <3> HIDE DEF T
    <3> QED
      BY <1>5, <1>6, <2>1, <3>1, <3>2
  <2>3. CASE call' = [call EXCEPT ![q].pc = "grants",
                                 ![q].todo = {s \in Source : grant[<<call[q].user, s>>] # None}]
    <3> DEFINE T == {s \in Source : grant[<<call[q].user, s>>] # None}
    <3>1. T \in SUBSET (Key \cup Source) /\ T \subseteq Source
      BY Zenon
    <3>2. call' = [call EXCEPT ![q] = [call[q] EXCEPT !.pc = "grants", !.src = call[q].src, !.todo = T]]
      BY <2>1, <2>3 DEF Calls, CallType
    <3> HIDE DEF T
    <3> QED
      BY <1>5, <1>6, <2>1, <3>1, <3>2
  <2> QED
    BY <1>8, <2>2, <2>3 DEF CutKey
<1>9. CASE NextGrant(q)
  <2>1. /\ call[q].op = "offboard" /\ hidden' = hidden /\ call[q].pc = "grants"
        /\ call[q].todo \subseteq Source
    BY <1>9 DEF NextGrant, Calls, Fits, OfOffboarding, History
  <2>2. ASSUME NEW s \in call[q].todo,
               call' = [call EXCEPT ![q].pc = "next", ![q].src = s, ![q].todo = @ \ {s}]
        PROVE  Calls'
    <3> DEFINE T == call[q].todo \ {s}
    <3>1. T \in SUBSET (Key \cup Source) /\ T \subseteq Source /\ s \in Source
      BY <2>1 DEF Calls, CallType
    <3>2. call' = [call EXCEPT ![q] = [call[q] EXCEPT !.pc = "next", !.src = s, !.todo = T]]
      BY <2>2 DEF Calls, CallType
    <3> HIDE DEF T
    <3> QED
      BY <1>5, <2>1, <2>2, <3>1, <3>2
  <2>3. CASE Goto(q, "forget")
    BY <2>1, <2>3, WentOn DEF Pc, OnSource
  <2> QED
    BY <1>9, <2>2, <2>3 DEF NextGrant
<1>10. CASE Forget(q) \/ Kill(q)
  <2>1. hidden \subseteq hidden' /\ call' = [call EXCEPT ![q] = Idle]
    BY <1>10 DEF Forget, Kill, History
  <2>2. Idle \in CallType /\ Fits(Idle, hidden')
    BY IdleFits
  <2> QED
    BY <2>1, <2>2, Moved
<1> QED
  BY <1>1, <1>2, <1>3, <1>4, <1>7, <1>8, <1>9, <1>10

LEMMA CallsNext ==
  ASSUME CountInv, [Next]_vars
  PROVE  Calls'
<1>1. ASSUME NEW q \in Call, Step(q) \/ Kill(q)
      PROVE  Calls'
  <2>1. CASE \/ FilesRead(q) \/ UrlRead(q) \/ GitRead(q) \/ PutRow(q)
             \/ EnsureRuntime(q) \/ RecordRuntime(q)
             \/ PutGrantAgain(q) \/ JoinRead(q) \/ Join(q)
    BY <2>1, RegistrationCalls
  <2>2. CASE \/ MemberRead(q) \/ AddMember(q) \/ RemoveMember(q)
             \/ ScopeRead(q) \/ Flip(q) \/ TagGrant(q) \/ RebuildRead(q)
    BY <2>2, SharingCalls
  <2>3. CASE \/ DeleteRead(q) \/ Leave(q) \/ CheckCount(q) \/ Disable(q) \/ DeleteRuntime(q)
             \/ ListGrants(q) \/ DropGrant(q) \/ Close(q)
    BY <2>3, LeavingCalls
  <2>4. CASE \/ CreateRead(q) \/ MintKey(q) \/ PointKey(q) \/ RevokeRead(q) \/ Revoke(q)
             \/ Tombstone(q) \/ ListKeys(q) \/ CutKey(q) \/ NextGrant(q) \/ Forget(q) \/ Kill(q)
    BY <2>4, AccountCalls
  <2> QED
    BY <1>1, <2>1, <2>2, <2>3, <2>4 DEF Step, RegisterFiles, RegisterUrl, RegisterGit
<1>2. ASSUME NEW q \in Call, NEW u \in User, Enter(q, u) \/ EnterOffboard(q, u)
      PROVE  Calls'
  BY <1>2, EnterKeeps
<1>3. CASE \E k \in Key : Lapse(k)
  BY <1>3 DEF Lapse, History, Calls, CountInv
<1>4. CASE UNCHANGED vars
  BY <1>4 DEF vars, Calls, CountInv
<1> QED
  BY <1>1, <1>2, <1>3, <1>4 DEF Next

-----------------------------------------------------------------------------
(* What a write does to the rows and the grants.                            *)
LEMMA RowSet ==
  ASSUME Tables, NEW s \in Source, NEW x \in Row, row' = [row EXCEPT ![s] = x]
  PROVE  /\ row' \in [Source -> Row]
         /\ row'[s] = x
         /\ \A r \in Source : r # s => row'[r] = row[r]
BY DEF Tables

LEMMA GrantSet ==
  ASSUME Tables, NEW u \in User, NEW s \in Source, NEW x,
         grant' = [grant EXCEPT ![<<u, s>>] = x]
  PROVE  /\ DOMAIN grant' = User \X Source
         /\ \A r \in Source : r # s => Subscribers(r)' = Subscribers(r)
         /\ x = None => Subscribers(s)' = Subscribers(s) \ {u}
         /\ x # None => Subscribers(s)' = Subscribers(s) \cup {u}
<1>1. DOMAIN grant' = User \X Source
  BY DEF Tables
<1>2. \A w \in User, r \in Source :
        grant'[<<w, r>>] = IF w = u /\ r = s THEN x ELSE grant[<<w, r>>]
  <2>1. \A p \in User \X Source : grant'[p] = IF p = <<u, s>> THEN x ELSE grant[p]
    BY DEF Tables
  <2> QED
    BY <2>1
<1>3. ASSUME NEW r \in Source, r # s
      PROVE  Subscribers(r)' = Subscribers(r)
  BY <1>2, <1>3 DEF Subscribers
<1>4. ASSUME x = None
      PROVE  Subscribers(s)' = Subscribers(s) \ {u}
  BY <1>2, <1>4 DEF Subscribers
<1>5. ASSUME x # None
      PROVE  Subscribers(s)' = Subscribers(s) \cup {u}
  BY <1>2, <1>5 DEF Subscribers
<1> QED
  BY <1>1, <1>3, <1>4, <1>5

LEMMA PutIsGrant ==
  ASSUME NEW scope \in {"public", "private", "member"}
  PROVE  Put(scope) # None
<1>1. Put(scope) \in [scope : {"public", "private", "member"}, listed : BOOLEAN]
  BY DEF Put
<1> QED
  BY <1>1, SubscriptionsAssumption

LEMMA SubscribersFinite ==
  ASSUME NEW s
  PROVE  IsFiniteSet(Subscribers(s)) /\ Cardinality(Subscribers(s)) \in Nat
<1>1. Subscribers(s) \in SUBSET User
  BY DEF Subscribers
<1> QED
  BY <1>1, SubscriptionsAssumption, FS_Subset, FS_CardinalityType

LEMMA RowChanges ==
  ASSUME NEW r \in Row, NEW n \in Int
  PROVE  /\ [r EXCEPT !.count = n] \in Row
         /\ [r EXCEPT !.count = n].count = n
         /\ [r EXCEPT !.count = n].scope = r.scope
         /\ [r EXCEPT !.count = n].here = r.here
         /\ [r EXCEPT !.count = n].enabled = r.enabled
BY DEF Row

(* A source that a step leaves alone, as far as its count is concerned.     *)
LEMMA CountKept ==
  ASSUME CountInv, NEW r \in Source, Shared(r)', hidden \subseteq hidden',
         Subscribers(r)' = Subscribers(r), row'[r].scope = row[r].scope,
         row'[r].count = row[r].count, row'[r].here = row[r].here,
         row'[r].enabled = row[r].enabled
  PROVE  Counted(r)'
<1>1. Counted(r)
  BY DEF CountInv, Counts, Shared
<1> QED
  BY <1>1 DEF Counted, Enabled

LEMMA RegistrationCounts ==
  ASSUME CountInv, NEW q \in Call, PutRow(q), NEW u, u = call[q].user,
         NEW s, s = call[q].src, NEW arg, arg = call[q].arg
  PROVE  Tables' /\ Counts'
<1> USE DEF CountInv
<1>1. /\ u \in User /\ s \in Source /\ arg \in Scope
      /\ siloOf[s] = None => arg = "public"
  BY DEF PutRow, At, Calls, Fits, OnSource
<1>2. CASE /\ Vacant(q)
           /\ row' = [row EXCEPT ![s] = Registered(u, s, arg)]
           /\ grant' = [grant EXCEPT ![<<u, s>>] = Put(arg)]
           /\ hidden' = IF arg = "private" THEN hidden \cup {s} ELSE hidden
  <2>1. /\ Registered(u, s, arg) \in Row
        /\ Registered(u, s, arg).count = 1
        /\ Registered(u, s, arg).scope = arg
        /\ Registered(u, s, arg).here /\ Registered(u, s, arg).enabled
    BY <1>1 DEF Registered, Row
  <2>2. Put(arg) # None
    BY <1>1, PutIsGrant DEF Scope
  <2>3. /\ row' \in [Source -> Row] /\ row'[s] = Registered(u, s, arg)
        /\ \A r \in Source : r # s => row'[r] = row[r]
    BY <1>1, <1>2, <2>1, RowSet
  <2>4. /\ DOMAIN grant' = User \X Source
        /\ \A r \in Source : r # s => Subscribers(r)' = Subscribers(r)
        /\ Subscribers(s)' = Subscribers(s) \cup {u}
    BY <1>1, <1>2, <2>2, GrantSet
  <2>5. hidden \subseteq hidden' /\ hidden' \subseteq Source
    BY <1>1, <1>2 DEF Tables
  <2>6. ASSUME NEW r \in Source, Shared(r)', r # s
        PROVE  Counted(r)'
    BY <2>3, <2>4, <2>5, <2>6, CountKept
  <2>7. ASSUME Shared(s)'
        PROVE  Counted(s)'
    <3>1. Shared(s) /\ siloOf[s] = None
      BY <1>1, <2>5, <2>7 DEF Shared
    <3>2. ~Enabled(s)
      BY <1>2 DEF Vacant, Enabled
    <3>3. Subscribers(s)' = {u}
      BY <1>1, <2>4, <3>1, <3>2 DEF Counts, Counted
    <3>4. Cardinality({u}) = 1
      BY FS_Singleton
    <3> QED
      BY <1>1, <2>1, <2>3, <3>1, <3>3, <3>4 DEF Counted, Enabled
  <2> QED
    BY <1>1, <2>3, <2>4, <2>5, <2>6, <2>7 DEF Tables, Counts
<1>3. CASE UNCHANGED <<row, grant, hidden>>
  BY <1>3 DEF Tables, Counts, Shared, Counted, Subscribers, Enabled
<1> QED
  BY <1>2, <1>3 DEF PutRow

(* One grant more, one fewer: the count goes with it.                       *)
LEMMA SubscribeCounts ==
  ASSUME CountInv, NEW q \in Call, NEW u \in User, NEW s \in Source,
         NEW scope \in {"public", "member"}, NEW admits, Subscribe(q, u, s, scope, admits)
  PROVE  Tables' /\ Counts'
<1> USE DEF CountInv
<1>1. hidden' = hidden
  BY DEF Subscribe, History
<1>2. CASE /\ grant[<<u, s>>] = None /\ Enabled(s)
           /\ grant' = [grant EXCEPT ![<<u, s>>] = Put(scope)]
           /\ row' = [row EXCEPT ![s].count = @ + 1]
  <2> DEFINE x == [row[s] EXCEPT !.count = row[s].count + 1]
  <2>1. row[s] \in Row /\ row[s].count + 1 \in Int
    BY DEF Tables, Row
  <2>2. /\ x \in Row /\ x.count = row[s].count + 1 /\ x.scope = row[s].scope
        /\ x.here = row[s].here /\ x.enabled = row[s].enabled
    BY <2>1, RowChanges
  <2>3. row' = [row EXCEPT ![s] = x]
    BY <1>2 DEF Tables
  <2> HIDE DEF x
  <2>4. /\ row' \in [Source -> Row] /\ row'[s] = x
        /\ \A r \in Source : r # s => row'[r] = row[r]
    BY <2>2, <2>3, RowSet
  <2>5. /\ DOMAIN grant' = User \X Source
        /\ \A r \in Source : r # s => Subscribers(r)' = Subscribers(r)
        /\ Subscribers(s)' = Subscribers(s) \cup {u}
    <3>1. Put(scope) # None
      BY PutIsGrant
    <3> QED
      BY <1>2, <3>1, GrantSet
  <2>6. ASSUME NEW r \in Source, Shared(r)', r # s
        PROVE  Counted(r)'
    BY <1>1, <2>4, <2>5, <2>6, CountKept
  <2>7. ASSUME Shared(s)'
        PROVE  Counted(s)'
    <3>1. Counted(s)
      BY <1>1, <2>7 DEF Shared, Counts
    <3>2. u \notin Subscribers(s)
      BY <1>2 DEF Subscribers
    <3>3. Cardinality(Subscribers(s) \cup {u}) = Cardinality(Subscribers(s)) + 1
      BY <3>2, SubscribersFinite, FS_AddElement
    <3> QED
      BY <1>2, <2>2, <2>4, <2>5, <3>1, <3>3 DEF Counted, Enabled
  <2> QED
    BY <1>1, <2>4, <2>5, <2>6, <2>7 DEF Tables, Counts
<1>3. CASE UNCHANGED <<row, grant>>
  BY <1>1, <1>3 DEF Tables, Counts, Shared, Counted, Subscribers, Enabled
<1> QED
  BY <1>2, <1>3 DEF Subscribe

LEMMA UnsubscribeCounts ==
  ASSUME CountInv, NEW u \in User, NEW s \in Source, hidden' = hidden,
         grant[<<u, s>>] # None, grant' = [grant EXCEPT ![<<u, s>>] = None],
         row' = [row EXCEPT ![s].count = @ - 1]
  PROVE  Tables' /\ Counts'
<1> USE DEF CountInv
<1> DEFINE x == [row[s] EXCEPT !.count = row[s].count - 1]
<1>1. row[s] \in Row /\ row[s].count - 1 \in Int
  BY DEF Tables, Row
<1>2. /\ x \in Row /\ x.count = row[s].count - 1 /\ x.scope = row[s].scope
      /\ x.here = row[s].here /\ x.enabled = row[s].enabled
  BY <1>1, RowChanges
<1>3. row' = [row EXCEPT ![s] = x]
  BY DEF Tables
<1> HIDE DEF x
<1>4. /\ row' \in [Source -> Row] /\ row'[s] = x
      /\ \A r \in Source : r # s => row'[r] = row[r]
  BY <1>2, <1>3, RowSet
<1>5. /\ DOMAIN grant' = User \X Source
      /\ \A r \in Source : r # s => Subscribers(r)' = Subscribers(r)
      /\ Subscribers(s)' = Subscribers(s) \ {u}
  BY GrantSet
<1>6. ASSUME NEW r \in Source, Shared(r)', r # s
      PROVE  Counted(r)'
  BY <1>4, <1>5, <1>6, CountKept
<1>7. ASSUME Shared(s)'
      PROVE  Counted(s)'
  <2>1. Counted(s)
    BY <1>7 DEF Shared, Counts
  <2>2. u \in Subscribers(s)
    BY DEF Subscribers
  <2>3. Cardinality(Subscribers(s) \ {u}) = Cardinality(Subscribers(s)) - 1
    BY <2>2, SubscribersFinite, FS_RemoveElement
  <2> QED
    BY <1>2, <1>4, <1>5, <2>1, <2>2, <2>3 DEF Counted, Enabled
<1> QED
  BY <1>4, <1>5, <1>6, <1>7 DEF Tables, Counts

(* A write to a row that keeps its count and scope, unless the source is no *)
(* shared one, and enables nothing, but may disable it if nobody is left.   *)
LEMMA RowCounts ==
  ASSUME CountInv, NEW s \in Source, NEW x \in Row, row' = [row EXCEPT ![s] = x],
         UNCHANGED grant, hidden \subseteq hidden', hidden' \subseteq Source,
         \/ ~Shared(s)'
         \/ /\ x.count = row[s].count /\ x.scope = row[s].scope
            /\ \/ x.here = row[s].here /\ x.enabled = row[s].enabled
               \/ row[s].count <= 0
  PROVE  Tables' /\ Counts'
<1> USE DEF CountInv
<1>1. /\ row' \in [Source -> Row] /\ row'[s] = x
      /\ \A r \in Source : r # s => row'[r] = row[r]
  BY RowSet
<1>2. \A r \in Source : Subscribers(r)' = Subscribers(r)
  BY DEF Subscribers
<1>3. ASSUME NEW r \in Source, Shared(r)', r # s
      PROVE  Counted(r)'
  BY <1>1, <1>2, <1>3, CountKept
<1>4. ASSUME Shared(s)'
      PROVE  Counted(s)'
  <2>1. Counted(s)
    BY <1>4 DEF Shared, Counts
  <2>2. CASE x.here = row[s].here /\ x.enabled = row[s].enabled
    BY <1>1, <1>2, <1>4, <2>2, CountKept
  <2>3. CASE row[s].count <= 0
    <3>1. Cardinality(Subscribers(s)) = 0
      BY <2>1, <2>3, SubscribersFinite DEF Counted
    <3>2. Subscribers(s) = {}
      BY <3>1, SubscribersFinite, FS_EmptySet
    <3> QED
      BY <1>1, <1>2, <1>4, <2>1, <3>2 DEF Counted
  <2> QED
    BY <1>4, <2>2, <2>3
<1> QED
  BY <1>1, <1>3, <1>4 DEF Tables, Counts

(* A write to a grant of a source that is no shared one.                    *)
LEMMA GrantCounts ==
  ASSUME CountInv, NEW u \in User, NEW s \in Source, ~Shared(s), NEW x,
         grant' = [grant EXCEPT ![<<u, s>>] = x], UNCHANGED <<row, hidden>>
  PROVE  Tables' /\ Counts'
<1>1. /\ DOMAIN grant' = User \X Source
      /\ \A r \in Source : r # s => Subscribers(r)' = Subscribers(r)
  BY GrantSet DEF CountInv
<1>2. ASSUME NEW r \in Source, Shared(r)'
      PROVE  Counted(r)'
  <2>1. r # s
    BY <1>2 DEF Shared
  <2> QED
    BY <1>1, <1>2, <2>1, CountKept
<1> QED
  BY <1>1, <1>2 DEF CountInv, Tables, Counts

LEMMA QuietCounts ==
  ASSUME CountInv, UNCHANGED <<row, grant, hidden>>
  PROVE  Tables' /\ Counts'
BY DEF CountInv, Tables, Counts, Shared, Counted, Subscribers, Enabled

LEMMA RowFields ==
  ASSUME NEW r \in Row, NEW t \in Scope
  PROVE  /\ [r EXCEPT !.runtime = TRUE] \in Row
         /\ [r EXCEPT !.runtime = TRUE].count = r.count
         /\ [r EXCEPT !.runtime = TRUE].scope = r.scope
         /\ [r EXCEPT !.runtime = TRUE].here = r.here
         /\ [r EXCEPT !.runtime = TRUE].enabled = r.enabled
         /\ [r EXCEPT !.enabled = FALSE] \in Row
         /\ [r EXCEPT !.enabled = FALSE].count = r.count
         /\ [r EXCEPT !.enabled = FALSE].scope = r.scope
         /\ [r EXCEPT !.scope = t] \in Row
         /\ Closed(r) \in Row
<1>1. Closed(r) \in Row
  <2>1. PICK y \in Row : y = [r EXCEPT !.enabled = FALSE]
    BY DEF Row
  <2>2. [y EXCEPT !.count = 0] \in Row
    BY DEF Row
  <2>3. Closed(r) = [y EXCEPT !.count = 0]
    BY <2>1 DEF Closed, Row
  <2> QED
    BY <2>2, <2>3
<1>2. /\ [r EXCEPT !.runtime = TRUE] \in Row
      /\ [r EXCEPT !.runtime = TRUE].count = r.count
      /\ [r EXCEPT !.runtime = TRUE].scope = r.scope
      /\ [r EXCEPT !.runtime = TRUE].here = r.here
      /\ [r EXCEPT !.runtime = TRUE].enabled = r.enabled
  BY DEF Row
<1>3. /\ [r EXCEPT !.enabled = FALSE] \in Row
      /\ [r EXCEPT !.enabled = FALSE].count = r.count
      /\ [r EXCEPT !.enabled = FALSE].scope = r.scope
  BY DEF Row
<1>4. [r EXCEPT !.scope = t] \in Row
  BY DEF Row
<1> QED
  BY <1>1, <1>2, <1>3, <1>4

LEMMA StepCounts ==
  ASSUME CountInv, NEW q \in Call, Step(q), NEW u, u = call[q].user, NEW s, s = call[q].src
  PROVE  Tables' /\ Counts'
<1> USE DEF At, History
<1>1. CASE PutRow(q)
  BY <1>1, RegistrationCounts
<1>2. ASSUME call[q].pc \in OnSource
      PROVE  s \in Source /\ u \in User /\ row[s] \in Row
  BY <1>2 DEF CountInv, Calls, Fits, Tables, OnSource
<1>3. CASE RecordRuntime(q)
  <2>1. s \in Source /\ row[s] \in Row
    BY <1>2, <1>3 DEF RecordRuntime, OnSource
  <2> DEFINE x == [row[s] EXCEPT !.runtime = TRUE]
  <2>2. row' = [row EXCEPT ![s] = x]
    BY <1>3, <2>1 DEF RecordRuntime, CountInv, Tables
  <2>3. /\ x \in Row /\ x.count = row[s].count /\ x.scope = row[s].scope
        /\ x.here = row[s].here /\ x.enabled = row[s].enabled
    BY <2>1, RowFields DEF Scope
  <2>4. UNCHANGED <<grant, hidden>> /\ hidden \subseteq Source
    BY <1>3 DEF RecordRuntime, CountInv, Tables
  <2> HIDE DEF x
  <2> QED
    BY <2>1, <2>2, <2>3, <2>4, RowCounts
<1>3a. CASE EnsureRuntime(q)
  BY <1>3a, QuietCounts DEF EnsureRuntime
<1>4. CASE PutGrantAgain(q) \/ TagGrant(q)
  <2>1. s \in Source /\ u \in User /\ ~Shared(s)
    BY <1>4 DEF PutGrantAgain, TagGrant, OnSource, CountInv, Calls, Fits, Shared
  <2>2. UNCHANGED <<row, hidden>> /\ \E x : grant' = [grant EXCEPT ![<<u, s>>] = x]
    BY <1>4 DEF PutGrantAgain, TagGrant
  <2> QED
    BY <2>1, <2>2, GrantCounts
<1>5. CASE Join(q)
  <2>1. s \in Source /\ u \in User
    BY <1>2, <1>5 DEF Join, OnSource
  <2> QED
    BY <1>5, <2>1, SubscribeCounts DEF Join
<1>6. CASE AddMember(q)
  <2>1. s \in Source /\ call[q].arg \in User
    BY <1>6 DEF AddMember, OnSource, CountInv, Calls, Fits
  <2> QED
    BY <1>6, <2>1, SubscribeCounts DEF AddMember
<1>7. CASE RemoveMember(q)
  <2>1. s \in Source /\ call[q].arg \in User
    BY <1>7 DEF RemoveMember, OnSource, CountInv, Calls, Fits
  <2> QED
    BY <1>7, <2>1, UnsubscribeCounts, QuietCounts DEF RemoveMember, IsMember
<1>8. CASE Leave(q)
  <2>1. s \in Source /\ u \in User
    BY <1>2, <1>8 DEF Leave, OnSource
  <2> QED
    BY <1>8, <2>1, UnsubscribeCounts, QuietCounts DEF Leave, Leaves
<1>9. CASE Disable(q)
  <2>1. s \in Source /\ row[s] \in Row
    BY <1>2, <1>9 DEF Disable, OnSource
  <2>2. CASE Nobody(s) /\ row' = [row EXCEPT ![s].enabled = FALSE]
    <3> DEFINE x == [row[s] EXCEPT !.enabled = FALSE]
    <3>1. row' = [row EXCEPT ![s] = x]
      BY <2>1, <2>2 DEF CountInv, Tables
    <3>2. x \in Row /\ x.count = row[s].count /\ x.scope = row[s].scope
      BY <2>1, RowFields DEF Scope
    <3>3. UNCHANGED <<grant, hidden>> /\ hidden \subseteq Source
      BY <1>9 DEF Disable, CountInv, Tables
    <3> HIDE DEF x
    <3> QED
      BY <2>1, <2>2, <3>1, <3>2, <3>3, RowCounts DEF Nobody
  <2> QED
    BY <1>9, <2>2, QuietCounts DEF Disable
<1>10. CASE DropGrant(q)
  <2>1. /\ s \in Source /\ ~Shared(s) /\ call[q].listing \subseteq User
        /\ UNCHANGED <<row, hidden>>
    BY <1>10 DEF DropGrant, OnSource, CountInv, Calls, Fits, Shared, CallType
  <2>2. UNCHANGED grant \/ \E w \in User : grant' = [grant EXCEPT ![<<w, s>>] = None]
    BY <1>10, <2>1 DEF DropGrant
  <2> QED
    BY <2>1, <2>2, GrantCounts, QuietCounts
<1>11. CASE Close(q) \/ Flip(q)
  <2>1. s \in Source /\ row[s] \in Row
    BY <1>2, <1>11 DEF Close, Flip, OnSource
  <2>2. CASE Close(q) /\ row' = [row EXCEPT ![s] = Closed(@)]
    <3>1. ~Shared(s)' /\ UNCHANGED <<grant, hidden>> /\ hidden \subseteq Source
      BY <2>2 DEF Close, OnSource, CountInv, Calls, Fits, Shared, Tables
    <3>2. row' = [row EXCEPT ![s] = Closed(row[s])]
      BY <2>1, <2>2 DEF CountInv, Tables
    <3>3. Closed(row[s]) \in Row
      BY <2>1, RowFields DEF Scope
    <3> QED
      BY <2>1, <3>1, <3>2, <3>3, RowCounts
  <2>3. CASE Flip(q) /\ hidden' = hidden \cup {s} /\ row' = [row EXCEPT ![s].scope = call[q].arg]
    <3>1. /\ ~Shared(s)' /\ UNCHANGED grant /\ hidden \subseteq hidden' /\ hidden' \subseteq Source
          /\ call[q].arg \in Scope
      BY <2>1, <2>3 DEF Flip, CountInv, Calls, Fits, Shared, Tables
    <3>2. row' = [row EXCEPT ![s] = [row[s] EXCEPT !.scope = call[q].arg]]
      BY <2>1, <2>3 DEF CountInv, Tables
    <3>3. [row[s] EXCEPT !.scope = call[q].arg] \in Row
      BY <2>1, <3>1, RowFields
    <3> QED
      BY <2>1, <3>1, <3>2, <3>3, RowCounts
  <2> QED
    BY <1>11, <2>2, <2>3, QuietCounts DEF Close, Flip
<1>12. CASE \/ FilesRead(q) \/ UrlRead(q) \/ GitRead(q) \/ JoinRead(q) \/ MemberRead(q)
            \/ DeleteRead(q) \/ CheckCount(q) \/ DeleteRuntime(q) \/ ListGrants(q)
            \/ ScopeRead(q) \/ RebuildRead(q)
  <2>1. UNCHANGED <<row, grant, hidden>>
    BY <1>12 DEF FilesRead, UrlRead, GitRead, Decide, JoinRead, MemberRead, DeleteRead,
                 CheckCount, DeleteRuntime, ListGrants, ScopeRead, RebuildRead
  <2> QED
    BY <2>1, QuietCounts
<1>13. CASE \/ CreateRead(q) \/ MintKey(q) \/ PointKey(q) \/ RevokeRead(q) \/ Revoke(q)
            \/ Tombstone(q) \/ ListKeys(q) \/ CutKey(q) \/ NextGrant(q) \/ Forget(q)
  <2>1. UNCHANGED <<row, grant, hidden>>
    BY <1>13 DEF CreateRead, MintKey, PointKey, RevokeRead, Revoke, Tombstone, ListKeys,
                 CutKey, NextGrant, Forget
  <2> QED
    BY <2>1, QuietCounts
<1> QED
  BY <1>1, <1>3, <1>3a, <1>4, <1>5, <1>6, <1>7, <1>8, <1>9, <1>10, <1>11, <1>12, <1>13
     DEF Step, RegisterFiles, RegisterUrl, RegisterGit

LEMMA CountNext ==
  ASSUME CountInv, [Next]_vars
  PROVE  CountInv'
<1>1. Calls'
  BY CallsNext
<1>2. ASSUME NEW q \in Call, Step(q)
      PROVE  Tables' /\ Counts'
  BY <1>2, StepCounts
<1>3. ASSUME \/ \E q \in Call : Kill(q)
             \/ \E q \in Call, u \in User : Enter(q, u) \/ EnterOffboard(q, u)
             \/ \E k \in Key : Lapse(k)
             \/ UNCHANGED vars
      PROVE  Tables' /\ Counts'
  <2>1. UNCHANGED <<row, grant, hidden>>
    BY <1>3 DEF Kill, Enter, EnterOffboard, Begin, Lapse, History, vars
  <2> QED
    BY <2>1, QuietCounts
<1> QED
  BY <1>1, <1>2, <1>3 DEF Next, CountInv

LEMMA CountInit == Init => CountInv
<1> SUFFICES ASSUME Init
             PROVE  CountInv
  OBVIOUS
<1>1. Calls
  BY IdleFits DEF Init, Calls
<1>2. Tables
  BY DEF Init, Tables, NoRow, Row, Scope
<1>3. ASSUME NEW s \in Source
      PROVE  Counted(s)
  <2>1. Subscribers(s) = {}
    BY DEF Init, Subscribers
  <2> QED
    BY <2>1, FS_EmptySet DEF Init, Counted, NoRow
<1> QED
  BY <1>1, <1>2, <1>3 DEF CountInv, Counts

(* The count of a shared source that was never private is the number of its *)
(* grants, and it is enabled while it has any, however many calls overlap   *)
(* and wherever they die (_join_enabled_repo, delete_repo, add_member).     *)
THEOREM SharedCounts == Spec => []SharedSourceCounted
<1>1. CountInv => SharedSourceCounted
  BY DEF CountInv, Counts, Shared, Counted, SharedSourceCounted
<1> QED
  BY CountInit, CountNext, <1>1, PTL DEF Spec

-----------------------------------------------------------------------------
(* Where a step takes its call.  Only five actions lead to the points that *)
(* the other invariants speak of.                                          *)
Marks == {"unserve", "record", "mint", "point"}

LEMMA OneSet ==
  ASSUME Calls, NEW q \in Call, NEW c, call' = [call EXCEPT ![q] = c], c.pc \notin Marks
  PROVE  /\ \A p \in Call : p # q => call'[p] = call[p]
         /\ call'[q].pc \notin Marks
BY DEF Calls

LEMMA OneWent ==
  ASSUME Calls, NEW q \in Call, NEW pc, Goto(q, pc), pc \notin Marks
  PROVE  /\ \A p \in Call : p # q => call'[p] = call[p]
         /\ call'[q].pc \notin Marks
BY DEF Calls, CallType, Goto

LEMMA OneDone ==
  ASSUME Calls, NEW q \in Call, Done(q)
  PROVE  /\ \A p \in Call : p # q => call'[p] = call[p]
         /\ call'[q].pc \notin Marks
<1>1. CASE call[q].op = "offboard"
  BY <1>1, OneWent DEF Done, Marks
<1>2. CASE call[q].op # "offboard"
  <2>1. call' = [call EXCEPT ![q] = Idle] /\ Idle.pc \notin Marks
    BY <1>2 DEF Done, Idle, Marks
  <2> QED
    BY <2>1, OneSet
<1> QED
  BY <1>1, <1>2

LEMMA Elsewhere ==
  ASSUME Calls, NEW q \in Call,
         \/ /\ Step(q)
            /\ ~Disable(q) /\ ~Close(q) /\ ~EnsureRuntime(q) /\ ~CreateRead(q) /\ ~MintKey(q)
         \/ Kill(q)
  PROVE  /\ \A p \in Call : p # q => call'[p] = call[p]
         /\ call'[q].pc \notin Marks
<1>1. ASSUME \/ Done(q)
             \/ \E pc \in {"put", "revive", "regrant", "join", "serve", "add", "remove", "leave",
                          "list", "check", "disable", "close", "flip", "tag", "revoke", "keys",
                          "forget"} : Goto(q, pc)
      PROVE  /\ \A p \in Call : p # q => call'[p] = call[p]
             /\ call'[q].pc \notin Marks
  BY <1>1, OneDone, OneWent DEF Marks
<1>2. CASE FilesRead(q) \/ UrlRead(q) \/ GitRead(q)
  BY <1>1, <1>2 DEF FilesRead, UrlRead, GitRead, Decide
<1>3. CASE PutRow(q) \/ RecordRuntime(q) \/ PutGrantAgain(q) \/ JoinRead(q) \/ Join(q)
  BY <1>1, <1>3 DEF PutRow, RecordRuntime, PutGrantAgain, JoinRead, Join, Subscribe
<1>4. CASE MemberRead(q) \/ AddMember(q) \/ RemoveMember(q)
  BY <1>1, <1>4 DEF MemberRead, AddMember, RemoveMember, Subscribe
<1>5. CASE DeleteRead(q) \/ Leave(q) \/ CheckCount(q) \/ DeleteRuntime(q)
  BY <1>1, <1>5 DEF DeleteRead, Leave, CheckCount, DeleteRuntime
<1>6. CASE ScopeRead(q) \/ Flip(q) \/ TagGrant(q) \/ RebuildRead(q)
  BY <1>1, <1>6 DEF ScopeRead, Flip, TagGrant, RebuildRead
<1>7. CASE PointKey(q) \/ RevokeRead(q) \/ Revoke(q) \/ Tombstone(q)
  BY <1>1, <1>7 DEF PointKey, RevokeRead, Revoke, Tombstone
<1>8. CASE ListGrants(q) \/ ListKeys(q)
  BY <1>8 DEF ListGrants, ListKeys, Calls, CallType, Marks
<1>9. CASE DropGrant(q)
  BY <1>1, <1>9 DEF DropGrant, At, Calls, CallType, Marks
<1>10. CASE CutKey(q)
  BY <1>10 DEF CutKey, At, Calls, CallType, Marks
<1>11. CASE NextGrant(q)
  <2>1. ASSUME NEW s \in call[q].todo,
               call' = [call EXCEPT ![q].pc = "next", ![q].src = s, ![q].todo = @ \ {s}]
        PROVE  /\ \A p \in Call : p # q => call'[p] = call[p]
               /\ call'[q].pc \notin Marks
    BY <2>1 DEF Calls, CallType, Marks
  <2> QED
    BY <1>1, <1>11, <2>1 DEF NextGrant
<1>12. CASE Forget(q) \/ Kill(q)
  <2>1. call' = [call EXCEPT ![q] = Idle] /\ Idle.pc \notin Marks
    BY <1>12 DEF Forget, Kill, Idle, Marks
  <2> QED
    BY <2>1, OneSet
<1> QED
  BY <1>2, <1>3, <1>4, <1>5, <1>6, <1>7, <1>8, <1>9, <1>10, <1>11, <1>12
     DEF Step, RegisterFiles, RegisterUrl, RegisterGit

(* A call that is about to delete a service has disabled the source, and    *)
(* one that is about to record a service finds it there or the source       *)
(* disabled, unless the source was revived since.                           *)
Serving(c, s) == c.pc \in {"unserve", "record"} /\ c.src = s
Served(c, s) == ~Enabled(s) \/ (c.pc = "record" /\ s \in service)

ServiceInv ==
  /\ RecordedServiceRuns
  /\ \A q \in Call, s \in Source \ raced : Serving(call[q], s) => Served(call[q], s)

(* A step that enables nothing, deletes no service and records none but one *)
(* that is there.                                                           *)
LEMMA ServiceKept ==
  ASSUME CountInv, ServiceInv, raced \subseteq raced', service \subseteq service',
         \A s \in Source : Enabled(s)' => Enabled(s),
         \A s \in Source \ raced : Enabled(s)' /\ row'[s].runtime => row[s].runtime \/ s \in service',
         \A q \in Call : call'[q].pc \in {"unserve", "record"} =>
           call'[q] = call[q] \/ (\A s \in Source : call'[q].src = s => Served(call[q], s)')
  PROVE  ServiceInv'
<1>1. ASSUME NEW s \in Source \ raced', Enabled(s)', row'[s].runtime
      PROVE  s \in service'
  <2>1. s \in Source \ raced /\ Enabled(s) /\ (row[s].runtime \/ s \in service')
    BY <1>1
  <2>2. row[s].runtime => s \in service
    BY <2>1, Zenon DEF ServiceInv, RecordedServiceRuns
  <2> QED
    BY <2>1, <2>2
<1>2. ASSUME NEW q \in Call, NEW s \in Source \ raced', Serving(call[q], s)'
      PROVE  Served(call[q], s)'
  <2>1. s \in Source \ raced /\ (Enabled(s)' => Enabled(s))
    BY <1>2
  <2>2. CASE call'[q] = call[q]
    <3>1. Serving(call[q], s)
      BY <1>2, <2>2 DEF Serving
    <3>2. Served(call[q], s)
      BY <2>1, <3>1, Zenon DEF ServiceInv
    <3> QED
      BY <2>1, <2>2, <3>2 DEF Served
  <2> QED
    BY <1>2, <2>1, <2>2 DEF Serving
<1>3. RecordedServiceRuns'
  BY <1>1, Zenon DEF RecordedServiceRuns
<1> QED
  BY <1>2, <1>3, Zenon DEF ServiceInv

LEMMA ServiceStep ==
  ASSUME CountInv, ServiceInv, NEW q \in Call, Step(q) \/ Kill(q), NEW s, s = call[q].src
  PROVE  ServiceInv'
<1> USE DEF History
<1>1. ASSUME ~Disable(q), ~Close(q), ~EnsureRuntime(q), ~CreateRead(q), ~MintKey(q)
      PROVE  \A p \in Call : call'[p].pc \in {"unserve", "record"} => call'[p] = call[p]
  <2>1. /\ \A p \in Call : p # q => call'[p] = call[p]
        /\ call'[q].pc \notin Marks
    BY <1>1, Elsewhere DEF CountInv
  <2> QED
    BY <2>1 DEF Marks
<1>2. CASE PutRow(q)
  <2>1. s \in Source /\ ~Disable(q) /\ ~Close(q) /\ ~EnsureRuntime(q) /\ ~CreateRead(q) /\ ~MintKey(q)
    BY <1>2 DEF PutRow, Disable, Close, EnsureRuntime, CreateRead, MintKey, At, CountInv, Calls,
                Fits, OnSource
  <2>2. CASE UNCHANGED <<row, grant, hidden, raced>>
    <3>1. service' = service
      BY <1>2 DEF PutRow
    <3> QED
      BY <1>1, <2>1, <2>2, <3>1, ServiceKept DEF Enabled
  <2>3. CASE /\ row' = [row EXCEPT ![s] = Registered(call[q].user, s, call[q].arg)]
             /\ raced' = IF \E p \in Call : call[p].pc \in {"unserve", "record"} /\ call[p].src = s
                         THEN raced \cup {s} ELSE raced
    <3>1. service' = service /\ raced \subseteq raced'
      BY <1>2, <2>3 DEF PutRow
    <3>2. row'[s].runtime = FALSE /\ \A r \in Source : r # s => row'[r] = row[r]
      BY <2>1, <2>3 DEF CountInv, Tables, Registered
    <3>3. RecordedServiceRuns'
      BY <3>1, <3>2 DEF ServiceInv, RecordedServiceRuns, Enabled
    <3>4. ASSUME NEW p \in Call, NEW r \in Source \ raced', Serving(call[p], r)'
          PROVE  Served(call[p], r)'
      <4>1. call'[p] = call[p]
        BY <1>1, <2>1, <3>4 DEF Serving
      <4>2. r # s
        BY <2>3, <3>4, <4>1 DEF Serving
      <4>3. Serving(call[p], r) /\ r \in Source \ raced
        BY <3>1, <3>4, <4>1 DEF Serving
      <4>4. Served(call[p], r)
        BY <4>3, Zenon DEF ServiceInv
      <4> QED
        BY <3>1, <3>2, <4>1, <4>2, <4>4 DEF Served, Enabled
    <3> QED
      BY <3>3, <3>4, Zenon DEF ServiceInv
  <2> QED
    BY <1>2, <2>2, <2>3 DEF PutRow
<1>3. CASE EnsureRuntime(q)
  <2>1. s \in Source /\ UNCHANGED <<row, raced>>
    BY <1>3 DEF EnsureRuntime, At, CountInv, Calls, Fits, OnSource
  <2>2. CASE service' = service \cup {s} /\ Goto(q, "record")
    <3>1. /\ \A p \in Call : p # q => call'[p] = call[p]
          /\ call'[q].src = s /\ call'[q].pc = "record"
      BY <2>2 DEF Goto, CountInv, Calls, CallType
    <3>2. \A r \in Source : call'[q].src = r => Served(call[q], r)'
      BY <2>2, <3>1 DEF Served
    <3> QED
      BY <2>1, <2>2, <3>1, <3>2, ServiceKept DEF Enabled
  <2>3. CASE Done(q) /\ service' = service
    <3>1. /\ \A p \in Call : p # q => call'[p] = call[p]
          /\ call'[q].pc \notin Marks
      BY <2>3, OneDone DEF CountInv
    <3> QED
      BY <2>1, <2>3, <3>1, ServiceKept DEF Enabled, Marks
  <2> QED
    BY <1>3, <2>2, <2>3 DEF EnsureRuntime
<1>3a. CASE RecordRuntime(q)
  <2>1. /\ s \in Source /\ ~Disable(q) /\ ~Close(q) /\ ~EnsureRuntime(q) /\ ~CreateRead(q)
        /\ ~MintKey(q) /\ Serving(call[q], s) /\ call[q].pc = "record" /\ row[s] \in Row
    BY <1>3a DEF RecordRuntime, Disable, Close, EnsureRuntime, CreateRead, MintKey, At, CountInv,
                 Calls, Fits, OnSource, Tables, Serving
  <2>2. UNCHANGED <<service, raced>> /\ row' = [row EXCEPT ![s].runtime = TRUE]
    BY <1>3a DEF RecordRuntime
  <2>3. s \notin raced => ~Enabled(s) \/ s \in service
    BY <2>1, Zenon DEF ServiceInv, Served
  <2>4. \A r \in Source : /\ row'[r].here = row[r].here /\ row'[r].enabled = row[r].enabled
                          /\ r # s => row'[r] = row[r]
    <3>1. row' = [row EXCEPT ![s] = [row[s] EXCEPT !.runtime = TRUE]]
      BY <2>1, <2>2 DEF CountInv, Tables
    <3>2. /\ [row[s] EXCEPT !.runtime = TRUE].here = row[s].here
          /\ [row[s] EXCEPT !.runtime = TRUE].enabled = row[s].enabled
      BY <2>1, RowFields DEF Scope
    <3> QED
      BY <2>1, <3>1, <3>2 DEF CountInv, Tables
  <2> QED
    BY <1>1, <2>1, <2>2, <2>3, <2>4, ServiceKept DEF Enabled
<1>4. CASE DeleteRuntime(q)
  <2>1. /\ s \in Source /\ ~Disable(q) /\ ~Close(q) /\ ~EnsureRuntime(q) /\ ~CreateRead(q)
        /\ ~MintKey(q) /\ Serving(call[q], s) /\ call[q].pc = "unserve"
    BY <1>4 DEF DeleteRuntime, Disable, Close, EnsureRuntime, CreateRead, MintKey, At, CountInv,
                Calls, Fits, OnSource, Serving
  <2>2. UNCHANGED <<row, raced>> /\ service' \in {service, service \ {s}}
    BY <1>4 DEF DeleteRuntime
  <2>3. s \notin raced => ~Enabled(s)
    BY <2>1, Zenon DEF ServiceInv, Served
  <2>4. RecordedServiceRuns'
    BY <2>2, <2>3 DEF ServiceInv, RecordedServiceRuns, Enabled
  <2>5. ASSUME NEW p \in Call, NEW r \in Source \ raced', Serving(call[p], r)'
        PROVE  Served(call[p], r)'
    <3>1. call'[p] = call[p] /\ r \in Source \ raced
      BY <1>1, <2>1, <2>2, <2>5 DEF Serving
    <3>2. Served(call[p], r)
      BY <2>5, <3>1, Zenon DEF ServiceInv, Serving
    <3> QED
      BY <2>2, <2>3, <3>1, <3>2 DEF Served, Enabled
  <2> QED
    BY <2>4, <2>5, Zenon DEF ServiceInv
<1>5. CASE Disable(q) \/ Close(q)
  <2>1. s \in Source /\ UNCHANGED <<service, raced>> /\ row[s] \in Row
    BY <1>5 DEF Disable, Close, At, CountInv, Calls, Fits, OnSource, Tables
  <2>2. CASE Done(q) /\ UNCHANGED row
    <3>1. /\ \A p \in Call : p # q => call'[p] = call[p]
          /\ call'[q].pc \notin Marks
      BY <2>2, OneDone DEF CountInv
    <3> QED
      BY <2>1, <2>2, <3>1, ServiceKept DEF Enabled, Marks
  <2>3. ASSUME Goto(q, "unserve"), NEW x \in Row, x.enabled = FALSE,
               x.runtime => row[s].runtime, row' = [row EXCEPT ![s] = x]
        PROVE  ServiceInv'
    <3>1. /\ \A p \in Call : p # q => call'[p] = call[p]
          /\ call'[q].src = s
      BY <2>3 DEF Goto, CountInv, Calls, CallType
    <3>2. row'[s] = x /\ \A r \in Source : r # s => row'[r] = row[r]
      BY <2>1, <2>3 DEF CountInv, Tables
    <3> QED
      BY <2>1, <2>3, <3>1, <3>2, ServiceKept DEF Enabled, Served
  <2>4. CASE Goto(q, "unserve") /\ row' = [row EXCEPT ![s].enabled = FALSE]
    <3>1. PICK x \in Row : x = [row[s] EXCEPT !.enabled = FALSE]
      BY <2>1, RowFields DEF Scope
    <3>2. x.enabled = FALSE /\ (x.runtime => row[s].runtime)
      BY <2>1, <3>1 DEF Row
    <3>3. row' = [row EXCEPT ![s] = x]
      BY <2>1, <2>4, <3>1 DEF CountInv, Tables
    <3> QED
      BY <2>3, <2>4, <3>2, <3>3
  <2>5. CASE Goto(q, "unserve") /\ row' = [row EXCEPT ![s] = Closed(@)]
    <3>1. PICK x \in Row : x = Closed(row[s])
      BY <2>1, RowFields DEF Scope
    <3>2. x.enabled = FALSE /\ (x.runtime => row[s].runtime)
      BY <2>1, <3>1 DEF Row, Closed
    <3>3. row' = [row EXCEPT ![s] = x]
      BY <2>1, <2>5, <3>1 DEF CountInv, Tables
    <3> QED
      BY <2>3, <2>5, <3>2, <3>3
  <2> QED
    BY <1>5, <2>2, <2>4, <2>5 DEF Disable, Close
<1>6. CASE Flip(q) \/ RemoveMember(q) \/ Leave(q) \/ Join(q) \/ AddMember(q)
  <2>1. /\ s \in Source /\ ~Disable(q) /\ ~Close(q) /\ ~EnsureRuntime(q) /\ ~CreateRead(q)
        /\ ~MintKey(q) /\ row[s] \in Row
        /\ call[q].op = "scope" => call[q].arg \in Scope
    BY <1>6 DEF Flip, RemoveMember, Leave, Join, AddMember, Disable, Close, EnsureRuntime, CreateRead, MintKey,
                At, CountInv, Calls, Fits, OnSource, Tables
  <2>2. UNCHANGED <<service, raced>>
    BY <1>6 DEF Flip, RemoveMember, Leave, Join, AddMember, Subscribe
  <2>3. \A r \in Source : /\ row'[r].here = row[r].here /\ row'[r].enabled = row[r].enabled
                          /\ row'[r].runtime = row[r].runtime
    BY <1>6, <2>1 DEF Flip, RemoveMember, Leave, Join, AddMember, Subscribe, CountInv, Tables, Row
  <2>4. \A r \in Source : Enabled(r)' => Enabled(r)
    BY <2>3 DEF Enabled
  <2>5. \A p \in Call : call'[p].pc \in {"unserve", "record"} => call'[p] = call[p]
    BY <1>1, <2>1
  <2> QED
    BY <2>2, <2>3, <2>4, <2>5, ServiceKept
<1>7. CASE CreateRead(q) \/ MintKey(q)
  <2>1. UNCHANGED <<row, service, raced>>
    BY <1>7 DEF CreateRead, MintKey
  <2>2. \A p \in Call : call'[p].pc \in {"unserve", "record"} => call'[p] = call[p]
    <3>1. CASE Done(q)
      BY <3>1, OneDone DEF CountInv, Marks
    <3> QED
      BY <1>7, <3>1 DEF CreateRead, MintKey, Goto, CountInv, Calls, CallType
  <2> QED
    BY <2>1, <2>2, ServiceKept DEF Enabled
<1>8. CASE \/ FilesRead(q) \/ UrlRead(q) \/ GitRead(q) \/ PutGrantAgain(q) \/ JoinRead(q)
           \/ MemberRead(q) \/ DeleteRead(q) \/ CheckCount(q) \/ ListGrants(q) \/ DropGrant(q)
           \/ ScopeRead(q) \/ TagGrant(q) \/ RebuildRead(q)
  <2>1. UNCHANGED <<row, service, raced>>
    BY <1>8 DEF FilesRead, UrlRead, GitRead, Decide, PutGrantAgain, JoinRead, MemberRead,
                DeleteRead, CheckCount, ListGrants, DropGrant, ScopeRead, TagGrant, RebuildRead
  <2>2. ~Disable(q) /\ ~Close(q) /\ ~EnsureRuntime(q) /\ ~CreateRead(q) /\ ~MintKey(q)
    BY <1>8 DEF FilesRead, UrlRead, GitRead, Registers, PutGrantAgain, JoinRead, MemberRead,
                DeleteRead, CheckCount, ListGrants, DropGrant, ScopeRead, TagGrant, RebuildRead,
                Disable, Close, EnsureRuntime, CreateRead, MintKey, At
  <2> QED
    BY <1>1, <2>1, <2>2, ServiceKept DEF Enabled
<1>9. CASE \/ PointKey(q) \/ RevokeRead(q) \/ Revoke(q) \/ Tombstone(q) \/ ListKeys(q)
           \/ CutKey(q) \/ NextGrant(q) \/ Forget(q)
  <2>1. UNCHANGED <<row, service, raced>>
    BY <1>9 DEF PointKey, RevokeRead, Revoke, Tombstone, ListKeys, CutKey, NextGrant, Forget
  <2>2. ~Disable(q) /\ ~Close(q) /\ ~EnsureRuntime(q) /\ ~CreateRead(q) /\ ~MintKey(q)
    BY <1>9 DEF PointKey, RevokeRead, Revoke, Tombstone, ListKeys, CutKey, NextGrant, Forget,
                Disable, Close, EnsureRuntime, CreateRead, MintKey, At
  <2> QED
    BY <1>1, <2>1, <2>2, ServiceKept DEF Enabled
<1>10. CASE Kill(q)
  <2>1. /\ UNCHANGED <<row, service, raced>> /\ call' = [call EXCEPT ![q] = Idle]
        /\ Idle.pc \notin Marks
    BY <1>10 DEF Kill, Idle, Marks
  <2>2. \A p \in Call : call'[p].pc \in {"unserve", "record"} => call'[p] = call[p]
    BY <2>1, OneSet DEF CountInv, Marks
  <2> QED
    BY <2>1, <2>2, ServiceKept DEF Enabled
<1> QED
  BY <1>2, <1>3, <1>3a, <1>4, <1>5, <1>6, <1>7, <1>8, <1>9, <1>10
     DEF Step, RegisterFiles, RegisterUrl, RegisterGit

LEMMA ServiceNext ==
  ASSUME CountInv, ServiceInv, [Next]_vars
  PROVE  ServiceInv'
<1>1. ASSUME NEW q \in Call, Step(q) \/ Kill(q)
      PROVE  ServiceInv'
  BY <1>1, ServiceStep
<1>2. ASSUME NEW q \in Call, NEW u \in User, Enter(q, u) \/ EnterOffboard(q, u)
      PROVE  ServiceInv'
  <2>1. UNCHANGED <<row, service, raced>>
    BY <1>2 DEF Enter, EnterOffboard, Begin
  <2>2. /\ \A p \in Call : p # q => call'[p] = call[p]
        /\ call'[q].pc \in {"read", "tombstone"}
    BY <1>2, IdleFits DEF Enter, EnterOffboard, Begin, CountInv, Calls, CallType
  <2> QED
    BY <2>1, <2>2, ServiceKept DEF Enabled
<1>3. CASE (\E k \in Key : Lapse(k)) \/ UNCHANGED vars
  <2>1. UNCHANGED <<row, service, raced, call>>
    BY <1>3 DEF Lapse, History, vars
  <2> QED
    BY <2>1, ServiceKept DEF Enabled
<1> QED
  BY <1>1, <1>2, <1>3 DEF Next

(* A join that races a teardown keeps its service: an enabled source whose *)
(* service is on record has it, unless it was put or revived between a     *)
(* disabling and its deletion of the service, or between the creation of   *)
(* the service and the write that records it whatever became of the row    *)
(* (delete_repo, ensure_repo_runtime, register_repo, rebuild_repo).        *)
THEOREM ServicesStay == Spec => []RecordedServiceRuns
<1>1. Init => CountInv /\ ServiceInv
  <2>1. Init => ServiceInv
    BY DEF Init, ServiceInv, Serving, RecordedServiceRuns, NoRow, Idle, Enabled
  <2> QED
    BY <2>1, CountInit
<1>2. CountInv /\ ServiceInv /\ [Next]_vars => CountInv' /\ ServiceInv'
  BY CountNext, ServiceNext
<1>3. ServiceInv => RecordedServiceRuns
  BY DEF ServiceInv
<1> QED
  BY <1>1, <1>2, <1>3, PTL DEF Spec

-----------------------------------------------------------------------------
(* The count of any source, private ones and silos included.  A disabled *)
(* row counts nobody, so that a second teardown, which finds the row     *)
(* disabled and stops, leaves no count above the grants it deleted.      *)
Covered(s) == row[s].count <= Cardinality(Subscribers(s))

GrantRow == [scope : {"public", "private", "member"}, listed : BOOLEAN]
Granted == \A u \in User, s \in Source : grant[<<u, s>>] \in GrantRow \cup {None}

LevelInv ==
  /\ Granted
  /\ CountNeverOverstates
  /\ \A s \in Source : ~row[s].enabled => row[s].count <= 0

LEMMA GrantedStays ==
  ASSUME Tables, Granted, NEW u \in User, NEW s \in Source, NEW x \in GrantRow \cup {None},
         grant' = [grant EXCEPT ![<<u, s>>] = x]
  PROVE  Granted'
<1>1. \A p \in User \X Source : grant'[p] = IF p = <<u, s>> THEN x ELSE grant[p]
  BY DEF Tables
<1>2. \A w \in User, r \in Source :
        grant'[<<w, r>>] = IF <<w, r>> = <<u, s>> THEN x ELSE grant[<<w, r>>]
  BY <1>1
<1> QED
  BY <1>2 DEF Granted

(* change_scope's update of a grant row leaves one there.                   *)
LEMMA TaggedIsGrant ==
  ASSUME NEW g \in GrantRow \cup {None}, NEW t \in Scope
  PROVE  (IF g = None THEN [scope |-> t, listed |-> FALSE] ELSE [g EXCEPT !.scope = t]) \in GrantRow
BY DEF GrantRow, Scope

LEMMA GrantRows ==
  /\ None \notin GrantRow
  /\ \A scope \in {"public", "private", "member"} : Put(scope) \in GrantRow
<1>1. None \notin GrantRow
  BY SubscriptionsAssumption DEF GrantRow
<1>2. \A scope \in {"public", "private", "member"} : Put(scope) \in GrantRow
  BY DEF Put, GrantRow
<1> QED
  BY <1>1, <1>2

(* A step moves no call but its own.                                        *)
LEMMA Alone ==
  ASSUME Calls, NEW q \in Call, Step(q) \/ Kill(q)
  PROVE  \A p \in Call : p # q => call'[p] = call[p]
<1>1. CASE Disable(q) \/ Close(q) \/ EnsureRuntime(q) \/ CreateRead(q)
  <2>1. Done(q) \/ \E pc : Goto(q, pc)
    BY <1>1 DEF Disable, Close, EnsureRuntime, CreateRead
  <2> QED
    BY <2>1, OneDone DEF Goto, Calls
<1>2. CASE MintKey(q)
  BY <1>2 DEF MintKey, Calls
<1> QED
  BY <1>1, <1>2, Elsewhere

LEMMA TeardownGoesOn ==
  ASSUME Calls, NEW q \in Call, Step(q), ~Close(q), NEW s \in Source, TearingDown(s)
  PROVE  TearingDown(s)'
<1>1. PICK p \in Call : call[p].src = s /\ call[p].pc \in {"drop", "close"}
  BY DEF TearingDown
<1>2. CASE p # q
  BY <1>1, <1>2, Alone DEF TearingDown
<1>3. CASE p = q
  <2>1. DropGrant(q)
    BY <1>1, <1>3
       DEF Step, At, FilesRead, UrlRead, GitRead, Registers, RegisterFiles, RegisterUrl,
           RegisterGit, PutRow, EnsureRuntime, RecordRuntime, PutGrantAgain, JoinRead, Join, MemberRead,
           AddMember, RemoveMember, DeleteRead, Leave, CheckCount, Disable, DeleteRuntime,
           ListGrants, ScopeRead, Flip, TagGrant, RebuildRead, CreateRead, MintKey,
           PointKey, RevokeRead, Revoke, Tombstone, ListKeys, CutKey, NextGrant, Forget
  <2>2. call'[q].src = s /\ call'[q].pc \in {"drop", "close"}
    BY <1>1, <1>3, <2>1 DEF DropGrant, Goto, Calls, CallType
  <2> QED
    BY <2>2 DEF TearingDown
<1> QED
  BY <1>2, <1>3

(* A step that touches one source at most.                                  *)
LEMMA LevelKept ==
  ASSUME LevelInv, Granted', torn \subseteq torn', NEW s,
         \A r \in Source : TearingDown(r) => TearingDown(r)' \/ r \in torn' \/ Covered(r)',
         \A r \in Source : r # s => /\ row'[r].count = row[r].count
                                    /\ row'[r].enabled = row[r].enabled
                                    /\ Subscribers(r)' = Subscribers(r),
         s \in Source => /\ TearingDown(s)' \/ s \in torn' \/ Covered(s)'
                         /\ ~row'[s].enabled => row'[s].count <= 0
  PROVE  LevelInv'
<1>1. ASSUME NEW r \in Source, ~TearingDown(r)', r \notin torn'
      PROVE  Covered(r)'
  <2>1. CASE r # s
    <3>1. TearingDown(r) \/ Covered(r)
      BY <1>1 DEF LevelInv, CountNeverOverstates, Covered
    <3>2. Covered(r) => Covered(r)'
      BY <2>1 DEF Covered
    <3> QED
      BY <1>1, <3>1, <3>2
  <2> QED
    BY <1>1, <2>1
<1>2. CountNeverOverstates'
  BY <1>1 DEF CountNeverOverstates, Covered
<1>3. ASSUME NEW r \in Source, ~row'[r].enabled
      PROVE  row'[r].count <= 0
  BY <1>3 DEF LevelInv
<1> QED
  BY <1>2, <1>3 DEF LevelInv

LEMMA LevelQuiet ==
  ASSUME LevelInv, torn \subseteq torn', UNCHANGED <<row, grant>>,
         \A r \in Source : TearingDown(r) => TearingDown(r)' \/ r \in torn'
  PROVE  LevelInv'
<1>1. \A r : Subscribers(r)' = Subscribers(r)
  BY DEF Subscribers
<1>2. ASSUME NEW r \in Source, ~TearingDown(r)', r \notin torn'
      PROVE  Covered(r)'
  <2>1. Covered(r)
    BY <1>2 DEF LevelInv, CountNeverOverstates, Covered
  <2> QED
    BY <1>1, <2>1 DEF Covered
<1>3. CountNeverOverstates'
  BY <1>2 DEF CountNeverOverstates, Covered
<1> QED
  BY <1>3 DEF LevelInv, Granted

(* One grant more, one fewer.                                               *)
LEMMA SubscribeLevel ==
  ASSUME CountInv, LevelInv, NEW u \in User, NEW s \in Source, grant[<<u, s>>] = None,
         NEW x \in GrantRow, grant' = [grant EXCEPT ![<<u, s>>] = x], Enabled(s),
         row' = [row EXCEPT ![s].count = @ + 1], torn' = torn,
         \A r \in Source : TearingDown(r) => TearingDown(r)'
  PROVE  LevelInv'
<1>1. row[s] \in Row /\ row[s].count + 1 \in Int
  BY DEF CountInv, Tables, Row
<1>2. row' = [row EXCEPT ![s] = [row[s] EXCEPT !.count = row[s].count + 1]]
  BY DEF CountInv, Tables
<1>3. /\ row'[s].count = row[s].count + 1 /\ row'[s].enabled
      /\ \A r \in Source : r # s => row'[r] = row[r]
  BY <1>1, <1>2, RowChanges DEF CountInv, Tables, Enabled
<1>4. /\ \A r \in Source : r # s => Subscribers(r)' = Subscribers(r)
      /\ Subscribers(s)' = Subscribers(s) \cup {u}
  BY GrantSet, GrantRows DEF CountInv
<1>5. Cardinality(Subscribers(s) \cup {u}) = Cardinality(Subscribers(s)) + 1
  <2>1. u \notin Subscribers(s)
    BY DEF Subscribers
  <2> QED
    BY <2>1, SubscribersFinite, FS_AddElement
<1>6. Covered(s) => Covered(s)'
  BY <1>1, <1>3, <1>4, <1>5, SubscribersFinite DEF Covered, Row
<1>7. TearingDown(s)' \/ s \in torn' \/ Covered(s)'
  BY <1>6 DEF LevelInv, CountNeverOverstates, Covered
<1>8. Granted'
  BY GrantedStays DEF CountInv, LevelInv
<1> QED
  BY <1>3, <1>4, <1>7, <1>8, LevelKept

LEMMA UnsubscribeLevel ==
  ASSUME CountInv, LevelInv, NEW u \in User, NEW s \in Source, grant[<<u, s>>] # None,
         grant' = [grant EXCEPT ![<<u, s>>] = None],
         row' = [row EXCEPT ![s].count = @ - 1], torn' = torn,
         \A r \in Source : TearingDown(r) => TearingDown(r)'
  PROVE  LevelInv'
<1>1. row[s] \in Row /\ row[s].count \in Int /\ row[s].count - 1 \in Int
  BY DEF CountInv, Tables, Row
<1>2. row' = [row EXCEPT ![s] = [row[s] EXCEPT !.count = row[s].count - 1]]
  BY DEF CountInv, Tables
<1>3. /\ row'[s].count = row[s].count - 1 /\ row'[s].enabled = row[s].enabled
      /\ \A r \in Source : r # s => row'[r] = row[r]
  BY <1>1, <1>2, RowChanges DEF CountInv, Tables
<1>4. /\ \A r \in Source : r # s => Subscribers(r)' = Subscribers(r)
      /\ Subscribers(s)' = Subscribers(s) \ {u}
  BY GrantSet DEF CountInv
<1>5. Cardinality(Subscribers(s) \ {u}) = Cardinality(Subscribers(s)) - 1
  <2>1. u \in Subscribers(s)
    BY DEF Subscribers
  <2> QED
    BY <2>1, SubscribersFinite, FS_RemoveElement
<1>6. Covered(s) => Covered(s)'
  BY <1>1, <1>3, <1>4, <1>5, SubscribersFinite DEF Covered
<1>7. TearingDown(s)' \/ s \in torn' \/ Covered(s)'
  BY <1>6 DEF LevelInv, CountNeverOverstates, Covered
<1>8. ~row'[s].enabled => row'[s].count <= 0
  BY <1>1, <1>3 DEF LevelInv
<1>9. Granted'
  BY GrantedStays DEF CountInv, LevelInv
<1> QED
  BY <1>3, <1>4, <1>7, <1>8, <1>9, LevelKept

(* A write to a row that leaves the grants and raises no count.             *)
LEMMA RowLevel ==
  ASSUME CountInv, LevelInv, NEW s \in Source, NEW x \in Row, row' = [row EXCEPT ![s] = x],
         UNCHANGED <<grant, torn>>,
         x.count = row[s].count \/ x.count = 0,
         x.count = 0 \/ (TearingDown(s) => TearingDown(s)'),
         x.enabled = row[s].enabled \/ x.count <= 0,
         \A r \in Source : r # s /\ TearingDown(r) => TearingDown(r)'
  PROVE  LevelInv'
<1>1. /\ row'[s] = x
      /\ \A r \in Source : r # s => row'[r] = row[r]
  BY RowSet DEF CountInv
<1>2. \A r : Subscribers(r)' = Subscribers(r)
  BY DEF Subscribers
<1>5. Granted'
  BY DEF LevelInv, Granted
<1>3. CASE x.count = 0
  <2>1. Covered(s)'
    <3>1. Cardinality(Subscribers(s))' \in Nat
      BY <1>2, SubscribersFinite
    <3> QED
      BY <1>1, <1>3, <3>1 DEF Covered
  <2> QED
    BY <1>1, <1>2, <1>3, <1>5, <2>1, LevelKept
<1>4. CASE x.count = row[s].count /\ (TearingDown(s) => TearingDown(s)')
  <2>1. TearingDown(s)' \/ s \in torn' \/ Covered(s)'
    BY <1>1, <1>2, <1>4 DEF LevelInv, CountNeverOverstates, Covered
  <2>2. ~x.enabled => x.count <= 0
    BY <1>4 DEF LevelInv
  <2> QED
    BY <1>1, <1>2, <1>4, <1>5, <2>1, <2>2, LevelKept
<1> QED
  BY <1>3, <1>4

(* A write to a grant that takes none away, or does so under a teardown.    *)
LEMMA GrantLevel ==
  ASSUME CountInv, LevelInv, NEW u \in User, NEW s \in Source, NEW x \in GrantRow \cup {None},
         grant' = [grant EXCEPT ![<<u, s>>] = x], UNCHANGED <<row, torn>>,
         x # None \/ TearingDown(s),
         \A r \in Source : TearingDown(r) => TearingDown(r)'
  PROVE  LevelInv'
<1>1. /\ \A r \in Source : r # s => Subscribers(r)' = Subscribers(r)
      /\ x # None => Subscribers(s)' = Subscribers(s) \cup {u}
  BY GrantSet DEF CountInv
<1>2. ASSUME x # None, Covered(s)
      PROVE  Covered(s)'
  <2>1. Cardinality(Subscribers(s)) <= Cardinality(Subscribers(s)')
    <3>1. IsFiniteSet(Subscribers(s)')
      <4>1. Subscribers(s)' \in SUBSET User
        BY DEF Subscribers
      <4> QED
        BY <4>1, SubscriptionsAssumption, FS_Subset
    <3>2. Subscribers(s) \in SUBSET (Subscribers(s)')
      BY <1>1, <1>2
    <3> HIDE DEF Subscribers
    <3> QED
      BY <3>1, <3>2, FS_Subset
  <2>2. row[s].count \in Int /\ Cardinality(Subscribers(s)) \in Nat
    BY SubscribersFinite DEF CountInv, Tables, Row
  <2>3. Cardinality(Subscribers(s)') \in Nat
    <3>1. Subscribers(s)' \in SUBSET User
      BY DEF Subscribers
    <3> QED
      BY <3>1, SubscriptionsAssumption, FS_Subset, FS_CardinalityType
  <2> QED
    BY <1>2, <2>1, <2>2, <2>3 DEF Covered
<1>3. TearingDown(s)' \/ s \in torn' \/ Covered(s)'
  BY <1>2 DEF LevelInv, CountNeverOverstates, Covered
<1>4. ~row'[s].enabled => row'[s].count <= 0
  BY DEF LevelInv
<1>5. Granted'
  BY GrantedStays DEF CountInv, LevelInv
<1> QED
  BY <1>1, <1>3, <1>4, <1>5, LevelKept

LEMMA LevelStep ==
  ASSUME CountInv, LevelInv, NEW q \in Call, Step(q), NEW u, u = call[q].user,
         NEW s, s = call[q].src
  PROVE  LevelInv'
<1> USE DEF At, History
<1>0. torn' = torn
  BY DEF Step, FilesRead, UrlRead, GitRead, Decide, RegisterFiles, RegisterUrl,
         RegisterGit, PutRow, EnsureRuntime, RecordRuntime, PutGrantAgain, JoinRead, Join, MemberRead,
         AddMember, RemoveMember, Subscribe, DeleteRead, Leave, CheckCount, Disable,
         DeleteRuntime, ListGrants, DropGrant, Close, ScopeRead, Flip, TagGrant,
         RebuildRead, CreateRead, MintKey, PointKey, RevokeRead, Revoke, Tombstone,
         ListKeys, CutKey, NextGrant, Forget
<1>1. ASSUME ~Close(q), NEW r \in Source, TearingDown(r)
      PROVE  TearingDown(r)'
  BY <1>1, TeardownGoesOn DEF CountInv
<1>2. ASSUME call[q].pc \in OnSource
      PROVE  s \in Source /\ u \in User /\ row[s] \in Row
  BY <1>2 DEF CountInv, Calls, Fits, Tables, OnSource
<1>3. CASE PutRow(q)
  <2>1. s \in Source /\ u \in User /\ call[q].arg \in Scope /\ ~Close(q)
    BY <1>3 DEF PutRow, Close, CountInv, Calls, Fits, OnSource
  <2>2. CASE UNCHANGED <<row, grant>>
    BY <1>0, <1>1, <2>1, <2>2, LevelQuiet
  <2>3. CASE /\ row' = [row EXCEPT ![s] = Registered(u, s, call[q].arg)]
             /\ grant' = [grant EXCEPT ![<<u, s>>] = Put(call[q].arg)]
    <3>1. Put(call[q].arg) # None
      BY <2>1, PutIsGrant DEF Scope
    <3>2. /\ row'[s].count = 1 /\ row'[s].enabled
          /\ \A r \in Source : r # s => row'[r] = row[r]
      BY <2>1, <2>3 DEF CountInv, Tables, Registered
    <3>3. /\ \A r \in Source : r # s => Subscribers(r)' = Subscribers(r)
          /\ Subscribers(s)' = Subscribers(s) \cup {u}
      BY <2>1, <2>3, <3>1, GrantSet DEF CountInv
    <3>4. Cardinality(Subscribers(s) \cup {u}) >= 1
      <4>1. CASE u \in Subscribers(s)
        <5>1. Subscribers(s) \cup {u} = Subscribers(s)
          BY <4>1
        <5>2. Cardinality(Subscribers(s)) # 0
          BY <4>1, SubscribersFinite, FS_EmptySet
        <5> HIDE DEF Subscribers
        <5>3. Cardinality(Subscribers(s)) >= 1
          BY <5>2, SubscribersFinite
        <5> QED
          BY <5>1, <5>3
      <4>2. CASE u \notin Subscribers(s)
        <5>1. Cardinality(Subscribers(s) \cup {u}) = Cardinality(Subscribers(s)) + 1
          BY <4>2, SubscribersFinite, FS_AddElement
        <5> QED
          BY <5>1, SubscribersFinite
      <4> QED
        BY <4>1, <4>2
    <3>5. Covered(s)'
      BY <3>2, <3>3, <3>4 DEF Covered
    <3> QED
      <4>1. Granted'
        BY <2>1, <2>3, GrantRows, GrantedStays DEF Scope, CountInv, LevelInv
      <4> QED
        BY <1>0, <1>1, <2>1, <3>2, <3>3, <3>5, <4>1, LevelKept
  <2> QED
    BY <1>3, <2>2, <2>3 DEF PutRow
<1>4. CASE Join(q) \/ AddMember(q)
  <2>1. /\ s \in Source /\ ~Close(q)
        /\ Join(q) => u \in User
        /\ AddMember(q) => call[q].arg \in User
    BY <1>4 DEF Join, AddMember, Close, CountInv, Calls, Fits, OnSource
  <2>2. Put("public") \in GrantRow /\ Put("member") \in GrantRow
    BY GrantRows
  <2>3. ASSUME NEW t \in User, NEW x \in GrantRow, grant[<<t, s>>] = None, Enabled(s),
               grant' = [grant EXCEPT ![<<t, s>>] = x], row' = [row EXCEPT ![s].count = @ + 1]
        PROVE  LevelInv'
    BY <1>0, <1>1, <2>1, <2>3, SubscribeLevel
  <2>4. CASE UNCHANGED <<row, grant>>
    BY <1>0, <1>1, <2>1, <2>4, LevelQuiet
  <2> QED
    BY <1>4, <2>1, <2>2, <2>3, <2>4 DEF Join, AddMember, Subscribe
<1>5. CASE RemoveMember(q) \/ Leave(q)
  <2>1. /\ s \in Source /\ ~Close(q)
        /\ Leave(q) => u \in User
        /\ RemoveMember(q) => call[q].arg \in User
    BY <1>5 DEF RemoveMember, Leave, Close, CountInv, Calls, Fits, OnSource
  <2>2. ASSUME NEW t \in User, grant[<<t, s>>] # None,
               grant' = [grant EXCEPT ![<<t, s>>] = None],
               row' = [row EXCEPT ![s].count = @ - 1]
        PROVE  LevelInv'
    BY <1>0, <1>1, <2>1, <2>2, UnsubscribeLevel
  <2>3. CASE UNCHANGED <<row, grant>>
    BY <1>0, <1>1, <2>1, <2>3, LevelQuiet
  <2> QED
    BY <1>5, <2>1, <2>2, <2>3 DEF RemoveMember, IsMember, Leave, Leaves
<1>6. CASE PutGrantAgain(q) \/ TagGrant(q)
  <2>1. s \in Source /\ u \in User /\ ~Close(q) /\ UNCHANGED row
    BY <1>2, <1>6 DEF PutGrantAgain, TagGrant, Close, OnSource
  <2>2. ASSUME NEW x \in GrantRow, grant' = [grant EXCEPT ![<<u, s>>] = x]
        PROVE  LevelInv'
    BY <1>0, <1>1, <2>1, <2>2, GrantRows, GrantLevel
  <2>3. CASE PutGrantAgain(q)
    <3>1. Put("private") \in GrantRow
      BY GrantRows
    <3> QED
      BY <2>2, <2>3, <3>1 DEF PutGrantAgain
  <2>4. CASE TagGrant(q)
    <3> DEFINE g == grant[<<u, s>>]
    <3>1. g \in GrantRow \cup {None} /\ call[q].arg \in Scope
      BY <2>1, <2>4 DEF LevelInv, Granted, TagGrant, CountInv, Calls, Fits
    <3> DEFINE x == IF g = None THEN [scope |-> call[q].arg, listed |-> FALSE]
                                ELSE [g EXCEPT !.scope = call[q].arg]
    <3>2. x \in GrantRow
      BY <3>1, TaggedIsGrant
    <3>3. grant' = [grant EXCEPT ![<<u, s>>] = x]
      BY <2>1, <2>4 DEF TagGrant, CountInv, Tables
    <3> HIDE DEF x
    <3> QED
      BY <2>2, <3>2, <3>3
  <2> QED
    BY <1>6, <2>3, <2>4
<1>7. CASE DropGrant(q)
  <2>1. /\ s \in Source /\ call[q].listing \subseteq User /\ ~Close(q) /\ TearingDown(s)
        /\ UNCHANGED row
    BY <1>7 DEF DropGrant, Close, OnSource, CountInv, Calls, Fits, CallType, TearingDown
  <2>2. UNCHANGED grant \/ \E w \in User : grant' = [grant EXCEPT ![<<w, s>>] = None]
    BY <1>7, <2>1 DEF DropGrant
  <2>3. CASE UNCHANGED grant
    BY <1>0, <1>1, <2>1, <2>3, LevelQuiet
  <2>4. ASSUME NEW w \in User, grant' = [grant EXCEPT ![<<w, s>>] = None]
        PROVE  LevelInv'
    BY <1>0, <1>1, <2>1, <2>4, GrantLevel
  <2> QED
    BY <2>2, <2>3, <2>4
<1>8. CASE EnsureRuntime(q) \/ RecordRuntime(q) \/ Disable(q) \/ Flip(q)
  <2>1. s \in Source /\ row[s] \in Row /\ ~Close(q) /\ UNCHANGED grant
    BY <1>2, <1>8 DEF EnsureRuntime, RecordRuntime, Disable, Flip, Close, OnSource
  <2>2. CASE UNCHANGED row
    BY <1>0, <1>1, <2>1, <2>2, LevelQuiet
  <2>3. ASSUME NEW x \in Row, row' = [row EXCEPT ![s] = x], x.count = row[s].count,
               x.enabled = row[s].enabled \/ x.count <= 0
        PROVE  LevelInv'
    BY <1>0, <1>1, <2>1, <2>3, RowLevel
  <2>4. CASE RecordRuntime(q) /\ row' = [row EXCEPT ![s].runtime = TRUE]
    <3>1. PICK x : x = [row[s] EXCEPT !.runtime = TRUE]
      OBVIOUS
    <3>2. x \in Row /\ x.count = row[s].count /\ x.enabled = row[s].enabled
      BY <2>1, <3>1, RowFields DEF Scope
    <3>3. row' = [row EXCEPT ![s] = x]
      BY <2>1, <2>4, <3>1 DEF CountInv, Tables
    <3> QED
      BY <2>3, <3>2, <3>3
  <2>5. CASE Disable(q) /\ Nobody(s) /\ row' = [row EXCEPT ![s].enabled = FALSE]
    <3>1. PICK x : x = [row[s] EXCEPT !.enabled = FALSE]
      OBVIOUS
    <3>2. x \in Row /\ x.count = row[s].count
      BY <2>1, <3>1, RowFields DEF Scope
    <3>3. row' = [row EXCEPT ![s] = x]
      BY <2>1, <2>5, <3>1 DEF CountInv, Tables
    <3> QED
      BY <2>3, <2>5, <3>2, <3>3 DEF Nobody
  <2>6. CASE Flip(q) /\ row' = [row EXCEPT ![s].scope = call[q].arg]
    <3>1. call[q].arg \in Scope
      BY <2>6 DEF Flip, CountInv, Calls, Fits
    <3>2. PICK x : x = [row[s] EXCEPT !.scope = call[q].arg]
      OBVIOUS
    <3>3. x \in Row /\ x.count = row[s].count /\ x.enabled = row[s].enabled
      BY <2>1, <3>1, <3>2 DEF Row
    <3>4. row' = [row EXCEPT ![s] = x]
      BY <2>1, <2>6, <3>2 DEF CountInv, Tables
    <3> QED
      BY <2>3, <3>3, <3>4
  <2> QED
    BY <1>8, <2>2, <2>4, <2>5, <2>6 DEF EnsureRuntime, RecordRuntime, Disable, Flip
<1>9. CASE Close(q)
  <2>1. s \in Source /\ row[s] \in Row /\ UNCHANGED grant
    BY <1>2, <1>9 DEF Close, OnSource
  <2>2. ASSUME NEW r \in Source, r # s, TearingDown(r)
        PROVE  TearingDown(r)'
    BY <2>2, Alone DEF TearingDown, CountInv
  <2>3. CASE row' = [row EXCEPT ![s] = Closed(@)]
    <3>1. PICK x : x = Closed(row[s])
      OBVIOUS
    <3>2. x \in Row /\ x.count = 0
      BY <2>1, <3>1, RowFields DEF Scope, Closed, Row
    <3>3. row' = [row EXCEPT ![s] = x]
      BY <2>1, <2>3, <3>1 DEF CountInv, Tables
    <3>4. x.count <= 0
      BY <3>2
    <3>5. \A r \in Source : r # s /\ TearingDown(r) => TearingDown(r)'
      BY <2>2
    <3> QED
      BY <1>0, <2>1, <2>2, <3>2, <3>3, <3>4, <3>5, RowLevel
  <2>4. CASE ~row[s].enabled /\ UNCHANGED row
    <3>1. \A r \in Source : Subscribers(r)' = Subscribers(r)
      BY <2>1 DEF Subscribers
    <3>2. Covered(s)'
      <4>1. row[s].count <= 0 /\ row[s].count \in Int
        BY <2>1, <2>4 DEF LevelInv, Row
      <4>2. Covered(s)
        BY <4>1, SubscribersFinite DEF Covered
      <4> QED
        BY <2>1, <2>4, <3>1, <4>2 DEF Covered
    <3>3. row[s].count <= 0
      BY <2>1, <2>4 DEF LevelInv
    <3>4. Granted'
      BY <2>1 DEF LevelInv, Granted
    <3> QED
      BY <1>0, <2>1, <2>2, <2>4, <3>1, <3>2, <3>3, <3>4, LevelKept
  <2> QED
    BY <1>9, <2>3, <2>4 DEF Close
<1>10. CASE \/ FilesRead(q) \/ UrlRead(q) \/ GitRead(q) \/ JoinRead(q) \/ MemberRead(q)
            \/ DeleteRead(q) \/ CheckCount(q) \/ DeleteRuntime(q) \/ ListGrants(q)
            \/ ScopeRead(q) \/ RebuildRead(q)
  <2>1. UNCHANGED <<row, grant>>
    BY <1>10 DEF FilesRead, UrlRead, GitRead, Decide, JoinRead, MemberRead, DeleteRead,
                 CheckCount, DeleteRuntime, ListGrants, ScopeRead, RebuildRead
  <2>2. ~Close(q)
    BY <1>10 DEF FilesRead, UrlRead, GitRead, Registers, JoinRead, MemberRead, DeleteRead,
                 CheckCount, DeleteRuntime, ListGrants, ScopeRead, RebuildRead, Close
  <2> QED
    BY <1>0, <1>1, <2>1, <2>2, LevelQuiet
<1>11. CASE \/ CreateRead(q) \/ MintKey(q) \/ PointKey(q) \/ RevokeRead(q) \/ Revoke(q)
            \/ Tombstone(q) \/ ListKeys(q) \/ CutKey(q) \/ NextGrant(q) \/ Forget(q)
  <2>1. UNCHANGED <<row, grant>>
    BY <1>11 DEF CreateRead, MintKey, PointKey, RevokeRead, Revoke, Tombstone, ListKeys,
                 CutKey, NextGrant, Forget
  <2>2. ~Close(q)
    BY <1>11 DEF CreateRead, MintKey, PointKey, RevokeRead, Revoke, Tombstone, ListKeys,
                 CutKey, NextGrant, Forget, Close
  <2> QED
    BY <1>0, <1>1, <2>1, <2>2, LevelQuiet
<1> QED
  BY <1>3, <1>4, <1>5, <1>6, <1>7, <1>8, <1>9, <1>10, <1>11
     DEF Step, RegisterFiles, RegisterUrl, RegisterGit

LEMMA LevelNext ==
  ASSUME CountInv, LevelInv, [Next]_vars
  PROVE  LevelInv'
<1>1. ASSUME NEW q \in Call, Step(q)
      PROVE  LevelInv'
  BY <1>1, LevelStep
<1>2. ASSUME NEW q \in Call, Kill(q)
      PROVE  LevelInv'
  <2>1. UNCHANGED <<row, grant>> /\ torn \subseteq torn'
    BY <1>2 DEF Kill
  <2>2. ASSUME NEW r \in Source, TearingDown(r)
        PROVE  TearingDown(r)' \/ r \in torn'
    <3>1. PICK p \in Call : call[p].src = r /\ call[p].pc \in {"drop", "close"}
      BY <2>2 DEF TearingDown
    <3>2. CASE p # q
      BY <1>2, <3>1, <3>2, Alone DEF TearingDown, CountInv
    <3>3. CASE p = q
      BY <1>2, <3>1, <3>3 DEF Kill
    <3> QED
      BY <3>2, <3>3
  <2> QED
    BY <2>1, <2>2, LevelQuiet
<1>3. ASSUME NEW q \in Call, NEW u \in User, Enter(q, u) \/ EnterOffboard(q, u)
      PROVE  LevelInv'
  <2>1. UNCHANGED <<row, grant, torn>> /\ call[q] = Idle
    BY <1>3 DEF Enter, EnterOffboard, Begin
  <2>2. \A p \in Call : p # q => call'[p] = call[p]
    BY <1>3 DEF Enter, EnterOffboard, Begin, CountInv, Calls
  <2>3. \A r \in Source : TearingDown(r) => TearingDown(r)'
    BY <2>1, <2>2 DEF TearingDown, Idle
  <2> QED
    BY <2>1, <2>3, LevelQuiet
<1>4. CASE (\E k \in Key : Lapse(k)) \/ UNCHANGED vars
  <2>1. UNCHANGED <<row, grant, torn, call>>
    BY <1>4 DEF Lapse, History, vars
  <2>2. \A r \in Source : TearingDown(r) => TearingDown(r)'
    BY <2>1 DEF TearingDown
  <2> QED
    BY <2>1, <2>2, LevelQuiet
<1> QED
  BY <1>1, <1>2, <1>3, <1>4 DEF Next

(* No source, private or shared, is kept for subscribers it does not have, *)
(* unless its teardown is at work or was killed half way: however many     *)
(* joins, removals, teardowns and changes of scope overlap                 *)
(* (_teardown_source, delete_repo, _register_files_repo, change_scope).    *)
THEOREM CountsCovered == Spec => []CountNeverOverstates
<1>1. Init => CountInv /\ LevelInv
  <2>1. Init => LevelInv
    <3> SUFFICES ASSUME Init
                 PROVE  LevelInv
      OBVIOUS
    <3>1. \A s \in Source : row[s].count = 0
      BY DEF Init, NoRow
    <3>2. \A s \in Source : Cardinality(Subscribers(s)) >= 0
      BY SubscribersFinite
    <3> QED
      BY <3>1, <3>2 DEF Init, LevelInv, Granted, CountNeverOverstates
  <2> QED
    BY <2>1, CountInit
<1>2. CountInv /\ LevelInv /\ [Next]_vars => CountInv' /\ LevelInv'
  BY CountNext, LevelNext
<1>3. LevelInv => CountNeverOverstates
  BY DEF LevelInv
<1> QED
  BY <1>1, <1>2, <1>3, PTL DEF Spec

-----------------------------------------------------------------------------
(* The keys.  A user's active keys and the creations past the check are     *)
(* never more than the limit allows with every invocation in between, and   *)
(* an active key without its pointer has a creation about to write it, or   *)
(* one that was killed, which took a fault.                                 *)
KeyRow == [owner : User \cup {None}, status : {"unborn", "active", "lapsed", "revoked"},
           pointed : BOOLEAN]
Makers(u) == {q \in Call : call[q].user = u /\ call[q].pc = "mint"}
Pointers(u) == {q \in Call : call[q].user = u /\ call[q].pc = "point"}

Awaits(q, k) == call[q].pc = "point" /\ call[q].arg = k
Awaited(u) == {k \in Authorizing(u) : \E q \in Call : Awaits(q, k)}
Strays(u) == {k \in Authorizing(u) : ~key[k].pointed /\ \A q \in Call : ~Awaits(q, k)}

Pointing ==
  \A q \in Call : call[q].pc = "point" =>
    key[call[q].arg].owner = call[q].user /\ key[call[q].arg].status # "unborn"
      /\ call[q].arg \in Key

Few(u) ==
  /\ IsFiniteSet(Authorizing(u))
  /\ Cardinality(Strays(u)) <= MaxFaults - faults
  /\ Cardinality(Authorizing(u)) + Cardinality(Makers(u))
       <= MaxActiveKeys - 1 + Cardinality(Call) + (MaxFaults - faults)

KeyInv ==
  /\ key \in [Key -> KeyRow] /\ Pointing
  /\ faults \in Nat /\ faults <= MaxFaults
  /\ \A u \in User : Few(u)

LEMMA CallsFinite ==
  ASSUME NEW Q \in SUBSET Call
  PROVE  /\ IsFiniteSet(Q) /\ Cardinality(Q) \in Nat
         /\ Cardinality(Q) <= Cardinality(Call)
         /\ Cardinality(Call) \in Nat
BY SubscriptionsAssumption, FS_Subset, FS_CardinalityType

LEMMA Smaller ==
  ASSUME NEW S, IsFiniteSet(S), NEW T \in SUBSET S
  PROVE  IsFiniteSet(T) /\ Cardinality(T) \in Nat /\ Cardinality(S) \in Nat
           /\ Cardinality(T) <= Cardinality(S)
BY FS_Subset, FS_CardinalityType

LEMMA OneMore ==
  ASSUME NEW S, IsFiniteSet(S), NEW x, NEW T \in SUBSET (S \cup {x})
  PROVE  IsFiniteSet(T) /\ Cardinality(T) \in Nat /\ Cardinality(T) <= Cardinality(S) + 1
<1>1. IsFiniteSet(S \cup {x}) /\ Cardinality(S \cup {x}) <= Cardinality(S) + 1
  <2>1. Cardinality(S) \in Nat
    BY FS_CardinalityType
  <2>2. /\ IsFiniteSet(S \cup {x})
        /\ Cardinality(S \cup {x}) = IF x \in S THEN Cardinality(S) ELSE Cardinality(S) + 1
    BY FS_AddElement
  <2> QED
    BY <2>1, <2>2
<1>2. IsFiniteSet(T) /\ Cardinality(T) \in Nat /\ Cardinality(T) <= Cardinality(S \cup {x})
  BY <1>1, Smaller
<1> QED
  BY <1>1, <1>2, FS_CardinalityType

(* Fewer keys and fewer creations keep the bound, and so does a fault that  *)
(* strands one key more.                                                    *)
LEMMA FewKept ==
  ASSUME KeyInv, NEW u \in User, Authorizing(u)' \subseteq Authorizing(u),
         Makers(u)' \subseteq Makers(u), faults' \in Nat, faults' <= faults,
         \/ Strays(u)' \subseteq Strays(u)
         \/ faults' = faults - 1 /\ \E k : Strays(u)' \subseteq Strays(u) \cup {k}
  PROVE  Few(u)'
<1>1. /\ IsFiniteSet(Authorizing(u)) /\ Strays(u) \in SUBSET Authorizing(u)
      /\ Makers(u) \in SUBSET Call
  BY DEF KeyInv, Few, Strays, Makers
<1>2. /\ IsFiniteSet(Authorizing(u)') /\ Cardinality(Authorizing(u)') \in Nat
      /\ Cardinality(Authorizing(u)') <= Cardinality(Authorizing(u))
      /\ Cardinality(Authorizing(u)) \in Nat
  BY <1>1, Smaller
<1>3. /\ IsFiniteSet(Makers(u)) /\ Cardinality(Makers(u)) \in Nat /\ Cardinality(Call) \in Nat
  BY <1>1, CallsFinite
<1>4. Cardinality(Makers(u)') \in Nat /\ Cardinality(Makers(u)') <= Cardinality(Makers(u))
  BY <1>3, Smaller
<1>5. IsFiniteSet(Strays(u)) /\ Cardinality(Strays(u)) \in Nat
  BY <1>1, Smaller
<1>6. Cardinality(Strays(u)') <= MaxFaults - faults'
  <2>1. /\ Cardinality(Strays(u)) <= MaxFaults - faults
        /\ faults \in Nat /\ faults' \in Nat /\ faults' <= faults /\ MaxFaults \in Nat
    BY SubscriptionsAssumption DEF KeyInv, Few
  <2>2. CASE Strays(u)' \subseteq Strays(u)
    <3>1. Cardinality(Strays(u)') \in Nat /\ Cardinality(Strays(u)') <= Cardinality(Strays(u))
      BY <1>5, <2>2, Smaller
    <3> HIDE DEF Strays
    <3> QED
      BY <1>5, <2>1, <3>1
  <2>3. ASSUME faults' = faults - 1, NEW k, Strays(u)' \subseteq Strays(u) \cup {k}
        PROVE  Cardinality(Strays(u)') <= MaxFaults - faults'
    <3>1. Cardinality(Strays(u)') \in Nat /\ Cardinality(Strays(u)') <= Cardinality(Strays(u)) + 1
      BY <1>5, <2>3, OneMore
    <3> HIDE DEF Strays
    <3> QED
      BY <1>5, <2>1, <2>3, <3>1
  <2> QED
    BY <2>2, <2>3
<1>7. /\ Cardinality(Authorizing(u)) + Cardinality(Makers(u))
           <= MaxActiveKeys - 1 + Cardinality(Call) + (MaxFaults - faults)
      /\ faults \in Nat /\ MaxFaults \in Nat /\ MaxActiveKeys \in Nat
  BY SubscriptionsAssumption DEF KeyInv, Few
<1>8. Cardinality(Authorizing(u)') + Cardinality(Makers(u)')
        <= MaxActiveKeys - 1 + Cardinality(Call) + (MaxFaults - faults')
  <2> HIDE DEF Authorizing, Makers
  <2> QED
    BY <1>2, <1>3, <1>4, <1>7
<1> QED
  BY <1>2, <1>6, <1>8 DEF Few

(* Keys that are revoked or lapse, and calls that mint none.                *)
LEMMA KeysKept ==
  ASSUME KeyInv, Calls, key' \in [Key -> KeyRow], faults' \in Nat, faults' <= faults,
         \A k \in Key :
           /\ key'[k].owner = key[k].owner /\ key'[k].pointed = key[k].pointed
           /\ key'[k].status = key[k].status \/ key'[k].status \in {"lapsed", "revoked"},
         \A q \in Call : call'[q].pc \in {"mint", "point"} => call'[q] = call[q],
         \A q \in Call : call[q].pc = "point" => call'[q] = call[q]
  PROVE  KeyInv'
<1>1. ASSUME NEW u \in User
      PROVE  /\ Authorizing(u)' \subseteq Authorizing(u) /\ Makers(u)' \subseteq Makers(u)
             /\ Strays(u)' \subseteq Strays(u)
  <2>1. Authorizing(u)' \subseteq Authorizing(u) /\ Makers(u)' \subseteq Makers(u)
    BY DEF Authorizing, Makers
  <2>2. \A q \in Call, k \in Key : Awaits(q, k) => Awaits(q, k)'
    BY DEF Awaits
  <2>3. Authorizing(u) \subseteq Key /\ Authorizing(u)' \subseteq Key
    BY DEF Authorizing
  <2> QED
    BY <2>1, <2>2, <2>3 DEF Strays
<1>2. \A u \in User : Few(u)'
  BY <1>1, FewKept
<1>3. Pointing'
  BY DEF Pointing, KeyInv
<1>4. faults' <= MaxFaults
  BY SubscriptionsAssumption DEF KeyInv
<1> QED
  BY <1>2, <1>3, <1>4 DEF KeyInv

(* A creation past the check: the keys it saw were too few to refuse it,    *)
(* and those it did not see are awaited by other invocations or stranded.   *)
LEMMA AwaitedFew ==
  ASSUME KeyInv, NEW u \in User
  PROVE  /\ IsFiniteSet(Awaited(u))
         /\ Cardinality(Awaited(u)) <= Cardinality(Pointers(u))
<1> DEFINE P == {q \in Pointers(u) : call[q].arg \in Awaited(u)}
           f == [q \in P |-> call[q].arg]
<1>1. \A k \in Awaited(u) : \E q \in P : f[q] = k
  BY DEF Awaited, Awaits, Authorizing, Pointers, KeyInv, Pointing
<1>2. f \in Surjection(P, Awaited(u))
  BY <1>1 DEF Surjection
<1>3. P \in SUBSET Pointers(u) /\ Pointers(u) \in SUBSET Call
  BY DEF Pointers
<1>4. IsFiniteSet(P) /\ Cardinality(P) <= Cardinality(Pointers(u)) /\ Cardinality(P) \in Nat
      /\ Cardinality(Pointers(u)) \in Nat
  BY <1>3, CallsFinite, Smaller
<1> HIDE DEF P, f
<1>5. IsFiniteSet(Awaited(u)) /\ Cardinality(Awaited(u)) <= Cardinality(P)
  BY <1>2, <1>4, FS_Surjection
<1> QED
  BY <1>4, <1>5, FS_CardinalityType

LEMMA AuthorizingFew ==
  ASSUME KeyInv, NEW u \in User
  PROVE  /\ Cardinality(Authorizing(u))
              <= Cardinality(Live(u)) + Cardinality(Pointers(u)) + (MaxFaults - faults)
         /\ Cardinality(Authorizing(u)) \in Nat /\ Cardinality(Live(u)) \in Nat
<1>1. /\ IsFiniteSet(Authorizing(u)) /\ Live(u) \in SUBSET Authorizing(u)
      /\ Strays(u) \in SUBSET Authorizing(u)
      /\ Authorizing(u) = (Live(u) \cup Awaited(u)) \cup Strays(u)
  BY DEF KeyInv, Few, Live, Authorizing, Strays, Awaited
<1>2. /\ IsFiniteSet(Live(u)) /\ Cardinality(Live(u)) \in Nat
      /\ IsFiniteSet(Strays(u)) /\ Cardinality(Strays(u)) \in Nat
  BY <1>1, Smaller
<1>3. /\ IsFiniteSet(Awaited(u)) /\ Cardinality(Awaited(u)) \in Nat
      /\ Cardinality(Awaited(u)) <= Cardinality(Pointers(u))
  BY AwaitedFew, FS_CardinalityType
<1>4. ASSUME NEW S, NEW T, IsFiniteSet(S), IsFiniteSet(T)
      PROVE  /\ IsFiniteSet(S \cup T) /\ Cardinality(S \cup T) \in Nat
             /\ Cardinality(S \cup T) <= Cardinality(S) + Cardinality(T)
  <2>1. IsFiniteSet(S \cap T) /\ Cardinality(S \cap T) \in Nat
    BY <1>4, FS_Subset, FS_CardinalityType
  <2>2. Cardinality(S) \in Nat /\ Cardinality(T) \in Nat
    BY <1>4, FS_CardinalityType
  <2>3. /\ IsFiniteSet(S \cup T)
        /\ Cardinality(S \cup T) = Cardinality(S) + Cardinality(T) - Cardinality(S \cap T)
    BY <1>4, FS_Union
  <2>4. Cardinality(S \cup T) \in Nat
    BY <2>3, FS_CardinalityType
  <2> QED
    BY <2>1, <2>2, <2>3, <2>4
<1>5. /\ IsFiniteSet(Live(u) \cup Awaited(u)) /\ Cardinality(Live(u) \cup Awaited(u)) \in Nat
      /\ Cardinality(Live(u) \cup Awaited(u)) <= Cardinality(Live(u)) + Cardinality(Awaited(u))
  BY <1>2, <1>3, <1>4
<1>6. /\ Cardinality((Live(u) \cup Awaited(u)) \cup Strays(u)) \in Nat
      /\ Cardinality((Live(u) \cup Awaited(u)) \cup Strays(u))
           <= Cardinality(Live(u) \cup Awaited(u)) + Cardinality(Strays(u))
  BY <1>2, <1>4, <1>5
<1>7. /\ Cardinality(Authorizing(u)) \in Nat
      /\ Cardinality(Authorizing(u)) <= Cardinality(Live(u) \cup Awaited(u)) + Cardinality(Strays(u))
  BY <1>1, <1>6, Zenon
<1>8. Cardinality(Strays(u)) <= MaxFaults - faults /\ faults \in Nat /\ MaxFaults \in Nat
  BY SubscriptionsAssumption DEF KeyInv, Few
<1>9. Cardinality(Pointers(u)) \in Nat
  BY CallsFinite DEF Pointers
<1> HIDE DEF Live, Awaited, Strays, Authorizing, Pointers
<1> QED
  BY <1>2, <1>3, <1>5, <1>7, <1>8, <1>9

LEMMA CreateReadKeys ==
  ASSUME CountInv, KeyInv, NEW q \in Call, CreateRead(q)
  PROVE  KeyInv'
<1> USE DEF At
<1>1. key' = key /\ faults' = faults /\ call[q].user \in User /\ call[q].pc = "read"
  BY DEF CreateRead, Accounts, CountInv, Calls, Fits
<1>2. CASE Done(q)
  <2>1. \A p \in Call : call'[p].pc \in {"mint", "point"} => call'[p] = call[p]
    BY <1>2, OneDone DEF CountInv, Marks
  <2>2. \A p \in Call : call[p].pc = "point" => call'[p] = call[p]
    BY <1>1, <1>2, OneDone DEF CountInv
  <2>3. /\ key' \in [Key -> KeyRow] /\ faults' \in Nat /\ faults' <= faults
        /\ \A k \in Key :
             /\ key'[k].owner = key[k].owner /\ key'[k].pointed = key[k].pointed
             /\ key'[k].status = key[k].status \/ key'[k].status \in {"lapsed", "revoked"}
    BY <1>1 DEF KeyInv
  <2> QED
    BY <2>1, <2>2, <2>3, KeysKept DEF CountInv
<1>3. CASE ~Full(call[q].user) /\ Goto(q, "mint")
  <2>1. /\ \A p \in Call : p # q => call'[p] = call[p]
        /\ call'[q].pc = "mint" /\ call'[q].user = call[q].user
    BY <1>3 DEF Goto, CountInv, Calls, CallType
  <2>2. ASSUME NEW v \in User
        PROVE  /\ Authorizing(v)' = Authorizing(v) /\ Strays(v)' = Strays(v)
               /\ Pointers(v)' = Pointers(v)
    <3>1. \A p \in Call, k \in Key : Awaits(p, k)' = Awaits(p, k)
      BY <1>1, <2>1 DEF Awaits
    <3>2. Authorizing(v)' = Authorizing(v)
      BY <1>1 DEF Authorizing
    <3>3. Authorizing(v) \subseteq Key
      BY DEF Authorizing
    <3>4. Strays(v)' = Strays(v)
      BY <1>1, <3>1, <3>2, <3>3 DEF Strays
    <3>5. Pointers(v)' = Pointers(v)
      BY <1>1, <2>1 DEF Pointers
    <3> QED
      BY <3>2, <3>4, <3>5
  <2>3. ASSUME NEW v \in User, v # call[q].user
        PROVE  Few(v)'
    <3>1. Makers(v)' \subseteq Makers(v)
      BY <2>1, <2>3 DEF Makers
    <3>2. faults' \in Nat /\ faults' <= faults
      BY <1>1 DEF KeyInv
    <3> QED
      BY <2>2, <3>1, <3>2, FewKept
  <2>4. ASSUME NEW v \in User, v = call[q].user
        PROVE  Few(v)'
    <3>1. /\ Cardinality(Authorizing(v))
               <= Cardinality(Live(v)) + Cardinality(Pointers(v)) + (MaxFaults - faults)
          /\ Cardinality(Authorizing(v)) \in Nat /\ Cardinality(Live(v)) \in Nat
      BY AuthorizingFew
    <3>2. Cardinality(Live(v)) < MaxActiveKeys
      BY <1>3, <2>4, <3>1, SubscriptionsAssumption DEF Full
    <3>3. /\ Makers(v)' \in SUBSET Call /\ Pointers(v) \in SUBSET Call
          /\ Makers(v)' \cup Pointers(v) \in SUBSET Call /\ Makers(v)' \cap Pointers(v) = {}
      BY <1>1, <2>1 DEF Makers, Pointers
    <3>4. /\ IsFiniteSet(Makers(v)') /\ Cardinality(Makers(v)') \in Nat
          /\ IsFiniteSet(Pointers(v)) /\ Cardinality(Pointers(v)) \in Nat
          /\ Cardinality(Makers(v)' \cup Pointers(v)) <= Cardinality(Call)
          /\ Cardinality(Call) \in Nat
      BY <3>3, CallsFinite
    <3>5. Cardinality(Makers(v)' \cup Pointers(v)) = Cardinality(Makers(v)') + Cardinality(Pointers(v))
      <4>1. Cardinality(Makers(v)' \cap Pointers(v)) = 0
        BY <3>3, FS_EmptySet, Zenon
      <4> HIDE DEF Makers, Pointers
      <4> QED
        BY <3>4, <4>1, FS_Union
    <3>6. /\ faults \in Nat /\ MaxFaults \in Nat /\ faults <= MaxFaults
          /\ MaxActiveKeys \in Nat
      BY SubscriptionsAssumption DEF KeyInv
    <3>7. Cardinality(Authorizing(v)) + Cardinality(Makers(v)')
            <= MaxActiveKeys - 1 + Cardinality(Call) + (MaxFaults - faults)
      <4> HIDE DEF Authorizing, Makers, Pointers, Live
      <4> QED
        BY <3>1, <3>2, <3>4, <3>5, <3>6
    <3> QED
      <4>1. /\ IsFiniteSet(Authorizing(v))
            /\ Cardinality(Strays(v)) <= MaxFaults - faults
        BY DEF KeyInv, Few
      <4> QED
        BY <1>1, <2>2, <3>7, <4>1 DEF Few
  <2>5. \A v \in User : Few(v)'
    BY <2>3, <2>4
  <2>6. Pointing'
    BY <1>1, <2>1 DEF Pointing, KeyInv
  <2> QED
    BY <1>1, <2>5, <2>6 DEF KeyInv
<1> QED
  BY <1>2, <1>3 DEF CreateRead

(* A key that is born takes the place of the creation that was past the     *)
(* check, and its owner's pointer is awaited.                               *)
LEMMA MintKeyKeys ==
  ASSUME CountInv, KeyInv, NEW q \in Call, MintKey(q)
  PROVE  KeyInv'
<1> USE DEF At
<1>1. PICK k \in Key :
        /\ key[k].status = "unborn"
        /\ key' = [key EXCEPT ![k] = [owner |-> call[q].user, status |-> "active",
                                      pointed |-> FALSE]]
        /\ call' = [call EXCEPT ![q].pc = "point", ![q].arg = k]
  BY DEF MintKey
<1>2. call[q].user \in User /\ call[q].pc = "mint" /\ faults' = faults
  BY DEF MintKey, CountInv, Calls, Fits
<1>3. /\ \A p \in Call : p # q => call'[p] = call[p]
      /\ call'[q].pc = "point" /\ call'[q].user = call[q].user /\ call'[q].arg = k
  BY <1>1 DEF CountInv, Calls, CallType
<1>4. /\ key' \in [Key -> KeyRow]
      /\ \A j \in Key : j # k => key'[j] = key[j]
      /\ key'[k].owner = call[q].user /\ key'[k].status = "active" /\ key'[k].pointed = FALSE
  BY <1>1, <1>2 DEF KeyInv, KeyRow
<1>5. ASSUME NEW v \in User
      PROVE  Strays(v)' \subseteq Strays(v)
  <2>1. \A p \in Call, j \in Key : Awaits(p, j) => Awaits(p, j)'
    BY <1>2, <1>3 DEF Awaits
  <2>2. Awaits(q, k)'
    BY <1>3 DEF Awaits
  <2>3. \A j \in Authorizing(v)' : j \in Key /\ (j # k => j \in Authorizing(v))
    BY <1>4 DEF Authorizing
  <2> QED
    BY <1>4, <2>1, <2>2, <2>3 DEF Strays
<1>6. ASSUME NEW v \in User, v # call[q].user
      PROVE  Few(v)'
  <2>1. Authorizing(v)' \subseteq Authorizing(v) /\ Makers(v)' \subseteq Makers(v)
    BY <1>2, <1>3, <1>4, <1>6 DEF Authorizing, Makers
  <2>2. faults' \in Nat /\ faults' <= faults
    BY <1>2 DEF KeyInv
  <2> QED
    BY <1>5, <2>1, <2>2, FewKept
<1>7. ASSUME NEW v \in User, v = call[q].user
      PROVE  Few(v)'
  <2>1. /\ IsFiniteSet(Authorizing(v)) /\ Cardinality(Authorizing(v)) \in Nat
        /\ Strays(v) \in SUBSET Authorizing(v) /\ Makers(v) \in SUBSET Call
        /\ Cardinality(Strays(v)) <= MaxFaults - faults
        /\ Cardinality(Authorizing(v)) + Cardinality(Makers(v))
             <= MaxActiveKeys - 1 + Cardinality(Call) + (MaxFaults - faults)
    BY FS_CardinalityType DEF KeyInv, Few, Strays, Makers
  <2>2. Authorizing(v)' \in SUBSET (Authorizing(v) \cup {k})
    BY <1>4 DEF Authorizing
  <2>3. /\ IsFiniteSet(Authorizing(v)') /\ Cardinality(Authorizing(v)') \in Nat
        /\ Cardinality(Authorizing(v)') <= Cardinality(Authorizing(v)) + 1
    BY <2>1, <2>2, OneMore
  <2>4. Makers(v)' = Makers(v) \ {q} /\ q \in Makers(v)
    BY <1>2, <1>3, <1>7 DEF Makers
  <2>5. IsFiniteSet(Makers(v)) /\ Cardinality(Makers(v)) \in Nat /\ Cardinality(Call) \in Nat
    BY <2>1, CallsFinite
  <2>6. Cardinality(Makers(v)') = Cardinality(Makers(v)) - 1
    BY <2>4, <2>5, FS_RemoveElement
  <2>7. /\ IsFiniteSet(Strays(v)) /\ Cardinality(Strays(v)) \in Nat
    BY <2>1, Smaller
  <2>8. Cardinality(Strays(v)') \in Nat /\ Cardinality(Strays(v)') <= Cardinality(Strays(v))
    BY <1>5, <2>7, Smaller
  <2>9. faults \in Nat /\ MaxFaults \in Nat /\ MaxActiveKeys \in Nat
    BY SubscriptionsAssumption DEF KeyInv
  <2>10. /\ Cardinality(Strays(v)') <= MaxFaults - faults
         /\ Cardinality(Authorizing(v)') + Cardinality(Makers(v)')
              <= MaxActiveKeys - 1 + Cardinality(Call) + (MaxFaults - faults)
    <3> HIDE DEF Authorizing, Strays, Makers
    <3> QED
      BY <2>1, <2>3, <2>5, <2>6, <2>7, <2>8, <2>9
  <2> QED
    BY <1>2, <2>3, <2>10 DEF Few
<1>8. \A v \in User : Few(v)'
  BY <1>6, <1>7
<1>9. Pointing'
  <2>1. ASSUME NEW p \in Call, p # q, call[p].pc = "point"
        PROVE  /\ key'[call[p].arg].owner = call[p].user /\ key'[call[p].arg].status # "unborn"
               /\ call[p].arg \in Key
    <3>1. PICK j \in Key : /\ j = call[p].arg /\ key[j].owner = call[p].user
                           /\ key[j].status # "unborn"
      BY <2>1 DEF KeyInv, Pointing
    <3>2. key'[j] = key[j]
      BY <1>1, <1>4, <3>1
    <3> QED
      BY <3>1, <3>2
  <2>2. /\ key'[k].owner = call'[q].user /\ key'[k].status # "unborn" /\ call'[q].arg = k
    BY <1>3, <1>4
  <2> QED
    BY <1>3, <2>1, <2>2 DEF Pointing
<1> QED
  BY <1>2, <1>4, <1>8, <1>9 DEF KeyInv

(* The creation that ends shows its owner the key it made.                  *)
LEMMA PointKeyKeys ==
  ASSUME CountInv, KeyInv, NEW q \in Call, PointKey(q)
  PROVE  KeyInv'
<1> USE DEF At
<1>1. PICK k \in Key : k = call[q].arg /\ key[k].owner = call[q].user
                        /\ key[k].status # "unborn"
  BY DEF PointKey, KeyInv, Pointing
<1>2. /\ call[q].user \in User /\ call[q].pc = "point" /\ call' = [call EXCEPT ![q] = Idle]
      /\ faults' = faults
  BY DEF PointKey, CountInv, Calls, Fits, Done
<1>3. /\ \A p \in Call : p # q => call'[p] = call[p]
      /\ call'[q].pc = "idle"
  BY <1>2 DEF CountInv, Calls, Idle
<1>4. /\ key' \in [Key -> KeyRow]
      /\ \A j \in Key : j # k => key'[j] = key[j]
      /\ key'[k].owner = key[k].owner /\ key'[k].status = key[k].status /\ key'[k].pointed
  BY <1>1 DEF PointKey, KeyInv, KeyRow
<1>5. ASSUME NEW v \in User
      PROVE  Few(v)'
  <2>1. Authorizing(v)' = Authorizing(v) /\ Makers(v)' \subseteq Makers(v)
    BY <1>1, <1>3, <1>4 DEF Authorizing, Makers
  <2>2. \A p \in Call, j \in Key : j # k /\ Awaits(p, j) => Awaits(p, j)'
    BY <1>1, <1>3 DEF Awaits
  <2>3. Authorizing(v) \subseteq Key
    BY DEF Authorizing
  <2>4. Strays(v)' \subseteq Strays(v)
    BY <1>4, <2>1, <2>2, <2>3 DEF Strays
  <2>5. faults' \in Nat /\ faults' <= faults
    BY <1>2 DEF KeyInv
  <2> QED
    BY <2>1, <2>4, <2>5, FewKept
<1>6. Pointing'
  BY <1>3, <1>4 DEF Pointing, KeyInv
<1> QED
  BY <1>2, <1>4, <1>5, <1>6 DEF KeyInv

(* A call that is killed strands the key whose pointer it was to write.     *)
LEMMA KillKeys ==
  ASSUME CountInv, KeyInv, NEW q \in Call, Kill(q)
  PROVE  KeyInv'
<1>1. /\ key' = key /\ call' = [call EXCEPT ![q] = Idle] /\ Idle.pc = "idle"
      /\ faults > 0 /\ faults' = faults - 1
  BY DEF Kill, Fault, Accounts, Idle
<1>2. /\ \A p \in Call : p # q => call'[p] = call[p]
      /\ call'[q].pc = "idle"
  BY <1>1 DEF CountInv, Calls
<1>3. faults' \in Nat /\ faults' <= faults /\ faults' <= MaxFaults
  BY <1>1, SubscriptionsAssumption DEF KeyInv
<1>4. ASSUME NEW v \in User
      PROVE  Few(v)'
  <2>1. Authorizing(v)' = Authorizing(v) /\ Makers(v)' \subseteq Makers(v)
    BY <1>1, <1>2 DEF Authorizing, Makers
  <2>2. \A p \in Call, j \in Key : j # call[q].arg /\ Awaits(p, j) => Awaits(p, j)'
    BY <1>2 DEF Awaits
  <2>3. Authorizing(v) \subseteq Key
    BY DEF Authorizing
  <2>4. Strays(v)' \subseteq Strays(v) \cup {call[q].arg}
    BY <1>1, <2>1, <2>2, <2>3 DEF Strays
  <2> QED
    BY <1>1, <1>3, <2>1, <2>4, FewKept
<1>5. Pointing'
  BY <1>1, <1>2 DEF Pointing, KeyInv
<1> QED
  BY <1>1, <1>3, <1>4, <1>5 DEF KeyInv

(* The keys of a step that is none of the four that mint, show or end one.  *)
LEMMA KeysStay ==
  ASSUME NEW q \in Call, Step(q) \/ Kill(q), ~MintKey(q), ~PointKey(q), ~Revoke(q), ~CutKey(q)
  PROVE  key' = key
<1> USE DEF History, Accounts
<1>1. CASE \/ FilesRead(q) \/ UrlRead(q) \/ GitRead(q) \/ PutRow(q)
           \/ EnsureRuntime(q) \/ RecordRuntime(q)
           \/ PutGrantAgain(q) \/ JoinRead(q) \/ Join(q)
  BY <1>1 DEF FilesRead, UrlRead, GitRead, Decide, PutRow, EnsureRuntime, RecordRuntime, PutGrantAgain,
              JoinRead, Join, Subscribe
<1>2. CASE \/ MemberRead(q) \/ AddMember(q) \/ RemoveMember(q)
           \/ ScopeRead(q) \/ Flip(q) \/ TagGrant(q) \/ RebuildRead(q)
  BY <1>2 DEF MemberRead, AddMember, RemoveMember, Subscribe, ScopeRead, Flip, TagGrant,
              RebuildRead
<1>3. CASE \/ DeleteRead(q) \/ Leave(q) \/ CheckCount(q) \/ Disable(q) \/ DeleteRuntime(q)
           \/ ListGrants(q) \/ DropGrant(q) \/ Close(q)
  BY <1>3 DEF DeleteRead, Leave, CheckCount, Disable, DeleteRuntime, ListGrants, DropGrant,
              Close
<1>4. CASE \/ CreateRead(q) \/ RevokeRead(q) \/ Tombstone(q) \/ ListKeys(q) \/ NextGrant(q) \/ Forget(q)
           \/ Kill(q)
  BY <1>4 DEF CreateRead, RevokeRead, Tombstone, ListKeys, NextGrant, Forget, Kill
<1> QED
  BY <1>1, <1>2, <1>3, <1>4 DEF Step, RegisterFiles, RegisterUrl, RegisterGit

(* A call that is to write a pointer does so or is killed.                  *)
LEMMA PointOnly ==
  ASSUME NEW q \in Call, Step(q), call[q].pc = "point"
  PROVE  PointKey(q)
BY DEF Step, At, FilesRead, UrlRead, GitRead, Registers, RegisterFiles, RegisterUrl,
       RegisterGit, PutRow, EnsureRuntime, RecordRuntime, PutGrantAgain, JoinRead, Join, MemberRead,
       AddMember, RemoveMember, DeleteRead, Leave, CheckCount, Disable, DeleteRuntime,
       ListGrants, DropGrant, Close, ScopeRead, Flip, TagGrant, RebuildRead, CreateRead, MintKey,
       RevokeRead, Revoke, Tombstone, ListKeys, CutKey, NextGrant, Forget

LEMMA FaultsFall ==
  ASSUME NEW q \in Call, Step(q) \/ Kill(q)
  PROVE  Fault \/ (faults' = faults /\ ~Kill(q))
<1>1. CASE \/ FilesRead(q) \/ UrlRead(q) \/ GitRead(q) \/ PutRow(q)
           \/ EnsureRuntime(q) \/ RecordRuntime(q)
           \/ PutGrantAgain(q) \/ JoinRead(q) \/ Join(q)
  BY <1>1 DEF FilesRead, UrlRead, GitRead, Decide, PutRow, EnsureRuntime, RecordRuntime, PutGrantAgain,
              JoinRead, Join, Subscribe, Kill
<1>2. CASE \/ MemberRead(q) \/ AddMember(q) \/ RemoveMember(q)
           \/ ScopeRead(q) \/ Flip(q) \/ TagGrant(q) \/ RebuildRead(q)
  BY <1>2 DEF MemberRead, AddMember, RemoveMember, Subscribe, ScopeRead, Flip, TagGrant,
              RebuildRead, Kill
<1>3. CASE \/ DeleteRead(q) \/ Leave(q) \/ CheckCount(q) \/ Disable(q) \/ DeleteRuntime(q)
           \/ ListGrants(q) \/ DropGrant(q) \/ Close(q)
  BY <1>3 DEF DeleteRead, Leave, CheckCount, Disable, DeleteRuntime, ListGrants, DropGrant,
              Close, Kill
<1>4. CASE \/ CreateRead(q) \/ MintKey(q) \/ PointKey(q) \/ RevokeRead(q) \/ Revoke(q)
           \/ ListKeys(q) \/ CutKey(q) \/ NextGrant(q) \/ Tombstone(q) \/ Forget(q)
  BY <1>4 DEF CreateRead, MintKey, PointKey, RevokeRead, Revoke, ListKeys, CutKey, NextGrant,
              Tombstone, Forget, Kill
<1>5. CASE Kill(q)
  BY <1>5 DEF Kill
<1> QED
  BY <1>1, <1>2, <1>3, <1>4, <1>5 DEF Step, RegisterFiles, RegisterUrl, RegisterGit

LEMMA KeyStep ==
  ASSUME CountInv, KeyInv, NEW q \in Call, Step(q) \/ Kill(q), NEW u, u = call[q].user
  PROVE  KeyInv'
<1> USE DEF History, Accounts, At
<1>0. faults' \in Nat /\ faults' <= faults
  <2>1. faults' = faults \/ (faults > 0 /\ faults' = faults - 1)
    BY FaultsFall DEF Fault
  <2> QED
    BY <2>1 DEF KeyInv
<1>6. ASSUME ~Kill(q), ~PointKey(q)
      PROVE  \A p \in Call : call[p].pc = "point" => call'[p] = call[p]
  BY <1>6, PointOnly, Alone DEF CountInv
<1>1. ASSUME ~CreateRead(q), ~MintKey(q)
      PROVE  \A p \in Call : call'[p].pc \in {"mint", "point"} => call'[p] = call[p]
  <2>1. CASE Disable(q) \/ Close(q) \/ EnsureRuntime(q)
    <3>1. CASE Done(q)
      BY <3>1, OneDone DEF CountInv, Marks
    <3>2. CASE Goto(q, "unserve") \/ Goto(q, "record")
      BY <3>2 DEF Goto, CountInv, Calls, CallType
    <3> QED
      BY <2>1, <3>1, <3>2 DEF Disable, Close, EnsureRuntime
  <2>2. CASE ~Disable(q) /\ ~Close(q) /\ ~EnsureRuntime(q)
    <3>1. /\ \A p \in Call : p # q => call'[p] = call[p]
          /\ call'[q].pc \notin Marks
      BY <1>1, <2>2, Elsewhere DEF CountInv
    <3> QED
      BY <3>1 DEF Marks
  <2> QED
    BY <2>1, <2>2
<1>2. ASSUME NEW k \in Key, NEW st \in {"lapsed", "revoked"}, key' = [key EXCEPT ![k].status = st]
      PROVE  /\ key' \in [Key -> KeyRow]
             /\ \A j \in Key :
                  /\ key'[j].owner = key[j].owner /\ key'[j].pointed = key[j].pointed
                  /\ key'[j].status = key[j].status \/ key'[j].status \in {"lapsed", "revoked"}
  BY <1>2 DEF KeyInv, KeyRow
<1>7. CASE Kill(q)
  BY <1>7, KillKeys
<1> SUFFICES ASSUME ~Kill(q), Step(q)
             PROVE  KeyInv'
  BY <1>7
<1>3. CASE Revoke(q)
  <2>1. call[q].arg \in Key /\ ~CreateRead(q) /\ ~MintKey(q) /\ ~PointKey(q)
    BY <1>3 DEF Revoke, CreateRead, MintKey, PointKey, CountInv, Calls, Fits
  <2> QED
    BY <1>0, <1>1, <1>2, <1>3, <1>6, <2>1, KeysKept DEF Revoke, CountInv
<1>4. CASE CutKey(q)
  <2>1. ~CreateRead(q) /\ ~MintKey(q) /\ ~PointKey(q)
    BY <1>4 DEF CutKey, CreateRead, MintKey, PointKey
  <2>2. CASE key' = key
    BY <1>0, <1>1, <1>6, <2>1, <2>2, KeysKept DEF CountInv, KeyInv
  <2>3. ASSUME NEW k \in call[q].todo, key' = [key EXCEPT ![k].status = "revoked"]
        PROVE  KeyInv'
    <3>1. CASE k \in Key
      BY <1>0, <1>1, <1>2, <1>6, <2>1, <2>3, <3>1, KeysKept DEF CountInv
    <3>2. CASE k \notin Key
      <4>1. key' = key
        BY <2>3, <3>2 DEF KeyInv
      <4> QED
        BY <2>2, <4>1
    <3> QED
      BY <3>1, <3>2
  <2> QED
    BY <1>4, <2>2, <2>3 DEF CutKey
<1>5. CASE ~MintKey(q) /\ ~PointKey(q) /\ ~CreateRead(q) /\ ~Revoke(q) /\ ~CutKey(q)
  <2>1. key' = key
    BY <1>5, KeysStay
  <2> QED
    BY <1>0, <1>1, <1>5, <1>6, <2>1, KeysKept DEF CountInv, KeyInv
<1> QED
  BY <1>3, <1>4, <1>5, CreateReadKeys, MintKeyKeys, PointKeyKeys

LEMMA KeyNext ==
  ASSUME CountInv, KeyInv, [Next]_vars
  PROVE  KeyInv'
<1>1. ASSUME NEW q \in Call, Step(q) \/ Kill(q)
      PROVE  KeyInv'
  BY <1>1, KeyStep
<1>2. ASSUME NEW q \in Call, NEW u \in User, Enter(q, u) \/ EnterOffboard(q, u)
      PROVE  KeyInv'
  <2>1. key' = key
    BY <1>2 DEF Enter, EnterOffboard, Begin
  <2>2. /\ \A p \in Call : p # q => call'[p] = call[p]
        /\ call'[q].pc \in {"read", "tombstone"}
    BY <1>2, IdleFits DEF Enter, EnterOffboard, Begin, CountInv, Calls, CallType
  <2>3. \A p \in Call : call'[p].pc \in {"mint", "point"} => call'[p] = call[p]
    BY <2>2
  <2>4. \A p \in Call : call[p].pc = "point" => call'[p] = call[p]
    <3>1. call[q] = Idle /\ Idle.pc = "idle"
      BY <1>2 DEF Enter, EnterOffboard, Begin, Idle
    <3> QED
      BY <2>2, <3>1
  <2>5. faults' \in Nat /\ faults' <= faults
    BY <1>2 DEF Enter, EnterOffboard, Fault, KeyInv
  <2> QED
    BY <2>1, <2>3, <2>4, <2>5, KeysKept DEF CountInv, KeyInv
<1>3. ASSUME NEW k \in Key, Lapse(k)
      PROVE  KeyInv'
  <2>1. /\ key' \in [Key -> KeyRow]
        /\ \A j \in Key :
             /\ key'[j].owner = key[j].owner /\ key'[j].pointed = key[j].pointed
             /\ key'[j].status = key[j].status \/ key'[j].status \in {"lapsed", "revoked"}
    BY <1>3 DEF Lapse, KeyInv, KeyRow
  <2>2. call' = call /\ faults' \in Nat /\ faults' <= faults
    BY <1>3 DEF Lapse, KeyInv
  <2> QED
    BY <2>1, <2>2, KeysKept DEF CountInv
<1>4. CASE UNCHANGED vars
  BY <1>4, KeysKept DEF vars, CountInv, KeyInv
<1> QED
  BY <1>1, <1>2, <1>3, <1>4 DEF Next

LEMMA KeyInit == Init => KeyInv
<1> SUFFICES ASSUME Init PROVE KeyInv
  OBVIOUS
<1>1. /\ key \in [Key -> KeyRow] /\ Pointing
      /\ faults \in Nat /\ faults = MaxFaults /\ MaxFaults \in Nat
  BY SubscriptionsAssumption DEF Init, KeyRow, Pointing, Idle
<1>2. ASSUME NEW u \in User
      PROVE  Authorizing(u) = {} /\ Strays(u) = {} /\ Makers(u) = {}
  BY DEF Init, Authorizing, Strays, Makers, Idle
<1>3. Cardinality(Call) \in Nat
  BY SubscriptionsAssumption, FS_CardinalityType
<1>4. ASSUME NEW u \in User
      PROVE  Few(u)
  <2>1. IsFiniteSet({}) /\ Cardinality({}) = 0
    BY FS_EmptySet
  <2>2. /\ IsFiniteSet(Authorizing(u)) /\ Cardinality(Authorizing(u)) = 0
        /\ Cardinality(Strays(u)) = 0 /\ Cardinality(Makers(u)) = 0
    BY <1>2, <2>1, Zenon
  <2> HIDE DEF Authorizing, Strays, Makers
  <2> QED
    BY <1>1, <1>3, <2>2, SubscriptionsAssumption DEF Few
<1> QED
  BY <1>1, <1>4 DEF KeyInv

(* Creations that overlap exceed MAX_ACTIVE_KEYS by less than the number of *)
(* invocations, and by one key more for each call that was killed, the keys *)
(* a killed creation left without their pointer counted, however keys lapse *)
(* and are revoked (create_key counts, then writes the key, then its        *)
(* pointer).                                                                *)
THEOREM KeysBounded == Spec => []ActiveKeysBounded
<1>1. CountInv /\ KeyInv /\ [Next]_vars => CountInv' /\ KeyInv'
  BY CountNext, KeyNext
<1>2. KeyInv => ActiveKeysBounded
  <2> SUFFICES ASSUME KeyInv, NEW u \in User
               PROVE  Cardinality(Authorizing(u)) < MaxActiveKeys + Cardinality(Call) + (MaxFaults - faults)
    BY DEF ActiveKeysBounded
  <2>1. /\ IsFiniteSet(Authorizing(u)) /\ Cardinality(Authorizing(u)) \in Nat
        /\ Makers(u) \in SUBSET Call
        /\ Cardinality(Authorizing(u)) + Cardinality(Makers(u))
             <= MaxActiveKeys - 1 + Cardinality(Call) + (MaxFaults - faults)
        /\ faults \in Nat
    BY FS_CardinalityType DEF KeyInv, Few, Makers
  <2>2. Cardinality(Makers(u)) \in Nat /\ Cardinality(Call) \in Nat
    BY <2>1, CallsFinite
  <2> HIDE DEF Authorizing, Makers
  <2> QED
    BY <2>1, <2>2, SubscriptionsAssumption
<1> QED
  BY <1>1, <1>2, CountInit, KeyInit, PTL DEF Spec

-----------------------------------------------------------------------------
(* The offboarding.  While a deleted user has no call under way that passed *)
(* the tombstone, their keys and grants only get fewer, and each that still *)
(* counts is ahead of every offboarding of that user.                       *)
Held(u, k) == key[k].owner = u /\ key[k].pointed /\ key[k].status = "active"
Own(u, s) ==
  grant[<<u, s>>] # None /\ grant[<<u, s>>].listed /\ grant[<<u, s>>].scope # "member"

Offboards(q, u) == call[q].op = "offboard" /\ call[q].user = u
OffPc == {"tombstone", "keys", "cut", "grants", "next", "leave", "check", "disable",
          "unserve", "list", "drop", "close", "forget"}

KeyAhead(c, k) == c.pc \in {"tombstone", "keys"} \/ (c.pc = "cut" /\ k \in c.todo)
GrantAhead(c, s) ==
  \/ c.pc \in Before \/ s \in c.todo
  \/ c.src = s /\ (c.pc \in {"next", "list", "leave"} \/ (c.pc = "drop" /\ c.user \in c.listing))

Marking ==
  /\ deleted \subseteq User /\ gone \subseteq deleted
  /\ \A q \in Call : call[q].op = "offboard" =>
       /\ call[q].pc \in OffPc
       /\ call[q].pc # "tombstone" => call[q].user \in deleted
       /\ call[q].pc = "forget" => call[q].todo = {}
  /\ \A u \in deleted \ strayed : ~InFlight(u)

(* A row outlives its grants, and the calls that are about to write one.    *)
Rooted ==
  /\ \A u \in User, s \in Source : grant[<<u, s>>] # None => row[s].here
  /\ \A q \in Call : call[q].pc \in {"regrant", "flip", "tag"} => row[call[q].src].here

KeysAhead ==
  \A u \in deleted \ strayed, k \in Key : Held(u, k) =>
    u \notin gone /\ \A q \in Call : Offboards(q, u) => KeyAhead(call[q], k)

GrantsAhead ==
  \A u \in deleted \ strayed, s \in Source : Own(u, s) =>
    u \notin gone /\ \A q \in Call : Offboards(q, u) => GrantAhead(call[q], s)

OffInv == Marking /\ Rooted /\ KeysAhead /\ GrantsAhead

(* A step keeps the request and the user of its call, or ends the call.     *)
LEMMA SameCall ==
  ASSUME Calls, NEW q \in Call, Step(q) \/ Kill(q)
  PROVE  /\ call[q] # Idle
         /\ \/ call'[q] = Idle
            \/ call'[q].op = call[q].op /\ call'[q].user = call[q].user
<1> USE DEF At
<1>1. ASSUME Done(q) \/ \E pc : Goto(q, pc)
      PROVE  \/ call'[q] = Idle
             \/ call'[q].op = call[q].op /\ call'[q].user = call[q].user
  BY <1>1 DEF Done, Goto, Calls, CallType
<1>2. Idle.pc = "idle"
  BY DEF Idle
<1>3. CASE \/ FilesRead(q) \/ UrlRead(q) \/ GitRead(q) \/ PutRow(q) \/ EnsureRuntime(q) \/ RecordRuntime(q)
           \/ PutGrantAgain(q) \/ JoinRead(q) \/ Join(q) \/ MemberRead(q) \/ AddMember(q)
           \/ RemoveMember(q)
  BY <1>1, <1>2, <1>3 DEF FilesRead, UrlRead, GitRead, Registers, Decide, PutRow,
     EnsureRuntime, RecordRuntime, PutGrantAgain, JoinRead, Join, MemberRead, AddMember, RemoveMember, Subscribe
<1>4. CASE \/ DeleteRead(q) \/ Leave(q) \/ CheckCount(q) \/ Disable(q) \/ DeleteRuntime(q)
           \/ Close(q) \/ ScopeRead(q) \/ Flip(q) \/ TagGrant(q) \/ RebuildRead(q)
  BY <1>1, <1>2, <1>4 DEF DeleteRead, Leave, CheckCount, Disable, DeleteRuntime, Close,
     ScopeRead, Flip, TagGrant, RebuildRead
<1>5. CASE \/ CreateRead(q) \/ PointKey(q) \/ RevokeRead(q) \/ Revoke(q) \/ Tombstone(q)
  BY <1>1, <1>2, <1>5 DEF CreateRead, PointKey, RevokeRead, Revoke, Tombstone
<1>6. CASE ListGrants(q) \/ DropGrant(q)
  BY <1>1, <1>2, <1>6 DEF ListGrants, DropGrant, Calls, CallType
<1>7. CASE MintKey(q) \/ ListKeys(q) \/ CutKey(q)
  BY <1>2, <1>7 DEF MintKey, ListKeys, CutKey, Calls, CallType
<1>8. CASE NextGrant(q)
  <2>1. ASSUME NEW s \in call[q].todo,
               call' = [call EXCEPT ![q].pc = "next", ![q].src = s, ![q].todo = @ \ {s}]
        PROVE  call'[q].op = call[q].op /\ call'[q].user = call[q].user
    BY <2>1 DEF Calls, CallType
  <2> QED
    BY <1>1, <1>2, <1>8, <2>1 DEF NextGrant
<1>9. CASE Forget(q) \/ Kill(q)
  BY <1>2, <1>9 DEF Forget, Kill, Calls
<1> QED
  BY <1>3, <1>4, <1>5, <1>6, <1>7, <1>8, <1>9 DEF Step, RegisterFiles, RegisterUrl, RegisterGit

(* The keys a user holds only get fewer without a call of the user's own.   *)
LEMMA HeldShrinks ==
  ASSUME CountInv, KeyInv, NEW q \in Call, Step(q) \/ Kill(q), NEW u \in User, ~InFlight(u),
         NEW k \in Key, Held(u, k)'
  PROVE  Held(u, k)
<1> USE DEF At
<1>1. ASSUME NEW j \in Key, NEW st, key' = [key EXCEPT ![j].status = st], st # "active"
      PROVE  Held(u, k)
  BY <1>1 DEF Held, KeyInv, KeyRow
<1>2. ASSUME call[q].op # "offboard", call[q] # Idle
      PROVE  call[q].user # u
  BY <1>2 DEF InFlight
<1>3. call[q] # Idle
  BY SameCall DEF CountInv
<1>4. CASE MintKey(q)
  <2>1. call[q].op = "create"
    BY <1>4 DEF MintKey, CountInv, Calls, Fits
  <2> QED
    BY <1>2, <1>3, <1>4, <2>1 DEF MintKey, Held, KeyInv, KeyRow
<1>5. CASE PointKey(q)
  <2>1. call[q].op = "create" /\ call[q].arg \in Key /\ key[call[q].arg].owner = call[q].user
    BY <1>5 DEF PointKey, CountInv, Calls, Fits, KeyInv, Pointing
  <2> QED
    BY <1>2, <1>3, <1>5, <2>1 DEF PointKey, Held, KeyInv, KeyRow
<1>6. CASE Revoke(q)
  BY <1>1, <1>6 DEF Revoke, CountInv, Calls, Fits
<1>7. CASE CutKey(q)
  <2>1. key' = key \/ \E j \in Key : key' = [key EXCEPT ![j].status = "revoked"]
    BY <1>7 DEF CutKey, KeyInv
  <2> QED
    BY <1>1, <2>1 DEF Held
<1> QED
  BY <1>4, <1>5, <1>6, <1>7, KeysStay DEF Held

(* The grants of a step that writes none, and the rows of one that writes   *)
(* none.                                                                    *)
LEMMA GrantsStay ==
  ASSUME NEW q \in Call, Step(q) \/ Kill(q), ~PutRow(q), ~PutGrantAgain(q), ~Join(q),
         ~AddMember(q), ~RemoveMember(q), ~Leave(q), ~DropGrant(q), ~TagGrant(q)
  PROVE  grant' = grant
<1>1. CASE \/ FilesRead(q) \/ UrlRead(q) \/ GitRead(q) \/ EnsureRuntime(q) \/ RecordRuntime(q)
           \/ JoinRead(q) \/ MemberRead(q) \/ ScopeRead(q) \/ Flip(q) \/ RebuildRead(q)
  BY <1>1 DEF FilesRead, UrlRead, GitRead, Decide, EnsureRuntime, RecordRuntime, JoinRead, MemberRead,
     ScopeRead, Flip, RebuildRead
<1>2. CASE \/ DeleteRead(q) \/ CheckCount(q) \/ Disable(q) \/ DeleteRuntime(q)
           \/ ListGrants(q) \/ Close(q)
  BY <1>2 DEF DeleteRead, CheckCount, Disable, DeleteRuntime, ListGrants, Close
<1>3. CASE \/ CreateRead(q) \/ MintKey(q) \/ PointKey(q) \/ RevokeRead(q) \/ Revoke(q)
           \/ Tombstone(q) \/ ListKeys(q) \/ CutKey(q) \/ NextGrant(q) \/ Forget(q)
           \/ Kill(q)
  BY <1>3 DEF CreateRead, MintKey, PointKey, RevokeRead, Revoke, Tombstone, ListKeys, CutKey,
     NextGrant, Forget, Kill
<1> QED
  BY <1>1, <1>2, <1>3 DEF Step, RegisterFiles, RegisterUrl, RegisterGit

(* What a write to a grant does to the own grants of a user.                *)
LEMMA OwnSet ==
  ASSUME Tables, NEW w, NEW r, NEW x, grant' = [grant EXCEPT ![<<w, r>>] = x],
         NEW u \in User, NEW s \in Source,
         u = w /\ s = r => x = None \/ ~x.listed \/ x.scope = "member"
  PROVE  Own(u, s)' => Own(u, s)
<1>1. grant'[<<u, s>>] = IF u = w /\ s = r THEN x ELSE grant[<<u, s>>]
  BY DEF Tables
<1> QED
  BY <1>1 DEF Own

LEMMA OwnShrinks ==
  ASSUME CountInv, NEW q \in Call, Step(q) \/ Kill(q), NEW u \in User, ~InFlight(u),
         call[q].op = "offboard" => call[q].pc \in OffPc, NEW s \in Source
  PROVE  Own(u, s)' => Own(u, s)
<1> USE DEF At
<1>1. call[q].op # "offboard" => call[q].user # u
  BY SameCall DEF InFlight, CountInv
<1>2. CASE PutRow(q)
  <2>1. call[q].user # u
    BY <1>1, <1>2 DEF PutRow, CountInv, Calls, Fits
  <2> QED
    BY <1>2, <2>1, OwnSet DEF PutRow, CountInv, Own
<1>3. CASE PutGrantAgain(q) \/ TagGrant(q)
  <2>1. call[q].user # u
    BY <1>1, <1>3 DEF PutGrantAgain, TagGrant, CountInv, Calls, Fits
  <2>2. PICK x : grant' = [grant EXCEPT ![<<call[q].user, call[q].src>>] = x]
    BY <1>3 DEF PutGrantAgain, TagGrant
  <2>3. grant'[<<u, s>>] = grant[<<u, s>>]
    BY <2>1, <2>2 DEF CountInv, Tables
  <2> QED
    BY <2>3 DEF Own
<1>4. CASE Join(q)
  <2>1. call[q].user # u
    BY <1>1, <1>4 DEF Join, OffPc
  <2> QED
    BY <1>4, <2>1, OwnSet DEF Join, Subscribe, CountInv, Own
<1>5. CASE AddMember(q)
  BY <1>5, OwnSet DEF AddMember, Subscribe, Put, CountInv, Own
<1>6. CASE RemoveMember(q) \/ Leave(q) \/ DropGrant(q)
  <2>1. ASSUME NEW w, NEW r, grant' = [grant EXCEPT ![<<w, r>>] = None]
        PROVE  Own(u, s)' => Own(u, s)
    BY <2>1, OwnSet DEF CountInv
  <2>2. CASE grant' = grant
    BY <2>2 DEF Own
  <2> QED
    BY <1>6, <2>1, <2>2 DEF RemoveMember, Leave, DropGrant
<1> QED
  BY <1>2, <1>3, <1>4, <1>5, <1>6, GrantsStay DEF Own

(* A registry row that is there stays.                                      *)
LEMMA HereStays ==
  ASSUME CountInv, NEW q \in Call, Step(q) \/ Kill(q), NEW s \in Source, row[s].here
  PROVE  row'[s].here
<1> USE DEF At, History
<1>1. row[s] \in Row
  BY DEF CountInv, Tables
<1>2. CASE PutRow(q)
  BY <1>2 DEF PutRow, Registered, CountInv, Tables
<1>3. CASE \/ EnsureRuntime(q) \/ RecordRuntime(q) \/ Disable(q) \/ Flip(q) \/ RemoveMember(q)
           \/ Leave(q)
  BY <1>1, <1>3 DEF EnsureRuntime, RecordRuntime, Disable, Flip, RemoveMember, Leave, CountInv, Tables, Row
<1>4. CASE Join(q) \/ AddMember(q)
  BY <1>1, <1>4 DEF Join, AddMember, Subscribe, CountInv, Tables, Row
<1>5. CASE Close(q)
  <2>1. Closed(row[s]).here
    BY <1>1 DEF Closed, Row
  <2> QED
    BY <1>5, <2>1 DEF Close, CountInv, Tables
<1>6. CASE \/ FilesRead(q) \/ UrlRead(q) \/ GitRead(q) \/ PutGrantAgain(q) \/ JoinRead(q)
           \/ MemberRead(q) \/ DeleteRead(q) \/ CheckCount(q) \/ DeleteRuntime(q)
           \/ ListGrants(q) \/ DropGrant(q) \/ ScopeRead(q) \/ TagGrant(q) \/ RebuildRead(q)
  BY <1>6 DEF FilesRead, UrlRead, GitRead, Decide, PutGrantAgain, JoinRead, MemberRead,
     DeleteRead, CheckCount, DeleteRuntime, ListGrants, DropGrant, ScopeRead, TagGrant, RebuildRead
<1>7. CASE \/ CreateRead(q) \/ MintKey(q) \/ PointKey(q) \/ RevokeRead(q) \/ Revoke(q)
           \/ Tombstone(q) \/ ListKeys(q) \/ CutKey(q) \/ NextGrant(q) \/ Forget(q)
           \/ Kill(q)
  BY <1>7 DEF CreateRead, MintKey, PointKey, RevokeRead, Revoke, Tombstone, ListKeys, CutKey,
     NextGrant, Forget, Kill
<1> QED
  BY <1>2, <1>3, <1>4, <1>5, <1>6, <1>7 DEF Step, RegisterFiles, RegisterUrl, RegisterGit

(* Which steps lead to a write of a grant that another call may precede.    *)
Writes == {"regrant", "flip", "tag"}

LEMMA LeadsToWrite ==
  ASSUME CountInv, NEW q \in Call, Step(q) \/ Kill(q), call'[q].pc \in Writes
  PROVE  /\ call'[q].src = call[q].src
         /\ call[q].src \in Source
         /\ Enabled(call[q].src) \/ call[q].pc = "flip"
<1> USE DEF At, Writes
<1> DEFINE Goal == /\ call'[q].src = call[q].src
                   /\ call[q].src \in Source
                   /\ Enabled(call[q].src) \/ call[q].pc = "flip"
<1>1. ASSUME Done(q)
      PROVE  FALSE
  BY <1>1 DEF Done, Goto, Idle, CountInv, Calls, CallType
<1>2. ASSUME NEW pc, Goto(q, pc), pc \notin Writes
      PROVE  FALSE
  BY <1>2 DEF Goto, CountInv, Calls, CallType
<1>3. ASSUME NEW pc, Goto(q, pc)
      PROVE  call'[q].src = call[q].src
  BY <1>3 DEF Goto, CountInv, Calls, CallType
<1>4. CASE FilesRead(q) \/ UrlRead(q) \/ GitRead(q)
  <2>1. call[q].src \in Source
    BY <1>4 DEF FilesRead, UrlRead, GitRead, Registers, CountInv, Calls, Fits
  <2>2. ASSUME NEW admits, NEW again, Decide(q, admits, again)
        PROVE  Goal
    BY <1>1, <1>2, <1>3, <2>1, <2>2 DEF Decide
  <2> QED
    BY <1>4, <2>2 DEF FilesRead, UrlRead, GitRead
<1>5. CASE PutRow(q) \/ EnsureRuntime(q) \/ RecordRuntime(q)
           \/ PutGrantAgain(q) \/ JoinRead(q) \/ Join(q)
  BY <1>1, <1>2, <1>5 DEF PutRow, EnsureRuntime, RecordRuntime, PutGrantAgain, JoinRead, Join, Subscribe
<1>6. CASE MemberRead(q) \/ AddMember(q) \/ RemoveMember(q)
  BY <1>1, <1>2, <1>6 DEF MemberRead, AddMember, RemoveMember, Subscribe
<1>7. CASE DeleteRead(q) \/ Leave(q) \/ CheckCount(q) \/ Disable(q) \/ DeleteRuntime(q) \/ Close(q)
  BY <1>1, <1>2, <1>7 DEF DeleteRead, Leave, CheckCount, Disable, DeleteRuntime, Close
<1>8. CASE ScopeRead(q) \/ Flip(q)
  <2>1. call[q].src \in Source
    BY <1>8 DEF ScopeRead, Flip, OnSource, CountInv, Calls, Fits
  <2> QED
    BY <1>1, <1>3, <1>8, <2>1 DEF ScopeRead, Flip, Owned
<1>9. CASE TagGrant(q) \/ RebuildRead(q)
  BY <1>1, <1>2, <1>9 DEF TagGrant, RebuildRead
<1>10. CASE \/ CreateRead(q) \/ PointKey(q) \/ RevokeRead(q) \/ Revoke(q) \/ Tombstone(q)
  BY <1>1, <1>2, <1>10 DEF CreateRead, PointKey, RevokeRead, Revoke, Tombstone
<1>11. CASE ListGrants(q) \/ DropGrant(q)
  BY <1>2, <1>11 DEF ListGrants, DropGrant, CountInv, Calls, CallType
<1>12. CASE MintKey(q) \/ ListKeys(q) \/ CutKey(q)
  BY <1>12 DEF MintKey, ListKeys, CutKey, CountInv, Calls, CallType
<1>13. CASE NextGrant(q)
  <2>1. ASSUME NEW s \in call[q].todo,
               call' = [call EXCEPT ![q].pc = "next", ![q].src = s, ![q].todo = @ \ {s}]
        PROVE  FALSE
    BY <2>1 DEF CountInv, Calls, CallType
  <2> QED
    BY <1>2, <1>13, <2>1 DEF NextGrant
<1>14. CASE Forget(q) \/ Kill(q)
  BY <1>14 DEF Forget, Kill, Idle, CountInv, Calls
<1> QED
  BY <1>4, <1>5, <1>6, <1>7, <1>8, <1>9, <1>10, <1>11, <1>12, <1>13, <1>14
     DEF Step, RegisterFiles, RegisterUrl, RegisterGit

(* A write to a grant of a source that is there.                            *)
LEMMA RootedSet ==
  ASSUME CountInv, Rooted, NEW w, NEW r, NEW x, grant' = [grant EXCEPT ![<<w, r>>] = x],
         x = None \/ (r \in Source => row'[r].here),
         \A s \in Source : row[s].here => row'[s].here
  PROVE  \A u \in User, s \in Source : grant'[<<u, s>>] # None => row'[s].here
<1>1. \A u \in User, s \in Source :
        grant'[<<u, s>>] = IF u = w /\ s = r THEN x ELSE grant[<<u, s>>]
  BY DEF CountInv, Tables
<1> QED
  BY <1>1 DEF Rooted

LEMMA RootedStep ==
  ASSUME CountInv, Rooted, NEW q \in Call, Step(q) \/ Kill(q)
  PROVE  Rooted'
<1> USE DEF At
<1>1. \A s \in Source : row[s].here => row'[s].here
  BY HereStays
<1>2. ASSUME NEW p \in Call, call'[p].pc \in Writes
      PROVE  row'[call'[p].src].here
  <2>1. CASE p # q
    <3>1. call'[p] = call[p] /\ call[p].src \in Source
      BY <1>2, <2>1, Alone DEF CountInv, Calls, Fits, OnSource, Writes
    <3> QED
      BY <1>1, <1>2, <3>1 DEF Rooted, Writes
  <2>2. CASE p = q
    BY <1>1, <1>2, <2>2, LeadsToWrite DEF Rooted, Enabled
  <2> QED
    BY <2>1, <2>2
<1> DEFINE Goal == \A u \in User, s \in Source : grant'[<<u, s>>] # None => row'[s].here
<1>3. ASSUME NEW w, NEW r \in Source, NEW x, grant' = [grant EXCEPT ![<<w, r>>] = x], row[r].here
      PROVE  Goal
  BY <1>1, <1>3, RootedSet
<1>4. ASSUME grant' = grant
      PROVE  Goal
  BY <1>1, <1>4 DEF Rooted
<1>5. ASSUME PutRow(q)
      PROVE  Goal
  <2>1. ASSUME Vacant(q), row' = [row EXCEPT ![call[q].src] = Registered(call[q].user, call[q].src, call[q].arg)],
               grant' = [grant EXCEPT ![<<call[q].user, call[q].src>>] = Put(call[q].arg)]
        PROVE  Goal
    <3>1. call[q].src \in Source => row'[call[q].src].here
      BY <2>1 DEF CountInv, Tables, Registered
    <3> QED
      BY <1>1, <2>1, <3>1, RootedSet
  <2> QED
    BY <1>4, <1>5, <2>1 DEF PutRow
<1>6. ASSUME PutGrantAgain(q) \/ TagGrant(q)
      PROVE  Goal
  <2>1. call[q].src \in Source /\ row[call[q].src].here
    BY <1>6 DEF PutGrantAgain, TagGrant, Rooted, CountInv, Calls, Fits, OnSource
  <2>2. PICK x : grant' = [grant EXCEPT ![<<call[q].user, call[q].src>>] = x]
    BY <1>6 DEF PutGrantAgain, TagGrant
  <2> QED
    BY <1>3, <2>1, <2>2
<1>7. ASSUME Join(q) \/ AddMember(q)
      PROVE  Goal
  <2>1. call[q].src \in Source
    BY <1>7 DEF Join, AddMember, CountInv, Calls, Fits, OnSource
  <2>2. ASSUME NEW w, NEW scope, NEW admits, Subscribe(q, w, call[q].src, scope, admits)
        PROVE  Goal
    BY <1>3, <1>4, <2>1, <2>2 DEF Subscribe, Enabled
  <2> QED
    BY <1>7, <2>2 DEF Join, AddMember
<1>8. ASSUME RemoveMember(q) \/ Leave(q) \/ DropGrant(q)
      PROVE  Goal
  <2>1. ASSUME NEW w, NEW r, grant' = [grant EXCEPT ![<<w, r>>] = None]
        PROVE  Goal
    BY <1>1, <2>1, RootedSet
  <2> QED
    BY <1>4, <1>8, <2>1 DEF RemoveMember, Leave, DropGrant
<1>9. Goal
  BY <1>4, <1>5, <1>6, <1>7, <1>8, GrantsStay
<1> QED
  BY <1>2, <1>9 DEF Rooted, Writes

(* An offboarding passes no key and no grant that still counts.             *)
LEMMA OffMoves ==
  ASSUME CountInv, key \in [Key -> KeyRow], Rooted, NEW q \in Call, Step(q) \/ Kill(q), ~Tombstone(q),
         NEW u \in User, call[q].user = u, call[q].op = "offboard", call[q].pc \in OffPc,
         call'[q].op = "offboard"
  PROVE  /\ call[q].pc # "tombstone" /\ call'[q].pc \in OffPc
         /\ call'[q].pc = "forget" => call'[q].todo = {}
         /\ \A k \in Key : KeyAhead(call[q], k) /\ Held(u, k)' => KeyAhead(call'[q], k)
         /\ \A s \in Source :
              GrantAhead(call[q], s) /\ Own(u, s)' => GrantAhead(call'[q], s)
<1> USE DEF At
<1> DEFINE c == call[q]
           d == call'[q]
           Keeps == /\ c.pc # "tombstone" /\ d.pc \in OffPc /\ (d.pc = "forget" => d.todo = {})
                    /\ \A k \in Key : KeyAhead(c, k) /\ Held(u, k)' => KeyAhead(d, k)
                    /\ \A s \in Source : GrantAhead(c, s) /\ Own(u, s)' => GrantAhead(d, s)
<1>1. /\ c \in CallType
      /\ c.pc \notin Before => c.todo \subseteq Source
      /\ c.pc \in OnSource => c.src \in Source
  BY DEF CountInv, Calls, Fits
<1>2. ASSUME NEW pc \in OffPc \ Before, Goto(q, pc),
             \A s \in Source : GrantAhead(c, s) /\ Own(u, s)' =>
               s \in c.todo \/ (c.src = s /\ pc \in {"next", "list", "leave"}),
             c.pc \notin {"tombstone", "keys", "cut"},
             pc = "forget" => c.todo = {}
      PROVE  Keeps
  <2>1. /\ d.pc = pc /\ d.todo = c.todo /\ d.src = c.src /\ d.user = c.user
        /\ d.listing = c.listing
    BY <1>2 DEF Goto, CountInv, Calls, CallType
  <2> QED
    BY <1>2, <2>1 DEF KeyAhead, GrantAhead
<1>3. Done(q) => Goto(q, "grants")
  BY DEF Done
<1>4. CASE ListKeys(q)
  <2>1. d.pc = "cut" /\ d.todo = {k \in Key : key[k].owner = u /\ key[k].pointed} /\ key' = key
    BY <1>4 DEF ListKeys, Accounts, CountInv, Calls, CallType
  <2> QED
    BY <1>4, <2>1 DEF ListKeys, KeyAhead, GrantAhead, Held, Before, OffPc
<1>5. CASE CutKey(q)
  <2>1. ASSUME NEW j \in c.todo,
               key' = IF key[j].status = "active" THEN [key EXCEPT ![j].status = "revoked"] ELSE key,
               call' = [call EXCEPT ![q].todo = @ \ {j}]
        PROVE  Keeps
    <3>1. d.pc = "cut" /\ d.todo = c.todo \ {j}
      BY <1>5, <2>1 DEF CutKey, CountInv, Calls, CallType
    <3>2. j \in Key => ~Held(u, j)'
      BY <2>1 DEF Held, KeyRow
    <3>3. c.pc = "cut"
      BY <1>5 DEF CutKey
    <3> QED
      BY <3>1, <3>2, <3>3 DEF KeyAhead, GrantAhead, Before, OffPc
  <2>2. ASSUME c.todo = {},
               call' = [call EXCEPT ![q].pc = "grants", ![q].todo = {s \in Source : grant[<<u, s>>] # None}]
        PROVE  Keeps
    <3>1. d.pc = "grants" /\ d.todo = {s \in Source : grant[<<u, s>>] # None} /\ grant' = grant
      BY <1>5, <2>2 DEF CutKey, CountInv, Calls, CallType
    <3>2. c.pc = "cut"
      BY <1>5 DEF CutKey
    <3> QED
      BY <2>2, <3>1, <3>2 DEF KeyAhead, GrantAhead, Own, OffPc
  <2> QED
    BY <1>5, <2>1, <2>2 DEF CutKey
<1>6. CASE NextGrant(q)
  <2>1. c.pc = "grants"
    BY <1>6 DEF NextGrant
  <2>2. ASSUME NEW r \in c.todo,
               call' = [call EXCEPT ![q].pc = "next", ![q].src = r, ![q].todo = @ \ {r}]
        PROVE  Keeps
    <3>1. d.pc = "next" /\ d.src = r /\ d.todo = c.todo \ {r}
      BY <2>2 DEF CountInv, Calls, CallType
    <3> QED
      BY <2>1, <3>1 DEF KeyAhead, GrantAhead, Before, OffPc
  <2>3. CASE c.todo = {} /\ Goto(q, "forget")
    BY <1>2, <2>1, <2>3 DEF GrantAhead, Before, OffPc
  <2> QED
    BY <1>6, <2>2, <2>3 DEF NextGrant
<1>7. CASE DeleteRead(q)
  <2>1. c.pc = "next" /\ (Goto(q, "list") \/ Goto(q, "leave"))
    BY <1>7 DEF DeleteRead, OffPc
  <2> QED
    BY <1>2, <2>1 DEF GrantAhead, Before, OffPc
<1>8. CASE Leave(q)
  <2>1. c.pc = "leave" /\ c.src \in Source
    BY <1>1, <1>8 DEF Leave, OnSource
  <2>2. ASSUME NEW s \in Source, s = c.src
        PROVE  ~Own(u, s)'
    <3>1. CASE Leaves(u, c.src)
      <4>1. grant' = [grant EXCEPT ![<<u, c.src>>] = None]
        BY <1>8, <3>1 DEF Leave
      <4>2. grant'[<<u, s>>] = None
        BY <2>1, <2>2, <4>1 DEF CountInv, Tables
      <4> QED
        BY <4>2 DEF Own
    <3>2. CASE ~Leaves(u, c.src)
      <4>1. grant' = grant
        BY <1>8, <3>2 DEF Leave
      <4> QED
        BY <2>1, <2>2, <3>2, <4>1 DEF Leaves, Own, Rooted
    <3> QED
      BY <3>1, <3>2
  <2>3. Goto(q, "check") \/ Goto(q, "grants")
    BY <1>3, <1>8 DEF Leave
  <2>4. \A s \in Source : GrantAhead(c, s) /\ Own(u, s)' => s \in c.todo
    BY <2>1, <2>2 DEF GrantAhead, Before
  <2>5. \A pc \in {"check", "grants"} : pc \in OffPc \ Before /\ pc # "forget"
    BY DEF OffPc, Before
  <2> QED
    BY <1>2, <2>1, <2>3, <2>4, <2>5
<1>9. CASE CheckCount(q) \/ Disable(q) \/ DeleteRuntime(q) \/ Close(q)
  <2>1. c.pc \in {"check", "disable", "unserve", "close"}
    BY <1>9 DEF CheckCount, Disable, DeleteRuntime, Close
  <2>2. Goto(q, "disable") \/ Goto(q, "unserve") \/ Goto(q, "grants")
    BY <1>3, <1>9 DEF CheckCount, Disable, DeleteRuntime, Close
  <2> QED
    BY <1>2, <2>1, <2>2 DEF GrantAhead, Before, OffPc
<1>10. CASE ListGrants(q)
  <2>1. /\ c.pc = "list" /\ d.pc = "drop" /\ d.src = c.src /\ d.todo = c.todo /\ d.user = u
        /\ d.listing = {w \in Subscribers(c.src) : grant[<<w, c.src>>].listed}
        /\ grant' = grant
    BY <1>10 DEF ListGrants, CountInv, Calls, CallType
  <2>2. Own(u, c.src)' => u \in d.listing
    BY <1>1, <2>1 DEF Own, Subscribers
  <2> QED
    BY <2>1, <2>2 DEF KeyAhead, GrantAhead, Before, OffPc
<1>11. CASE DropGrant(q)
  <2>1. c.pc = "drop" /\ c.src \in Source
    BY <1>1, <1>11 DEF DropGrant, OnSource
  <2>2. ASSUME NEW w \in c.listing, grant' = [grant EXCEPT ![<<w, c.src>>] = None],
               call' = [call EXCEPT ![q].listing = @ \ {w}]
        PROVE  Keeps
    <3>1. /\ d.pc = "drop" /\ d.src = c.src /\ d.todo = c.todo /\ d.user = u
          /\ d.listing = c.listing \ {w}
      BY <2>1, <2>2 DEF CountInv, Calls, CallType
    <3>2. u = w => ~Own(u, c.src)'
      BY <1>1, <2>1, <2>2 DEF Own, CountInv, Tables
    <3> QED
      BY <2>1, <3>1, <3>2 DEF KeyAhead, GrantAhead, Before, OffPc
  <2>3. CASE c.listing = {} /\ Goto(q, "close")
    BY <1>2, <2>1, <2>3 DEF GrantAhead, Before, OffPc
  <2> QED
    BY <1>11, <2>2, <2>3 DEF DropGrant
<1>12. CASE Forget(q) \/ Kill(q)
  BY <1>12 DEF Forget, Kill, Idle, CountInv, Calls
<1>13. CASE \/ FilesRead(q) \/ UrlRead(q) \/ GitRead(q) \/ PutRow(q) \/ EnsureRuntime(q) \/ RecordRuntime(q)
            \/ PutGrantAgain(q) \/ JoinRead(q) \/ Join(q) \/ MemberRead(q) \/ AddMember(q)
            \/ RemoveMember(q) \/ ScopeRead(q) \/ Flip(q) \/ TagGrant(q) \/ RebuildRead(q)
  BY <1>13 DEF OffPc, FilesRead, UrlRead, GitRead, Registers, PutRow, EnsureRuntime, RecordRuntime, PutGrantAgain,
     JoinRead, Join, MemberRead, AddMember, RemoveMember, ScopeRead, Flip, TagGrant, RebuildRead
<1>14. CASE CreateRead(q) \/ MintKey(q) \/ PointKey(q) \/ RevokeRead(q) \/ Revoke(q)
  BY <1>14 DEF OffPc, CreateRead, MintKey, PointKey, RevokeRead, Revoke
<1> QED
  BY <1>4, <1>5, <1>6, <1>7, <1>8, <1>9, <1>10, <1>11, <1>12, <1>13, <1>14
     DEF Step, RegisterFiles, RegisterUrl, RegisterGit

(* The tombstones and the accounts, which two steps write.                  *)
LEMMA MarksStay ==
  ASSUME NEW q \in Call, Step(q) \/ Kill(q)
  PROVE  /\ ~Tombstone(q) => deleted' = deleted /\ strayed' = strayed
         /\ ~Forget(q) => gone' = gone
<1> USE DEF History, Accounts
<1>1. CASE \/ FilesRead(q) \/ UrlRead(q) \/ GitRead(q) \/ PutRow(q)
           \/ EnsureRuntime(q) \/ RecordRuntime(q)
           \/ PutGrantAgain(q) \/ JoinRead(q) \/ Join(q)
  BY <1>1 DEF FilesRead, UrlRead, GitRead, Decide, PutRow, EnsureRuntime, RecordRuntime, PutGrantAgain,
              JoinRead, Join, Subscribe
<1>2. CASE \/ MemberRead(q) \/ AddMember(q) \/ RemoveMember(q)
           \/ ScopeRead(q) \/ Flip(q) \/ TagGrant(q) \/ RebuildRead(q)
  BY <1>2 DEF MemberRead, AddMember, RemoveMember, Subscribe, ScopeRead, Flip, TagGrant,
              RebuildRead
<1>3. CASE \/ DeleteRead(q) \/ Leave(q) \/ CheckCount(q) \/ Disable(q) \/ DeleteRuntime(q)
           \/ ListGrants(q) \/ DropGrant(q) \/ Close(q)
  BY <1>3 DEF DeleteRead, Leave, CheckCount, Disable, DeleteRuntime, ListGrants, DropGrant,
              Close
<1>4. CASE \/ CreateRead(q) \/ MintKey(q) \/ PointKey(q) \/ RevokeRead(q) \/ Revoke(q)
           \/ ListKeys(q) \/ CutKey(q) \/ NextGrant(q) \/ Kill(q)
  BY <1>4 DEF CreateRead, MintKey, PointKey, RevokeRead, Revoke, ListKeys, CutKey, NextGrant, Kill
<1>5. CASE Tombstone(q) \/ Forget(q)
  BY <1>5 DEF Tombstone, Forget
<1> QED
  BY <1>1, <1>2, <1>3, <1>4, <1>5 DEF Step, RegisterFiles, RegisterUrl, RegisterGit

LEMMA OffStep ==
  ASSUME CountInv, KeyInv, OffInv, NEW q \in Call, Step(q) \/ Kill(q)
  PROVE  OffInv'
<1> USE DEF At
<1>1. Rooted'
  BY RootedStep DEF OffInv
<1>2. Idle.op = "idle" /\ Idle.pc = "idle"
  BY DEF Idle
<1>3. ASSUME NEW u, InFlight(u)'
      PROVE  InFlight(u)
  BY <1>2, <1>3, Alone, SameCall DEF InFlight, CountInv
<1>4. ASSUME Tombstone(q)
      PROVE  /\ call'[q].pc = "keys" /\ call[q].user \in User /\ call[q].op = "offboard"
             /\ call'[q].user = call[q].user
             /\ deleted' = deleted \cup {call[q].user}
             /\ strayed' = IF InFlight(call[q].user) THEN strayed \cup {call[q].user} ELSE strayed
  BY <1>4 DEF Tombstone, Marked, Goto, CountInv, Calls, CallType, Fits, OfOffboarding
<1>5. ASSUME Forget(q)
      PROVE  /\ call[q].pc = "forget" /\ call[q].op = "offboard" /\ call'[q] = Idle
             /\ gone' = gone \cup {call[q].user}
  BY <1>5 DEF Forget, CountInv, Calls, Fits, OfOffboarding
<1>6. ASSUME NEW u \in deleted' \ strayed'
      PROVE  u \in User /\ ~InFlight(u) /\ (u \in deleted => u \notin strayed)
  BY <1>4, <1>6, MarksStay DEF OffInv, Marking
(* What was ahead of the offboardings still is.                             *)
<1>7. ASSUME NEW u \in User, NEW p \in Call, Offboards(p, u)'
      PROVE  /\ Offboards(p, u)
             /\ call'[p].pc \in OffPc /\ (call'[p].pc = "forget" => call'[p].todo = {})
             /\ call'[p].pc # "tombstone" => u \in deleted'
             /\ \A k \in Key : KeyAhead(call[p], k) /\ Held(u, k)' => KeyAhead(call'[p], k)
             /\ \A s \in Source : GrantAhead(call[p], s) /\ Own(u, s)' => GrantAhead(call'[p], s)
  <2>1. Offboards(p, u)
    BY <1>2, <1>7, Alone, SameCall DEF Offboards, CountInv
  <2>2. CASE p # q
    BY <1>4, <1>7, <2>1, <2>2, Alone, MarksStay DEF Offboards, CountInv, OffInv, Marking
  <2>3. CASE p = q /\ Tombstone(q)
    BY <1>4, <2>1, <2>3 DEF Offboards, OffPc, KeyAhead, GrantAhead, Before
  <2>4. CASE p = q /\ ~Tombstone(q)
    <3>1. call[q].user = u /\ call[q].op = "offboard" /\ call'[q].op = "offboard"
      BY <1>7, <2>1, <2>4 DEF Offboards
    <3>2. call[q].pc \in OffPc /\ (call[q].pc # "tombstone" => u \in deleted)
      BY <3>1 DEF OffInv, Marking
    <3> QED
      BY <2>1, <2>4, <3>1, <3>2, OffMoves, MarksStay DEF KeyInv, OffInv
  <2> QED
    BY <2>2, <2>3, <2>4
<1>8. Marking'
  <2>1. deleted' \subseteq User /\ gone' \subseteq deleted'
    <3>1. Forget(q) => call[q].user \in deleted
      BY <1>5 DEF OffInv, Marking
    <3> QED
      BY <1>4, <1>5, <3>1, MarksStay DEF OffInv, Marking
  <2>2. ASSUME NEW p \in Call, call'[p].op = "offboard"
        PROVE  /\ call'[p].pc \in OffPc /\ (call'[p].pc = "forget" => call'[p].todo = {})
               /\ call'[p].pc # "tombstone" => call'[p].user \in deleted'
    <3>1. call'[p].user \in User
      BY <1>2, <2>2, Alone, SameCall DEF CountInv, Calls, Fits
    <3> QED
      BY <1>7, <2>2, <3>1 DEF Offboards
  <2> QED
    BY <1>3, <1>6, <2>1, <2>2 DEF Marking
(* What is ahead of them before the step, a user marked by it included.     *)
<1>9. ASSUME NEW u \in deleted' \ strayed', NEW p \in Call, Offboards(p, u), u \notin deleted
      PROVE  call[p].pc = "tombstone"
  BY <1>9 DEF Offboards, OffInv, Marking
<1>10. KeysAhead'
  <2> SUFFICES ASSUME NEW u \in deleted' \ strayed', NEW k \in Key, Held(u, k)'
               PROVE  u \notin gone' /\ \A p \in Call : Offboards(p, u)' => KeyAhead(call'[p], k)
    BY DEF KeysAhead
  <2>1. u \in User /\ Held(u, k)
    BY <1>6, HeldShrinks
  <2>2. u \notin gone /\ \A p \in Call : Offboards(p, u) => KeyAhead(call[p], k)
    BY <1>6, <1>9, <2>1 DEF OffInv, KeysAhead, KeyAhead, Marking
  <2>3. Forget(q) => call[q].user # u
    BY <1>5, <2>2 DEF Offboards, KeyAhead
  <2> QED
    BY <1>5, <1>7, <2>1, <2>2, <2>3, MarksStay
<1>11. GrantsAhead'
  <2> SUFFICES ASSUME NEW u \in deleted' \ strayed', NEW s \in Source, Own(u, s)'
               PROVE  u \notin gone' /\ \A p \in Call : Offboards(p, u)' => GrantAhead(call'[p], s)
    BY DEF GrantsAhead
  <2>1. u \in User /\ Own(u, s)
    BY <1>6, OwnShrinks DEF OffInv, Marking
  <2>2. u \notin gone /\ \A p \in Call : Offboards(p, u) => GrantAhead(call[p], s)
    BY <1>6, <1>9, <2>1 DEF OffInv, GrantsAhead, GrantAhead, Before, Marking
  <2>3. Forget(q) => call[q].user # u
    BY <1>5, <2>2 DEF Offboards, GrantAhead, Before, OffInv, Marking
  <2> QED
    BY <1>5, <1>7, <2>1, <2>2, <2>3, MarksStay
<1> QED
  BY <1>1, <1>8, <1>10, <1>11 DEF OffInv

LEMMA OffNext ==
  ASSUME CountInv, KeyInv, OffInv, [Next]_vars
  PROVE  OffInv'
<1>1. ASSUME NEW q \in Call, Step(q) \/ Kill(q)
      PROVE  OffInv'
  BY <1>1, OffStep
<1>2. ASSUME NEW q \in Call, NEW w \in User, Enter(q, w) \/ EnterOffboard(q, w)
      PROVE  OffInv'
  <2>1. /\ UNCHANGED <<row, grant, key, deleted, gone>>
        /\ \A p \in Call : p # q => call'[p] = call[p]
    BY <1>2 DEF Enter, EnterOffboard, Begin, CountInv, Calls
  <2>2. /\ call'[q].user = w /\ strayed \subseteq strayed'
        /\ \/ /\ call'[q].op # "offboard" /\ call'[q].pc = "read"
              /\ w \in deleted => w \in strayed'
           \/ call'[q].op = "offboard" /\ call'[q].pc = "tombstone" /\ w \notin gone
    <3>1. CASE EnterOffboard(q, w)
      BY <3>1 DEF EnterOffboard, Begin, CountInv, Calls, Idle
    <3>2. CASE Enter(q, w)
      <4>1. PICK a \in Asked(w) :
              /\ Begin(q, a[1], "read", w, a[2], a[3])
              /\ \/ w \notin deleted /\ UNCHANGED <<faults, strayed>>
                 \/ w \in deleted /\ Fault /\ strayed' = strayed \cup {w}
        BY <3>2 DEF Enter
      <4>2. a[1] # "offboard"
        BY Requests DEF Asks
      <4> QED
        BY <4>1, <4>2 DEF Begin, CountInv, Calls, Idle
    <3> QED
      BY <1>2, <3>1, <3>2
  <2>3. Rooted'
    BY <2>1, <2>2 DEF OffInv, Rooted
  <2>4. Marking'
    BY <2>1, <2>2 DEF OffInv, Marking, InFlight, OffPc
  <2>5. KeysAhead'
    BY <2>1, <2>2 DEF OffInv, KeysAhead, Held, Offboards, KeyAhead
  <2>6. GrantsAhead'
    BY <2>1, <2>2 DEF OffInv, GrantsAhead, Own, Offboards, GrantAhead, Before
  <2> QED
    BY <2>3, <2>4, <2>5, <2>6 DEF OffInv
<1>3. ASSUME NEW k \in Key, Lapse(k)
      PROVE  OffInv'
  <2>1. UNCHANGED <<row, grant, deleted, gone, call, strayed>>
    BY <1>3 DEF Lapse, History
  <2>2. ASSUME NEW u, NEW j \in Key, Held(u, j)'
        PROVE  Held(u, j)
    BY <1>3, <2>2 DEF Lapse, Held, KeyInv, KeyRow
  <2>3. Rooted' /\ Marking'
    BY <2>1 DEF OffInv, Rooted, Marking, InFlight
  <2>4. KeysAhead' /\ GrantsAhead'
    BY <2>1, <2>2 DEF OffInv, KeysAhead, GrantsAhead, Own, Offboards
  <2> QED
    BY <2>3, <2>4 DEF OffInv
<1>4. CASE UNCHANGED vars
  BY <1>4 DEF vars, OffInv, Rooted, Marking, KeysAhead, GrantsAhead, Held, Own, Offboards, InFlight
<1> QED
  BY <1>1, <1>2, <1>3, <1>4 DEF Next

(* "Leaves no key that still authorizes and no grant that still counts":    *)
(* once _offboard_user has reached its end, of a user none of whose calls   *)
(* got past the tombstone, every key they can see is refused and no grant  *)
(* of their own is listed, whatever calls of others, later offboardings and *)
(* deaths of calls happen meanwhile.                                        *)
THEOREM Offboarded == Spec => []OffboardedIsPowerless
<1>1. Init => CountInv /\ KeyInv /\ OffInv
  <2>1. Init => OffInv
    BY DEF Init, OffInv, Rooted, Marking, KeysAhead, GrantsAhead, Idle
  <2> QED
    BY <2>1, CountInit, KeyInit
<1>2. CountInv /\ KeyInv /\ OffInv /\ [Next]_vars => CountInv' /\ KeyInv' /\ OffInv'
  BY CountNext, KeyNext, OffNext
<1>3. OffInv => OffboardedIsPowerless
  <2> SUFFICES ASSUME OffInv, NEW u \in gone \ strayed
               PROVE  /\ \A k \in Key : ~Held(u, k)
                      /\ \A s \in Source : ~Own(u, s)
    BY DEF OffboardedIsPowerless, Held, Own, Authorizes
  <2> QED
    BY DEF OffInv, Marking, KeysAhead, GrantsAhead
<1> QED
  BY <1>1, <1>2, <1>3, PTL DEF Spec

-----------------------------------------------------------------------------
(* No source is abandoned.  Until something fails, an enabled source with  *)
(* no subscriber counted has a call about to look at its count.            *)
Deserted(s) == Enabled(s) /\ row[s].count <= 0
Watched(s) == \E q \in Call : call[q].src = s /\ call[q].pc \in {"check", "disable"}

AbandonInv ==
  /\ faults \in Nat /\ faults <= MaxFaults
  /\ faults = MaxFaults => \A s \in Source \ emptied : Deserted(s) => Watched(s)

(* Only Leave makes a source deserted that was not and was not emptied.     *)
LEMMA DesertedBefore ==
  ASSUME CountInv, NEW q \in Call, Step(q) \/ Kill(q), ~Leave(q),
         NEW s \in Source \ emptied', Deserted(s)'
  PROVE  s \notin emptied /\ Deserted(s)
<1> USE DEF Deserted, Enabled, History
<1>1. row[s] \in Row
  BY DEF CountInv, Tables
<1>2. CASE PutRow(q)
  BY <1>1, <1>2 DEF PutRow, Registered, CountInv, Tables
<1>3. CASE RemoveMember(q)
  BY <1>1, <1>3 DEF RemoveMember, CountInv, Tables, Row
<1>4. CASE EnsureRuntime(q) \/ RecordRuntime(q) \/ Disable(q) \/ Flip(q)
  BY <1>1, <1>4 DEF EnsureRuntime, RecordRuntime, Disable, Flip, CountInv, Tables, Row
<1>5. CASE Join(q) \/ AddMember(q)
  BY <1>1, <1>5 DEF Join, AddMember, Subscribe, CountInv, Tables, Row
<1>6. CASE Close(q)
  <2>1. ~Closed(row[call[q].src]).enabled \/ row' = row
    <3>1. CASE call[q].src \in Source
      BY <3>1 DEF Closed, CountInv, Tables, Row
    <3>2. CASE call[q].src \notin Source
      BY <1>6, <3>2 DEF Close, CountInv, Tables
    <3> QED
      BY <3>1, <3>2
  <2> QED
    BY <1>6, <2>1 DEF Close, CountInv, Tables
<1>7. CASE \/ FilesRead(q) \/ UrlRead(q) \/ GitRead(q) \/ PutGrantAgain(q) \/ JoinRead(q)
           \/ MemberRead(q) \/ DeleteRead(q) \/ CheckCount(q) \/ DeleteRuntime(q)
           \/ ListGrants(q) \/ DropGrant(q) \/ ScopeRead(q) \/ TagGrant(q) \/ RebuildRead(q)
  BY <1>7 DEF FilesRead, UrlRead, GitRead, Decide, PutGrantAgain, JoinRead, MemberRead,
     DeleteRead, CheckCount, DeleteRuntime, ListGrants, DropGrant, ScopeRead, TagGrant, RebuildRead
<1>8. CASE \/ CreateRead(q) \/ MintKey(q) \/ PointKey(q) \/ RevokeRead(q) \/ Revoke(q)
           \/ Tombstone(q) \/ ListKeys(q) \/ CutKey(q) \/ NextGrant(q) \/ Forget(q)
           \/ Kill(q)
  BY <1>8 DEF CreateRead, MintKey, PointKey, RevokeRead, Revoke, Tombstone, ListKeys, CutKey,
     NextGrant, Forget, Kill
<1> QED
  BY <1>2, <1>3, <1>4, <1>5, <1>6, <1>7, <1>8 DEF Step, RegisterFiles, RegisterUrl, RegisterGit

(* The call that watches a deserted source goes on to disable it.           *)
LEMMA WatchGoesOn ==
  ASSUME CountInv, NEW q \in Call, Step(q), NEW s \in Source, call[q].src = s,
         call[q].pc \in {"check", "disable"}, Deserted(s)'
  PROVE  call'[q].src = s /\ call'[q].pc \in {"check", "disable"}
<1> USE DEF At, Enabled, Deserted, Nobody
<1>1. CASE CheckCount(q)
  BY <1>1 DEF CheckCount, Goto, CountInv, Calls, CallType, Tables, Row
<1>2. CASE Disable(q)
  BY <1>2 DEF Disable, Goto, CountInv, Calls, CallType, Tables, Row
<1>3. CASE \/ FilesRead(q) \/ UrlRead(q) \/ GitRead(q) \/ PutRow(q)
           \/ EnsureRuntime(q) \/ RecordRuntime(q)
           \/ PutGrantAgain(q) \/ JoinRead(q) \/ Join(q)
  BY <1>3 DEF FilesRead, UrlRead, GitRead, Registers, PutRow, EnsureRuntime, RecordRuntime, PutGrantAgain,
              JoinRead, Join
<1>4. CASE \/ MemberRead(q) \/ AddMember(q) \/ RemoveMember(q)
           \/ ScopeRead(q) \/ Flip(q) \/ TagGrant(q) \/ RebuildRead(q)
  BY <1>4 DEF MemberRead, AddMember, RemoveMember, ScopeRead, Flip, TagGrant, RebuildRead
<1>5. CASE \/ DeleteRead(q) \/ Leave(q) \/ DeleteRuntime(q)
           \/ ListGrants(q) \/ DropGrant(q) \/ Close(q)
  BY <1>5 DEF DeleteRead, Leave, DeleteRuntime, ListGrants, DropGrant, Close
<1>6. CASE \/ CreateRead(q) \/ MintKey(q) \/ PointKey(q) \/ RevokeRead(q) \/ Revoke(q)
           \/ ListKeys(q) \/ CutKey(q) \/ NextGrant(q) \/ Tombstone(q) \/ Forget(q)
  BY <1>6 DEF CreateRead, MintKey, PointKey, RevokeRead, Revoke, ListKeys, CutKey, NextGrant,
              Tombstone, Forget
<1> QED
  BY <1>1, <1>2, <1>3, <1>4, <1>5, <1>6 DEF Step, RegisterFiles, RegisterUrl, RegisterGit

LEMMA AbandonStep ==
  ASSUME CountInv, AbandonInv, NEW q \in Call, Step(q) \/ Kill(q)
  PROVE  AbandonInv'
<1>1. /\ faults' \in Nat /\ faults' <= MaxFaults
      /\ faults' = MaxFaults => faults = MaxFaults /\ ~Kill(q)
  BY FaultsFall, SubscriptionsAssumption DEF AbandonInv, Fault
<1> SUFFICES ASSUME faults' = MaxFaults, NEW s \in Source \ emptied', Deserted(s)'
             PROVE  Watched(s)'
  BY <1>1 DEF AbandonInv
<1>2. CASE s = call[q].src /\ Leave(q) /\ Goto(q, "check")
  BY <1>2 DEF Watched, Leave, Goto, CountInv, Calls, CallType
<1>3. CASE ~(s = call[q].src /\ Leave(q) /\ Goto(q, "check"))
  <2>1. s \notin emptied /\ Deserted(s)
    <3>1. CASE Leave(q)
      BY <1>3, <3>1 DEF Leave, Deserted, Enabled, History, CountInv, Tables
    <3> QED
      BY <3>1, DesertedBefore
  <2>2. PICK p \in Call : call[p].src = s /\ call[p].pc \in {"check", "disable"}
    BY <1>1, <2>1 DEF AbandonInv, Watched
  <2>3. CASE p = q
    BY <1>1, <2>2, <2>3, WatchGoesOn DEF Watched
  <2>4. CASE p # q
    BY <2>2, <2>4, Alone DEF Watched, CountInv
  <2> QED
    BY <2>3, <2>4
<1> QED
  BY <1>2, <1>3

LEMMA AbandonNext ==
  ASSUME CountInv, AbandonInv, [Next]_vars
  PROVE  AbandonInv'
<1>1. ASSUME NEW q \in Call, Step(q) \/ Kill(q)
      PROVE  AbandonInv'
  BY <1>1, AbandonStep
<1>2. ASSUME NEW q \in Call, NEW u \in User, Enter(q, u) \/ EnterOffboard(q, u)
      PROVE  AbandonInv'
  <2>1. /\ row' = row /\ emptied' = emptied /\ call[q] = Idle
        /\ \A p \in Call : p # q => call'[p] = call[p]
    BY <1>2 DEF Enter, EnterOffboard, Begin, CountInv, Calls
  <2>2. faults' = faults \/ Fault
    BY <1>2 DEF Enter, EnterOffboard
  <2>3. ASSUME NEW s, Watched(s)
        PROVE  Watched(s)'
    BY <2>1, <2>3 DEF Watched, Idle
  <2> QED
    BY <2>1, <2>2, <2>3, SubscriptionsAssumption DEF AbandonInv, Fault, Deserted, Enabled
<1>3. CASE UNCHANGED <<row, call, faults, emptied>>
  BY <1>3 DEF AbandonInv, Deserted, Enabled, Watched
<1> QED
  BY <1>1, <1>2, <1>3 DEF Next, Lapse, History, vars

(* The service of a source nobody subscribes to is not kept (delete_repo,   *)
(* _offboard_user): a call that takes the last counted subscriber stays     *)
(* until it has looked at the count again and disabled the source, so that  *)
(* without a killed or failed call none is left enabled with nobody.        *)
THEOREM NoneAbandoned == Spec => []NothingAbandoned
<1>1. Init => AbandonInv
  BY SubscriptionsAssumption DEF Init, AbandonInv, Deserted, Enabled, NoRow
<1>2. CountInv /\ AbandonInv /\ [Next]_vars => CountInv' /\ AbandonInv'
  BY CountNext, AbandonNext
<1>3. CountInv /\ AbandonInv => NothingAbandoned
  <2> SUFFICES ASSUME CountInv, AbandonInv, faults = MaxFaults, \A q \in Call : call[q] = Idle,
                      NEW s \in Source \ emptied, Enabled(s)
               PROVE  row[s].count > 0
    BY DEF NothingAbandoned
  <2>1. ~Watched(s)
    BY DEF Watched, Idle
  <2>2. row[s].count \in Int
    BY DEF CountInv, Tables, Row
  <2> QED
    BY <2>1, <2>2 DEF AbandonInv, Deserted
<1> QED
  BY <1>1, <1>2, <1>3, CountInit, PTL DEF Spec

=============================================================================
