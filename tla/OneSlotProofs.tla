---------------------------- MODULE OneSlotProofs ----------------------------
(* Theorems about Provisioning where one task is carried out at a time, and *)
(* with every other action beside it: a sync that reads and caches, an      *)
(* administrator, failing calls and crashes.  And one theorem about any     *)
(* number of slots, for apps in group-mapping mode.                         *)
EXTENDS ProvisioningProofs

-----------------------------------------------------------------------------
(* What changes Okta. *)

Writes(w) == \/ pc[w] = "assign" /\ AssignInOkta(w)
             \/ pc[w] = "update" /\ UpdateInOkta(w)

\* A call changes Okta by the write of its own task, or not at all.
LEMMA CallWrites ==
    ASSUME TypeOK, NEW w \in Workers, Call(w)
    PROVE  UNCHANGED okta \/ (Writes(w) /\ UNCHANGED <<cache, fetch, started>>)
BY DEF Call, Settings, Get, Hit, HitGone, Ask, AskFails, Fill, DecideAbsent, DecideFound,
       Assign, Update, WriteFails, Carried, Writes, okta, counter

\* Only a handler's write and an administrator change Okta.
LEMMA OnlyWrites ==
    ASSUME TypeOK, [Next]_vars
    PROVE  \/ UNCHANGED okta
           \/ outside' = outside + 1
           \/ \E w \in Workers : Writes(w) /\ UNCHANGED <<cache, fetch, started>>
<1>1. ASSUME NEW w \in Workers, Handler(w)
      PROVE  UNCHANGED okta \/ (Writes(w) /\ UNCHANGED <<cache, fetch, started>>)
  BY <1>1, CallWrites DEF Handler, Eof, Resend, Carried, Writes, counter
<1>. QED
  BY <1>1 DEF Next, Beside, Restart, Crash, Start, Expire, SyncGet, SyncFill, OutsideWrite,
         okta, vars

\* As long as no administrator has written, only a handler's write does.
LEMMA NoneOutside ==
    ASSUME TypeOK, [Next]_vars, outside' = 0
    PROVE  /\ outside = 0 /\ UNCHANGED conf
           /\ \/ UNCHANGED okta
              \/ \E w \in Workers : Writes(w) /\ UNCHANGED <<cache, fetch, started>>
<1>1. outside' = outside \/ outside' = outside + 1
  BY DEF Next, vars, Handler, Call, Settings, Get, Hit, HitGone, Ask, AskFails, Fill,
         DecideAbsent, DecideFound, Assign, Update, WriteFails, Eof, Resend, Beside,
         Restart, Crash, Start, Expire, SyncGet, SyncFill, OutsideWrite, counter
<1>2. outside = 0 /\ outside' # outside + 1
  BY <1>1 DEF TypeOK
<1>. QED  BY <1>2, OnlyWrites DEF Next, vars

\* A write concerns the task's principal, and nobody else.
LEMMA WriteEffect ==
    ASSUME TypeOK, NEW w \in Workers, Writes(w)
    PROVE  /\ Principal(w) \in Principals /\ Role(w) \in Roles
           /\ assigned' = assigned \cup {Principal(w)}
           /\ \A q \in Principals : q # Principal(w) => own'[q] = own[q]
           /\ pc[w] = "update" => own'[Principal(w)] = Target(w)
           /\ pc[w] = "assign" =>
                own'[Principal(w)] = IF Principal(w) \in Users THEN {Role(w)}
                                     ELSE IF Principal(w) \in assigned THEN own[Principal(w)]
                                     ELSE DefaultRoles
<1>1. Principal(w) \in Principals /\ Role(w) \in Roles /\ own \in [Principals -> SUBSET Roles]
  BY DEF TypeOK, WorkerTypes, Tasks, Principal, Role, Writes
<1>. QED  BY <1>1 DEF Writes, AssignInOkta, UpdateInOkta

\* What Okta answers depends on nothing else.
LEMMA SameAnswers ==
    ASSUME UNCHANGED <<okta, conf>>, NEW p
    PROVE  Answers(p)' = Answers(p) /\ Through(p)' = Through(p)
BY DEF Answers, Through, DerivedRoles, OwnView, Absent, okta

-----------------------------------------------------------------------------
(* Group mapping. *)

\* In group-mapping mode no handler gets past its settings.
HeldBack == conf.useGroupMapping => \A w \in Workers : pc[w] \in {"idle", "settings"}

\* No task changes Okta in group-mapping mode, in any number of slots.
THEOREM MappingChangesNothing == Spec => MappingReadOnly
<1>1. Init => HeldBack
  BY DEF Init, HeldBack
<1>2. ASSUME TypeOK, HeldBack, [Next]_vars
      PROVE  HeldBack'
  <2>1. SUFFICES ASSUME conf.useGroupMapping
                 PROVE  \A v \in Workers : pc'[v] \in {"idle", "settings"}
    BY <1>2 DEF HeldBack, Next, vars
  <2>2. ASSUME NEW w \in Workers, Handler(w)
        PROVE  \A v \in Workers : pc'[v] \in {"idle", "settings"}
    BY <1>2, <2>1, <2>2
    DEF HeldBack, Handler, Call, Settings, Get, Hit, HitGone, Ask, AskFails, Fill,
        DecideAbsent, DecideFound, Assign, Update, WriteFails, Eof, Resend, NotDone, Retry,
        StartOver, Finish, Goto, worker, TypeOK, WorkerTypes
  <2>. QED
    BY <1>2, <2>1, <2>2
    DEF HeldBack, Next, Beside, Restart, Crash, Start, Goto, Expire, SyncGet, SyncFill, OutsideWrite,
        vars, worker, TypeOK, WorkerTypes
<1>3. TypeOK /\ HeldBack /\ [Next]_vars =>
        (conf.useGroupMapping => UNCHANGED okta \/ outside' # outside)
  BY OnlyWrites DEF HeldBack, Writes, TypeOK
<1>. QED  BY <1>1, <1>2, <1>3, TypeCorrect, PTL DEF Spec, MappingReadOnly

-----------------------------------------------------------------------------
(* Conversions that nobody opted into.  With one slot, what a user's answer  *)
(* says of where the assignment comes from stays so until the task's write.  *)

OneSlot == \A v, w \in Workers : v = w

\* What the cache has of a user without an own assignment is the groups'.
CachedScope ==
    \A u \in Users \ assigned :
      cache[u] # NoView => cache[u].found /\ cache[u].scope = "GROUP"

\* And what the task holds of him; no answer means that he is in no assigned
\* group, and a list is only sent to him where converting is opted into.
InHandScope(w) ==
    LET p == Principal(w) IN
    p \in Users \ assigned =>
      /\ pc[w] \in {"fill", "decide"} => IF seen[w].found THEN seen[w].scope = "GROUP"
                                                          ELSE Through(p) = {}
      /\ pc[w] = "assign" => Through(p) = {}
      /\ pc[w] = "update" => CanConvert

ScopeInv == outside = 0 => CachedScope /\ \A w \in Workers : Busy(w) => InHandScope(w)

\* A call goes on with its task, ends it or starts it over.
LEMMA CallGoes ==
    ASSUME TypeOK, NEW w \in Workers, Call(w), Busy(w)'
    PROVE  /\ Busy(w) /\ task'[w] = task[w] /\ Principal(w) \in Principals
           /\ Principal(w)' = Principal(w) /\ Role(w)' = Role(w)
           /\ Granting(w)' <=> Granting(w)
<1>. USE DEF Call, Settings, Get, Hit, HitGone, Ask, AskFails, Fill, DecideAbsent,
             DecideFound, Assign, Update, WriteFails, Busy, TypeOK, WorkerTypes
<1>1. Busy(w) /\ task[w] \in Tasks
  OBVIOUS
<1>2. task'[w] = task[w]
  BY DEF NotDone, Retry, StartOver, Finish, Goto
<1>. QED  BY <1>1, <1>2 DEF Tasks, Principal, Role, Granting

\* A call, by name: what it finds, and where the task stands after it.
LEMMA Calls ==
    ASSUME TypeOK, NEW w \in Workers, Call(w), pc'[w] \notin {"idle", "settings", "get", "hit"}
    PROVE  LET p == Principal(w) IN
           \/ /\ pc[w] = "get" /\ pc'[w] = "ask"
              /\ cache[p] = NoView /\ UNCHANGED <<okta, cache>>
           \/ /\ pc[w] = "ask" /\ pc'[w] = "fill" /\ seen'[w] \in Answers(p)
              /\ UNCHANGED <<okta, cache>>
           \/ /\ pc[w] = "hit" /\ pc'[w] = "decide" /\ seen'[w] = cache[p]
              /\ cache[p] # NoView /\ UNCHANGED <<okta, cache>>
           \/ /\ pc[w] = "fill" /\ pc'[w] = "decide" /\ seen'[w] = seen[w] /\ UNCHANGED okta
              /\ IF CacheEnabled /\ seen[w].found THEN cache' = [cache EXCEPT ![p] = seen[w]]
                                                  ELSE UNCHANGED cache
           \/ /\ pc[w] = "decide" /\ pc'[w] = "assign" /\ ~seen[w].found /\ Granting(w)
              /\ UNCHANGED <<okta, seen>>
              /\ IF p \in Groups THEN Forget(p) ELSE UNCHANGED cache
           \/ /\ pc[w] = "decide" /\ pc'[w] = "update" /\ seen[w].found
              /\ ~Refused(w) /\ Forget(p) /\ UNCHANGED <<okta, seen>>
<1>1. CASE Settings(w) \/ HitGone(w) \/ AskFails(w) \/ WriteFails(w)
  BY <1>1 DEF Settings, HitGone, AskFails, WriteFails, NotDone, Retry, StartOver, Finish,
              Goto, TypeOK, WorkerTypes
<1>2. CASE Get(w) \/ Ask(w)
  BY <1>2 DEF Get, Ask, Goto, TypeOK, WorkerTypes, okta
<1>3. CASE Hit(w) \/ Fill(w)
  BY <1>3 DEF Hit, Fill, Goto, TypeOK, WorkerTypes, okta
<1>4. CASE DecideAbsent(w) \/ DecideFound(w)
  BY <1>4 DEF DecideAbsent, DecideFound, Finish, Goto, TypeOK, WorkerTypes, okta
<1>5. CASE Assign(w) \/ Update(w)
  BY <1>5 DEF Assign, Update, Finish, Goto, TypeOK, WorkerTypes
<1>. QED  BY <1>1, <1>2, <1>3, <1>4, <1>5 DEF Call

\* A call that writes ends, goes back to its read or starts over.
LEMMA WritesLeave ==
    ASSUME TypeOK, NEW w \in Workers, Call(w), Writes(w)
    PROVE  pc'[w] \in {"idle", "settings", "get"} /\ UNCHANGED cache
BY DEF Call, Settings, Get, Hit, HitGone, Ask, AskFails, Fill, DecideAbsent, DecideFound,
       Assign, Update, WriteFails, NotDone, Retry, StartOver, Finish, Goto, Writes,
       TypeOK, WorkerTypes

LEMMA ScopeKept ==
    ASSUME OneSlot, TypeOK, TypeOK', ScopeInv, [Next]_vars
    PROVE  ScopeInv'
<1>0. SUFFICES ASSUME outside' = 0
               PROVE  CachedScope' /\ \A w \in Workers : Busy(w)' => InHandScope(w)'
  BY DEF ScopeInv
<1>1. /\ outside = 0 /\ UNCHANGED conf
      /\ CachedScope /\ \A w \in Workers : Busy(w) => InHandScope(w)
  BY <1>0, NoneOutside DEF ScopeInv
<1>2. CASE Restart
  BY <1>2 DEF Restart, CachedScope, Busy, Principals
<1>3. ASSUME NEW w \in Workers, Call(w)
      PROVE  CachedScope' /\ \A v \in Workers : Busy(v)' => InHandScope(v)'
  <2>1. \A v \in Workers : v = w  BY DEF OneSlot
  <2>2. CASE pc'[w] \in {"idle", "settings", "get", "hit"}
    <3>1. InHandScope(w)'  BY <2>2 DEF InHandScope
    <3>2. CachedScope'
      BY <1>1, <1>3, <2>2
      DEF CachedScope, Call, Settings, Get, Hit, HitGone, Ask, AskFails, Fill, DecideAbsent,
          DecideFound, Assign, Update, WriteFails, Carried, AssignInOkta, UpdateInOkta,
          Finish, Goto, okta, TypeOK, WorkerTypes, Principals
    <3>. QED  BY <2>1, <3>1, <3>2
  <2>3. CASE pc'[w] \notin {"idle", "settings", "get", "hit"}
    <3>1. PICK p \in Principals : p = Principal(w)
      BY <1>3, <2>3, CallGoes DEF Busy
    <3>2. Principal(w)' = p /\ InHandScope(w) /\ p \notin Users \cap Groups
      BY <1>1, <1>3, <2>3, <3>1, CallGoes, ConfigAssumption DEF Busy
    <3>3. UNCHANGED okta
      BY <1>3, <2>3, Calls
    <3>4. CachedScope' /\ InHandScope(w)'
      <4>1. Through(p)' = Through(p) /\ assigned' = assigned
        BY <1>1, <3>3, SameAnswers DEF okta
      <4>2. \A v \in Answers(p) : p \in Users \ assigned =>
              IF v.found THEN v.scope = "GROUP" ELSE Through(p) = {}
        BY DEF Answers, Absent
      <4>3. InHandScope(w)'
        <5>1. SUFFICES ASSUME p \in Users \ assigned
                       PROVE  /\ pc'[w] \in {"fill", "decide"} =>
                                   IF seen'[w].found THEN seen'[w].scope = "GROUP"
                                                     ELSE Through(p) = {}
                              /\ pc'[w] = "assign" => Through(p) = {}
                              /\ pc'[w] = "update" => CanConvert
          BY <1>1, <3>2, <4>1 DEF InHandScope, CanConvert
        <5>2. /\ pc[w] \in {"fill", "decide"} =>
                   IF seen[w].found THEN seen[w].scope = "GROUP" ELSE Through(p) = {}
              /\ pc[w] = "assign" => Through(p) = {}
              /\ pc[w] = "update" => CanConvert
              /\ cache[p] # NoView => cache[p].scope = "GROUP" /\ cache[p].found
          BY <1>1, <3>1, <3>2, <5>1 DEF InHandScope, CachedScope
        <5>3. Refused(w) <=> seen[w].scope = "GROUP" /\ ~CanConvert
          BY <3>1, <5>1 DEF Refused
        <5>. QED
          BY <1>3, <2>3, <3>1, <4>2, <5>1, <5>2, <5>3, Calls
      <4>4. CachedScope'
        BY <1>1, <1>3, <2>3, <3>1, <3>2, <3>3, <4>1, Calls
        DEF InHandScope, CachedScope, Forget, TypeOK, Principals
      <4>. QED  BY <4>3, <4>4
    <3>. QED  BY <2>1, <3>4
  <2>. QED  BY <2>2, <2>3
<1>4. ASSUME NEW w \in Workers, NEW t \in Tasks, Start(w, t)
      PROVE  CachedScope' /\ \A v \in Workers : Busy(v)' => InHandScope(v)'
  BY <1>1, <1>4 DEF OneSlot, Start, Goto, CachedScope, InHandScope, okta, TypeOK, WorkerTypes
<1>5. CASE UNCHANGED <<okta, worker>> /\ \A u \in Users : cache'[u] \in {cache[u], NoView}
  BY <1>1, <1>5, SameAnswers
  DEF CachedScope, InHandScope, okta, worker, Busy, Principal, CanConvert
<1>6. ASSUME NEW g \in Groups, SyncGet(g) \/ SyncFill(g)
      PROVE  UNCHANGED <<okta, worker>> /\ \A u \in Users : cache'[u] \in {cache[u], NoView}
  BY <1>6, ConfigAssumption DEF SyncGet, SyncFill, TypeOK, Principals
<1>7. ASSUME NEW q \in Principals, Expire(q)
      PROVE  UNCHANGED <<okta, worker>> /\ \A u \in Users : cache'[u] \in {cache[u], NoView}
  BY <1>7 DEF Expire, Forget, TypeOK, Principals
<1>8. ~ \E q \in Principals : OutsideWrite(q)
  BY <1>0, <1>1 DEF OutsideWrite
<1>9. ASSUME NEW w \in Workers, Eof(w), Writes(w)
      PROVE  CachedScope' /\ \A v \in Workers : Busy(v)' => InHandScope(v)'
  <2>1. /\ \A v \in Workers : v = w
        /\ UNCHANGED <<cache, pc, task>> /\ Principal(w)' = Principal(w)
        /\ assigned' = assigned \cup {Principal(w)}
    BY <1>9, WriteEffect DEF OneSlot, Eof, worker, Principal
  <2>. QED  BY <1>1, <2>1 DEF CachedScope, InHandScope
<1>10. ASSUME NEW w \in Workers, Eof(w) \/ Resend(w)
       PROVE  UNCHANGED <<okta, worker, cache>> \/ (Eof(w) /\ Writes(w))
  BY <1>10 DEF Eof, Resend, Carried, Writes
<1>. QED
  BY <1>2, <1>3, <1>4, <1>5, <1>6, <1>7, <1>8, <1>9, <1>10
  DEF Next, Handler, Beside, Crash, vars

LEMMA ScopeInvariant ==
    ASSUME OneSlot
    PROVE  Spec => [](TypeOK /\ ScopeInv)
<1>1. Init => ScopeInv
  BY DEF Init, ScopeInv, CachedScope, Busy, Principals
<1>2. TypeOK /\ TypeOK' /\ ScopeInv /\ [Next]_vars => ScopeInv'
  BY ScopeKept
<1>. QED  BY <1>1, <1>2, TypeCorrect, PTL DEF Spec

\* With one slot, a user who reaches the app through groups is given an
\* assignment of his own only where the operator opted in and the app merges
\* roles, whatever is cached, fails or is read beside it.
THEOREM ConversionsAreOptedInto ==
    ASSUME OneSlot
    PROVE  Spec => ConversionAllowed
<1>. DEFINE Allowed == \A u \in Users \cap (assigned' \ assigned) :
              Through(u) # {} =>
                \/ conf.allowConversion /\ (conf.joinAllRoles \/ conf.samlRolesUnionEnabled)
                \/ outside' # 0
<1>1. ASSUME TypeOK, TypeOK', ScopeInv, [Next]_vars
      PROVE  Allowed
  <2>1. SUFFICES ASSUME NEW u \in Users \cap (assigned' \ assigned), Through(u) # {}, outside' = 0
                 PROVE  CanConvert
    BY DEF CanConvert
  <2>2. outside = 0 /\ \E w \in Workers : Writes(w)
    BY <1>1, <2>1, NoneOutside DEF okta
  <2>3. PICK w \in Workers : Writes(w)
    BY <2>2
  <2>4. assigned' = assigned \cup {Principal(w)}
    BY <1>1, <2>3, WriteEffect
  <2>5. u = Principal(w)
    BY <2>1, <2>4
  <2>6. Busy(w)
    BY <2>3 DEF Writes, Busy
  <2>. QED  BY <1>1, <2>1, <2>2, <2>3, <2>5, <2>6 DEF ScopeInv, InHandScope, Writes
<1>. QED  BY <1>1, ScopeInvariant, TypeCorrect, PTL DEF Spec, ConversionAllowed

-----------------------------------------------------------------------------
(* Conversions and answers.  Besides one slot it takes that no answer given  *)
(* before the task is left in the cache: the cache is off, or there was no   *)
(* task before.                                                              *)

FirstHand == OneSlot /\ (CacheEnabled => MaxTasks <= 1)

\* Of a user, the cache and the task know what Okta answers now.
UserCache ==
    \A u \in Users : cache[u] # NoView =>
      /\ started # 0 /\ cache[u].found /\ cache[u] \in Answers(u)
      /\ \A w \in Workers : Busy(w) => Principal(w) = u

UserInHand(w) ==
    LET p == Principal(w) IN
    p \in Users =>
      /\ pc[w] \in {"fill", "decide"} => seen[w] \in Answers(p)
      /\ pc[w] = "update" => seen[w] \in Answers(p) \/ p \in assigned
      /\ pc[w] \in {"ask", "fill", "assign", "update"} => cache[p] = NoView
      /\ pc[w] = "decide" /\ ~seen[w].found => cache[p] = NoView
      /\ pc[w] = "assign" => Granting(w)

\* Of a group a sync may know what was, but nothing that misleads the task.
Misleads(w, v) == /\ Granting(w) <=> Role(w) \in v.roles
                  /\ ~(Granting(w) <=> Role(w) \in own[Principal(w)])

Known(g, v) ==
    v # NoView =>
      /\ v.found /\ g \in assigned
      /\ started = 0 => v = OwnView(g)
      /\ \A w \in Workers : Busy(w) /\ Principal(w) = g => ~Misleads(w, v)

GroupViews == CacheEnabled => \A g \in Groups : Known(g, cache[g]) /\ Known(g, fetch[g])

GroupInHand(w) ==
    LET p == Principal(w) IN
    p \in Groups /\ pc[w] \in {"fill", "decide"} =>
      IF seen[w].found THEN p \in assigned /\ ~Misleads(w, seen[w]) ELSE p \notin assigned

NothingCached == ~CacheEnabled => \A p \in Principals : cache[p] = NoView

\* The part that counts until an administrator writes.
FreshViews ==
    /\ UserCache /\ GroupViews
    /\ \A w \in Workers : Busy(w) => UserInHand(w) /\ GroupInHand(w)

FreshInv ==
    /\ NothingCached
    /\ \A w \in Workers : Busy(w) => started # 0
    /\ outside = 0 => FreshViews

\* What does not depend on administrators.
LEMMA CountsKept ==
    ASSUME TypeOK, FreshInv, [Next]_vars
    PROVE  NothingCached' /\ \A w \in Workers : Busy(w)' => started' # 0
<1>1. ASSUME NEW w \in Workers, Handler(w)
      PROVE  NothingCached' /\ \A v \in Workers : Busy(v)' => started' # 0
  <2>. USE DEF Handler, Call, Settings, Get, Hit, HitGone, Ask, AskFails, Fill,
               DecideAbsent, DecideFound, Assign, Update, WriteFails, Eof, Resend
  <2>1. NothingCached'
    BY <1>1 DEF FreshInv, NothingCached, Forget, TypeOK
  <2>2. started' = started
    BY <1>1 DEF counter
  <2>3. \A v \in Workers : Busy(v)' => Busy(v)
    BY <1>1 DEF NotDone, Retry, StartOver, Finish, Goto, Busy, worker, TypeOK, WorkerTypes
  <2>. QED  BY <2>1, <2>2, <2>3 DEF FreshInv
<1>2. CASE Restart
  BY <1>2 DEF Restart, NothingCached, Busy
<1>3. ASSUME NEW w \in Workers, NEW t \in Tasks, Start(w, t)
      PROVE  NothingCached' /\ \A v \in Workers : Busy(v)' => started' # 0
  BY <1>3 DEF Start, FreshInv, NothingCached, TypeOK
<1>4. ASSUME NEW p \in Principals, Expire(p) \/ OutsideWrite(p)
      PROVE  NothingCached' /\ \A v \in Workers : Busy(v)' => started' # 0
  BY <1>4 DEF Expire, OutsideWrite, Forget, FreshInv, NothingCached, Busy, worker, counter, TypeOK
<1>5. ASSUME NEW g \in Groups, SyncGet(g) \/ SyncFill(g)
      PROVE  NothingCached' /\ \A v \in Workers : Busy(v)' => started' # 0
  BY <1>5 DEF SyncGet, SyncFill, FreshInv, NothingCached, Busy, worker, counter, TypeOK
<1>6. CASE UNCHANGED vars
  BY <1>6 DEF vars, FreshInv, NothingCached, Busy, worker, counter
<1>. QED  BY <1>1, <1>2, <1>3, <1>4, <1>5, <1>6 DEF Next, Beside, Crash

\* A write is preceded by the client dropping what it knew of the user, and
\* does the task's work on a group.
LEMMA WriteLeavesFresh ==
    ASSUME OneSlot, TypeOK, TypeOK', FreshInv, FreshViews, NEW w \in Workers,
           Call(w) \/ UNCHANGED worker, Writes(w), UNCHANGED <<conf, cache, fetch, started>>
    PROVE  FreshViews'
<1>1. PICK p \in Principals : p = Principal(w)
  BY WriteEffect
<1>2. /\ Busy(w) /\ UserInHand(w) /\ started # 0 /\ \A v \in Workers : v = w
      /\ assigned' = assigned \cup {p}
      /\ pc[w] = "update" => own'[p] = Target(w)
      /\ pc[w] = "assign" /\ p \in Groups /\ p \in assigned => own'[p] = own[p]
  BY <1>1, WriteEffect, ConfigAssumption DEF FreshViews, FreshInv, Writes, Busy, OneSlot
<1>3. UserCache'
  <2>1. \A u \in Users : cache[u] = NoView
    BY <1>1, <1>2 DEF FreshViews, UserCache, UserInHand, Writes
  <2>. QED  BY <2>1 DEF UserCache
<1>4. Busy(w)' => Principal(w)' = p /\ Role(w)' = Role(w) /\ (Granting(w)' <=> Granting(w))
  BY <1>1, CallGoes DEF worker, Principal, Role, Granting
<1>5. ASSUME NEW g \in Groups, NEW v \in View, Known(g, v)
      PROVE  Known(g, v)'
  <2>1. v.found /\ g \in assigned /\ (Principal(w) = g => ~Misleads(w, v))
    BY <1>2, <1>5, ConfigAssumption DEF Known
  <2>2. ASSUME Busy(w)', p = g
        PROVE  ~Misleads(w, v)'
    BY <1>1, <1>2, <1>4, <2>1, <2>2 DEF Misleads, Target, Writes
  <2>. QED  BY <1>2, <1>4, <2>1, <2>2 DEF Known
<1>6. GroupViews'
  <2>1. ASSUME NEW g \in Groups, CacheEnabled
        PROVE  Known(g, cache[g])' /\ Known(g, fetch[g])'
    <3>1. PICK c, f : c = cache[g] /\ f = fetch[g]
      OBVIOUS
    <3>2. c \in View \cup {NoView} /\ f \in View \cup {NoView} /\ Known(g, c) /\ Known(g, f)
      BY <2>1, <3>1 DEF FreshViews, GroupViews, TypeOK, Principals
    <3>3. Known(g, c)' /\ Known(g, f)'
      BY <1>5, <3>2 DEF Known
    <3>. QED  BY <3>1, <3>3
  <2>. QED  BY <2>1 DEF GroupViews
<1>7. ASSUME Busy(w)'
      PROVE  UserInHand(w)' /\ GroupInHand(w)'
  <2>1. CASE pc'[w] \in {"idle", "settings", "get", "hit"}
    BY <2>1 DEF UserInHand, GroupInHand
  <2>2. CASE pc'[w] \notin {"idle", "settings", "get", "hit"}
    <3>1. pc'[w] = pc[w]
      BY <2>2, WritesLeave DEF worker
    <3>. QED  BY <1>1, <1>2, <1>4, <1>7, <3>1 DEF UserInHand, GroupInHand, Writes
  <2>. QED  BY <2>1, <2>2
<1>. QED  BY <1>2, <1>3, <1>6, <1>7 DEF FreshViews

\* What is cached or on its way to the sync stays as it was, is dropped, or is
\* replaced by something as good.
LEMMA ViewsStay ==
    ASSUME OneSlot, TypeOK, TypeOK', FreshViews, UNCHANGED <<okta, conf, started>>,
           \A w \in Workers : Busy(w)' => /\ Busy(w) /\ Principal(w)' = Principal(w)
                                          /\ Role(w)' = Role(w)
                                          /\ Granting(w)' <=> Granting(w),
           \A u \in Users : \/ cache'[u] \in {cache[u], NoView}
                            \/ /\ started # 0 /\ cache'[u].found /\ cache'[u] \in Answers(u)
                               /\ \A w \in Workers : Busy(w) => Principal(w) = u,
           CacheEnabled => \A g \in Groups :
             /\ cache'[g] \in {cache[g], fetch[g], NoView} \/ Known(g, cache'[g])
             /\ fetch'[g] \in {fetch[g], NoView} \/ Known(g, fetch'[g])
    PROVE  UserCache' /\ GroupViews'
<1>1. UserCache'
  <2>1. SUFFICES ASSUME NEW u \in Users, cache'[u] # NoView
                 PROVE  /\ started' # 0 /\ cache'[u].found /\ cache'[u] \in Answers(u)'
                        /\ \A w \in Workers : Busy(w)' => Principal(w)' = u
    BY DEF UserCache
  <2>2. Answers(u)' = Answers(u)
    BY SameAnswers
  <2>3. \A w \in Workers : Busy(w)' => Busy(w) /\ Principal(w)' = Principal(w)
    OBVIOUS
  <2>4. CASE cache'[u] \in {cache[u], NoView}
    BY <2>1, <2>2, <2>3, <2>4 DEF FreshViews, UserCache
  <2>5. CASE /\ started # 0 /\ cache'[u].found /\ cache'[u] \in Answers(u)
             /\ \A w \in Workers : Busy(w) => Principal(w) = u
    BY <2>1, <2>2, <2>3, <2>5
  <2>. QED  BY <2>4, <2>5
<1>2. GroupViews'
  <2>1. SUFFICES ASSUME NEW g \in Groups, CacheEnabled
                 PROVE  Known(g, cache[g])' /\ Known(g, fetch[g])'
    BY DEF GroupViews
  <2>2. PICK c, f : c = cache'[g] /\ f = fetch'[g]
    OBVIOUS
  <2>3. Known(g, c) /\ Known(g, f)
    <3>1. Known(g, cache[g]) /\ Known(g, fetch[g]) /\ Known(g, NoView)
      BY <2>1 DEF FreshViews, GroupViews, Known
    <3>. QED  BY <2>1, <2>2, <3>1
  <2>4. ASSUME NEW v, Known(g, v)
        PROVE  Known(g, v)'
    <3>1. ASSUME NEW w \in Workers, Busy(w)', Principal(w)' = g, v # NoView
          PROVE  ~Misleads(w, v)'
      <4>1. /\ Busy(w) /\ Principal(w) = g /\ Role(w)' = Role(w) /\ own' = own
            /\ Granting(w)' <=> Granting(w)
        BY <3>1 DEF okta
      <4>2. ~Misleads(w, v)
        BY <2>4, <3>1, <4>1 DEF Known
      <4>. QED  BY <3>1, <4>1, <4>2 DEF Misleads, Granting
    <3>. QED  BY <2>4, <3>1 DEF Known, OwnView, okta
  <2>. QED  BY <2>2, <2>3, <2>4
<1>. QED  BY <1>1, <1>2

\* A call that leaves Okta alone.
LEMMA CallLeavesFresh ==
    ASSUME OneSlot, TypeOK, TypeOK', FreshInv, FreshViews, NEW w \in Workers, Call(w),
           UNCHANGED <<okta, conf>>
    PROVE  FreshViews'
<1>2. Busy(w)
  BY DEF Busy, Call, Settings, Get, Hit, HitGone, Ask, AskFails, Fill, DecideAbsent,
         DecideFound, Assign, Update, WriteFails
<1>1. PICK p \in Principals : p = Principal(w)
  BY <1>2 DEF TypeOK, WorkerTypes, Tasks, Principal, Busy
<1>3. /\ UserInHand(w) /\ GroupInHand(w) /\ started # 0 /\ \A v \in Workers : v = w
      /\ p \in Users => p \notin Groups
  BY <1>2, ConfigAssumption DEF FreshViews, FreshInv, OneSlot
<1>4. Busy(w)' => Principal(w)' = p /\ Role(w)' = Role(w) /\ (Granting(w)' <=> Granting(w))
  BY <1>1, CallGoes
<1>5. started' = started /\ fetch' = fetch
  BY DEF Call, Settings, Get, Hit, HitGone, Ask, AskFails, Fill, DecideAbsent,
         DecideFound, Assign, Update, WriteFails, counter
<1>6. \/ \A q \in Principals : cache'[q] \in {cache[q], NoView}
      \/ /\ pc[w] = "fill" /\ seen[w].found /\ CacheEnabled
         /\ cache' = [cache EXCEPT ![p] = seen[w]]
  BY <1>1 DEF Call, Settings, Get, Hit, HitGone, Ask, AskFails, Fill, DecideAbsent,
              DecideFound, Assign, Update, WriteFails, Forget, TypeOK
<1>7. UserCache' /\ GroupViews'
  <2>1. CASE \A q \in Principals : cache'[q] \in {cache[q], NoView}
    BY <1>1, <1>2, <1>3, <1>4, <1>5, <2>1, ViewsStay DEF Principals
  <2>2. CASE /\ pc[w] = "fill" /\ seen[w].found /\ CacheEnabled
             /\ cache' = [cache EXCEPT ![p] = seen[w]]
    <3>1. ASSUME NEW u \in Users
          PROVE  \/ cache'[u] \in {cache[u], NoView}
                 \/ /\ started # 0 /\ cache'[u].found /\ cache'[u] \in Answers(u)
                    /\ \A v \in Workers : Busy(v) => Principal(v) = u
      BY <1>1, <1>3, <2>2 DEF UserInHand, TypeOK, Principals
    <3>2. ASSUME NEW g \in Groups
          PROVE  cache'[g] = cache[g] \/ Known(g, cache'[g])
      BY <1>1, <1>3, <2>2 DEF GroupInHand, Known, TypeOK, Principals
    <3>. QED  BY <1>1, <1>2, <1>3, <1>4, <1>5, <3>1, <3>2, ViewsStay
  <2>. QED  BY <1>6, <2>1, <2>2
<1>8. ASSUME Busy(w)'
      PROVE  UserInHand(w)' /\ GroupInHand(w)'
  <2>1. CASE pc'[w] \in {"idle", "settings", "get", "hit"}
    BY <2>1 DEF UserInHand, GroupInHand
  <2>2. CASE pc'[w] \notin {"idle", "settings", "get", "hit"}
    <3>1. Answers(p)' = Answers(p) /\ assigned' = assigned /\ own' = own
      BY SameAnswers DEF okta
    <3>2. UserInHand(w)'
      <4>1. SUFFICES ASSUME p \in Users
                     PROVE  /\ pc'[w] \in {"fill", "decide"} => seen'[w] \in Answers(p)
                            /\ pc'[w] = "update" => seen'[w] \in Answers(p) \/ p \in assigned
                            /\ pc'[w] \in {"ask", "fill", "assign", "update"} => cache'[p] = NoView
                            /\ pc'[w] = "decide" /\ ~seen'[w].found => cache'[p] = NoView
                            /\ pc'[w] = "assign" => Granting(w)
        BY <1>4, <1>8, <3>1 DEF UserInHand
      <4>2. /\ pc[w] \in {"fill", "decide"} => seen[w] \in Answers(p)
            /\ pc[w] = "update" => seen[w] \in Answers(p) \/ p \in assigned
            /\ pc[w] \in {"ask", "fill", "assign", "update"} => cache[p] = NoView
            /\ pc[w] = "decide" /\ ~seen[w].found => cache[p] = NoView
            /\ pc[w] = "assign" => Granting(w)
            /\ cache[p] # NoView => cache[p].found /\ cache[p] \in Answers(p)
        BY <1>1, <1>3, <4>1 DEF UserInHand, FreshViews, UserCache
      <4>. QED
        BY <1>1, <1>3, <2>2, <4>1, <4>2, Calls DEF Forget, TypeOK, Writes
    <3>3. GroupInHand(w)'
      <4>1. SUFFICES ASSUME p \in Groups, pc'[w] \in {"fill", "decide"}
                     PROVE  IF seen'[w].found THEN p \in assigned /\ ~Misleads(w, seen'[w])
                                              ELSE p \notin assigned
        BY <1>1, <1>4, <1>8, <3>1 DEF GroupInHand, Misleads
      <4>2. \A v \in Answers(p) :
              IF v.found THEN p \in assigned /\ ~Misleads(w, v) ELSE p \notin assigned
        BY <1>1, <1>3, <4>1 DEF Answers, Absent, OwnView, Misleads
      <4>3. cache[p] # NoView => cache[p].found /\ p \in assigned /\ ~Misleads(w, cache[p])
        BY <1>1, <1>2, <4>1 DEF FreshInv, NothingCached, FreshViews, GroupViews, Known
      <4>. QED
        BY <1>1, <1>3, <2>2, <4>1, <4>2, <4>3, Calls DEF GroupInHand, Writes
    <3>. QED  BY <3>2, <3>3
  <2>. QED  BY <2>1, <2>2
<1>. QED  BY <1>3, <1>7, <1>8 DEF FreshViews

\* A task begins: if it may find anything cached, it is the first one.
LEMMA StartLeavesFresh ==
    ASSUME FirstHand, TypeOK, TypeOK', FreshInv, FreshViews,
           NEW w \in Workers, NEW t \in Tasks, Start(w, t), UNCHANGED conf
    PROVE  FreshViews'
<1>1. /\ \A v \in Workers : v = w
      /\ \A v \in Workers : ~Busy(v)
      /\ pc'[w] = "settings" /\ task'[w] = t /\ t.principal \in Principals
      /\ Principal(w)' = t.principal /\ Role(w)' = t.role /\ (Granting(w)' <=> t.op = "grant")
      /\ UNCHANGED <<okta, cache, fetch>> /\ started' # 0
  BY DEF Start, Goto, FirstHand, OneSlot, TypeOK, WorkerTypes, Busy, Principal, Role,
         Granting, Tasks
<1>2. CacheEnabled => started = 0
  BY ConfigAssumption DEF Start, FirstHand, TypeOK
<1>3. UserCache'
  BY <1>1, <1>2 DEF FreshInv, NothingCached, FreshViews, UserCache, Principals
<1>4. GroupViews'
  <2>1. SUFFICES ASSUME CacheEnabled, NEW g \in Groups,
                        NEW v \in {cache[g], fetch[g]}
                 PROVE  Known(g, v)'
    BY <1>1 DEF GroupViews
  <2>2. Known(g, v) /\ started = 0
    BY <1>2, <2>1 DEF FreshViews, GroupViews
  <2>3. v # NoView => v.found /\ g \in assigned /\ v.roles = own[g]
    BY <2>2 DEF Known, OwnView
  <2>. QED  BY <1>1, <2>3 DEF Known, Misleads, okta
<1>5. UserInHand(w)' /\ GroupInHand(w)'
  BY <1>1 DEF UserInHand, GroupInHand
<1>. QED  BY <1>1, <1>3, <1>4, <1>5 DEF FreshViews

LEMMA FreshKept ==
    ASSUME FirstHand, TypeOK, TypeOK', FreshInv, [Next]_vars
    PROVE  FreshInv'
<1>1. SUFFICES ASSUME outside' = 0
               PROVE  FreshViews'
  BY CountsKept DEF FreshInv
<1>2. outside = 0 /\ UNCHANGED conf /\ FreshViews /\ OneSlot
  BY <1>1, NoneOutside DEF FreshInv, FirstHand
<1>3. ASSUME NEW w \in Workers, Call(w) \/ (Eof(w) /\ Writes(w))
      PROVE  FreshViews'
  <2>1. \/ Writes(w) /\ UNCHANGED <<cache, fetch, started>>
        \/ Call(w) /\ UNCHANGED okta
    <3>1. CASE Eof(w) /\ Writes(w)
      BY <3>1 DEF Eof, counter
    <3>2. CASE Call(w)
      BY <3>2, CallWrites
    <3>. QED  BY <1>3, <3>1, <3>2
  <2>2. Call(w) \/ UNCHANGED worker
    BY <1>3 DEF Eof
  <2>. QED  BY <1>2, <2>1, <2>2, CallLeavesFresh, WriteLeavesFresh
<1>4. CASE Restart
  BY <1>4
  DEF Restart, FreshViews, UserCache, GroupViews, Known, Busy, Principals
<1>5. ASSUME NEW w \in Workers, NEW t \in Tasks, Start(w, t)
      PROVE  FreshViews'
  BY <1>2, <1>5, StartLeavesFresh
<1>6. CASE /\ UNCHANGED <<okta, worker, started>>
           /\ \A u \in Users : cache'[u] \in {cache[u], NoView}
           /\ CacheEnabled => \A g \in Groups :
                /\ cache'[g] \in {cache[g], fetch[g], NoView}
                /\ fetch'[g] \in {fetch[g], NoView} \/ Known(g, fetch'[g])
  <2>1. \A w \in Workers : /\ Busy(w)' <=> Busy(w)
                           /\ Principal(w)' = Principal(w) /\ Role(w)' = Role(w)
                           /\ Granting(w)' <=> Granting(w)
    BY <1>6 DEF worker, Busy, Principal, Role, Granting
  <2>2. UserCache' /\ GroupViews'
    BY <1>2, <1>6, <2>1, ViewsStay
  <2>3. ASSUME NEW w \in Workers, Busy(w)
        PROVE  UserInHand(w)' /\ GroupInHand(w)'
    <3>1. UserInHand(w) /\ GroupInHand(w) /\ UNCHANGED <<pc, seen, own, assigned>>
      BY <1>2, <1>6, <2>3 DEF FreshViews, worker, okta
    <3>2. Answers(Principal(w))' = Answers(Principal(w))
      BY <1>2, <1>6, <2>1, SameAnswers DEF Answers
    <3>. QED  BY <1>6, <2>1, <3>1, <3>2 DEF UserInHand, GroupInHand, Misleads
  <2>. QED  BY <2>1, <2>2, <2>3 DEF FreshViews
<1>7. ASSUME NEW g \in Groups, SyncGet(g)
      PROVE  FreshViews'
  <2>1. Known(g, OwnView(g))
    BY <1>7 DEF SyncGet, Known, OwnView, Misleads
  <2>2. fetch'[g] = OwnView(g) /\ \A h \in Groups : h # g => fetch'[h] = fetch[h]
    BY <1>7 DEF SyncGet, TypeOK
  <2>. QED  BY <1>6, <1>7, <2>1, <2>2 DEF SyncGet, counter
<1>8. ASSUME NEW g \in Groups, SyncFill(g)
      PROVE  FreshViews'
  BY <1>6, <1>8, ConfigAssumption DEF SyncFill, counter, TypeOK, Principals
<1>9. ASSUME NEW p \in Principals, Expire(p)
      PROVE  FreshViews'
  BY <1>6, <1>9 DEF Expire, Forget, counter, TypeOK, Principals
<1>10. ~ \E p \in Principals : OutsideWrite(p)
  BY <1>1, <1>2 DEF OutsideWrite
<1>11. UNCHANGED <<okta, cache, worker, fetch, counter>> => FreshViews'
  BY <1>6 DEF counter
<1>12. ASSUME NEW w \in Workers, Handler(w)
       PROVE  FreshViews'
  <2>1. \/ Call(w)
        \/ Eof(w) /\ Writes(w)
        \/ UNCHANGED <<okta, cache, worker, fetch, counter>>
    BY <1>12 DEF Handler, Eof, Resend, Carried, Writes
  <2>. QED  BY <1>3, <1>11, <2>1
<1>. QED
  BY <1>4, <1>5, <1>7, <1>8, <1>9, <1>10, <1>11, <1>12 DEF Next, Beside, Crash, vars

LEMMA FreshInvariant ==
    ASSUME FirstHand
    PROVE  Spec => [](TypeOK /\ ScopeInv /\ FreshInv)
<1>1. Init => FreshInv
  BY DEF Init, FreshInv, NothingCached, FreshViews, UserCache, GroupViews, Known, Busy, Principals
<1>2. TypeOK /\ TypeOK' /\ FreshInv /\ [Next]_vars => FreshInv'
  BY FreshKept
<1>3. Spec => [](TypeOK /\ ScopeInv)
  BY ScopeInvariant DEF FirstHand
<1>. QED  BY <1>1, <1>2, <1>3, TypeCorrect, PTL DEF Spec

\* With one slot and no cached answer of an earlier task, a user's first own
\* assignment holds the roles the groups gave him at that moment, changed by
\* the task's role: the list a conversion writes back is not out of date.
THEOREM ConversionsKeepRoles ==
    ASSUME FirstHand
    PROVE  Spec => ConversionKeepsRoles
<1>. DEFINE Keeps == \A u \in Users \cap (assigned' \ assigned) :
              \/ outside' # 0
              \/ \E w \in Workers : \E v \in Answers(u) :
                   Busy(w) /\ Principal(w) = u /\ own'[u] = Applied(w, v.roles)
<1>1. ASSUME TypeOK, TypeOK', ScopeInv, FreshInv, [Next]_vars
      PROVE  Keeps
  <2>1. SUFFICES ASSUME NEW u \in Users \cap (assigned' \ assigned), outside' = 0
                 PROVE  \E w \in Workers : \E v \in Answers(u) :
                          Busy(w) /\ Principal(w) = u /\ own'[u] = Applied(w, v.roles)
    OBVIOUS
  <2>2. outside = 0 /\ \E w \in Workers : Writes(w)
    BY <1>1, <2>1, NoneOutside DEF okta
  <2>3. PICK w \in Workers : Writes(w)
    BY <2>2
  <2>4. u = Principal(w) /\ Busy(w)
    BY <1>1, <2>1, <2>3, WriteEffect DEF Writes, Busy
  <2>5. UserInHand(w) /\ InHandScope(w)
    BY <1>1, <2>2, <2>4 DEF FreshInv, FreshViews, ScopeInv
  <2>6. CASE pc[w] = "assign"
    <3>1. own'[u] = {Role(w)} /\ Granting(w) /\ Through(u) = {}
      BY <1>1, <2>1, <2>3, <2>4, <2>5, <2>6, WriteEffect DEF UserInHand, InHandScope
    <3>2. Absent \in Answers(u) /\ Absent.roles = {}
      BY <2>1, <3>1 DEF Answers, Absent
    <3>. QED  BY <2>4, <3>1, <3>2 DEF Applied
  <2>7. CASE pc[w] = "update"
    <3>1. own'[u] = Target(w) /\ seen[w] \in Answers(u)
      BY <1>1, <2>1, <2>3, <2>4, <2>5, <2>7, WriteEffect DEF UserInHand
    <3>. QED  BY <2>4, <3>1 DEF Applied, Target
  <2>. QED  BY <2>3, <2>6, <2>7 DEF Writes
<1>. QED  BY <1>1, FreshInvariant, TypeCorrect, PTL DEF Spec, ConversionKeepsRoles

\* Only the two decisions answer that there was nothing to do.
LEMMA NothingToDo ==
    ASSUME OneSlot, TypeOK, NEW w \in Workers, Busy(w), ~Busy(w)', [Next]_vars,
           outcome'[w] \in {"exists", "revoked", "gone"}
    PROVE  /\ pc[w] = "decide"
           /\ \/ ~seen[w].found /\ ~Granting(w) /\ outcome'[w] = "gone"
              \/ /\ seen[w].found /\ AlreadyDone(w)
                 /\ outcome'[w] = IF Granting(w) THEN "exists" ELSE "revoked"
<1>1. ~Restart
  BY DEF Restart, TypeOK, WorkerTypes
<1>2. Call(w)
  BY <1>1
  DEF OneSlot, Next, Handler, Eof, Resend, Beside, Crash, Start, Expire, SyncGet, SyncFill,
      OutsideWrite, Busy, worker, counter, vars
<1>3. ~Settings(w) /\ ~HitGone(w) /\ ~AskFails(w)
  BY DEF Settings, HitGone, AskFails, NotDone, Retry, StartOver, Finish, Goto, Busy,
         TypeOK, WorkerTypes
<1>4. ~Get(w) /\ ~Hit(w) /\ ~Ask(w) /\ ~Fill(w)
  BY DEF Get, Hit, Ask, Fill, Goto, Busy, TypeOK, WorkerTypes
<1>5. ~Assign(w) /\ ~Update(w)
  BY DEF Assign, Update, Finish, Goto, Busy, TypeOK, WorkerTypes
<1>6. ~WriteFails(w)
  BY DEF WriteFails, NotDone, Retry, StartOver, Finish, Goto, Busy, TypeOK, WorkerTypes
<1>7. DecideAbsent(w) \/ DecideFound(w)
  BY <1>2, <1>3, <1>4, <1>5, <1>6 DEF Call
<1>. QED
  BY <1>7 DEF DecideAbsent, DecideFound, Finish, Goto, Busy, TypeOK, WorkerTypes

\* With one slot and no cached answer of an earlier task, "already exists",
\* "already revoked" and the silent success of a revoke are true of Okta when
\* they are given, also where a sync fills the cache with what it read before.
THEOREM AnswersAreTrue ==
    ASSUME FirstHand
    PROVE  Spec => AnsweredTruly
<1>. DEFINE Truly == \A w \in Workers : Busy(w) /\ ~Busy(w)' /\ outside = 0 =>
         LET A == Answers(Principal(w)) IN
         /\ outcome'[w] = "exists"  => \E v \in A : Role(w) \in v.roles
         /\ outcome'[w] = "revoked" => \E v \in A : Role(w) \notin v.roles
         /\ outcome'[w] = "gone"    => A = {Absent}
<1>1. ASSUME TypeOK, FreshInv, [Next]_vars
      PROVE  Truly
  <2>1. SUFFICES ASSUME NEW w \in Workers, Busy(w), ~Busy(w)', outside = 0,
                        outcome'[w] \in {"exists", "revoked", "gone"}
                 PROVE  LET A == Answers(Principal(w)) IN
                        /\ outcome'[w] = "exists"  => \E v \in A : Role(w) \in v.roles
                        /\ outcome'[w] = "revoked" => \E v \in A : Role(w) \notin v.roles
                        /\ outcome'[w] = "gone"    => A = {Absent}
    OBVIOUS
  <2>2. UserInHand(w) /\ GroupInHand(w)
    BY <1>1, <2>1 DEF FreshInv, FreshViews
  <2>3. /\ pc[w] = "decide"
        /\ \/ ~seen[w].found /\ ~Granting(w) /\ outcome'[w] = "gone"
           \/ /\ seen[w].found /\ AlreadyDone(w)
              /\ outcome'[w] = IF Granting(w) THEN "exists" ELSE "revoked"
    BY <1>1, <2>1, NothingToDo DEF FirstHand
  <2>4. PICK p \in Principals : p = Principal(w)
    BY <1>1, <2>3 DEF TypeOK, WorkerTypes, Tasks, Principal
  <2>5. CASE p \in Users
    <3>1. seen[w] \in Answers(p)
      BY <2>2, <2>3, <2>4, <2>5 DEF UserInHand
    <3>2. ~seen[w].found => Answers(p) = {Absent}
      BY <3>1 DEF Answers, OwnView
    <3>. QED  BY <2>3, <2>4, <3>1, <3>2 DEF AlreadyDone
  <2>6. CASE p \in Groups
    <3>1. IF seen[w].found THEN p \in assigned /\ ~Misleads(w, seen[w]) ELSE p \notin assigned
      BY <2>2, <2>3, <2>4, <2>6 DEF GroupInHand
    <3>2. Answers(p) = IF p \in assigned THEN {OwnView(p)} ELSE {Absent}
      BY <2>6, ConfigAssumption DEF Answers
    <3>3. OwnView(p).roles = own[p]
      BY DEF OwnView
    <3>. QED  BY <2>3, <2>4, <3>1, <3>2, <3>3 DEF AlreadyDone, Misleads
  <2>. QED  BY <2>4, <2>5, <2>6 DEF Principals
<1>. QED  BY <1>1, FreshInvariant, TypeCorrect, PTL DEF Spec, AnsweredTruly
=============================================================================
