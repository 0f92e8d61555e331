-------------------------- MODULE SharedCacheProofs --------------------------
(***************************************************************************)
(* Proofs about SharedCache, for any groups, lists of roles and slots, any *)
(* length of requests and any time to live: the types are right, and, where *)
(* the time to live is not zero, nothing older is reported or decided on.   *)
(*                                                                         *)
(* IInv bounds the age of every answer that is on its way or stored.  A     *)
(* tick adds one to both sides of each bound; a write only makes lists      *)
(* younger.                                                                *)
(***************************************************************************)
EXTENDS SharedCache, TLAPS

USE CacheAssumption DEF CacheAssumption, Readers, Urls, Bound

\* A view of a URL is a view, and the views of a URL cover what it shows.
LEMMA ViewOfUrl == \A u \in Urls : [Shown(u) -> Lists] \subseteq Views
  BY DEF Views

LEMMA ShownGroups == \A u \in Urls : Shown(u) \subseteq Groups
  BY DEF Shown

LEMMA InitInv == Init => IInv
<1> SUFFICES ASSUME Init PROVE IInv
  OBVIOUS
<1>1. TypeOK
  BY DEF Init, TypeOK
<1>2. HeldNow /\ FlightsKnown /\ StoredKnown /\ TasksOnItems
  BY DEF Init, HeldNow, FlightsKnown, StoredKnown, TasksOnItems
<1> QED
  BY <1>1, <1>2 DEF IInv

\* What is given to a reader is of the types that TypeOK asks for.
LEMMA DeliverTypes ==
  ASSUME TypeOK, NEW r \in Readers, NEW u \in Urls, NEW v \in [Shown(u) -> Lists],
         Deliver(r, v)
  PROVE  /\ pc' \in [Readers -> {"idle", "fill", "decide", "write"}]
         /\ got' \in [Readers -> Views \cup {Nothing}]
         /\ age' \in [Readers -> 0 .. MaxFlight]
         /\ reported' \in [Groups -> Lists \cup {Nothing}]
         /\ \A q \in Readers : pc'[q] = "fill" =>
              q # r /\ pc[q] = "fill" /\ got'[q] = got[q] /\ age'[q] = age[q]
<1>1. v \in Views
  BY ViewOfUrl
<1>2. \A p \in DOMAIN v : v[p] \in Lists
  OBVIOUS
<1>3. age' \in [Readers -> 0 .. MaxFlight]
  BY DEF Deliver, TypeOK
<1>4. reported' \in [Groups -> Lists \cup {Nothing}]
  BY <1>2 DEF Deliver, TypeOK
<1>5. CASE r = Sync
  BY <1>3, <1>4, <1>5 DEF Deliver, TypeOK
<1>6. CASE r # Sync
  BY <1>1, <1>3, <1>4, <1>6 DEF Deliver, TypeOK
<1> QED
  BY <1>5, <1>6

LEMMA DeliverOverdue ==
  ASSUME NEW r \in Readers, NEW u \in Urls, NEW v \in [Shown(u) -> Lists], Deliver(r, v)
  PROVE  overdue' \subseteq Groups
  BY ShownGroups DEF Deliver

\* Answers that are on their way are left alone, or made younger, by a step
\* that ages neither them nor what they say.
LEMMA HitInv ==
  ASSUME IInv, NEW r \in Readers, NEW u \in Urls, Hit(r, u)
  PROVE  IInv'
<1> DEFINE v == cache[u].view
<1>1. v \in [Shown(u) -> Lists] /\ Deliver(r, v) /\ UNCHANGED <<held, since, cache>>
  BY DEF Hit, Used, IInv, StoredKnown
<1>2. /\ url' \in [Readers -> Urls]
      /\ \A q \in Readers : q # r => url'[q] = url[q]
      /\ r # Sync => url'[r] = u /\ u \in Groups
  BY <1>1 DEF Hit, MayRead, Deliver, IInv, TypeOK
<1>7. overdue' \subseteq Groups
  BY <1>1, DeliverOverdue
<1>3. TypeOK /\ TypeOK'
  BY <1>1, <1>2, <1>7, DeliverTypes DEF IInv, TypeOK
<1>4. HeldNow' /\ StoredKnown'
  BY <1>1 DEF IInv, HeldNow, StoredKnown, NoOlder
<1>5. FlightsKnown'
  BY <1>1, <1>2, <1>3, DeliverTypes DEF IInv, FlightsKnown, NoOlder
<1>6. TasksOnItems'
  BY <1>1, <1>2, <1>3 DEF IInv, TasksOnItems, Deliver, TypeOK
<1> QED
  BY <1>3, <1>4, <1>5, <1>6 DEF IInv

LEMMA AskInv ==
  ASSUME IInv, NEW r \in Readers, NEW u \in Urls, Ask(r, u)
  PROVE  IInv'
<1> DEFINE v == [p \in Shown(u) |-> held[p]]
<1>1. v \in [Shown(u) -> Lists] /\ v \in Views /\ NoOlder(v, 0)
  BY ViewOfUrl, ShownGroups DEF IInv, TypeOK, HeldNow, NoOlder
<1>2. UNCHANGED <<held, cache, age, reported, since, overdue>>
  BY DEF Ask
<1>3. TypeOK'
  BY <1>1, <1>2 DEF Ask, IInv, TypeOK
<1>4. HeldNow' /\ StoredKnown'
  BY <1>2 DEF IInv, HeldNow, StoredKnown, NoOlder
<1>5. FlightsKnown'
  <2> SUFFICES ASSUME NEW q \in Readers, pc'[q] = "fill"
               PROVE  /\ got'[q] \in [Shown(url'[q]) -> Lists]
                      /\ \A p \in DOMAIN got'[q] : since'[p][got'[q][p]] <= age'[q]
    BY DEF FlightsKnown, NoOlder, Shown
  <2>1. CASE q = r
    <3>1. got'[q] = v /\ url'[q] = u /\ age[q] >= 0
      BY <2>1 DEF Ask, IInv, TypeOK
    <3>2. \A p \in Shown(u) : since[p][v[p]] = 0
      BY ShownGroups DEF IInv, HeldNow
    <3> QED
      BY <1>1, <1>2, <3>1, <3>2 DEF NoOlder
  <2>2. CASE q # r
    BY <1>2, <2>2 DEF Ask, IInv, TypeOK, FlightsKnown, NoOlder
  <2> QED
    BY <2>1, <2>2
<1>6. TasksOnItems'
  BY DEF Ask, MayRead, IInv, TasksOnItems, TypeOK
<1> QED
  BY <1>3, <1>4, <1>5, <1>6 DEF IInv

LEMMA FillInv ==
  ASSUME IInv, NEW r \in Readers, Fill(r)
  PROVE  IInv'
<1> DEFINE u == url[r]
           v == got[r]
           stores == cache' = [cache EXCEPT ![u] = [view |-> v, age |-> 0]]
<1>1. /\ pc[r] = "fill" /\ Deliver(r, v) /\ UNCHANGED <<held, since>>
      /\ u \in Urls /\ v \in [Shown(u) -> Lists] /\ NoOlder(v, MaxFlight)
  <2>1. pc[r] = "fill" /\ Deliver(r, v) /\ UNCHANGED <<held, since>> /\ u \in Urls
    BY DEF Fill, IInv, TypeOK
  <2>2. v \in [Shown(u) -> Lists] /\ NoOlder(v, age[r]) /\ age[r] \in 0 .. MaxFlight
    BY <2>1 DEF IInv, FlightsKnown, TypeOK
  <2>3. \A p \in Shown(u) : since[p][v[p]] \in Nat
    BY <2>1, <2>2, ShownGroups DEF IInv, TypeOK
  <2> QED
    BY <2>1, <2>2, <2>3 DEF NoOlder
<1>2. stores \/ UNCHANGED cache
  BY DEF Fill
<1>3. url' \in [Readers -> Urls] /\ \A q \in Readers : q # r => url'[q] = url[q]
  BY <1>1 DEF Fill, Deliver, IInv, TypeOK
<1>4. [view |-> v, age |-> 0] \in Entries
  BY <1>1, ViewOfUrl DEF Entries
<1>10. overdue' \subseteq Groups
  BY <1>1, DeliverOverdue
<1>5. TypeOK /\ TypeOK'
  BY <1>1, <1>2, <1>3, <1>4, <1>10, DeliverTypes DEF IInv, TypeOK
<1>6. HeldNow'
  BY <1>1 DEF IInv, HeldNow
<1>7. StoredKnown'
  <2>1. CASE UNCHANGED cache
    BY <1>1, <2>1 DEF IInv, StoredKnown, NoOlder
  <2>2. CASE stores
    <3>1. \A w \in Urls : w # u => cache'[w] = cache[w]
      BY <2>2, <1>5 DEF TypeOK
    <3>2. cache'[u].view = v /\ cache'[u].age = 0
      BY <2>2, <1>1, <1>5 DEF TypeOK
    <3> QED
      BY <3>1, <3>2, <1>1 DEF IInv, StoredKnown, NoOlder
  <2> QED
    BY <1>2, <2>1, <2>2
<1>8. FlightsKnown'
  BY <1>1, <1>3, <1>5, DeliverTypes DEF IInv, FlightsKnown, NoOlder
<1>9. TasksOnItems'
  <2> SUFFICES ASSUME NEW w \in Slots, pc'[w] # "idle" PROVE url'[w] \in Groups
    BY DEF TasksOnItems
  <2>1. w # Sync
    OBVIOUS
  <2>2. pc[w] # "idle" /\ url'[w] = url[w]
    BY <1>1, <1>5, <2>1 DEF Fill, Deliver, TypeOK
  <2> QED
    BY <2>2 DEF IInv, TasksOnItems
<1> QED
  BY <1>5, <1>6, <1>7, <1>8, <1>9 DEF IInv

LEMMA DecideInv ==
  ASSUME IInv, NEW w \in Slots, Decide(w)
  PROVE  IInv'
<1>1. /\ UNCHANGED <<held, reported, since, overdue, age>>
      /\ \A u \in Urls : cache'[u] = cache[u] \/ cache'[u] = NoEntry
      /\ cache' \in [Urls -> Entries \cup {NoEntry}]
  BY DEF Decide, Free, IInv, TypeOK
<1>2. TypeOK /\ TypeOK'
  BY <1>1 DEF Decide, Free, IInv, TypeOK
<1>3. \A q \in Readers : pc'[q] = "fill" =>
        pc[q] = "fill" /\ got'[q] = got[q] /\ url'[q] = url[q]
  BY <1>2 DEF Decide, Free, TypeOK
<1>4. HeldNow' /\ StoredKnown'
  BY <1>1 DEF IInv, HeldNow, StoredKnown, NoOlder
<1>5. FlightsKnown'
  BY <1>1, <1>3 DEF IInv, FlightsKnown, NoOlder
<1>6. TasksOnItems'
  BY <1>2 DEF Decide, Free, IInv, TasksOnItems, TypeOK
<1> QED
  BY <1>2, <1>4, <1>5, <1>6 DEF IInv

\* A write makes a list current, and nothing older than it was.
LEMMA HoldsYounger ==
  ASSUME TypeOK, HeldNow, NEW p \in Groups, NEW l \in Lists, Holds(p, l)
  PROVE  /\ held' \in [Groups -> Lists]
         /\ since' \in [Groups -> [Lists -> 0 .. Bound + 1]]
         /\ HeldNow'
         /\ \A g \in Groups : \A m \in Lists :
              since'[g][m] <= since[g][m] /\ since[g][m] \in Nat /\ since'[g][m] \in Nat
<1>1. held' = [held EXCEPT ![p] = l] /\ since' = [since EXCEPT ![p] = [@ EXCEPT ![l] = 0]]
  BY DEF Holds
<1>2. 0 \in 0 .. Bound + 1
  OBVIOUS
<1>3. since' \in [Groups -> [Lists -> 0 .. Bound + 1]] /\ held' \in [Groups -> Lists]
  BY <1>1, <1>2 DEF TypeOK
<1>4. HeldNow'
  BY <1>1 DEF TypeOK, HeldNow
<1>5. ASSUME NEW g \in Groups, NEW m \in Lists
      PROVE  since'[g][m] <= since[g][m] /\ since[g][m] \in Nat /\ since'[g][m] \in Nat
  <2>1. since[g][m] \in Nat /\ since'[g][m] \in Nat
    BY <1>3 DEF TypeOK
  <2>2. since'[g][m] = since[g][m] \/ since'[g][m] = 0
    BY <1>1 DEF TypeOK
  <2> QED
    BY <2>1, <2>2
<1> QED
  BY <1>3, <1>4, <1>5

\* A step that writes, and stores nothing and sends nothing on its way.
LEMMA WriteKeeps ==
  ASSUME IInv, NEW p \in Groups, NEW l \in Lists, Holds(p, l), TypeOK',
         UNCHANGED <<cache, age>>, TasksOnItems',
         \A q \in Readers : pc'[q] = "fill" =>
           pc[q] = "fill" /\ got'[q] = got[q] /\ url'[q] = url[q]
  PROVE  IInv'
<1>1. /\ HeldNow'
      /\ \A g \in Groups : \A m \in Lists :
           since'[g][m] <= since[g][m] /\ since[g][m] \in Nat /\ since'[g][m] \in Nat
  BY HoldsYounger DEF IInv
<1>2. StoredKnown'
  <2> SUFFICES ASSUME NEW u \in Urls, cache[u] # NoEntry
               PROVE  /\ cache[u].view \in [Shown(u) -> Lists]
                      /\ \A g \in DOMAIN cache[u].view :
                           since'[g][cache[u].view[g]] <= cache[u].age + MaxFlight
    BY DEF StoredKnown, NoOlder, Shown
  <2>1. /\ cache[u].view \in [Shown(u) -> Lists]
        /\ \A g \in Shown(u) : since[g][cache[u].view[g]] <= cache[u].age + MaxFlight
    BY DEF IInv, StoredKnown, NoOlder
  <2>2. cache[u].age \in Nat
    BY DEF IInv, TypeOK, Entries
  <2> QED
    BY <1>1, <2>1, <2>2, ShownGroups
<1>3. FlightsKnown'
  <2> SUFFICES ASSUME NEW q \in Readers, pc'[q] = "fill"
               PROVE  /\ got'[q] \in [Shown(url'[q]) -> Lists]
                      /\ \A g \in DOMAIN got'[q] : since'[g][got'[q][g]] <= age'[q]
    BY DEF FlightsKnown, NoOlder, Shown
  <2>1. /\ got'[q] = got[q] /\ url'[q] = url[q] /\ age'[q] = age[q]
        /\ url[q] \in Urls /\ age[q] \in Nat
    BY DEF IInv, TypeOK
  <2>2. /\ got[q] \in [Shown(url[q]) -> Lists]
        /\ \A g \in Shown(url[q]) : since[g][got[q][g]] <= age[q]
    BY DEF IInv, FlightsKnown, NoOlder
  <2> QED
    BY <1>1, <2>1, <2>2, ShownGroups
<1> QED
  BY <1>1, <1>2, <1>3 DEF IInv

LEMMA WriteInv ==
  ASSUME IInv, NEW w \in Slots, Write(w)
  PROVE  IInv'
<1>1. PICK l \in Lists : Holds(url[w], l)
  BY DEF Write
<1>2. url[w] \in Groups
  BY DEF Write, IInv, TasksOnItems
<1>3. TypeOK'
  BY <1>1, <1>2, HoldsYounger DEF Write, Free, IInv, TypeOK
<1>4. /\ UNCHANGED <<cache, age>> /\ TasksOnItems'
      /\ \A q \in Readers : pc'[q] = "fill" =>
           pc[q] = "fill" /\ got'[q] = got[q] /\ url'[q] = url[q]
  BY DEF Write, Free, IInv, TypeOK, TasksOnItems
<1> QED
  BY <1>1, <1>2, <1>3, <1>4, WriteKeeps

LEMMA OutsideWriteInv ==
  ASSUME IInv, NEW p \in Groups, OutsideWrite(p)
  PROVE  IInv'
<1>1. PICK l \in Lists : Holds(p, l)
  BY DEF OutsideWrite
<1>2. TypeOK'
  BY <1>1, HoldsYounger DEF OutsideWrite, request, IInv, TypeOK
<1>3. TasksOnItems' /\ UNCHANGED <<cache, request>>
  BY DEF OutsideWrite, request, IInv, TasksOnItems
<1> QED
  BY <1>1, <1>2, <1>3, WriteKeeps DEF request

\* A tick adds at most one to what has passed since.
LEMMA TickOlder ==
  ASSUME IInv, Tick
  PROVE  /\ since' \in [Groups -> [Lists -> 0 .. Bound + 1]]
         /\ HeldNow'
         /\ \A g \in Groups : \A m \in Lists :
              since'[g][m] <= since[g][m] + 1 /\ since[g][m] \in Nat /\ since'[g][m] \in Nat
<1>1. ASSUME NEW g \in Groups, NEW m \in Lists
      PROVE  /\ since[g][m] \in 0 .. Bound + 1
             /\ since'[g][m] = IF m = held[g] THEN 0
                               ELSE IF since[g][m] > Bound THEN Bound + 1
                               ELSE since[g][m] + 1
  BY DEF Tick, IInv, TypeOK
<1>2. \A g \in Groups : \A m \in Lists :
        /\ since'[g][m] \in 0 .. Bound + 1
        /\ since'[g][m] <= since[g][m] + 1 /\ since[g][m] \in Nat /\ since'[g][m] \in Nat
  BY <1>1
<1>3. since' \in [Groups -> [Lists -> 0 .. Bound + 1]]
  BY <1>2 DEF Tick
<1>4. HeldNow'
  BY <1>1 DEF Tick, IInv, TypeOK, HeldNow
<1> QED
  BY <1>2, <1>3, <1>4

\* An entry that a tick leaves has aged by the tick, or never does.
LEMMA AgedEntry ==
  ASSUME TTL # 0, NEW e \in Entries, Aged(e) # NoEntry
  PROVE  Aged(e) \in Entries /\ Aged(e).view = e.view /\ Aged(e).age = e.age + 1
<1>1. e.age \in 0 .. TTL /\ e.view \in Views /\ e = [view |-> e.view, age |-> e.age]
  BY DEF Entries
<1>2. e.age + 1 <= TTL /\ Aged(e) = [e EXCEPT !.age = @ + 1]
  BY <1>1 DEF Aged
<1>3. Aged(e) = [view |-> e.view, age |-> e.age + 1]
  BY <1>1, <1>2 DEF Entries
<1> QED
  BY <1>1, <1>2, <1>3 DEF Entries

LEMMA TickInv ==
  ASSUME TTL # 0, IInv, Tick
  PROVE  IInv'
<1>1. UNCHANGED <<held, pc, url, got, reported, overdue>>
  BY DEF Tick
<1>2. \A u \in Urls : cache'[u] # NoEntry =>
        /\ cache[u] # NoEntry /\ cache'[u] \in Entries
        /\ cache'[u].view = cache[u].view
        /\ cache'[u].age = cache[u].age + 1 /\ cache[u].age \in Nat
  <2> SUFFICES ASSUME NEW u \in Urls, cache'[u] # NoEntry
               PROVE  /\ cache[u] # NoEntry /\ cache'[u] \in Entries
                      /\ cache'[u].view = cache[u].view
                      /\ cache'[u].age = cache[u].age + 1 /\ cache[u].age \in Nat
    OBVIOUS
  <2>1. cache[u] # NoEntry /\ cache'[u] = Aged(cache[u]) /\ cache[u] \in Entries
    BY DEF Tick, IInv, TypeOK
  <2>2. cache[u].age \in Nat
    BY <2>1 DEF Entries
  <2> QED
    BY <2>1, <2>2, AgedEntry
<1>3. cache' \in [Urls -> Entries \cup {NoEntry}]
  <2>1. \E f : cache' = [u \in Urls |-> f[u]]
    <3> DEFINE f == [u \in Urls |-> IF cache[u] = NoEntry THEN NoEntry ELSE Aged(cache[u])]
    <3>1. cache' = f
      BY DEF Tick
    <3>2. cache' = [u \in Urls |-> f[u]]
      BY <3>1
    <3> QED
      BY <3>2
  <2> QED
    BY <1>2, <2>1
<1>4. \A r \in Readers : age'[r] \in 0 .. MaxFlight
                        /\ (pc[r] = "fill" => age'[r] = age[r] + 1)
  BY DEF Tick, IInv, TypeOK
<1>5. age' \in [Readers -> 0 .. MaxFlight]
  BY <1>4 DEF Tick
<1>6. TypeOK'
  BY <1>1, <1>3, <1>5, TickOlder DEF IInv, TypeOK
<1>7. StoredKnown'
  <2> SUFFICES ASSUME NEW u \in Urls, cache'[u] # NoEntry
               PROVE  /\ cache'[u].view \in [Shown(u) -> Lists]
                      /\ \A g \in DOMAIN cache'[u].view :
                           since'[g][cache'[u].view[g]] <= cache'[u].age + MaxFlight
    BY DEF StoredKnown, NoOlder, Shown
  <2>1. /\ cache[u].view \in [Shown(u) -> Lists]
        /\ \A g \in Shown(u) : since[g][cache[u].view[g]] <= cache[u].age + MaxFlight
    BY <1>2 DEF IInv, StoredKnown, NoOlder
  <2>2. /\ cache[u].age \in Nat /\ cache'[u].age = cache[u].age + 1
        /\ cache'[u].view = cache[u].view
    BY <1>2
  <2>3. ASSUME NEW g \in Shown(u)
        PROVE  since'[g][cache[u].view[g]] <= cache[u].age + 1 + MaxFlight
    <3>1. /\ g \in Groups /\ cache[u].view[g] \in Lists
          /\ since[g][cache[u].view[g]] <= cache[u].age + MaxFlight
      BY <2>1, <2>3, ShownGroups
    <3>2. /\ since[g][cache[u].view[g]] \in Nat
          /\ since'[g][cache[u].view[g]] \in Nat
          /\ since'[g][cache[u].view[g]] <= since[g][cache[u].view[g]] + 1
      BY <3>1, TickOlder DEF IInv, TypeOK
    <3> QED
      BY <2>2, <3>1, <3>2, CacheAssumption DEF CacheAssumption
  <2>4. DOMAIN cache'[u].view = Shown(u)
    BY <2>1, <2>2
  <2>5. \A g \in DOMAIN cache'[u].view :
          since'[g][cache'[u].view[g]] <= cache'[u].age + MaxFlight
    BY <2>2, <2>3, <2>4
  <2> QED
    BY <2>1, <2>2, <2>5
<1>8. FlightsKnown'
  <2> SUFFICES ASSUME NEW q \in Readers, pc'[q] = "fill"
               PROVE  /\ got'[q] \in [Shown(url'[q]) -> Lists]
                      /\ \A g \in DOMAIN got'[q] : since'[g][got'[q][g]] <= age'[q]
    BY DEF FlightsKnown, NoOlder, Shown
  <2>1. /\ pc[q] = "fill" /\ got'[q] = got[q] /\ url'[q] = url[q]
        /\ url[q] \in Urls /\ age'[q] = age[q] + 1 /\ age[q] \in Nat
    BY <1>1, <1>4 DEF IInv, TypeOK
  <2>2. /\ got[q] \in [Shown(url[q]) -> Lists]
        /\ \A g \in Shown(url[q]) : since[g][got[q][g]] <= age[q]
    BY <2>1 DEF IInv, FlightsKnown, NoOlder
  <2> QED
    BY <2>1, <2>2, ShownGroups, TickOlder
<1>9. TasksOnItems'
  BY <1>1 DEF IInv, TasksOnItems
<1> QED
  BY <1>6, <1>7, <1>8, <1>9, TickOlder DEF IInv

LEMMA StepInv ==
  ASSUME TTL # 0, IInv, [Next]_vars
  PROVE  IInv'
<1>1. CASE UNCHANGED vars
  BY <1>1 DEF vars, request, IInv, TypeOK, HeldNow, FlightsKnown, StoredKnown,
              TasksOnItems, NoOlder
<1>2. CASE Next
  BY <1>2, FillInv, HitInv, AskInv, DecideInv, WriteInv, OutsideWriteInv, TickInv DEF Next
<1> QED
  BY <1>1, <1>2

\* What an invariant state lets a step report, or give to a task, is fresh.
LEMMA StepFresh ==
  ASSUME IInv, Fresh, [Next]_vars
  PROVE  Fresh'
<1>1. ASSUME NEW r \in Readers, NEW u \in Urls, NEW v \in [Shown(u) -> Lists],
             NoOlder(v, Bound), Deliver(r, v)
      PROVE  Fresh'
  <2>1. \A p \in DOMAIN v : since[p][v[p]] \in Nat
    BY ShownGroups DEF IInv, TypeOK
  <2> QED
    BY <1>1, <2>1 DEF Deliver, NoOlder, Fresh
<1>2. ASSUME NEW r \in Readers, NEW u \in Urls, Hit(r, u)
      PROVE  Fresh'
  <2>1. cache[u].view \in [Shown(u) -> Lists] /\ Deliver(r, cache[u].view)
    BY <1>2 DEF Hit, IInv, StoredKnown
  <2>2. NoOlder(cache[u].view, Bound)
    <3>1. cache[u].age \in 0 .. TTL
      BY <1>2 DEF Hit, IInv, TypeOK, Entries
    <3>2. \A p \in Shown(u) : since[p][cache[u].view[p]] \in Nat
      BY <2>1, ShownGroups DEF IInv, TypeOK
    <3> QED
      BY <1>2, <2>1, <3>1, <3>2 DEF Hit, IInv, StoredKnown, NoOlder
  <2> QED
    BY <1>1, <2>1, <2>2
<1>3. ASSUME NEW r \in Readers, Fill(r)
      PROVE  Fresh'
  <2>1. /\ url[r] \in Urls /\ got[r] \in [Shown(url[r]) -> Lists] /\ Deliver(r, got[r])
        /\ age[r] \in 0 .. MaxFlight /\ NoOlder(got[r], age[r])
    BY <1>3 DEF Fill, IInv, TypeOK, FlightsKnown
  <2>2. NoOlder(got[r], Bound)
    <3>1. \A p \in Shown(url[r]) : since[p][got[r][p]] \in Nat
      BY <2>1, ShownGroups DEF IInv, TypeOK
    <3> QED
      BY <2>1, <3>1 DEF NoOlder
  <2> QED
    BY <1>1, <2>1, <2>2
<1>4. CASE UNCHANGED overdue
  BY <1>4 DEF Fresh
<1>5. CASE Next
  BY <1>2, <1>3, <1>4, <1>5 DEF Next, Ask, Decide, Write, OutsideWrite, Tick
<1> QED
  BY <1>4, <1>5 DEF vars

-----------------------------------------------------------------------------
\* Every reachable state is typed, and every answer as old as IInv says, where
\* the time to live is not zero.
THEOREM CacheInvariant ==
  ASSUME TTL # 0
  PROVE  Spec => []IInv
<1>1. Init => IInv
  BY InitInv
<1>2. IInv /\ [Next]_vars => IInv'
  BY StepInv
<1> QED
  BY <1>1, <1>2, PTL DEF Spec

\* Where the time to live is not zero, a sync is told and a task decides on
\* nothing that Okta gave up longer ago than the time to live and one request.
THEOREM AlwaysFresh ==
  ASSUME TTL # 0
  PROVE  Spec => []Fresh
<1>1. Init => Fresh
  BY DEF Init, Fresh
<1>2. IInv /\ Fresh /\ [Next]_vars => Fresh'
  BY StepFresh
<1>3. Spec => []IInv
  BY CacheInvariant
<1> QED
  BY <1>1, <1>2, <1>3, PTL DEF Spec
=============================================================================
