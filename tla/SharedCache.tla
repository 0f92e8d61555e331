----------------------------- MODULE SharedCache -----------------------------
(***************************************************************************)
(* One Okta client, and its response cache, under the task slots and a sync *)
(* at once.  The cache goes by URL: a task's write drops the entry of its  *)
(* own assignment, and leaves the page of the listing that shows it, which *)
(* only its time to live removes.                                          *)
(*                                                                         *)
(* Time is in ticks.  Nothing counts them from the beginning: an entry has *)
(* an age, a request on its way has one, and so has each list of roles that *)
(* a group no longer has.                                                  *)
(***************************************************************************)
EXTENDS Naturals

CONSTANTS
    Groups, Lists,      \* groups assigned to the app, lists of roles
    Slots, Sync,        \* the task slots, and the sync
    Page,               \* the URL of the listing; a group is its own URL
    CacheEnabled,       \* cache (default TRUE)
    TTL,                \* cache-ttl (default 300 seconds)
    MaxFlight,          \* ticks a request may be on its way
    NoEntry, Nothing

Readers == Slots \cup {Sync}
Urls    == Groups \cup {Page}

\* Nobody is shown a list that was given up before that many ticks.
Bound == TTL + MaxFlight

\* The assignments a URL shows.
Shown(u) == IF u = Page THEN Groups ELSE {u}

Views   == UNION {[Shown(u) -> Lists] : u \in Urls}
Entries == [view : Views, age : 0 .. TTL]

ASSUME CacheAssumption ==
    /\ CacheEnabled \in BOOLEAN /\ TTL \in Nat /\ MaxFlight \in Nat
    /\ Page \notin Groups /\ Sync \notin Slots
    /\ NoEntry \notin Entries /\ Nothing \notin Lists \cup Views

VARIABLES
    held,               \* Okta: each group's list of roles
    cache,              \* the client's entries
    pc, url, got, age,  \* a reader's request: its URL, its answer, its age
    reported,           \* what the sync reported last of each group
    since,              \* history: ticks since a group had a list
    overdue             \* history: what was too old in the last answer given

request == <<pc, url, got, age>>
vars    == <<held, cache, request, reported, since, overdue>>

TypeOK ==
    /\ held \in [Groups -> Lists]
    /\ cache \in [Urls -> Entries \cup {NoEntry}]
    /\ pc \in [Readers -> {"idle", "fill", "decide", "write"}]
    /\ url \in [Readers -> Urls] /\ got \in [Readers -> Views \cup {Nothing}]
    /\ age \in [Readers -> 0 .. MaxFlight]
    /\ reported \in [Groups -> Lists \cup {Nothing}]
    /\ since \in [Groups -> [Lists -> 0 .. Bound + 1]] /\ overdue \subseteq Groups

Init ==
    /\ held \in [Groups -> Lists]
    /\ cache = [u \in Urls |-> NoEntry]
    /\ pc = [r \in Readers |-> "idle"] /\ url = [r \in Readers |-> Page]
    /\ got = [r \in Readers |-> Nothing] /\ age = [r \in Readers |-> 0]
    /\ reported = [p \in Groups |-> Nothing]
    /\ since = [p \in Groups |-> [l \in Lists |-> IF l = held[p] THEN 0 ELSE Bound + 1]]
    /\ overdue = {}

-----------------------------------------------------------------------------
(* The client: GET a URL. *)

MayRead(r, u) == pc[r] = "idle" /\ (r = Sync \/ u \in Groups)

\* The reader has its answer: the sync reports it, a task decides on it.
Deliver(r, v) ==
    /\ overdue' = {p \in DOMAIN v : since[p][v[p]] > Bound}
    /\ age' = [age EXCEPT ![r] = 0]
    /\ \/ /\ r = Sync
          /\ reported' = [p \in Groups |-> IF p \in DOMAIN v THEN v[p] ELSE reported[p]]
          /\ pc' = [pc EXCEPT ![r] = "idle"]
          /\ url' = [url EXCEPT ![r] = Page] /\ got' = [got EXCEPT ![r] = Nothing]
       \/ /\ r # Sync
          /\ pc' = [pc EXCEPT ![r] = "decide"] /\ got' = [got EXCEPT ![r] = v]
          /\ UNCHANGED reported

\* (Faulty variant: the time to live begins anew with each use.)
UsedAnew(u) == cache' = [cache EXCEPT ![u].age = 0]

Used(u) == UNCHANGED cache

Hit(r, u) ==
    /\ MayRead(r, u) /\ cache[u] # NoEntry
    /\ Used(u)
    /\ Deliver(r, cache[u].view)
    /\ IF r = Sync THEN TRUE ELSE url' = [url EXCEPT ![r] = u]
    /\ UNCHANGED <<held, since>>

\* Okta evaluates the request, and the answer is on its way.
Ask(r, u) ==
    /\ MayRead(r, u) /\ cache[u] = NoEntry
    /\ pc' = [pc EXCEPT ![r] = "fill"] /\ url' = [url EXCEPT ![r] = u]
    /\ got' = [got EXCEPT ![r] = [p \in Shown(u) |-> held[p]]]
    /\ UNCHANGED <<held, cache, age, reported, since, overdue>>

\* It is stored, for TTL ticks from now, and given to the reader.
Fill(r) ==
    /\ pc[r] = "fill"
    /\ cache' = IF CacheEnabled THEN [cache EXCEPT ![url[r]] = [view |-> got[r], age |-> 0]]
                                ELSE cache
    /\ Deliver(r, got[r])
    /\ IF r = Sync THEN TRUE ELSE UNCHANGED url
    /\ UNCHANGED <<held, since>>

-----------------------------------------------------------------------------
(* The writers. *)

Free(w) ==
    /\ pc' = [pc EXCEPT ![w] = "idle"] /\ url' = [url EXCEPT ![w] = Page]
    /\ got' = [got EXCEPT ![w] = Nothing]
    /\ UNCHANGED age

\* A task has nothing to write, or drops the entry of its URL and sends a list.
Decide(w) ==
    /\ pc[w] = "decide"
    /\ \/ Free(w) /\ UNCHANGED cache
       \/ /\ pc' = [pc EXCEPT ![w] = "write"]
          /\ cache' = [cache EXCEPT ![url[w]] = NoEntry]
          /\ UNCHANGED <<url, got, age>>
    /\ UNCHANGED <<held, reported, since, overdue>>

Holds(p, l) ==
    /\ held' = [held EXCEPT ![p] = l]
    /\ since' = [since EXCEPT ![p] = [@ EXCEPT ![l] = 0]]

Write(w) ==
    /\ pc[w] = "write"
    /\ \E l \in Lists : Holds(url[w], l)
    /\ Free(w)
    /\ UNCHANGED <<cache, reported, overdue>>

OutsideWrite(p) ==
    /\ \E l \in Lists \ {held[p]} : Holds(p, l)
    /\ UNCHANGED <<cache, request, reported, overdue>>

-----------------------------------------------------------------------------
(* Time. *)

\* (Faulty variant: an entry outlives its time by a tick.)
AgedLate(e) == IF e.age + 1 > TTL + 1 THEN NoEntry ELSE [e EXCEPT !.age = @ + 1]

\* A time to live of zero is go-cache's "default", and its default is then that
\* entries never expire.
Aged(e) ==
    IF TTL = 0 THEN e
    ELSE IF e.age + 1 > TTL THEN NoEntry ELSE [e EXCEPT !.age = @ + 1]

Tick ==
    /\ \A r \in Readers : pc[r] = "fill" => age[r] < MaxFlight
    /\ age' = [r \in Readers |-> IF pc[r] = "fill" THEN age[r] + 1 ELSE 0]
    /\ cache' = [u \in Urls |-> IF cache[u] = NoEntry THEN NoEntry ELSE Aged(cache[u])]
    /\ since' = [p \in Groups |-> [l \in Lists |->
                   IF l = held[p] THEN 0
                   ELSE IF since[p][l] > Bound THEN Bound + 1 ELSE since[p][l] + 1]]
    /\ UNCHANGED <<held, pc, url, got, reported, overdue>>

Listing == Hit(Sync, Page) \/ Ask(Sync, Page)

Next ==
    \/ \E r \in Readers : Fill(r) \/ \E u \in Urls : Hit(r, u) \/ Ask(r, u)
    \/ \E w \in Slots : Decide(w) \/ Write(w)
    \/ \E p \in Groups : OutsideWrite(p)
    \/ Tick

Spec == Init /\ [][Next]_vars

\* Time passes, requests are answered, and syncs, which begin with the listing,
\* keep being run.
FairSpec ==
    /\ Spec
    /\ WF_vars(Tick) /\ \A r \in Readers : WF_vars(Fill(r))
    /\ SF_vars(Listing)

-----------------------------------------------------------------------------
(* Properties. *)

\* The sync is told, for the first time or again, and a task decides on, nothing
\* that Okta gave up longer ago than the time to live and the time of one
\* request, however often it was read from the cache and whatever was written
\* around it.
Fresh == overdue = {}

\* Once nobody changes a group any more, the syncs come to report what it has.
Converges ==
    \A p \in Groups : \A l \in Lists :
      <>[](held[p] = l) => <>[](reported[p] = l)

-----------------------------------------------------------------------------
(* The inductive invariant behind Fresh.                                    *)

\* What Okta has, it has now.
HeldNow == \A p \in Groups : since[p][held[p]] = 0

\* A view whose every list was given up at most n ticks ago.
NoOlder(v, n) == \A p \in DOMAIN v : since[p][v[p]] <= n

\* An answer on its way is no older than its request; one that was stored, no
\* older than its entry and the longest request.
FlightsKnown == \A r \in Readers : pc[r] = "fill" =>
                  got[r] \in [Shown(url[r]) -> Lists] /\ NoOlder(got[r], age[r])
StoredKnown  == \A u \in Urls : cache[u] # NoEntry =>
                  /\ cache[u].view \in [Shown(u) -> Lists]
                  /\ NoOlder(cache[u].view, cache[u].age + MaxFlight)
TasksOnItems == \A w \in Slots : pc[w] # "idle" => url[w] \in Groups

IInv == TypeOK /\ HeldNow /\ FlightsKnown /\ StoredKnown /\ TasksOnItems
=============================================================================
