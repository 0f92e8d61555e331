---------------------------- MODULE Provisioning ----------------------------
(***************************************************************************)
(* Grant and Revoke of the AWS-account resource type                       *)
(* (pkg/connector/aws_account.go), run by the task slots of the connector, *)
(* over the Okta client's response cache, against Okta's app assignments.  *)
(*                                                                         *)
(* A worker is a task slot.  Every API call of a handler is at least one   *)
(* step, so that handlers interleave between any two calls, and a read is  *)
(* two: Okta evaluates it, then the client stores the answer in its cache. *)
(*                                                                         *)
(* An assignment's samlRoles list is a set: the handlers test membership,  *)
(* append what is absent and remove every occurrence, so neither the order *)
(* nor the multiplicity of the list can be observed.                       *)
(***************************************************************************)
EXTENDS Naturals

CONSTANTS
    Users, Groups,          \* principals of a grant
    Roles,                  \* SAML roles, the entitlements of the account
    Parsable,               \* roles without a colon in their names
    Member,                 \* Member[u]: the Okta groups of user u
    Workers,                \* task slots (task concurrency, 3 by default)
    Configurations,         \* the app settings and operator options considered
    Beginnings,             \* the roles each assignment may begin with
    CacheEnabled,           \* the Okta client caches responses (default)
    DefaultRoles,           \* roles Okta gives a fresh group assignment
    SerialPerPrincipal,     \* the platform never overlaps tasks on a principal
    SyncReads,              \* a sync runs beside the tasks and reads groups
    Faults,                 \* kinds of failure that may happen
    MaxAttempts,            \* retries of the SDK's retryer (3)
    MaxTasks, MaxOutside,   \* bounds of the model
    NoView, NoTask, NoRoles

Principals == Users \cup Groups

View  == [found : BOOLEAN, scope : {"USER", "GROUP"}, roles : SUBSET Roles]
Tasks == [op : {"grant", "revoke"}, principal : Principals, role : Roles]

\* Settings of the Okta app, and the connector's
\* AllowGroupToDirectAssignmentConversionForProvisioning.
Configuration == [joinAllRoles : BOOLEAN, samlRolesUnionEnabled : BOOLEAN,
                  useGroupMapping : BOOLEAN, allowConversion : BOOLEAN]

FaultKinds == {"429", "error", "transport", "eof", "crash"}
Outcomes   == {"none", "ok", "exists", "revoked", "gone", "error", "lost"}
Pcs == {"idle", "settings", "get", "hit", "ask", "fill", "decide", "assign", "update"}

ASSUME ConfigAssumption ==
    /\ Users \cap Groups = {}
    /\ Member \in [Users -> SUBSET Groups]
    /\ DefaultRoles \in SUBSET Roles /\ Parsable \subseteq Roles
    /\ Configurations \subseteq Configuration
    /\ Beginnings \in [Principals -> SUBSET SUBSET Roles]
    /\ {CacheEnabled, SerialPerPrincipal, SyncReads} \subseteq BOOLEAN
    /\ Faults \subseteq FaultKinds
    /\ {MaxAttempts, MaxTasks, MaxOutside} \subseteq Nat
    /\ NoView \notin View
    /\ NoTask \notin Tasks
    /\ \A R \in SUBSET Roles : R # NoRoles

VARIABLES
    conf,       \* the configuration, fixed from the start
    assigned,   \* Okta: principals with an app assignment of their own
    own,        \* Okta: the samlRoles of each such assignment
    cache,      \* the client's cached answer to GET <assignment of p>
    pc, task, seen, again, attempt, outcome,   \* the workers
    before,     \* history: a worker's principal in Okta when its task began
    eof,        \* workers whose call broke off and is to be sent again
    fetch,      \* answers on their way to a running sync
    started, outside                           \* counters, for the bounds

okta    == <<assigned, own>>
worker  == <<pc, task, seen, again, attempt, outcome, before>>
counter == <<started, outside>>
vars    == <<conf, okta, cache, worker, eof, fetch, counter>>

Absent == [found |-> FALSE, scope |-> "USER", roles |-> {}]

WorkerTypes ==
    /\ pc \in [Workers -> Pcs]
    /\ task \in [Workers -> Tasks \cup {NoTask}]
    /\ \A w \in Workers : task[w] = NoTask <=> pc[w] = "idle"
    /\ seen \in [Workers -> View]
    /\ again \in [Workers -> BOOLEAN]
    /\ attempt \in [Workers -> 0 .. MaxAttempts]
    /\ outcome \in [Workers -> Outcomes]
    /\ before \in [Workers -> View]

TypeOK ==
    /\ conf \in Configurations
    /\ assigned \in SUBSET Principals
    /\ own \in [Principals -> SUBSET Roles]
    /\ cache \in [Principals -> View \cup {NoView}]
    /\ fetch \in [Groups -> View \cup {NoView}]
    /\ eof \in SUBSET Workers
    /\ started \in Nat /\ outside \in Nat
    /\ WorkerTypes

-----------------------------------------------------------------------------
(* Okta, as the handlers observe it. *)

OwnView(p) == [found |-> TRUE, roles |-> own[p],
               scope |-> IF p \in Users THEN "USER" ELSE "GROUP"]

\* The assigned groups a user reaches the app through.
Through(u) == Member[u] \cap assigned

\* What Okta shows for a user who reaches the app only through groups: the
\* union of their roles, or else those of the group that takes priority.
DerivedRoles(u) ==
    IF conf.samlRolesUnionEnabled THEN {UNION {own[g] : g \in Through(u)}}
                                  ELSE {own[g] : g \in Through(u)}

\* The possible answers to GET apps/{app}/users/{p} and apps/{app}/groups/{p}.
Answers(p) ==
    IF p \in assigned THEN {OwnView(p)}
    ELSE IF p \in Users /\ Through(p) # {}
         THEN {[found |-> TRUE, scope |-> "GROUP", roles |-> R] : R \in DerivedRoles(p)}
         ELSE {Absent}

\* A principal whose assignment an update can address.
Updatable(p) == p \in assigned \/ (p \in Users /\ Through(p) # {})

-----------------------------------------------------------------------------
(* The worker's view of its task. *)

Principal(w) == task[w].principal
Granting(w)  == task[w].op = "grant"
Role(w)      == task[w].role
Busy(w)      == pc[w] # "idle"

\* (Faulty variant: the operator's option is not looked at.)
CanConvertAlways == conf.joinAllRoles \/ conf.samlRolesUnionEnabled

\* Converting a group assignment into a direct one is opted into, and only
\* where a direct assignment does not hide the roles of the groups.
CanConvert ==
    conf.allowConversion /\ (conf.joinAllRoles \/ conf.samlRolesUnionEnabled)

Refused(w) == Principal(w) \in Users /\ seen[w].scope = "GROUP" /\ ~CanConvert

\* (Faulty variant: a revoke is compared the way a grant is.)
AlreadyDoneIfHeld(w) == Role(w) \in seen[w].roles

AlreadyDone(w) == Granting(w) <=> Role(w) \in seen[w].roles

\* (Faulty variant: the list is started afresh instead of appended to.)
TargetAfresh(w) == IF Granting(w) THEN {Role(w)} ELSE {}

\* The whole list the worker writes back.
Target(w) == IF Granting(w) THEN seen[w].roles \cup {Role(w)}
                            ELSE seen[w].roles \ {Role(w)}

Goto(w, l) == pc' = [pc EXCEPT ![w] = l]

Finish(w, o) ==
    /\ Goto(w, "idle")
    /\ task' = [task EXCEPT ![w] = NoTask]
    /\ seen' = [seen EXCEPT ![w] = Absent]
    /\ again' = [again EXCEPT ![w] = FALSE]
    /\ attempt' = [attempt EXCEPT ![w] = 0]
    /\ outcome' = [outcome EXCEPT ![w] = o]
    /\ before' = [before EXCEPT ![w] = Absent]

\* Another call of the handler, from its first line.
StartOver(w) ==
    /\ Goto(w, "settings")
    /\ seen' = [seen EXCEPT ![w] = Absent]
    /\ again' = [again EXCEPT ![w] = FALSE]
    /\ UNCHANGED <<task, outcome, before>>

\* (Faulty variants: one retry too many; retries that are not counted.)
RetryOnceMore(w) ==
    \/ /\ attempt[w] <= MaxAttempts
       /\ StartOver(w)
       /\ attempt' = [attempt EXCEPT ![w] = @ + 1]
    \/ attempt[w] > MaxAttempts /\ Finish(w, "error")

RetryUncounted(w) == StartOver(w) /\ UNCHANGED attempt

\* The handler returned codes.Unavailable: the SDK calls it again, from its
\* first line, until the retries are used up.
Retry(w) ==
    \/ /\ attempt[w] < MaxAttempts
       /\ StartOver(w)
       /\ attempt' = [attempt EXCEPT ![w] = @ + 1]
    \/ attempt[w] = MaxAttempts /\ Finish(w, "error")

\* A call that Okta did not carry out, answered 429 or with another error.
NotDone(w) ==
    \/ "429" \in Faults /\ Retry(w)
    \/ "error" \in Faults /\ Finish(w, "error")

\* (Faulty variant: the entry stays.)
ForgetNot(p) == UNCHANGED cache

\* Every write first drops the cached answer of its own URL.
Forget(p) == cache' = [cache EXCEPT ![p] = NoView]

-----------------------------------------------------------------------------
(* Initial state: any assignments, nothing cached, every slot free. *)

Init ==
    /\ conf \in Configurations
    /\ assigned \in SUBSET Principals
    /\ own \in [Principals -> SUBSET Roles]
    /\ \A p \in Principals : own[p] \in IF p \in assigned THEN Beginnings[p] ELSE {{}}
    /\ cache = [p \in Principals |-> NoView]
    /\ pc = [w \in Workers |-> "idle"]
    /\ task = [w \in Workers |-> NoTask]
    /\ seen = [w \in Workers |-> Absent]
    /\ again = [w \in Workers |-> FALSE]
    /\ attempt = [w \in Workers |-> 0]
    /\ outcome = [w \in Workers |-> "none"]
    /\ before = [w \in Workers |-> Absent]
    /\ fetch = [g \in Groups |-> NoView]
    /\ eof = {} /\ started = 0 /\ outside = 0

\* The runner claims a slot for a task.
Start(w, t) ==
    /\ pc[w] = "idle"
    /\ started < MaxTasks
    /\ SerialPerPrincipal =>
         \A v \in Workers : Busy(v) => Principal(v) # t.principal
    /\ Goto(w, "settings")
    /\ task' = [task EXCEPT ![w] = t]
    /\ outcome' = [outcome EXCEPT ![w] = "none"]
    /\ before' = [before EXCEPT ![w] = IF t.principal \in assigned
                                       THEN OwnView(t.principal) ELSE Absent]
    /\ started' = started + 1
    /\ UNCHANGED <<okta, cache, seen, again, attempt, fetch, outside>>

\* (Faulty variant: group-mapping mode is not refused.)
SettingsUnchecked(w) ==
    /\ pc[w] = "settings"
    /\ \/ Role(w) \notin Parsable /\ Finish(w, "error")
       \/ /\ Role(w) \in Parsable
          /\ Goto(w, "get")
          /\ UNCHANGED <<task, seen, again, attempt, outcome, before>>
       \/ NotDone(w)
    /\ UNCHANGED <<okta, cache, fetch, counter>>

\* getAWSApplicationConfig, the refusal of an app in group-mapping mode, and
\* that of an entitlement ID that splits into more than three parts.
Settings(w) ==
    /\ pc[w] = "settings"
    /\ \/ /\ conf.useGroupMapping \/ Role(w) \notin Parsable
          /\ Finish(w, "error")
       \/ /\ ~conf.useGroupMapping /\ Role(w) \in Parsable
          /\ Goto(w, "get")
          /\ UNCHANGED <<task, seen, again, attempt, outcome, before>>
       \/ NotDone(w)
    /\ UNCHANGED <<okta, cache, fetch, counter>>

\* GET the principal's assignment: the client looks whether its cache has an
\* answer, once for all the times it may send the request.
Get(w) ==
    /\ pc[w] = "get"
    /\ Goto(w, IF cache[Principal(w)] # NoView THEN "hit" ELSE "ask")
    /\ UNCHANGED <<okta, cache, task, seen, again, attempt, outcome, before, fetch, counter>>

\* It has, and the client looks it up a second time, to use it.
Hit(w) ==
    /\ pc[w] = "hit" /\ cache[Principal(w)] # NoView
    /\ seen' = [seen EXCEPT ![w] = cache[Principal(w)]]
    /\ Goto(w, "decide")
    /\ UNCHANGED <<okta, cache, task, again, attempt, outcome, before, fetch, counter>>

\* The entry has gone in between: there is no response, and the nil pointer is
\* recovered from by the gRPC server, into an error of this task.
HitGone(w) ==
    /\ pc[w] = "hit" /\ cache[Principal(w)] = NoView
    /\ Finish(w, "error")
    /\ UNCHANGED <<okta, cache, fetch, counter>>

\* It has none, and Okta evaluates the request.
Ask(w) ==
    /\ pc[w] = "ask"
    /\ \E v \in Answers(Principal(w)) : seen' = [seen EXCEPT ![w] = v]
    /\ Goto(w, "fill")
    /\ UNCHANGED <<okta, cache, task, again, attempt, outcome, before, fetch, counter>>

\* Or fails to.  Without an HTTP answer there is no body to close, which the
\* handlers do not look for: a nil pointer again, and an error again.
AskFails(w) ==
    /\ pc[w] = "ask"
    /\ \/ NotDone(w)
       \/ "transport" \in Faults /\ Finish(w, "error")
    /\ UNCHANGED <<okta, cache, fetch, counter>>

\* A 2xx answer is cached; a 404 is not.
Fill(w) ==
    /\ pc[w] = "fill"
    /\ IF CacheEnabled /\ seen[w].found
       THEN cache' = [cache EXCEPT ![Principal(w)] = seen[w]]
       ELSE UNCHANGED cache
    /\ Goto(w, "decide")
    /\ UNCHANGED <<okta, task, seen, again, attempt, outcome, before, fetch, counter>>

\* No assignment: a revoke is done, a grant assigns the app, and the GET that
\* follows a group's assignment fails.
DecideAbsent(w) ==
    /\ pc[w] = "decide" /\ ~seen[w].found
    /\ \/ ~Granting(w) /\ Finish(w, "gone") /\ UNCHANGED cache
       \/ Granting(w) /\ again[w] /\ Finish(w, "error") /\ UNCHANGED cache
       \/ /\ Granting(w) /\ ~again[w]
          /\ Goto(w, "assign")
          /\ IF Principal(w) \in Groups THEN Forget(Principal(w))
                                        ELSE UNCHANGED cache
          /\ UNCHANGED <<task, seen, again, attempt, outcome, before>>
    /\ UNCHANGED <<okta, fetch, counter>>

\* An assignment was found: refuse, answer that nothing is to be done, or
\* send the new list.
DecideFound(w) ==
    /\ pc[w] = "decide" /\ seen[w].found
    /\ \/ Refused(w) /\ Finish(w, "error") /\ UNCHANGED cache
       \/ /\ ~Refused(w) /\ AlreadyDone(w)
          /\ Finish(w, IF Granting(w) THEN "exists" ELSE "revoked")
          /\ UNCHANGED cache
       \/ /\ ~Refused(w) /\ ~AlreadyDone(w)
          /\ Goto(w, "update")
          /\ Forget(Principal(w))
          /\ UNCHANGED <<task, seen, again, attempt, outcome, before>>
    /\ UNCHANGED <<okta, fetch, counter>>

\* Okta carries out the assignment.  A user's carries the role; a group's
\* cannot, so the worker reads the assignment back to add the role to it.
AssignInOkta(w) ==
    LET p == Principal(w) IN
    /\ assigned' = assigned \cup {p}
    /\ own' = [own EXCEPT ![p] = IF p \in Users THEN {Role(w)}
                                 ELSE IF p \in assigned THEN @ ELSE DefaultRoles]

Assign(w) ==
    /\ pc[w] = "assign"
    /\ AssignInOkta(w)
    /\ \/ Principal(w) \in Users /\ Finish(w, "ok")
       \/ /\ Principal(w) \in Groups
          /\ Goto(w, "get")
          /\ seen' = [seen EXCEPT ![w] = Absent]
          /\ again' = [again EXCEPT ![w] = TRUE]
          /\ UNCHANGED <<task, attempt, outcome, before>>
    /\ UNCHANGED <<cache, fetch, counter>>

\* POST apps/{app}/users/{u} replaces the roles and makes the assignment the
\* user's own; PATCH apps/{app}/groups/{g} replaces the roles.
UpdateInOkta(w) ==
    /\ assigned' = assigned \cup {Principal(w)}
    /\ own' = [own EXCEPT ![Principal(w)] = Target(w)]

Update(w) ==
    /\ pc[w] = "update"
    /\ \/ Updatable(Principal(w)) /\ UpdateInOkta(w) /\ Finish(w, "ok")
       \/ ~Updatable(Principal(w)) /\ Finish(w, "error") /\ UNCHANGED okta
    /\ UNCHANGED <<cache, fetch, counter>>

\* Okta carries the worker's write out.
Carried(w) ==
    \/ pc[w] = "assign" /\ AssignInOkta(w)
    \/ pc[w] = "update" /\ Updatable(Principal(w)) /\ UpdateInOkta(w)

\* A write that fails: refused by Okta, or its answer lost on the way, after
\* Okta carried it out or before.
WriteFails(w) ==
    /\ pc[w] \in {"assign", "update"}
    /\ \/ NotDone(w) /\ UNCHANGED okta
       \/ "transport" \in Faults /\ Finish(w, "error") /\ (Carried(w) \/ UNCHANGED okta)
    /\ UNCHANGED <<cache, fetch, counter>>

\* The connection ends where the answer should be, of a read or of a write that
\* Okta has carried out or not: the client will send the request again, and
\* does not count how often.
Eof(w) ==
    /\ "eof" \in Faults /\ w \notin eof
    /\ eof' = eof \cup {w}
    /\ \/ pc[w] \in {"settings", "ask", "assign", "update"} /\ UNCHANGED okta
       \/ Carried(w)
    /\ UNCHANGED <<cache, worker, fetch, counter>>

Resend(w) ==
    /\ w \in eof
    /\ eof' = eof \ {w}
    /\ UNCHANGED <<okta, cache, worker, fetch, counter>>

\* The connector process ends and is started again: tasks and cache are lost.
Restart ==
    /\ pc' = [w \in Workers |-> "idle"]
    /\ task' = [w \in Workers |-> NoTask]
    /\ seen' = [w \in Workers |-> Absent]
    /\ again' = [w \in Workers |-> FALSE]
    /\ attempt' = [w \in Workers |-> 0]
    /\ outcome' = [w \in Workers |-> IF Busy(w) THEN "lost" ELSE outcome[w]]
    /\ before' = [w \in Workers |-> Absent]
    /\ cache' = [p \in Principals |-> NoView]
    /\ eof' = {}
    /\ fetch' = [g \in Groups |-> NoView]
    /\ UNCHANGED <<okta, counter>>

Crash == "crash" \in Faults /\ (\E w \in Workers : Busy(w)) /\ Restart

-----------------------------------------------------------------------------
(* The rest of the process, and of the world. *)

\* The cache entry of p reaches its TTL.
Expire(p) ==
    /\ cache[p] # NoView
    /\ Forget(p)
    /\ UNCHANGED <<okta, worker, fetch, counter>>

\* getOktaAppGroupFromCacheOrFetch in a running sync reads the same URL.
SyncGet(g) ==
    /\ SyncReads /\ fetch[g] = NoView /\ cache[g] = NoView /\ g \in assigned
    /\ fetch' = [fetch EXCEPT ![g] = OwnView(g)]
    /\ UNCHANGED <<okta, cache, worker, counter>>

SyncFill(g) ==
    /\ fetch[g] # NoView
    /\ fetch' = [fetch EXCEPT ![g] = NoView]
    /\ IF CacheEnabled THEN cache' = [cache EXCEPT ![g] = fetch[g]]
                       ELSE UNCHANGED cache
    /\ UNCHANGED <<okta, worker, counter>>

\* An administrator edits an assignment in Okta's console.
OutsideWrite(p) ==
    /\ outside < MaxOutside
    /\ outside' = outside + 1
    /\ \/ /\ assigned' = assigned \cup {p}
          /\ \E R \in SUBSET Roles : own' = [own EXCEPT ![p] = R]
       \/ /\ assigned' = assigned \ {p}
          /\ own' = [own EXCEPT ![p] = {}]
    /\ UNCHANGED <<cache, worker, fetch, started>>

Call(w) ==
    \/ Settings(w) \/ Get(w) \/ Hit(w) \/ HitGone(w) \/ Ask(w) \/ AskFails(w) \/ Fill(w)
    \/ DecideAbsent(w) \/ DecideFound(w)
    \/ Assign(w) \/ Update(w) \/ WriteFails(w)

Handler(w) ==
    \/ w \notin eof /\ Call(w) /\ UNCHANGED eof
    \/ Eof(w) \/ Resend(w)

\* What goes on beside the handlers.
Beside ==
    \/ \E w \in Workers, t \in Tasks : Start(w, t)
    \/ \E p \in Principals : Expire(p) \/ OutsideWrite(p)
    \/ \E g \in Groups : SyncGet(g) \/ SyncFill(g)

Next ==
    /\ \/ \E w \in Workers : Handler(w)
       \/ Beside /\ UNCHANGED eof
       \/ Crash
    /\ UNCHANGED conf

Spec == Init /\ [][Next]_vars

\* A claimed slot keeps running; nothing else is obliged to happen.
FairSpec == Spec /\ \A w \in Workers : WF_vars(Handler(w) /\ UNCHANGED conf)

-----------------------------------------------------------------------------
(* Properties. *)

Applied(w, R) == IF Granting(w) THEN R \cup {Role(w)} ELSE R \ {Role(w)}

\* What a cached answer says of an assignment a principal has of its own is
\* what Okta holds, whatever reads and writes the slots are in the middle of.
\* (The cached view of a user who comes in through groups may be stale.)
CacheCoherent ==
    \A p \in Principals :
      /\ cache[p] # NoView
      /\ p \in assigned \/ p \in Groups \/ cache[p].scope = "USER"
      => p \in assigned /\ cache[p] = OwnView(p)

\* No lost update: a handler replaces the whole list, and yet each change of
\* an existing assignment is one task's role added to, or removed from, what
\* Okta held at that moment.
ExactChange ==
    [][\A p \in assigned \cap assigned' :
         own'[p] # own[p] =>
           \/ outside' # outside
           \/ \E w \in Workers : /\ Busy(w) /\ Principal(w) = p
                                 /\ own'[p] = Applied(w, own[p])]_vars

\* A user who reaches the app through groups gets an assignment of his own
\* only where the operator opted in and the app merges the roles.
ConversionAllowed ==
    [][\A u \in Users \cap (assigned' \ assigned) :
         Through(u) # {} =>
           \/ conf.allowConversion /\ (conf.joinAllRoles \/ conf.samlRolesUnionEnabled)
           \/ outside' # 0]_vars

\* A user's first direct assignment holds the roles the user had through
\* groups at that moment, changed by the task's role, and nothing else.
ConversionKeepsRoles ==
    [][\A u \in Users \cap (assigned' \ assigned) :
         \/ outside' # 0
         \/ \E w \in Workers : \E v \in Answers(u) :
              Busy(w) /\ Principal(w) = u /\ own'[u] = Applied(w, v.roles)]_vars

\* "Already exists", "already revoked" and the silent success of a revoke are
\* true of Okta when they are given, unless an administrator wrote before.
AnsweredTruly ==
    [][\A w \in Workers : Busy(w) /\ ~Busy(w)' /\ outside = 0 =>
         LET A == Answers(Principal(w)) IN
         /\ outcome'[w] = "exists"  => \E v \in A : Role(w) \in v.roles
         /\ outcome'[w] = "revoked" => \E v \in A : Role(w) \notin v.roles
         /\ outcome'[w] = "gone"    => A = {Absent}]_vars

\* The roles a task may leave behind: those it found, or those with its change.
MayLeave(w, R) ==
    LET Kept(B) == R \in {B, Applied(w, B)} IN
    IF before[w].found THEN Kept(before[w].roles)
                       ELSE Principal(w) \in Groups => Kept(DefaultRoles)

\* No half-made list: after any number of retries, resent writes and lost
\* answers, a task that ends (a crash included) leaves an assignment as it
\* found it or with its change; and a group that had none, with none, with the
\* roles of a fresh assignment, or with those and the task's role.
NoMixture ==
    [][\A w \in Workers : Busy(w) /\ ~Busy(w)' =>
         LET p == Principal(w) IN
         MayLeave(w, own'[p]) \/ p \notin assigned']_vars

\* In group-mapping mode the handlers change nothing.
MappingReadOnly ==
    [][conf.useGroupMapping => UNCHANGED okta \/ outside' # outside]_vars

\* Every task that was given a slot ends and frees it, whatever fails, unless
\* its connection goes on breaking off: the client never tires of that.
EveryTaskEnds ==
    \A w \in Workers : <>[](w \notin eof) => (Busy(w) ~> ~Busy(w))

-----------------------------------------------------------------------------
(* The inductive invariant behind CacheCoherent, ExactChange and NoMixture,  *)
(* for slots that never share a principal, with nobody else writing and no   *)
(* sync beside them that could fill the cache.                               *)

Undisturbed ==
    SerialPerPrincipal /\ MaxOutside = 0 /\ (CacheEnabled => ~SyncReads)

\* The abstract specification: one atomic change per task and true answers.
\* Its assignments are Okta's, its tasks the slots', its answers theirs.
Held == [p \in Principals |-> IF p \in assigned THEN own[p] ELSE NoRoles]
Abstract == INSTANCE RoleAssignments WITH held <- Held

\* Whatever is read, cached, repeated, resent or lost on the way, Okta and the
\* answers change as RoleAssignments says.
ImplementsRoles == Abstract!Spec

NoSharing ==
    \A v, w \in Workers : v # w /\ Busy(v) /\ Busy(w) => Principal(v) # Principal(w)

UnassignedEmpty == \A p \in Principals \ assigned : own[p] = {}

\* What view v says of p's own assignment, if anything, is so.
Current(p, v) ==
    IF p \in assigned THEN v = OwnView(p)
                      ELSE ~v.found \/ (p \in Users /\ v.scope = "GROUP")

CacheCurrent ==
    \A p \in Principals : cache[p] # NoView => cache[p].found /\ Current(p, cache[p])

\* The answer a worker holds is current until its own (perhaps resent) write,
\* and nobody refills the cache between the worker's miss and its write.
InHand(w) ==
    LET p == Principal(w) IN
    /\ pc[w] \in {"fill", "decide"} => Current(p, seen[w])
    /\ pc[w] \in {"ask", "fill", "assign", "update"} => cache[p] = NoView
    /\ pc[w] = "decide" /\ ~seen[w].found => cache[p] = NoView
    /\ pc[w] = "assign" =>
         /\ Granting(w) /\ ~before[w].found
         /\ p \in Users /\ p \in assigned => own[p] = {Role(w)}
    /\ pc[w] = "update" => \/ Current(p, seen[w]) /\ seen[w].found
                           \/ p \in assigned /\ own[p] = Target(w)

\* A task in progress has left its principal as it was, or done its change.
StartOrDone(w) ==
    LET p == Principal(w) IN
    /\ before[w].found => p \in assigned
    /\ p \in assigned => MayLeave(w, own[p])

WorkerInv == \A w \in Workers : Busy(w) => InHand(w) /\ StartOrDone(w)

NothingFetched == CacheEnabled => \A g \in Groups : fetch[g] = NoView

IInv ==
    /\ TypeOK
    /\ NoSharing
    /\ UnassignedEmpty
    /\ CacheCurrent
    /\ WorkerInv
    /\ NothingFetched
=============================================================================
