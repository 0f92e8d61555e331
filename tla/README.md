# A verification model of baton-okta-aws-federation

This connector tells ConductorOne who holds which AWS role through Okta's
"AWS Account Federation" app, and grants and revokes those roles. It keeps no
database: the truth is in Okta, reached over HTTP, and everything the connector
knows is a copy that may be out of date. Four parts carry the logic that is hard
to test, and are modelled:

* **provisioning**, `Grant` and `Revoke`: read a list of roles, change it, write
  it back, in several task slots at once and over a response cache;
* **the grants sync**, `Grants`: a long paged read that is interrupted, resumed
  and repeated, with a session store beside it;
* **the account sync**, `List`, `Entitlements` and the grants of group mapping:
  three listings of the same groups, read one after the other while the groups
  and the app's settings change;
* **the shared cache**: one Okta client under the tasks and the sync.

## 1. The system

| Component | Code | State | Operations |
|---|---|---|---|
| Provisioning | `pkg/connector/aws_account.go` 846–1239, `helpers.go` | none of its own between calls | `Grant`, `Revoke` for users and for groups |
| Okta client | vendored `okta-sdk-golang/v5/okta/client.go`, `gocache.go` | response cache (URL → answer, TTL) | `do`, `doWithRetries` |
| Task runner, retryer | vendored `baton-sdk`: `connectorrunner/runner.go`, `connectorbuilder/resource_provisioner.go`, `retry/retry.go` | task slots, retries used | run a task, call its handler again |
| Grants sync | `aws_account.go` 243–614, 755–835, `pagination.go` | the page token it is handed | `Grants` → `groupGrants`, `userGrants`, `collectRolesFromUserGroups`, `getOktaAppGroupFromCacheOrFetch` |
| Session store entries | `pkg/connector/connector.go` 29–37, 388–508 | settings, roles per app group, "not an app group" marks, the set of app-group IDs | get, set; the entries may vanish |
| Sync engine | vendored `baton-sdk`: `connectorbuilder/resource_syncer.go`, `sync/*` | committed grants, page token | commit or repeat a page, warn, fail |
| List and Entitlements | `aws_account.go` 66–226 | page token | accounts and roles from the app, or from group names |
| Group filter | `connector.go` 361–365, `aws_account.go` 1273–1302 | none | rewriting the filter, matching names |
| Entitlement IDs | `aws_account.go` 229–241 | none | role of an entitlement ID |
| App settings | `connector.go` 280–442 | none | reading and checking the app's settings |
| Error classification | `helpers.go`, `retry/retry.go`, `sync/syncer.go` 699 | none | the code of an answer, and what the SDK makes of it |
| Validate, New, config, command | `connector.go`, `pkg/config`, `cmd/` | none | start-up |

**How they interact.** The runner gives a task to a free slot (three by default)
and calls the handler; an error coded `Unavailable` or `DeadlineExceeded` makes
the retryer call it again from its first line, at most three times. All slots,
and a sync that may run at the same time, share one Okta client and its cache.
A GET is answered from the cache if the URL is there; a write first drops the
entry *of its own URL* and then goes out. The sync engine calls `Grants` with
the token of the page before; grants and next token are committed together when
the call succeeds, while session-store writes bypass that commit and stay.

**What is hard.** Two tasks of one principal in two slots; an answer on its way
into the cache while a write goes out; a page that stays cached while what it
shows is changed; settings that are read at one time and used at another; a write whose answer is lost or that the
client sends twice; a retry after half of a three-call grant; a crash between
two calls; users read long after the groups they are in; an index into a list
that is read again; a store whose writes fail silently and whose entries vanish.

**What makes it correct.** *Provisioning*: no change of another task is lost; a
task leaves an assignment as it was or with its change; a group assignment is
converted into a direct one only where opted into, and keeps the user's roles;
"already exists" and "already revoked" are true; every task ends. *Cache*: an
entry does not contradict Okta after the process itself has written. *Sync*: what
was there from beginning to end is reported; nothing else is, that never was;
the shortcuts (ID set, negative marks) never hide an app group; the sync ends.
*List, Entitlements*: every account and role that a lasting name gives, whatever
the pages, and no grant without its entitlement. *Shared cache*: what is reported
or decided on is no older than the time to live, and the syncs catch up.
*Filter, settings*: the function computed is the documented one. *Errors*: what
will pass is waited out, and what will not ends the sync.

Every hazard found in the code, with its line and the properties aimed at it, is
in `PROJECT.json` under `hazards`.

## 2. The modules

| Module | Models |
|---|---|
| `RoleAssignments` | what provisioning promises: one atomic change per task, true answers |
| `Provisioning` | the handlers, the client's cache and resending, the retry loop, the slots, Okta's assignments; it implements `RoleAssignments` |
| `ProvisioningProofs`, `RefinementProofs`, `OneSlotProofs` | its type correctness, inductive invariant and refinement, proved; what one slot alone guarantees of conversions and answers, proved |
| `Paging`, `PagingProofs` | a listing of Okta, read page by page; what a page and its next link cover, proved |
| `ErrorPolicy` | the status code of an answer, and the SDK's verdict on it |
| `SyncReport` | what a sync promises to whoever reads its report; both syncs implement it |
| `GrantSync`, `GrantSyncProofs`, `OnwardProofs` | one account's paged grants sync, the session store, page commits, Okta changing underneath; extends `Paging` and `ErrorPolicy`; its safety properties and refinement, proved; that no page token ever comes back, proved |
| `GroupFilter` | the app's regular expression, as Okta means it and as the connector rewrites and reads it |
| `AppSettings` | what the connector requires and keeps of the app's settings |
| `AccountSync`, `AccountSyncProofs` | a whole sync of the accounts, with and without group mapping; composes `Paging`, `ErrorPolicy`, `GroupFilter` and `AppSettings`; its safety properties and refinement, proved |
| `SharedCache`, `SharedCacheProofs` | one client's cache, in time, under the task slots and a sync; its invariant, proved |
| `MCProvisioning`, `MCGrantSync`, `MCAccountSync` | instances for TLC |

Definitions preceded by "(Faulty variant: …)" are not part of the specification.
Each is a plausible mistake in the definition that follows it (a reset left out,
an index off by one); putting it in that definition's place makes a run fail,
which shows that the property notices. `PROJECT.json` pairs them under `mutants`.

### Provisioning

`assigned` and `own` are Okta: who has an assignment of its own, and its
`samlRoles`. A list of roles is a set, since the handlers only test membership,
append what is absent and remove every occurrence. `Answers(p)` is what the two
GETs may return; for a user who comes in through groups it is the union of the
groups' roles, or the roles of one of them, depending on the app's setting.

A worker is a task slot. Its `pc` names the next call of the handler: `settings`
(`getAWSApplicationConfig`, the refusal of group mapping, and that of an
entitlement ID with a fourth part, which is a role not in `Parsable`), `get` (is
the URL cached?), `hit` (it was, and is looked up once more, `client.go` 1375) or
`ask` (it was not, and Okta is asked) and `fill` (Okta has answered, and the answer
is stored), `decide` (the code between
the GET and the write: refusal, nothing to do, or a new list; the last step of
it is the client dropping the cached URL), `assign` and `update` (the write).
`again` marks the second GET of a group's first grant (`aws_account.go` 995).
A call that fails is `NotDone` (429, retried; or another error), `AskFails` or
`WriteFails` (also: no answer, with the write carried out or not). A connection
that ends in an EOF (`Eof`) is the client's own affair: it sends the request again
(`Resend`), the read or write that it was, without looking into its cache again and
without counting (`client.go` 1403, 1601); `eof` are the workers waiting for that.
Two nil pointers end in an error of the task, since the SDK's gRPC server recovers
from them (`ugrpc/interceptors.go` 46–78): the body of a first GET that had no HTTP
answer is closed (`aws_account.go` 878, 967, 1039, 1110), part of `AskFails`; and
the entry is gone between the client's `Has` and `Get` (`HitGone`). `Crash` is the
process dying with all its slots; `Restart` loses slots and cache and keeps Okta. `SyncGet`/`SyncFill` are a running sync reading the same URLs; `OutsideWrite` is an administrator.
`before` is history: the principal's assignment when its task began.

`RoleAssignments` is the specification that whoever issues tasks would write:
the assignment of each principal (`NoRoles` where there is none), the task of
each slot, its answer. A task changes its principal's list by its own role in
one step, a new assignment of a group begins with the app's default roles, and
the answer is true of the assignment it leaves. `Provisioning!Abstract` maps
`assigned` and `own` to it and keeps tasks and answers as they are. A conversion
maps to a user's new assignment, which has or lacks the task's role; what else
it has is `ConversionKeepsRoles`.

Bounds: `MaxTasks` and `MaxOutside` stop the counters; `MaxAttempts`
is the retryer's limit, 3 in the code and 1 in the runs. Resends have no bound, as
in the code. `Beginnings` says which roles each assignment may have at first: in
`one_slot` one; in `serial_slots` one for the user, and for the group one, or both.

### GrantSync

Okta is one record, `world`: app groups and their roles, direct users and their
roles, memberships, deleted users. `token` is the committed page token: the
phases left in the bag of `Grants`, the cursor of the group phase, and the bag
inside the user phase, whose frames are either the next page of app users or a
user and an index. A call goes `idle` → `page` (settings read) → one page of
groups or of users, or → `fetch`, where a user's groups are looked up one at a
time: in the session store (`FromStore`) or from Okta (`FromOkta`). Every Okta
call is a step of its own; `Commit` makes grants and token durable at the end;
`Fail`, `CallFails`, `FetchFails`, `UserNotFound` and `Crash` are the ways a
call ends otherwise; an answer's code is `ErrorPolicy!Code`, or `Uncoded` where
the handler replaces the error. A lookup that fails after some progress commits
what it has and puts the user back with the index it reached. `OktaChanges` alters anything
that `Changes` names, between any two steps. `always` and `ever` are history:
the reasons for a grant that have held from the beginning, and those that have
held at some moment; `moved` is the users whose memberships changed.

Not in the model: answers of Okta served from the client's response cache (that
is `SharedCache`), and malformed profiles.

`SyncReport` is what a sync looks like from outside: a set of published facts, the
facts that have been true since the sync began (`lasting`) and those that have been
at some moment (`possible`). What is true changes at any time; a page publishes
facts that were true at some moment and takes nothing back; a sync that is given
up publishes nothing more; and one that ends well has published what lasted.
There are no tokens, stores or failures in it. `GrantSync!Published` maps
`always` and `ever` to the two sets of truths, as grants (`GrantOf`), and the
report to the committed grants together with what the SDK derives from a grant to
a group for its members (`Expanded`): a reader sees both. Only the commit of a page
changes the report; whatever else a call does maps to a stutter.

### AccountSync, with GroupFilter, AppSettings, ErrorPolicy, Paging

A sync of the account resource type: `List`, then `Entitlements` of each account,
then `Grants` of each, the order of the SDK's actions (`sync/initial_actions.go`
51–57). `action`, `after` and `todo` are the SDK's: the call to make, its cursor
and the calls to come. A call reads the settings (`ReadSettings`: of the session,
or of Okta, then stored) and then its page; `Commit` makes both results and
cursor durable. In group-mapping mode each of the three handlers reads the names
of all groups of the organization; otherwise the one account is that of the
identity provider's ARN, its entitlements are the app's SAML roles, and its
grants are `GrantSync`'s. Groups are created, renamed and deleted, and group
mapping is switched, between any two steps; requests fail, the process dies, the
session loses the settings. History: `steady` are the groups whose names have
lasted, `had` the names each one had, `mapped` whether group mapping was on
throughout, `lost` whether the settings were lost, `blame` what ended the sync.

A name is the sequence of texts at the places where a filter captures, so that a
filter reads it or not by length and by the kind of each text. `OktaReads` is what
Okta makes of a name, by the names of the filter's groups; `Reading` what the
connector does, by their order, with its own patterns (`Fits`), in `Broken` filters
not at all. `Complete` compares the two.

`AccountSync!Published` maps the three listings to one `SyncReport`, whose facts
are accounts, entitlements (an account and a role) and grants (with a group).
`lasting` is what Okta reads in the names that lasted, in group-mapping mode;
`possible` is what Okta could read in any name there was and, if group mapping was
off at some time, the provider's account and the app's SAML roles.

### SharedCache

`held` is Okta: the list of roles of each group. `cache` maps a URL, a group's own
or that of the listing's page, to what was answered and an age. A task reads its
group's URL, decides, drops that entry and writes; the sync reads the page. `Ask`
and `Fill` are two steps, so an answer may be on its way while another writes.
Time is counted in ticks and relatively: each entry, each request on its way, and
each list that a group no longer has (`since`, history) has an age, so the states
are finitely many although time never ends. A tick waits for requests that have
taken `MaxFlight`, which is the timeout of the HTTP client (`uhttp/client.go` 77). Of a
request that is sent again after an EOF, `Ask` is the time whose answer arrives.

## 3. The runs

The instances are small but hold every case the code distinguishes: a user, a
group he is in, a second role, a second slot, more tasks than slots; a listing of
more than one page, an app group and one that is not, a user put off and one
read inline, every failure before, inside and after a page.

| Run | Question | Bounds |
|---|---|---|
| `serial_slots` | Do cache, lists and half-done grants stay right when tasks on one principal never overlap? `CacheCoherent`, `ExactChange`, `NoMixture`, the inductive invariant `IInv`, and the refinement `ImplementsRoles` | 1 user, 1 group, 2 roles, 2 slots, 3 tasks, cache on, every fault, any number of resends; slots symmetric |
| `one_slot` | Are conversions, refusals and answers right, and does every task end? `TypeOK`, `ConversionAllowed`, `ConversionKeepsRoles`, `AnsweredTruly`, `MappingReadOnly`, `EveryTaskEnds` | 1 user in 2 groups, 1 slot, 1 task, all five configurations, one role that has a colon, every fault, any number of resends, a sync and an administrator (1 write) beside it |
| `grant_sync` | Is a sync complete and sound, and are its shortcuts safe? `TypeOK`, `Complete`, `Sound`, `NegativeTrue`, `SetComplete`, and the refinement `ImplementsReport` | 3 users, 3 groups, pages of 2, 4 configurations, every set of app groups and of direct users, 1 fault, 1 change of roles, assignment or direct assignment, lost and evicted entries |
| `sync_ends` | Does it end, does it never go back, and is a loss warned of? `WarnedOfLoss`, `Sound`, `Onward`, `SyncEnds` | 2 users, 2 faults, memberships that change, users that are deleted |
| `account_sync` | Do accounts, entitlements and grants fit Okta and one another? `TypeOK`, `Complete`, `Sound`, `Anchored`, `TroubleWaitedOut`, `SyncEnds`, and the refinement `ImplementsReport` | 3 groups, pages of 2, 2 accounts, 6 apps (mapped, unmapped, four that are refused or whose filter is broken), 2 faults, 1 rename, 1 switch of group mapping |
| `shared_cache` | How old may be what a sync reports and a task decides on? `IInv`, `Fresh`, `Converges` | 1 group, 2 lists, 2 slots and the sync, time to live 2, requests of 1 tick |

`MaxTasks = 3` lets a third task meet what two others left in cache and Okta.
One fault and one change suffice for the sync's safety properties because a page
that failed leaves no trace but the session store, whose entries may be lost in
addition, without limit; `sync_ends` has two so that a user is put back twice, and
`account_sync` two so that settings are lost and a page fails in one sync. Three
groups in pages of two give every listing a first, a last and a full page, and a
group that appears behind or before the cursor. A second group in `shared_cache`
would only add a second, independent URL to the one page; two lists are what a
page can disagree about, and a time to live of 2 is more than a request takes, so
that an entry can be refreshed, expire, and outlive a write.
`CHECK_DEADLOCK FALSE` is in every configuration but those of `SharedCache`: when
the tasks are used up, or the sync has ended, the system rightly stops.

`grant_sync` leaves out two things that do break `Complete`, each shown by a run
of its own: memberships that change, and ID-set writes that fail. `one_slot` has
one slot and one task, because a conversion is built on a cached answer that an
earlier task on another principal has made old (`stale_conversion`).
`account_sync` has filters that capture the account first; the other order is
`default_filter`. `Complete` there is stated for texts of two characters or
more, as the code's patterns ask for two.

Six runs end in a counterexample. Each is a disagreement between the code and
what the repository says of it; `PROJECT.json` quotes both.

| Run | Counterexample |
|---|---|
| `lost_update` (`ExactChange`) | Two grants of one group that has no roles, in two slots: both read the empty list; the first writes its role, the second replaces that by its own. Both report success. |
| `stale_conversion` (`ConversionKeepsRoles`) | A group has two roles. A task on its user leaves the user's derived roles in the cache; one role is revoked from the group; then the other is revoked from the user, on the strength of the cached answer, and what is written as the user's own list is the role just revoked from the group. |
| `shifted_index` (`Complete`) | A user is put back with index *i*, leaves groups, and the index points past a group that was never looked up. |
| `partial_set` (`Complete`) | One page's ID-set write fails, a later page's takes; the set looks complete and rules out the first page's groups. |
| `default_filter` (`Complete`) | Under the filter the source gives for the default group syntax, which captures the role first, a sync ends well and has taken roles for accounts. |
| `zero_ttl` (`Fresh`) | With `cache-ttl` 0 an answer is kept for ever: a sync is answered with a list, an administrator changes it, time passes, and the sync is answered with the old list again and goes on reporting it. |

Further disagreements, met while modelling and visible in the modules:

* `AssignUserToApplication` is sent on the strength of an earlier 404
  (`aws_account.go` 948); a group granted in between makes it a conversion with
  the option off, against docs/connector.mdx 210. It takes a second slot: with one
  it cannot happen, in any number of tasks (`ConversionsAreOptedInto`), and only an
  administrator's write is excused.
* A transport error on a handler's first GET is a nil pointer, recovered from as
  an internal error of the task (`AskFails`), where helpers.go 58–62 says that it is
  returned unchanged.
* `handleOktaResponseErrorV5` gives timeouts a code that is retried (helpers.go
  71–78), but the Okta client keeps only the text of such an error
  (`api_group.go` 2496–2499): a listing that times out before it is answered has no
  code, and the sync fails. `TroubleWaitedOut` is of what Okta answers.
* "stop retrying if operation reached retry limit" (`client.go` 1602) never comes to
  pass for EOFs, nor for a 429 whose body breaks off, which are not counted: a
  connection that keeps breaking off keeps a task, or a page, for ever.
* An answer whose body breaks off is stored without its content (`gocache.go` 43),
  and until the time to live is over each read of that URL is a nil pointer.
* Grants, `List` and `Entitlements` replace the settings' error by one without a code, and
  `listAWSSamlRoles` never gives one, so a 429 there ends a sync that
  helpers.go 58–60 says is retried. `TroubleWaitedOut` is therefore stated of listings only.
* One deleted user ends the rest of the account's grants with a warning (`UserNotFound`).
* The ARN must parse in group-mapping mode too, although connector.go 62–63 says
  that it is used only without it: `Accepted`.
* A role of one character is never matched: `Fits`.

**Fairness.** `EveryTaskEnds` assumes weak fairness of each worker's handler: a
goroutine that runs a task is scheduled, and every HTTP call returns or times
out. It does not assume that calls succeed: the retries after a 429 are counted.
Resends after an EOF are not, so what is claimed is that a task ends unless its
connection goes on breaking off: `<>[](w \notin eof)` is a premise of the property,
not of the specification. Nothing obliges
tasks to start, entries to expire or the process to crash. `SyncEnds` assumes
weak fairness of `Page`, in both syncs: the SDK calls the next page, and calls
return, so that connections do not break off for ever there either. There the retryer has no limit, so an Okta that rate-limits for ever would
be asked for ever; `MaxFaults` says that failures cease, and the property that the
sync then ends, without ever being handed its own token. `Converges` assumes that
time passes, that requests are answered, and that syncs keep being run, each of
which begins with the listing: strong fairness of `Listing`, since a sync may find
itself with a request on its way, and so unable to begin another, again and again.

## 4. What is proved

For any number of users, groups, roles, lists and slots, any configuration and any
faults:

| Module, theorem | States | Assumes |
|---|---|---|
| `ProvisioningProofs`, `TypeCorrect` | `Spec => []TypeOK` | the assumptions on the constants |
| `ProvisioningProofs`, `Invariant` | `Spec => []IInv` | `Undisturbed` |
| `ProvisioningProofs`, `CacheIsCoherent` | `Spec => []CacheCoherent` | `Undisturbed` |
| `ProvisioningProofs`, `NoLostUpdate` | `Spec => ExactChange` | `Undisturbed` |
| `ProvisioningProofs`, `EndsClean` | `Spec => NoMixture` | `Undisturbed` |
| `RefinementProofs`, `Refinement` | `Spec => ImplementsRoles` | `Undisturbed` |
| `OneSlotProofs`, `MappingChangesNothing` | `Spec => MappingReadOnly` | the assumptions on the constants |
| `OneSlotProofs`, `ConversionsAreOptedInto` | `Spec => ConversionAllowed` | `OneSlot` |
| `OneSlotProofs`, `ConversionsKeepRoles` | `Spec => ConversionKeepsRoles` | `FirstHand` |
| `OneSlotProofs`, `AnswersAreTrue` | `Spec => AnsweredTruly` | `FirstHand` |
| `SharedCacheProofs`, `CacheInvariant` | `Spec => []IInv` | `TTL # 0` |
| `SharedCacheProofs`, `AlwaysFresh` | `Spec => []Fresh` | `TTL # 0` |
| `PagingProofs`, `NextPageSound` | a page and its next link go by every member between two cursors, and the cursor moves on | a page size that is not 0 |
| `GrantSyncProofs`, `TypeCorrect` | `Spec => []TypeOK` | the assumptions on the constants |
| `GrantSyncProofs`, `NeverStuck` | `Spec => [](status # "stuck")` | the assumptions on the constants |
| `GrantSyncProofs`, `RulesOutRightly` | `Spec => []SetComplete` | `SetKept` |
| `GrantSyncProofs`, `NegativesAreTrue` | `Spec => []NegativeTrue` | `SetKept` |
| `GrantSyncProofs`, `LossIsWarnedOf` | `Spec => []WarnedOfLoss` | `SetKept` |
| `GrantSyncProofs`, `NothingLeftOut` | `Spec => []Complete` | `SetKept`, `Settled`, no answer 404 |
| `GrantSyncProofs`, `NothingMadeUp` | `Spec => []Sound` | `MembersStay` or `RolesStay` |
| `GrantSyncProofs`, `ReportImplemented` | `Spec => ImplementsReport` | `SetKept`, `MembersStay` |
| `OnwardProofs`, `GoesOnward` | `Spec => Onward` | the assumptions on the constants |
| `OnwardProofs`, `PlacesAreBounded` | `Spec => [](Place(token) \in Places)`, a finite set | the assumptions on the constants |
| `OnwardProofs`, `NeverAgain` | a token that was left is never the token of a running sync again | the assumptions on the constants |
| `AccountSyncProofs`, `TypeCorrect` | `Spec => []TypeOK` | the assumptions on the constants |
| `AccountSyncProofs`, `NeverStuck` | `Spec => [](status # "stuck")` | the assumptions on the constants |
| `AccountSyncProofs`, `WaitsTroubleOut` | `Spec => []TroubleWaitedOut` | the assumptions on the constants |
| `AccountSyncProofs`, `GrantsAnchored` | `Spec => []Anchored` | the assumptions on the constants |
| `AccountSyncProofs`, `NothingLeftOut` | `Spec => []Complete` | every filter captures the account first, or does not compile |
| `AccountSyncProofs`, `NothingMadeUp` | `Spec => []Sound` | the same, and a role may be any name |
| `AccountSyncProofs`, `ReportImplemented` | `Spec => ImplementsReport` | as `NothingMadeUp` |

`Undisturbed` is `SerialPerPrincipal /\ MaxOutside = 0 /\ (CacheEnabled => ~SyncReads)`:
the platform does not overlap tasks on one principal, nobody else writes, and no
sync that fills the cache runs beside them. Each part is needed: without the
first, `lost_update`; without the second, the cache is simply old; without the
third, a sync's answer read before a write enters the cache after it. With the
cache off a sync may run.

**The argument.** `CacheCoherent` is not inductive: a worker holds an answer
between `get` and `fill`, and would put it into the cache. `IInv` adds what makes
it so. `NoSharing`: busy slots have different principals. `CacheCurrent`: a cached
answer agrees with the principal's own assignment. `InHand`: the answer a worker
holds is current until its own write; from the miss to the write the URL is not
cached; and at the write either the answer is still current or the write has
been done already (a resent one), so that doing it changes nothing.
`StartOrDone`: the principal is as it was when the task began, or has its
change. `UnassignedEmpty` and `NothingFetched` close the remaining gaps. A step of
worker *w* touches Okta and the cache at *w*'s principal only; with `NoSharing`
all other workers' parts are untouched (`LocalTo` and the lemmas on it), so the
proof has one case per action about *w* itself. The action properties follow
from `IInv` and the step. TLC checks `IInv` in `serial_slots`.

The refinement rests on the same invariant. Initial states map to initial
states; `Start` is `Begin`, since no busy slot has that principal; a write that
Okta carries out is `Work`, or `End` with the answer, and `IInv` says that what it
writes is the old list with the task's change, or what is there already;
answers given without a write are true by `Current`; a crash is
`Lose`; every other step leaves assignments, tasks and answers alone.

With one slot (`OneSlot`) less need be assumed, since no other task moves Okta
between a task's read and its write. A sync may fill the cache and an
administrator may write; until he does, `ScopeInv` holds: what is cached or held
of a user without an assignment of his own says that he comes in through a group
(`CachedScope`, `InHandScope`), and a 404 in hand, which is never cached, says that
he is in no assigned group. So `AssignUserToApplication` goes to somebody who is
not in the app, and a list goes to a user with a group assignment only where
`CanConvert` is true. That says where the user's roles come from, which no task of
another principal changes, but not which they are: for this, `FirstHand` adds that
no earlier task's answer is in the cache, by the cache being off or there being
one task only; `stale_conversion` is what happens otherwise. `FreshInv`
then says that the cache and the task know of a user what Okta answers now
(`UserCache`, `UserInHand`) and of a group nothing that misleads the task about its
role (`Known`, `GroupInHand`): a sync may have read the group before the task wrote
it, and what it caches afterwards is old, but never shows the task's change as made
while it is not (`Misleads`). `MappingReadOnly` needs none of this: in
group-mapping mode no handler gets past its settings (`HeldBack`).

In `SharedCache`, `Fresh` says that the last answer handed over, to the sync or to a
task, from the cache or not, held nothing too old (`overdue`, history). It follows
from an invariant about ages. `FlightsKnown`: what is in an answer on its way was given up no longer ago than
the request has taken. `StoredKnown`: what is in an entry was given up no longer
ago than the entry's age and the longest request. A tick adds one to each side
(`TickOlder`, `AgedEntry`), a write makes lists younger, never older
(`HoldsYounger`), and what the reader is given is bounded by
`TTL + MaxFlight`. `TTL # 0` is needed: `zero_ttl`. A write by a task or an
administrator disturbs neither bound, which is why the entries of other URLs may
stay without making `Fresh` false, and what it costs is that `Fresh` is all there
is: a sync within the time to live may report the state before a grant.

`SetKept` says that the set of app group IDs is neither dropped from the session
store nor left unwritten by a failing write; `partial_set` is the sync without
it. `MembersStay` says that nobody joins or leaves a group and nobody is deleted
during the sync; roles, app assignments and direct assignments may change all the
same, and so they may in the theorems that assume `SetKept` alone, with memberships
and deletions besides. `Settled` adds that no member was deleted before it began
(`shifted_index` is the sync without it). `RolesStay` says that no group's roles and no app
assignment of a group change, while people may move. `Sound` needs one of the two:
where both change, a role that a group has given up is still in the session store
when a user joins it, and is reported for a user who never had it (the hazard at
`aws_account.go` 587; TLC finds it in `sync_ends` with `"roles"` added to `Changes` and two of them).

The invariant of `GrantSync` says of a page token what has been reported when the
sync has come to it. A group is behind the cursor (`GroupPast`) once the groups'
phase is over or the cursor has gone by it, and is then reported
(`GroupsReported`). A user is behind (`UserPast`) once the state of the next page,
which can only lie at the bottom of the bag (`Shape`), has gone by him; each of
his reasons is then reported, or he is in the bag with an index not past that
group (`Waiting`, `UsersReported`). An index counts the user's groups of smaller
ID (`Rank`), which is a bijection to the places in his list (`RankInjective`,
`RankOnto`, by counting), so moving the index by one passes over one group only;
this is what needs his groups to stay, and why users in `moved` are left out.
`Gathered` says the same of the call in progress and what it has found.
`Truthful` and `SetInv` tie the session store to the reasons that lasted: a
stored entry has their roles, no negative entry is about their groups, and the
set of IDs, begun by the first of several pages, is never behind the cursor. That
a set that is there is complete follows only because no page's write was lost.
When the status is `done` the bag is empty, nobody is waiting, and
`WarnedOfLoss` is what is left; with `Settled` nobody is in `moved`, nothing ends
in a warning, and it is `Complete`. `Sound` is inductive with `Founded`: a role
stored for a group was once the group's, and was a reason for each of its members
now (`Backed`), because members stay, or because what a group once gave it still
gives; and the groups a call has listed gave theirs to the user it lists them for
(`ListedGave`), who may have left them since.

`NeverStuck` says that no page returns its own token, which is all that the SDK
looks for; a sync could still go round through two. `Onward` says where a token
is (`Place`): the phase, the cursor of the groups, the next page of users, how
many users are still in the bag, and the index into the groups of the one in hand.
In lexicographic order each token is `Before` the next. A page of groups moves
the cursor, or ends the phase; a page of users moves the state of the next page,
which lies at the bottom of the bag, or takes it away, for which the bag may grow;
a user who is done leaves the bag, and one who is put back comes with a greater
index, for a first lookup that fails fails the call. None of this asks anything of
Okta: listings that shrink or grow between the pages only end the phase sooner or
later. It does need a bound on the cursors (`Bounded`), since a bag without a next page
counts as past all of them. `Before` is a strict order (`NotBeforeItself`,
`BeforeTransitive`), so a token that was left is never met again, and the places are
finitely many, whatever the number of faults: that is the safety part of `SyncEnds`. What is left
to TLC is that a page that goes on being asked for is in the end committed.

The invariant of `AccountSync` has the same shape, without the bag. `Position`
ties the phase, the cursor and the settings that are known; a group is `Past` once
its listing's cursor has gone by it; `Covered` says that what lasts in the name of
a group that is past is reported, in each of the three listings; `Traced`, that
everything reported was read in a name that the group had; `Blamed`, that what
ended the sync is what the error policy ends it for. The order of a filter's
captures enters at one point, `OktaAndConnector`: what Okta reads in a name and
what the connector reads there are the same when the account comes first.
`Anchored` then follows because no grant is listed before every account's
entitlements have been (`Position`), so the group is past there too, with the same
settings.

Both refinements of `SyncReport` rest on what is proved of the invariants before:
`Sound` makes what is published possible, `Complete` makes a good end cover what
lasted, and what remains is that nothing published is lost or becomes impossible.
For `GrantSync` that is `Backed` once more: a role that a group gave at some moment
it gave to each of its members at that moment (`CausesClosed`), and the members are
the same now, so that a grant derived from a group's is as true as the group's; `Expanded` only
grows because members stay (`Unmoved`). For `AccountSync` it is `Sourced`: a fact
that is reported without a name to be read in was reported outside group mapping,
and is the provider's account or one of the app's roles. `Reportable` puts together
what the mapping needs in one state, `ReportStep` takes each kind of step
(`StepKinds`) to `Publish`, `GiveUp`, `Change` or a stutter.

In both, a page is taken apart by `PageHasNoGaps` and `PageIsEmptyLast`, from the
theorems on finite sets: a page is an initial piece of what lies behind its
cursor, and is empty only when nothing does.

**Only model-checked:** the four liveness properties, `EveryTaskEnds`, `SyncEnds`
of both syncs, and `Converges`, since the prover does not handle fairness. Every
invariant, action property and refinement that a passing run checks is a theorem. What the theorems assume
beyond the constants' assumptions is needed wherever a counterexample is named
above.

## 5. Not modelled

`Validate`, `New` and `main`: start-up and construction, without state; the range
of `cache-ttl` that `New` lets pass is `SharedCache`'s assumption. The
configuration fields other than `cache` and `cache-ttl` are declarations.
Entitlement IDs are a role's name with or without a colon (`Parsable`); the
formatting of an ID in the SDK is not. Malformed profiles of groups and users,
which end a page like any other error. Of times, the backoff and the rate-limit
windows: a wait is a step that may happen. Matching regular expressions on
characters: a name is taken apart at the filter's captures. Of the vendored code,
only what decides when a handler is called, repeated or believed, and what a
cache gives back.

## 6. Plan

Done: provisioning with its abstract specification and refinement; the grants
sync and the account sync, with the abstract report that both refine; the filter,
the settings, the error policy and paging; the shared cache; the safety properties
of all of them as theorems, and the safety part of the grants sync's end. Left: a
report of the grants sync that people may move under, in which `Expanded` takes
back the grants of those who leave.

Modules that are proved about use recursive functions or folds, never recursive
operators. Each run answers a question of its own; where a new one subsumes an
older one, it replaces it.
