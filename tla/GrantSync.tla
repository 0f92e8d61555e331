----------------------------- MODULE GrantSync ------------------------------
(***************************************************************************)
(* Grants of one AWS account (pkg/connector/aws_account.go): the sync calls *)
(* it page after page, each with the page token of the one before, and the *)
(* handler first reads the groups assigned to the app, then its users, and *)
(* for a user who comes in through groups only, those groups one by one.   *)
(*                                                                         *)
(* A page is one step for each API call it makes.  Its grants and its next *)
(* token are committed together, when the call returns; what it writes to  *)
(* the session store stays, whatever becomes of the call.                  *)
(*                                                                         *)
(* Users and groups are numbers, in the order of their Okta IDs.           *)
(***************************************************************************)
EXTENDS Paging, ErrorPolicy, Integers, Sequences, SequencesExt

CONSTANTS
    NumUsers, NumGroups, Roles,
    NameRoles,          \* roles a group's name gives in this account
    Configurations,     \* app settings considered
    Worlds,             \* what Okta may hold when the sync begins
    LargeCollection,    \* largeAppGroupCollectionSize (5)
    Faults,             \* kinds of failing call that may happen
    LostWrites,         \* session entries whose write may fail
    Evictable,          \* session entries that may vanish
    Changes,            \* kinds of change in Okta beside the sync
    MaxFaults, MaxChanges,      \* bounds of the model
    NoEntry

Users  == 1 .. NumUsers
Groups == 1 .. NumGroups
NoUser == 0

Configuration == [joinAllRoles : BOOLEAN, samlRolesUnionEnabled : BOOLEAN,
                  useGroupMapping : BOOLEAN]

\* The app's groups and their roles, the users assigned directly and their
\* roles, who is in which group, and who was deleted.
World == [appGroups : SUBSET Groups, groupRoles : [Groups -> SUBSET Roles],
          direct : SUBSET Users, own : [Users -> SUBSET Roles],
          member : [Users -> SUBSET Groups], gone : SUBSET Users]

Entries     == {"settings", "appGroup", "notAppGroup", "appGroupIDSet"}
FaultKinds  == AnswerKinds \cup {"storeRead", "crash"}
ChangeKinds == {"roles", "assignment", "direct", "member", "delete"}

ASSUME SyncAssumption ==
    /\ {NumUsers, NumGroups, LargeCollection, MaxFaults, MaxChanges} \subseteq Nat
    /\ NameRoles \in [Groups -> SUBSET Roles]
    /\ Configurations \subseteq Configuration
    /\ Worlds \subseteq World
    /\ Faults \subseteq FaultKinds /\ Changes \subseteq ChangeKinds
    /\ LostWrites \subseteq Entries /\ Evictable \subseteq Entries
    /\ \A S \in (SUBSET Roles) \cup (SUBSET Groups) : S # NoEntry

VARIABLES
    conf, world,        \* the app's settings; Okta
    settings, appGroup, notAppGroup, appGroupIDSet,     \* the session store
    token, status, reported,        \* what the sync has committed
    pc, listed, at, found,          \* the call in progress
    always, ever,       \* history of Okta: the reasons that lasted, and those that were
    moved,              \* history of Okta: users who left or joined groups
    faults, changes     \* counters, for the bounds

store   == <<settings, appGroup, notAppGroup, appGroupIDSet>>
sync    == <<token, status, reported>>
call    == <<pc, listed, at, found>>
outside == <<conf, world, always, ever, moved, changes>>
vars    == <<outside, store, sync, call, faults>>

\* Why a principal holds a role: <<0, g, r>> for group g itself, <<u, 0, r>>
\* for the direct assignment of user u, <<u, g, r>> for u as a member of g.
Reason == (Users \cup {0}) \X (Groups \cup {0}) \X Roles

Grant == ({"group"} \X Groups \X Roles) \cup ({"user"} \X Users \X Roles)

\* A page state of the bag of userGrants: the next page of app users, or a
\* user whose groups are to be read, from the group at index "at" on.
Frame == [user : Users \cup {NoUser}, at : Nat]

\* The page token: the bag of Grants (its resource types, top last), the
\* cursor of its group state and the bag inside its user state.
Token == [phases : {<<>>, <<"user">>, <<"group">>, <<"user", "group">>},
          after : Nat, bag : Seq(Frame)]

TypeOK ==
    /\ conf \in Configurations /\ world \in World
    /\ settings \in BOOLEAN
    /\ appGroup \in [Groups -> {NoEntry} \cup SUBSET Roles]
    /\ notAppGroup \in SUBSET Groups
    /\ appGroupIDSet \in {NoEntry} \cup SUBSET Groups
    /\ token \in Token
    /\ status \in {"running", "done", "warned", "failed", "stuck"}
    /\ reported \in SUBSET Grant
    /\ pc \in {"idle", "page", "fetch"}
    /\ listed \in SUBSET Groups /\ at \in 0 .. Cardinality(Groups)
    /\ found \in SUBSET Roles
    /\ always \in SUBSET Reason /\ ever \in SUBSET Reason /\ moved \in SUBSET Users
    /\ faults \in 0 .. MaxFaults /\ changes \in 0 .. MaxChanges

-----------------------------------------------------------------------------
(* Okta. *)

RolesThrough(w, u) == UNION {w.groupRoles[g] : g \in w.member[u] \cap w.appGroups}

AppUsers(w) == w.direct \cup {u \in Users : w.member[u] \cap w.appGroups # {}}

Gives(w, g, r) ==
    IF conf.useGroupMapping THEN r \in NameRoles[g]
                            ELSE g \in w.appGroups /\ r \in w.groupRoles[g]

\* Every reason in Okta's state, those that a direct assignment hides included.
Causes(w) ==
    {x \in Reason :
       \/ x[1] = 0 /\ x[2] # 0 /\ Gives(w, x[2], x[3])
       \/ /\ x[1] # 0 /\ x[2] = 0 /\ ~conf.useGroupMapping
          /\ x[1] \in w.direct /\ x[3] \in w.own[x[1]]
       \/ x[1] # 0 /\ x[2] # 0 /\ x[2] \in w.member[x[1]] /\ Gives(w, x[2], x[3])}

\* A direct assignment hides the groups, unless Okta joins all roles.
Reasons(w) ==
    {x \in Causes(w) : \/ x[1] = 0 \/ x[2] = 0 \/ x[1] \notin w.direct
                       \/ conf.joinAllRoles \/ conf.useGroupMapping}

-----------------------------------------------------------------------------
(* Page tokens. *)

StartToken == [phases |-> <<>>, after |-> 0, bag |-> <<>>]

\* (Faulty variant: users on top.)
BagUsersFirst ==
    IF token.phases # <<>> THEN token
    ELSE [token EXCEPT !.phases = IF conf.useGroupMapping THEN <<"group">>
                                                          ELSE <<"group", "user">>]

\* The bag a call works on: an empty one gets the two phases, groups on top.
Bag ==
    IF token.phases # <<>> THEN token
    ELSE [token EXCEPT !.phases = IF conf.useGroupMapping THEN <<"group">>
                                                          ELSE <<"user", "group">>]

Phase == Last(Bag.phases)

\* bag.Next: a phase with no next page is popped.
NextGroups(k) ==
    IF k = 0 THEN [Bag EXCEPT !.phases = Front(@), !.after = 0]
             ELSE [Bag EXCEPT !.after = k]

NextUsers(b) ==
    IF b = <<>> THEN [Bag EXCEPT !.phases = Front(@), !.bag = <<>>]
                ELSE [Bag EXCEPT !.bag = b]

UserBag == IF token.bag = <<>> THEN <<[user |-> NoUser, at |-> 0]>> ELSE token.bag

\* (Faulty variant: the bag is a queue.)
CurrentFirst == Head(UserBag)

\* The bag is a stack: its last page state is worked on.
Current == Last(UserBag)

EndCall == pc' = "idle" /\ listed' = {} /\ at' = 0 /\ found' = {}

\* The page is committed.  A token that does not change is an error of the SDK.
Commit(t, grants) ==
    /\ EndCall
    /\ IF t = token /\ t # StartToken
       THEN status' = "stuck" /\ UNCHANGED <<token, reported>>
       ELSE /\ token' = t
            /\ reported' = reported \cup grants
            /\ status' = IF t.phases = <<>> THEN "done" ELSE "running"

Give(o) == EndCall /\ status' = o /\ UNCHANGED <<token, reported>>

\* (Faulty variant: an account that is passed over counts as done.)
FailedQuietly(code) ==
    Give(CASE Verdict(code) = "repeat" -> "running"
           [] Verdict(code) = "skip" -> "done"
           [] OTHER -> "failed")

\* The call failed: the SDK repeats the page, ends the account's grants with a
\* warning, or gives the sync up.
Failed(code) ==
    Give(CASE Verdict(code) = "repeat" -> "running"
           [] Verdict(code) = "skip" -> "warned"
           [] OTHER -> "failed")

Faulty == faults < MaxFaults /\ faults' = faults + 1
Answers == Faults \cap AnswerKinds

Fail == Faulty /\ \E a \in Answers : Failed(Code(a))

\* Whether a write to the session store takes; its error is not looked at.
Takes(e) == IF e \in LostWrites THEN BOOLEAN ELSE {TRUE}

-----------------------------------------------------------------------------
Init ==
    /\ conf \in Configurations
    /\ world \in Worlds
    /\ settings = FALSE
    /\ appGroup = [g \in Groups |-> NoEntry]
    /\ notAppGroup = {}
    /\ appGroupIDSet = NoEntry
    /\ token = StartToken /\ status = "running" /\ reported = {}
    /\ pc = "idle" /\ listed = {} /\ at = 0 /\ found = {}
    /\ always = Reasons(world) /\ ever = Causes(world) /\ moved = {}
    /\ faults = 0 /\ changes = 0

\* The SDK calls Grants, which reads the app's settings, or finds them stored.
Call ==
    /\ pc = "idle" /\ status = "running"
    /\ pc' = "page"
    /\ settings' \in IF settings THEN {TRUE} ELSE Takes("settings")
    /\ UNCHANGED <<outside, appGroup, notAppGroup, appGroupIDSet, sync,
                   listed, at, found, faults>>

\* The settings cannot be read: the error loses its code, whatever it is.
CallFails ==
    /\ pc \in {"idle", "page"} /\ status = "running" /\ ~settings
    /\ Faulty /\ \E a \in Answers : Failed(Uncoded(a))
    /\ UNCHANGED <<outside, store>>

\* The page's list call fails.
ListFails == pc = "page" /\ Fail /\ UNCHANGED <<outside, store>>

\* groupGrants in group-mapping mode: every group of the organization whose
\* name gives a role in this account.
MappedGroupPage ==
    /\ pc = "page" /\ Phase = "group" /\ conf.useGroupMapping
    /\ LET P == PageOf(Groups, token.after) IN
       Commit(NextGroups(NextPage(Groups, token.after)),
              {x \in Grant : x[1] = "group" /\ x[2] \in P /\ x[3] \in NameRoles[x[2]]})
    /\ UNCHANGED <<outside, store, faults>>

\* (Faulty variant: the set is replaced by each page.)
ExtendedByLast(P) == P

\* appendToAppGroupIDSet.
Extended(P) == (IF appGroupIDSet = NoEntry THEN {} ELSE appGroupIDSet) \cup P

\* groupGrants: a page of the app's groups.  Each group's roles are stored,
\* and the IDs join the set, unless one small page lists them all.
GroupPage ==
    /\ pc = "page" /\ Phase = "group" /\ ~conf.useGroupMapping
    /\ LET S == world.appGroups
           P == PageOf(S, token.after)
           next == NextPage(S, token.after)
           wanted == /\ P # {}
                     /\ token.after # 0 \/ next # 0 \/ Cardinality(P) >= LargeCollection
       IN /\ \E took \in [P -> Takes("appGroup")] :
               appGroup' = [g \in Groups |-> IF g \in P /\ took[g]
                                             THEN world.groupRoles[g] ELSE appGroup[g]]
          /\ \E took \in Takes("appGroupIDSet") :
               appGroupIDSet' = IF wanted /\ took THEN Extended(P) ELSE appGroupIDSet
          /\ Commit(NextGroups(next),
                    {x \in Grant : /\ x[1] = "group" /\ x[2] \in P
                                   /\ x[3] \in world.groupRoles[x[2]]})
    /\ UNCHANGED <<outside, settings, notAppGroup, faults>>

\* Users whose roles are read from their own profile, and those who are put
\* off until their groups are read.
Inline(u)   == u \in world.direct \/ conf.samlRolesUnionEnabled
PutOff(u)   == ~Inline(u) /\ ~conf.joinAllRoles
Profile(u)  == IF u \in world.direct THEN world.own[u] ELSE RolesThrough(world, u)

\* One frame for each of the users U, in the order of their IDs.
InOrder(U) ==
    {q \in [1 .. Cardinality(U) -> [user : U, at : {0}]] :
       \A i, j \in DOMAIN q : i < j => q[i].user < q[j].user}

\* userGrants: a page of the app's users.  The state of the next page goes
\* below those of the users put off.
UserPage ==
    /\ pc = "page" /\ Phase = "user" /\ Current.user = NoUser
    /\ LET S == AppUsers(world)
           P == PageOf(S, Current.at)
           next == NextPage(S, Current.at)
           later == IF next = 0 THEN <<>> ELSE <<[user |-> NoUser, at |-> next]>>
       IN \E put \in InOrder({u \in P : PutOff(u)}) :
            Commit(NextUsers(Front(UserBag) \o later \o put),
                   {x \in Grant : /\ x[1] = "user" /\ x[2] \in P /\ Inline(x[2])
                                  /\ x[3] \in Profile(x[2])})
    /\ UNCHANGED <<outside, store, faults>>

\* (Faulty variant: the groups of the app, not those of the user.)
GroupsListedOfApp(u) == world.appGroups

GroupsListed(u) == world.member[u]

\* (Faulty variants: the group that failed is passed over, or the user is
\* started again where this call started.)
ResumeAfter  == [Current EXCEPT !.at = at + 1]
ResumeAtCall == Current

Resume == [Current EXCEPT !.at = at]

Collected == {x \in Grant : x[1] = "user" /\ x[2] = Current.user /\ x[3] \in found}

\* collectRolesFromUserGroups lists the user's groups, in the order of their
\* IDs, and goes to the index the token names; past the end nothing is left.
ListUserGroups ==
    /\ pc = "page" /\ Phase = "user" /\ Current.user # NoUser
    /\ Current.user \notin world.gone
    /\ LET L == GroupsListed(Current.user) IN
       IF Current.at > Cardinality(L)
       THEN Commit(NextUsers(Front(UserBag)), {})
       ELSE /\ pc' = "fetch" /\ listed' = L /\ at' = Current.at /\ found' = {}
            /\ UNCHANGED sync
    /\ UNCHANGED <<outside, store, faults>>

\* The user was deleted: whatever is left of this account is passed over.
UserNotFound ==
    /\ pc = "page" /\ Phase = "user" /\ Current.user \in world.gone
    /\ Failed(Code("404"))
    /\ UNCHANGED <<outside, store, faults>>

Group == CHOOSE g \in listed : Cardinality({h \in listed : h < g}) = at
Fetching == pc = "fetch" /\ at < Cardinality(listed)

\* (Faulty variant: a set that is missing counts as an empty one.)
RuledOutUnlessListed(g) == appGroupIDSet = NoEntry \/ g \notin appGroupIDSet

RuledOut(g) == appGroupIDSet # NoEntry /\ g \notin appGroupIDSet

\* getOktaAppGroupFromCacheOrFetch, answered by the session store.
FromStore ==
    /\ Fetching
    /\ \/ /\ appGroup[Group] # NoEntry
          /\ found' = found \cup appGroup[Group]
          /\ UNCHANGED notAppGroup
       \/ /\ appGroup[Group] = NoEntry
          /\ \/ Group \in notAppGroup /\ UNCHANGED notAppGroup
             \/ /\ Group \notin notAppGroup /\ RuledOut(Group)
                /\ \E took \in Takes("notAppGroup") :
                     notAppGroup' = IF took THEN notAppGroup \cup {Group} ELSE notAppGroup
          /\ UNCHANGED found
    /\ at' = at + 1
    /\ UNCHANGED <<outside, settings, appGroup, appGroupIDSet, sync, pc, listed, faults>>

AsksOkta == /\ Fetching /\ appGroup[Group] = NoEntry /\ Group \notin notAppGroup
            /\ ~RuledOut(Group) \/ "storeRead" \in Faults

\* ... or by Okta: an app group's roles, or ResourceNotFound.
FromOkta ==
    /\ AsksOkta
    /\ \/ /\ Group \in world.appGroups
          /\ found' = found \cup world.groupRoles[Group]
          /\ \E took \in Takes("appGroup") :
               appGroup' = IF took THEN [appGroup EXCEPT ![Group] = world.groupRoles[Group]]
                                   ELSE appGroup
          /\ UNCHANGED notAppGroup
       \/ /\ Group \notin world.appGroups
          /\ \E took \in Takes("notAppGroup") :
               notAppGroup' = IF took THEN notAppGroup \cup {Group} ELSE notAppGroup
          /\ UNCHANGED <<appGroup, found>>
    /\ at' = at + 1
    /\ UNCHANGED <<outside, settings, appGroupIDSet, sync, pc, listed, faults>>

\* The group's lookup fails.  With some groups done, what they gave is handed
\* over and the user goes back into the bag, to be resumed at this group.
FetchFails ==
    /\ Fetching
    /\ AsksOkta \/ ~settings \/ "storeRead" \in Faults
    /\ \/ at = Current.at /\ Fail
       \/ /\ at > Current.at
          /\ Answers # {} /\ Faulty
          /\ Commit(NextUsers(Append(Front(UserBag), Resume)), Collected)
    /\ UNCHANGED <<outside, store>>

\* Every group of the user was looked up.
UserDone ==
    /\ pc = "fetch" /\ at = Cardinality(listed)
    /\ Commit(NextUsers(Front(UserBag)), Collected)
    /\ UNCHANGED <<outside, store, faults>>

\* The process dies in the middle of a call, and the sync is resumed.
Crash ==
    /\ "crash" \in Faults /\ pc # "idle" /\ Faulty
    /\ Give("running")
    /\ UNCHANGED <<outside, store>>

-----------------------------------------------------------------------------
(* The rest of the world. *)

\* The session store drops entries of one kind.
Evict ==
    /\ status = "running"
    /\ \/ "settings" \in Evictable /\ settings /\ settings' = FALSE
          /\ UNCHANGED <<appGroup, notAppGroup, appGroupIDSet>>
       \/ \E g \in Groups : /\ "appGroup" \in Evictable /\ appGroup[g] # NoEntry
                            /\ appGroup' = [appGroup EXCEPT ![g] = NoEntry]
                            /\ UNCHANGED <<settings, notAppGroup, appGroupIDSet>>
       \/ \E g \in notAppGroup : /\ "notAppGroup" \in Evictable
                                 /\ notAppGroup' = notAppGroup \ {g}
                                 /\ UNCHANGED <<settings, appGroup, appGroupIDSet>>
       \/ "appGroupIDSet" \in Evictable /\ appGroupIDSet # NoEntry
          /\ appGroupIDSet' = NoEntry
          /\ UNCHANGED <<settings, appGroup, notAppGroup>>
    /\ UNCHANGED <<outside, sync, call, faults>>

Altered ==
    \/ "roles" \in Changes /\ \E g \in world.appGroups, R \in SUBSET Roles :
          world' = [world EXCEPT !.groupRoles[g] = R]
    \/ "assignment" \in Changes /\ \E g \in Groups :
          world' = [world EXCEPT !.appGroups = {h \in Groups : (h \in @) # (h = g)}]
    \/ "direct" \in Changes /\ \E u \in Users \ world.gone, R \in SUBSET Roles :
          world' = [world EXCEPT !.direct = {v \in Users : (v \in @) # (v = u)}, !.own[u] = R]
    \/ "member" \in Changes /\ \E u \in Users \ world.gone, M \in SUBSET Groups :
          world' = [world EXCEPT !.member[u] = M]
    \/ "delete" \in Changes /\ \E u \in Users \ world.gone :
          world' = [world EXCEPT !.direct = @ \ {u}, !.member[u] = {}, !.gone = @ \cup {u}]

\* An administrator changes something in Okta.
OktaChanges ==
    /\ status = "running"
    /\ changes < MaxChanges /\ changes' = changes + 1
    /\ Altered
    /\ always' = always \cap Reasons(world') /\ ever' = ever \cup Causes(world')
    /\ moved' = moved \cup {u \in Users : world'.member[u] # world.member[u]}
    /\ UNCHANGED <<conf, store, sync, call, faults>>

Page ==
    \/ Call \/ CallFails \/ ListFails
    \/ MappedGroupPage \/ GroupPage \/ UserPage
    \/ ListUserGroups \/ UserNotFound \/ FromStore \/ FromOkta \/ FetchFails \/ UserDone
    \/ Crash

Next == Page \/ Evict \/ OktaChanges

Spec == Init /\ [][Next]_vars

\* The SDK keeps calling, and a call keeps going.
FairSpec == Spec /\ WF_vars(Page)

-----------------------------------------------------------------------------
(* Properties. *)

\* The grant is reported, by itself or for a group that is expanded to its
\* members, as it is where Okta joins all roles and in group-mapping mode.
Reported(x) ==
    IF x[1] = 0 THEN <<"group", x[2], x[3]>> \in reported
    ELSE \/ <<"user", x[1], x[3]>> \in reported
         \/ /\ conf.joinAllRoles \/ conf.useGroupMapping
            /\ \E g \in world.member[x[1]] : <<"group", g, x[3]>> \in reported

\* A sync that ends well has reported everything that there was a reason for
\* from its beginning to its end, whatever pages failed or were resumed.
Complete == status \in {"done", "warned"} => \A x \in always : Reported(x)

\* Groups that are left and users who are deleted during the sync cost nobody
\* else a grant, unless the sync ends with a warning.
WarnedOfLoss == status = "done" => \A x \in always : x[1] \in moved \/ Reported(x)

\* Nothing is reported that at no moment of the sync had a reason in Okta.
Sound ==
    \A x \in reported :
      IF x[1] = "group" THEN <<0, x[2], x[3]>> \in ever
                        ELSE \E g \in Groups \cup {0} : <<x[2], g, x[3]>> \in ever

\* A group that gave a role all through the sync is never remembered as one
\* that is not assigned to the app.
NegativeTrue == \A x \in always : x[1] = 0 => x[2] \notin notAppGroup

\* Once the groups are listed, the set of IDs is absent or has all of those
\* that gave roles from the beginning: it is used to rule groups out.
SetComplete ==
    token.phases = <<"user">> /\ appGroupIDSet # NoEntry =>
      \A x \in always : x[1] = 0 => x[2] \in appGroupIDSet

\* The grant a reason is for.
GrantOf(x) == IF x[1] = 0 THEN <<"group", x[2], x[3]>> ELSE <<"user", x[1], x[3]>>

\* The report as it is read: with the grants of groups expanded, where they are.
Expanded ==
    {x \in Grant : /\ x[1] = "user" /\ (conf.joinAllRoles \/ conf.useGroupMapping)
                   /\ \E g \in world.member[x[2]] : <<"group", g, x[3]>> \in reported}

Published == INSTANCE SyncReport
             WITH Facts <- Grant, published <- reported \cup Expanded,
                  lasting <- {GrantOf(x) : x \in always},
                  possible <- {GrantOf(x) : x \in ever}

\* Whatever pages fail, are resumed or repeated, the report grows by grants that
\* were there, nothing is taken back, and it is whole when the sync ends well.
ImplementsReport == Published!Spec

\* How far a page token is: the phase, the cursor of the groups, that of the next
\* page of users, the users still to be read, and the index of the one in hand.
FollowingPage(b) == IF b = <<>> THEN 0
                    ELSE IF b[1].user = NoUser THEN b[1].at ELSE NumUsers + 1
Place(t) == <<IF t.phases = <<"user">> THEN 1 ELSE 0, t.after,
              FollowingPage(t.bag), -Len(t.bag), IF t.bag = <<>> THEN 0 ELSE Last(t.bag).at>>

Before(p, q) == \E i \in 1 .. 5 : p[i] < q[i] /\ \A j \in 1 .. (i - 1) : p[j] = q[j]

\* No page token ever comes back, whatever fails, is repeated or changes in
\* Okta: the SDK only notices a token that comes back at once.
Onward ==
    [][token' # token => status' = "done" \/ Before(Place(token), Place(token'))]_vars

\* Every sync ends, and never because a page returned its own token.
SyncEnds == <>(status \in {"done", "warned", "failed"})
=============================================================================
