----------------------------- MODULE AccountSync -----------------------------
(***************************************************************************)
(* A whole sync of the account resource type (pkg/connector/aws_account.go): *)
(* List, then Entitlements of each account, then Grants of each account,   *)
(* called page after page by the SDK.  In group-mapping mode all three read *)
(* the names of all groups of the organization; otherwise the one account  *)
(* is that of the identity provider's ARN, and its entitlements are the    *)
(* SAML roles of the app.  (Its grants are then those of GrantSync.)       *)
(*                                                                         *)
(* A call reads the app's settings, of the session or of Okta, and then the *)
(* listing of its page; what it returns is committed with its next cursor. *)
(* Two places read the settings in one call of Grants; here it is one read. *)
(***************************************************************************)
EXTENDS Paging, GroupFilter, AppSettings, ErrorPolicy

CONSTANTS
    NumGroups, Names,   \* groups of the organization, names they may have
    Apps,               \* what Okta may hold of the app
    SamlRoles,          \* SAML roles of the app
    InitialNames,       \* names of the groups when the sync begins
    Answers,            \* failing answers Okta may give
    Faults,             \* other faults: "crash", "lost" session entries
    MaxFaults, MaxRenames, MaxToggles,      \* bounds of the model
    NoGroup, Nameless, None

Groups == 1 .. NumGroups
Phases == {"accounts", "entitlements", "grants"}

\* A call the SDK has to make, of a phase and an account.
Action == [phase : Phases, account : Accounts \cup {None}]

ASSUME SyncAssumption ==
    /\ {NumGroups, MaxFaults, MaxRenames, MaxToggles} \subseteq Nat
    /\ Accounts = Segments /\ SamlRoles \subseteq Segments
    /\ Apps \subseteq App
    /\ Names \subseteq Name /\ {NoGroup, Nameless} \cap Names = {}
    /\ InitialNames \subseteq [Groups -> Names \cup {NoGroup, Nameless}]
    /\ Answers \subseteq AnswerKinds \ {"404"}      \* the listing of groups has none
    /\ Faults \subseteq {"crash", "lost"}
    /\ None \notin Accounts /\ NoSettings \notin Settings

VARIABLES
    app, name,      \* Okta: the app's settings; each group's name
    stored,         \* the session's entry of the settings
    pc, used,       \* the call in progress, the settings it works with
    action, after, todo, status,    \* the SDK: the action at hand, its cursor, the others
    accounts, entitlements, grants, \* what was committed
    blame,          \* history: the call whose failure ended the sync, and its cause
    steady, had, mapped, lost,      \* history: see History below
    faults, renames, toggles        \* counters, for the bounds

okta    == <<app, name, steady, had, mapped, renames, toggles>>
session == <<stored, lost>>
call    == <<pc, used>>
sync    == <<action, after, todo, status, accounts, entitlements, grants, blame>>
vars    == <<okta, session, call, sync, faults>>

TypeOK ==
    /\ app \in Apps /\ name \in [Groups -> Names \cup {NoGroup, Nameless}]
    /\ stored \in Settings \cup {NoSettings} /\ used \in Settings \cup {NoSettings}
    /\ pc \in {"idle", "list"} /\ (pc = "list" <=> used # NoSettings)
    /\ action \in Action /\ todo \subseteq Action
    /\ after \in 0 .. NumGroups
    /\ status \in {"running", "done", "failed", "stuck"}
    /\ accounts \subseteq Accounts
    /\ entitlements \subseteq accounts \X Segments
    /\ grants \subseteq accounts \X Segments \X Groups
    /\ blame \in {"none", "settings", "roles", "filter"} \X (Answers \cup {"none", "unusable"})
       \/ blame \in {"listing"} \X Answers
    /\ steady \subseteq Groups /\ had \in [Groups -> SUBSET (Names \cup {NoGroup, Nameless})]
    /\ mapped \in BOOLEAN /\ lost \in BOOLEAN
    /\ faults \in 0 .. MaxFaults /\ renames \in 0 .. MaxRenames /\ toggles \in 0 .. MaxToggles

-----------------------------------------------------------------------------
(* The SDK. *)

Begun == [phase |-> "accounts", account |-> None]

\* Entitlements of every account come before the grants of any.
Ready(T) ==
    {a \in T : a.phase = "entitlements" \/ \A b \in T : b.phase = "grants"}

EndCall == pc' = "idle" /\ used' = NoSettings

\* The action is over: the next one, if there is one.
Proceed(T) ==
    /\ after' = 0
    /\ \/ T = {} /\ status' = "done" /\ todo' = T /\ UNCHANGED action
       \/ /\ UNCHANGED status
          /\ \E a \in Ready(T) : action' = a /\ todo' = T \ {a}

\* A page is committed with its next cursor.
Commit(next, A, E, G) ==
    /\ EndCall
    /\ IF next # 0 /\ next = after
       THEN status' = "stuck" /\ UNCHANGED <<action, after, todo, accounts, entitlements, grants>>
       ELSE /\ accounts' = accounts \cup A
            /\ entitlements' = entitlements \cup E
            /\ grants' = grants \cup G
            /\ IF next # 0 THEN after' = next /\ UNCHANGED <<action, todo, status>>
               ELSE Proceed(IF action.phase = "accounts"
                            THEN [phase : {"entitlements", "grants"}, account : accounts']
                            ELSE todo)
    /\ UNCHANGED blame

\* The call fails with a status code.
Fail(where, why, code) ==
    /\ EndCall
    /\ IF Verdict(code) = "fail" THEN status' = "failed" /\ blame' = <<where, why>>
                                 ELSE UNCHANGED <<status, blame>>
    /\ UNCHANGED <<action, after, todo, accounts, entitlements, grants>>

Faulty == faults < MaxFaults /\ faults' = faults + 1

-----------------------------------------------------------------------------
Init ==
    /\ app \in Apps /\ name \in InitialNames
    /\ stored = NoSettings /\ used = NoSettings /\ pc = "idle"
    /\ action = Begun /\ after = 0 /\ todo = {} /\ status = "running"
    /\ accounts = {} /\ entitlements = {} /\ grants = {}
    /\ blame = <<"none", "none">>
    /\ steady = Groups /\ had = [g \in Groups |-> {name[g]}]
    /\ mapped = app.useGroupMapping /\ lost = FALSE
    /\ faults = 0 /\ renames = 0 /\ toggles = 0

\* (Faulty variant: the settings are not stored.)
RememberNot(s) == UNCHANGED stored

Remember(s) == stored' = s

\* getAWSApplicationConfig: the session's entry, or Okta's answers, which are
\* then stored; nobody looks whether that succeeds.
ReadSettings ==
    /\ pc = "idle" /\ status = "running"
    /\ \/ /\ stored # NoSettings
          /\ pc' = "list" /\ used' = stored
          /\ UNCHANGED <<session, sync, faults>>
       \/ /\ stored = NoSettings /\ Parsed(app) # NoSettings
          /\ pc' = "list" /\ used' = Parsed(app)
          /\ \/ Remember(used') /\ UNCHANGED <<lost, faults>>
             \/ "lost" \in Faults /\ Faulty /\ lost' = TRUE /\ UNCHANGED stored
          /\ UNCHANGED sync
       \/ /\ stored = NoSettings /\ Parsed(app) = NoSettings
          /\ Fail("settings", "unusable", "Unknown")
          /\ UNCHANGED <<session, faults>>
    /\ UNCHANGED okta

SettingsFail ==
    /\ pc = "idle" /\ status = "running" /\ stored = NoSettings
    /\ Faulty /\ \E a \in Answers : Fail("settings", a, Uncoded(a))
    /\ UNCHANGED <<okta, session>>

-----------------------------------------------------------------------------
(* The handlers. *)

Listing == pc = "list" /\ used.UseGroupMapping

OrgGroups == {g \in Groups : name[g] # NoGroup}
OnPage    == {g \in PageOf(OrgGroups, after) : name[g] # Nameless}
Next0     == NextPage(OrgGroups, after)

Read(g) == Reading(used.RoleRegex, name[g])

\* The filter is compiled for each name, and an error ends the call.
Compiles == OnPage = {} \/ ~Broken(used.RoleRegex)

Handling(phase) == pc = "list" /\ action.phase = phase /\ UNCHANGED <<okta, session, faults>>

List ==
    /\ Handling("accounts")
    /\ \/ /\ ~used.UseGroupMapping
          /\ Commit(0, {used.IdentityProviderArnAccountID}, {}, {})
       \/ /\ used.UseGroupMapping /\ Compiles
          /\ Commit(Next0, {x[1] : x \in UNION {Read(g) : g \in OnPage}}, {}, {})

\* (Faulty variant: the roles of every account.)
NamedForAny(g) == {<<action.account, x[2]>> : x \in Read(g)}

\* What a group's name gives in the account at hand.
Named(g) == {x \in Read(g) : x[1] = action.account}

\* Without group mapping the account is not looked at.
Entitlements ==
    /\ Handling("entitlements")
    /\ \/ /\ ~used.UseGroupMapping
          /\ Commit(0, {}, {action.account} \X SamlRoles, {})
       \/ /\ used.UseGroupMapping /\ Compiles
          /\ Commit(Next0, {}, UNION {Named(g) : g \in OnPage}, {})

Grants ==
    /\ Handling("grants")
    /\ \/ ~used.UseGroupMapping /\ Commit(0, {}, {}, {})
       \/ /\ used.UseGroupMapping /\ Compiles
          /\ Commit(Next0, {}, {},
                    UNION {{<<x[1], x[2], g>> : x \in Named(g)} : g \in OnPage})

FilterBroken ==
    /\ Listing /\ ~Compiles
    /\ Fail("filter", "none", "Unknown")
    /\ UNCHANGED <<okta, session, faults>>

\* A request of the page fails: the listing of groups, or listAWSSamlRoles.
PageFails ==
    /\ \/ Listing /\ Faulty /\ \E a \in Answers : Fail("listing", a, Code(a))
       \/ /\ pc = "list" /\ ~used.UseGroupMapping /\ action.phase = "entitlements"
          /\ Faulty /\ \E a \in Answers : Fail("roles", a, Uncoded(a))
    /\ UNCHANGED <<okta, session>>

\* The process dies in the middle of a call, and the sync is resumed.
Crash ==
    /\ "crash" \in Faults /\ pc = "list" /\ Faulty
    /\ EndCall
    /\ UNCHANGED <<okta, session, sync>>

-----------------------------------------------------------------------------
(* The rest of the world.  History: the groups whose names have lasted, the *)
(* names each group had, whether the app has mapped groups throughout, and *)
(* whether the session lost the settings.                                  *)

Evict ==
    /\ "lost" \in Faults /\ status = "running" /\ stored # NoSettings
    /\ Faulty
    /\ stored' = NoSettings /\ lost' = TRUE
    /\ UNCHANGED <<okta, call, sync>>

\* A group is created, deleted or given another name.
Rename(g) ==
    /\ status = "running" /\ renames < MaxRenames /\ renames' = renames + 1
    /\ \E n \in Names \cup {NoGroup} :
         /\ name' = [name EXCEPT ![g] = n]
         /\ had' = [had EXCEPT ![g] = @ \cup {n}]
    /\ steady' = steady \ {g}
    /\ UNCHANGED <<app, mapped, toggles, session, call, sync, faults>>

\* Group mapping is switched on or off in the app.
Toggle ==
    /\ status = "running" /\ toggles < MaxToggles /\ toggles' = toggles + 1
    /\ app' \in {[app EXCEPT !.useGroupMapping = ~@]} \cap Apps
    /\ mapped' = (mapped /\ app'.useGroupMapping)
    /\ UNCHANGED <<name, steady, had, renames, session, call, sync, faults>>

Page ==
    \/ ReadSettings \/ SettingsFail
    \/ List \/ Entitlements \/ Grants \/ FilterBroken \/ PageFails \/ Crash

Next == Page \/ Evict \/ Toggle \/ \E g \in Groups : Rename(g)

Spec == Init /\ [][Next]_vars

\* The SDK keeps calling, and a call keeps going.
FairSpec == Spec /\ WF_vars(Page)

-----------------------------------------------------------------------------
(* Properties. *)

\* What Okta reads in a group's name, where both texts can be matched by the
\* connector: AWS account IDs have twelve digits, but a role may have one
\* character.
OktaReading(n) == {x \in OktaReads(app.groupFilter, n) : x[1] \in Long /\ x[2] \in Long}

\* A sync that ends well has reported, for every group whose name lasted, the
\* account, the role and the group's grant that Okta reads in the name, as
\* long as the app mapped groups throughout.
Complete ==
    status = "done" /\ mapped =>
      \A g \in steady : name[g] \in Names =>
        \A x \in OktaReading(name[g]) :
          x[1] \in accounts /\ x \in entitlements /\ <<x[1], x[2], g>> \in grants

\* What Okta read, at some moment of the sync, in a name of a group.
EverRead(g) == UNION {OktaReads(app.groupFilter, n) : n \in had[g] \cap Names}

\* Every grant is one that Okta read in a name the group had during the sync;
\* so is every entitlement, or else it is a SAML role of the app and group
\* mapping was off at some time.
Sound ==
    /\ \A x \in grants : <<x[1], x[2]>> \in EverRead(x[3])
    /\ \A x \in entitlements : \/ \E g \in Groups : x \in EverRead(g)
                               \/ ~mapped /\ x[2] \in SamlRoles

\* A grant belongs to an entitlement that the sync reported: where the group's
\* name lasted, and unless the settings were read twice, whatever was switched
\* in the app or failed in between.
Anchored ==
    \A x \in grants : x[3] \in steady /\ ~lost => <<x[1], x[2]>> \in entitlements

\* No passing trouble that Okta answers with ends a sync in the middle of a
\* listing: not a rate limit, an error of the server, or a 408.  (A request that
\* gets no answer in time does end it.)
TroubleWaitedOut ==
    status = "failed" /\ blame[1] = "listing" =>
      blame[2] \notin {"408", "429", "500", "502", "503", "504"}

\* The report: accounts, entitlements of accounts, and grants of entitlements
\* to groups.
Report == {<<a>> : a \in accounts} \cup entitlements \cup grants

\* What role and account in the name of group g are read for.
ReadFor(x, g) == {<<x[1]>>, x, <<x[1], x[2], g>>}

\* What has been in the names, in group-mapping mode, from the beginning on.
ReadThroughout ==
    IF mapped THEN UNION {UNION {ReadFor(x, g) : x \in OktaReading(name[g])} :
                            g \in {h \in steady : name[h] \in Names}}
              ELSE {}

\* What was in a name, or is the account of the provider and its SAML roles.
OfProvider == {<<a>> : a \in Accounts \cap {app.identityProviderArn}} \cup (Accounts \X SamlRoles)
ReadOnce == (UNION {UNION {ReadFor(x, g) : x \in EverRead(g)} : g \in Groups})
            \cup (IF mapped THEN {} ELSE OfProvider)

Published == INSTANCE SyncReport
             WITH Facts <- {<<a>> : a \in Accounts} \cup (Accounts \X Segments)
                           \cup (Accounts \X Segments \X Groups),
                  published <- Report, lasting <- ReadThroughout, possible <- ReadOnce

\* Whatever is renamed, switched, fails or is resumed, the report grows by what
\* Okta could read, nothing is taken back, and it is whole when all is well.
ImplementsReport == Published!Spec

\* Every sync ends, and never because a page returned its own cursor.
SyncEnds == <>(status \in {"done", "failed"})
=============================================================================
