-------------------------- MODULE AccountSyncProofs --------------------------
(***************************************************************************)
(* Proofs about AccountSync, for any groups, names, filters and accounts,  *)
(* any size of page and any number of faults, renames and switches.        *)
(*                                                                         *)
(* IInv says which settings a call can be working with, and what every call *)
(* that is behind the sync has left in what was committed: Past(a, g) says *)
(* that the pages of action a have reached group g.                        *)
(***************************************************************************)
EXTENDS AccountSync, PagingProofs

\* The pages of action a have gone by group g.
Past(a, g) ==
    \/ status = "done"
    \/ a = action /\ g <= after
    \/ a # action /\ a \notin todo /\ (a = Begun \/ action # Begun)

\* Where the sync is: a call is made while it runs, every other action is of
\* an account that was reported, and entitlements come before grants.
Position ==
    /\ pc = "list" => status = "running"
    /\ status # "stuck"
    /\ action.phase = "accounts" => action = Begun
    /\ action = Begun => todo = {} /\ (status = "done" => accounts = {})
    /\ action # Begun => action.account \in accounts
    /\ todo \subseteq [phase : {"entitlements", "grants"}, account : accounts]
    /\ action \notin todo
    /\ action.phase = "grants" => \A a \in todo : a.phase = "grants"
    /\ grants # {} => action.phase = "grants"

\* No settings were read yet: the sync is where it began.
AtBeginning ==
    action = Begun /\ after = 0 /\ todo = {} /\ status # "done"
    /\ accounts = {} /\ entitlements = {} /\ grants = {}

\* The settings of the session, and of a call, are those of the app: the filter
\* at any time, group mapping if it was on throughout.  Unless the session lost
\* them, there are no others than those that were read first.
SettingsKnown ==
    /\ app.useGroupMapping \/ ~mapped
    /\ stored # NoSettings =>
         stored.RoleRegex = app.groupFilter /\ (mapped => stored.UseGroupMapping)
    /\ used # NoSettings =>
         used.RoleRegex = app.groupFilter /\ (mapped => used.UseGroupMapping)
    /\ ~lost /\ used # NoSettings => used = stored
    /\ ~lost /\ stored = NoSettings => AtBeginning

\* Groups are mapped, and were so by every call that committed something.
Mapping == mapped \/ (~lost /\ stored # NoSettings /\ stored.UseGroupMapping)

\* What the connector reads in a name that has lasted.
Lasting(g) == IF name[g] \in Names THEN Reading(app.groupFilter, name[g]) ELSE {}

\* What was read in the names that lasted is committed, up to where the sync is,
\* and with a filter that does not compile it is nowhere yet.
Covered ==
    Mapping =>
      \A g \in steady :
      /\ name[g] \in Names /\ Past(Begun, g) => ~Broken(app.groupFilter)
      /\ \A x \in Lasting(g) :
        /\ Past(Begun, g) => x[1] \in accounts
        /\ x[1] \in accounts /\ Past([phase |-> "entitlements", account |-> x[1]], g)
             => x \in entitlements
        /\ x[1] \in accounts /\ Past([phase |-> "grants", account |-> x[1]], g)
             => <<x[1], x[2], g>> \in grants

\* What the connector read, at some moment, in a name of the group.
Seen(g) == UNION {Reading(app.groupFilter, n) : n \in had[g] \cap Names}

\* Where a grant or an entitlement comes from.
Traced ==
    /\ ~Broken(app.groupFilter) \/ grants = {}
    /\ \A x \in grants :
         /\ <<x[1], x[2]>> \in Seen(x[3])
         /\ x[3] \in steady => <<x[1], x[2]>> \in Lasting(x[3])
         /\ ~lost => stored # NoSettings /\ stored.UseGroupMapping
    /\ \A x \in entitlements :
         \/ ~Broken(app.groupFilter) /\ \E g \in Groups : x \in Seen(g)
         \/ ~mapped /\ x[2] \in SamlRoles

\* A failed listing ended the sync only with an answer the SDK gives up on.
Blamed ==
    /\ blame[1] = "listing" => Verdict(Code(blame[2])) = "fail"
    /\ \A g \in Groups : name[g] \in had[g] /\ (g \in steady => had[g] = {name[g]})

IInv ==
    /\ TypeOK /\ Position /\ SettingsKnown /\ Covered /\ Traced /\ Blamed

-----------------------------------------------------------------------------
(* What is read in a name, and on a page. *)

LEMMA ReadingTypes ==
  ASSUME NEW f, NEW n \in Names, NEW x \in Reading(f, n)
  PROVE  x \in Accounts \X Segments /\ x = <<x[1], x[2]>>
<1>1. n \in Seq(Segments) /\ Accounts = Segments
  BY SyncAssumption DEF SyncAssumption, Name
<1>2. Len(n) = 2 /\ x = <<n[1], n[2]>>
  BY DEF Reading, Matches
<1>3. n[1] \in Segments /\ n[2] \in Segments
  BY <1>1, <1>2
<1> QED
  BY <1>1, <1>2, <1>3

\* The settings that are kept are settings, with the app's filter and mode.
LEMMA ParsedTypes ==
  ASSUME NEW a \in Apps, Parsed(a) # NoSettings
  PROVE  /\ Parsed(a) \in Settings
         /\ Parsed(a).RoleRegex = a.groupFilter
         /\ Parsed(a).UseGroupMapping = a.useGroupMapping
<1>1. a \in App
  BY SyncAssumption DEF SyncAssumption
<1>2. Accepted(a)
  BY DEF Parsed
<1>3. a.identityProviderArn \in Accounts
  BY <1>1, <1>2 DEF App, Accepted
<1>4. a.useGroupMapping \in BOOLEAN /\ a.joinAllRoles \in BOOLEAN /\ a.groupFilter \in Filters
  BY <1>1 DEF App
<1> QED
  BY <1>2, <1>3, <1>4 DEF Parsed, Settings

\* The groups on a page that is read have names of theirs, and are read with
\* the app's filter, which compiles if there is one.
LEMMA OnPageNames ==
  ASSUME TypeOK, SettingsKnown, used # NoSettings, NEW g \in OnPage
  PROVE  /\ g \in Groups /\ name[g] \in Names
         /\ Read(g) = Reading(app.groupFilter, name[g])
<1>1. g \in PageOf(OrgGroups, after) /\ name[g] # Nameless
  BY DEF OnPage
<1>2. g \in OrgGroups
  BY <1>1 DEF PageOf
<1>3. g \in Groups /\ name[g] # NoGroup
  BY <1>2 DEF OrgGroups
<1>4. name[g] \in Names
  BY <1>1, <1>3 DEF TypeOK
<1>5. used.RoleRegex = app.groupFilter
  BY DEF SettingsKnown
<1> QED
  BY <1>3, <1>4, <1>5 DEF Read

\* The next cursor of a listing of groups lies beyond the one at hand, and all
\* groups with names up to it are on the page.
LEMMA Listed ==
  ASSUME TypeOK
  PROVE  /\ Next0 \in 0 .. NumGroups
         /\ Next0 # 0 => Next0 > after
         /\ \A g \in Groups : name[g] \in Names /\ g > after /\ (Next0 = 0 \/ g <= Next0)
                             => g \in OnPage
<1>1. NumGroups \in Nat /\ NoGroup \notin Names /\ Nameless \notin Names
  BY SyncAssumption DEF SyncAssumption
<1>2. OrgGroups \in SUBSET (1 .. NumGroups) /\ after \in Nat
  BY <1>1 DEF OrgGroups, Groups, TypeOK
<1>3. /\ Next0 \in 0 .. NumGroups
      /\ Next0 # 0 => Next0 > after
      /\ \A g \in OrgGroups : g > after /\ (Next0 = 0 \/ g <= Next0)
                             => g \in PageOf(OrgGroups, after)
  BY <1>1, <1>2, NextPageSound DEF Next0
<1>4. ASSUME NEW g \in Groups, name[g] \in Names, g > after, Next0 = 0 \/ g <= Next0
      PROVE  g \in OnPage
  <2>1. g \in OrgGroups
    BY <1>1, <1>4 DEF OrgGroups
  <2> QED
    BY <1>1, <1>3, <1>4, <2>1 DEF OnPage
<1> QED
  BY <1>3, <1>4

-----------------------------------------------------------------------------
(* The inductive invariant. *)

LEMMA InitInv == Init => IInv
<1> SUFFICES ASSUME Init PROVE IInv
  OBVIOUS
<1> USE DEF Init
<1>1. TypeOK
  <2>1. {NumGroups, MaxFaults, MaxRenames, MaxToggles} \subseteq Nat
        /\ InitialNames \subseteq [Groups -> Names \cup {NoGroup, Nameless}]
        /\ Apps \subseteq App
    BY SyncAssumption DEF SyncAssumption
  <2>2. app.useGroupMapping \in BOOLEAN
    BY <2>1 DEF App
  <2>3. name \in [Groups -> Names \cup {NoGroup, Nameless}]
    BY <2>1
  <2>4. had \in [Groups -> SUBSET (Names \cup {NoGroup, Nameless})]
    BY <2>3
  <2>5. Begun \in Action
    BY DEF Begun, Action, Phases
  <2>6. blame \in {"none", "settings", "roles", "filter"} \X (Answers \cup {"none", "unusable"})
    OBVIOUS
  <2>7. /\ faults \in 0 .. MaxFaults /\ renames \in 0 .. MaxRenames
        /\ toggles \in 0 .. MaxToggles /\ after \in 0 .. NumGroups
    BY <2>1
  <2> QED
    BY <2>2, <2>3, <2>4, <2>5, <2>6, <2>7 DEF TypeOK
<1>2. Position
  BY DEF Position, Begun
<1>3. SettingsKnown
  BY DEF SettingsKnown, AtBeginning
<1>4. Covered
  <2>1. ASSUME NEW g \in steady PROVE ~Past(Begun, g)
    BY SyncAssumption DEF Past, SyncAssumption, Groups
  <2>2. ASSUME NEW a, NEW g PROVE a \notin accounts
    OBVIOUS
  <2> QED
    BY <2>1, <2>2 DEF Covered
<1>5. Traced
  BY DEF Traced
<1>6. Blamed
  BY DEF Blamed
<1> QED
  BY <1>1, <1>2, <1>3, <1>4, <1>5, <1>6 DEF IInv

\* A step that leaves the sync's own variables and Okta as they are, and ends
\* or begins no call with other settings, keeps what was committed.
LEMMA Committed ==
  ASSUME IInv, UNCHANGED <<app, name, steady, had, mapped>>,
         UNCHANGED <<action, after, todo, accounts, entitlements, grants>>,
         status' # "done", Mapping' => Mapping \/ AtBeginning,
         \A x \in grants : ~lost' => stored' # NoSettings /\ stored'.UseGroupMapping
  PROVE  Covered' /\ Traced'
<1>1. Traced'
  BY DEF IInv, Traced, Seen, Lasting
<1>2. Covered'
  <2> SUFFICES ASSUME Mapping', NEW g \in steady
               PROVE  /\ name[g] \in Names /\ Past(Begun, g)' => ~Broken(app.groupFilter)
                      /\ \A x \in Lasting(g) :
                           /\ Past(Begun, g)' => x[1] \in accounts
                           /\ x[1] \in accounts
                              /\ Past([phase |-> "entitlements", account |-> x[1]], g)'
                                => x \in entitlements
                           /\ x[1] \in accounts
                              /\ Past([phase |-> "grants", account |-> x[1]], g)'
                                => <<x[1], x[2], g>> \in grants
    BY DEF Covered, Lasting
  <2>1. \A a : Past(a, g)' => Past(a, g)
    BY DEF Past
  <2>2. CASE Mapping
    BY <2>1, <2>2 DEF IInv, Covered
  <2>3. CASE AtBeginning
    <3>1. g \in Nat /\ g > 0
      BY DEF IInv, TypeOK, Groups
    <3>2. ~Past(Begun, g)'
      BY <2>3, <3>1 DEF AtBeginning, Past
    <3> QED
      BY <2>3, <3>2 DEF AtBeginning
  <2> QED
    BY <2>2, <2>3
<1> QED
  BY <1>1, <1>2

\* A call that fails: it is repeated, or the sync ends and is blamed on it.
LEMMA FailInv ==
  ASSUME IInv, status = "running", UNCHANGED <<okta, session>>,
         faults' \in 0 .. MaxFaults,
         NEW where, NEW why, NEW code, Fail(where, why, code),
         \/ /\ where \in {"settings", "roles", "filter"}
            /\ why \in Answers \cup {"none", "unusable"}
         \/ where = "listing" /\ why \in Answers /\ code = Code(why)
  PROVE  IInv'
<1> USE DEF okta, session
<1>1. /\ pc' = "idle" /\ used' = NoSettings
      /\ UNCHANGED <<action, after, todo, accounts, entitlements, grants>>
      /\ \/ status' = "failed" /\ blame' = <<where, why>> /\ Verdict(code) = "fail"
         \/ UNCHANGED <<status, blame>>
  BY DEF Fail, EndCall
<1>2. TypeOK'
  <2>1. \/ blame' \in {"none", "settings", "roles", "filter"} \X (Answers \cup {"none", "unusable"})
        \/ blame' \in {"listing"} \X Answers
    BY <1>1 DEF IInv, TypeOK
  <2> QED
    BY <1>1, <2>1 DEF IInv, TypeOK
<1>3. Position'
  BY <1>1 DEF IInv, Position
<1>4. SettingsKnown'
  BY <1>1 DEF IInv, SettingsKnown, AtBeginning
<1>5. Covered' /\ Traced'
  <2>1. Mapping' => Mapping
    BY DEF Mapping
  <2>2. \A x \in grants : ~lost' => stored' # NoSettings /\ stored'.UseGroupMapping
    BY DEF IInv, Traced
  <2> QED
    BY <1>1, <2>1, <2>2, Committed
<1>6. Blamed'
  <2>1. blame'[1] = "listing" => Verdict(Code(blame'[2])) = "fail"
    BY <1>1 DEF IInv, Blamed
  <2> QED
    BY <2>1 DEF IInv, Blamed
<1> QED
  BY <1>2, <1>3, <1>4, <1>5, <1>6 DEF IInv

\* One more fault is within the bound.
LEMMA FaultCounted == TypeOK /\ Faulty => faults' \in 0 .. MaxFaults
  BY SyncAssumption DEF SyncAssumption, TypeOK, Faulty

\* The settings are read, or cannot be.
LEMMA ReadSettingsInv ==
  ASSUME IInv, ReadSettings
  PROVE  IInv'
<1> USE DEF okta, session, sync
<1>1. pc = "idle" /\ status = "running" /\ UNCHANGED okta
  BY DEF ReadSettings
<1>2. faults' \in 0 .. MaxFaults
  BY FaultCounted DEF ReadSettings, IInv, TypeOK
<1>3. CASE Parsed(app) = NoSettings /\ Fail("settings", "unusable", "Unknown")
           /\ UNCHANGED <<session, faults>>
  BY <1>1, <1>2, <1>3, FailInv DEF IInv, TypeOK
<1>4. CASE /\ pc' = "list" /\ UNCHANGED sync
           /\ \/ stored # NoSettings /\ used' = stored /\ UNCHANGED session
              \/ /\ stored = NoSettings
                 /\ used' = Parsed(app) /\ Parsed(app) # NoSettings
                 /\ \/ stored' = used' /\ lost' = lost
                    \/ lost' = TRUE /\ stored' = stored
  <2>1. /\ app \in Apps /\ (app.useGroupMapping \/ ~mapped)
        /\ stored # NoSettings => stored \in Settings
    BY DEF IInv, TypeOK, SettingsKnown
  <2>2. used' \in Settings /\ used' # NoSettings
    BY <1>4, <2>1, ParsedTypes, SyncAssumption DEF SyncAssumption, IInv, TypeOK
  <2>3. /\ used'.RoleRegex = app.groupFilter
        /\ mapped => used'.UseGroupMapping
    BY <1>4, <2>1, ParsedTypes DEF IInv, SettingsKnown, TypeOK
  <2>4. TypeOK'
    BY <1>1, <1>2, <1>4, <2>2 DEF IInv, TypeOK
  <2>5. Position'
    BY <1>1, <1>4 DEF IInv, Position
  <2>6. SettingsKnown'
    BY <1>1, <1>4, <2>2, <2>3 DEF IInv, SettingsKnown, AtBeginning
  <2>7. Covered' /\ Traced'
    <3>1. Mapping' => Mapping \/ AtBeginning
      BY <1>1, <1>4 DEF Mapping, IInv, SettingsKnown
    <3>2. \A x \in grants : ~lost' => stored' # NoSettings /\ stored'.UseGroupMapping
      <4> SUFFICES ASSUME NEW x \in grants, ~lost'
                   PROVE  stored' # NoSettings /\ stored'.UseGroupMapping
        OBVIOUS
      <4>1. ~lost => stored # NoSettings /\ stored.UseGroupMapping
        BY DEF IInv, Traced
      <4>2. ~lost /\ stored' = stored
        BY <1>4, <4>1
      <4> QED
        BY <4>1, <4>2
    <3> QED
      BY <1>1, <1>4, <3>1, <3>2, Committed
  <2>8. Blamed'
    BY <1>1, <1>4 DEF IInv, Blamed
  <2> QED
    BY <2>4, <2>5, <2>6, <2>7, <2>8 DEF IInv
<1> QED
  BY <1>3, <1>4 DEF ReadSettings, Remember

LEMMA SettingsFailInv ==
  ASSUME IInv, SettingsFail
  PROVE  IInv'
<1>1. PICK a \in Answers : Fail("settings", a, Uncoded(a))
  BY DEF SettingsFail
<1>2. faults' \in 0 .. MaxFaults
  BY FaultCounted DEF SettingsFail, IInv
<1> QED
  BY <1>1, <1>2, FailInv DEF SettingsFail

LEMMA FilterBrokenInv ==
  ASSUME IInv, FilterBroken
  PROVE  IInv'
<1>1. status = "running" /\ faults' \in 0 .. MaxFaults
  BY DEF FilterBroken, Listing, IInv, Position, TypeOK
<1>2. UNCHANGED <<okta, session>> /\ Fail("filter", "none", "Unknown")
  BY DEF FilterBroken
<1> QED
  BY <1>1, <1>2, FailInv

LEMMA PageFailsInv ==
  ASSUME IInv, PageFails
  PROVE  IInv'
<1>1. status = "running" /\ UNCHANGED <<okta, session>>
  BY DEF PageFails, Listing, IInv, Position
<1>2. faults' \in 0 .. MaxFaults
  BY FaultCounted DEF PageFails, IInv
<1>3. CASE \E a \in Answers : Fail("listing", a, Code(a))
  BY <1>1, <1>2, <1>3, FailInv
<1>4. CASE \E a \in Answers : Fail("roles", a, Uncoded(a))
  BY <1>1, <1>2, <1>4, FailInv
<1> QED
  BY <1>3, <1>4 DEF PageFails

\* Nothing is committed by a call that dies, and nothing by the loss of the
\* session's settings.
LEMMA CrashInv ==
  ASSUME IInv, Crash
  PROVE  IInv'
<1> USE DEF okta, session, sync
<1>1. /\ pc' = "idle" /\ used' = NoSettings
      /\ UNCHANGED <<okta, session, sync>> /\ status = "running"
  BY DEF Crash, EndCall, IInv, Position
<1>2. faults' \in 0 .. MaxFaults
  BY FaultCounted DEF Crash, IInv
<1>3. TypeOK' /\ Position' /\ SettingsKnown' /\ Blamed'
  BY <1>1, <1>2 DEF IInv, TypeOK, Position, SettingsKnown, AtBeginning, Blamed
<1>4. Mapping' => Mapping
  BY <1>1 DEF Mapping
<1>5. Covered' /\ Traced'
  BY <1>1, <1>4, Committed DEF IInv, Traced
<1> QED
  BY <1>3, <1>5 DEF IInv

LEMMA EvictInv ==
  ASSUME IInv, Evict
  PROVE  IInv'
<1> USE DEF okta, call, sync
<1>1. /\ stored' = NoSettings /\ lost' = TRUE
      /\ UNCHANGED <<okta, call, sync>> /\ status = "running"
  BY DEF Evict
<1>2. faults' \in 0 .. MaxFaults
  BY FaultCounted DEF Evict, IInv
<1>3. TypeOK' /\ Position' /\ SettingsKnown' /\ Blamed'
  BY <1>1, <1>2 DEF IInv, TypeOK, Position, SettingsKnown, AtBeginning, Blamed
<1>4. Mapping' => Mapping
  BY <1>1 DEF Mapping
<1>5. Covered' /\ Traced'
  BY <1>1, <1>4, Committed
<1> QED
  BY <1>3, <1>5 DEF IInv

\* Group mapping is switched: the filter stays, and the app mapped groups
\* throughout only if it still does.
LEMMA ToggleInv ==
  ASSUME IInv, Toggle
  PROVE  IInv'
<1> USE DEF session, call, sync
<1>1. /\ toggles < MaxToggles /\ toggles' = toggles + 1 /\ status = "running"
      /\ app' \in Apps /\ app' = [app EXCEPT !.useGroupMapping = ~app.useGroupMapping]
      /\ mapped' = (mapped /\ app'.useGroupMapping)
      /\ UNCHANGED <<name, steady, had, renames, session, call, sync, faults>>
  BY DEF Toggle
<1>2. app \in App /\ app' \in App
  BY <1>1, SyncAssumption DEF SyncAssumption, IInv, TypeOK
<1>3. app'.groupFilter = app.groupFilter /\ app'.useGroupMapping \in BOOLEAN
  BY <1>1, <1>2 DEF App
<1>4. mapped' \in BOOLEAN /\ (mapped' => mapped /\ app'.useGroupMapping)
  BY <1>1, <1>3 DEF IInv, TypeOK
<1>5. toggles' \in 0 .. MaxToggles
  BY <1>1, SyncAssumption DEF SyncAssumption, IInv, TypeOK
<1>6. TypeOK' /\ Position' /\ Blamed'
  BY <1>1, <1>4, <1>5 DEF IInv, TypeOK, Position, Blamed
<1>7. SettingsKnown'
  BY <1>1, <1>3, <1>4 DEF IInv, SettingsKnown, AtBeginning
<1>8. Covered'
  <2>1. Mapping' => Mapping
    BY <1>1, <1>4 DEF Mapping
  <2>2. \A g : Lasting(g)' = Lasting(g)
    BY <1>1, <1>3 DEF Lasting
  <2>3. \A a, g : Past(a, g)' <=> Past(a, g)
    BY <1>1 DEF Past
  <2> QED
    BY <1>1, <2>1, <2>2, <2>3 DEF IInv, Covered
<1>9. Traced'
  <2>1. \A g : Lasting(g)' = Lasting(g) /\ Seen(g)' = Seen(g)
    BY <1>1, <1>3 DEF Lasting, Seen
  <2> QED
    BY <1>1, <1>3, <1>4, <2>1 DEF IInv, Traced
<1> QED
  BY <1>6, <1>7, <1>8, <1>9 DEF IInv

\* A group that is renamed is no longer one whose name has lasted.
LEMMA RenameInv ==
  ASSUME IInv, NEW g \in Groups, Rename(g)
  PROVE  IInv'
<1> USE DEF session, call, sync
<1>1. PICK n \in Names \cup {NoGroup} :
         /\ name' = [name EXCEPT ![g] = n]
         /\ had' = [had EXCEPT ![g] = had[g] \cup {n}]
  BY DEF Rename
<1>2. /\ status = "running" /\ renames < MaxRenames /\ renames' = renames + 1
      /\ steady' = steady \ {g}
      /\ UNCHANGED <<app, mapped, toggles, session, call, sync, faults>>
  BY DEF Rename
<1>3. renames' \in 0 .. MaxRenames
  BY <1>2, SyncAssumption DEF SyncAssumption, IInv, TypeOK
<1>4. /\ name' \in [Groups -> Names \cup {NoGroup, Nameless}]
      /\ had' \in [Groups -> SUBSET (Names \cup {NoGroup, Nameless})]
  BY <1>1 DEF IInv, TypeOK
<1>5. TypeOK' /\ Position' /\ SettingsKnown'
  BY <1>2, <1>3, <1>4 DEF IInv, TypeOK, Position, SettingsKnown, AtBeginning
<1>6. \A h \in steady' : h \in steady /\ h \in Groups /\ h # g /\ name'[h] = name[h] /\ had'[h] = had[h]
  BY <1>1, <1>2 DEF IInv, TypeOK
<1>7. \A h \in Groups : had[h] \subseteq had'[h]
  BY <1>1 DEF IInv, TypeOK
<1>8. Blamed'
  <2>1. \A h \in Groups : name'[h] \in had'[h]
    BY <1>1 DEF IInv, TypeOK, Blamed
  <2>2. \A h \in Groups : h \in steady' => had'[h] = {name'[h]}
    BY <1>6 DEF IInv, Blamed
  <2> QED
    BY <1>2, <2>1, <2>2 DEF IInv, Blamed
<1>9. \A h \in steady' : Lasting(h)' = Lasting(h)
  BY <1>2, <1>6 DEF Lasting
<1>10. Covered'
  <2>1. Mapping' => Mapping
    BY <1>2 DEF Mapping
  <2>2. \A a, h : Past(a, h)' <=> Past(a, h)
    BY <1>2 DEF Past
  <2> QED
    BY <1>2, <1>6, <1>9, <2>1, <2>2 DEF IInv, Covered
<1>11. Traced'
  <2>1. \A h \in Groups : Seen(h) \subseteq Seen(h)'
    BY <1>2, <1>7 DEF Seen
  <2>2. \A x \in grants : x[3] \in Groups
    BY DEF IInv, TypeOK
  <2>3. \A x \in grants :
          /\ <<x[1], x[2]>> \in Seen(x[3])'
          /\ x[3] \in steady' => <<x[1], x[2]>> \in Lasting(x[3])'
          /\ ~lost => stored # NoSettings /\ stored.UseGroupMapping
    BY <1>6, <1>9, <2>1, <2>2 DEF IInv, Traced
  <2>4. \A x \in entitlements :
         \/ ~Broken(app.groupFilter) /\ \E h \in Groups : x \in Seen(h)'
         \/ ~mapped /\ x[2] \in SamlRoles
    BY <2>1 DEF IInv, Traced
  <2> QED
    BY <1>2, <2>3, <2>4 DEF IInv, Traced
<1> QED
  BY <1>5, <1>8, <1>10, <1>11 DEF IInv

-----------------------------------------------------------------------------
(* A page is committed. *)

\* What a page may hand over, by phase.
Fitting(A, E, G) ==
    /\ A \subseteq Accounts /\ (A # {} => action.phase = "accounts")
    /\ E \subseteq {action.account} \X Segments /\ (E # {} => action.phase = "entitlements")
    /\ G \subseteq {action.account} \X Segments \X Groups /\ (G # {} => action.phase = "grants")

\* A page from the cursor to the next one goes by group g.
Passing(next, g) == g > after /\ (next = 0 \/ g <= next)

\* What the page hands over of the groups it passes.
Reaching(next, A, E, G) ==
    Mapping =>
      \A g \in steady : Passing(next, g) =>
        /\ name[g] \in Names => ~Broken(app.groupFilter)
        /\ \A x \in Lasting(g) :
          /\ action.phase = "accounts" => x[1] \in A
          /\ action.phase = "entitlements" /\ x[1] = action.account => x \in E
          /\ action.phase = "grants" /\ x[1] = action.account => <<x[1], x[2], g>> \in G

\* Where it comes from.
Derived(E, G) ==
    /\ \A x \in G :
         /\ ~Broken(app.groupFilter) /\ <<x[1], x[2]>> \in Seen(x[3])
         /\ x[3] \in steady => <<x[1], x[2]>> \in Lasting(x[3])
         /\ ~lost => stored # NoSettings /\ stored.UseGroupMapping
    /\ \A x \in E :
         \/ ~Broken(app.groupFilter) /\ \E g \in Groups : x \in Seen(g)
         \/ ~mapped /\ x[2] \in SamlRoles

\* A page that is committed with a cursor other than its own moves the sync on,
\* to the next page or to an action that is left.
LEMMA CommitMoves ==
  ASSUME IInv, pc = "list", NEW next, NEW A, NEW E, NEW G, Commit(next, A, E, G),
         next # 0 => next # after
  PROVE  /\ pc' = "idle" /\ used' = NoSettings /\ blame' = blame
         /\ accounts' = accounts \cup A
         /\ entitlements' = entitlements \cup E
         /\ grants' = grants \cup G
         /\ \/ next # 0 /\ after' = next /\ UNCHANGED <<action, todo, status>>
            \/ /\ next = 0
               /\ Proceed(IF action.phase = "accounts"
                          THEN [phase : {"entitlements", "grants"}, account : accounts']
                          ELSE todo)
  BY DEF Commit, EndCall

\* The actions that are left, and the one that is taken up.
LEMMA ProceedPosition ==
  ASSUME IInv, pc = "list", NEW T,
         T = IF action.phase = "accounts"
             THEN [phase : {"entitlements", "grants"}, account : accounts']
             ELSE todo,
         accounts \subseteq accounts', action.phase # "accounts" => accounts' = accounts,
         Proceed(T)
  PROVE  /\ after' = 0
         /\ T \subseteq [phase : {"entitlements", "grants"}, account : accounts']
         /\ action \notin T
         /\ \/ T = {} /\ status' = "done" /\ todo' = {} /\ action' = action
            \/ /\ status' = status /\ action' \in T /\ todo' = T \ {action'}
               /\ action'.phase = "grants" => \A b \in T : b.phase = "grants"
<1>1. T \subseteq [phase : {"entitlements", "grants"}, account : accounts']
  BY DEF IInv, Position
<1>2. action \notin T
  <2>1. CASE action.phase = "accounts"
    BY <1>1, <2>1
  <2>2. CASE action.phase # "accounts"
    BY <2>2 DEF IInv, Position
  <2> QED
    BY <2>1, <2>2
<1>3. \A a \in T : a.phase \in {"entitlements", "grants"}
  BY <1>1
<1>4. ASSUME NEW a \in Ready(T), a.phase = "grants"
      PROVE  \A b \in T : b.phase = "grants"
  BY <1>4 DEF Ready
<1>5. \A a \in Ready(T) : a \in T
  BY DEF Ready
<1> QED
  BY <1>1, <1>2, <1>4, <1>5 DEF Proceed

\* An action whose pages have gone by a group had gone by it before, or is the
\* one at hand and the page has passed the group.
LEMMA PastMoves ==
  ASSUME IInv, pc = "list", NEW next, NEW A, NEW E, NEW G, Commit(next, A, E, G),
         next # 0 => next # after, Fitting(A, E, G), next \in 0 .. NumGroups,
         NEW a \in {Begun} \cup [phase : {"entitlements", "grants"}, account : accounts'],
         NEW g \in Groups, Past(a, g)'
  PROVE  Past(a, g) \/ (a = action /\ Passing(next, g))
<1>1. /\ status = "running" /\ after \in Nat /\ g \in Nat /\ g > 0
      /\ action.phase = "accounts" => action = Begun
      /\ action = Begun => action.phase = "accounts" /\ todo = {}
  BY SyncAssumption DEF SyncAssumption, IInv, Position, TypeOK, Groups, Begun
<1>2. CASE next # 0
  <2>1. after' = next /\ UNCHANGED <<action, todo, status>>
    BY <1>2, CommitMoves
  <2> QED
    BY <1>1, <1>2, <2>1 DEF Past, Passing
<1>3. CASE next = 0 /\ a = action
  BY <1>1, <1>3 DEF Past, Passing
<1>4. CASE next = 0 /\ a # action
  <2> DEFINE T == IF action.phase = "accounts"
                  THEN [phase : {"entitlements", "grants"}, account : accounts']
                  ELSE todo
  <2>1. Proceed(T) /\ accounts' = accounts \cup A
    BY <1>4, CommitMoves
  <2>2. /\ after' = 0
        /\ \/ T = {} /\ status' = "done" /\ todo' = {} /\ action' = action
           \/ status' = status /\ action' \in T /\ todo' = T \ {action'}
    BY <2>1, ProceedPosition DEF Fitting
  <2>3. a \notin T
    <3>1. CASE T = {}
      BY <3>1
    <3>2. CASE status' = status /\ action' \in T /\ todo' = T \ {action'}
      BY <1>1, <2>2, <3>2 DEF Past
    <3> QED
      BY <2>2, <3>1, <3>2
  <2>4. CASE action = Begun
    BY <1>1, <1>4, <2>3, <2>4
  <2>5. CASE action # Begun
    <3>1. a \notin todo
      BY <1>1, <2>3, <2>5
    <3> QED
      BY <1>4, <2>5, <3>1 DEF Past
  <2> QED
    BY <2>4, <2>5
<1> QED
  BY <1>2, <1>3, <1>4

LEMMA CommitInv ==
  ASSUME IInv, pc = "list", UNCHANGED <<okta, session, faults>>,
         NEW next, NEW A, NEW E, NEW G, Commit(next, A, E, G),
         next \in 0 .. NumGroups, next # 0 => next > after,
         Fitting(A, E, G), Reaching(next, A, E, G), Derived(E, G)
  PROVE  IInv'
<1> USE DEF okta, session
<1> DEFINE T == IF action.phase = "accounts"
                THEN [phase : {"entitlements", "grants"}, account : accounts']
                ELSE todo
<1>1. next # 0 => next # after
  BY SyncAssumption DEF SyncAssumption, IInv, TypeOK
<1>2. /\ pc' = "idle" /\ used' = NoSettings /\ blame' = blame
      /\ accounts' = accounts \cup A
      /\ entitlements' = entitlements \cup E
      /\ grants' = grants \cup G
      /\ \/ next # 0 /\ after' = next /\ UNCHANGED <<action, todo, status>>
         \/ next = 0 /\ Proceed(T)
  BY <1>1, CommitMoves
<1>3. action.phase # "accounts" => accounts' = accounts
  BY <1>2 DEF Fitting
<1>4. next = 0 =>
        /\ after' = 0
        /\ T \subseteq [phase : {"entitlements", "grants"}, account : accounts']
        /\ action \notin T
        /\ \/ T = {} /\ status' = "done" /\ todo' = {} /\ action' = action
           \/ /\ status' = status /\ action' \in T /\ todo' = T \ {action'}
              /\ action'.phase = "grants" => \A b \in T : b.phase = "grants"
  BY <1>2, <1>3, ProceedPosition
<1>5. /\ status = "running" /\ action \in Action
      /\ action.phase = "accounts" <=> action = Begun
      /\ action # Begun => action.account \in accounts
      /\ action.phase \in {"accounts", "entitlements", "grants"}
  BY DEF IInv, Position, TypeOK, Begun, Action, Phases
<1>6. accounts' \subseteq Accounts
  BY <1>2 DEF Fitting, IInv, TypeOK
<1>7. TypeOK'
  <2>1. entitlements' \subseteq accounts' \X Segments
    BY <1>2, <1>5 DEF Fitting, IInv, TypeOK
  <2>2. grants' \subseteq accounts' \X Segments \X Groups
    BY <1>2, <1>5 DEF Fitting, IInv, TypeOK
  <2>3. [phase : {"entitlements", "grants"}, account : accounts'] \subseteq Action
    BY <1>6 DEF Action, Phases
  <2>4. action' \in Action /\ todo' \subseteq Action /\ status' \in {"running", "done", "failed", "stuck"}
    BY <1>2, <1>4, <1>5, <2>3 DEF IInv, TypeOK
  <2>5. after' \in 0 .. NumGroups
    BY <1>2, <1>4 DEF IInv, TypeOK
  <2> QED
    BY <1>2, <1>6, <2>1, <2>2, <2>4, <2>5 DEF IInv, TypeOK
<1>8. Position'
  <2>1. CASE next # 0
    <3>1. UNCHANGED <<action, todo, status>>
      BY <1>2, <2>1
    <3>2. grants' # {} => action.phase = "grants"
      BY <1>2 DEF Fitting, IInv, Position
    <3>3. todo \subseteq [phase : {"entitlements", "grants"}, account : accounts']
      BY <1>2 DEF IInv, Position
    <3> QED
      BY <1>2, <1>5, <3>1, <3>2, <3>3 DEF IInv, Position
  <2>2. CASE next = 0
    <3>1. CASE T = {} /\ status' = "done" /\ todo' = {} /\ action' = action
      <4>1. action = Begun => accounts' = {}
        <5>1. ASSUME action = Begun, NEW a \in accounts' PROVE FALSE
          <6>1. [phase |-> "grants", account |-> a] \in T
            BY <1>5, <5>1
          <6> QED
            BY <3>1, <6>1
        <5> QED
          BY <5>1
      <4>2. grants' # {} => action.phase = "grants"
        BY <1>2 DEF Fitting, IInv, Position
      <4>3. action # Begun => action.account \in accounts'
        BY <1>2, <1>5
      <4> QED
        BY <1>2, <1>5, <3>1, <4>1, <4>2, <4>3 DEF Position
    <3>2. CASE /\ status' = status /\ action' \in T /\ todo' = T \ {action'}
               /\ action'.phase = "grants" => \A b \in T : b.phase = "grants"
      <4>1. /\ action'.phase \in {"entitlements", "grants"} /\ action'.account \in accounts'
            /\ action'.phase # "accounts" /\ action' # Begun
        BY <1>4, <2>2, <3>2 DEF Begun
      <4>2. grants' # {} => action'.phase = "grants"
        <5> SUFFICES ASSUME grants' # {} PROVE action'.phase = "grants"
          OBVIOUS
        <5>1. action.phase = "grants"
          BY <1>2 DEF Fitting, IInv, Position
        <5>2. action' \in todo
          BY <3>2, <5>1
        <5> QED
          BY <5>1, <5>2 DEF IInv, Position
      <4>3. todo' \subseteq [phase : {"entitlements", "grants"}, account : accounts']
            /\ action' \notin todo'
        BY <1>4, <2>2, <3>2
      <4> QED
        BY <1>2, <1>5, <3>2, <4>1, <4>2, <4>3 DEF Position
    <3> QED
      BY <1>4, <2>2, <3>1, <3>2
  <2> QED
    BY <2>1, <2>2
<1>9. SettingsKnown'
  <2>1. ~(~lost /\ stored = NoSettings)
    BY SyncAssumption DEF IInv, SettingsKnown, TypeOK
  <2> QED
    BY <1>2, <2>1 DEF IInv, SettingsKnown
<1>10. Covered'
  <2> SUFFICES ASSUME Mapping, NEW g \in steady
               PROVE  /\ name[g] \in Names /\ Past(Begun, g)' => ~Broken(app.groupFilter)
                      /\ \A x \in Lasting(g) :
                           /\ Past(Begun, g)' => x[1] \in accounts'
                           /\ x[1] \in accounts'
                              /\ Past([phase |-> "entitlements", account |-> x[1]], g)'
                                => x \in entitlements'
                           /\ x[1] \in accounts'
                              /\ Past([phase |-> "grants", account |-> x[1]], g)'
                                => <<x[1], x[2], g>> \in grants'
    BY DEF Covered, Lasting, Mapping
  <2>1. g \in Groups
    BY DEF IInv, TypeOK
  <2>2. \A a \in {Begun} \cup [phase : {"entitlements", "grants"}, account : accounts'] :
          Past(a, g)' => Past(a, g) \/ (a = action /\ Passing(next, g))
    BY <1>1, <2>1, PastMoves
  <2>3. ASSUME name[g] \in Names, Past(Begun, g)' PROVE ~Broken(app.groupFilter)
    BY <2>2, <2>3 DEF Reaching, IInv, Covered
  <2>4. ASSUME NEW x \in Lasting(g)
        PROVE  /\ Past(Begun, g)' => x[1] \in accounts'
               /\ x[1] \in accounts'
                  /\ Past([phase |-> "entitlements", account |-> x[1]], g)'
                    => x \in entitlements'
               /\ x[1] \in accounts'
                  /\ Past([phase |-> "grants", account |-> x[1]], g)'
                    => <<x[1], x[2], g>> \in grants'
    <3>1. Passing(next, g) =>
            /\ action.phase = "accounts" => x[1] \in A
            /\ action.phase = "entitlements" /\ x[1] = action.account => x \in E
            /\ action.phase = "grants" /\ x[1] = action.account => <<x[1], x[2], g>> \in G
      BY DEF Reaching
    <3>2. /\ Past(Begun, g) => x[1] \in accounts
          /\ x[1] \in accounts /\ Past([phase |-> "entitlements", account |-> x[1]], g)
               => x \in entitlements
          /\ x[1] \in accounts /\ Past([phase |-> "grants", account |-> x[1]], g)
               => <<x[1], x[2], g>> \in grants
      BY DEF IInv, Covered
    <3>3. Past(Begun, g)' => x[1] \in accounts'
      BY <1>2, <1>5, <2>2, <3>1, <3>2
    <3>4. ASSUME NEW p \in {"entitlements", "grants"}, x[1] \in accounts', x[1] \notin accounts
          PROVE  /\ ~Past([phase |-> p, account |-> x[1]], g)
                 /\ action # [phase |-> p, account |-> x[1]]
      <4>1. action = Begun
        BY <1>2, <1>3, <1>5, <3>4
      <4>2. [phase |-> p, account |-> x[1]] # Begun
        BY DEF Begun
      <4> QED
        BY <1>5, <4>1, <4>2 DEF Past
    <3>5. ASSUME x[1] \in accounts', Past([phase |-> "entitlements", account |-> x[1]], g)'
          PROVE  x \in entitlements'
      <4> DEFINE a == [phase |-> "entitlements", account |-> x[1]]
      <4>1. Past(a, g) \/ (a = action /\ Passing(next, g))
        BY <2>2, <3>5
      <4>2. x[1] \in accounts
        BY <3>4, <3>5, <4>1
      <4>3. a.phase = "entitlements" /\ a.account = x[1]
        OBVIOUS
      <4> QED
        BY <1>2, <3>1, <3>2, <4>1, <4>2, <4>3
    <3>6. ASSUME x[1] \in accounts', Past([phase |-> "grants", account |-> x[1]], g)'
          PROVE  <<x[1], x[2], g>> \in grants'
      <4> DEFINE a == [phase |-> "grants", account |-> x[1]]
      <4>1. Past(a, g) \/ (a = action /\ Passing(next, g))
        BY <2>2, <3>6
      <4>2. x[1] \in accounts
        BY <3>4, <3>6, <4>1
      <4>3. a.phase = "grants" /\ a.account = x[1]
        OBVIOUS
      <4> QED
        BY <1>2, <3>1, <3>2, <4>1, <4>2, <4>3
    <3> QED
      BY <3>3, <3>5, <3>6
  <2> QED
    BY <2>3, <2>4
<1>11. Traced'
  <2>1. \A g : Lasting(g)' = Lasting(g) /\ Seen(g)' = Seen(g)
    BY DEF Lasting, Seen
  <2>2. ~Broken(app.groupFilter) \/ grants' = {}
    BY <1>2 DEF Derived, IInv, Traced
  <2>3. \A x \in grants' :
         /\ <<x[1], x[2]>> \in Seen(x[3])
         /\ x[3] \in steady => <<x[1], x[2]>> \in Lasting(x[3])
         /\ ~lost => stored # NoSettings /\ stored.UseGroupMapping
    BY <1>2 DEF Derived, IInv, Traced
  <2>4. \A x \in entitlements' :
         \/ ~Broken(app.groupFilter) /\ \E g \in Groups : x \in Seen(g)
         \/ ~mapped /\ x[2] \in SamlRoles
    BY <1>2 DEF Derived, IInv, Traced
  <2> QED
    BY <2>1, <2>2, <2>3, <2>4 DEF Traced
<1>12. Blamed'
  BY <1>2 DEF IInv, Blamed
<1> QED
  BY <1>7, <1>8, <1>9, <1>10, <1>11, <1>12 DEF IInv

\* A page of the organization's groups, in group-mapping mode.
LEMMA MappedPage ==
  ASSUME IInv, pc = "list", used.UseGroupMapping, Compiles
  PROVE  /\ ~lost => stored # NoSettings /\ stored.UseGroupMapping
         /\ \A g \in OnPage :
              /\ g \in Groups /\ ~Broken(app.groupFilter)
              /\ Read(g) \subseteq Seen(g)
              /\ \A x \in Read(g) : x \in Accounts \X Segments /\ x = <<x[1], x[2]>>
              /\ g \in steady => Read(g) = Lasting(g)
         /\ \A g \in steady : Passing(Next0, g) =>
              /\ name[g] \in Names => ~Broken(app.groupFilter)
              /\ \A x \in Lasting(g) : g \in OnPage /\ x \in Read(g)
<1>1. used # NoSettings /\ used.RoleRegex = app.groupFilter
  BY DEF IInv, TypeOK, SettingsKnown
<1>2. ~lost => stored # NoSettings /\ stored.UseGroupMapping
  BY <1>1 DEF IInv, SettingsKnown
<1>3. ASSUME NEW g \in OnPage
      PROVE  /\ g \in Groups /\ name[g] \in Names
             /\ Read(g) = Reading(app.groupFilter, name[g])
  BY <1>1, OnPageNames DEF IInv
<1>4. ASSUME NEW g \in OnPage
      PROVE  /\ g \in Groups /\ ~Broken(app.groupFilter)
             /\ Read(g) \subseteq Seen(g)
             /\ \A x \in Read(g) : x \in Accounts \X Segments /\ x = <<x[1], x[2]>>
             /\ g \in steady => Read(g) = Lasting(g)
  <2>1. name[g] \in had[g] \cap Names
    BY <1>3 DEF IInv, Blamed
  <2>2. Read(g) \subseteq Seen(g)
    BY <1>3, <2>1 DEF Seen
  <2>3. \A x \in Read(g) : x \in Accounts \X Segments /\ x = <<x[1], x[2]>>
    BY <1>3, ReadingTypes
  <2>4. Read(g) = Lasting(g)
    BY <1>3 DEF Lasting
  <2> QED
    BY <1>1, <1>3, <2>2, <2>3, <2>4 DEF Compiles
<1>5. ASSUME NEW g \in steady, Passing(Next0, g), name[g] \in Names
      PROVE  g \in OnPage
  BY <1>5, Listed DEF Passing, IInv, TypeOK
<1>6. ASSUME NEW g \in steady, Passing(Next0, g), NEW x \in Lasting(g)
      PROVE  g \in OnPage /\ x \in Read(g)
  <2>1. name[g] \in Names /\ x \in Reading(app.groupFilter, name[g])
    BY <1>6 DEF Lasting
  <2> QED
    BY <1>3, <1>5, <1>6, <2>1
<1> QED
  BY <1>2, <1>4, <1>5, <1>6

\* Without group mapping, the app did not map groups throughout.
LEMMA UnmappedPage ==
  ASSUME IInv, pc = "list", ~used.UseGroupMapping
  PROVE  ~mapped /\ ~Mapping /\ used.IdentityProviderArnAccountID \in Accounts
<1>1. used # NoSettings /\ used \in Settings
  BY DEF IInv, TypeOK
<1> QED
  BY <1>1 DEF IInv, SettingsKnown, Mapping, Settings

LEMMA ListInv ==
  ASSUME IInv, List
  PROVE  IInv'
<1>1. pc = "list" /\ action.phase = "accounts" /\ UNCHANGED <<okta, session, faults>>
  BY DEF List, Handling
<1>2. CASE /\ ~used.UseGroupMapping
           /\ Commit(0, {used.IdentityProviderArnAccountID}, {}, {})
  <2> DEFINE A == {used.IdentityProviderArnAccountID}
  <2>1. Fitting(A, {}, {}) /\ Reaching(0, A, {}, {}) /\ Derived({}, {})
    BY <1>1, <1>2, UnmappedPage DEF Fitting, Reaching, Derived
  <2>2. 0 \in 0 .. NumGroups
    BY SyncAssumption DEF SyncAssumption
  <2> QED
    BY <1>1, <1>2, <2>1, <2>2, CommitInv
<1>3. CASE used.UseGroupMapping /\ Compiles
  <2> DEFINE A == {x[1] : x \in UNION {Read(g) : g \in OnPage}}
  <2>1. Commit(Next0, A, {}, {})
    BY <1>3 DEF List
  <2>2. A \subseteq Accounts
    BY <1>1, <1>3, MappedPage
  <2>3. Fitting(A, {}, {}) /\ Derived({}, {})
    BY <1>1, <2>2 DEF Fitting, Derived
  <2>4. Reaching(Next0, A, {}, {})
    <3> SUFFICES ASSUME NEW g \in steady, Passing(Next0, g), NEW x \in Lasting(g)
                 PROVE  x[1] \in A
      BY <1>1, <1>3, MappedPage DEF Reaching
    <3>1. g \in OnPage /\ x \in Read(g)
      BY <1>1, <1>3, MappedPage
    <3> QED
      BY <3>1
  <2>5. Next0 \in 0 .. NumGroups /\ (Next0 # 0 => Next0 > after)
    BY Listed DEF IInv
  <2> QED
    BY <1>1, <2>1, <2>3, <2>4, <2>5, CommitInv
<1> QED
  BY <1>2, <1>3 DEF List

LEMMA EntitlementsInv ==
  ASSUME IInv, Entitlements
  PROVE  IInv'
<1>1. pc = "list" /\ action.phase = "entitlements" /\ UNCHANGED <<okta, session, faults>>
  BY DEF Entitlements, Handling
<1>2. CASE ~used.UseGroupMapping /\ Commit(0, {}, {action.account} \X SamlRoles, {})
  <2> DEFINE E == {action.account} \X SamlRoles
  <2>1. E \subseteq {action.account} \X Segments
    BY SyncAssumption DEF SyncAssumption
  <2>2. Fitting({}, E, {}) /\ Reaching(0, {}, E, {}) /\ Derived(E, {})
    BY <1>1, <1>2, <2>1, UnmappedPage DEF Fitting, Reaching, Derived
  <2>3. 0 \in 0 .. NumGroups
    BY SyncAssumption DEF SyncAssumption
  <2> QED
    BY <1>1, <1>2, <2>2, <2>3, CommitInv
<1>3. CASE used.UseGroupMapping /\ Compiles
  <2> DEFINE E == UNION {Named(g) : g \in OnPage}
  <2>1. Commit(Next0, {}, E, {})
    BY <1>3 DEF Entitlements
  <2>2. E \subseteq {action.account} \X Segments
    BY <1>1, <1>3, MappedPage DEF Named
  <2>3. Fitting({}, E, {})
    BY <1>1, <2>2 DEF Fitting
  <2>4. Derived(E, {})
    BY <1>1, <1>3, MappedPage DEF Derived, Named
  <2>5. Reaching(Next0, {}, E, {})
    <3> SUFFICES ASSUME NEW g \in steady, Passing(Next0, g), NEW x \in Lasting(g),
                        x[1] = action.account
                 PROVE  x \in E
      BY <1>1, <1>3, MappedPage DEF Reaching
    <3>1. g \in OnPage /\ x \in Read(g)
      BY <1>1, <1>3, MappedPage
    <3> QED
      BY <3>1 DEF Named
  <2>6. Next0 \in 0 .. NumGroups /\ (Next0 # 0 => Next0 > after)
    BY Listed DEF IInv
  <2> QED
    BY <1>1, <2>1, <2>3, <2>4, <2>5, <2>6, CommitInv
<1> QED
  BY <1>2, <1>3 DEF Entitlements

LEMMA GrantsInv ==
  ASSUME IInv, Grants
  PROVE  IInv'
<1>1. pc = "list" /\ action.phase = "grants" /\ UNCHANGED <<okta, session, faults>>
  BY DEF Grants, Handling
<1>2. CASE ~used.UseGroupMapping /\ Commit(0, {}, {}, {})
  <2>1. Fitting({}, {}, {}) /\ Reaching(0, {}, {}, {}) /\ Derived({}, {})
    BY <1>1, <1>2, UnmappedPage DEF Fitting, Reaching, Derived
  <2>2. 0 \in 0 .. NumGroups
    BY SyncAssumption DEF SyncAssumption
  <2> QED
    BY <1>1, <1>2, <2>1, <2>2, CommitInv
<1>3. CASE used.UseGroupMapping /\ Compiles
  <2> DEFINE G == UNION {{<<x[1], x[2], g>> : x \in Named(g)} : g \in OnPage}
  <2>1. Commit(Next0, {}, {}, G)
    BY <1>3 DEF Grants
  <2>2. ASSUME NEW y \in G
        PROVE  \E g \in OnPage : \E x \in Read(g) :
                 x[1] = action.account /\ y = <<x[1], x[2], g>>
    BY DEF Named
  <2>3. G \subseteq {action.account} \X Segments \X Groups
    <3> SUFFICES ASSUME NEW y \in G PROVE y \in {action.account} \X Segments \X Groups
      OBVIOUS
    <3>1. PICK g \in OnPage : \E x \in Read(g) :
                 x[1] = action.account /\ y = <<x[1], x[2], g>>
      BY <2>2
    <3>2. PICK x \in Read(g) : x[1] = action.account /\ y = <<x[1], x[2], g>>
      BY <3>1
    <3>3. g \in Groups /\ x[2] \in Segments
      BY <1>1, <1>3, MappedPage
    <3> QED
      BY <3>2, <3>3
  <2>4. Fitting({}, {}, G)
    BY <1>1, <2>3 DEF Fitting
  <2>5. Derived({}, G)
    <3> SUFFICES ASSUME NEW y \in G
                 PROVE  /\ ~Broken(app.groupFilter) /\ <<y[1], y[2]>> \in Seen(y[3])
                        /\ y[3] \in steady => <<y[1], y[2]>> \in Lasting(y[3])
                        /\ ~lost => stored # NoSettings /\ stored.UseGroupMapping
      BY DEF Derived
    <3>1. PICK g \in OnPage : \E x \in Read(g) :
                 x[1] = action.account /\ y = <<x[1], x[2], g>>
      BY <2>2
    <3>2. PICK x \in Read(g) : x[1] = action.account /\ y = <<x[1], x[2], g>>
      BY <3>1
    <3>3. y[1] = x[1] /\ y[2] = x[2] /\ y[3] = g
      BY <3>2
    <3>4. /\ ~Broken(app.groupFilter) /\ Read(g) \subseteq Seen(g)
          /\ x = <<x[1], x[2]>>
          /\ g \in steady => Read(g) = Lasting(g)
          /\ ~lost => stored # NoSettings /\ stored.UseGroupMapping
      BY <1>1, <1>3, MappedPage
    <3> QED
      BY <3>3, <3>4
  <2>6. Reaching(Next0, {}, {}, G)
    <3> SUFFICES ASSUME NEW g \in steady, Passing(Next0, g), NEW x \in Lasting(g),
                        x[1] = action.account
                 PROVE  <<x[1], x[2], g>> \in G
      BY <1>1, <1>3, MappedPage DEF Reaching
    <3>1. g \in OnPage /\ x \in Read(g)
      BY <1>1, <1>3, MappedPage
    <3> QED
      BY <3>1 DEF Named
  <2>7. Next0 \in 0 .. NumGroups /\ (Next0 # 0 => Next0 > after)
    BY Listed DEF IInv
  <2> QED
    BY <1>1, <2>1, <2>4, <2>5, <2>6, <2>7, CommitInv
<1> QED
  BY <1>2, <1>3 DEF Grants

-----------------------------------------------------------------------------
(* The theorems. *)

LEMMA NextInv == IInv /\ [Next]_vars => IInv'
<1> SUFFICES ASSUME IInv, [Next]_vars PROVE IInv'
  OBVIOUS
<1>1. CASE Page
  BY <1>1, ReadSettingsInv, SettingsFailInv, ListInv, EntitlementsInv, GrantsInv,
     FilterBrokenInv, PageFailsInv, CrashInv DEF Page
<1>2. CASE Evict
  BY <1>2, EvictInv
<1>3. CASE Toggle
  BY <1>3, ToggleInv
<1>4. CASE \E g \in Groups : Rename(g)
  BY <1>4, RenameInv
<1>5. CASE UNCHANGED vars
  <2>1. UNCHANGED <<okta, session, call, sync, faults>>
    BY <1>5 DEF vars
  <2> QED
    BY <2>1 DEF okta, session, call, sync, IInv, TypeOK, Position, SettingsKnown,
       AtBeginning, Covered, Mapping, Past, Lasting, Traced, Seen, Blamed
<1> QED
  BY <1>1, <1>2, <1>3, <1>4, <1>5 DEF Next

\* The invariant holds of the sync, whatever fails, is renamed or is switched.
THEOREM SyncInvariant == Spec => []IInv
<1>1. Init => IInv
  BY InitInv
<1>2. IInv /\ [Next]_vars => IInv'
  BY NextInv
<1> QED
  BY <1>1, <1>2, PTL DEF Spec

\* What the code keeps and commits is of its types.
THEOREM TypeCorrect == Spec => []TypeOK
<1>1. IInv => TypeOK
  BY DEF IInv
<1> QED
  BY <1>1, SyncInvariant, PTL

\* No page ever returns its own cursor, which the SDK would take for an error.
THEOREM NeverStuck == Spec => [](status # "stuck")
<1>1. IInv => status # "stuck"
  BY DEF IInv, Position
<1> QED
  BY <1>1, SyncInvariant, PTL

\* No rate limit, error of the server or 408 that Okta answers with ends a sync
\* in the middle of a listing.
THEOREM WaitsTroubleOut == Spec => []TroubleWaitedOut
<1>1. IInv => TroubleWaitedOut
  <2> SUFFICES ASSUME IInv, blame[1] = "listing",
                      blame[2] \in {"408", "429", "500", "502", "503", "504"}
               PROVE  FALSE
    BY DEF TroubleWaitedOut
  <2>1. Verdict(Code(blame[2])) = "fail"
    BY DEF IInv, Blamed
  <2>2. Code(blame[2]) \in {"Unavailable", "DeadlineExceeded"}
    BY DEF Code
  <2> QED
    BY <2>1, <2>2 DEF Verdict
<1> QED
  BY <1>1, SyncInvariant, PTL

\* A grant of a group whose name lasted is of an entitlement that was reported,
\* unless the settings were read twice.
THEOREM GrantsAnchored == Spec => []Anchored
<1>1. IInv => Anchored
  <2> SUFFICES ASSUME IInv, NEW x \in grants, x[3] \in steady, ~lost
               PROVE  <<x[1], x[2]>> \in entitlements
    BY DEF Anchored
  <2> DEFINE y == <<x[1], x[2]>>
             a == [phase |-> "entitlements", account |-> x[1]]
  <2>1. y \in Lasting(x[3]) /\ Mapping
    BY DEF IInv, Traced, Mapping
  <2>2. x[1] \in accounts
    BY DEF IInv, TypeOK
  <2>3. action.phase = "grants" /\ \A b \in todo : b.phase = "grants"
    BY DEF IInv, Position
  <2>4. a # action /\ a \notin todo /\ action # Begun
    BY <2>3 DEF Begun
  <2>5. Past(a, x[3])
    BY <2>4 DEF Past
  <2>6. \A z \in Lasting(x[3]) : z[1] \in accounts
          /\ Past([phase |-> "entitlements", account |-> z[1]], x[3]) => z \in entitlements
    BY <2>1 DEF IInv, Covered
  <2> QED
    BY <2>1, <2>2, <2>5, <2>6
<1> QED
  BY <1>1, SyncInvariant, PTL

\* The filter captures an account ID and then a role, and nothing else.
AccountThenRole(f) == f.captures = <<"accountid", "role">>

LEMMA PlacesOf ==
  ASSUME NEW f, AccountThenRole(f)
  PROVE  Places(f, "accountid") = {1} /\ Places(f, "role") = {2} /\ Len(f.captures) = 2
  BY DEF Places, AccountThenRole

\* What Okta reads with such a filter, the connector reads too, where the texts
\* are long enough for it; and the other way round, if the role may be any name.
LEMMA OktaAndConnector ==
  ASSUME NEW f, AccountThenRole(f), NEW n \in Names
  PROVE  /\ \A x \in OktaReads(f, n) : x[1] \in Long /\ x[2] \in Long => x \in Reading(f, n)
         /\ f.role = "name" => Reading(f, n) \subseteq OktaReads(f, n)
<1> USE PlacesOf
<1>1. f.captures[1] = "accountid" /\ f.captures[2] = "role" /\ Len(f.captures) = 2
  BY DEF AccountThenRole
<1>2. n \in Seq(Segments)
  BY SyncAssumption DEF SyncAssumption, Name
<1>3. ASSUME NEW x \in OktaReads(f, n), x[1] \in Long, x[2] \in Long
      PROVE  x \in Reading(f, n)
  <2>1. /\ x = <<n[1], n[2]>> /\ Len(n) = 2 /\ n[1] \in Digits
    BY <1>1, <1>2, <1>3 DEF OktaReads
  <2>2. Fits(f.captures[1], n[1]) /\ Fits(f.captures[2], n[2])
    BY <1>1, <1>3, <2>1 DEF Fits
  <2>3. DOMAIN n = {1, 2}
    BY <1>2, <2>1
  <2> QED
    BY <1>1, <2>1, <2>2, <2>3 DEF Reading, Matches
<1>4. ASSUME f.role = "name", NEW x \in Reading(f, n)
      PROVE  x \in OktaReads(f, n)
  <2>1. x = <<n[1], n[2]>> /\ Len(n) = 2 /\ \A i \in DOMAIN n : Fits(f.captures[i], n[i])
    BY DEF Reading, Matches
  <2>2. DOMAIN n = {1, 2}
    BY <1>2, <2>1
  <2>3. n[1] \in Digits
    BY <1>1, <2>1, <2>2 DEF Fits
  <2> QED
    BY <1>1, <1>4, <2>1, <2>2, <2>3 DEF OktaReads
<1> QED
  BY <1>3, <1>4

\* A sync that ends well has reported what Okta reads in every name that
\* lasted, where the filters that compile capture the account first.
THEOREM NothingLeftOut ==
  ASSUME \A a \in Apps : Broken(a.groupFilter) \/ AccountThenRole(a.groupFilter)
  PROVE  Spec => []Complete
<1>1. IInv => Complete
  <2> SUFFICES ASSUME IInv, status = "done", mapped,
                      NEW g \in steady, name[g] \in Names, NEW x \in OktaReading(name[g])
               PROVE  x[1] \in accounts /\ x \in entitlements /\ <<x[1], x[2], g>> \in grants
    BY DEF Complete
  <2>1. \A a : Past(a, g)
    BY DEF Past
  <2>2. Mapping
    BY DEF Mapping
  <2>3. ~Broken(app.groupFilter)
    BY <2>1, <2>2 DEF IInv, Covered
  <2>4. AccountThenRole(app.groupFilter)
    BY <2>3 DEF IInv, TypeOK
  <2>5. x \in Lasting(g)
    BY <2>4, OktaAndConnector DEF OktaReading, Lasting
  <2>6. x[1] \in accounts
    BY <2>1, <2>2, <2>5 DEF IInv, Covered
  <2> QED
    BY <2>1, <2>2, <2>5, <2>6 DEF IInv, Covered
<1> QED
  BY <1>1, SyncInvariant, PTL

\* Nothing is reported that Okta did not read in a name, where the filters that
\* compile capture the account first and let a role be any name.
THEOREM NothingMadeUp ==
  ASSUME \A a \in Apps : \/ Broken(a.groupFilter)
                         \/ AccountThenRole(a.groupFilter) /\ a.groupFilter.role = "name"
  PROVE  Spec => []Sound
<1>1. IInv => Sound
  <2> SUFFICES ASSUME IInv
               PROVE  /\ \A x \in grants : <<x[1], x[2]>> \in EverRead(x[3])
                      /\ \A x \in entitlements : \/ \E g \in Groups : x \in EverRead(g)
                                                 \/ ~mapped /\ x[2] \in SamlRoles
    BY DEF Sound
  <2>1. app \in Apps
    BY DEF IInv, TypeOK
  <2>2. ASSUME ~Broken(app.groupFilter), NEW g PROVE Seen(g) \subseteq EverRead(g)
    <3>1. \A n \in Names : Reading(app.groupFilter, n) \subseteq OktaReads(app.groupFilter, n)
      BY <2>1, <2>2, OktaAndConnector
    <3> QED
      BY <3>1 DEF Seen, EverRead
  <2>3. ASSUME NEW x \in grants PROVE <<x[1], x[2]>> \in EverRead(x[3])
    BY <2>2, <2>3 DEF IInv, Traced
  <2>4. ASSUME NEW x \in entitlements
        PROVE  \/ \E g \in Groups : x \in EverRead(g)
               \/ ~mapped /\ x[2] \in SamlRoles
    BY <2>2, <2>4 DEF IInv, Traced
  <2> QED
    BY <2>3, <2>4
<1> QED
  BY <1>1, SyncInvariant, PTL

-----------------------------------------------------------------------------
(* The abstract report. *)

\* Where an account comes from: a name, or the provider's ARN.
Sourced ==
    /\ stored # NoSettings => stored.IdentityProviderArnAccountID = app.identityProviderArn
    /\ used # NoSettings => used.IdentityProviderArnAccountID = app.identityProviderArn
    /\ \A a \in accounts :
         \/ ~Broken(app.groupFilter) /\ \E g \in Groups : \E x \in Seen(g) : a = x[1]
         \/ ~mapped /\ a = app.identityProviderArn

\* What a step does to the report: nothing, a page, the end, or nothing but
\* what happens beside it.
LEMMA StepKinds ==
  ASSUME IInv, [Next]_vars
  PROVE  \/ UNCHANGED <<okta, accounts, entitlements, grants, status>>
         \/ /\ UNCHANGED okta /\ status = "running"
            /\ accounts \subseteq accounts' /\ entitlements \subseteq entitlements'
            /\ grants \subseteq grants' /\ status' \in {"running", "done", "stuck"}
         \/ /\ UNCHANGED <<okta, accounts, entitlements, grants>>
            /\ status = "running" /\ status' = "failed"
         \/ /\ Toggle \/ \E g \in Groups : Rename(g)
            /\ UNCHANGED <<accounts, entitlements, grants, status>>
<1>1. pc = "list" => status = "running"
  BY DEF IInv, Position
<1>2. ASSUME NEW where, NEW why, NEW code, Fail(where, why, code)
      PROVE  UNCHANGED <<accounts, entitlements, grants>> /\ status' \in {status, "failed"}
  BY <1>2 DEF Fail
<1>3. ASSUME NEW next, NEW A, NEW E, NEW G, Commit(next, A, E, G)
      PROVE  /\ accounts \subseteq accounts' /\ entitlements \subseteq entitlements'
             /\ grants \subseteq grants' /\ status' \in {status, "done", "stuck"}
  BY <1>3 DEF Commit, Proceed
<1>4. CASE ReadSettings \/ SettingsFail
  BY <1>2, <1>4 DEF ReadSettings, SettingsFail, sync
<1>5. CASE List \/ Entitlements \/ Grants
  <2>1. pc = "list" /\ UNCHANGED okta /\ \E next, A, E, G : Commit(next, A, E, G)
    BY <1>5 DEF List, Entitlements, Grants, Handling
  <2> QED
    BY <1>1, <1>3, <2>1
<1>6. CASE FilterBroken \/ PageFails
  BY <1>1, <1>2, <1>6 DEF FilterBroken, PageFails, Listing
<1>7. CASE Crash \/ Evict
  BY <1>7 DEF Crash, Evict, sync
<1>8. CASE Toggle \/ \E g \in Groups : Rename(g)
  BY <1>8 DEF Toggle, Rename, sync
<1>9. CASE UNCHANGED vars
  BY <1>9 DEF vars, sync
<1> QED
  BY <1>4, <1>5, <1>6, <1>7, <1>8, <1>9 DEF Next, Page

\* What is seen stays seen, and the filter and the ARN stay as they are.
LEMMA SeenStays ==
  ASSUME IInv, [Next]_vars
  PROVE  /\ UNCHANGED <<app.groupFilter, app.identityProviderArn>> /\ (mapped' => mapped)
         /\ \A g \in Groups : had[g] \subseteq had'[g] /\ Seen(g) \subseteq Seen(g)'
         /\ steady' \subseteq steady
         /\ \A g \in steady' : name'[g] = name[g]
<1>1. CASE UNCHANGED okta
  BY <1>1 DEF okta, Seen
<1>2. CASE Toggle
  <2>1. app \in App
    BY SyncAssumption DEF SyncAssumption, IInv, TypeOK
  <2>2. app' = [app EXCEPT !.useGroupMapping = ~app.useGroupMapping]
    BY <1>2 DEF Toggle
  <2>3. UNCHANGED <<app.groupFilter, app.identityProviderArn>>
    BY <2>1, <2>2 DEF App
  <2> QED
    BY <1>2, <2>3 DEF Toggle, Seen
<1>3. ASSUME NEW h \in Groups, Rename(h)
      PROVE  /\ UNCHANGED <<app, mapped>> /\ steady' \subseteq steady
             /\ \A g \in Groups : had[g] \subseteq had'[g]
             /\ \A g \in steady' : name'[g] = name[g]
  BY <1>3 DEF Rename, IInv, TypeOK
<1>4. CASE \E h \in Groups : Rename(h)
  BY <1>3, <1>4 DEF Seen
<1> QED
  BY <1>1, <1>2, <1>4, StepKinds

LEMMA SourcedStep ==
  ASSUME IInv, Sourced, [Next]_vars
  PROVE  Sourced'
<1>1. ASSUME UNCHANGED accounts PROVE \A a \in accounts' :
         \/ ~Broken(app'.groupFilter) /\ \E g \in Groups : \E x \in Seen(g)' : a = x[1]
         \/ ~mapped' /\ a = app'.identityProviderArn
  BY <1>1, SeenStays DEF Sourced
<1>2. \/ UNCHANGED session /\ (UNCHANGED call \/ used' = NoSettings)
      \/ ReadSettings
      \/ Evict
  BY DEF Next, Page, ReadSettings, SettingsFail, List, Entitlements, Grants, FilterBroken,
         PageFails, Crash, Toggle, Rename, Handling, Commit, Fail, EndCall, vars
<1>3. /\ stored' # NoSettings => stored'.IdentityProviderArnAccountID = app'.identityProviderArn
      /\ used' # NoSettings => used'.IdentityProviderArnAccountID = app'.identityProviderArn
  <2>1. CASE UNCHANGED session /\ (UNCHANGED call \/ used' = NoSettings)
    BY <2>1, SeenStays DEF session, call, Sourced
  <2>2. CASE ReadSettings
    <3>1. Parsed(app) # NoSettings =>
            Parsed(app).IdentityProviderArnAccountID = app.identityProviderArn
      BY DEF Parsed
    <3>2. /\ stored' \in {stored, Parsed(app)}
          /\ used' \in {used, stored, Parsed(app), NoSettings}
      BY <2>2 DEF ReadSettings, session, Remember, Fail, EndCall
    <3> QED
      BY <3>1, <3>2, SeenStays DEF Sourced
  <2>3. CASE Evict
    BY <2>3, SeenStays DEF Evict, call, Sourced
  <2> QED
    BY <1>2, <2>1, <2>2, <2>3
<1>4. CASE List
  <2>1. pc = "list" /\ UNCHANGED okta
    BY <1>4 DEF List, Handling
  <2>2. used # NoSettings
    BY <2>1 DEF IInv, TypeOK
  <2>3. CASE ~used.UseGroupMapping
    <3>1. accounts' \subseteq accounts \cup {app.identityProviderArn} /\ ~mapped
      BY <1>4, <2>1, <2>2, <2>3, UnmappedPage DEF List, Commit, Sourced
    <3> QED
      BY <1>3, <2>1, <3>1, SeenStays DEF Sourced, okta
  <2>4. CASE used.UseGroupMapping
    <3> DEFINE A == {x[1] : x \in UNION {Read(g) : g \in OnPage}}
    <3>1. Compiles /\ Commit(Next0, A, {}, {})
      BY <1>4, <2>4 DEF List
    <3>2. ASSUME NEW a \in A
          PROVE  ~Broken(app.groupFilter) /\ \E g \in Groups : \E x \in Seen(g) : a = x[1]
      BY <2>1, <2>4, <3>1, MappedPage
    <3>3. accounts' \subseteq accounts \cup A
      BY <3>1 DEF Commit
    <3> HIDE DEF A
    <3>4. \A a \in accounts' :
            \/ ~Broken(app.groupFilter) /\ \E g \in Groups : \E x \in Seen(g) : a = x[1]
            \/ ~mapped /\ a = app.identityProviderArn
      BY <3>2, <3>3 DEF Sourced
    <3> QED
      BY <1>3, <2>1, <3>4, SeenStays DEF Sourced, okta
  <2> QED
    BY <2>3, <2>4
<1>5. CASE Entitlements \/ Grants
  <2>1. accounts' = accounts
    BY <1>5 DEF Entitlements, Grants, Commit
  <2> QED
    BY <1>1, <1>3, <2>1 DEF Sourced
<1>6. CASE UNCHANGED accounts
  BY <1>1, <1>3, <1>6 DEF Sourced
<1>7. accounts' = accounts \/ List \/ Entitlements \/ Grants
  BY DEF Next, Page, ReadSettings, SettingsFail, FilterBroken, PageFails, Crash, Toggle,
         Rename, Evict, Fail, vars, sync
<1> QED
  BY <1>4, <1>5, <1>6, <1>7

\* What Okta reads in a name is an account and a text.
LEMMA OktaReadingTypes ==
  ASSUME NEW f, NEW n \in Names, NEW x \in OktaReads(f, n)
  PROVE  x \in Accounts \X Segments /\ x = <<x[1], x[2]>>
<1>1. n \in Seq(Segments) /\ Accounts = Segments
  BY SyncAssumption DEF SyncAssumption, Name
<1>2. PICK i \in Places(f, "accountid"), j \in Places(f, "role") :
         x = <<n[i], n[j]>> /\ Len(n) = Len(f.captures)
  BY DEF OktaReads
<1>3. i \in DOMAIN n /\ j \in DOMAIN n
  BY <1>1, <1>2 DEF Places
<1>4. n[i] \in Segments /\ n[j] \in Segments
  BY <1>1, <1>3
<1> QED
  BY <1>1, <1>2, <1>4

\* A role may be any name, and comes after the account: the connector then
\* reads nothing that Okta does not.
ReadAsMeant(f) == Broken(f) \/ (AccountThenRole(f) /\ f.role = "name")

LEMMA SeenIsRead ==
  ASSUME NEW g, ~Broken(app.groupFilter), ReadAsMeant(app.groupFilter)
  PROVE  Seen(g) \subseteq EverRead(g)
<1>1. \A n \in Names : Reading(app.groupFilter, n) \subseteq OktaReads(app.groupFilter, n)
  BY OktaAndConnector DEF ReadAsMeant
<1> QED
  BY <1>1 DEF Seen, EverRead

\* What the abstract report asks of every state.
Facts == {<<a>> : a \in Accounts} \cup (Accounts \X Segments)
         \cup (Accounts \X Segments \X Groups)

Reportable ==
    /\ ReadThroughout \subseteq ReadOnce /\ ReadOnce \subseteq Facts
    /\ Report \subseteq ReadOnce
    /\ status = "done" => ReadThroughout \subseteq Report
    /\ status # "stuck"

LEMMA ReportableInv ==
  ASSUME \A a \in Apps : ReadAsMeant(a.groupFilter)
  PROVE  IInv /\ Sourced /\ Complete /\ Sound => Reportable
<1> SUFFICES ASSUME IInv, Sourced, Complete, Sound PROVE Reportable
  OBVIOUS
<1>1. app \in Apps /\ TypeOK /\ status # "stuck" /\ steady \subseteq Groups
  BY DEF IInv, TypeOK, Position
<1>2. \A g \in Groups : \A x \in EverRead(g) : ReadFor(x, g) \subseteq ReadOnce
  BY DEF ReadOnce
<1>3. \A g \in steady : name[g] \in Names => OktaReading(name[g]) \subseteq EverRead(g)
  BY <1>1 DEF OktaReading, EverRead, IInv, Blamed
<1>4. ReadThroughout \subseteq ReadOnce
  BY <1>1, <1>2, <1>3 DEF ReadThroughout
<1>5. ASSUME NEW g \in Groups, NEW x \in EverRead(g)
      PROVE  ReadFor(x, g) \subseteq Facts /\ x = <<x[1], x[2]>>
  <2>1. x \in Accounts \X Segments /\ x = <<x[1], x[2]>>
    BY <1>5, OktaReadingTypes DEF EverRead
  <2> QED
    BY <2>1 DEF ReadFor, Facts
<1>6. ReadOnce \subseteq Facts
  <2>1. OfProvider \subseteq Facts
    BY SyncAssumption DEF SyncAssumption, OfProvider, Facts
  <2> QED
    BY <1>5, <2>1 DEF ReadOnce
<1>7. ASSUME NEW a \in accounts PROVE <<a>> \in ReadOnce
  <2>1. CASE \E g \in Groups : \E x \in EverRead(g) : a = x[1]
    BY <1>2, <2>1 DEF ReadFor
  <2>2. CASE ~mapped /\ a = app.identityProviderArn
    BY <1>1, <2>2 DEF ReadOnce, OfProvider, TypeOK
  <2> QED
    BY <1>1, <1>7, <2>1, <2>2, SeenIsRead DEF Sourced
<1>8. ASSUME NEW x \in entitlements PROVE x \in ReadOnce
  <2>1. CASE \E g \in Groups : x \in EverRead(g)
    BY <1>2, <2>1 DEF ReadFor
  <2>2. CASE ~mapped /\ x[2] \in SamlRoles
    <3>1. x \in Accounts \X Segments
      BY <1>1 DEF TypeOK
    <3> QED
      BY <2>2, <3>1 DEF ReadOnce, OfProvider
  <2> QED
    BY <2>1, <2>2 DEF Sound
<1>9. ASSUME NEW x \in grants PROVE x \in ReadOnce
  <2>1. x \in Accounts \X Segments \X Groups
    BY <1>1 DEF TypeOK
  <2> DEFINE y == <<x[1], x[2]>>
  <2>2. x[3] \in Groups /\ x = <<y[1], y[2], x[3]>>
    BY <2>1
  <2>3. y \in EverRead(x[3])
    BY DEF Sound
  <2> HIDE DEF y
  <2> QED
    BY <1>2, <2>2, <2>3 DEF ReadFor
<1>10. ASSUME status = "done", mapped, NEW g \in steady, name[g] \in Names,
              NEW x \in OktaReading(name[g])
       PROVE  ReadFor(x, g) \subseteq Report
  BY <1>10 DEF Complete, ReadFor, Report
<1>11. status = "done" => ReadThroughout \subseteq Report
  BY <1>10 DEF ReadThroughout
<1> QED
  BY <1>1, <1>4, <1>6, <1>7, <1>8, <1>9, <1>11 DEF Reportable, Report

LEMMA ReportInit == Init /\ Reportable => Published!Init
  BY DEF Init, Reportable, Report, Facts, Published!Init

LEMMA ReportStep ==
  ASSUME IInv, Reportable, Reportable', [Next]_vars
  PROVE  [Published!Next]_Published!vars
<1>1. UNCHANGED okta => ReadThroughout' = ReadThroughout /\ ReadOnce' = ReadOnce
  BY DEF okta, ReadThroughout, ReadOnce, ReadFor, OktaReading, EverRead, OfProvider
<1>2. UNCHANGED <<accounts, entitlements, grants>> => Report' = Report
  BY DEF Report
<1>3. CASE UNCHANGED <<okta, accounts, entitlements, grants, status>>
  BY <1>1, <1>2, <1>3 DEF Published!vars
<1>4. CASE /\ UNCHANGED okta /\ status = "running"
           /\ accounts \subseteq accounts' /\ entitlements \subseteq entitlements'
           /\ grants \subseteq grants' /\ status' \in {"running", "done", "stuck"}
  <2>1. Report \subseteq Report'
    BY <1>4 DEF Report
  <2> QED
    BY <1>1, <1>4, <2>1 DEF Published!Next, Published!Publish, Reportable
<1>5. CASE /\ UNCHANGED <<okta, accounts, entitlements, grants>>
           /\ status = "running" /\ status' = "failed"
  BY <1>1, <1>2, <1>5 DEF Published!Next, Published!GiveUp
<1>6. CASE UNCHANGED <<accounts, entitlements, grants, status>>
  <2>1. ReadThroughout' \subseteq ReadThroughout
    <3>1. \A g \in steady' : OktaReading(name[g])' = OktaReading(name[g])
      BY SeenStays DEF OktaReading
    <3> QED
      BY <3>1, SeenStays DEF ReadThroughout, ReadFor
  <2>2. ReadOnce \subseteq ReadOnce'
    <3>1. \A g \in Groups : EverRead(g) \subseteq EverRead(g)'
      BY SeenStays DEF EverRead
    <3>2. OfProvider' = OfProvider
      BY SeenStays DEF OfProvider
    <3> QED
      BY <3>1, <3>2, SeenStays DEF ReadOnce, ReadFor
  <2>3. ReadOnce' \subseteq Facts
    BY DEF Reportable, Facts
  <2> QED
    BY <1>2, <1>6, <2>1, <2>2, <2>3 DEF Published!Next, Published!Change, Facts
<1> QED
  BY <1>3, <1>4, <1>5, <1>6, StepKinds

\* Where the filters that compile are read as Okta means them, the three paged
\* listings are one report that only grows, by what was in the names, and is
\* whole when the sync ends well.
THEOREM ReportImplemented ==
  ASSUME \A a \in Apps : ReadAsMeant(a.groupFilter)
  PROVE  Spec => ImplementsReport
<1>1. Init => Sourced
  BY DEF Init, Sourced
<1>2. IInv /\ Sourced /\ [Next]_vars => Sourced'
  BY SourcedStep
<1>3. IInv /\ Sourced /\ Complete /\ Sound => Reportable
  BY ReportableInv
<1>4. Init /\ Reportable => Published!Init
  BY ReportInit
<1>5. IInv /\ Reportable /\ Reportable' /\ [Next]_vars => [Published!Next]_Published!vars
  BY ReportStep
<1>6. Spec => []Complete
  BY NothingLeftOut DEF ReadAsMeant
<1>7. Spec => []Sound
  BY NothingMadeUp DEF ReadAsMeant
<1> QED
  BY <1>1, <1>2, <1>3, <1>4, <1>5, <1>6, <1>7, SyncInvariant, PTL
  DEF Spec, ImplementsReport, Published!Spec
=============================================================================
