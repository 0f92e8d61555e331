---------------------------- MODULE MCAccountSync ----------------------------
(* Instances of AccountSync for TLC: three groups, pages of two. *)
EXTENDS AccountSync

CONSTANTS a1, a2, admin, dev, q, odd    \* texts: two account IDs, four roles

AllTexts == {a1, a2, admin, dev, q, odd}
Numbers  == {a1, a2}
WordsOf  == AllTexts \ {odd}            \* odd: "a.b"
LongOf   == AllTexts \ {q}              \* q: one character

\* aws_(?{{accountid}}\d+)_(?{{role}}[a-zA-Z0-9+=,.@\-_]+), one that
\* names a group twice, and that of aws#[account alias]#[role name]#[account #].
AccountFirst == [captures |-> <<"accountid", "role">>, role |-> "name"]
Twice   == [captures |-> <<"accountid", "role", "role">>, role |-> "name"]
RoleFirst == [captures |-> <<"role", "accountid">>, role |-> "word"]

SomeFilters == {AccountFirst, Twice, RoleFirst}

MappedApp == [aws |-> TRUE, malformed |-> {}, useGroupMapping |-> TRUE,
              joinAllRoles |-> FALSE, groupFilter |-> AccountFirst,
              identityProviderArn |-> a1, union |-> "absent"]
OwnApp == [MappedApp EXCEPT !.useGroupMapping = FALSE]

\* With and without group mapping, and what is refused.
AnyApps == {MappedApp, OwnApp,
            [MappedApp EXCEPT !.identityProviderArn = NoAccount],
            [MappedApp EXCEPT !.malformed = {"joinAllRoles"}],
            [OwnApp EXCEPT !.union = "malformed"],
            [MappedApp EXCEPT !.groupFilter = Twice]}
RoleFirstApp == {[MappedApp EXCEPT !.groupFilter = RoleFirst]}

SomeNames == {<<a1, admin>>, <<a2, dev>>, <<a1, q>>, <<admin, a1>>}
RoleFirstNames == {<<admin, a1>>, <<dev, a2>>, <<odd, a1>>}

\* The first two groups are there, the third may be made.
Beginnings == {f \in [Groups -> SomeNames \cup {NoGroup, Nameless}] :
                 /\ f[1] \in {<<a1, admin>>, <<a2, dev>>, Nameless}
                 /\ f[2] \in {<<a1, q>>, <<a1, admin>>, <<admin, a1>>}
                 /\ f[3] \in {NoGroup, <<a2, dev>>, <<a1, admin>>}}
RoleFirstBeginnings == [Groups -> RoleFirstNames]
=============================================================================
