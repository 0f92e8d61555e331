----------------------------- MODULE MCGrantSync -----------------------------
(* Instances of GrantSync for TLC: up to three users, three groups. *)
EXTENDS GrantSync

CONSTANTS r1, r2

\* The two settings that decide how users are read, and group mapping.
Separate == [joinAllRoles |-> FALSE, samlRolesUnionEnabled |-> FALSE,
             useGroupMapping |-> FALSE]
Joined   == [Separate EXCEPT !.joinAllRoles = TRUE]
Union    == [Separate EXCEPT !.samlRolesUnionEnabled = TRUE]
Mapped   == [Separate EXCEPT !.useGroupMapping = TRUE]

AllConfigurations == {Separate, Joined, Union, Mapped}
SeparateOnly      == {Separate}

\* Group 1 is named for r1 and group 3 for r2 in this account.
Names == [g \in Groups |-> IF g = 1 THEN {r1} ELSE IF g = 3 THEN {r2} ELSE {}]

\* Groups 1 and 2 give one role each, group 3 both; one user is in all three
\* groups and one only in the second.  Any of the groups may be assigned to
\* the app, and any of the users directly.
AllWorlds ==
    {[appGroups |-> A, direct |-> D, gone |-> {},
      groupRoles |-> [g \in Groups |-> IF g = 1 THEN {r1} ELSE IF g = 2 THEN {r2} ELSE {r1, r2}],
      own |-> [u \in Users |-> IF u \in D THEN {r1} ELSE {}],
      member |-> [u \in Users |-> IF u = 1 THEN Groups ELSE {2}]] :
        A \in SUBSET Groups, D \in SUBSET Users}

\* No user has an assignment of his own.
ThroughGroups == {w \in AllWorlds : w.direct = {}}
=============================================================================
