--------------------------- MODULE MCProvisioning ---------------------------
(* Instances of Provisioning for TLC: one user, in one or two groups, or none. *)
EXTENDS Provisioning, TLC

CONSTANTS u1, g1, g2, r1, r2, w1, w2

OneGroup  == {g1}
TwoGroups == {g1, g2}
InAllGroups == [u \in Users |-> Groups]

\* The roles are interchangeable where DefaultRoles names none, and so are the
\* slots.
Symmetry     == Permutations(Roles) \cup Permutations(Workers)
SlotSymmetry == Permutations(Workers)

\* Direct assignments are refused, or merged with the groups' roles; the union
\* of the groups' roles is what Okta shows, or one group's are.
Converting == [joinAllRoles |-> TRUE, samlRolesUnionEnabled |-> FALSE,
               useGroupMapping |-> FALSE, allowConversion |-> TRUE]
Refusing   == [Converting EXCEPT !.allowConversion = FALSE]
Hiding     == [Converting EXCEPT !.joinAllRoles = FALSE]
Union      == [Hiding EXCEPT !.samlRolesUnionEnabled = TRUE]
Mapping    == [Converting EXCEPT !.useGroupMapping = TRUE]

AllConfigurations == {Converting, Refusing, Hiding, Union, Mapping}
ConvertingOnly    == {Converting}

\* Assignments begin with one role each; a user's with one and a group's with
\* one or both; a group's with none, or with all, and no user has one.
OneRole  == {{r1}, {r2}}
OneRoleEach == [p \in Principals |-> IF p \in Users THEN OneRole
                                     ELSE IF p = g1 THEN {{r1}} ELSE {{r2}}]
OneOrBoth   == [p \in Principals |-> IF p \in Users THEN OneRole ELSE {{r2}, Roles}]
BareGroups  == [p \in Principals |-> IF p \in Users THEN {} ELSE {{}}]
FullGroups  == [p \in Principals |-> IF p \in Users THEN {} ELSE {Roles}]

AnyFault == FaultKinds
NoFault  == {}
=============================================================================
