----------------------------- MODULE AppSettings -----------------------------
(***************************************************************************)
(* The settings the connector reads from the Okta app and from the schema  *)
(* of its users (getAWSApplicationConfig in pkg/connector/connector.go).   *)
(***************************************************************************)
CONSTANTS
    Filters, Accounts,
    NoSettings, NoAccount

Fields == {"useGroupMapping", "groupFilter", "joinAllRoles", "identityProviderArn"}

\* What Okta holds.  "aws": a SAML application with "aws" in its name and
\* settings; "malformed": the fields that are absent or of the wrong type;
\* NoAccount: an identityProviderArn that is no ARN; "union": that of samlRoles
\* in the schema.
App == [aws : BOOLEAN, malformed : SUBSET Fields,
        useGroupMapping : BOOLEAN, joinAllRoles : BOOLEAN, groupFilter : Filters,
        identityProviderArn : Accounts \cup {NoAccount},
        union : {"ENABLE", "DISABLE", "absent", "malformed"}]

\* What the connector keeps of it.
Settings == [UseGroupMapping : BOOLEAN, JoinAllRoles : BOOLEAN, RoleRegex : Filters,
             IdentityProviderArnAccountID : Accounts, SamlRolesUnionEnabled : BOOLEAN]

\* (Faulty variant: the ARN is not looked at where groups are mapped.)
AcceptedArnUnread(a) ==
    a.aws /\ a.malformed = {} /\ a.union # "malformed"
    /\ (a.useGroupMapping \/ a.identityProviderArn # NoAccount)

\* Every field is needed, the ARN too where groups are mapped and it is unused.
Accepted(a) ==
    a.aws /\ a.malformed = {} /\ a.union # "malformed" /\ a.identityProviderArn # NoAccount

Parsed(a) ==
    IF ~Accepted(a) THEN NoSettings
    ELSE [UseGroupMapping |-> a.useGroupMapping, JoinAllRoles |-> a.joinAllRoles,
          RoleRegex |-> a.groupFilter,
          IdentityProviderArnAccountID |-> a.identityProviderArn,
          SamlRolesUnionEnabled |-> a.union = "ENABLE"]
=============================================================================
