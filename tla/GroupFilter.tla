----------------------------- MODULE GroupFilter -----------------------------
(***************************************************************************)
(* The group filter of the Okta app, a regular expression with a group     *)
(* (?{{accountid}}...) and a group (?{{role}}...), as Okta means it and as  *)
(* the connector rewrites and reads it (connector.go, aws_account.go).     *)
(*                                                                         *)
(* A group's name is the sequence of texts at the places where a filter of *)
(* the same length captures; what stands between them fits the filter.     *)
(***************************************************************************)
EXTENDS Naturals, Sequences, FiniteSets

CONSTANTS
    Segments,       \* texts a name may have at a capture
    Digits,         \* those of digits
    Words,          \* those of letters, digits, "_" and "-"
    Long            \* those of two characters or more

ASSUME FilterAssumption ==
    Digits \subseteq Words /\ Words \subseteq Segments /\ Long \subseteq Segments

\* What is captured, left to right, and the pattern the role is given in the
\* app: [\w\-]+, or that of the connector, [a-zA-Z0-9+=,.@\-_]+.
Filter == [captures : Seq({"accountid", "role", "other"}), role : {"word", "name"}]
Name   == Seq(Segments)

Places(f, c) == {i \in DOMAIN f.captures : f.captures[i] = c}

\* Okta: each text fits the pattern of its place, wherever that is.
OktaReads(f, n) ==
    LET fits(i) == CASE f.captures[i] = "accountid" -> n[i] \in Digits
                     [] f.captures[i] = "role" -> f.role = "name" \/ n[i] \in Words
                     [] OTHER -> TRUE
    IN {<<n[i], n[j]>> : i \in {k \in Places(f, "accountid") :
                                  Len(n) = Len(f.captures) /\ \A h \in DOMAIN n : fits(h)},
                         j \in Places(f, "role")}

\* The connector puts \d+ and its role pattern in front of the group's own, in
\* the first group of each name; the second of a name keeps the text (?{{ and
\* the expression does not compile.
Broken(f) == \E c \in {"accountid", "role"} : Cardinality(Places(f, c)) > 1

\* Both patterns ask for a character, so the text must have two.
Fits(c, s) == CASE c = "accountid" -> s \in Digits \cap Long
                [] c = "role" -> s \in Long
                [] OTHER -> TRUE

Matches(f, n) ==
    /\ Len(f.captures) = 2 /\ Len(n) = 2
    /\ \A i \in DOMAIN n : Fits(f.captures[i], n[i])

\* (Faulty variant: any name with two captures, whatever their patterns.)
ReadingLoose(f, n) ==
    IF Len(f.captures) = 2 /\ Len(n) = 2 THEN {<<n[1], n[2]>>} ELSE {}

\* parseAccountIDAndRoleFromGroupName: with two captures, the first one is the
\* account and the second one the role.
Reading(f, n) == IF Matches(f, n) THEN {<<n[1], n[2]>>} ELSE {}
=============================================================================
