------------------------------- MODULE Paging --------------------------------
(***************************************************************************)
(* A listing of Okta, read page by page.  What is listed are numbers, in   *)
(* the order of their Okta IDs; the "after" cursor is the last one listed, *)
(* and 0 the empty cursor, of the first page and of no further one.        *)
(***************************************************************************)
EXTENDS Naturals, FiniteSets

CONSTANT PageSize           \* Okta's page (limit 1000)

ASSUME PageAssumption == PageSize \in Nat \ {0}

\* A page: the first members of S after the cursor k.
PageOf(S, k) ==
    LET Rest == {x \in S : x > k} IN
    {x \in Rest : Cardinality({y \in Rest : y < x}) < PageSize}

More(S, k) == {x \in S : x > k} # PageOf(S, k)

Greatest(P) == CHOOSE x \in P : \A y \in P : y <= x

\* (Faulty variants: the cursor of the page just read; one past the last.)
NextPageSame(S, k) == IF More(S, k) THEN k ELSE 0
NextPagePast(S, k) == IF More(S, k) THEN Greatest(PageOf(S, k)) + 1 ELSE 0

\* The "next" link of a page: the last one listed, if more follow.
NextPage(S, k) == IF More(S, k) THEN Greatest(PageOf(S, k)) ELSE 0
=============================================================================
