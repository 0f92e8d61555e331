---------------------------- MODULE PagingProofs ----------------------------
(***************************************************************************)
(* Lemmas about a listing that is read page by page (Paging): for a finite *)
(* listing, any cursor and any size of page, the next cursor is 0 or lies  *)
(* beyond the last one, and nothing is left out between the two.           *)
(***************************************************************************)
EXTENDS Paging, FiniteSetTheorems, WellFoundedInduction, TLAPS

\* A nonempty set of naturals has a least member.
LEMMA LeastExists ==
  ASSUME NEW S \in SUBSET Nat, S # {}
  PROVE  \E x \in S : \A y \in S : x <= y
<1> DEFINE R == OpToRel(<, Nat)
<1>1. PICK x \in S : \A y \in S : ~(<<y, x>> \in R)
  BY NatLessThanWellFounded, WFMin
<1>2. \A y \in S : ~(y < x)
  BY <1>1 DEF OpToRel
<1> QED
  BY <1>2

\* ... and a greatest one, if it is bounded.
LEMMA GreatestExists ==
  ASSUME NEW n \in Nat, NEW S \in SUBSET (0 .. n), S # {}
  PROVE  \E x \in S : \A y \in S : y <= x
<1> DEFINE T == {m \in Nat : \E y \in S : m = n - y}
<1>1. T # {}
  <2>1. PICK y \in S : TRUE
    OBVIOUS
  <2>2. n - y \in Nat
    BY <2>1
  <2> QED
    BY <2>1, <2>2
<1>2. PICK m \in T : \A k \in T : m <= k
  BY <1>1, LeastExists
<1>3. PICK x \in S : m = n - x
  OBVIOUS
<1>4. ASSUME NEW y \in S PROVE y <= x
  <2>1. n - y \in T
    OBVIOUS
  <2>2. m <= n - y
    BY <1>2, <2>1
  <2> QED
    BY <1>3, <2>2
<1> QED
  BY <1>4

\* Whoever is listed before a member of the page is on the page too.
LEMMA PageHasNoGaps ==
  ASSUME NEW n \in Nat, NEW S \in SUBSET (1 .. n), NEW k \in Nat,
         NEW y \in PageOf(S, k), NEW x \in S, x > k, x <= y
  PROVE  x \in PageOf(S, k)
<1> USE PageAssumption DEF PageAssumption
<1> DEFINE Rest == {z \in S : z > k}
           Below(z) == {v \in Rest : v < z}
<1>1. y \in Rest /\ Cardinality(Below(y)) < PageSize
  BY DEF PageOf
<1>2. IsFiniteSet(1 .. n)
  BY FS_Interval
<1>3. IsFiniteSet(Below(y))
  <2>1. Below(y) \in SUBSET (1 .. n)
    OBVIOUS
  <2> QED
    BY <1>2, <2>1, FS_Subset
<1>4. Below(x) \in SUBSET Below(y)
  <2> SUFFICES ASSUME NEW v \in S, v < x PROVE v < y
    OBVIOUS
  <2>1. v \in Nat /\ x \in Nat /\ y \in Nat
    BY <1>1
  <2> QED
    BY <2>1
<1>5. IsFiniteSet(Below(x)) /\ Cardinality(Below(x)) <= Cardinality(Below(y))
  BY <1>3, <1>4, FS_Subset
<1>6. Cardinality(Below(x)) \in Nat /\ Cardinality(Below(y)) \in Nat
  BY <1>3, <1>5, FS_CardinalityType
<1>7. Cardinality(Below(x)) < PageSize
  BY <1>1, <1>5, <1>6
<1> QED
  BY <1>7 DEF PageOf

\* A page is empty only if nothing is left.
LEMMA PageIsEmptyLast ==
  ASSUME NEW n \in Nat, NEW S \in SUBSET (1 .. n), NEW k \in Nat,
         PageOf(S, k) = {}
  PROVE  {x \in S : x > k} = {}
<1> USE PageAssumption DEF PageAssumption
<1> DEFINE Rest == {z \in S : z > k}
<1> SUFFICES ASSUME Rest # {} PROVE FALSE
  OBVIOUS
<1>0. Rest \in SUBSET Nat
  <2>1. \A x \in S : x \in Nat
    OBVIOUS
  <2> QED
    BY <2>1
<1>1. PICK x \in Rest : \A y \in Rest : x <= y
  BY <1>0, LeastExists
<1>2. {y \in Rest : y < x} = {}
  BY <1>0, <1>1
<1>3. Cardinality({y \in Rest : y < x}) = 0
  BY <1>2, FS_EmptySet
<1>4. x \in PageOf(S, k)
  BY <1>3 DEF PageOf
<1> QED
  BY <1>4

\* The next cursor is 0, with everything listed, or lies on the page, with
\* everything listed up to it.
THEOREM NextPageSound ==
  ASSUME NEW n \in Nat, NEW S \in SUBSET (1 .. n), NEW k \in Nat
  PROVE  /\ PageOf(S, k) \subseteq {x \in S : x > k}
         /\ NextPage(S, k) \in 0 .. n
         /\ NextPage(S, k) # 0 => NextPage(S, k) > k /\ NextPage(S, k) \in PageOf(S, k)
         /\ \A x \in S : x > k /\ (NextPage(S, k) = 0 \/ x <= NextPage(S, k))
                           => x \in PageOf(S, k)
<1> DEFINE P == PageOf(S, k)
<1>1. P \subseteq {x \in S : x > k}
  BY DEF PageOf
<1>2. CASE ~More(S, k)
  BY <1>1, <1>2 DEF NextPage, More
<1>3. CASE More(S, k)
  <2>1. P # {}
    BY <1>1, <1>3, PageIsEmptyLast DEF More
  <2>2. P \in SUBSET (0 .. n)
    <3>1. \A x \in S : x \in 0 .. n
      OBVIOUS
    <3> QED
      BY <1>1, <3>1
  <2>3. \E x \in P : \A y \in P : y <= x
    BY <2>1, <2>2, GreatestExists
  <2>4. Greatest(P) \in P
    BY <2>3 DEF Greatest
  <2>5. NextPage(S, k) = Greatest(P)
    BY <1>3 DEF NextPage
  <2>6. Greatest(P) \in 1 .. n /\ Greatest(P) > k
    BY <1>1, <2>4
  <2>7. ASSUME NEW x \in S, x > k, x <= Greatest(P) PROVE x \in P
    BY <2>4, <2>7, PageHasNoGaps
  <2> QED
    BY <1>1, <2>4, <2>5, <2>6, <2>7
<1> QED
  BY <1>2, <1>3
=============================================================================
