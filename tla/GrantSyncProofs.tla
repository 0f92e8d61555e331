--------------------------- MODULE GrantSyncProofs ---------------------------
(***************************************************************************)
(* Proofs about GrantSync, for any users, groups, roles, sizes of page and *)
(* numbers of faults and changes.                                          *)
(*                                                                         *)
(* IInv says of the page token what has been reported when it is there:    *)
(* the groups up to its cursor, and of the users up to theirs, all but what *)
(* the users in the bag still wait for.  What rests on the set of app group *)
(* IDs is said of syncs in which that set is kept (SetKept).               *)
(***************************************************************************)
EXTENDS GrantSync, PagingProofs, SequenceTheorems

\* The set of app group IDs is neither dropped nor left unwritten: without it,
\* a set that is there may be that of some pages only.
SetKept == "appGroupIDSet" \notin LostWrites \cup Evictable

\* Where the sync is, and the bag of userGrants: the state of its next page, if
\* there is one, lies at the bottom.
Shape ==
    /\ token.phases \in IF conf.useGroupMapping THEN {<<>>, <<"group">>}
                        ELSE {<<>>, <<"user", "group">>, <<"user">>}
    /\ status = "running" /\ token.phases = <<>> => token = StartToken
    /\ status = "done" => token.phases = <<>>
    /\ status # "stuck"
    /\ pc # "idle" => status = "running"
    /\ token.phases # <<"user">> => token.bag = <<>>
    /\ \A i \in DOMAIN token.bag : token.bag[i].user = NoUser => i = 1
    /\ pc = "fetch" =>
         /\ token.phases = <<"user">> /\ token.bag # <<>>
         /\ Current.user # NoUser /\ Current.at <= at /\ at <= Cardinality(listed)

\* What the session remembers agrees with every reason that lasted.
Truthful ==
    /\ always \subseteq Reasons(world)
    /\ \A x \in always : x[2] # 0 => <<0, x[2], x[3]>> \in always
    /\ \A x \in always : x[1] = 0 /\ appGroup[x[2]] # NoEntry => x[3] \in appGroup[x[2]]
    /\ SetKept => NegativeTrue

\* The set of IDs is begun by the first page of several, and is never behind
\* the cursor.
SetInv ==
    SetKept =>
      /\ status = "running" /\ token.phases = <<>> => appGroupIDSet = NoEntry
      /\ token.phases = <<"user", "group">> =>
           /\ token.after # 0 /\ appGroupIDSet # NoEntry
           /\ \A x \in always : x[1] = 0 /\ x[2] <= token.after => x[2] \in appGroupIDSet
      /\ SetComplete

\* The pages have gone by group g, or by user u.
GroupPast(g) ==
    \/ status = "done" \/ token.phases = <<"user">>
    \/ token.phases # <<>> /\ g <= token.after

UserPast(u) ==
    \/ status = "done"
    \/ /\ token.phases = <<"user">> /\ token.bag # <<>>
       /\ token.bag[1].user = NoUser => u <= token.bag[1].at

\* How many members of S come before g.
Rank(S, g) == Cardinality({h \in S : h < g})

\* The user is in the bag, and group g of his is still to be looked up.
Waiting(u, g) ==
    \E i \in DOMAIN token.bag :
      token.bag[i].user = u /\ token.bag[i].at <= Rank(world.member[u], g)

GroupsReported ==
    \A x \in always : x[1] = 0 /\ GroupPast(x[2]) => <<"group", x[2], x[3]>> \in reported

UsersReported ==
    SetKept /\ ~conf.useGroupMapping =>
      \A x \in always :
        x[1] # 0 /\ x[1] \notin moved /\ UserPast(x[1]) =>
          Reported(x) \/ (x[2] # 0 /\ Waiting(x[1], x[2]))

\* The call that looks groups up has found what lasted in those it is past.
Gathered ==
    SetKept /\ pc = "fetch" /\ Current.user \notin moved =>
      /\ listed = world.member[Current.user]
      /\ \A x \in always :
           /\ x[1] = Current.user /\ x[2] \in listed
           /\ Current.at <= Rank(listed, x[2]) /\ Rank(listed, x[2]) < at
           => x[3] \in found

IInv ==
    /\ TypeOK /\ Shape /\ Truthful /\ SetInv
    /\ GroupsReported /\ UsersReported /\ Gathered

-----------------------------------------------------------------------------
(* The order of a user's groups. *)

LEMMA FiniteSets ==
  ASSUME NEW n \in Nat, NEW S \in SUBSET (1 .. n)
  PROVE  IsFiniteSet(S) /\ Cardinality(S) \in Nat /\ Cardinality(S) <= Cardinality(1 .. n)
<1>1. IsFiniteSet(1 .. n)
  BY FS_Interval
<1> QED
  BY <1>1, FS_Subset, FS_CardinalityType

LEMMA RankType ==
  ASSUME NEW n \in Nat, NEW S \in SUBSET (1 .. n), NEW g \in S
  PROVE  Rank(S, g) \in Nat /\ Rank(S, g) < Cardinality(S)
<1> DEFINE B == {h \in S : h < g}
<1>1. IsFiniteSet(S) /\ Cardinality(S) \in Nat
  BY FiniteSets
<1>2. B \in SUBSET S /\ g \notin B
  OBVIOUS
<1>3. /\ IsFiniteSet(B) /\ Cardinality(B) <= Cardinality(S)
      /\ Cardinality(S) = Cardinality(B) => S = B
  BY <1>1, <1>2, FS_Subset
<1>4. Cardinality(B) \in Nat /\ S # B
  BY <1>2, <1>3, FS_CardinalityType
<1> QED
  BY <1>1, <1>3, <1>4 DEF Rank

LEMMA RankGrows ==
  ASSUME NEW n \in Nat, NEW S \in SUBSET (1 .. n), NEW g \in S, NEW h \in S, g < h
  PROVE  Rank(S, g) < Rank(S, h)
<1> DEFINE B == {k \in S : k < h}
<1>1. \A k \in S : k \in Nat
  OBVIOUS
<1>2. B \in SUBSET (1 .. n) /\ g \in B
  OBVIOUS
<1>3. Rank(B, g) < Cardinality(B)
  BY <1>2, RankType
<1>4. {k \in B : k < g} = {k \in S : k < g}
  <2> SUFFICES ASSUME NEW k \in S, k < g PROVE k < h
    OBVIOUS
  <2>1. k \in Nat /\ g \in Nat /\ h \in Nat
    BY <1>1
  <2> QED
    BY <2>1
<1> QED
  BY <1>3, <1>4 DEF Rank

LEMMA RankInjective ==
  ASSUME NEW n \in Nat, NEW S \in SUBSET (1 .. n), NEW g \in S, NEW h \in S,
         Rank(S, g) = Rank(S, h)
  PROVE  g = h
<1>1. g \in Nat /\ h \in Nat
  OBVIOUS
<1>2. Rank(S, g) \in Nat /\ Rank(S, h) \in Nat
  BY RankType
<1>3. ~(g < h)
  <2>1. g < h => Rank(S, g) < Rank(S, h)
    BY RankGrows
  <2> QED
    BY <1>2, <2>1
<1>4. ~(h < g)
  <2>1. h < g => Rank(S, h) < Rank(S, g)
    BY RankGrows
  <2> QED
    BY <1>2, <2>1
<1> QED
  BY <1>1, <1>3, <1>4

\* A set of as many numbers as an injection has arguments is covered by it.
LEMMA RankOnto ==
  ASSUME NEW n \in Nat, NEW S \in SUBSET (1 .. n), NEW k \in Nat, k < Cardinality(S)
  PROVE  \E g \in S : Rank(S, g) = k
<1> DEFINE c == Cardinality(S)
           f == [g \in S |-> Rank(S, g)]
<1>1. IsFiniteSet(S) /\ c \in Nat
  BY FiniteSets
<1>2. IsFiniteSet(0 .. (c - 1)) /\ Cardinality(0 .. (c - 1)) = c
  <2>1. c - 1 \in Int /\ 0 \in Int
    BY <1>1
  <2>2. /\ IsFiniteSet(0 .. (c - 1))
        /\ Cardinality(0 .. (c - 1)) = IF 0 > c - 1 THEN 0 ELSE (c - 1) - 0 + 1
    BY <2>1, FS_Interval
  <2> QED
    BY <1>1, <2>2
<1>3. f \in [S -> 0 .. (c - 1)]
  <2>1. \A g \in S : Rank(S, g) \in Nat /\ Rank(S, g) < c
    BY RankType
  <2>2. \A g \in S : Rank(S, g) \in 0 .. (c - 1)
    BY <1>1, <2>1
  <2> QED
    BY <2>2
<1>4. f \in Injection(S, 0 .. (c - 1))
  BY <1>3, RankInjective DEF Injection, IsInjective
<1>5. f \in Surjection(S, 0 .. (c - 1))
  BY <1>2, <1>4, FS_Injection
<1>6. k \in 0 .. (c - 1)
  BY <1>1
<1>7. \E g \in S : f[g] = k
  BY <1>5, <1>6 DEF Surjection
<1> QED
  BY <1>7

LEMMA GroupAt ==
  ASSUME TypeOK, Fetching
  PROVE  Group \in listed /\ Group \in Groups /\ Rank(listed, Group) = at
<1>1. NumGroups \in Nat /\ listed \in SUBSET (1 .. NumGroups) /\ at \in Nat
  BY SyncAssumption DEF SyncAssumption, TypeOK, Groups
<1>2. \E g \in listed : Rank(listed, g) = at
  BY <1>1, RankOnto DEF Fetching
<1> QED
  BY <1>1, <1>2 DEF Group, Rank, Groups

-----------------------------------------------------------------------------
(* Page tokens. *)

LEMMA BagEnds ==
  ASSUME NEW S, NEW s \in Seq(S), s # <<>>
  PROVE  /\ Len(s) \in Nat \ {0} /\ DOMAIN s = 1 .. Len(s)
         /\ Last(s) = s[Len(s)] /\ Last(s) \in S
         /\ Front(s) \in Seq(S) /\ Len(Front(s)) = Len(s) - 1
         /\ DOMAIN Front(s) = 1 .. (Len(s) - 1)
         /\ \A i \in 1 .. (Len(s) - 1) : Front(s)[i] = s[i]
<1>1. Len(s) \in Nat \ {0} /\ DOMAIN s = 1 .. Len(s)
  BY EmptySeq, LenProperties
<1>2. \A i \in 1 .. Len(s) : s[i] \in S
  BY ElementOfSeq
<1>3. Last(s) = s[Len(s)] /\ Last(s) \in S
  BY <1>1, <1>2 DEF Last
<1>4. Front(s) = SubSeq(s, 1, Len(s) - 1)
  BY DEF Front
<1>5. /\ Front(s) \in Seq(S) /\ Len(Front(s)) = Len(s) - 1
      /\ \A i \in 1 .. (Len(s) - 1) : Front(s)[i] = s[i]
  <2>1. 1 \in Int /\ Len(s) - 1 \in Int /\ \A i \in 1 .. (Len(s) - 1) : s[i] \in S
    BY <1>1, <1>2
  <2>2. /\ Front(s) \in Seq(S)
        /\ Len(Front(s)) = IF 1 <= Len(s) - 1 THEN (Len(s) - 1) - 1 + 1 ELSE 0
        /\ \A i \in 1 .. ((Len(s) - 1) - 1 + 1) : Front(s)[i] = s[1 + i - 1]
    BY <1>4, <2>1, SubSeqProperties
  <2>3. Len(Front(s)) = Len(s) - 1
    <3>1. CASE Len(s) = 1
      <4>1. ~(1 <= Len(s) - 1) /\ Len(s) - 1 = 0
        BY <3>1
      <4> QED
        BY <2>2, <4>1
    <3>2. CASE Len(s) > 1
      <4>1. 1 <= Len(s) - 1 /\ (Len(s) - 1) - 1 + 1 = Len(s) - 1
        BY <1>1, <3>2
      <4> QED
        BY <2>2, <4>1
    <3>3. Len(s) = 1 \/ Len(s) > 1
      <4>1. \A n \in Nat \ {0} : n = 1 \/ n > 1
        OBVIOUS
      <4> QED
        BY <1>1, <4>1
    <3> QED
      BY <3>1, <3>2, <3>3
  <2>4. ASSUME NEW i \in 1 .. (Len(s) - 1) PROVE Front(s)[i] = s[i]
    <3>1. i \in 1 .. ((Len(s) - 1) - 1 + 1) /\ 1 + i - 1 = i
      BY <1>1
    <3> QED
      BY <2>2, <3>1
  <2> QED
    BY <2>2, <2>3, <2>4
<1>6. DOMAIN Front(s) = 1 .. (Len(s) - 1)
  BY <1>5, LenProperties
<1> QED
  BY <1>1, <1>3, <1>5, <1>6

LEMMA Ends ==
  /\ Last(<<"group">>) = "group" /\ Front(<<"group">>) = <<>>
  /\ Last(<<"user">>) = "user" /\ Front(<<"user">>) = <<>>
  /\ Last(<<"user", "group">>) = "group" /\ Front(<<"user", "group">>) = <<"user">>
<1>1. Front(<<"group">>) = <<>> /\ Front(<<"user">>) = <<>>
  BY DEF Front
<1>2. Front(<<"user", "group">>) = <<"user">>
  <2> DEFINE S == {"user", "group"}
             s == <<"user", "group">>
  <2>1. s \in Seq(S) /\ s # <<>> /\ Len(s) = 2 /\ <<"user">> \in Seq(S) /\ Len(<<"user">>) = 1
    OBVIOUS
  <2>2. Front(s) \in Seq(S) /\ Len(Front(s)) = 1 /\ Front(s)[1] = "user"
    <3>1. /\ Front(s) \in Seq(S) /\ Len(Front(s)) = Len(s) - 1
          /\ \A i \in 1 .. (Len(s) - 1) : Front(s)[i] = s[i]
      BY <2>1, BagEnds
    <3>2. 1 \in 1 .. (Len(s) - 1) /\ Len(s) - 1 = 1 /\ s[1] = "user"
      BY <2>1
    <3> QED
      BY <3>1, <3>2
  <2>3. \A i \in 1 .. Len(Front(s)) : Front(s)[i] = <<"user">>[i]
    BY <2>2
  <2> QED
    BY <2>1, <2>2, <2>3, SeqEqual
<1> QED
  BY <1>1, <1>2 DEF Last

\* What the next token is, in the phase of the groups ...
LEMMA NextGroupsIs ==
  ASSUME TypeOK, Shape, Phase = "group", NEW k \in Nat
  PROVE  /\ NextGroups(k) \in Token
         /\ NextGroups(k).after = k /\ NextGroups(k).bag = <<>> /\ token.bag = <<>>
         /\ token.phases \in IF conf.useGroupMapping THEN {<<>>, <<"group">>}
                                                    ELSE {<<>>, <<"user", "group">>}
         /\ NextGroups(k).phases =
              IF conf.useGroupMapping THEN (IF k = 0 THEN <<>> ELSE <<"group">>)
                                      ELSE (IF k = 0 THEN <<"user">> ELSE <<"user", "group">>)
<1>1. token \in Token
  BY DEF TypeOK
<1>2. token.phases # <<"user">>
  <2>1. token.phases = <<"user">> => Phase = "user"
    BY Ends DEF Phase, Bag
  <2> QED
    BY <2>1
<1>3. token.phases \in IF conf.useGroupMapping THEN {<<>>, <<"group">>}
                                              ELSE {<<>>, <<"user", "group">>}
  BY <1>2 DEF Shape
<1>4. token.bag = <<>>
  BY <1>2 DEF Shape
<1>5. Bag = [phases |-> IF conf.useGroupMapping THEN <<"group">> ELSE <<"user", "group">>,
             after |-> token.after, bag |-> <<>>]
  <2>1. token = [phases |-> token.phases, after |-> token.after, bag |-> <<>>]
    BY <1>1, <1>4 DEF Token
  <2>2. CASE token.phases = <<>>
    BY <2>1, <2>2 DEF Bag
  <2>3. CASE token.phases # <<>>
    BY <1>3, <2>1, <2>3 DEF Bag
  <2> QED
    BY <2>2, <2>3
<1>6. NextGroups(k) = [phases |-> IF conf.useGroupMapping THEN (IF k = 0 THEN <<>> ELSE <<"group">>)
                                  ELSE (IF k = 0 THEN <<"user">> ELSE <<"user", "group">>),
                       after |-> k, bag |-> <<>>]
  <2>1. CASE k = 0
    BY <1>5, <2>1, Ends DEF NextGroups
  <2>2. CASE k # 0
    BY <1>5, <2>2 DEF NextGroups
  <2> QED
    BY <2>1, <2>2
<1>7. <<>> \in Seq(Frame)
  BY EmptySeq
<1> QED
  BY <1>3, <1>4, <1>6, <1>7 DEF Token

\* ... and in that of the users.
LEMMA NextUsersIs ==
  ASSUME TypeOK, Shape, Phase = "user", NEW b \in Seq(Frame)
  PROVE  /\ token.phases = <<"user">> /\ ~conf.useGroupMapping
         /\ NextUsers(b) \in Token
         /\ NextUsers(b).bag = b /\ NextUsers(b).after = token.after
         /\ NextUsers(b).phases = IF b = <<>> THEN <<>> ELSE <<"user">>
<1>1. token \in Token
  BY DEF TypeOK
<1>2. token.phases = <<"user">> /\ ~conf.useGroupMapping
  <2>1. CASE token.phases = <<>>
    <3>1. Phase = "group"
      <4>1. Bag.phases \in {<<"group">>, <<"user", "group">>}
        BY <1>1, <2>1 DEF Bag, Token
      <4> QED
        BY <4>1, Ends DEF Phase
    <3> QED
      BY <3>1
  <2>2. CASE token.phases # <<>>
    <3>1. Phase = Last(token.phases)
      BY <2>2 DEF Phase, Bag
    <3> QED
      BY <2>2, <3>1, Ends DEF Shape
  <2> QED
    BY <2>1, <2>2
<1>3. Bag = token
  BY <1>2 DEF Bag
<1>4. NextUsers(b) = [phases |-> IF b = <<>> THEN <<>> ELSE <<"user">>,
                      after |-> token.after, bag |-> b]
  <2>1. token = [phases |-> <<"user">>, after |-> token.after, bag |-> token.bag]
    BY <1>1, <1>2 DEF Token
  <2>2. CASE b = <<>>
    <3>1. NextUsers(b) = [token EXCEPT !.phases = <<>>, !.bag = <<>>]
      BY <1>2, <1>3, <2>2, Ends DEF NextUsers
    <3> QED
      BY <2>1, <2>2, <3>1
  <2>3. CASE b # <<>>
    BY <1>3, <2>1, <2>3 DEF NextUsers
  <2> QED
    BY <2>2, <2>3
<1>5. token.after \in Nat
  BY <1>1 DEF Token
<1> QED
  BY <1>2, <1>4, <1>5 DEF Token

-----------------------------------------------------------------------------
(* Reasons. *)

LEMMA WorldIs ==
  ASSUME TypeOK
  PROVE  /\ world.appGroups \subseteq Groups /\ world.groupRoles \in [Groups -> SUBSET Roles]
         /\ world.direct \subseteq Users /\ world.own \in [Users -> SUBSET Roles]
         /\ world.member \in [Users -> SUBSET Groups]
         /\ conf \in Configuration
  BY SyncAssumption DEF SyncAssumption, TypeOK, World

LEMMA ReasonIs ==
  ASSUME NEW w, NEW x \in Reasons(w)
  PROVE  /\ x \in Reason /\ x = <<x[1], x[2], x[3]>>
         /\ x[1] = 0 => x[2] \in Groups /\ Gives(w, x[2], x[3])
         /\ x[1] # 0 /\ x[2] = 0 =>
              ~conf.useGroupMapping /\ x[1] \in w.direct /\ x[3] \in w.own[x[1]]
         /\ x[1] # 0 /\ x[2] # 0 =>
              /\ x[1] \in Users /\ x[2] \in Groups
              /\ x[2] \in w.member[x[1]] /\ Gives(w, x[2], x[3])
              /\ x[1] \notin w.direct \/ conf.joinAllRoles \/ conf.useGroupMapping
         /\ x[2] # 0 => <<0, x[2], x[3]>> \in Reasons(w)
<1>1. x \in Causes(w) /\ x \in Reason
  BY DEF Reasons, Causes
<1>2. x = <<x[1], x[2], x[3]>> /\ x[1] \in Users \cup {0} /\ x[2] \in Groups \cup {0} /\ x[3] \in Roles
  BY <1>1 DEF Reason
<1>3. x[1] = 0 => x[2] # 0 /\ Gives(w, x[2], x[3])
  BY <1>1 DEF Causes
<1>4. x[1] # 0 /\ x[2] = 0 =>
        ~conf.useGroupMapping /\ x[1] \in w.direct /\ x[3] \in w.own[x[1]]
  BY <1>1 DEF Causes
<1>5. x[1] # 0 /\ x[2] # 0 =>
        /\ x[2] \in w.member[x[1]] /\ Gives(w, x[2], x[3])
        /\ x[1] \notin w.direct \/ conf.joinAllRoles \/ conf.useGroupMapping
  BY <1>1 DEF Causes, Reasons
<1>6. x[2] # 0 => <<0, x[2], x[3]>> \in Reasons(w)
  <2> SUFFICES ASSUME x[2] # 0 PROVE <<0, x[2], x[3]>> \in Reasons(w)
    OBVIOUS
  <2> DEFINE y == <<0, x[2], x[3]>>
  <2>1. y \in Reason /\ y[1] = 0 /\ y[2] = x[2] /\ y[3] = x[3]
    BY <1>2 DEF Reason
  <2>2. Gives(w, y[2], y[3])
    BY <1>3, <1>5, <2>1
  <2> QED
    BY <2>1, <2>2 DEF Reasons, Causes
<1> QED
  BY <1>1, <1>2, <1>3, <1>4, <1>5, <1>6

-----------------------------------------------------------------------------
(* The inductive invariant. *)

LEMMA InitInv == Init => IInv
<1> SUFFICES ASSUME Init PROVE IInv
  OBVIOUS
<1> USE DEF Init
<1>1. StartToken \in Token /\ StartToken.phases = <<>> /\ StartToken.bag = <<>>
  <2>1. <<>> \in Seq(Frame)
    BY EmptySeq
  <2> QED
    BY <2>1 DEF StartToken, Token
<1>2. TypeOK
  <2>1. {NumUsers, NumGroups, LargeCollection, MaxFaults, MaxChanges} \subseteq Nat
        /\ Worlds \subseteq World
    BY SyncAssumption DEF SyncAssumption
  <2>2. Cardinality(Groups) \in Nat
    BY <2>1, FiniteSets DEF Groups
  <2>3. Reasons(world) \subseteq Reason /\ Causes(world) \subseteq Reason
    BY DEF Reasons, Causes
  <2>4. at \in 0 .. Cardinality(Groups) /\ faults \in 0 .. MaxFaults /\ changes \in 0 .. MaxChanges
    BY <2>1, <2>2
  <2> QED
    BY <1>1, <2>1, <2>3, <2>4 DEF TypeOK
<1>3. <<>> # <<"user">> /\ <<>> # <<"user", "group">> /\ <<>> # <<"group">>
  OBVIOUS
<1>4. Shape
  BY <1>1, <1>3 DEF Shape
<1>5. Truthful
  <2>1. \A x \in always : x[1] = 0 => x[2] \in Groups
    BY <1>2, ReasonIs
  <2>2. \A x \in always : x[2] # 0 => <<0, x[2], x[3]>> \in always
    BY <1>2, ReasonIs
  <2> QED
    BY <2>1, <2>2 DEF Truthful, NegativeTrue
<1>6. SetInv
  BY <1>1, <1>3 DEF SetInv, SetComplete
<1>7. \A g, u : ~GroupPast(g) /\ ~UserPast(u)
  BY <1>1, <1>3 DEF GroupPast, UserPast
<1>8. GroupsReported /\ UsersReported /\ Gathered
  BY <1>7 DEF GroupsReported, UsersReported, Gathered
<1> QED
  BY <1>2, <1>4, <1>5, <1>6, <1>8 DEF IInv

LEMMA FaultCounted == TypeOK /\ Faulty => faults' \in 0 .. MaxFaults
  BY SyncAssumption DEF SyncAssumption, TypeOK, Faulty

\* A call that ends with nothing committed.
LEMMA GiveInv ==
  ASSUME IInv, status = "running", faults' \in 0 .. MaxFaults,
         UNCHANGED <<outside, store>>, UNCHANGED <<token, reported>>, EndCall,
         status' \in {"running", "warned", "failed"}
  PROVE  IInv'
<1> USE DEF outside, store
<1>1. pc' = "idle" /\ listed' = {} /\ at' = 0 /\ found' = {}
  BY DEF EndCall
<1>2. TypeOK'
  <2>1. Cardinality(Groups) \in Nat
    BY SyncAssumption, FiniteSets DEF SyncAssumption, Groups
  <2> QED
    BY <1>1, <2>1 DEF IInv, TypeOK
<1>3. Shape' /\ Truthful' /\ SetInv'
  BY <1>1 DEF IInv, Shape, Truthful, NegativeTrue, SetInv, SetComplete, Reasons, Causes, Gives
<1>4. GroupsReported'
  BY <1>1 DEF IInv, GroupsReported, GroupPast
<1>5. UsersReported'
  BY <1>1 DEF IInv, UsersReported, UserPast, Reported, Waiting
<1>6. Gathered'
  BY <1>1 DEF Gathered
<1> QED
  BY <1>2, <1>3, <1>4, <1>5, <1>6 DEF IInv

LEMMA FailedInv ==
  ASSUME IInv, status = "running", faults' \in 0 .. MaxFaults,
         UNCHANGED <<outside, store>>, NEW code, Failed(code)
  PROVE  IInv'
<1>1. Verdict(code) \in {"repeat", "skip", "fail"}
  BY DEF Verdict
<1>2. /\ EndCall /\ UNCHANGED <<token, reported>>
      /\ status' \in {"running", "warned", "failed"}
  BY <1>1 DEF Failed, Give
<1> QED
  BY <1>2, GiveInv

LEMMA CallFailsInv == ASSUME IInv, CallFails PROVE IInv'
<1>1. PICK a \in Answers : Failed(Uncoded(a))
  BY DEF CallFails
<1>2. faults' \in 0 .. MaxFaults
  BY FaultCounted DEF CallFails, IInv
<1> QED
  BY <1>1, <1>2, FailedInv DEF CallFails

LEMMA ListFailsInv == ASSUME IInv, ListFails PROVE IInv'
<1>1. PICK a \in Answers : Failed(Code(a))
  BY DEF ListFails, Fail
<1>2. faults' \in 0 .. MaxFaults /\ status = "running"
  BY FaultCounted DEF ListFails, Fail, IInv, Shape
<1> QED
  BY <1>1, <1>2, FailedInv DEF ListFails

LEMMA UserNotFoundInv == ASSUME IInv, UserNotFound PROVE IInv'
<1>1. faults' \in 0 .. MaxFaults /\ status = "running"
  BY DEF UserNotFound, IInv, Shape, TypeOK
<1> QED
  BY <1>1, FailedInv DEF UserNotFound

LEMMA CrashInv == ASSUME IInv, Crash PROVE IInv'
<1>1. faults' \in 0 .. MaxFaults /\ status = "running"
  BY FaultCounted DEF Crash, IInv, Shape
<1> QED
  BY <1>1, GiveInv DEF Crash, Give

LEMMA CallInv == ASSUME IInv, Call PROVE IInv'
<1> USE DEF outside, sync
<1>1. /\ pc = "idle" /\ status = "running" /\ pc' = "page"
      /\ UNCHANGED <<outside, appGroup, notAppGroup, appGroupIDSet, sync, listed, at, found, faults>>
  BY DEF Call
<1>2. settings' \in BOOLEAN
  BY DEF Call, Takes, IInv, TypeOK
<1>3. TypeOK'
  BY <1>1, <1>2 DEF IInv, TypeOK
<1>4. Shape' /\ Truthful' /\ SetInv'
  BY <1>1 DEF IInv, Shape, Truthful, NegativeTrue, SetInv, SetComplete, Reasons, Causes, Gives
<1>5. GroupsReported' /\ UsersReported' /\ Gathered'
  BY <1>1 DEF IInv, GroupsReported, GroupPast, UsersReported, UserPast, Reported, Waiting, Gathered
<1> QED
  BY <1>3, <1>4, <1>5 DEF IInv

\* The session store forgets something, but not the set of IDs.
LEMMA EvictInv == ASSUME IInv, Evict PROVE IInv'
<1> USE DEF outside, sync, call
<1>1. /\ status = "running" /\ UNCHANGED <<outside, sync, call, faults>>
      /\ appGroupIDSet' \in {NoEntry, appGroupIDSet}
      /\ SetKept => appGroupIDSet' = appGroupIDSet
      /\ settings' \in BOOLEAN /\ notAppGroup' \subseteq notAppGroup
      /\ \/ appGroup' = appGroup
         \/ \E g \in Groups : appGroup' = [appGroup EXCEPT ![g] = NoEntry]
  BY DEF Evict, SetKept, IInv, TypeOK
<1>2. /\ appGroup' \in [Groups -> {NoEntry} \cup SUBSET Roles]
      /\ \A g \in Groups : appGroup'[g] # NoEntry => appGroup'[g] = appGroup[g]
  BY <1>1 DEF IInv, TypeOK
<1>3. TypeOK'
  BY <1>1, <1>2 DEF IInv, TypeOK
<1>4. Truthful'
  <2>1. \A x \in always : x[1] = 0 => x[2] \in Groups
    BY ReasonIs DEF IInv, Truthful
  <2> QED
    BY <1>1, <1>2, <2>1 DEF IInv, Truthful, NegativeTrue, Reasons, Causes, Gives
<1>5. Current' = Current
  BY <1>1 DEF Current, UserBag
<1>6. Shape' /\ SetInv'
  BY <1>1, <1>5 DEF IInv, Shape, SetInv, SetComplete
<1>7. GroupsReported' /\ UsersReported'
  BY <1>1 DEF IInv, GroupsReported, GroupPast, UsersReported, UserPast, Reported, Waiting
<1>8. Gathered'
  BY <1>1, <1>5 DEF IInv, Gathered
<1> QED
  BY <1>3, <1>4, <1>6, <1>7, <1>8 DEF IInv

\* What Okta becomes is a state of Okta.
LEMMA AlteredTypes == ASSUME TypeOK, Altered PROVE world' \in World
<1>1. world \in World
  BY DEF TypeOK
<1>2. world = [appGroups |-> world.appGroups, groupRoles |-> world.groupRoles,
               direct |-> world.direct, own |-> world.own,
               member |-> world.member, gone |-> world.gone]
      /\ world.appGroups \subseteq Groups /\ world.groupRoles \in [Groups -> SUBSET Roles]
      /\ world.direct \subseteq Users /\ world.own \in [Users -> SUBSET Roles]
      /\ world.member \in [Users -> SUBSET Groups] /\ world.gone \subseteq Users
  BY <1>1 DEF World
<1>3. ASSUME NEW g \in Groups, NEW R \in SUBSET Roles, world' = [world EXCEPT !.groupRoles[g] = R]
      PROVE  world' \in World
  BY <1>2, <1>3 DEF World
<1>4. ASSUME NEW D \in SUBSET Groups, world' = [world EXCEPT !.appGroups = D]
      PROVE  world' \in World
  BY <1>2, <1>4 DEF World
<1>5. ASSUME NEW u \in Users, NEW D \in SUBSET Users, NEW R \in SUBSET Roles,
             world' = [world EXCEPT !.direct = D, !.own[u] = R]
      PROVE  world' \in World
  BY <1>2, <1>5 DEF World
<1>6. ASSUME NEW u \in Users, NEW M \in SUBSET Groups, world' = [world EXCEPT !.member[u] = M]
      PROVE  world' \in World
  BY <1>2, <1>6 DEF World
<1>7. ASSUME NEW u \in Users, NEW D \in SUBSET Users, NEW X \in SUBSET Users,
             world' = [world EXCEPT !.direct = D, !.member[u] = {}, !.gone = X]
      PROVE  world' \in World
  BY <1>2, <1>7 DEF World
<1>8. CASE \E g \in Groups :
             world' = [world EXCEPT !.appGroups = {h \in Groups : (h \in @) # (h = g)}]
  BY <1>4, <1>8
<1>9. CASE \E u \in Users, R \in SUBSET Roles :
             world' = [world EXCEPT !.direct = {v \in Users : (v \in @) # (v = u)}, !.own[u] = R]
  BY <1>5, <1>9
<1>10. CASE \E u \in Users :
              world' = [world EXCEPT !.direct = @ \ {u}, !.member[u] = {}, !.gone = @ \cup {u}]
  <2>1. PICK u \in Users :
          world' = [world EXCEPT !.direct = @ \ {u}, !.member[u] = {}, !.gone = @ \cup {u}]
    BY <1>10
  <2>2. world.direct \ {u} \in SUBSET Users /\ world.gone \cup {u} \in SUBSET Users
    BY <1>2
  <2> QED
    BY <1>7, <2>1, <2>2
<1> QED
  BY <1>2, <1>3, <1>6, <1>8, <1>9, <1>10 DEF Altered

\* A change in Okta leaves fewer reasons that lasted, and fewer users whose
\* groups did.
LEMMA OktaChangesInv == ASSUME IInv, OktaChanges PROVE IInv'
<1> USE DEF sync, call, store
<1>1. /\ status = "running" /\ changes < MaxChanges /\ changes' = changes + 1
      /\ Altered
      /\ always' = always \cap Reasons(world') /\ ever' = ever \cup Causes(world')
      /\ moved' = moved \cup {u \in Users : world'.member[u] # world.member[u]}
      /\ UNCHANGED <<conf, store, sync, call, faults>>
  BY DEF OktaChanges
<1>2. world' \in World
  BY <1>1, AlteredTypes DEF IInv
<1>3. TypeOK'
  <2>1. changes' \in 0 .. MaxChanges
    BY <1>1, SyncAssumption DEF SyncAssumption, IInv, TypeOK
  <2>2. always' \subseteq always /\ ever' \in SUBSET Reason
    BY <1>1 DEF IInv, TypeOK, Causes
  <2> QED
    BY <1>1, <1>2, <2>1, <2>2 DEF IInv, TypeOK
<1>4. always' \subseteq always /\ always' \subseteq Reasons(world)'
  BY <1>1 DEF Reasons, Causes, Gives
<1>5. Shape'
  BY <1>1 DEF IInv, Shape, Current, UserBag
<1>6. Truthful'
  <2>1. \A x \in always' : x[2] # 0 => <<0, x[2], x[3]>> \in always'
    <3> SUFFICES ASSUME NEW x \in always', x[2] # 0 PROVE <<0, x[2], x[3]>> \in always'
      OBVIOUS
    <3>1. <<0, x[2], x[3]>> \in always
      BY <1>4 DEF IInv, Truthful
    <3>2. <<0, x[2], x[3]>> \in Reasons(world')
      BY <1>1, ReasonIs
    <3> QED
      BY <1>1, <3>1, <3>2
  <2> QED
    BY <1>1, <1>4, <2>1 DEF IInv, Truthful, NegativeTrue
<1>7. SetInv'
  BY <1>1, <1>4 DEF IInv, SetInv, SetComplete
<1>8. GroupsReported'
  BY <1>1, <1>4 DEF IInv, GroupsReported, GroupPast
<1>9. \A u \in Users : u \notin moved' => u \notin moved /\ world'.member[u] = world.member[u]
  BY <1>1
<1>10. \A x \in always : x[1] # 0 => x[1] \in Users
  BY DEF IInv, TypeOK, Reason
<1>11. UsersReported'
  BY <1>1, <1>4, <1>9, <1>10 DEF IInv, UsersReported, UserPast, Reported, Waiting
<1>12. Gathered'
  <2>1. pc = "fetch" => Current.user \in Users
    <3> SUFFICES ASSUME pc = "fetch" PROVE Current.user \in Users
      OBVIOUS
    <3>1. token.bag \in Seq(Frame) /\ token.bag # <<>> /\ Current.user # NoUser
      BY DEF IInv, Shape, TypeOK, Token
    <3>2. Current \in Frame
      BY <3>1, BagEnds DEF Current, UserBag
    <3> QED
      BY <3>1, <3>2 DEF Frame
  <2>2. Current' = Current
    BY <1>1 DEF Current, UserBag
  <2> QED
    BY <1>1, <1>4, <1>9, <2>1, <2>2 DEF IInv, Gathered
<1> QED
  BY <1>3, <1>5, <1>6, <1>7, <1>8, <1>11, <1>12 DEF IInv

-----------------------------------------------------------------------------
(* Looking a user's groups up. *)

\* The call that looks groups up works on a user of the bag.
LEMMA FetchingIs ==
  ASSUME TypeOK, Shape, pc = "fetch"
  PROVE  /\ token.phases = <<"user">> /\ ~conf.useGroupMapping /\ token.bag # <<>>
         /\ UserBag = token.bag /\ token.bag \in Seq(Frame)
         /\ Current \in Frame /\ Current.user \in Users /\ Current.at <= at
         /\ Current = token.bag[Len(token.bag)]
<1>1. token.phases = <<"user">> /\ token.bag # <<>> /\ Current.user # NoUser /\ Current.at <= at
  BY DEF Shape
<1>2. token.bag \in Seq(Frame)
  BY DEF TypeOK, Token
<1>3. Current \in Frame /\ Current = token.bag[Len(token.bag)]
  BY <1>1, <1>2, BagEnds DEF Current, UserBag
<1>4. ~conf.useGroupMapping
  <2>1. <<"user">> # <<>> /\ <<"user">> # <<"group">>
    OBVIOUS
  <2> QED
    BY <1>1, <2>1 DEF Shape
<1> QED
  BY <1>1, <1>2, <1>3, <1>4 DEF UserBag, Frame

\* A group was looked up, and what it gave all the time was found.
LEMMA LookedUp ==
  ASSUME IInv, Fetching, NEW R \in SUBSET Roles,
         found' = found \cup R, at' = at + 1,
         UNCHANGED <<outside, settings, appGroupIDSet, sync, pc, listed, faults>>,
         appGroup' \in [Groups -> {NoEntry} \cup SUBSET Roles], notAppGroup' \in SUBSET Groups,
         Truthful',
         SetKept => \A x \in always : x[1] = 0 /\ x[2] = Group => x[3] \in R
  PROVE  IInv'
<1> USE DEF outside, sync
<1>1. /\ Group \in listed /\ Rank(listed, Group) = at
      /\ NumGroups \in Nat /\ listed \in SUBSET (1 .. NumGroups)
  BY GroupAt, SyncAssumption DEF SyncAssumption, IInv, TypeOK, Groups
<1>2. Cardinality(listed) \in Nat /\ Cardinality(listed) <= Cardinality(Groups)
      /\ Cardinality(Groups) \in Nat /\ at \in Nat /\ at < Cardinality(listed)
  <2>1. /\ Cardinality(listed) \in Nat /\ Cardinality(listed) <= Cardinality(1 .. NumGroups)
        /\ Cardinality(1 .. NumGroups) \in Nat
    <3>1. 1 .. NumGroups \in SUBSET (1 .. NumGroups)
      OBVIOUS
    <3> QED
      BY <1>1, <3>1, FiniteSets
  <2>2. at \in 0 .. Cardinality(1 .. NumGroups)
    BY DEF IInv, TypeOK, Groups
  <2> QED
    BY <2>1, <2>2 DEF Groups, Fetching
<1>3. at' \in 0 .. Cardinality(Groups) /\ at' <= Cardinality(listed)
  BY <1>2
<1>4. TypeOK'
  BY <1>3 DEF IInv, TypeOK
<1>5. Current' = Current /\ pc = "fetch"
  BY DEF Current, UserBag, Fetching
<1>6. Current.at \in Nat /\ Current.at <= at
  BY <1>5, FetchingIs DEF IInv, Frame
<1>7. Shape'
  <2>1. Current.at <= at'
    BY <1>2, <1>6
  <2> QED
    BY <1>3, <1>5, <2>1 DEF IInv, Shape
<1>8. SetInv'
  BY DEF IInv, SetInv, SetComplete
<1>9. GroupsReported' /\ UsersReported'
  BY DEF IInv, GroupsReported, GroupPast, UsersReported, UserPast, Reported, Waiting
<1>10. Gathered'
  <2> SUFFICES ASSUME SetKept, Current.user \notin moved,
                      NEW x \in always, x[1] = Current.user, x[2] \in listed,
                      Current.at <= Rank(listed, x[2]), Rank(listed, x[2]) < at'
               PROVE  listed = world.member[Current.user] /\ x[3] \in found'
    <3>1. SetKept /\ Current.user \notin moved => listed = world.member[Current.user]
      BY <1>5 DEF IInv, Gathered
    <3> QED
      BY <1>5, <3>1 DEF Gathered
  <2>1. listed = world.member[Current.user]
    BY <1>5 DEF IInv, Gathered
  <2>2. CASE Rank(listed, x[2]) < at
    BY <1>5, <2>2 DEF IInv, Gathered
  <2>3. CASE ~(Rank(listed, x[2]) < at)
    <3>1. Rank(listed, x[2]) \in Nat
      BY <1>1, RankType
    <3>2. Rank(listed, x[2]) = at
      BY <1>2, <2>3, <3>1
    <3>3. x[2] = Group
      BY <1>1, <3>2, RankInjective
    <3>4. x[2] # 0
      BY <1>1
    <3> DEFINE y == <<0, x[2], x[3]>>
    <3>5. y \in always /\ y[1] = 0 /\ y[2] = Group /\ y[3] = x[3]
      BY <3>3, <3>4 DEF IInv, Truthful
    <3>6. x[3] \in R
      BY <3>5
    <3> QED
      BY <2>1, <3>6
  <2> QED
    BY <2>1, <2>2, <2>3
<1> QED
  BY <1>4, <1>7, <1>8, <1>9, <1>10 DEF IInv

LEMMA FromStoreInv == ASSUME IInv, FromStore PROVE IInv'
<1> USE DEF outside, sync
<1>1. /\ Fetching /\ at' = at + 1
      /\ UNCHANGED <<outside, settings, appGroup, appGroupIDSet, sync, pc, listed, faults>>
  BY DEF FromStore
<1>2. Group \in Groups
  BY <1>1, GroupAt DEF IInv
<1>3. appGroup \in [Groups -> {NoEntry} \cup SUBSET Roles] /\ notAppGroup \in SUBSET Groups
  BY DEF IInv, TypeOK
<1>4. CASE appGroup[Group] # NoEntry /\ found' = found \cup appGroup[Group] /\ UNCHANGED notAppGroup
  <2>1. appGroup[Group] \in SUBSET Roles
    BY <1>2, <1>3, <1>4
  <2>2. \A x \in always : x[1] = 0 /\ x[2] = Group => x[3] \in appGroup[Group]
    BY <1>4 DEF IInv, Truthful
  <2>3. Truthful'
    BY <1>1, <1>4 DEF IInv, Truthful, NegativeTrue, Reasons, Causes, Gives
  <2> QED
    BY <1>1, <1>3, <1>4, <2>1, <2>2, <2>3, LookedUp
<1>5. CASE /\ UNCHANGED found /\ notAppGroup' \in {notAppGroup, notAppGroup \cup {Group}}
           /\ Group \in notAppGroup \/ RuledOut(Group)
  <2>1. SetKept => \A x \in always : ~(x[1] = 0 /\ x[2] = Group)
    <3>1. token.phases = <<"user">>
      BY <1>1 DEF IInv, Shape, Fetching
    <3> QED
      BY <1>5, <3>1 DEF IInv, SetInv, SetComplete, RuledOut, Truthful, NegativeTrue
  <2>2. Truthful'
    BY <1>1, <1>5, <2>1 DEF IInv, Truthful, NegativeTrue, Reasons, Causes, Gives
  <2>3. found' = found \cup {} /\ {} \in SUBSET Roles /\ notAppGroup' \in SUBSET Groups
        /\ appGroup' = appGroup
    BY <1>1, <1>2, <1>3, <1>5
  <2> QED
    BY <1>1, <1>3, <2>1, <2>2, <2>3, LookedUp
<1>6. \/ appGroup[Group] # NoEntry /\ found' = found \cup appGroup[Group] /\ UNCHANGED notAppGroup
      \/ /\ UNCHANGED found /\ notAppGroup' \in {notAppGroup, notAppGroup \cup {Group}}
         /\ Group \in notAppGroup \/ RuledOut(Group)
  BY DEF FromStore
<1> QED
  BY <1>4, <1>5, <1>6

LEMMA FromOktaInv == ASSUME IInv, FromOkta PROVE IInv'
<1> USE DEF outside, sync
<1>1. /\ Fetching /\ at' = at + 1
      /\ UNCHANGED <<outside, settings, appGroupIDSet, sync, pc, listed, faults>>
  BY DEF FromOkta, AsksOkta
<1>2. Group \in Groups
  BY <1>1, GroupAt DEF IInv
<1>3. /\ appGroup \in [Groups -> {NoEntry} \cup SUBSET Roles] /\ notAppGroup \in SUBSET Groups
      /\ world.groupRoles \in [Groups -> SUBSET Roles]
  BY WorldIs DEF IInv, TypeOK
<1>4. \A x \in always : x[1] = 0 /\ x[2] = Group =>
        Group \in world.appGroups /\ x[3] \in world.groupRoles[Group]
  <2>1. ~conf.useGroupMapping
    BY <1>1, FetchingIs DEF IInv, Fetching
  <2> QED
    BY <2>1, ReasonIs DEF IInv, Truthful, Gives
<1>5. CASE /\ found' = found \cup world.groupRoles[Group] /\ UNCHANGED notAppGroup
           /\ appGroup' \in {appGroup, [appGroup EXCEPT ![Group] = world.groupRoles[Group]]}
  <2>1. world.groupRoles[Group] \in SUBSET Roles
    BY <1>2, <1>3
  <2>2. appGroup' \in [Groups -> {NoEntry} \cup SUBSET Roles]
    BY <1>3, <1>5, <2>1
  <2>3. \A x \in always : x[1] = 0 /\ appGroup'[x[2]] # NoEntry => x[3] \in appGroup'[x[2]]
    <3>1. \A x \in always : x[1] = 0 => x[2] \in Groups
      BY ReasonIs DEF IInv, Truthful
    <3> QED
      BY <1>3, <1>4, <1>5, <3>1 DEF IInv, Truthful
  <2>4. Truthful'
    BY <1>1, <1>5, <2>3 DEF IInv, Truthful, NegativeTrue, Reasons, Causes, Gives
  <2> QED
    BY <1>1, <1>3, <1>4, <1>5, <2>1, <2>2, <2>4, LookedUp
<1>6. CASE /\ UNCHANGED <<found, appGroup>> /\ Group \notin world.appGroups
           /\ notAppGroup' \in {notAppGroup, notAppGroup \cup {Group}}
  <2>1. Truthful'
    BY <1>1, <1>4, <1>6 DEF IInv, Truthful, NegativeTrue, Reasons, Causes, Gives
  <2>2. found' = found \cup {} /\ {} \in SUBSET Roles /\ notAppGroup' \in SUBSET Groups
        /\ appGroup' = appGroup
    BY <1>2, <1>3, <1>6
  <2> QED
    BY <1>1, <1>3, <1>4, <1>6, <2>1, <2>2, LookedUp
<1>7. \/ /\ found' = found \cup world.groupRoles[Group] /\ UNCHANGED notAppGroup
         /\ appGroup' \in {appGroup, [appGroup EXCEPT ![Group] = world.groupRoles[Group]]}
      \/ /\ UNCHANGED <<found, appGroup>> /\ Group \notin world.appGroups
         /\ notAppGroup' \in {notAppGroup, notAppGroup \cup {Group}}
  BY DEF FromOkta
<1> QED
  BY <1>5, <1>6, <1>7

\* A page of the users phase is committed, with bag b for the next: every user
\* the pages have gone by is reported, or waits in b.
LEMMA UsersCommitted ==
  ASSUME IInv, status = "running", Phase = "user", faults' \in 0 .. MaxFaults,
         UNCHANGED <<outside, store>>,
         NEW b \in Seq(Frame), NEW G \in SUBSET Grant,
         Commit(NextUsers(b), G), NextUsers(b) # token,
         \A i \in DOMAIN b : b[i].user = NoUser => i = 1,
         SetKept /\ reported' = reported \cup G =>
           \A x \in always :
             /\ x[1] # 0 /\ x[1] \notin moved
             /\ b # <<>> /\ b[1].user = NoUser => x[1] <= b[1].at
             => \/ Reported(x)'
                \/ /\ x[2] # 0
                   /\ \E i \in DOMAIN b : /\ b[i].user = x[1]
                                          /\ b[i].at <= Rank(world.member[x[1]], x[2])
  PROVE  IInv'
<1> USE DEF outside, store
<1>1. /\ token.phases = <<"user">> /\ ~conf.useGroupMapping
      /\ NextUsers(b) \in Token /\ NextUsers(b).bag = b
      /\ NextUsers(b).phases = IF b = <<>> THEN <<>> ELSE <<"user">>
  BY NextUsersIs DEF IInv
<1>2. /\ pc' = "idle" /\ listed' = {} /\ at' = 0 /\ found' = {}
      /\ token' = NextUsers(b) /\ reported' = reported \cup G
      /\ status' = IF NextUsers(b).phases = <<>> THEN "done" ELSE "running"
  BY DEF Commit, EndCall
<1>3. <<"user">> # <<>> /\ <<"user">> # <<"user", "group">> /\ <<>> # <<"user", "group">>
  OBVIOUS
<1>4. TypeOK'
  <2>1. Cardinality(Groups) \in Nat
    BY SyncAssumption, FiniteSets DEF SyncAssumption, Groups
  <2>2. reported' \in SUBSET Grant
    BY <1>2 DEF IInv, TypeOK
  <2> QED
    BY <1>1, <1>2, <2>1, <2>2 DEF IInv, TypeOK
<1>5. Shape'
  <2>1. token'.phases = IF b = <<>> THEN <<>> ELSE <<"user">>
    BY <1>1, <1>2
  <2>2. token'.bag = b
    BY <1>1, <1>2
  <2>3. status' = IF b = <<>> THEN "done" ELSE "running"
    BY <1>1, <1>2, <1>3
  <2> QED
    BY <1>1, <1>2, <1>3, <2>1, <2>2, <2>3 DEF Shape
<1>6. Truthful'
  BY DEF IInv, Truthful, NegativeTrue, Reasons, Causes, Gives
<1>7. SetInv'
  <2>1. SetKept => SetComplete'
    BY <1>1 DEF IInv, SetInv, SetComplete
  <2>2. ~(status' = "running" /\ token'.phases = <<>>) /\ token'.phases # <<"user", "group">>
    BY <1>1, <1>2, <1>3
  <2> QED
    BY <2>1, <2>2 DEF SetInv
<1>8. GroupsReported'
  BY <1>1, <1>2 DEF IInv, GroupsReported, GroupPast
<1>9. UsersReported'
  <2> SUFFICES ASSUME SetKept, NEW x \in always, x[1] # 0, x[1] \notin moved, UserPast(x[1])'
               PROVE  Reported(x)' \/ (x[2] # 0 /\ Waiting(x[1], x[2])')
    BY DEF UsersReported
  <2>1. b # <<>> /\ b[1].user = NoUser => x[1] <= b[1].at
    <3>1. CASE b = <<>>
      BY <3>1
    <3>2. CASE b # <<>>
      <4>1. status' # "done" /\ token'.bag = b
        BY <1>1, <1>2, <1>3, <3>2
      <4> QED
        BY <4>1 DEF UserPast
    <3> QED
      BY <3>1, <3>2
  <2>2. token'.bag = b
    BY <1>1, <1>2
  <2> QED
    BY <1>2, <2>1, <2>2 DEF Waiting
<1>10. Gathered'
  BY <1>2 DEF Gathered
<1> QED
  BY <1>4, <1>5, <1>6, <1>7, <1>8, <1>9, <1>10 DEF IInv

\* What is reported stays reported while Okta stays as it is.
LEMMA StaysReported ==
  ASSUME reported \subseteq reported', UNCHANGED outside, NEW x, Reported(x)
  PROVE  Reported(x)'
  BY DEF outside, Reported

\* The user on top of the bag leaves it, or stays from group k on, and what
\* lasted in the groups before is handed over.
LEMMA HandedOver ==
  ASSUME IInv, status = "running", Phase = "user", faults' \in 0 .. MaxFaults,
         UNCHANGED <<outside, store>>, Current.user # NoUser,
         NEW k \in Nat, k # Current.at, NEW b, NEW G \in SUBSET Grant,
         b \in {Front(token.bag), Append(Front(token.bag), [Current EXCEPT !.at = k])},
         Commit(NextUsers(b), G),
         SetKept => \A x \in always :
           /\ x[1] = Current.user /\ x[1] \notin moved /\ x[2] \in world.member[x[1]]
           /\ Current.at <= Rank(world.member[x[1]], x[2])
           => \/ <<"user", x[1], x[3]>> \in G
              \/ b # Front(token.bag) /\ k <= Rank(world.member[x[1]], x[2])
  PROVE  IInv'
<1> DEFINE n == Len(token.bag)
           F == [Current EXCEPT !.at = k]
<1>1. token.phases = <<"user">> /\ ~conf.useGroupMapping
  <2>1. <<>> \in Seq(Frame)
    BY EmptySeq
  <2> QED
    BY <2>1, NextUsersIs DEF IInv
<1>2. token.bag \in Seq(Frame) /\ token.bag # <<>> /\ UserBag = token.bag
  BY DEF IInv, TypeOK, Token, Current, UserBag, Last
<1>3. /\ n \in Nat \ {0} /\ DOMAIN token.bag = 1 .. n
      /\ Current = token.bag[n] /\ Current \in Frame
      /\ Front(token.bag) \in Seq(Frame) /\ Len(Front(token.bag)) = n - 1
      /\ DOMAIN Front(token.bag) = 1 .. (n - 1)
      /\ \A i \in 1 .. (n - 1) : Front(token.bag)[i] = token.bag[i]
  BY <1>2, BagEnds DEF Current
<1>4. F \in Frame /\ F.user = Current.user /\ F.at = k
  BY <1>3 DEF Frame
<1>5. CASE b = Front(token.bag)
  <2>1. NextUsers(b) # token
    <3>1. NextUsers(b).bag = b
      BY <1>3, <1>5, NextUsersIs DEF IInv
    <3>2. Len(b) # n
      BY <1>3, <1>5
    <3> QED
      BY <3>1, <3>2
  <2>2. \A i \in DOMAIN b : b[i].user = NoUser => i = 1
    <3> SUFFICES ASSUME NEW i \in 1 .. (n - 1), b[i].user = NoUser PROVE i = 1
      BY <1>3, <1>5
    <3>1. i \in 1 .. n /\ token.bag[i].user = NoUser
      BY <1>3, <1>5
    <3> QED
      BY <1>3, <3>1 DEF IInv, Shape
  <2>3. ASSUME SetKept, reported' = reported \cup G, NEW x \in always,
               x[1] # 0, x[1] \notin moved,
               b # <<>> /\ b[1].user = NoUser => x[1] <= b[1].at
        PROVE  \/ Reported(x)'
               \/ /\ x[2] # 0
                  /\ \E i \in DOMAIN b : /\ b[i].user = x[1]
                                         /\ b[i].at <= Rank(world.member[x[1]], x[2])
    <3>1. UserPast(x[1])
      <4>1. CASE n = 1
        BY <1>1, <1>2, <1>3, <4>1 DEF UserPast
      <4>2. CASE n > 1
        <5>1. 1 \in 1 .. (n - 1)
          BY <1>3, <4>2
        <5>2. b[1] = token.bag[1] /\ b # <<>>
          BY <1>3, <1>5, <5>1
        <5> QED
          BY <1>1, <1>2, <2>3, <5>2 DEF UserPast
      <4>3. n = 1 \/ n > 1
        <5>1. \A m \in Nat \ {0} : m = 1 \/ m > 1
          OBVIOUS
        <5> QED
          BY <1>3, <5>1
      <4> QED
        BY <4>1, <4>2, <4>3
    <3>2. Reported(x) \/ (x[2] # 0 /\ Waiting(x[1], x[2]))
      BY <1>1, <2>3, <3>1 DEF IInv, UsersReported
    <3>3. CASE Reported(x)
      BY <2>3, <3>3, StaysReported
    <3>4. CASE x[2] # 0 /\ Waiting(x[1], x[2])
      <4>1. PICK i \in 1 .. n : token.bag[i].user = x[1]
                                /\ token.bag[i].at <= Rank(world.member[x[1]], x[2])
        BY <1>3, <3>4 DEF Waiting
      <4>2. CASE i \in 1 .. (n - 1)
        BY <1>3, <1>5, <3>4, <4>1, <4>2
      <4>3. CASE i = n
        <5>1. x[2] \in world.member[x[1]]
          BY <2>3, <3>4, ReasonIs DEF IInv, Truthful
        <5>2. <<"user", x[1], x[3]>> \in G
          BY <1>3, <1>5, <2>3, <4>1, <4>3, <5>1
        <5> QED
          BY <2>3, <5>2 DEF Reported
      <4>4. i \in 1 .. (n - 1) \/ i = n
        BY <1>3, <4>1
      <4> QED
        BY <4>2, <4>3, <4>4
    <3> QED
      BY <3>2, <3>3, <3>4
  <2> QED
    BY <1>3, <1>5, <2>1, <2>2, <2>3, UsersCommitted
<1>6. CASE b = Append(Front(token.bag), F) /\ b # Front(token.bag)
  <2>0. /\ b \in Seq(Frame) /\ Len(b) = n /\ DOMAIN b = 1 .. n /\ b # <<>>
        /\ b[n] = F /\ \A i \in 1 .. (n - 1) : b[i] = token.bag[i]
    <3>1. /\ b \in Seq(Frame) /\ Len(b) = (n - 1) + 1
          /\ \A i \in 1 .. (n - 1) : b[i] = Front(token.bag)[i]
          /\ b[(n - 1) + 1] = F
      BY <1>3, <1>4, <1>6, AppendProperties
    <3>2. (n - 1) + 1 = n
      BY <1>3
    <3> QED
      BY <1>3, <3>1, <3>2, LenProperties
  <2>1. NextUsers(b) # token
    <3>1. NextUsers(b).bag = b
      BY <2>0, NextUsersIs DEF IInv
    <3>2. b[n].at # token.bag[n].at
      BY <1>3, <1>4, <2>0
    <3> QED
      BY <3>1, <3>2
  <2>2. \A i \in DOMAIN b : b[i].user = NoUser => i = 1
    <3> SUFFICES ASSUME NEW i \in 1 .. n, b[i].user = NoUser PROVE i = 1
      BY <2>0
    <3>1. token.bag[i].user = NoUser
      <4>1. CASE i = n
        BY <1>4, <2>0, <4>1
      <4>2. CASE i # n
        <5>1. i \in 1 .. (n - 1)
          BY <1>3, <4>2
        <5> QED
          BY <2>0, <5>1
      <4> QED
        BY <4>1, <4>2
    <3> QED
      BY <1>3, <3>1 DEF IInv, Shape
  <2>3. ASSUME SetKept, reported' = reported \cup G, NEW x \in always,
               x[1] # 0, x[1] \notin moved,
               b # <<>> /\ b[1].user = NoUser => x[1] <= b[1].at
        PROVE  \/ Reported(x)'
               \/ /\ x[2] # 0
                  /\ \E i \in DOMAIN b : /\ b[i].user = x[1]
                                         /\ b[i].at <= Rank(world.member[x[1]], x[2])
    <3>1. UserPast(x[1])
      <4>1. token.bag[1].user = NoUser => b[1] = token.bag[1]
        <5> SUFFICES ASSUME token.bag[1].user = NoUser PROVE b[1] = token.bag[1]
          OBVIOUS
        <5>1. n # 1
          BY <1>3
        <5>2. 1 \in 1 .. (n - 1)
          BY <1>3, <5>1
        <5> QED
          BY <2>0, <5>2
      <4> QED
        BY <1>1, <1>2, <2>0, <2>3, <4>1 DEF UserPast
    <3>2. Reported(x) \/ (x[2] # 0 /\ Waiting(x[1], x[2]))
      BY <1>1, <2>3, <3>1 DEF IInv, UsersReported
    <3>3. CASE Reported(x)
      BY <2>3, <3>3, StaysReported
    <3>4. CASE x[2] # 0 /\ Waiting(x[1], x[2])
      <4>1. PICK i \in 1 .. n : token.bag[i].user = x[1]
                                /\ token.bag[i].at <= Rank(world.member[x[1]], x[2])
        BY <1>3, <3>4 DEF Waiting
      <4>2. CASE i \in 1 .. (n - 1)
        BY <2>0, <3>4, <4>1, <4>2
      <4>3. CASE i = n
        <5>1. x[2] \in world.member[x[1]]
          BY <2>3, <3>4, ReasonIs DEF IInv, Truthful
        <5>2. <<"user", x[1], x[3]>> \in G \/ k <= Rank(world.member[x[1]], x[2])
          BY <1>3, <2>3, <4>1, <4>3, <5>1
        <5>3. CASE <<"user", x[1], x[3]>> \in G
          BY <2>3, <5>3 DEF Reported
        <5>4. CASE k <= Rank(world.member[x[1]], x[2])
          <6>1. n \in DOMAIN b /\ b[n].user = x[1] /\ b[n].at = k
            BY <1>3, <1>4, <2>0, <4>1, <4>3
          <6> QED
            BY <3>4, <5>4, <6>1
        <5> QED
          BY <5>2, <5>3, <5>4
      <4>4. i \in 1 .. (n - 1) \/ i = n
        BY <1>3, <4>1
      <4> QED
        BY <4>2, <4>3, <4>4
    <3> QED
      BY <3>2, <3>3, <3>4
  <2> QED
    BY <2>0, <2>1, <2>2, <2>3, UsersCommitted
<1> QED
  BY <1>5, <1>6

LEMMA PhaseOfUsers == token.phases = <<"user">> => Phase = "user"
<1>1. <<"user">> # <<>>
  OBVIOUS
<1> QED
  BY <1>1, Ends DEF Phase, Bag

\* What lasted in the groups the call is past is among what it collected.
LEMMA CollectedIs ==
  ASSUME IInv, pc = "fetch"
  PROVE  /\ Collected \in SUBSET Grant
         /\ SetKept => \A x \in always :
              /\ x[1] = Current.user /\ x[1] \notin moved /\ x[2] \in world.member[x[1]]
              /\ Current.at <= Rank(world.member[x[1]], x[2])
              => /\ Rank(world.member[x[1]], x[2]) \in Nat
                 /\ Rank(world.member[x[1]], x[2]) < Cardinality(listed)
                 /\ Rank(world.member[x[1]], x[2]) < at => <<"user", x[1], x[3]>> \in Collected
<1>1. Collected \in SUBSET Grant
  BY DEF Collected
<1> SUFFICES ASSUME SetKept, NEW x \in always,
                    x[1] = Current.user, x[1] \notin moved, x[2] \in world.member[x[1]],
                    Current.at <= Rank(world.member[x[1]], x[2])
             PROVE  /\ Rank(world.member[x[1]], x[2]) \in Nat
                    /\ Rank(world.member[x[1]], x[2]) < Cardinality(listed)
                    /\ Rank(world.member[x[1]], x[2]) < at => <<"user", x[1], x[3]>> \in Collected
  BY <1>1
<1>2. listed = world.member[x[1]] /\ listed \in SUBSET (1 .. NumGroups) /\ NumGroups \in Nat
  BY SyncAssumption DEF SyncAssumption, IInv, Gathered, TypeOK, Groups
<1>3. Rank(world.member[x[1]], x[2]) \in Nat /\ Rank(world.member[x[1]], x[2]) < Cardinality(listed)
  BY <1>2, RankType
<1>4. ASSUME Rank(world.member[x[1]], x[2]) < at PROVE <<"user", x[1], x[3]>> \in Collected
  <2> DEFINE y == <<"user", x[1], x[3]>>
  <2>1. x[3] \in found
    BY <1>2, <1>4 DEF IInv, Gathered
  <2>2. Current.user \in Users /\ x[3] \in Roles
    BY <2>1, FetchingIs DEF IInv, TypeOK
  <2>3. y \in Grant /\ y[1] = "user" /\ y[2] = Current.user /\ y[3] \in found
    BY <2>1, <2>2 DEF Grant
  <2> QED
    BY <2>3 DEF Collected
<1> QED
  BY <1>3, <1>4

LEMMA UserDoneInv == ASSUME IInv, UserDone PROVE IInv'
<1>1. /\ pc = "fetch" /\ at = Cardinality(listed) /\ UNCHANGED <<outside, store, faults>>
      /\ Commit(NextUsers(Front(UserBag)), Collected)
  BY DEF UserDone
<1>2. /\ status = "running" /\ Phase = "user" /\ faults' \in 0 .. MaxFaults
      /\ UserBag = token.bag /\ Current.user # NoUser /\ Current.at \in Nat
  <2>1. 0 \notin Users /\ Frame = [user : Users \cup {0}, at : Nat]
    BY DEF Users, Frame, NoUser
  <2> QED
    BY <1>1, <2>1, FetchingIs, PhaseOfUsers DEF IInv, Shape, TypeOK, NoUser
<1>3. Current.at + 1 \in Nat /\ Current.at + 1 # Current.at
  BY <1>2
<1>4. SetKept => \A x \in always :
        /\ x[1] = Current.user /\ x[1] \notin moved /\ x[2] \in world.member[x[1]]
        /\ Current.at <= Rank(world.member[x[1]], x[2])
        => <<"user", x[1], x[3]>> \in Collected
  BY <1>1, CollectedIs
<1>5. Collected \in SUBSET Grant
  BY <1>1, CollectedIs
<1> QED
  BY <1>1, <1>2, <1>3, <1>4, <1>5, HandedOver

LEMMA FetchFailsInv == ASSUME IInv, FetchFails PROVE IInv'
<1>1. Fetching /\ Faulty /\ pc = "fetch" /\ UNCHANGED <<outside, store>>
  BY DEF FetchFails, Fail, Fetching
<1>2. /\ status = "running" /\ Phase = "user" /\ faults' \in 0 .. MaxFaults
      /\ UserBag = token.bag /\ Current.user # NoUser /\ Current.at \in Nat /\ at \in Nat
      /\ token.bag \in Seq(Frame) /\ token.bag # <<>> /\ Current \in Frame
  <2>1. 0 \notin Users /\ Frame = [user : Users \cup {0}, at : Nat]
    BY DEF Users, Frame, NoUser
  <2> QED
    BY <1>1, <2>1, FaultCounted, FetchingIs, PhaseOfUsers DEF IInv, Shape, TypeOK, NoUser
<1>3. CASE Fail
  BY <1>1, <1>2, <1>3, FailedInv DEF Fail
<1>4. CASE at > Current.at /\ Commit(NextUsers(Append(Front(UserBag), Resume)), Collected)
  <2> DEFINE b == Append(Front(token.bag), Resume)
  <2>1. b # Front(token.bag)
    <3>1. /\ Front(token.bag) \in Seq(Frame) /\ Len(Front(token.bag)) \in Nat
          /\ Resume \in Frame
      BY <1>2, BagEnds, LenProperties DEF Resume, Frame
    <3>2. Len(b) = Len(Front(token.bag)) + 1
      BY <3>1, AppendProperties
    <3> QED
      BY <3>1, <3>2
  <2>2. SetKept => \A x \in always :
          /\ x[1] = Current.user /\ x[1] \notin moved /\ x[2] \in world.member[x[1]]
          /\ Current.at <= Rank(world.member[x[1]], x[2])
          => <<"user", x[1], x[3]>> \in Collected \/ at <= Rank(world.member[x[1]], x[2])
    <3> SUFFICES ASSUME SetKept, NEW x \in always,
                   x[1] = Current.user, x[1] \notin moved, x[2] \in world.member[x[1]],
                   Current.at <= Rank(world.member[x[1]], x[2]),
                   ~(at <= Rank(world.member[x[1]], x[2]))
                 PROVE  <<"user", x[1], x[3]>> \in Collected
      OBVIOUS
    <3>1. Rank(world.member[x[1]], x[2]) \in Nat
      BY <1>1, CollectedIs
    <3>2. Rank(world.member[x[1]], x[2]) < at
      BY <1>2, <3>1
    <3> QED
      BY <1>1, <3>2, CollectedIs
  <2>3. at # Current.at /\ Collected \in SUBSET Grant
    BY <1>1, <1>2, <1>4, CollectedIs
  <2>4. Commit(NextUsers(b), Collected) /\ b = Append(Front(token.bag), [Current EXCEPT !.at = at])
    BY <1>2, <1>4 DEF Resume
  <2> QED
    BY <1>1, <1>2, <2>1, <2>2, <2>3, <2>4, HandedOver
<1> QED
  BY <1>3, <1>4 DEF FetchFails

LEMMA ListUserGroupsInv == ASSUME IInv, ListUserGroups PROVE IInv'
<1> USE DEF outside, store, sync
<1>1. /\ pc = "page" /\ Phase = "user" /\ Current.user # NoUser
      /\ UNCHANGED <<outside, store, faults>>
  BY DEF ListUserGroups
<1>2. status = "running" /\ faults' \in 0 .. MaxFaults
  BY <1>1 DEF IInv, Shape, TypeOK
<1>3. token.phases = <<"user">>
  <2>1. <<>> \in Seq(Frame)
    BY EmptySeq
  <2> QED
    BY <1>1, <2>1, NextUsersIs DEF IInv
<1>4. token.bag \in Seq(Frame) /\ token.bag # <<>> /\ UserBag = token.bag
  BY <1>1 DEF IInv, TypeOK, Token, Current, UserBag, Last
<1>5. Current \in Frame /\ Current.at \in Nat /\ Current.user \in Users
  <2>1. Current \in Frame
    BY <1>4, BagEnds DEF Current
  <2> QED
    BY <1>1, <2>1 DEF Frame
<1> DEFINE L == world.member[Current.user]
<1>6. /\ L \in SUBSET Groups /\ L \in SUBSET (1 .. NumGroups) /\ NumGroups \in Nat
      /\ Cardinality(L) \in Nat /\ Cardinality(L) <= Cardinality(Groups)
      /\ Cardinality(Groups) \in Nat
  <2>1. L \in SUBSET (1 .. NumGroups) /\ NumGroups \in Nat
    BY <1>5, WorldIs, SyncAssumption DEF SyncAssumption, IInv, Groups
  <2>2. 1 .. NumGroups \in SUBSET (1 .. NumGroups)
    OBVIOUS
  <2> QED
    BY <2>1, <2>2, FiniteSets DEF Groups
<1>7. CASE Current.at > Cardinality(L) /\ Commit(NextUsers(Front(UserBag)), {})
  <2>1. \A x \in always :
          ~(/\ x[1] = Current.user /\ x[2] \in world.member[x[1]]
            /\ Current.at <= Rank(world.member[x[1]], x[2]))
    <3> SUFFICES ASSUME NEW g \in L, Current.at <= Rank(L, g) PROVE FALSE
      OBVIOUS
    <3>1. Rank(L, g) \in Nat /\ Rank(L, g) < Cardinality(L)
      BY <1>6, RankType
    <3> QED
      BY <1>5, <1>6, <1>7, <3>1
  <2>2. Current.at + 1 \in Nat /\ Current.at + 1 # Current.at /\ {} \in SUBSET Grant
    BY <1>5
  <2> QED
    BY <1>1, <1>2, <1>4, <1>7, <2>1, <2>2, HandedOver
<1>8. CASE /\ ~(Current.at > Cardinality(L)) /\ pc' = "fetch" /\ listed' = L
           /\ at' = Current.at /\ found' = {} /\ UNCHANGED sync
  <2>1. at' \in 0 .. Cardinality(Groups) /\ at' <= Cardinality(listed')
    BY <1>5, <1>6, <1>8
  <2>2. TypeOK'
    BY <1>1, <1>6, <1>8, <2>1 DEF IInv, TypeOK
  <2>3. Current' = Current
    BY <1>8 DEF Current, UserBag
  <2>4. Current.at <= at'
    BY <1>5, <1>8
  <2>5. Shape'
    BY <1>1, <1>2, <1>3, <1>4, <1>8, <2>1, <2>3, <2>4 DEF IInv, Shape
  <2>6. Truthful' /\ SetInv' /\ GroupsReported' /\ UsersReported'
    <3>1. Truthful'
      BY <1>1 DEF IInv, Truthful, NegativeTrue, Reasons, Causes, Gives
    <3>2. SetInv'
      BY <1>1, <1>8 DEF IInv, SetInv, SetComplete
    <3>3. GroupsReported' /\ UsersReported'
      BY <1>1, <1>8 DEF IInv, GroupsReported, GroupPast, UsersReported, UserPast, Reported, Waiting
    <3> QED
      BY <3>1, <3>2, <3>3
  <2>7. Gathered'
    <3> SUFFICES ASSUME NEW g \in L, Current.at <= Rank(L, g), Rank(L, g) < Current.at
                 PROVE  FALSE
      BY <1>1, <1>8, <2>3 DEF Gathered
    <3>1. Rank(L, g) \in Nat
      BY <1>6, RankType
    <3> QED
      BY <1>5, <3>1
  <2> QED
    BY <2>2, <2>5, <2>6, <2>7 DEF IInv
<1> QED
  BY <1>7, <1>8 DEF ListUserGroups, GroupsListed

-----------------------------------------------------------------------------
(* Pages of users and of groups. *)

\* The users put off: a frame for each of them.
LEMMA InOrderIs ==
  ASSUME NEW n \in Nat, NEW U \in SUBSET (1 .. n), NEW put \in InOrder(U)
  PROVE  /\ put \in Seq([user : U, at : {0}])
         /\ \A u \in U : \E i \in DOMAIN put : put[i].user = u /\ put[i].at = 0
<1> DEFINE c == Cardinality(U)
           f == [i \in 1 .. c |-> put[i].user]
<1>1. IsFiniteSet(U) /\ c \in Nat
  BY FiniteSets
<1>2. put \in [1 .. c -> [user : U, at : {0}]]
      /\ \A i, j \in 1 .. c : i < j => put[i].user < put[j].user
  BY DEF InOrder
<1>3. put \in Seq([user : U, at : {0}])
  <2> DEFINE F == [user : U, at : {0}]
  <2> HIDE DEF F
  <2>1. put \in [1 .. c -> F]
    BY <1>2 DEF F
  <2>2. put \in UNION {[1 .. m -> F] : m \in Nat}
    BY <1>1, <2>1
  <2>3. put \in Seq(F)
    BY <2>2, SeqDef
  <2> QED
    BY <2>3 DEF F
<1>4. f \in [1 .. c -> U]
  BY <1>2
<1>5. f \in Injection(1 .. c, U)
  <2> SUFFICES ASSUME NEW i \in 1 .. c, NEW j \in 1 .. c, f[i] = f[j] PROVE i = j
    BY <1>4 DEF Injection, IsInjective
  <2>0. put[i] \in [user : U, at : {0}] /\ put[j] \in [user : U, at : {0}]
    BY <1>2
  <2>1. put[i].user \in Nat /\ put[j].user \in Nat /\ put[i].user = put[j].user
    <3>1. put[i].user \in 1 .. n /\ put[j].user \in 1 .. n
      BY <2>0
    <3>2. put[i].user = put[j].user
      OBVIOUS
    <3> QED
      BY <3>1, <3>2
  <2>2. ~(i < j) /\ ~(j < i)
    BY <1>2, <2>1
  <2> QED
    BY <1>1, <2>2
<1>6. IsFiniteSet(1 .. c) /\ Cardinality(1 .. c) = c
  <2>1. 1 \in Int /\ c \in Int
    BY <1>1
  <2>2. IsFiniteSet(1 .. c) /\ Cardinality(1 .. c) = IF 1 > c THEN 0 ELSE c - 1 + 1
    BY <2>1, FS_Interval
  <2> QED
    BY <1>1, <2>2
<1>7. f \in Surjection(1 .. c, U)
  BY <1>1, <1>5, <1>6, FS_Injection
<1>8. \A u \in U : \E i \in 1 .. c : put[i].user = u
  BY <1>7 DEF Surjection
<1> QED
  BY <1>2, <1>3, <1>8

LEMMA GroupsCommitted ==
  ASSUME IInv, status = "running", Phase = "group", faults' \in 0 .. MaxFaults, UNCHANGED outside,
         settings' \in BOOLEAN, appGroup' \in [Groups -> {NoEntry} \cup SUBSET Roles],
         notAppGroup' \in SUBSET Groups, appGroupIDSet' \in {NoEntry} \cup SUBSET Groups,
         Truthful',
         NEW S \in SUBSET Groups, NEW G \in SUBSET Grant, NEW k, k = NextPage(S, token.after),
         Commit(NextGroups(k), G),
         \A x \in always : x[1] = 0 => x[2] \in S,
         \A x \in always : x[1] = 0 /\ x[2] \in PageOf(S, token.after)
                           => <<"group", x[2], x[3]>> \in G,
         SetKept /\ ~conf.useGroupMapping =>
           /\ k # 0 => appGroupIDSet' # NoEntry
           /\ appGroupIDSet' # NoEntry =>
                \A x \in always : x[1] = 0 /\ (k = 0 \/ x[2] <= k) => x[2] \in appGroupIDSet'
  PROVE  IInv'
<1> USE DEF outside
<1>1. NumGroups \in Nat /\ S \in SUBSET (1 .. NumGroups) /\ token.after \in Nat /\ token \in Token
  BY SyncAssumption DEF SyncAssumption, Groups, IInv, TypeOK, Token
<1>2. /\ k \in Nat /\ (k # 0 => k > token.after)
      /\ \A g \in S : g > token.after /\ (k = 0 \/ g <= k) => g \in PageOf(S, token.after)
  <2>1. /\ k \in 0 .. NumGroups /\ (k # 0 => k > token.after /\ k \in PageOf(S, token.after))
        /\ \A g \in S : g > token.after /\ (k = 0 \/ g <= k) => g \in PageOf(S, token.after)
    BY <1>1, NextPageSound
  <2> QED
    BY <1>1, <2>1
<1>3. /\ NextGroups(k) \in Token
      /\ NextGroups(k).after = k /\ NextGroups(k).bag = <<>> /\ token.bag = <<>>
      /\ token.phases \in IF conf.useGroupMapping THEN {<<>>, <<"group">>}
                                                  ELSE {<<>>, <<"user", "group">>}
      /\ NextGroups(k).phases =
           IF conf.useGroupMapping THEN (IF k = 0 THEN <<>> ELSE <<"group">>)
                                   ELSE (IF k = 0 THEN <<"user">> ELSE <<"user", "group">>)
  BY <1>2, NextGroupsIs DEF IInv
<1>4. /\ <<"user">> # <<>> /\ <<"group">> # <<>> /\ <<"user", "group">> # <<>>
      /\ <<"user">> # <<"group">> /\ <<"user">> # <<"user", "group">>
      /\ <<"group">> # <<"user", "group">>
  OBVIOUS
<1>5. token.phases = <<>> => token = StartToken /\ token.after = 0
  BY DEF IInv, Shape, StartToken
<1>6. ~(NextGroups(k) = token /\ NextGroups(k) # StartToken)
  <2> SUFFICES ASSUME NextGroups(k) = token, token # StartToken PROVE FALSE
    OBVIOUS
  <2>1. token.phases # <<>>
    BY <1>5
  <2>2. k # 0
    BY <1>3, <1>4, <2>1
  <2> QED
    BY <1>1, <1>2, <1>3, <2>2
<1>7. /\ pc' = "idle" /\ listed' = {} /\ at' = 0 /\ found' = {}
      /\ token' = NextGroups(k) /\ reported' = reported \cup G
      /\ status' = IF NextGroups(k).phases = <<>> THEN "done" ELSE "running"
  BY <1>6 DEF Commit, EndCall
<1>8. TypeOK'
  <2>1. Cardinality(Groups) \in Nat
    BY SyncAssumption, FiniteSets DEF SyncAssumption, Groups
  <2>2. reported' \in SUBSET Grant
    BY <1>7 DEF IInv, TypeOK
  <2> QED
    BY <1>3, <1>7, <2>1, <2>2 DEF IInv, TypeOK
<1>9. token'.bag = <<>> /\ token'.after = k /\ token'.phases = NextGroups(k).phases
  BY <1>3, <1>7
<1>10. Shape'
  BY <1>3, <1>4, <1>7, <1>9 DEF Shape
<1>11. SetInv'
  BY <1>3, <1>4, <1>7, <1>9 DEF SetInv, SetComplete
<1>12. GroupsReported'
  <2> SUFFICES ASSUME NEW x \in always, x[1] = 0, GroupPast(x[2])'
               PROVE  <<"group", x[2], x[3]>> \in reported'
    BY DEF GroupsReported
  <2>1. x[2] \in S /\ x[2] \in Nat \ {0}
    BY <1>1
  <2>2. k = 0 \/ x[2] <= k
    BY <1>3, <1>4, <1>7, <1>9, <2>1 DEF GroupPast
  <2>3. CASE x[2] > token.after
    BY <1>2, <1>7, <2>1, <2>2, <2>3
  <2>4. CASE ~(x[2] > token.after)
    <3>1. x[2] <= token.after /\ token.after # 0
      BY <1>1, <2>1, <2>4
    <3>2. GroupPast(x[2])
      BY <1>5, <3>1 DEF GroupPast
    <3> QED
      BY <1>7, <3>2 DEF IInv, GroupsReported
  <2> QED
    BY <2>3, <2>4
<1>13. UsersReported'
  <2>1. ~conf.useGroupMapping => \A u : ~UserPast(u)'
    BY <1>3, <1>4, <1>7, <1>9 DEF UserPast
  <2> QED
    BY <2>1 DEF UsersReported
<1>14. Gathered'
  BY <1>7 DEF Gathered
<1> QED
  BY <1>8, <1>10, <1>11, <1>12, <1>13, <1>14 DEF IInv

LEMMA MappedGroupPageInv == ASSUME IInv, MappedGroupPage PROVE IInv'
<1> USE DEF outside, store
<1> DEFINE P == PageOf(Groups, token.after)
           k == NextPage(Groups, token.after)
           G == {x \in Grant : x[1] = "group" /\ x[2] \in P /\ x[3] \in NameRoles[x[2]]}
<1>1. /\ Phase = "group" /\ conf.useGroupMapping /\ status = "running"
      /\ UNCHANGED <<outside, store, faults>> /\ Commit(NextGroups(k), G)
  BY DEF MappedGroupPage, IInv, Shape
<1>2. Truthful'
  BY <1>1 DEF IInv, Truthful, NegativeTrue, Reasons, Causes, Gives
<1>3. \A x \in always : x[1] = 0 => x[2] \in Groups /\ x[3] \in NameRoles[x[2]] /\ x[3] \in Roles
  <2> SUFFICES ASSUME NEW x \in always, x[1] = 0
               PROVE  x[2] \in Groups /\ x[3] \in NameRoles[x[2]] /\ x[3] \in Roles
    OBVIOUS
  <2>1. x \in Reason /\ x[2] \in Groups /\ Gives(world, x[2], x[3])
    BY ReasonIs DEF IInv, Truthful
  <2> QED
    BY <1>1, <2>1 DEF Gives, Reason
<1>4. ASSUME NEW x \in always, x[1] = 0, x[2] \in P PROVE <<"group", x[2], x[3]>> \in G
  <2> DEFINE y == <<"group", x[2], x[3]>>
  <2>1. y \in Grant /\ y[1] = "group" /\ y[2] = x[2] /\ y[3] = x[3]
    BY <1>3, <1>4 DEF Grant
  <2> QED
    BY <1>3, <1>4, <2>1
<1>5. G \in SUBSET Grant /\ Groups \in SUBSET Groups /\ faults' \in 0 .. MaxFaults
      /\ settings' \in BOOLEAN /\ appGroup' \in [Groups -> {NoEntry} \cup SUBSET Roles]
      /\ notAppGroup' \in SUBSET Groups /\ appGroupIDSet' \in {NoEntry} \cup SUBSET Groups
  BY <1>1 DEF IInv, TypeOK
<1> HIDE DEF G
<1> QED
  BY <1>1, <1>2, <1>3, <1>4, <1>5, GroupsCommitted

LEMMA GroupPageInv == ASSUME IInv, GroupPage PROVE IInv'
<1> USE DEF outside, store
<1> DEFINE S == world.appGroups
           P == PageOf(S, token.after)
           k == NextPage(S, token.after)
           G == {x \in Grant : x[1] = "group" /\ x[2] \in P /\ x[3] \in world.groupRoles[x[2]]}
           wanted == P # {} /\ (token.after # 0 \/ k # 0 \/ Cardinality(P) >= LargeCollection)
<1>1. /\ Phase = "group" /\ ~conf.useGroupMapping /\ status = "running"
      /\ UNCHANGED <<outside, settings, notAppGroup, faults>> /\ Commit(NextGroups(k), G)
      /\ appGroupIDSet' \in {Extended(P), appGroupIDSet}
      /\ SetKept => appGroupIDSet' = IF wanted THEN Extended(P) ELSE appGroupIDSet
  BY DEF GroupPage, SetKept, Takes, IInv, Shape
<1>2. PICK took \in [P -> Takes("appGroup")] :
        appGroup' = [g \in Groups |-> IF g \in P /\ took[g] THEN world.groupRoles[g] ELSE appGroup[g]]
  BY DEF GroupPage
<1>3. /\ NumGroups \in Nat /\ S \in SUBSET (1 .. NumGroups) /\ S \in SUBSET Groups
      /\ world.groupRoles \in [Groups -> SUBSET Roles] /\ token.after \in Nat
      /\ appGroup \in [Groups -> {NoEntry} \cup SUBSET Roles] /\ notAppGroup \in SUBSET Groups
      /\ appGroupIDSet \in {NoEntry} \cup SUBSET Groups
  BY WorldIs, SyncAssumption DEF SyncAssumption, Groups, IInv, TypeOK, Token
<1>4. /\ P \subseteq {g \in S : g > token.after} /\ k \in Nat
      /\ k # 0 => k \in P
      /\ \A g \in S : g > token.after /\ (k = 0 \/ g <= k) => g \in P
  <2>1. /\ P \subseteq {g \in S : g > token.after}
        /\ k \in 0 .. NumGroups /\ (k # 0 => k > token.after /\ k \in P)
        /\ \A g \in S : g > token.after /\ (k = 0 \/ g <= k) => g \in P
    BY <1>3, NextPageSound
  <2> QED
    BY <1>3, <2>1
<1>5. \A x \in always : x[1] = 0 => x[2] \in S /\ x[3] \in world.groupRoles[x[2]] /\ x[3] \in Roles
  <2> SUFFICES ASSUME NEW x \in always, x[1] = 0
               PROVE  x[2] \in S /\ x[3] \in world.groupRoles[x[2]] /\ x[3] \in Roles
    OBVIOUS
  <2>1. x \in Reason /\ Gives(world, x[2], x[3])
    BY ReasonIs DEF IInv, Truthful
  <2> QED
    BY <1>1, <2>1 DEF Gives, Reason
<1>6. appGroup' \in [Groups -> {NoEntry} \cup SUBSET Roles]
  BY <1>2, <1>3
<1>7. Truthful'
  <2>1. \A x \in always : x[1] = 0 /\ appGroup'[x[2]] # NoEntry => x[3] \in appGroup'[x[2]]
    <3> SUFFICES ASSUME NEW x \in always, x[1] = 0, appGroup'[x[2]] # NoEntry
                 PROVE  x[3] \in appGroup'[x[2]]
      OBVIOUS
    <3>1. x[2] \in Groups /\ x[3] \in world.groupRoles[x[2]]
      BY <1>3, <1>5
    <3>2. appGroup'[x[2]] \in {world.groupRoles[x[2]], appGroup[x[2]]}
      BY <1>2, <3>1
    <3> QED
      BY <3>1, <3>2 DEF IInv, Truthful
  <2> QED
    BY <1>1, <2>1 DEF IInv, Truthful, NegativeTrue, Reasons, Causes, Gives
<1>8. ASSUME NEW x \in always, x[1] = 0, x[2] \in P PROVE <<"group", x[2], x[3]>> \in G
  <2> DEFINE y == <<"group", x[2], x[3]>>
  <2>1. y \in Grant /\ y[1] = "group" /\ y[2] = x[2] /\ y[3] = x[3]
    BY <1>3, <1>5, <1>8 DEF Grant
  <2> QED
    BY <1>5, <1>8, <2>1
<1>9. Extended(P) \in SUBSET Groups /\ Extended(P) # NoEntry /\ P \subseteq Extended(P)
      /\ (appGroupIDSet # NoEntry => appGroupIDSet \subseteq Extended(P))
  <2>1. Extended(P) \in SUBSET Groups
    BY <1>3, <1>4 DEF Extended
  <2> QED
    BY <2>1, SyncAssumption DEF SyncAssumption, Extended
<1>10. appGroupIDSet' \in {NoEntry} \cup SUBSET Groups
  BY <1>1, <1>3, <1>9
<1>11. SetKept =>
       \/ token.phases = <<>> /\ token.after = 0 /\ appGroupIDSet = NoEntry
       \/ token.phases = <<"user", "group">> /\ token.after # 0 /\ appGroupIDSet # NoEntry
  <2>1. token.phases \in {<<>>, <<"user", "group">>}
    BY <1>1, <1>4, NextGroupsIs DEF IInv
  <2> QED
    BY <1>1, <2>1 DEF IInv, SetInv, Shape, StartToken
<1>12. SetKept /\ k # 0 => appGroupIDSet' # NoEntry
  BY <1>1, <1>4, <1>9
<1>13. ASSUME SetKept, appGroupIDSet' # NoEntry, NEW x \in always, x[1] = 0, k = 0 \/ x[2] <= k
       PROVE  x[2] \in appGroupIDSet'
  <2>1. x[2] \in S /\ x[2] \in Nat \ {0}
    BY <1>3, <1>5, <1>13
  <2>2. CASE x[2] > token.after
    <3>1. x[2] \in P
      BY <1>4, <1>13, <2>1, <2>2
    <3>2. wanted
      BY <1>1, <1>11, <1>13, <3>1
    <3> QED
      BY <1>1, <1>9, <1>13, <3>1, <3>2
  <2>3. CASE ~(x[2] > token.after)
    <3>1. x[2] <= token.after /\ token.after # 0
      BY <1>3, <2>1, <2>3
    <3>2. x[2] \in appGroupIDSet /\ appGroupIDSet # NoEntry
      BY <1>11, <1>13, <3>1 DEF IInv, SetInv
    <3> QED
      BY <1>1, <1>9, <1>13, <3>2
  <2> QED
    BY <2>2, <2>3
<1>14. G \in SUBSET Grant /\ faults' \in 0 .. MaxFaults /\ settings' \in BOOLEAN
       /\ notAppGroup' \in SUBSET Groups
  BY <1>1 DEF IInv, TypeOK
<1> HIDE DEF G
<1> QED
  BY <1>1, <1>3, <1>5, <1>6, <1>7, <1>8, <1>10, <1>12, <1>13, <1>14, GroupsCommitted

\* A user a page of users went by has been reported, or put off.
LEMMA PageCovers ==
  ASSUME IInv, token.phases = <<"user">>, ~conf.useGroupMapping,
         NEW P \in SUBSET Users, NEW G, UNCHANGED outside,
         G = {x \in Grant : /\ x[1] = "user" /\ x[2] \in P /\ Inline(x[2])
                            /\ x[3] \in Profile(x[2])},
         reported' = reported \cup G,
         NEW x \in always, x[1] # 0, x[1] \in P
  PROVE  Reported(x)' \/ (x[2] # 0 /\ PutOff(x[1]))
<1> USE DEF outside
<1>1. x \in Reasons(world) /\ x[1] \in Users /\ x[3] \in Roles
  BY DEF IInv, Truthful, TypeOK, Reason
<1>2. \/ x[2] = 0 /\ x[1] \in world.direct /\ x[3] \in world.own[x[1]]
      \/ /\ x[2] # 0 /\ x[2] \in Groups /\ x[2] \in world.member[x[1]]
         /\ Gives(world, x[2], x[3])
         /\ x[1] \notin world.direct \/ conf.joinAllRoles
  BY <1>1, ReasonIs
<1> DEFINE y == <<"user", x[1], x[3]>>
<1>3. y \in Grant /\ y[1] = "user" /\ y[2] = x[1] /\ y[3] = x[3]
  BY <1>1 DEF Grant
<1>4. CASE x[2] = 0
  <2>1. y \in G
    BY <1>2, <1>3, <1>4 DEF Inline, Profile
  <2> QED
    BY <2>1 DEF Reported
<1>5. CASE x[2] # 0 /\ conf.joinAllRoles
  <2> DEFINE z == <<0, x[2], x[3]>>
  <2>1. z \in always /\ z[1] = 0 /\ z[2] = x[2] /\ z[3] = x[3]
    BY <1>5 DEF IInv, Truthful
  <2>2. <<"group", x[2], x[3]>> \in reported
    BY <2>1 DEF IInv, GroupsReported, GroupPast
  <2> QED
    BY <1>2, <1>5, <2>2 DEF Reported
<1>6. CASE x[2] # 0 /\ ~conf.joinAllRoles /\ conf.samlRolesUnionEnabled
  <2>1. x[3] \in RolesThrough(world, x[1])
    BY <1>2, <1>6 DEF RolesThrough, Gives
  <2>2. y \in G
    BY <1>2, <1>3, <1>6, <2>1 DEF Inline, Profile
  <2> QED
    BY <2>2 DEF Reported
<1>7. CASE x[2] # 0 /\ ~conf.joinAllRoles /\ ~conf.samlRolesUnionEnabled
  BY <1>2, <1>7 DEF PutOff, Inline
<1> QED
  BY <1>4, <1>5, <1>6, <1>7

\* When the next page of users is read, only its state is in the bag.
LEMMA PageStateIs ==
  ASSUME TypeOK, Shape, Phase = "user", Current.user = NoUser
  PROVE  /\ Front(UserBag) = <<>> /\ Current.at \in Nat
         /\ \/ token.bag = <<>> /\ Current.at = 0
            \/ token.bag = <<[user |-> NoUser, at |-> Current.at]>>
<1>0. token.bag \in Seq(Frame)
  BY DEF TypeOK, Token
<1>1. CASE token.bag = <<>>
  <2>1. UserBag = <<[user |-> NoUser, at |-> 0]>>
    BY <1>1 DEF UserBag
  <2>2. Current = [user |-> NoUser, at |-> 0] /\ Front(UserBag) = <<>>
    BY <2>1 DEF Current, Last, Front
  <2> QED
    BY <1>1, <2>2
<1>2. CASE token.bag # <<>>
  <2> DEFINE n == Len(token.bag)
  <2>1. /\ n \in Nat \ {0} /\ DOMAIN token.bag = 1 .. n /\ UserBag = token.bag
        /\ Current = token.bag[n] /\ Current \in Frame
        /\ Front(token.bag) \in Seq(Frame) /\ Len(Front(token.bag)) = n - 1
    BY <1>0, <1>2, BagEnds DEF Current, UserBag
  <2>2. n \in 1 .. n
    BY <2>1
  <2>3. n = 1
    BY <2>1, <2>2 DEF Shape
  <2>4. Front(UserBag) = <<>>
    BY <2>1, <2>3, EmptySeq
  <2>5. Current = [user |-> NoUser, at |-> Current.at] /\ Current.at \in Nat
    BY <2>1 DEF Frame
  <2>6. token.bag = <<Current>>
    <3>1. \A i \in 1 .. n : token.bag[i] = <<Current>>[i]
      BY <2>1, <2>3
    <3>2. <<Current>> \in Seq(Frame) /\ Len(<<Current>>) = 1
      BY <2>1
    <3> QED
      BY <1>0, <2>3, <3>1, <3>2, SeqEqual
  <2> QED
    BY <2>4, <2>5, <2>6
<1> QED
  BY <1>1, <1>2

\* The bag after a page of users: the state of the next page, if there is one,
\* and those of the users put off.
Later(k) == IF k = 0 THEN <<>> ELSE <<[user |-> NoUser, at |-> k]>>
NextBag(k, put) == Later(k) \o put

LEMMA NextBagIs ==
  ASSUME NEW k \in Nat, NEW U \in SUBSET Users, NEW put \in InOrder(U)
  PROVE  /\ Later(k) \in Seq(Frame) /\ NextBag(k, put) \in Seq(Frame)
         /\ k # 0 => NextBag(k, put) # <<>> /\ NextBag(k, put)[1] = [user |-> NoUser, at |-> k]
         /\ \A i \in DOMAIN NextBag(k, put) :
              \/ NextBag(k, put)[i].user = NoUser /\ i = 1 /\ k # 0
              \/ NextBag(k, put)[i].user \in Users /\ NextBag(k, put)[i].at = 0
         /\ \A u \in U : \E i \in DOMAIN NextBag(k, put) :
              NextBag(k, put)[i].user = u /\ NextBag(k, put)[i].at = 0
<1> DEFINE F == [user |-> NoUser, at |-> k]
           later == Later(k)
           b == NextBag(k, put)
           m == Len(later)
<1>1. NumUsers \in Nat /\ U \in SUBSET (1 .. NumUsers)
  BY SyncAssumption DEF SyncAssumption, Users
<1>2. /\ put \in Seq([user : U, at : {0}])
      /\ \A u \in U : \E i \in DOMAIN put : put[i].user = u /\ put[i].at = 0
  BY <1>1, InOrderIs
<1>3. F \in Frame /\ later \in Seq(Frame) /\ put \in Seq(Frame)
      /\ \A i \in DOMAIN put : put[i].user \in Users /\ put[i].at = 0
  <2>1. F \in Frame
    BY DEF Frame
  <2>2. later \in Seq(Frame)
    BY <2>1, EmptySeq DEF Later
  <2>3. [user : U, at : {0}] \subseteq Frame
    <3>1. \A v \in U : v \in Users \cup {NoUser}
      OBVIOUS
    <3>2. 0 \in Nat
      OBVIOUS
    <3> QED
      BY <3>1, <3>2 DEF Frame
  <2>4. \A i \in DOMAIN put : put[i] \in [user : U, at : {0}]
    BY <1>2, ElementOfSeq, LenProperties
  <2>5. put \in Seq(Frame)
    BY <1>2, <2>3, <2>4, LenProperties
  <2> QED
    BY <2>1, <2>2, <2>4, <2>5
<1>4. /\ m \in Nat /\ Len(put) \in Nat
      /\ (k = 0 => m = 0) /\ (k # 0 => m = 1 /\ later[1] = F)
  BY <1>3, LenProperties DEF Later
<1>5. /\ b \in Seq(Frame) /\ DOMAIN b = 1 .. (m + Len(put)) /\ Len(b) = m + Len(put)
      /\ DOMAIN put = 1 .. Len(put)
      /\ \A i \in 1 .. (m + Len(put)) : b[i] = IF i <= m THEN later[i] ELSE put[i - m]
  BY <1>3, ConcatProperties, LenProperties DEF NextBag
<1> HIDE DEF later, b, m
<1>6. k # 0 => b # <<>> /\ b[1] = F
  <2> SUFFICES ASSUME k # 0 PROVE b # <<>> /\ b[1] = F
    OBVIOUS
  <2>1. 1 \in 1 .. (m + Len(put)) /\ 1 <= m
    BY <1>4
  <2> QED
    BY <1>4, <1>5, <2>1
<1>7. ASSUME NEW i \in DOMAIN b
      PROVE  \/ b[i].user = NoUser /\ i = 1 /\ k # 0
             \/ b[i].user \in Users /\ b[i].at = 0
  <2>1. i \in 1 .. (m + Len(put))
    BY <1>5
  <2>2. CASE i <= m
    <3>1. i \in Nat \ {0}
      BY <1>4, <2>1
    <3>2. k # 0 /\ m = 1
      BY <1>4, <2>2, <3>1
    <3>3. i = 1
      BY <2>2, <3>1, <3>2
    <3> QED
      BY <1>6, <3>2, <3>3
  <2>3. CASE ~(i <= m)
    <3>1. i - m \in 1 .. Len(put)
      BY <1>4, <2>1, <2>3
    <3> QED
      BY <1>3, <1>5, <2>1, <2>3, <3>1
  <2> QED
    BY <2>2, <2>3
<1>8. ASSUME NEW u \in U PROVE \E i \in DOMAIN b : b[i].user = u /\ b[i].at = 0
  <2>1. PICK i \in DOMAIN put : put[i].user = u /\ put[i].at = 0
    BY <1>2
  <2>2. m + i \in 1 .. (m + Len(put)) /\ ~(m + i <= m) /\ (m + i) - m = i
    BY <1>4, <1>5
  <2>3. m + i \in DOMAIN b /\ b[m + i] = put[i]
    BY <1>5, <2>2
  <2> QED
    BY <2>1, <2>3
<1> QED
  BY <1>3, <1>5, <1>6, <1>7, <1>8 DEF b, later

LEMMA UserPageInv == ASSUME IInv, UserPage PROVE IInv'
<1> USE DEF outside, store
<1> DEFINE S == AppUsers(world)
           P == PageOf(S, Current.at)
           k == NextPage(S, Current.at)
           later == IF k = 0 THEN <<>> ELSE <<[user |-> NoUser, at |-> k]>>
           U == {u \in P : PutOff(u)}
           G == {x \in Grant : /\ x[1] = "user" /\ x[2] \in P /\ Inline(x[2])
                               /\ x[3] \in Profile(x[2])}
<1>1. /\ pc = "page" /\ Phase = "user" /\ Current.user = NoUser
      /\ UNCHANGED <<outside, store, faults>>
  BY DEF UserPage
<1>2. PICK put \in InOrder(U) : Commit(NextUsers(Front(UserBag) \o later \o put), G)
  BY DEF UserPage
<1>3. status = "running" /\ faults' \in 0 .. MaxFaults
  BY <1>1 DEF IInv, Shape, TypeOK
<1>4. <<>> \in Seq(Frame)
  BY EmptySeq
<1>5. token.phases = <<"user">> /\ ~conf.useGroupMapping /\ token.bag \in Seq(Frame)
  BY <1>1, <1>4, NextUsersIs DEF IInv, TypeOK, Token
<1>6. /\ Front(UserBag) = <<>> /\ Current.at \in Nat
      /\ \/ token.bag = <<>> /\ Current.at = 0
         \/ token.bag = <<[user |-> NoUser, at |-> Current.at]>>
  BY <1>1, PageStateIs DEF IInv
<1>7. /\ NumUsers \in Nat /\ S \in SUBSET (1 .. NumUsers) /\ S \in SUBSET Users
  BY WorldIs, SyncAssumption DEF SyncAssumption, IInv, AppUsers, Users
<1>8. /\ P \subseteq {u \in S : u > Current.at} /\ k \in Nat
      /\ k # 0 => k > Current.at
      /\ \A u \in S : u > Current.at /\ (k = 0 \/ u <= k) => u \in P
  <2>1. /\ P \subseteq {u \in S : u > Current.at} /\ k \in 0 .. NumUsers
        /\ k # 0 => k > Current.at /\ k \in P
        /\ \A u \in S : u > Current.at /\ (k = 0 \/ u <= k) => u \in P
    BY <1>6, <1>7, NextPageSound
  <2> QED
    BY <1>7, <2>1
<1>9. /\ P \in SUBSET Users /\ U \in SUBSET (1 .. NumUsers)
  BY <1>7, <1>8 DEF Users
<1> DEFINE F == [user |-> NoUser, at |-> k]
           b == NextBag(k, put)
<1> HIDE DEF k
<1>13. Later(k) \in Seq(Frame) /\ b \in Seq(Frame)
  BY <1>8, <1>9, NextBagIs DEF Users
<1>14. /\ k # 0 => b # <<>> /\ b[1] = F
       /\ \A i \in DOMAIN b : b[i].user = NoUser => i = 1 /\ k # 0
       /\ \A u \in U : \E i \in DOMAIN b : b[i].user = u /\ b[i].at = 0
  <2>1. NoUser \notin Users
    BY DEF NoUser, Users
  <2> QED
    BY <1>8, <1>9, <2>1, NextBagIs DEF Users
<1> HIDE DEF F
<1>15. F.user = NoUser /\ F.at = k
  BY DEF F
<1>16. Commit(NextUsers(b), G)
  <2>1. Front(UserBag) \o Later(k) = Later(k)
    BY <1>6, <1>13, ConcatEmptySeq
  <2> QED
    BY <1>2, <2>1 DEF NextBag, Later, k
<1> HIDE DEF G, b
<1>17. NextUsers(b) # token
  <2>1. NextUsers(b).bag = b /\ NextUsers(b).phases = IF b = <<>> THEN <<>> ELSE <<"user">>
    BY <1>1, <1>13, NextUsersIs DEF IInv
  <2>2. <<"user">> # <<>>
    OBVIOUS
  <2>3. CASE b = <<>>
    BY <1>5, <2>1, <2>2, <2>3
  <2>4. CASE b # <<>>
    <3> SUFFICES ASSUME b = token.bag PROVE FALSE
      BY <2>1
    <3>1. b = <<[user |-> NoUser, at |-> Current.at]>>
      BY <1>6, <2>4
    <3>2. 1 \in DOMAIN b /\ b[1].user = NoUser /\ b[1].at = Current.at
      BY <3>1
    <3>3. k # 0 /\ b[1].at = k
      BY <1>14, <1>15, <3>2
    <3> QED
      BY <1>6, <1>8, <3>2, <3>3
  <2> QED
    BY <2>3, <2>4
<1>18. ASSUME SetKept, reported' = reported \cup G, NEW x \in always, x[1] # 0, x[1] \notin moved,
              b # <<>> /\ b[1].user = NoUser => x[1] <= b[1].at
       PROVE  \/ Reported(x)'
              \/ /\ x[2] # 0
                 /\ \E i \in DOMAIN b : /\ b[i].user = x[1]
                                        /\ b[i].at <= Rank(world.member[x[1]], x[2])
  <2>1. x[1] \in Users /\ x[1] \in Nat
    BY <1>7, <1>18 DEF IInv, TypeOK, Reason, Users
  <2>2. x[1] \in S
    <3>1. \/ x[1] \in world.direct
          \/ x[2] \in world.member[x[1]] /\ Gives(world, x[2], x[3])
      BY <1>18, ReasonIs DEF IInv, Truthful
    <3> QED
      BY <1>5, <2>1, <3>1 DEF AppUsers, Gives
  <2>3. k = 0 \/ x[1] <= k
    BY <1>14, <1>15, <1>18
  <2>4. CASE ~(x[1] > Current.at)
    <3>1. x[1] <= Current.at /\ Current.at # 0
      BY <1>6, <1>18, <2>1, <2>4
    <3>2. token.bag = <<[user |-> NoUser, at |-> Current.at]>>
      BY <1>6, <3>1
    <3>3. UserPast(x[1])
      BY <1>5, <3>1, <3>2 DEF UserPast
    <3>4. ~Waiting(x[1], x[2])
      BY <1>18, <3>2 DEF Waiting, NoUser
    <3>5. Reported(x)
      BY <1>5, <1>18, <3>3, <3>4 DEF IInv, UsersReported
    <3> QED
      BY <1>1, <1>18, <3>5, StaysReported
  <2>5. CASE x[1] > Current.at
    <3>1. x[1] \in P
      BY <1>8, <2>2, <2>3, <2>5
    <3>2. Reported(x)' \/ (x[2] # 0 /\ PutOff(x[1]))
      BY <1>1, <1>5, <1>9, <1>18, <3>1, PageCovers DEF G
    <3>3. CASE x[2] # 0 /\ PutOff(x[1])
      <4>1. PICK i \in DOMAIN b : b[i].user = x[1] /\ b[i].at = 0
        BY <1>14, <3>1, <3>3
      <4>2. Rank(world.member[x[1]], x[2]) \in Nat
        <5>1. /\ x[2] \in world.member[x[1]] /\ world.member[x[1]] \in SUBSET (1 .. NumGroups)
              /\ NumGroups \in Nat
          BY <1>18, <2>1, <3>3, ReasonIs, WorldIs, SyncAssumption
             DEF IInv, Truthful, SyncAssumption, Groups
        <5> QED
          BY <5>1, RankType
      <4>3. 0 <= Rank(world.member[x[1]], x[2])
        BY <4>2
      <4> QED
        BY <3>3, <4>1, <4>3
    <3> QED
      BY <3>2, <3>3
  <2> QED
    BY <2>4, <2>5
<1>19. G \in SUBSET Grant
  BY DEF G
<1>20. \A i \in DOMAIN b : b[i].user = NoUser => i = 1
  BY <1>14
<1>21. b \in Seq(Frame)
  BY <1>13
<1> QED
  BY <1>1, <1>3, <1>16, <1>17, <1>18, <1>19, <1>20, <1>21, UsersCommitted

-----------------------------------------------------------------------------
(* The theorems. *)

LEMMA NextInv == ASSUME IInv, [Next]_vars PROVE IInv'
<1>1. CASE Page
  BY <1>1, CallInv, CallFailsInv, ListFailsInv, MappedGroupPageInv, GroupPageInv, UserPageInv,
     ListUserGroupsInv, UserNotFoundInv, FromStoreInv, FromOktaInv, FetchFailsInv,
     UserDoneInv, CrashInv DEF Page
<1>2. CASE Evict
  BY <1>2, EvictInv
<1>3. CASE OktaChanges
  BY <1>3, OktaChangesInv
<1>4. CASE UNCHANGED vars
  <2>1. UNCHANGED <<conf, world, always, ever, moved, changes, settings, appGroup, notAppGroup,
                    appGroupIDSet, token, status, reported, pc, listed, at, found, faults>>
    BY <1>4 DEF vars, outside, store, sync, call
  <2>2. TypeOK' /\ Shape'
    BY <2>1 DEF IInv, TypeOK, Shape, Current, UserBag
  <2>3. Truthful' /\ SetInv'
    BY <2>1 DEF IInv, Truthful, NegativeTrue, Reasons, Causes, Gives, SetInv, SetComplete
  <2>4. GroupsReported' /\ UsersReported' /\ Gathered'
    BY <2>1 DEF IInv, GroupsReported, GroupPast, UsersReported, UserPast, Reported, Waiting,
                Gathered, Current, UserBag
  <2> QED
    BY <2>2, <2>3, <2>4 DEF IInv
<1> QED
  BY <1>1, <1>2, <1>3, <1>4 DEF Next

\* The invariant the theorems below rest on, whatever fails, is lost, is resumed
\* or changes beside the sync.
THEOREM SyncInvariant == Spec => []IInv
<1>1. Init => IInv
  BY InitInv
<1>2. IInv /\ [Next]_vars => IInv'
  BY NextInv
<1> QED
  BY <1>1, <1>2, PTL DEF Spec

\* The page token and what the session store holds are always of their types:
\* the bag is never popped when it is empty, the index into a user's groups
\* never leaves his list.
THEOREM TypeCorrect == Spec => []TypeOK
<1>1. IInv => TypeOK
  BY DEF IInv
<1> QED
  BY <1>1, SyncInvariant, PTL

\* No page returns the token it was called with, for which the SDK would end
\* the sync.
THEOREM NeverStuck == Spec => [](status # "stuck")
<1>1. IInv => status # "stuck"
  BY DEF IInv, Shape
<1> QED
  BY <1>1, SyncInvariant, PTL

\* The set of IDs that rules groups out has every group that gave a role from
\* the beginning of the sync on.
THEOREM RulesOutRightly == ASSUME SetKept PROVE Spec => []SetComplete
<1>1. IInv => SetComplete
  BY DEF IInv, SetInv
<1> QED
  BY <1>1, SyncInvariant, PTL

\* No group that gave a role all through the sync is remembered as one that is
\* not assigned to the app.
THEOREM NegativesAreTrue == ASSUME SetKept PROVE Spec => []NegativeTrue
<1>1. IInv => NegativeTrue
  BY DEF IInv, Truthful
<1> QED
  BY <1>1, SyncInvariant, PTL

\* At the end everything that lasted is reported, but for users who left or
\* joined groups on the way.
LEMMA DoneReports ==
  ASSUME SetKept, IInv, status = "done", NEW x \in always
  PROVE  x[1] \in moved \/ Reported(x)
<1>1. token.phases = <<>> /\ token.bag = <<>>
  <2>1. <<>> # <<"user">>
    OBVIOUS
  <2> QED
    BY <2>1 DEF IInv, Shape
<1>2. \A y \in always : y[1] = 0 => <<"group", y[2], y[3]>> \in reported
  BY DEF IInv, GroupsReported, GroupPast
<1>3. CASE x[1] = 0
  BY <1>2, <1>3 DEF Reported
<1>4. CASE x[1] # 0 /\ conf.useGroupMapping
  <2>1. x[2] # 0 /\ x[2] \in world.member[x[1]]
    <3>1. x \in Reasons(world)
      BY DEF IInv, Truthful
    <3> QED
      BY <1>4, <3>1, ReasonIs
  <2> DEFINE y == <<0, x[2], x[3]>>
  <2>2. y \in always /\ y[1] = 0 /\ y[2] = x[2] /\ y[3] = x[3]
    BY <2>1 DEF IInv, Truthful
  <2>3. <<"group", x[2], x[3]>> \in reported
    BY <1>2, <2>2
  <2> QED
    BY <1>4, <2>1, <2>3 DEF Reported
<1>5. CASE x[1] # 0 /\ ~conf.useGroupMapping
  <2>1. UserPast(x[1])
    BY DEF UserPast
  <2>2. DOMAIN token.bag = {}
    BY <1>1
  <2>3. ~Waiting(x[1], x[2])
    BY <2>2 DEF Waiting
  <2> QED
    BY <1>5, <2>1, <2>3 DEF IInv, UsersReported
<1> QED
  BY <1>3, <1>4, <1>5

\* A sync that ends without a warning has left out nobody but users whose
\* groups changed under it.
THEOREM LossIsWarnedOf == ASSUME SetKept PROVE Spec => []WarnedOfLoss
<1>1. IInv => WarnedOfLoss
  BY DoneReports DEF WarnedOfLoss
<1> QED
  BY <1>1, SyncInvariant, PTL

\* During the sync nobody joins or leaves a group, and nobody is deleted; or
\* no group's roles and no app assignment of a group change.
MembersStay == {"member", "delete"} \cap Changes = {}
RolesStay   == {"roles", "assignment"} \cap Changes = {}

\* Nor has a member of a group been deleted before.
Settled == MembersStay /\ \A w \in Worlds : w.gone = {}

Quiet == moved = {} /\ world.gone = {} /\ status # "warned"

LEMMA RolesStayChange ==
  ASSUME RolesStay, TypeOK, OktaChanges
  PROVE  world'.appGroups = world.appGroups /\ world'.groupRoles = world.groupRoles
<1>1. world = [appGroups |-> world.appGroups, groupRoles |-> world.groupRoles,
               direct |-> world.direct, own |-> world.own,
               member |-> world.member, gone |-> world.gone]
  BY DEF TypeOK, World
<1>2. "roles" \notin Changes /\ "assignment" \notin Changes
  BY DEF RolesStay
<1>3. \/ \E u \in Users, R \in SUBSET Roles :
           world' = [world EXCEPT !.direct = {v \in Users : (v \in @) # (v = u)}, !.own[u] = R]
      \/ \E u \in Users, M \in SUBSET Groups : world' = [world EXCEPT !.member[u] = M]
      \/ \E u \in Users :
           world' = [world EXCEPT !.direct = @ \ {u}, !.member[u] = {}, !.gone = @ \cup {u}]
  BY <1>2 DEF OktaChanges, Altered
<1> QED
  BY <1>1, <1>3

LEMMA MembersStayChange ==
  ASSUME MembersStay, TypeOK, OktaChanges
  PROVE  world'.member = world.member /\ world'.gone = world.gone
<1>1. world = [appGroups |-> world.appGroups, groupRoles |-> world.groupRoles,
               direct |-> world.direct, own |-> world.own,
               member |-> world.member, gone |-> world.gone]
  BY DEF TypeOK, World
<1>2. "member" \notin Changes /\ "delete" \notin Changes
  BY DEF MembersStay
<1>3. \/ \E g \in world.appGroups, R \in SUBSET Roles :
           world' = [world EXCEPT !.groupRoles[g] = R]
      \/ \E g \in Groups :
           world' = [world EXCEPT !.appGroups = {h \in Groups : (h \in @) # (h = g)}]
      \/ \E u \in Users, R \in SUBSET Roles :
           world' = [world EXCEPT !.direct = {v \in Users : (v \in @) # (v = u)}, !.own[u] = R]
  BY <1>2 DEF OktaChanges, Altered
<1> QED
  BY <1>1, <1>3

LEMMA QuietStep ==
  ASSUME Settled, "404" \notin Faults, IInv, Quiet, [Next]_vars
  PROVE  Quiet'
<1>1. ASSUME UNCHANGED outside, status' # "warned" PROVE Quiet'
  BY <1>1 DEF Quiet, outside
<1>2. ASSUME NEW code, code # "NotFound", Failed(code) PROVE status' # "warned"
  BY <1>2 DEF Failed, Give, Verdict
<1>3. \A a \in Answers : Code(a) # "NotFound" /\ Uncoded(a) # "NotFound"
  BY DEF Answers, Code, Uncoded, AnswerKinds
<1>4. Fail => status' # "warned"
  BY <1>2, <1>3 DEF Fail
<1>5. ASSUME NEW t, NEW G, Commit(t, G) PROVE status' # "warned"
  BY <1>5 DEF Commit
<1>6. CASE Call \/ Evict
  BY <1>1, <1>6 DEF Call, Evict, Quiet, sync
<1>7. CASE CallFails \/ ListFails
  BY <1>1, <1>2, <1>3, <1>4, <1>7 DEF CallFails, ListFails
<1>8. CASE MappedGroupPage \/ GroupPage \/ UserPage \/ UserDone
  BY <1>1, <1>5, <1>8 DEF MappedGroupPage, GroupPage, UserPage, UserDone
<1>9. CASE ListUserGroups \/ FromStore \/ FromOkta
  <2>1. status' # "warned"
    BY <1>5, <1>9 DEF ListUserGroups, FromStore, FromOkta, sync, Quiet
  <2> QED
    BY <1>1, <1>9, <2>1 DEF ListUserGroups, FromStore, FromOkta
<1>10. CASE UserNotFound
  BY <1>10 DEF UserNotFound, Quiet
<1>11. CASE FetchFails
  BY <1>1, <1>4, <1>5, <1>11 DEF FetchFails
<1>12. CASE Crash
  BY <1>1, <1>12 DEF Crash, Give
<1>13. CASE OktaChanges
  <2>1. world'.member = world.member /\ world'.gone = world.gone
    BY <1>13, MembersStayChange DEF IInv, Settled
  <2> QED
    BY <1>13, <2>1 DEF OktaChanges, Quiet, sync
<1>14. CASE UNCHANGED vars
  BY <1>1, <1>14 DEF vars, sync, Quiet
<1> QED
  BY <1>6, <1>7, <1>8, <1>9, <1>10, <1>11, <1>12, <1>13, <1>14 DEF Next, Page

\* While nobody's groups change, a sync that ends well has reported everything
\* that lasted, whatever pages failed, were resumed or repeated on the way.
THEOREM NothingLeftOut ==
  ASSUME SetKept, Settled, "404" \notin Faults
  PROVE  Spec => []Complete
<1>1. Init => Quiet
  BY DEF Init, Settled, Quiet
<1>2. IInv /\ Quiet /\ [Next]_vars => Quiet'
  BY QuietStep
<1>3. IInv /\ Quiet => Complete
  BY DoneReports DEF Quiet, Complete
<1> QED
  BY <1>1, <1>2, <1>3, SyncInvariant, PTL DEF Spec

\* A role that group g gave is one that each of its members had a reason for.
Given(g, r) == \A u \in Users : g \in world.member[u] => <<u, g, r>> \in ever

\* What a group gave once it gave to each of those who are its members now:
\* either they were members then, or the group gives it still.
Backed ==
    /\ \A g \in Groups, r \in Roles : <<0, g, r>> \in ever => Given(g, r)
    /\ RolesStay =>
         \A g \in Groups, r \in Roles : <<0, g, r>> \in ever => Gives(world, g, r)

\* The groups of the user in hand, when they were listed, were his.
ListedGave ==
    /\ \A g \in listed : \A r \in Roles : <<0, g, r>> \in ever => <<Current.user, g, r>> \in ever
    /\ MembersStay => listed = world.member[Current.user]

\* Where the grants come from: what is stored of a group it gave once, and
\* what was found for a user, one of his groups.
Founded ==
    /\ Causes(world) \subseteq ever
    /\ Backed
    /\ \A g \in Groups : appGroup[g] # NoEntry => \A r \in appGroup[g] : <<0, g, r>> \in ever
    /\ pc = "fetch" =>
         /\ ListedGave
         /\ \A r \in found : \E g \in Groups : <<Current.user, g, r>> \in ever
    /\ Sound

\* A group's own reasons are the roles it gives.
LEMMA CausesGiven ==
  ASSUME NEW w, NEW g \in Groups, NEW r \in Roles
  PROVE  <<0, g, r>> \in Causes(w) <=> Gives(w, g, r)
<1> DEFINE x == <<0, g, r>>
<1>1. x \in Reason /\ x[1] = 0 /\ x[2] = g /\ x[3] = r /\ g # 0
  BY DEF Reason, Groups
<1> HIDE DEF x
<1>2. x \in Causes(w) <=> Gives(w, g, r)
  BY <1>1 DEF Causes
<1> QED
  BY <1>2 DEF x

LEMMA CausesClosed ==
  ASSUME NEW w, NEW g \in Groups, NEW r \in Roles, <<0, g, r>> \in Causes(w),
         NEW u \in Users, g \in w.member[u]
  PROVE  <<u, g, r>> \in Causes(w)
<1> DEFINE x == <<0, g, r>>
           y == <<u, g, r>>
<1>1. x[1] = 0 /\ x[2] = g /\ x[3] = r /\ x \in Causes(w)
  OBVIOUS
<1>2. y[1] = u /\ y[2] = g /\ y[3] = r /\ y \in Reason /\ u # 0 /\ g # 0
  BY DEF Reason, Users, Groups
<1> HIDE DEF x, y
<1>3. Gives(w, g, r)
  BY <1>1 DEF Causes
<1>4. y \in Causes(w)
  BY <1>2, <1>3 DEF Causes
<1> QED
  BY <1>4 DEF y

\* A page is committed, with grants that have a reason.
LEMMA FoundedCommit ==
  ASSUME Founded, UNCHANGED outside, NEW t, NEW G \in SUBSET Grant, Commit(t, G),
         \A g \in Groups : appGroup'[g] # NoEntry => \A r \in appGroup'[g] : <<0, g, r>> \in ever,
         \A x \in G : IF x[1] = "group" THEN <<0, x[2], x[3]>> \in ever
                      ELSE \E g \in Groups \cup {0} : <<x[2], g, x[3]>> \in ever
  PROVE  Founded'
<1> USE DEF outside
<1>1. pc' = "idle" /\ (reported' = reported \/ reported' = reported \cup G)
  BY DEF Commit, EndCall
<1>2. Sound'
  <2>1. Sound
    BY DEF Founded
  <2> QED
    BY <1>1, <2>1 DEF Sound
<1> QED
  BY <1>1, <1>2 DEF Founded, Backed, Given, Causes, Gives

LEMMA FoundedGive ==
  ASSUME Founded, UNCHANGED <<outside, appGroup, reported>>, pc' = "idle"
  PROVE  Founded'
  BY DEF Founded, outside, Backed, Given, Causes, Gives, Sound

LEMMA FoundedStep ==
  ASSUME MembersStay \/ RolesStay, IInv, Founded, [Next]_vars
  PROVE  Founded'
<1> USE DEF outside, store
<1>0. /\ world.groupRoles \in [Groups -> SUBSET Roles] /\ world.appGroups \subseteq Groups
      /\ world.member \in [Users -> SUBSET Groups] /\ world.own \in [Users -> SUBSET Roles]
      /\ appGroup \in [Groups -> {NoEntry} \cup SUBSET Roles]
      /\ Causes(world) \subseteq ever /\ TypeOK /\ Shape
  BY WorldIs DEF IInv, TypeOK, Founded
<1>1. ASSUME ~conf.useGroupMapping, NEW g \in world.appGroups, NEW r \in world.groupRoles[g]
      PROVE  <<0, g, r>> \in ever
  <2>1. g \in Groups /\ r \in Roles /\ Gives(world, g, r)
    BY <1>0, <1>1 DEF Gives
  <2> QED
    BY <1>0, <2>1, CausesGiven
<1>2. ASSUME NEW code, Failed(code), UNCHANGED <<outside, store>> PROVE Founded'
  BY <1>2, FoundedGive DEF Failed, Give, EndCall
<1>3. Fail /\ UNCHANGED <<outside, store>> => Founded'
  BY <1>2 DEF Fail
<1>4. CASE CallFails \/ ListFails \/ UserNotFound
  BY <1>2, <1>3, <1>4 DEF CallFails, ListFails, UserNotFound
<1>5. CASE Crash
  BY <1>5, FoundedGive DEF Crash, Give, EndCall
<1>6. CASE Call
  BY <1>6 DEF Call, sync, Founded, Backed, Given, Causes, Gives, Sound
<1>7. CASE MappedGroupPage
  <2> DEFINE P == PageOf(Groups, token.after)
             G == {x \in Grant : x[1] = "group" /\ x[2] \in P /\ x[3] \in NameRoles[x[2]]}
  <2>1. ASSUME NEW x \in G PROVE x[1] = "group" /\ <<0, x[2], x[3]>> \in ever
    <3>1. x[1] = "group" /\ x[2] \in Groups /\ x[3] \in Roles
      BY DEF Grant, PageOf
    <3>2. Gives(world, x[2], x[3])
      BY <1>7 DEF Gives, MappedGroupPage
    <3> QED
      BY <1>0, <3>1, <3>2, CausesGiven
  <2>2. Commit(NextGroups(NextPage(Groups, token.after)), G) /\ UNCHANGED <<outside, store>>
        /\ G \in SUBSET Grant
    BY <1>7 DEF MappedGroupPage
  <2> HIDE DEF G
  <2> QED
    BY <2>1, <2>2, FoundedCommit DEF Founded
<1>8. CASE GroupPage
  <2> DEFINE P == PageOf(world.appGroups, token.after)
             G == {x \in Grant : x[1] = "group" /\ x[2] \in P /\ x[3] \in world.groupRoles[x[2]]}
  <2>0. ~conf.useGroupMapping /\ P \subseteq world.appGroups
    BY <1>8 DEF GroupPage, PageOf
  <2>1. ASSUME NEW x \in G PROVE x[1] = "group" /\ <<0, x[2], x[3]>> \in ever
    BY <1>1, <2>0
  <2>2. PICK took \in [P -> Takes("appGroup")] :
          appGroup' = [g \in Groups |-> IF g \in P /\ took[g]
                                        THEN world.groupRoles[g] ELSE appGroup[g]]
    BY <1>8 DEF GroupPage
  <2>3. ASSUME NEW g \in Groups, appGroup'[g] # NoEntry, NEW r \in appGroup'[g]
        PROVE  <<0, g, r>> \in ever
    <3>1. \/ g \in P /\ r \in world.groupRoles[g]
          \/ appGroup[g] # NoEntry /\ r \in appGroup[g]
      BY <2>2, <2>3
    <3> QED
      BY <1>1, <2>0, <3>1 DEF Founded
  <2>4. Commit(NextGroups(NextPage(world.appGroups, token.after)), G) /\ UNCHANGED outside
        /\ G \in SUBSET Grant
    BY <1>8 DEF GroupPage
  <2> HIDE DEF G
  <2> QED
    BY <2>1, <2>3, <2>4, FoundedCommit
<1>9. CASE UserPage
  <2> DEFINE P == PageOf(AppUsers(world), Current.at)
             G == {x \in Grant : /\ x[1] = "user" /\ x[2] \in P /\ Inline(x[2])
                                 /\ x[3] \in Profile(x[2])}
  <2>1. ~conf.useGroupMapping
    <3>1. <<>> \in Seq(Frame)
      BY EmptySeq
    <3> QED
      BY <1>9, <3>1, NextUsersIs DEF UserPage, IInv
  <2>2. ASSUME NEW x \in G PROVE x[1] = "user" /\ \E g \in Groups \cup {0} : <<x[2], g, x[3]>> \in ever
    <3>1. x[1] = "user" /\ x[2] \in Users /\ x[3] \in Roles /\ x[3] \in Profile(x[2]) /\ x[2] # 0
      BY DEF Grant, Users
    <3>2. CASE x[2] \in world.direct
      <4> DEFINE y == <<x[2], 0, x[3]>>
      <4>1. y \in Reason /\ y[1] = x[2] /\ y[2] = 0 /\ y[3] = x[3]
        BY <3>1 DEF Reason
      <4>2. y \in Causes(world)
        BY <2>1, <3>1, <3>2, <4>1 DEF Causes, Profile
      <4> QED
        BY <1>0, <3>1, <4>2
    <3>3. CASE x[2] \notin world.direct
      <4>1. PICK g \in world.member[x[2]] \cap world.appGroups : x[3] \in world.groupRoles[g]
        BY <3>1, <3>3 DEF Profile, RolesThrough
      <4>2. g \in Groups /\ <<0, g, x[3]>> \in ever
        BY <1>0, <1>1, <2>1, <4>1
      <4> QED
        BY <3>1, <4>1, <4>2 DEF Founded, Backed, Given
    <3> QED
      BY <3>2, <3>3
  <2>3. \E t : Commit(t, G)
    BY <1>9 DEF UserPage
  <2>4. UNCHANGED <<outside, store>> /\ G \in SUBSET Grant
    BY <1>9 DEF UserPage
  <2>5. \A x \in G : x[1] # "group"
    BY <2>2
  <2> HIDE DEF G
  <2> QED
    BY <2>2, <2>3, <2>4, <2>5, FoundedCommit DEF Founded
<1>10. CASE ListUserGroups
  <2>1. CASE Commit(NextUsers(Front(UserBag)), {}) /\ UNCHANGED <<outside, store>>
    <3>1. {} \in SUBSET Grant
      OBVIOUS
    <3> QED
      BY <2>1, <3>1, FoundedCommit DEF Founded
  <2>2. CASE /\ listed' = world.member[Current.user] /\ found' = {} /\ UNCHANGED sync
             /\ UNCHANGED <<outside, store>>
    <3>1. Current' = Current
      BY <2>2 DEF Current, UserBag, sync
    <3>2. Current.user \in Users \cup {NoUser} /\ Current.user # NoUser
      <4>1. token.bag \in Seq(Frame) /\ token.bag # <<>> /\ UserBag = token.bag
        BY <1>0, <1>10 DEF ListUserGroups, TypeOK, Token, Current, UserBag, Last
      <4>2. Current \in Frame
        BY <4>1, BagEnds DEF Current
      <4> QED
        BY <1>10, <4>2 DEF Frame, ListUserGroups
    <3>3. world.member[Current.user] \subseteq Groups
      BY <1>0, <3>2
    <3>4. \A g \in world.member[Current.user] : \A r \in Roles :
            <<0, g, r>> \in ever => <<Current.user, g, r>> \in ever
      BY <3>2, <3>3 DEF Founded, Backed, Given
    <3> QED
      BY <2>2, <3>1, <3>4 DEF Founded, ListedGave, Backed, Given, Causes, Gives, Sound, sync
  <2> QED
    BY <1>10, <2>1, <2>2 DEF ListUserGroups, GroupsListed
<1>11. CASE FromStore \/ FromOkta
  <2>1. Fetching /\ pc = "fetch" /\ UNCHANGED <<outside, sync, pc, listed>>
    BY <1>11 DEF FromStore, FromOkta, AsksOkta, Fetching
  <2>2. /\ Group \in Groups /\ Group \in listed
        /\ ~conf.useGroupMapping /\ Current' = Current
    BY <1>0, <2>1, GroupAt, FetchingIs DEF sync, Current, UserBag
  <2>3. PICK R \in SUBSET Roles :
                 /\ found' = found \cup R /\ \A r \in R : <<0, Group, r>> \in ever
                 /\ \/ appGroup' = appGroup
                    \/ appGroup' = [appGroup EXCEPT ![Group] = R]
    <3>1. CASE UNCHANGED <<found, appGroup>>
      <4> WITNESS {} \in SUBSET Roles
      <4> QED
        BY <3>1
    <3>2. CASE /\ appGroup[Group] # NoEntry /\ found' = found \cup appGroup[Group]
               /\ UNCHANGED appGroup
      BY <1>0, <2>2, <3>2 DEF Founded
    <3>3. CASE /\ Group \in world.appGroups /\ found' = found \cup world.groupRoles[Group]
               /\ \/ appGroup' = appGroup
                  \/ appGroup' = [appGroup EXCEPT ![Group] = world.groupRoles[Group]]
      BY <1>0, <1>1, <2>2, <3>3
    <3> QED
      BY <1>11, <3>1, <3>2, <3>3 DEF FromStore, FromOkta
  <2>4. \A g \in Groups : appGroup'[g] # NoEntry => \A r \in appGroup'[g] : <<0, g, r>> \in ever
    BY <1>0, <2>2, <2>3 DEF Founded
  <2>5. \A r \in found' : \E g \in Groups : <<Current.user, g, r>> \in ever
    BY <2>1, <2>2, <2>3 DEF Founded, ListedGave
  <2> QED
    BY <2>1, <2>2, <2>4, <2>5
    DEF Founded, ListedGave, Backed, Given, Causes, Gives, Sound, sync
<1>12. CASE FetchFails \/ UserDone
  <2>1. pc = "fetch" /\ UNCHANGED <<outside, store>>
    BY <1>12 DEF FetchFails, UserDone, Fetching
  <2>2. CASE Fail
    BY <1>3, <2>1, <2>2
  <2>3. ASSUME NEW t, Commit(t, Collected) PROVE Founded'
    <3>1. Collected \in SUBSET Grant
      BY DEF Collected
    <3>2. \A x \in Collected : x[1] # "group" /\ \E g \in Groups : <<x[2], g, x[3]>> \in ever
      BY <2>1 DEF Collected, Founded
    <3> QED
      BY <2>1, <2>3, <3>1, <3>2, FoundedCommit DEF Founded
  <2> QED
    BY <1>12, <2>2, <2>3 DEF FetchFails, UserDone
<1>13. CASE Evict
  <2>1. /\ UNCHANGED <<outside, sync, call>>
        /\ \/ appGroup' = appGroup
           \/ \E g \in Groups : appGroup' = [appGroup EXCEPT ![g] = NoEntry]
    BY <1>13 DEF Evict
  <2>2. \A g \in Groups : appGroup'[g] # NoEntry => appGroup'[g] = appGroup[g]
    BY <1>0, <2>1
  <2>3. Current' = Current
    BY <2>1 DEF Current, UserBag, sync
  <2> QED
    BY <2>1, <2>2, <2>3
    DEF Founded, ListedGave, Backed, Given, Causes, Gives, Sound, sync, call
<1>14. CASE OktaChanges
  <2>1. /\ ever' = ever \cup Causes(world') /\ UNCHANGED <<conf, store, sync, call>>
    BY <1>14 DEF OktaChanges
  <2>2. /\ Causes(world)' = Causes(world') /\ Current' = Current
        /\ \A g, r : Gives(world, g, r)' <=> Gives(world', g, r)
    BY <2>1 DEF Causes, Gives, Current, UserBag, sync
  <2>3. MembersStay => world'.member = world.member
    BY <1>0, <1>14, MembersStayChange
  <2>4. ASSUME RolesStay, NEW g \in Groups, NEW r \in Roles, <<0, g, r>> \in ever'
        PROVE  Gives(world, g, r) /\ Gives(world', g, r)
    <3>1. Gives(world', g, r) <=> Gives(world, g, r)
      BY <1>0, <1>14, <2>4, RolesStayChange DEF Gives
    <3> QED
      BY <2>1, <2>4, <3>1, CausesGiven DEF Founded, Backed
  <2>5. ASSUME NEW g \in Groups, NEW r \in Roles, <<0, g, r>> \in ever',
               NEW u \in Users, g \in world'.member[u]
        PROVE  <<u, g, r>> \in ever'
    <3>1. CASE <<0, g, r>> \in Causes(world')
      BY <2>1, <2>5, <3>1, CausesClosed
    <3>2. CASE <<0, g, r>> \in ever /\ MembersStay
      BY <2>1, <2>3, <2>5, <3>2 DEF Founded, Backed, Given
    <3>3. CASE RolesStay
      BY <2>4, <2>5, <3>1, <3>3, CausesGiven
    <3> QED
      BY <2>1, <2>5, <3>1, <3>2, <3>3
  <2>6. Backed'
    BY <2>2, <2>4, <2>5 DEF Backed, Given
  <2>7. ASSUME pc = "fetch" PROVE ListedGave'
    <3>1. Current.user \in Users /\ listed \subseteq Groups
      BY <1>0, <2>7, FetchingIs DEF TypeOK
    <3>2. ASSUME NEW g \in listed, NEW r \in Roles, <<0, g, r>> \in ever'
          PROVE  <<Current.user, g, r>> \in ever'
      <4>1. CASE MembersStay
        BY <2>3, <2>5, <2>7, <3>1, <3>2, <4>1 DEF Founded, ListedGave
      <4>2. CASE RolesStay
        <5>1. <<0, g, r>> \in ever
          BY <1>0, <2>4, <3>1, <3>2, <4>2, CausesGiven
        <5> QED
          BY <2>1, <2>7, <3>2, <5>1 DEF Founded, ListedGave
      <4> QED
        BY <4>1, <4>2
    <3> QED
      BY <2>1, <2>2, <2>3, <2>7, <3>2 DEF Founded, ListedGave, call
  <2>8. Sound'
    <3>1. Sound /\ ever \subseteq ever' /\ reported' = reported
      BY <2>1 DEF Founded, sync
    <3> QED
      BY <3>1 DEF Sound
  <2>9. Causes(world)' \subseteq ever'
    BY <2>1, <2>2
  <2>10. pc' = "fetch" =>
           ListedGave' /\ \A r \in found' : \E g \in Groups : <<Current'.user, g, r>> \in ever'
    BY <2>1, <2>2, <2>7 DEF Founded, call
  <2>11. \A g \in Groups : appGroup'[g] # NoEntry =>
           \A r \in appGroup'[g] : <<0, g, r>> \in ever'
    BY <2>1 DEF Founded
  <2> QED
    BY <2>6, <2>8, <2>9, <2>10, <2>11 DEF Founded
<1>15. CASE UNCHANGED vars
  BY <1>15 DEF vars, sync, call, Founded, ListedGave, Backed, Given, Causes, Gives, Sound,
             Current, UserBag
<1> QED
  BY <1>4, <1>5, <1>6, <1>7, <1>8, <1>9, <1>10, <1>11, <1>12, <1>13, <1>14, <1>15 DEF Next, Page

LEMMA FoundedInit == Init => Founded
<1> SUFFICES ASSUME Init PROVE Founded
  OBVIOUS
<1>1. /\ ever = Causes(world) /\ pc = "idle" /\ reported = {}
      /\ \A g \in Groups : appGroup[g] = NoEntry
  BY DEF Init
<1>2. Backed
  BY <1>1, CausesGiven, CausesClosed DEF Backed, Given
<1> QED
  BY <1>1, <1>2 DEF Founded, Sound

\* While nobody's groups change, or the groups' roles and assignments do not,
\* nothing is reported that never had a reason in Okta, however old what the
\* session store holds has become.
THEOREM NothingMadeUp ==
  ASSUME MembersStay \/ RolesStay
  PROVE  Spec => []Sound
<1>1. Init => Founded
  BY FoundedInit
<1>2. IInv /\ Founded /\ [Next]_vars => Founded'
  BY FoundedStep
<1>3. Founded => Sound
  BY DEF Founded
<1> QED
  BY <1>1, <1>2, <1>3, SyncInvariant, PTL DEF Spec

-----------------------------------------------------------------------------
(* The abstract report. *)

\* Nobody moves, and a reason of nobody's is that of a group.
Unmoved == moved = {} /\ \A x \in ever : x[1] = 0 => x[2] # 0

\* What a step does to the report: nothing, a page, the end, or nothing but
\* what an administrator does beside it.
LEMMA StepKinds ==
  ASSUME IInv, [Next]_vars
  PROVE  \/ UNCHANGED <<outside, reported, status>>
         \/ /\ UNCHANGED outside /\ status = "running" /\ reported \subseteq reported'
            /\ status' \in {"running", "done", "stuck"}
         \/ /\ UNCHANGED <<outside, reported>> /\ status = "running"
            /\ status' \in {"warned", "failed"}
         \/ OktaChanges /\ UNCHANGED <<reported, status>>
<1>1. pc # "idle" => status = "running"
  BY DEF IInv, Shape
<1>2. ASSUME NEW code, Failed(code)
      PROVE  reported' = reported /\ status' \in {"running", "warned", "failed"}
  BY <1>2 DEF Failed, Give
<1>3. Fail => reported' = reported /\ status' \in {"running", "warned", "failed"}
  BY <1>2 DEF Fail
<1>4. ASSUME NEW t, NEW G, Commit(t, G)
      PROVE  reported \subseteq reported' /\ status' \in {"running", "done", "stuck"}
  BY <1>4 DEF Commit
<1>5. CASE Call \/ Evict
  BY <1>5 DEF Call, Evict, sync
<1>6. CASE CallFails \/ ListFails
  BY <1>1, <1>2, <1>3, <1>6 DEF CallFails, ListFails
<1>7. CASE MappedGroupPage \/ GroupPage \/ UserPage \/ UserDone
  BY <1>1, <1>4, <1>7 DEF MappedGroupPage, GroupPage, UserPage, UserDone
<1>8. CASE ListUserGroups \/ FromStore \/ FromOkta
  <2>1. UNCHANGED sync \/ \E t, G : Commit(t, G)
    BY <1>8 DEF ListUserGroups, FromStore, FromOkta
  <2> QED
    BY <1>1, <1>4, <1>8, <2>1 DEF ListUserGroups, FromStore, FromOkta, sync, Fetching, AsksOkta
<1>9. CASE UserNotFound
  BY <1>1, <1>2, <1>9 DEF UserNotFound
<1>10. CASE FetchFails
  BY <1>1, <1>3, <1>4, <1>10 DEF FetchFails, Fetching
<1>11. CASE Crash
  BY <1>1, <1>11 DEF Crash, Give
<1>12. CASE OktaChanges
  BY <1>12 DEF OktaChanges, sync
<1>13. CASE UNCHANGED vars
  BY <1>13 DEF vars, sync
<1> QED
  BY <1>5, <1>6, <1>7, <1>8, <1>9, <1>10, <1>11, <1>12, <1>13 DEF Next, Page

LEMMA UnmovedStep ==
  ASSUME MembersStay, IInv, Unmoved, [Next]_vars
  PROVE  Unmoved'
<1>1. CASE UNCHANGED outside
  BY <1>1 DEF outside, Unmoved
<1>2. CASE OktaChanges
  <2>1. world'.member = world.member
    BY <1>2, MembersStayChange DEF IInv
  <2>2. /\ ever' = ever \cup Causes(world')
        /\ moved' = moved \cup {u \in Users : world'.member[u] # world.member[u]}
    BY <1>2 DEF OktaChanges
  <2>3. \A x \in Causes(world') : x[1] = 0 => x[2] # 0
    BY DEF Causes
  <2> QED
    BY <2>1, <2>2, <2>3 DEF Unmoved
<1> QED
  BY <1>1, <1>2, StepKinds

\* The report as it is read has, for each reason, its grant.
LEMMA ReportedIs ==
  ASSUME TypeOK, NEW x \in Reason, x[1] = 0 => x[2] # 0
  PROVE  /\ GrantOf(x) \in Grant
         /\ Reported(x) => GrantOf(x) \in reported \cup Expanded
<1>1. x[1] \in Users \cup {0} /\ x[2] \in Groups \cup {0} /\ x[3] \in Roles
  BY DEF Reason
<1>2. CASE x[1] = 0
  <2>1. GrantOf(x) = <<"group", x[2], x[3]>> /\ x[2] \in Groups
    BY <1>1, <1>2 DEF GrantOf
  <2> QED
    BY <1>1, <1>2, <2>1 DEF Grant, Reported
<1>3. CASE x[1] # 0
  <2> DEFINE y == <<"user", x[1], x[3]>>
  <2>1. GrantOf(x) = y /\ y \in Grant /\ y[1] = "user" /\ y[2] = x[1] /\ y[3] = x[3]
    BY <1>1, <1>3 DEF GrantOf, Grant
  <2> HIDE DEF y
  <2>2. Reported(x) => y \in reported \/ y \in Expanded
    BY <1>3, <2>1 DEF Reported, Expanded, y
  <2> QED
    BY <2>1, <2>2
<1> QED
  BY <1>2, <1>3

\* What is reported, and what it expands to, is the grant of a reason.
LEMMA ExpandedBacked ==
  ASSUME TypeOK, Sound, Backed
  PROVE  reported \cup Expanded \subseteq {GrantOf(x) : x \in ever}
<1>0. 0 \notin Users /\ "user" # "group"
  BY DEF Users
<1>1. ASSUME NEW y \in reported PROVE \E x \in ever : y = GrantOf(x)
  <2>1. y \in Grant /\ y = <<y[1], y[2], y[3]>>
    BY DEF TypeOK, Grant
  <2>2. CASE y[1] = "group"
    <3> DEFINE x == <<0, y[2], y[3]>>
    <3>1. x \in ever
      BY <2>2 DEF Sound
    <3>2. GrantOf(x) = <<"group", y[2], y[3]>>
      BY DEF GrantOf
    <3> QED
      BY <2>1, <2>2, <3>1, <3>2
  <2>3. CASE y[1] # "group"
    <3>1. PICK g \in Groups \cup {0} : <<y[2], g, y[3]>> \in ever
      BY <2>3 DEF Sound
    <3>2. y[1] = "user" /\ y[2] \in Users
      BY <2>1, <2>3 DEF Grant
    <3>3. GrantOf(<<y[2], g, y[3]>>) = <<"user", y[2], y[3]>>
      BY <1>0, <3>2 DEF GrantOf
    <3> QED
      BY <2>1, <3>1, <3>2, <3>3
  <2> QED
    BY <2>2, <2>3
<1>2. ASSUME NEW y \in Expanded PROVE \E x \in ever : y = GrantOf(x)
  <2>1. y = <<"user", y[2], y[3]>> /\ y[2] \in Users /\ y[3] \in Roles
    BY DEF Expanded, Grant
  <2>2. PICK g \in world.member[y[2]] : <<"group", g, y[3]>> \in reported
    BY DEF Expanded
  <2>3. g \in Groups
    BY <2>1, <2>2, WorldIs
  <2>4. <<0, g, y[3]>> \in ever
    <3> DEFINE z == <<"group", g, y[3]>>
    <3>1. z \in reported /\ z[1] = "group" /\ z[2] = g /\ z[3] = y[3]
      BY <2>2
    <3> HIDE DEF z
    <3> QED
      BY <3>1 DEF Sound
  <2>5. <<y[2], g, y[3]>> \in ever
    BY <2>1, <2>2, <2>3, <2>4 DEF Backed, Given
  <2>6. GrantOf(<<y[2], g, y[3]>>) = <<"user", y[2], y[3]>>
    BY <1>0, <2>1 DEF GrantOf
  <2> QED
    BY <2>1, <2>5, <2>6
<1> QED
  BY <1>1, <1>2

\* What the abstract report asks of every state.
Reportable ==
    /\ {GrantOf(x) : x \in always} \subseteq {GrantOf(x) : x \in ever}
    /\ {GrantOf(x) : x \in ever} \subseteq Grant
    /\ reported \cup Expanded \subseteq {GrantOf(x) : x \in ever}
    /\ status = "done" => {GrantOf(x) : x \in always} \subseteq reported \cup Expanded
    /\ status # "stuck"

LEMMA ReportableInv ==
  ASSUME SetKept
  PROVE  IInv /\ Founded /\ Unmoved => Reportable
<1> SUFFICES ASSUME IInv, Founded, Unmoved PROVE Reportable
  OBVIOUS
<1>1. TypeOK /\ Sound /\ Backed /\ status # "stuck" /\ always \subseteq ever
  BY DEF IInv, Founded, Shape, Truthful, Reasons
<1>2. ASSUME NEW x \in ever PROVE GrantOf(x) \in Grant
  BY <1>1, ReportedIs DEF TypeOK, Unmoved
<1>3. ASSUME status = "done", NEW x \in always PROVE GrantOf(x) \in reported \cup Expanded
  <2>1. Reported(x) /\ x \in Reason /\ (x[1] = 0 => x[2] # 0)
    BY <1>1, <1>3, DoneReports DEF Unmoved, TypeOK
  <2> QED
    BY <1>1, <2>1, ReportedIs
<1> QED
  BY <1>1, <1>2, <1>3, ExpandedBacked DEF Reportable

LEMMA ReportInit == Init /\ Reportable => Published!Init
<1> SUFFICES ASSUME Init, Reportable PROVE Published!Init
  OBVIOUS
<1>1. reported = {} /\ status = "running"
  BY DEF Init
<1>2. Expanded = {}
  BY <1>1 DEF Expanded
<1> QED
  BY <1>1, <1>2 DEF Published!Init, Reportable

LEMMA ReportStep ==
  ASSUME MembersStay, IInv, Reportable, Reportable', [Next]_vars
  PROVE  [Published!Next]_Published!vars
<1>1. CASE UNCHANGED <<outside, reported, status>>
  BY <1>1 DEF outside, Expanded, Published!vars
<1>2. CASE /\ UNCHANGED outside /\ status = "running" /\ reported \subseteq reported'
           /\ status' \in {"running", "done", "stuck"}
  <2>1. UNCHANGED <<conf, world, always, ever>> /\ Expanded \subseteq Expanded'
    BY <1>2 DEF outside, Expanded
  <2> QED
    BY <1>2, <2>1 DEF Published!Next, Published!Publish, Reportable
<1>3. CASE /\ UNCHANGED <<outside, reported>> /\ status = "running"
           /\ status' \in {"warned", "failed"}
  BY <1>3 DEF outside, Expanded, Published!Next, Published!GiveUp
<1>4. CASE OktaChanges /\ UNCHANGED <<reported, status>>
  <2>1. world'.member = world.member /\ conf' = conf /\ always' \subseteq always /\ ever \subseteq ever'
    BY <1>4, MembersStayChange DEF OktaChanges, IInv
  <2>2. Expanded' = Expanded
    BY <1>4, <2>1 DEF Expanded
  <2> QED
    BY <1>4, <2>1, <2>2 DEF Published!Next, Published!Change, Reportable
<1> QED
  BY <1>1, <1>2, <1>3, <1>4, StepKinds

\* While nobody's groups change and the set of IDs is kept, the paged, resumed
\* and repeated sync is one report that only grows, by what was there, and is
\* whole when the sync ends well.
THEOREM ReportImplemented ==
  ASSUME SetKept, MembersStay
  PROVE  Spec => ImplementsReport
<1>1. Init => Founded /\ Unmoved
  BY FoundedInit DEF Init, Unmoved, Causes
<1>2. IInv /\ Founded /\ [Next]_vars => Founded'
  BY FoundedStep
<1>3. IInv /\ Unmoved /\ [Next]_vars => Unmoved'
  BY UnmovedStep
<1>4. IInv /\ Founded /\ Unmoved => Reportable
  BY ReportableInv
<1>5. Init /\ Reportable => Published!Init
  BY ReportInit
<1>6. IInv /\ Reportable /\ Reportable' /\ [Next]_vars => [Published!Next]_Published!vars
  BY ReportStep
<1> QED
  BY <1>1, <1>2, <1>3, <1>4, <1>5, <1>6, SyncInvariant, PTL
  DEF Spec, ImplementsReport, Published!Spec
=============================================================================
