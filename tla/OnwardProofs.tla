----------------------------- MODULE OnwardProofs -----------------------------
(***************************************************************************)
(* Proof that the sync of GrantSync never goes back: each page token comes *)
(* after the ones before it, whatever fails, is repeated or changes in     *)
(* Okta, and there are only so many places for a token to be at.  The two  *)
(* together are what the end of every sync rests on.                       *)
(***************************************************************************)
EXTENDS GrantSyncProofs

\* What a token's numbers are bounded by: the cursors by what is listed, the
\* index into a user's groups by how many there are, the bag by the users.
Bounded(t) ==
    /\ t.after \in 0 .. NumGroups
    /\ Len(t.bag) \in 0 .. (NumUsers + 1)
    /\ \A i \in DOMAIN t.bag :
         t.bag[i].at \in 0 .. (IF t.bag[i].user = NoUser THEN NumUsers ELSE NumGroups)

-----------------------------------------------------------------------------
(* The order of places. *)

LEMMA BeforeIs ==
  ASSUME NEW p, NEW q,
         \/ p[1] < q[1]
         \/ p[1] = q[1] /\ p[2] < q[2]
         \/ p[1] = q[1] /\ p[2] = q[2] /\ p[3] < q[3]
         \/ p[1] = q[1] /\ p[2] = q[2] /\ p[3] = q[3] /\ p[4] < q[4]
         \/ p[1] = q[1] /\ p[2] = q[2] /\ p[3] = q[3] /\ p[4] = q[4] /\ p[5] < q[5]
  PROVE  Before(p, q)
<1>1. /\ 1 \in 1 .. 5 /\ 2 \in 1 .. 5 /\ 3 \in 1 .. 5 /\ 4 \in 1 .. 5 /\ 5 \in 1 .. 5
      /\ 1 .. (1 - 1) = {} /\ 1 .. (2 - 1) = {1} /\ 1 .. (3 - 1) = {1, 2}
      /\ 1 .. (4 - 1) = {1, 2, 3} /\ 1 .. (5 - 1) = {1, 2, 3, 4}
  OBVIOUS
<1>2. CASE p[1] < q[1]
  BY <1>1, <1>2 DEF Before
<1>3. CASE p[1] = q[1] /\ p[2] < q[2]
  BY <1>1, <1>3 DEF Before
<1>4. CASE p[1] = q[1] /\ p[2] = q[2] /\ p[3] < q[3]
  BY <1>1, <1>4 DEF Before
<1>5. CASE p[1] = q[1] /\ p[2] = q[2] /\ p[3] = q[3] /\ p[4] < q[4]
  BY <1>1, <1>5 DEF Before
<1>6. CASE p[1] = q[1] /\ p[2] = q[2] /\ p[3] = q[3] /\ p[4] = q[4] /\ p[5] < q[5]
  BY <1>1, <1>6 DEF Before
<1> QED
  BY <1>2, <1>3, <1>4, <1>5, <1>6

\* Before is a strict order: nothing is before itself ...
LEMMA NotBeforeItself ==
  ASSUME NEW p, \A i \in 1 .. 5 : p[i] \in Int
  PROVE  ~Before(p, p)
<1>1. \A n \in Int : ~(n < n)
  OBVIOUS
<1> QED
  BY <1>1 DEF Before

\* ... and what is before the one that is before another is before that one too.
LEMMA BeforeTransitive ==
  ASSUME NEW p, NEW q, NEW r, Before(p, q), Before(q, r),
         \A i \in 1 .. 5 : p[i] \in Int /\ q[i] \in Int /\ r[i] \in Int
  PROVE  Before(p, r)
<1>1. PICK i \in 1 .. 5 : p[i] < q[i] /\ \A j \in 1 .. (i - 1) : p[j] = q[j]
  BY DEF Before
<1>2. PICK k \in 1 .. 5 : q[k] < r[k] /\ \A j \in 1 .. (k - 1) : q[j] = r[j]
  BY DEF Before
<1>3. CASE i < k
  <2>1. i \in 1 .. (k - 1) /\ 1 .. (i - 1) \subseteq 1 .. (k - 1)
    BY <1>3
  <2>2. p[i] < r[i] /\ \A j \in 1 .. (i - 1) : p[j] = r[j]
    BY <1>1, <1>2, <2>1
  <2> QED
    BY <2>2 DEF Before
<1>4. CASE i = k
  <2>1. p[i] < r[i]
    <3>1. \A a, b, c \in Int : a < b /\ b < c => a < c
      OBVIOUS
    <3> QED
      BY <1>1, <1>2, <1>4, <3>1
  <2>2. \A j \in 1 .. (i - 1) : p[j] = r[j]
    BY <1>1, <1>2, <1>4
  <2> QED
    BY <2>1, <2>2 DEF Before
<1>5. CASE i > k
  <2>1. k \in 1 .. (i - 1) /\ 1 .. (k - 1) \subseteq 1 .. (i - 1)
    BY <1>5
  <2>2. p[k] < r[k] /\ \A j \in 1 .. (k - 1) : p[j] = r[j]
    BY <1>1, <1>2, <2>1
  <2> QED
    BY <2>2 DEF Before
<1> QED
  BY <1>3, <1>4, <1>5

LEMMA PlaceIs ==
  ASSUME NEW t
  PROVE  /\ Place(t)[1] = IF t.phases = <<"user">> THEN 1 ELSE 0
         /\ Place(t)[2] = t.after /\ Place(t)[3] = FollowingPage(t.bag)
         /\ Place(t)[4] = -Len(t.bag)
         /\ Place(t)[5] = IF t.bag = <<>> THEN 0 ELSE Last(t.bag).at
BY DEF Place

LEMMA PlaceOfToken ==
  ASSUME NEW t \in Token
  PROVE  \A i \in 1 .. 5 : Place(t)[i] \in Int
<1>1. t.after \in Nat /\ t.bag \in Seq(Frame) /\ Len(t.bag) \in Nat /\ NumUsers \in Nat
  BY SyncAssumption, LenProperties DEF SyncAssumption, Token
<1>2. FollowingPage(t.bag) \in Nat
  <2>1. CASE t.bag = <<>>
    BY <2>1 DEF FollowingPage
  <2>2. CASE t.bag # <<>>
    <3>1. 1 \in 1 .. Len(t.bag)
      BY <1>1, <2>2, EmptySeq
    <3>2. t.bag[1] \in Frame
      BY <1>1, <3>1, ElementOfSeq
    <3> QED
      BY <1>1, <2>2, <3>2 DEF FollowingPage, Frame
  <2> QED
    BY <2>1, <2>2
<1>3. t.bag # <<>> => Last(t.bag).at \in Nat
  <2>1. t.bag # <<>> => Last(t.bag) \in Frame
    BY <1>1, BagEnds
  <2> QED
    BY <2>1 DEF Frame
<1>4. \A i \in 1 .. 5 : i = 1 \/ i = 2 \/ i = 3 \/ i = 4 \/ i = 5
  OBVIOUS
<1>5. -Len(t.bag) \in Int
  BY <1>1
<1> QED
  BY <1>1, <1>2, <1>3, <1>4, <1>5, PlaceIs

-----------------------------------------------------------------------------
(* Each next token comes after the one before it. *)

Further(t) == Bounded(t) /\ (t.phases = <<>> \/ Before(Place(token), Place(t)))

LEMMA NextGroupsFurther ==
  ASSUME TypeOK, Shape, Bounded(token), Phase = "group", NEW S \in SUBSET Groups
  PROVE  Further(NextGroups(NextPage(S, token.after)))
<1> DEFINE k == NextPage(S, token.after)
           t == NextGroups(k)
<1>1. NumGroups \in Nat /\ NumUsers \in Nat /\ S \in SUBSET (1 .. NumGroups) /\ token.after \in Nat
  BY SyncAssumption DEF SyncAssumption, Groups, TypeOK, Token
<1>2. k \in 0 .. NumGroups /\ (k # 0 => k > token.after)
  BY <1>1, NextPageSound
<1>3. k \in Nat
  BY <1>1, <1>2
<1> HIDE DEF k
<1>4. /\ t.after = k /\ t.bag = <<>>
      /\ t.phases = IF conf.useGroupMapping THEN (IF k = 0 THEN <<>> ELSE <<"group">>)
                                            ELSE (IF k = 0 THEN <<"user">> ELSE <<"user", "group">>)
      /\ token.phases \in {<<>>, <<"group">>, <<"user", "group">>}
  BY <1>3, NextGroupsIs
<1> HIDE DEF t
<1>5. Bounded(t)
  <2>1. DOMAIN t.bag = {} /\ Len(t.bag) = 0
    BY <1>4
  <2> QED
    BY <1>1, <1>2, <1>4, <2>1 DEF Bounded
<1>6. /\ <<>> # <<"user">> /\ <<"group">> # <<"user">> /\ <<"user", "group">> # <<"user">>
  OBVIOUS
<1>7. Place(token)[1] = 0 /\ Place(token)[2] = token.after
  BY <1>4, <1>6, PlaceIs
<1>8. Place(t)[1] = (IF t.phases = <<"user">> THEN 1 ELSE 0) /\ Place(t)[2] = k
  BY <1>4, PlaceIs
<1>9. ASSUME k = 0 PROVE Further(t)
  <2>1. t.phases = <<>> \/ Place(t)[1] = 1
    BY <1>4, <1>8, <1>9
  <2>2. Place(t)[1] = 1 => Before(Place(token), Place(t))
    BY <1>7, BeforeIs
  <2> QED
    BY <1>5, <2>1, <2>2 DEF Further
<1>10. ASSUME k # 0 PROVE Further(t)
  <2>1. Place(t)[1] = 0
    BY <1>4, <1>6, <1>8, <1>10
  <2>2. Before(Place(token), Place(t))
    BY <1>1, <1>2, <1>3, <1>7, <1>8, <1>10, <2>1, BeforeIs
  <2> QED
    BY <1>5, <2>2 DEF Further
<1> QED
  BY <1>9, <1>10 DEF t, k

\* In the phase of the users only the bag changes.
LEMMA UsersFurther ==
  ASSUME TypeOK, Shape, Bounded(token), Phase = "user", NEW b \in Seq(Frame), b # <<>>,
         Bounded([token EXCEPT !.bag = b]),
         \/ FollowingPage(token.bag) < FollowingPage(b)
         \/ FollowingPage(token.bag) = FollowingPage(b) /\ Len(b) < Len(token.bag)
         \/ /\ FollowingPage(token.bag) = FollowingPage(b) /\ Len(b) = Len(token.bag)
            /\ token.bag # <<>> /\ Last(token.bag).at < Last(b).at
  PROVE  Further(NextUsers(b))
<1> DEFINE t == NextUsers(b)
<1>1. /\ token.phases = <<"user">> /\ t.phases = <<"user">> /\ t.bag = b /\ t.after = token.after
  BY NextUsersIs
<1> HIDE DEF t
<1>2. Bounded(t)
  <2>1. token \in Token
    BY DEF TypeOK
  <2>2. [token EXCEPT !.bag = b].bag = b /\ [token EXCEPT !.bag = b].after = token.after
    BY <2>1 DEF Token
  <2> QED
    BY <1>1, <2>2 DEF Bounded
<1>3. Len(b) \in Nat /\ token.bag \in Seq(Frame) /\ Len(token.bag) \in Nat
  BY LenProperties DEF TypeOK, Token
<1>4. Len(b) < Len(token.bag) => -Len(token.bag) < -Len(b)
  BY <1>3
<1>5. Before(Place(token), Place(t))
  <2> DEFINE p == Place(token)
             q == Place(t)
  <2>1. p[1] = q[1] /\ p[2] = q[2]
    BY <1>1, PlaceIs
  <2>2. p[3] = FollowingPage(token.bag) /\ q[3] = FollowingPage(b)
        /\ p[4] = -Len(token.bag) /\ q[4] = -Len(b)
    BY <1>1, PlaceIs
  <2>3. token.bag # <<>> => p[5] = Last(token.bag).at
    BY PlaceIs
  <2>4. q[5] = Last(b).at
    BY <1>1, PlaceIs
  <2> HIDE DEF p, q
  <2>5. Before(p, q)
    BY <1>4, <2>1, <2>2, <2>3, <2>4, BeforeIs
  <2> QED
    BY <2>5 DEF p, q
<1> QED
  BY <1>2, <1>5 DEF Further, t

\* An emptied bag ends the sync.
LEMMA EmptyFurther ==
  ASSUME TypeOK, Shape, Bounded(token), Phase = "user"
  PROVE  Further(NextUsers(<<>>))
<1> DEFINE t == NextUsers(<<>>)
<1>1. <<>> \in Seq(Frame) /\ Len(<<>>) = 0 /\ DOMAIN <<>> = {}
  BY EmptySeq
<1>2. t.phases = <<>> /\ t.bag = <<>> /\ t.after = token.after
  BY <1>1, NextUsersIs
<1> HIDE DEF t
<1>3. NumUsers \in Nat
  BY SyncAssumption DEF SyncAssumption
<1>4. Bounded(t)
  BY <1>1, <1>2, <1>3 DEF Bounded
<1> QED
  BY <1>2, <1>4 DEF Further, t

\* The bag after a page of users, and after the user in hand is done or resumed.
LEMMA UserPageFurther ==
  ASSUME TypeOK, Shape, Bounded(token), Phase = "user", Current.user = NoUser,
         NEW put \in InOrder({u \in PageOf(AppUsers(world), Current.at) : PutOff(u)})
  PROVE  Further(NextUsers(NextBag(NextPage(AppUsers(world), Current.at), put)))
<1> DEFINE S == AppUsers(world)
           k == NextPage(S, Current.at)
           U == {u \in PageOf(S, Current.at) : PutOff(u)}
           b == NextBag(k, put)
<1>1. /\ NumUsers \in Nat /\ NumGroups \in Nat
      /\ S \in SUBSET (1 .. NumUsers)
  BY WorldIs, SyncAssumption DEF SyncAssumption, AppUsers, Users
<1>2. /\ Current.at \in Nat
      /\ \/ token.bag = <<>> /\ Current.at = 0
         \/ token.bag = <<[user |-> NoUser, at |-> Current.at]>>
  BY PageStateIs
<1>3. /\ k \in 0 .. NumUsers /\ (k # 0 => k > Current.at)
      /\ PageOf(S, Current.at) \subseteq S
  BY <1>1, <1>2, NextPageSound
<1>4. U \in SUBSET (1 .. NumUsers) /\ U \in SUBSET Users
  BY <1>1, <1>3 DEF Users
<1>5. k \in Nat
  BY <1>1, <1>3
<1> HIDE DEF k, U
<1>6. /\ Later(k) \in Seq(Frame) /\ b \in Seq(Frame)
      /\ k # 0 => b # <<>> /\ b[1] = [user |-> NoUser, at |-> k]
      /\ \A i \in DOMAIN b : \/ b[i].user = NoUser /\ i = 1 /\ k # 0
                             \/ b[i].user \in Users /\ b[i].at = 0
  BY <1>4, <1>5, NextBagIs DEF U
<1>7. Len(b) \in 0 .. (NumUsers + 1)
  <2>1. put \in Seq([user : U, at : {0}]) /\ Len(put) = Cardinality(U)
    <3>1. put \in Seq([user : U, at : {0}])
      BY <1>1, <1>4, InOrderIs DEF U
    <3>2. DOMAIN put = 1 .. Cardinality(U) /\ Cardinality(U) \in Nat
      BY <1>1, <1>4, FiniteSets DEF InOrder, U
    <3>3. DOMAIN put = 1 .. Len(put) /\ Len(put) \in Nat
      BY <3>1, LenProperties
    <3>4. \A m, c \in Nat : 1 .. m = 1 .. c => m = c
      OBVIOUS
    <3> QED
      BY <3>1, <3>2, <3>3, <3>4
  <2>2. Cardinality(U) \in 0 .. NumUsers
    <3>1. Cardinality(1 .. NumUsers) = NumUsers
      BY <1>1, FS_Interval
    <3> QED
      BY <1>1, <1>4, <3>1, FiniteSets
  <2>3. put \in Seq(Frame)
    <3>1. [user : U, at : {0}] \subseteq Frame
      <4>1. \A u \in U : u \in Users \cup {NoUser}
        BY <1>4
      <4>2. 0 \in Nat
        OBVIOUS
      <4> QED
        BY <4>1, <4>2 DEF Frame
    <3>2. \A i \in 1 .. Len(put) : put[i] \in Frame
      BY <2>1, <3>1, ElementOfSeq
    <3> QED
      BY <2>1, <3>2, LenProperties
  <2>4. Len(b) = Len(Later(k)) + Len(put)
    BY <1>6, <2>3, ConcatProperties DEF NextBag
  <2>5. Len(Later(k)) \in {0, 1}
    BY DEF Later
  <2>6. \A l \in {0, 1}, m \in 0 .. NumUsers : l + m \in 0 .. (NumUsers + 1)
    BY <1>1
  <2> QED
    BY <2>1, <2>2, <2>4, <2>5, <2>6
<1> HIDE DEF b
<1>8. ASSUME b = <<>> PROVE Further(NextUsers(b))
  BY <1>8, EmptyFurther
<1>9. ASSUME b # <<>> PROVE Further(NextUsers(b))
  <2>1. DOMAIN b = 1 .. Len(b) /\ 1 \in DOMAIN b
    BY <1>6, <1>9, EmptySeq, LenProperties
  <2>2. NoUser \notin Users
    BY DEF NoUser, Users
  <2>3. \A i \in DOMAIN b : b[i].at \in 0 .. (IF b[i].user = NoUser THEN NumUsers ELSE NumGroups)
    <3> SUFFICES ASSUME NEW i \in DOMAIN b
                 PROVE  b[i].at \in 0 .. (IF b[i].user = NoUser THEN NumUsers ELSE NumGroups)
      OBVIOUS
    <3>1. CASE b[i].user = NoUser
      <4>1. b[i].at = k
        BY <1>6, <2>2, <3>1
      <4> QED
        BY <1>3, <3>1, <4>1
    <3>2. CASE b[i].user # NoUser
      <4>1. b[i].at = 0
        BY <1>6, <3>2
      <4> QED
        BY <1>1, <3>2, <4>1
    <3> QED
      BY <3>1, <3>2
  <2>4. Bounded([token EXCEPT !.bag = b])
    <3>1. token \in Token
      BY DEF TypeOK
    <3>2. [token EXCEPT !.bag = b].bag = b /\ [token EXCEPT !.bag = b].after = token.after
      BY <3>1 DEF Token
    <3> QED
      BY <1>7, <2>3, <3>2 DEF Bounded
  <2>5. FollowingPage(b) = IF k = 0 THEN NumUsers + 1 ELSE k
    <3>1. CASE k = 0
      <4>1. b[1].user # NoUser
        BY <1>6, <2>1, <2>2, <3>1
      <4> QED
        BY <1>9, <3>1, <4>1 DEF FollowingPage
    <3>2. CASE k # 0
      BY <1>6, <1>9, <3>2 DEF FollowingPage
    <3> QED
      BY <3>1, <3>2
  <2>6. FollowingPage(token.bag) = Current.at /\ Current.at <= NumUsers
    <3>1. CASE token.bag = <<>> /\ Current.at = 0
      BY <1>1, <3>1 DEF FollowingPage
    <3>2. CASE token.bag = <<[user |-> NoUser, at |-> Current.at]>>
      <4>1. /\ token.bag # <<>> /\ token.bag[1].user = NoUser /\ token.bag[1].at = Current.at
            /\ 1 \in DOMAIN token.bag
        BY <3>2
      <4> QED
        BY <1>1, <4>1 DEF FollowingPage, Bounded
    <3> QED
      BY <1>2, <3>1, <3>2
  <2>7. FollowingPage(token.bag) < FollowingPage(b)
    BY <1>1, <1>2, <1>3, <1>5, <2>5, <2>6
  <2> QED
    BY <1>6, <1>9, <2>4, <2>7, UsersFurther
<1> QED
  BY <1>8, <1>9 DEF b, k

LEMMA FrontFurther ==
  ASSUME TypeOK, Shape, Bounded(token), Phase = "user", token.bag # <<>>
  PROVE  Further(NextUsers(Front(token.bag)))
<1> DEFINE b == Front(token.bag)
           n == Len(token.bag)
<1>1. token.bag \in Seq(Frame)
  BY DEF TypeOK, Token
<1>2. /\ n \in Nat \ {0} /\ DOMAIN token.bag = 1 .. n
      /\ b \in Seq(Frame) /\ Len(b) = n - 1 /\ DOMAIN b = 1 .. (n - 1)
      /\ \A i \in 1 .. (n - 1) : b[i] = token.bag[i]
  BY <1>1, BagEnds
<1> HIDE DEF b, n
<1>3. ASSUME b = <<>> PROVE Further(NextUsers(b))
  BY <1>3, EmptyFurther
<1>4. ASSUME b # <<>> PROVE Further(NextUsers(b))
  <2>1. n - 1 # 0
    BY <1>2, <1>4, EmptySeq
  <2>2. 1 \in 1 .. (n - 1) /\ 1 .. (n - 1) \subseteq 1 .. n
    BY <1>2, <2>1
  <2>3. FollowingPage(b) = FollowingPage(token.bag)
    BY <1>2, <1>4, <2>2 DEF FollowingPage
  <2>4. Bounded([token EXCEPT !.bag = b])
    <3>1. token \in Token /\ NumUsers \in Nat
      BY SyncAssumption DEF SyncAssumption, TypeOK
    <3>2. [token EXCEPT !.bag = b].bag = b /\ [token EXCEPT !.bag = b].after = token.after
      BY <3>1 DEF Token
    <3>3. Len(b) \in 0 .. (NumUsers + 1)
      BY <1>2, <3>1 DEF Bounded, n
    <3>4. \A i \in DOMAIN b :
            b[i].at \in 0 .. (IF b[i].user = NoUser THEN NumUsers ELSE NumGroups)
      BY <1>2, <2>2 DEF Bounded
    <3> QED
      BY <3>2, <3>3, <3>4 DEF Bounded
  <2>5. Len(b) < Len(token.bag)
    BY <1>2 DEF n
  <2> QED
    BY <1>2, <1>4, <2>3, <2>4, <2>5, UsersFurther
<1> QED
  BY <1>3, <1>4 DEF b

LEMMA ResumeFurther ==
  ASSUME TypeOK, Shape, Bounded(token), pc = "fetch", at > Current.at
  PROVE  Further(NextUsers(Append(Front(UserBag), Resume)))
<1> DEFINE b == Append(Front(token.bag), Resume)
           n == Len(token.bag)
<1>1. /\ Phase = "user" /\ UserBag = token.bag /\ token.bag # <<>> /\ token.bag \in Seq(Frame)
      /\ Current \in Frame /\ Current.user \in Users
      /\ Current = token.bag[n]
  BY FetchingIs, PhaseOfUsers
<1>2. /\ n \in Nat \ {0} /\ DOMAIN token.bag = 1 .. n
      /\ Front(token.bag) \in Seq(Frame) /\ Len(Front(token.bag)) = n - 1
      /\ \A i \in 1 .. (n - 1) : Front(token.bag)[i] = token.bag[i]
      /\ Last(token.bag) = Current
  BY <1>1, BagEnds
<1>3. /\ NumGroups \in Nat /\ at \in 0 .. NumGroups
  <2>1. NumGroups \in Nat
    BY SyncAssumption DEF SyncAssumption
  <2>2. Cardinality(Groups) = NumGroups
    BY <2>1, FS_Interval DEF Groups
  <2> QED
    BY <2>1, <2>2 DEF TypeOK
<1>4. Resume \in Frame /\ Resume.user = Current.user /\ Resume.at = at /\ NoUser \notin Users
  BY <1>1, <1>3 DEF Resume, Frame, NoUser, Users
<1>5. /\ b \in Seq(Frame) /\ Len(b) = n /\ b[n] = Resume
      /\ \A i \in 1 .. (n - 1) : b[i] = token.bag[i]
  <2>1. /\ b \in Seq(Frame) /\ Len(b) = (n - 1) + 1
        /\ \A i \in 1 .. (n - 1) : b[i] = Front(token.bag)[i]
        /\ b[(n - 1) + 1] = Resume
    BY <1>2, <1>4, AppendProperties
  <2>2. (n - 1) + 1 = n
    BY <1>2
  <2> HIDE DEF b
  <2> QED
    BY <1>2, <2>1, <2>2
<1> HIDE DEF b, n
<1>6. b # <<>> /\ DOMAIN b = 1 .. n /\ n \in 1 .. n /\ 1 \in 1 .. n
  BY <1>2, <1>5, EmptySeq, LenProperties
<1>7. Last(b) = Resume
  BY <1>5 DEF Last
<1>8. FollowingPage(b) = FollowingPage(token.bag)
  <2>1. CASE n = 1
    <3>1. b[1].user # NoUser /\ token.bag[1].user # NoUser
      BY <1>1, <1>4, <1>5, <2>1
    <3> QED
      BY <1>1, <1>6, <3>1 DEF FollowingPage
  <2>2. CASE n # 1
    <3>1. 1 \in 1 .. (n - 1)
      BY <1>2, <2>2
    <3> QED
      BY <1>1, <1>5, <1>6, <3>1 DEF FollowingPage
  <2> QED
    BY <2>1, <2>2
<1>9. Bounded([token EXCEPT !.bag = b])
  <2>1. token \in Token
    BY DEF TypeOK
  <2>2. [token EXCEPT !.bag = b].bag = b /\ [token EXCEPT !.bag = b].after = token.after
    BY <2>1 DEF Token
  <2>3. ASSUME NEW i \in DOMAIN b
        PROVE  b[i].at \in 0 .. (IF b[i].user = NoUser THEN NumUsers ELSE NumGroups)
    <3>1. i \in 1 .. n
      BY <1>6
    <3>2. CASE i = n
      BY <1>1, <1>3, <1>4, <1>5, <3>2
    <3>3. CASE i # n
      <4>1. i \in 1 .. (n - 1) /\ i \in DOMAIN token.bag
        BY <1>2, <3>1, <3>3
      <4> QED
        BY <1>5, <4>1 DEF Bounded
    <3> QED
      BY <3>2, <3>3
  <2> QED
    BY <1>5, <2>2, <2>3 DEF Bounded, n
<1>10. Last(token.bag).at < Last(b).at
  BY <1>1, <1>2, <1>3, <1>4, <1>7 DEF Frame
<1>11. Further(NextUsers(b))
  BY <1>1, <1>5, <1>6, <1>8, <1>9, <1>10, UsersFurther DEF n
<1> QED
  BY <1>1, <1>11 DEF b

-----------------------------------------------------------------------------
(* Steps. *)

\* A page that is committed and does not return its own token.
LEMMA CommitFurther ==
  ASSUME NEW t, NEW G, Further(t), Bounded(token), Commit(t, G)
  PROVE  /\ Bounded(token')
         /\ token' # token => status' = "done" \/ Before(Place(token), Place(token'))
<1>1. CASE token' = token
  BY <1>1
<1>2. CASE token' = t /\ status' = IF t.phases = <<>> THEN "done" ELSE "running"
  BY <1>2 DEF Further
<1> QED
  BY <1>1, <1>2 DEF Commit

LEMMA StepFurther ==
  ASSUME IInv, Bounded(token), [Next]_vars
  PROVE  /\ Bounded(token')
         /\ token' # token => status' = "done" \/ Before(Place(token), Place(token'))
<1>1. TypeOK /\ Shape
  BY DEF IInv
<1>2. CASE token' = token
  BY <1>2
<1>3. ASSUME NEW t, NEW G, Further(t), Commit(t, G)
      PROVE  /\ Bounded(token')
             /\ token' # token => status' = "done" \/ Before(Place(token), Place(token'))
  BY <1>3, CommitFurther
<1>4. Fail => token' = token
  BY DEF Fail, Failed, Give
<1>5. CASE Call \/ CallFails \/ ListFails \/ UserNotFound \/ FromStore \/ FromOkta \/ Crash
           \/ Evict \/ OktaChanges \/ UNCHANGED vars
  <2>1. token' = token
    BY <1>4, <1>5 DEF Call, CallFails, ListFails, UserNotFound, FromStore, FromOkta, Crash,
                      Evict, OktaChanges, vars, sync, Failed, Give
  <2> QED
    BY <1>2, <2>1
<1>6. CASE MappedGroupPage \/ GroupPage
  <2>1. PICK S \in SUBSET Groups :
          Phase = "group" /\ \E G : Commit(NextGroups(NextPage(S, token.after)), G)
    <3>1. CASE MappedGroupPage
      <4>1. Groups \in SUBSET Groups
        OBVIOUS
      <4> QED
        BY <3>1, <4>1 DEF MappedGroupPage
    <3>2. CASE GroupPage
      <4>1. world.appGroups \in SUBSET Groups
        BY <1>1, WorldIs
      <4> QED
        BY <3>2, <4>1 DEF GroupPage
    <3> QED
      BY <1>6, <3>1, <3>2
  <2>2. Further(NextGroups(NextPage(S, token.after)))
    BY <1>1, <2>1, NextGroupsFurther
  <2> QED
    BY <1>3, <2>1, <2>2
<1>7. CASE UserPage
  <2> DEFINE k == NextPage(AppUsers(world), Current.at)
  <2>1. Phase = "user" /\ Current.user = NoUser
    BY <1>7 DEF UserPage
  <2>2. PICK put \in InOrder({u \in PageOf(AppUsers(world), Current.at) : PutOff(u)}) :
          \E G : Commit(NextUsers(Front(UserBag)
                           \o (IF k = 0 THEN <<>> ELSE <<[user |-> NoUser, at |-> k]>>) \o put), G)
    BY <1>7 DEF UserPage
  <2>3. Front(UserBag) = <<>> /\ Current.at \in Nat
    BY <1>1, <2>1, PageStateIs
  <2>4. Later(k) \in Seq(Frame)
    <3>1. AppUsers(world) \in SUBSET (1 .. NumUsers) /\ NumUsers \in Nat
      BY <1>1, WorldIs, SyncAssumption DEF SyncAssumption, AppUsers, Users
    <3>2. k \in Nat
      <4>1. k \in 0 .. NumUsers
        BY <2>3, <3>1, NextPageSound
      <4> QED
        BY <3>1, <4>1
    <3>3. <<>> \in Seq(Frame) /\ [user |-> NoUser, at |-> k] \in Frame
      BY <3>2, EmptySeq DEF Frame
    <3> QED
      BY <3>3 DEF Later
  <2>5. \E G : Commit(NextUsers(NextBag(k, put)), G)
    <3>1. Front(UserBag) \o Later(k) = Later(k)
      BY <2>3, <2>4, ConcatEmptySeq
    <3> QED
      BY <2>2, <3>1 DEF NextBag, Later
  <2>6. Further(NextUsers(NextBag(k, put)))
    BY <1>1, <2>1, UserPageFurther
  <2> QED
    BY <1>3, <2>5, <2>6
<1>8. CASE ListUserGroups \/ UserDone
  <2>1. token' = token \/ \E G : Commit(NextUsers(Front(UserBag)), G)
    BY <1>8 DEF ListUserGroups, UserDone, sync
  <2>2. Phase = "user" /\ token.bag # <<>> /\ UserBag = token.bag
    <3>1. CASE ListUserGroups
      BY <3>1 DEF ListUserGroups, Current, UserBag, Last
    <3>2. CASE UserDone
      BY <1>1, <3>2, FetchingIs, PhaseOfUsers DEF UserDone
    <3> QED
      BY <1>8, <3>1, <3>2
  <2>3. Further(NextUsers(Front(UserBag)))
    BY <1>1, <2>2, FrontFurther
  <2> QED
    BY <1>2, <1>3, <2>1, <2>3
<1>9. CASE FetchFails
  <2>1. CASE Fail
    BY <1>2, <1>4, <2>1
  <2>2. CASE at > Current.at /\ Commit(NextUsers(Append(Front(UserBag), Resume)), Collected)
    <3>1. pc = "fetch"
      BY <1>9 DEF FetchFails, Fetching
    <3>2. Further(NextUsers(Append(Front(UserBag), Resume)))
      BY <1>1, <2>2, <3>1, ResumeFurther
    <3> QED
      BY <1>3, <2>2, <3>2
  <2> QED
    BY <1>9, <2>1, <2>2 DEF FetchFails
<1> QED
  BY <1>5, <1>6, <1>7, <1>8, <1>9 DEF Next, Page

\* Where a token can be at all: a finite set of places.
Places == {p \in [1 .. 5 -> Int] :
             /\ p[1] \in 0 .. 1 /\ p[2] \in 0 .. NumGroups /\ p[3] \in 0 .. (NumUsers + 1)
             /\ -p[4] \in 0 .. (NumUsers + 1) /\ p[5] \in 0 .. (NumUsers + NumGroups)}

LEMMA BoundedPlace ==
  ASSUME NEW t \in Token, Bounded(t)
  PROVE  Place(t) \in Places
<1>1. t.bag \in Seq(Frame) /\ Len(t.bag) \in Nat /\ NumUsers \in Nat /\ NumGroups \in Nat
  BY SyncAssumption, LenProperties DEF SyncAssumption, Token
<1>2. t.bag # <<>> =>
        /\ 1 \in DOMAIN t.bag /\ Len(t.bag) \in DOMAIN t.bag
        /\ Last(t.bag) = t.bag[Len(t.bag)]
  <2>1. t.bag # <<>> => /\ Len(t.bag) \in Nat \ {0} /\ DOMAIN t.bag = 1 .. Len(t.bag)
                        /\ Last(t.bag) = t.bag[Len(t.bag)]
    BY <1>1, BagEnds
  <2> QED
    BY <2>1
<1>3. FollowingPage(t.bag) \in 0 .. (NumUsers + 1)
  <2>1. CASE t.bag = <<>>
    BY <1>1, <2>1 DEF FollowingPage
  <2>2. CASE t.bag # <<>> /\ t.bag[1].user = NoUser
    <3>1. t.bag[1].at \in 0 .. NumUsers
      BY <1>2, <2>2 DEF Bounded
    <3> QED
      BY <1>1, <2>2, <3>1 DEF FollowingPage
  <2>3. CASE t.bag # <<>> /\ t.bag[1].user # NoUser
    BY <1>1, <2>3 DEF FollowingPage
  <2> QED
    BY <2>1, <2>2, <2>3
<1>4. (IF t.bag = <<>> THEN 0 ELSE Last(t.bag).at) \in 0 .. (NumUsers + NumGroups)
  <2>1. CASE t.bag = <<>>
    BY <1>1, <2>1
  <2>2. CASE t.bag # <<>>
    <3>1. Last(t.bag).at \in 0 .. NumUsers \/ Last(t.bag).at \in 0 .. NumGroups
      BY <1>2, <2>2 DEF Bounded
    <3> QED
      BY <1>1, <2>2, <3>1
  <2> QED
    BY <2>1, <2>2
<1>5. (IF t.phases = <<"user">> THEN 1 ELSE 0) \in 0 .. 1 /\ t.after \in 0 .. NumGroups
      /\ Len(t.bag) \in 0 .. (NumUsers + 1)
  BY DEF Bounded
<1>6. - (-Len(t.bag)) = Len(t.bag)
  BY <1>1
<1>7. \A i \in 1 .. 5 : Place(t)[i] \in Int
  BY PlaceOfToken
<1>8. Place(t) = [i \in 1 .. 5 |-> Place(t)[i]]
  BY DEF Place
<1>9. Place(t) \in [1 .. 5 -> Int]
  BY <1>7, <1>8
<1> QED
  BY <1>3, <1>4, <1>5, <1>6, <1>9, PlaceIs DEF Places

LEMMA FurtherInvariant == Spec => [](IInv /\ Bounded(token))
<1>1. Init => Bounded(token)
  <2> SUFFICES ASSUME Init PROVE Bounded(token)
    OBVIOUS
  <2>1. token.after = 0 /\ token.bag = <<>>
    BY DEF Init, StartToken
  <2>2. NumUsers \in Nat /\ NumGroups \in Nat /\ Len(<<>>) = 0 /\ DOMAIN <<>> = {}
    BY SyncAssumption DEF SyncAssumption
  <2> QED
    BY <2>1, <2>2 DEF Bounded
<1>2. IInv /\ Bounded(token) /\ [Next]_vars => Bounded(token)'
  BY StepFurther
<1> QED
  BY <1>1, <1>2, SyncInvariant, PTL DEF Spec

\* Each page token comes after the one before it, whatever fails, is repeated or
\* changes in Okta beside the sync.
THEOREM GoesOnward == Spec => Onward
<1>1. IInv /\ Bounded(token) /\ [Next]_vars
      => [token' # token => status' = "done" \/ Before(Place(token), Place(token'))]_vars
  BY StepFurther
<1> QED
  BY <1>1, FurtherInvariant, PTL DEF Spec, Onward

\* A page token is always at one of finitely many places, so that going onward
\* cannot last: it bounds the pages an account can have.
THEOREM PlacesAreBounded == Spec => [](Place(token) \in Places)
<1>1. IInv /\ Bounded(token) => Place(token) \in Places
  BY BoundedPlace DEF IInv, TypeOK
<1> QED
  BY <1>1, FurtherInvariant, PTL

-----------------------------------------------------------------------------
(* No token comes back. *)

\* The sync has ended, or is past token t.
Past(t) == status # "running" \/ Before(Place(t), Place(token))

LEMMA PastForGood ==
  ASSUME NEW t \in Token, IInv, TypeOK', Bounded(token), Past(t), [Next]_vars
  PROVE  Past(t)'
<1>1. CASE status # "running"
  <2>1. status' # "running"
    BY <1>1, StepKinds DEF outside
  <2> QED
    BY <2>1 DEF Past
<1>2. CASE Before(Place(t), Place(token))
  <2>1. token' = token \/ status' = "done" \/ Before(Place(token), Place(token'))
    BY StepFurther
  <2>2. ASSUME Before(Place(token), Place(token')) PROVE Before(Place(t), Place(token'))
    <3>1. token \in Token /\ token' \in Token
      BY DEF IInv, TypeOK
    <3>2. \A i \in 1 .. 5 : /\ Place(t)[i] \in Int /\ Place(token)[i] \in Int
                            /\ Place(token')[i] \in Int
      BY <3>1, PlaceOfToken
    <3> QED
      BY <1>2, <2>2, <3>2, BeforeTransitive
  <2> QED
    BY <1>2, <2>1, <2>2 DEF Past
<1> QED
  BY <1>1, <1>2 DEF Past

\* Once the sync is past a page token it never has it again: no page is read
\* twice but the one in hand.
THEOREM NeverAgain ==
  ASSUME NEW CONSTANT t \in Token
  PROVE  Spec => [](token = t => [](token # t => [](status = "running" => token # t)))
<1> DEFINE There    == token = t
           Left     == token # t
           NotThere == status = "running" => token # t
<1>1. IInv /\ TypeOK' /\ Bounded(token) /\ Past(t) /\ [Next]_vars => Past(t)'
  BY PastForGood
<1>2. IInv /\ Bounded(token) /\ There /\ [Next]_vars => There' \/ Past(t)'
  BY StepFurther DEF Past
<1>3. Past(t) => NotThere
  BY PlaceOfToken, NotBeforeItself DEF Past
<1>4. (IInv => TypeOK) /\ (Left => ~There)
  BY DEF IInv
<1> HIDE DEF There, Left, NotThere
<1>5. Spec => [](There => [](Left => []NotThere))
  BY <1>1, <1>2, <1>3, <1>4, FurtherInvariant, PTL DEF Spec
<1> QED
  BY <1>5 DEF There, Left, NotThere
=============================================================================
