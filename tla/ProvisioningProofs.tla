------------------------- MODULE ProvisioningProofs -------------------------
(* Theorems about Provisioning, for every value of its constants. *)
EXTENDS Provisioning, TLAPS

-----------------------------------------------------------------------------
(* Type correctness. *)

\* What Okta answers is a view.
LEMMA AnswersAreViews ==
    ASSUME TypeOK, NEW p \in Principals
    PROVE  Answers(p) \subseteq View /\ OwnView(p) \in View /\ Absent \in View
<1>1. OwnView(p) \in View /\ Absent \in View
  BY DEF TypeOK, OwnView, View, Absent
<1>2. CASE p \in Users /\ Through(p) # {}
  <2>1. DerivedRoles(p) \subseteq SUBSET Roles
    BY <1>2, ConfigAssumption DEF DerivedRoles, Through, TypeOK, Principals
  <2>2. \A R \in DerivedRoles(p) :
          [found |-> TRUE, scope |-> "GROUP", roles |-> R] \in View
    BY <2>1 DEF View
  <2>. QED  BY <1>1, <1>2, <2>2 DEF Answers
<1>. QED  BY <1>1, <1>2 DEF Answers

\* Ending a task, and calling the handler again, keep the types.
LEMMA FinishTypes ==
    ASSUME TypeOK, NEW w \in Workers, NEW o \in Outcomes, Finish(w, o)
    PROVE  WorkerTypes'
<1>1. Absent \in View  BY DEF Absent, View
<1>2. 0 \in 0 .. MaxAttempts  BY ConfigAssumption
<1>3. "idle" \in Pcs  BY DEF Pcs
<1>. QED  BY <1>1, <1>2, <1>3 DEF Finish, Goto, TypeOK, WorkerTypes

LEMMA RetryTypes ==
    ASSUME TypeOK, NEW w \in Workers, pc[w] # "idle", Retry(w)
    PROVE  WorkerTypes'
<1>1. CASE Finish(w, "error")
  BY <1>1, FinishTypes DEF Outcomes
<1>2. CASE /\ attempt[w] < MaxAttempts
           /\ StartOver(w)
           /\ attempt' = [attempt EXCEPT ![w] = @ + 1]
  <2>1. Absent \in View /\ "settings" \in Pcs  BY DEF Absent, View, Pcs
  <2>2. attempt[w] + 1 \in 0 .. MaxAttempts
    BY <1>2, ConfigAssumption DEF TypeOK, WorkerTypes
  <2>. QED  BY <1>2, <2>1, <2>2 DEF StartOver, Goto, TypeOK, WorkerTypes
<1>. QED  BY <1>1, <1>2 DEF Retry

LEMMA NotDoneTypes ==
    ASSUME TypeOK, NEW w \in Workers, pc[w] # "idle", NotDone(w)
    PROVE  WorkerTypes'
BY FinishTypes, RetryTypes DEF NotDone, Outcomes

\* Moving on to another call keeps them too.
LEMMA GotoTypes ==
    ASSUME TypeOK, NEW w \in Workers, pc[w] # "idle", NEW l \in Pcs \ {"idle"}, Goto(w, l),
           UNCHANGED <<task, attempt, outcome, before>>,
           seen' \in [Workers -> View], again' \in [Workers -> BOOLEAN]
    PROVE  WorkerTypes'
BY DEF Goto, TypeOK, WorkerTypes

\* So do the writes, in Okta.
LEMMA WriteTypes ==
    ASSUME TypeOK, NEW w \in Workers, pc[w] # "idle",
           AssignInOkta(w) \/ UpdateInOkta(w)
    PROVE  assigned' \in SUBSET Principals /\ own' \in [Principals -> SUBSET Roles]
<1>1. Principal(w) \in Principals /\ Role(w) \in Roles
  BY DEF TypeOK, WorkerTypes, Tasks, Principal, Role
<1>2. CASE AssignInOkta(w)
  BY <1>1, <1>2, ConfigAssumption DEF AssignInOkta, TypeOK
<1>3. CASE UpdateInOkta(w)
  <2>1. Target(w) \in SUBSET Roles
    BY <1>1 DEF Target, TypeOK, WorkerTypes, View
  <2>. QED  BY <1>1, <1>3, <2>1 DEF UpdateInOkta, TypeOK
<1>. QED  BY <1>2, <1>3

LEMMA RestartTypes ==
    ASSUME TypeOK, Restart, UNCHANGED conf
    PROVE  TypeOK'
<1>1. Absent \in View  BY DEF Absent, View
<1>2. 0 \in 0 .. MaxAttempts  BY ConfigAssumption
<1>3. "idle" \in Pcs /\ "lost" \in Outcomes  BY DEF Pcs, Outcomes
<1>. QED
  BY <1>1, <1>2, <1>3
  DEF Restart, TypeOK, WorkerTypes, okta, counter

\* Every action keeps the types.
LEMMA TypesKept ==
    ASSUME TypeOK, [Next]_vars
    PROVE  TypeOK'
<1>0. UNCHANGED conf /\ eof' \in SUBSET Workers
  BY DEF Next, vars, TypeOK, Handler, Eof, Resend, Crash, Restart
<1>. USE <1>0 DEF Busy
<1>1. ASSUME NEW w \in Workers, Settings(w)
      PROVE  TypeOK'
  <2>1. pc[w] # "idle"  BY <1>1 DEF Settings
  <2>2. WorkerTypes'
    <3>1. CASE Goto(w, "get") /\ UNCHANGED <<task, seen, again, attempt, outcome, before>>
      BY <2>1, <3>1, GotoTypes DEF TypeOK, WorkerTypes, Pcs
    <3>2. CASE Finish(w, "error") \/ NotDone(w)
      BY <2>1, <3>2, FinishTypes, NotDoneTypes DEF Outcomes
    <3>. QED  BY <1>1, <3>1, <3>2 DEF Settings
  <2>. QED  BY <1>1, <2>2 DEF Settings, TypeOK, okta, counter
<1>2. ASSUME NEW w \in Workers, Get(w)
      PROVE  TypeOK'
  <2>1. pc[w] # "idle" /\ Principal(w) \in Principals
    BY <1>2 DEF Get, TypeOK, WorkerTypes, Tasks, Principal
  <2>2. \E l \in Pcs \ {"idle"} : Goto(w, l)
    BY <1>2 DEF Get, Pcs
  <2>3. WorkerTypes'
    BY <1>2, <2>1, <2>2, GotoTypes DEF Get, TypeOK, WorkerTypes
  <2>. QED  BY <1>2, <2>3 DEF Get, TypeOK, okta, counter
<1>17. ASSUME NEW w \in Workers, Hit(w)
       PROVE  TypeOK'
  <2>1. pc[w] # "idle" /\ Principal(w) \in Principals
    BY <1>17 DEF Hit, TypeOK, WorkerTypes, Tasks, Principal
  <2>2. seen' \in [Workers -> View] /\ "decide" \in Pcs
    BY <1>17, <2>1 DEF Hit, TypeOK, WorkerTypes, Pcs
  <2>3. WorkerTypes'
    BY <1>17, <2>1, <2>2, GotoTypes DEF Hit, TypeOK, WorkerTypes
  <2>. QED  BY <1>17, <2>3 DEF Hit, TypeOK, okta, counter
<1>3. ASSUME NEW w \in Workers, HitGone(w) \/ AskFails(w)
      PROVE  TypeOK'
  <2>1. WorkerTypes'
    BY <1>3, FinishTypes, NotDoneTypes DEF HitGone, AskFails, Outcomes
  <2>. QED  BY <1>3, <2>1 DEF HitGone, AskFails, TypeOK, okta, counter
<1>18. ASSUME NEW w \in Workers, Ask(w)
       PROVE  TypeOK'
  <2>1. pc[w] # "idle" /\ Principal(w) \in Principals
    BY <1>18 DEF Ask, TypeOK, WorkerTypes, Tasks, Principal
  <2>2. seen' \in [Workers -> View] /\ "fill" \in Pcs
    BY <1>18, <2>1, AnswersAreViews DEF Ask, TypeOK, WorkerTypes, Pcs
  <2>3. WorkerTypes'
    BY <1>18, <2>1, <2>2, GotoTypes DEF Ask, TypeOK, WorkerTypes
  <2>. QED  BY <1>18, <2>3 DEF Ask, TypeOK, okta, counter
<1>4. ASSUME NEW w \in Workers, Fill(w)
      PROVE  TypeOK'
  <2>1. pc[w] # "idle" /\ Principal(w) \in Principals
    BY <1>4 DEF Fill, TypeOK, WorkerTypes, Tasks, Principal
  <2>2. WorkerTypes'
    BY <1>4, <2>1, GotoTypes DEF Fill, TypeOK, WorkerTypes, Pcs
  <2>. QED  BY <1>4, <2>1, <2>2 DEF Fill, TypeOK, WorkerTypes, okta, counter
<1>5. ASSUME NEW w \in Workers, DecideAbsent(w) \/ DecideFound(w)
      PROVE  TypeOK'
  <2>1. pc[w] # "idle"
    BY <1>5 DEF DecideAbsent, DecideFound
  <2>2. WorkerTypes'
    <3>1. CASE \E o \in Outcomes : Finish(w, o)
      BY <3>1, FinishTypes
    <3>2. CASE \/ Goto(w, "assign") /\ UNCHANGED <<task, seen, again, attempt, outcome, before>>
               \/ Goto(w, "update") /\ UNCHANGED <<task, seen, again, attempt, outcome, before>>
      BY <2>1, <3>2, GotoTypes DEF TypeOK, WorkerTypes, Pcs
    <3>. QED
      BY <1>5, <3>1, <3>2 DEF DecideAbsent, DecideFound, Outcomes
  <2>3. cache' \in [Principals -> View \cup {NoView}]
    BY <1>5 DEF DecideAbsent, DecideFound, Forget, TypeOK
  <2>. QED  BY <1>5, <2>2, <2>3 DEF DecideAbsent, DecideFound, TypeOK, okta, counter
<1>6. ASSUME NEW w \in Workers, Assign(w)
      PROVE  TypeOK'
  <2>1. pc[w] # "idle" /\ Absent \in View
    BY <1>6 DEF Assign, Absent, View
  <2>2. WorkerTypes'
    <3>1. CASE Finish(w, "ok")
      BY <3>1, FinishTypes DEF Outcomes
    <3>2. CASE /\ Goto(w, "get")
               /\ seen' = [seen EXCEPT ![w] = Absent]
               /\ again' = [again EXCEPT ![w] = TRUE]
               /\ UNCHANGED <<task, attempt, outcome, before>>
      <4>1. seen' \in [Workers -> View]
        BY <2>1, <3>2 DEF TypeOK, WorkerTypes
      <4>2. again' \in [Workers -> BOOLEAN]
        BY <3>2 DEF TypeOK, WorkerTypes
      <4>. QED  BY <2>1, <3>2, <4>1, <4>2, GotoTypes DEF Pcs
    <3>. QED  BY <1>6, <3>1, <3>2 DEF Assign
  <2>. QED  BY <1>6, <2>1, <2>2, WriteTypes DEF Assign, TypeOK, counter
<1>7. ASSUME NEW w \in Workers, Update(w)
      PROVE  TypeOK'
  <2>1. WorkerTypes'
    BY <1>7, FinishTypes DEF Update, Outcomes
  <2>. QED  BY <1>7, <2>1, WriteTypes DEF Update, TypeOK, okta, counter
<1>8. ASSUME NEW w \in Workers, WriteFails(w)
      PROVE  TypeOK'
  <2>1. pc[w] # "idle"  BY <1>8 DEF WriteFails
  <2>2. WorkerTypes'
    BY <1>8, <2>1, FinishTypes, NotDoneTypes DEF WriteFails, Outcomes
  <2>3. assigned' \in SUBSET Principals /\ own' \in [Principals -> SUBSET Roles]
    BY <1>8, <2>1, WriteTypes DEF WriteFails, Carried, TypeOK, okta
  <2>. QED  BY <1>8, <2>2, <2>3 DEF WriteFails, TypeOK, counter
<1>9. ASSUME NEW w \in Workers, Eof(w) \/ Resend(w)
      PROVE  TypeOK'
  <2>1. assigned' \in SUBSET Principals /\ own' \in [Principals -> SUBSET Roles]
    <3>1. CASE UNCHANGED okta
      BY <3>1 DEF TypeOK, okta
    <3>2. CASE Carried(w)
      BY <3>2, WriteTypes DEF Carried
    <3>. QED  BY <1>9, <3>1, <3>2 DEF Eof, Resend
  <2>. QED  BY <1>9, <2>1 DEF Eof, Resend, TypeOK, WorkerTypes, worker, counter
<1>10. ASSUME NEW w \in Workers, NEW t \in Tasks, Start(w, t)
       PROVE  TypeOK'
  <2>1. t.principal \in Principals /\ Absent \in View /\ OwnView(t.principal) \in View
    BY AnswersAreViews DEF Tasks, Absent, View
  <2>2. WorkerTypes'
    BY <1>10, <2>1, ConfigAssumption DEF Start, Goto, TypeOK, WorkerTypes, Pcs, Outcomes
  <2>. QED  BY <1>10, <2>2 DEF Start, TypeOK, okta
<1>11. ASSUME NEW p \in Principals, Expire(p)
       PROVE  TypeOK'
  BY <1>11 DEF Expire, Forget, TypeOK, WorkerTypes, okta, worker, counter
<1>12. ASSUME NEW p \in Principals, OutsideWrite(p)
       PROVE  TypeOK'
  BY <1>12 DEF OutsideWrite, TypeOK, WorkerTypes, worker
<1>13. ASSUME NEW g \in Groups, SyncGet(g)
       PROVE  TypeOK'
  <2>1. OwnView(g) \in View  BY AnswersAreViews DEF Principals
  <2>. QED  BY <1>13, <2>1 DEF SyncGet, TypeOK, WorkerTypes, okta, worker, counter
<1>14. ASSUME NEW g \in Groups, SyncFill(g)
       PROVE  TypeOK'
  BY <1>14 DEF SyncFill, TypeOK, WorkerTypes, okta, worker, counter
<1>15. ASSUME Crash
       PROVE  TypeOK'
  BY <1>15, RestartTypes DEF Crash
<1>16. CASE UNCHANGED vars
  BY <1>16 DEF vars, okta, worker, counter, TypeOK, WorkerTypes
<1>. QED
  BY <1>1, <1>2, <1>3, <1>4, <1>5, <1>6, <1>7, <1>8, <1>9, <1>10, <1>11,
     <1>12, <1>13, <1>14, <1>15, <1>16, <1>17, <1>18
  DEF Next, Handler, Call, Beside

\* Every variable keeps its type, under any mix of tasks, failures, crashes,
\* outside edits and sync reads.
THEOREM TypeCorrect == Spec => []TypeOK
<1>1. Init => TypeOK
  BY ConfigAssumption
  DEF Init, TypeOK, WorkerTypes, Absent, View, Pcs, Outcomes
<1>2. TypeOK /\ [Next]_vars => TypeOK'
  BY TypesKept
<1>. QED  BY <1>1, <1>2, PTL DEF Spec

-----------------------------------------------------------------------------
(* The inductive invariant.  A step of a handler touches its own worker and  *)
(* its own principal, so that for tasks which never share a principal it is  *)
(* enough to look at those.                                                  *)

\* A step of w, on principal p, leaves the other workers and principals alone.
LocalTo(w, p) ==
    /\ \A v \in Workers \ {w} :
         /\ pc'[v] = pc[v] /\ task'[v] = task[v] /\ seen'[v] = seen[v]
         /\ before'[v] = before[v]
    /\ \A q \in Principals \ {p} :
         /\ cache'[q] = cache[q] /\ own'[q] = own[q]
         /\ q \in assigned' <=> q \in assigned
    /\ fetch' = fetch

PrincipalInv(p) ==
    /\ p \notin assigned => own[p] = {}
    /\ cache[p] # NoView => cache[p].found /\ Current(p, cache[p])

\* What holds of one worker and one principal after a local step, and held of
\* all of them before it, holds of all of them after it.
LEMMA Localised ==
    ASSUME IInv, TypeOK', NEW w \in Workers, NEW p \in Principals,
           Busy(w), p = Principal(w), LocalTo(w, p),
           PrincipalInv(p)',
           Busy(w)' => InHand(w)' /\ StartOrDone(w)' /\ task'[w] = task[w]
    PROVE  IInv'
<1>1. NoSharing'
  <2>1. \A v \in Workers : Busy(v)' => Busy(v) /\ Principal(v)' = Principal(v)
    BY DEF LocalTo, Busy, Principal
  <2>. QED  BY <2>1 DEF IInv, NoSharing
<1>2. UnassignedEmpty' /\ CacheCurrent'
  <2>1. ASSUME NEW q \in Principals
        PROVE  PrincipalInv(q)'
    <3>1. CASE q = p  BY <3>1
    <3>2. CASE q # p
      <4>1. PrincipalInv(q)
        BY DEF IInv, UnassignedEmpty, CacheCurrent, PrincipalInv
      <4>2. cache'[q] = cache[q] /\ own'[q] = own[q] /\ (q \in assigned' <=> q \in assigned)
        BY <3>2 DEF LocalTo
      <4>. QED  BY <4>1, <4>2 DEF PrincipalInv, Current, OwnView
    <3>. QED  BY <3>1, <3>2
  <2>. QED  BY <2>1 DEF UnassignedEmpty, CacheCurrent, PrincipalInv
<1>3. WorkerInv'
  <2>1. SUFFICES ASSUME NEW v \in Workers, Busy(v)', v # w
                 PROVE  InHand(v)' /\ StartOrDone(v)'
    BY DEF WorkerInv
  <2>2. /\ Busy(v) /\ pc'[v] = pc[v] /\ task'[v] = task[v] /\ seen'[v] = seen[v]
        /\ before'[v] = before[v] /\ Principal(v)' = Principal(v)
    BY <2>1 DEF LocalTo, Busy, Principal
  <2>3. Principal(v) \in Principals /\ Principal(v) # p
    BY <2>1, <2>2 DEF IInv, NoSharing, TypeOK, WorkerTypes, Tasks, Principal, Busy
  <2>4. InHand(v) /\ StartOrDone(v)
    BY <2>2 DEF IInv, WorkerInv
  <2>5. InHand(v)'
    BY <2>2, <2>3, <2>4
    DEF InHand, LocalTo, Current, OwnView, Target, Granting, Role
  <2>6. StartOrDone(v)'
    BY <2>2, <2>3, <2>4 DEF StartOrDone, MayLeave, LocalTo, Applied, Granting, Role
  <2>. QED  BY <2>5, <2>6
<1>4. NothingFetched'
  BY DEF IInv, NothingFetched, LocalTo
<1>. QED  BY <1>1, <1>2, <1>3, <1>4 DEF IInv

\* A step that ends w's task or calls its handler again leaves the other
\* workers alone, and w at its first call if it goes on.
LEMMA EndOrAgain ==
    ASSUME TypeOK, NEW w \in Workers, NEW o, Finish(w, o) \/ NotDone(w)
    PROVE  /\ \A v \in Workers \ {w} :
                /\ pc'[v] = pc[v] /\ task'[v] = task[v] /\ seen'[v] = seen[v]
                /\ before'[v] = before[v]
           /\ Busy(w)' => /\ pc'[w] = "settings"
                          /\ task'[w] = task[w] /\ before'[w] = before[w]
BY DEF TypeOK, WorkerTypes, NotDone, Retry, StartOver, Finish, Goto, Busy

\* A step that goes on to another call leaves the other workers alone.
LEMMA GoOn ==
    ASSUME TypeOK, NEW w \in Workers, NEW l, Goto(w, l),
           UNCHANGED <<task, before>>,
           \E s : seen' = [seen EXCEPT ![w] = s]
    PROVE  /\ \A v \in Workers \ {w} :
                /\ pc'[v] = pc[v] /\ task'[v] = task[v] /\ seen'[v] = seen[v]
                /\ before'[v] = before[v]
           /\ pc'[w] = l /\ task'[w] = task[w] /\ before'[w] = before[w]
BY DEF TypeOK, WorkerTypes, Goto

\* What a write of w does to Okta: it leaves every other assignment alone, it
\* changes an existing one by the task's role only, and its result is one the
\* task may leave behind.
LEMMA WriteIsExact ==
    ASSUME IInv, NEW w \in Workers, NEW p \in Principals, p = Principal(w),
           \/ pc[w] = "assign" /\ AssignInOkta(w)
           \/ pc[w] = "update" /\ UpdateInOkta(w)
    PROVE  /\ p \in assigned' /\ cache[p] = NoView
           /\ \A q \in Principals \ {p} :
                own'[q] = own[q] /\ (q \in assigned' <=> q \in assigned)
           /\ MayLeave(w, own'[p])
           /\ p \in assigned /\ own'[p] # own[p] => own'[p] = Applied(w, own[p])
           /\ pc[w] = "assign" /\ p \in Users => own'[p] = {Role(w)}
           /\ pc[w] = "update" => own'[p] = Target(w)
<1>1. /\ own \in [Principals -> SUBSET Roles] /\ Busy(w)
      /\ InHand(w) /\ StartOrDone(w)
  BY DEF IInv, TypeOK, WorkerInv, Busy
<1>2. p \in assigned' /\ cache[p] = NoView
  BY <1>1 DEF InHand, AssignInOkta, UpdateInOkta
<1>3. \A q \in Principals \ {p} :
        own'[q] = own[q] /\ (q \in assigned' <=> q \in assigned)
  BY <1>1 DEF AssignInOkta, UpdateInOkta
<1>4. CASE pc[w] = "assign"
  <2>1. own'[p] = IF p \in Users THEN {Role(w)}
                  ELSE IF p \in assigned THEN own[p] ELSE DefaultRoles
    BY <1>1, <1>4 DEF AssignInOkta
  <2>2. MayLeave(w, own'[p])
    BY <1>1, <1>4, <2>1, ConfigAssumption DEF InHand, StartOrDone, MayLeave
  <2>. QED  BY <1>1, <1>2, <1>3, <1>4, <2>1, <2>2 DEF InHand
<1>5. CASE pc[w] = "update"
  <2>1. own'[p] = Target(w)
    BY <1>1, <1>5 DEF UpdateInOkta
  <2>2. CASE p \in assigned
    <3>1. own[p] = Target(w) \/ Target(w) = Applied(w, own[p])
      <4>1. own[p] = Target(w) \/ seen[w] = OwnView(p)
        BY <1>1, <1>5, <2>2 DEF InHand, Current
      <4>2. seen[w] = OwnView(p) => seen[w].roles = own[p]
        BY DEF OwnView
      <4>. QED  BY <4>1, <4>2 DEF Target, Applied
    <3>2. MayLeave(w, own[p])
      BY <1>1, <2>2 DEF StartOrDone
    <3>3. Applied(w, Applied(w, own[p])) = Applied(w, own[p])
          /\ \A B : Applied(w, Applied(w, B)) = Applied(w, B)
      BY Zenon DEF Applied
    <3>4. MayLeave(w, Applied(w, own[p]))
      BY <3>2, <3>3, Zenon DEF MayLeave
    <3>. QED  BY <1>2, <1>3, <1>5, <2>1, <3>1, <3>2, <3>4
  <2>3. CASE p \notin assigned
    <3>1. ~before[w].found /\ p \in Users
      BY <1>1, <1>5, <2>3 DEF InHand, StartOrDone, Current
    <3>. QED  BY <1>2, <1>3, <1>5, <2>1, <2>3, <3>1, ConfigAssumption DEF MayLeave
  <2>. QED  BY <2>2, <2>3
<1>. QED  BY <1>4, <1>5

\* A handler's step that leaves Okta and its own cache entry as they are, and
\* ends the task or starts the handler over, keeps the invariant.
LEMMA QuietEnd ==
    ASSUME IInv, TypeOK', NEW w \in Workers, Busy(w), NEW o,
           Finish(w, o) \/ NotDone(w), UNCHANGED <<okta, cache, fetch>>
    PROVE  IInv'
<1>0. PICK p \in Principals : p = Principal(w)
  BY DEF IInv, TypeOK, WorkerTypes, Tasks, Busy, Principal
<1>1. p = Principal(w) /\ TypeOK
  BY <1>0 DEF IInv
<1>2. LocalTo(w, p)
  BY <1>1, EndOrAgain DEF LocalTo, okta
<1>3. PrincipalInv(p)'
  BY <1>1 DEF IInv, UnassignedEmpty, CacheCurrent, PrincipalInv, Current, OwnView, okta
<1>4. Busy(w)' => InHand(w)' /\ StartOrDone(w)' /\ task'[w] = task[w]
  <2>1. SUFFICES ASSUME Busy(w)'
                 PROVE  InHand(w)' /\ StartOrDone(w)' /\ task'[w] = task[w]
    OBVIOUS
  <2>2. pc'[w] = "settings" /\ task'[w] = task[w] /\ before'[w] = before[w]
    BY <1>1, <2>1, EndOrAgain
  <2>3. InHand(w)'
    BY <2>2 DEF InHand
  <2>4. StartOrDone(w)
    BY DEF IInv, WorkerInv
  <2>5. StartOrDone(w)'
    BY <2>2, <2>4 DEF StartOrDone, MayLeave, Applied, Granting, Role, Principal, okta
  <2>. QED  BY <2>2, <2>3, <2>5
<1>. QED  BY <1>1, <1>2, <1>3, <1>4, Localised

\* So does one that goes on to another call, if what it then holds is current
\* and it only forgets its cache entry.
LEMMA QuietGoOn ==
    ASSUME IInv, TypeOK', NEW w \in Workers, Busy(w), NEW l, Goto(w, l),
           UNCHANGED <<okta, fetch, task, before>>,
           \E s : seen' = [seen EXCEPT ![w] = s],
           \/ cache' = cache
           \/ \E c \in {NoView, seen[w]} :
                /\ cache' = [cache EXCEPT ![Principal(w)] = c]
                /\ c # NoView => c.found /\ Current(Principal(w), c),
           InHand(w)'
    PROVE  IInv'
<1>0. PICK p \in Principals : p = Principal(w)
  BY DEF IInv, TypeOK, WorkerTypes, Tasks, Busy, Principal
<1>1. p = Principal(w) /\ TypeOK
  BY <1>0 DEF IInv
<1>2. LocalTo(w, p)
  BY <1>1, GoOn DEF LocalTo, okta, TypeOK
<1>3. PrincipalInv(p)'
  <2>1. PrincipalInv(p)
    BY <1>1 DEF IInv, UnassignedEmpty, CacheCurrent, PrincipalInv
  <2>2. \A v : Current(p, v)' <=> Current(p, v)
    BY DEF Current, OwnView, okta
  <2>. QED  BY <1>1, <2>1, <2>2 DEF PrincipalInv, okta, TypeOK
<1>4. pc'[w] = l /\ task'[w] = task[w] /\ before'[w] = before[w]
  BY <1>1, GoOn
<1>5. StartOrDone(w)
  BY DEF IInv, WorkerInv
<1>6. StartOrDone(w)'
  BY <1>4, <1>5 DEF StartOrDone, MayLeave, Applied, Granting, Role, Principal, okta
<1>. QED  BY <1>1, <1>2, <1>3, <1>4, <1>6, Localised

\* A write keeps it, answered, not answered, or still to be sent again.
LEMMA WriteKeeps ==
    ASSUME IInv, TypeOK', NEW w \in Workers,
           \/ pc[w] = "assign" /\ AssignInOkta(w)
           \/ pc[w] = "update" /\ UpdateInOkta(w),
           UNCHANGED <<cache, fetch>>,
           \/ \E o : Finish(w, o)
           \/ /\ pc[w] = "assign" /\ Goto(w, "get") /\ UNCHANGED <<task, before>>
              /\ seen' = [seen EXCEPT ![w] = Absent]
           \/ UNCHANGED worker
    PROVE  IInv'
<1>0. PICK p \in Principals : p = Principal(w)
  BY DEF IInv, TypeOK, WorkerTypes, Tasks, Principal
<1>1. p = Principal(w) /\ TypeOK /\ Busy(w) /\ InHand(w) /\ StartOrDone(w)
  BY <1>0 DEF IInv, WorkerInv, Busy
<1>2. /\ p \in assigned' /\ cache[p] = NoView
      /\ \A q \in Principals \ {p} :
           own'[q] = own[q] /\ (q \in assigned' <=> q \in assigned)
      /\ MayLeave(w, own'[p])
      /\ pc[w] = "assign" /\ p \in Users => own'[p] = {Role(w)}
      /\ pc[w] = "update" => own'[p] = Target(w)
  BY <1>1, WriteIsExact
<1>3. /\ \A v \in Workers \ {w} :
           /\ pc'[v] = pc[v] /\ task'[v] = task[v] /\ seen'[v] = seen[v]
           /\ before'[v] = before[v]
      /\ Busy(w)' => /\ pc'[w] \in {pc[w], "get"}
                     /\ pc'[w] = pc[w] => seen'[w] = seen[w]
                     /\ task'[w] = task[w] /\ before'[w] = before[w]
  <2>1. CASE \E o : Finish(w, o)
    <3>1. ~Busy(w)'  BY <1>1, <2>1 DEF Finish, Goto, Busy, TypeOK, WorkerTypes
    <3>. QED  BY <1>1, <2>1, <3>1, EndOrAgain
  <2>2. CASE /\ pc[w] = "assign" /\ Goto(w, "get") /\ UNCHANGED <<task, before>>
             /\ seen' = [seen EXCEPT ![w] = Absent]
    <3>1. \E s : seen' = [seen EXCEPT ![w] = s]
      BY <2>2
    <3>2. /\ \A v \in Workers \ {w} :
               /\ pc'[v] = pc[v] /\ task'[v] = task[v] /\ seen'[v] = seen[v]
               /\ before'[v] = before[v]
          /\ pc'[w] = "get" /\ task'[w] = task[w] /\ before'[w] = before[w]
      BY <1>1, <2>2, <3>1, GoOn
    <3>. QED  BY <2>2, <3>2
  <2>3. CASE UNCHANGED worker
    BY <2>3 DEF worker
  <2>. QED  BY <2>1, <2>2, <2>3
<1>4. LocalTo(w, p)
  BY <1>2, <1>3 DEF LocalTo
<1>5. PrincipalInv(p)'
  BY <1>2 DEF PrincipalInv
<1>6. Busy(w)' => InHand(w)' /\ StartOrDone(w)' /\ task'[w] = task[w]
  <2>1. SUFFICES ASSUME Busy(w)'
                 PROVE  InHand(w)' /\ StartOrDone(w)' /\ task'[w] = task[w]
    OBVIOUS
  <2>2. /\ pc[w] \in {"assign", "update"} /\ pc'[w] \in {pc[w], "get"}
        /\ pc'[w] = pc[w] => seen'[w] = seen[w]
        /\ task'[w] = task[w] /\ before'[w] = before[w]
    BY <1>3, <2>1
  <2>3. InHand(w)'
    BY <1>1, <1>2, <2>2 DEF InHand, Target, Granting, Role, Principal
  <2>4. StartOrDone(w)'
    BY <1>1, <1>2, <2>2 DEF StartOrDone, MayLeave, Applied, Granting, Role, Principal
  <2>. QED  BY <2>2, <2>3, <2>4
<1>. QED  BY <1>1, <1>4, <1>5, <1>6, Localised

\* What Okta answers is current, and so is what the cache holds.
LEMMA AnswersAreCurrent ==
    ASSUME NEW p \in Principals, NEW v \in Answers(p)
    PROVE  Current(p, v)
BY DEF Answers, Current, Absent

\* Every call of a handler keeps the invariant.
LEMMA CallKeeps ==
    ASSUME IInv, TypeOK', NEW w \in Workers, Call(w)
    PROVE  IInv'
<1>. USE DEF Call
<1>0. Busy(w)
  BY DEF IInv, NoSharing, Handler, Settings, Get, Hit, HitGone, Ask, AskFails, Fill,
         DecideAbsent, DecideFound, Assign, Update, WriteFails, Busy
<1>1. PICK p \in Principals :
        /\ p = Principal(w) /\ TypeOK /\ Busy(w) /\ InHand(w)
        /\ cache[p] # NoView => cache[p].found /\ Current(p, cache[p])
        /\ seen = [seen EXCEPT ![w] = seen[w]]
  BY <1>0 DEF IInv, WorkerInv, CacheCurrent, Busy, TypeOK, WorkerTypes, Tasks, Principal
<1>2. CASE UNCHANGED <<okta, cache, fetch>> /\ \E o : Finish(w, o) \/ NotDone(w)
  BY <1>1, <1>2, QuietEnd
<1>3. CASE Settings(w) /\ Goto(w, "get") /\ UNCHANGED <<task, seen, again, attempt, outcome, before>>
  <2>1. InHand(w)'
    BY <1>1, <1>3, GoOn DEF InHand
  <2>. QED  BY <1>1, <1>3, <2>1, QuietGoOn DEF Settings
<1>12. CASE Hit(w)
  <2>1. /\ cache[p] # NoView /\ Goto(w, "decide") /\ seen' = [seen EXCEPT ![w] = cache[p]]
        /\ UNCHANGED <<okta, cache, fetch, task, before>>
    BY <1>1, <1>12 DEF Hit
  <2>2. pc'[w] = "decide" /\ seen'[w] = cache[p] /\ task'[w] = task[w]
    BY <1>1, <2>1 DEF Goto, TypeOK, WorkerTypes
  <2>3. InHand(w)'
    BY <1>1, <2>1, <2>2 DEF InHand, Principal, Current, OwnView, okta
  <2>. QED  BY <1>1, <2>1, <2>3, QuietGoOn
<1>4. CASE Get(w)
  <2>1. PICK l \in {"hit", "ask"} : Goto(w, l) /\ (l = "ask" => cache[p] = NoView)
    BY <1>1, <1>4 DEF Get
  <2>2. UNCHANGED <<okta, cache, fetch, task, seen, before>>
    BY <1>4 DEF Get
  <2>3. pc'[w] = l /\ seen'[w] = seen[w] /\ task'[w] = task[w]
    BY <1>1, <2>1, <2>2 DEF Goto, TypeOK, WorkerTypes
  <2>4. InHand(w)'
    BY <1>1, <2>1, <2>2, <2>3 DEF InHand, Principal
  <2>. QED  BY <1>1, <2>1, <2>2, <2>4, QuietGoOn
<1>13. CASE Ask(w)
  <2>1. PICK v \in Answers(p) : seen' = [seen EXCEPT ![w] = v]
    BY <1>1, <1>13 DEF Ask
  <2>2. Goto(w, "fill") /\ UNCHANGED <<okta, cache, fetch, task, before>>
    BY <1>13 DEF Ask
  <2>3. /\ pc'[w] = "fill" /\ seen'[w] = v /\ task'[w] = task[w]
        /\ cache[p] = NoView
    BY <1>1, <1>13, <2>1, <2>2 DEF Ask, InHand, Goto, TypeOK, WorkerTypes
  <2>4. Current(p, v)  BY AnswersAreCurrent
  <2>5. InHand(w)'
    BY <1>1, <2>2, <2>3, <2>4 DEF InHand, Principal, Current, OwnView, okta
  <2>. QED  BY <1>1, <2>1, <2>2, <2>5, QuietGoOn
<1>5. CASE Fill(w)
  <2>1. /\ pc[w] = "fill" /\ Goto(w, "decide") /\ Current(p, seen[w])
        /\ UNCHANGED <<okta, fetch, task, seen, before>>
    BY <1>1, <1>5 DEF Fill, InHand
  <2>2. \/ cache' = cache
        \/ seen[w].found /\ cache' = [cache EXCEPT ![p] = seen[w]]
    BY <1>1, <1>5 DEF Fill
  <2>3. pc'[w] = "decide" /\ seen'[w] = seen[w] /\ task'[w] = task[w]
    BY <1>1, <2>1 DEF Goto, TypeOK, WorkerTypes
  <2>4. InHand(w)'
    BY <1>1, <2>1, <2>2, <2>3 DEF InHand, Principal, Current, OwnView, okta
  <2>. QED  BY <1>1, <2>1, <2>2, <2>4, QuietGoOn
<1>6. CASE DecideAbsent(w) /\ Goto(w, "assign")
  <2>1. /\ pc[w] = "decide" /\ Granting(w) /\ ~seen[w].found /\ Current(p, seen[w])
        /\ UNCHANGED <<okta, fetch>>
        /\ UNCHANGED <<task, seen, again, attempt, outcome, before>>
    BY <1>1, <1>6 DEF DecideAbsent, InHand, Finish, Goto, TypeOK, WorkerTypes
  <2>2. pc'[w] = "assign" /\ seen'[w] = seen[w] /\ task'[w] = task[w] /\ before'[w] = before[w]
    BY <1>1, <1>6, <2>1 DEF Goto, TypeOK, WorkerTypes
  <2>3. p \notin assigned  BY <2>1 DEF Current, OwnView
  <2>4. ~before[w].found
    BY <1>1, <2>3 DEF IInv, WorkerInv, StartOrDone
  <2>5. cache[p] = NoView /\ (cache' = cache \/ cache' = [cache EXCEPT ![p] = NoView])
    BY <1>1, <1>6, <2>1 DEF DecideAbsent, InHand, Forget, Finish, Goto, TypeOK, WorkerTypes
  <2>6. InHand(w)'
    BY <1>1, <2>1, <2>2, <2>3, <2>4, <2>5 DEF InHand, Principal, Granting, okta, TypeOK
  <2>. QED  BY <1>1, <1>6, <2>1, <2>5, <2>6, QuietGoOn
<1>7. CASE DecideFound(w) /\ Goto(w, "update")
  <2>1. /\ pc[w] = "decide" /\ seen[w].found /\ Current(p, seen[w])
        /\ UNCHANGED <<okta, fetch>>
        /\ UNCHANGED <<task, seen, again, attempt, outcome, before>>
        /\ cache' = [cache EXCEPT ![p] = NoView]
    BY <1>1, <1>7 DEF DecideFound, InHand, Finish, Goto, Forget, TypeOK, WorkerTypes
  <2>2. pc'[w] = "update" /\ seen'[w] = seen[w] /\ task'[w] = task[w]
    BY <1>1, <1>7, <2>1 DEF Goto, TypeOK, WorkerTypes
  <2>3. InHand(w)'
    BY <1>1, <2>1, <2>2 DEF InHand, Principal, Current, OwnView, okta, TypeOK
  <2>. QED  BY <1>1, <1>7, <2>1, <2>3, QuietGoOn
<1>8. CASE Assign(w)
  BY <1>8, WriteKeeps DEF Assign
<1>9. CASE Update(w)
  <2>1. CASE UpdateInOkta(w)
    BY <1>9, <2>1, WriteKeeps DEF Update
  <2>2. CASE UNCHANGED okta /\ Finish(w, "error")
    BY <1>2, <1>9, <2>2 DEF Update, okta
  <2>. QED  BY <1>9, <2>1, <2>2 DEF Update
<1>10. CASE WriteFails(w)
  <2>1. CASE Carried(w) /\ Finish(w, "error")
    BY <1>10, <2>1, WriteKeeps DEF WriteFails, Carried
  <2>2. CASE UNCHANGED okta /\ (Finish(w, "error") \/ NotDone(w))
    BY <1>2, <1>10, <2>2 DEF WriteFails, okta
  <2>. QED  BY <1>10, <2>1, <2>2 DEF WriteFails
<1>11. CASE HitGone(w) \/ AskFails(w)
  BY <1>2, <1>11 DEF HitGone, AskFails, okta
<1>. QED
  BY <1>2, <1>3, <1>4, <1>5, <1>6, <1>7, <1>8, <1>9, <1>10, <1>11, <1>12, <1>13
  DEF Settings, DecideAbsent, DecideFound, okta

\* A request that broke off may have been carried out, and is the worker's
\* still: the invariant is kept too, where Okta changes and where not.
LEMMA EofKeeps ==
    ASSUME IInv, TypeOK', NEW w \in Workers, Eof(w), Carried(w)
    PROVE  IInv'
BY WriteKeeps DEF Eof, Carried

\* Every step keeps the invariant, when tasks never share a principal, no one
\* else writes and no sync reads.
LEMMA InvariantKept ==
    ASSUME Undisturbed, IInv, [Next]_vars
    PROVE  IInv'
<1>1. TypeOK'  BY TypesKept DEF IInv
<1>2. ASSUME NEW w \in Workers, Call(w)
      PROVE  IInv'
  BY <1>1, <1>2, CallKeeps
<1>9. ASSUME NEW w \in Workers, Eof(w), Carried(w)
      PROVE  IInv'
  BY <1>1, <1>9, EofKeeps
<1>10. ASSUME NEW w \in Workers, (Eof(w) /\ UNCHANGED okta) \/ Resend(w)
       PROVE  UNCHANGED <<okta, cache, worker, fetch>>
  BY <1>10 DEF Eof, Resend
<1>3. ASSUME Restart
      PROVE  IInv'
  <2>1. NoSharing' /\ WorkerInv'
    BY <1>3 DEF Restart, NoSharing, WorkerInv, Busy
  <2>2. UnassignedEmpty' /\ CacheCurrent' /\ NothingFetched'
    BY <1>3 DEF IInv, Restart, UnassignedEmpty, CacheCurrent, NothingFetched, okta
  <2>. QED  BY <1>1, <2>1, <2>2 DEF IInv
<1>4. ASSUME NEW w \in Workers, NEW t \in Tasks, Start(w, t)
      PROVE  IInv'
  <2>1. /\ pc'[w] = "settings" /\ task'[w] = t
        /\ before'[w] = IF t.principal \in assigned THEN OwnView(t.principal) ELSE Absent
        /\ \A v \in Workers \ {w} : pc'[v] = pc[v] /\ task'[v] = task[v]
                                    /\ before'[v] = before[v]
        /\ \A v \in Workers : Busy(v) => Principal(v) # t.principal
        /\ UNCHANGED <<assigned, own, cache, seen, again, fetch>>
    BY <1>4 DEF Start, Goto, IInv, TypeOK, WorkerTypes, Undisturbed, okta
  <2>2. NoSharing'
    BY <2>1 DEF IInv, NoSharing, Busy, Principal
  <2>3. ASSUME NEW v \in Workers \ {w}, Busy(v)'
        PROVE  InHand(v)' /\ StartOrDone(v)'
    <3>1. Busy(v) /\ InHand(v) /\ StartOrDone(v)
      BY <2>1, <2>3 DEF IInv, WorkerInv, Busy
    <3>. QED
      BY <2>1, <3>1
      DEF InHand, StartOrDone, MayLeave, Applied, Current, OwnView, Target,
          Granting, Role, Principal
  <2>4. InHand(w)' /\ StartOrDone(w)'
    BY <2>1 DEF InHand, StartOrDone, MayLeave, OwnView, Absent, Principal
  <2>5. UnassignedEmpty' /\ CacheCurrent' /\ NothingFetched'
    BY <2>1 DEF IInv, UnassignedEmpty, CacheCurrent, NothingFetched, Current, OwnView
  <2>. QED  BY <1>1, <2>2, <2>3, <2>4, <2>5 DEF IInv, WorkerInv
<1>5. ASSUME NEW p \in Principals, Expire(p)
      PROVE  IInv'
  <2>1. /\ UNCHANGED <<assigned, own, pc, task, seen, before, fetch>>
        /\ \A q \in Principals : cache'[q] \in {cache[q], NoView}
    BY <1>5 DEF Expire, Forget, IInv, TypeOK, okta, worker
  <2>2. NoSharing' /\ UnassignedEmpty' /\ NothingFetched'
    BY <2>1 DEF IInv, NoSharing, UnassignedEmpty, NothingFetched, Busy, Principal
  <2>3. CacheCurrent'
    BY <2>1 DEF IInv, CacheCurrent, Current, OwnView
  <2>4. ASSUME NEW w \in Workers, Busy(w)'
        PROVE  InHand(w)' /\ StartOrDone(w)'
    <3>1. Busy(w) /\ InHand(w) /\ StartOrDone(w) /\ cache'[Principal(w)] \in {cache[Principal(w)], NoView}
      BY <2>1, <2>4 DEF IInv, WorkerInv, Busy, TypeOK, WorkerTypes, Tasks, Principal
    <3>. QED
      BY <2>1, <3>1
      DEF InHand, StartOrDone, MayLeave, Applied, Current, OwnView, Target,
          Granting, Role, Principal
  <2>. QED  BY <1>1, <2>2, <2>3, <2>4 DEF IInv, WorkerInv
<1>6. ASSUME NEW p \in Principals, OutsideWrite(p)
      PROVE  FALSE
  BY <1>6 DEF OutsideWrite, Undisturbed, IInv, TypeOK
<1>7. ASSUME NEW g \in Groups, SyncGet(g) \/ SyncFill(g)
      PROVE  ~CacheEnabled /\ UNCHANGED <<okta, cache, worker>>
  BY <1>7 DEF SyncGet, SyncFill, Undisturbed, IInv, NothingFetched
<1>8. CASE UNCHANGED <<okta, cache, worker>> /\ (CacheEnabled => UNCHANGED fetch)
  <2>1. /\ UNCHANGED <<assigned, own, cache, pc, task, seen, before>>
        /\ CacheEnabled => UNCHANGED fetch
    BY <1>8 DEF okta, worker
  <2>2. NoSharing' /\ UnassignedEmpty' /\ CacheCurrent' /\ NothingFetched'
    BY <2>1
    DEF IInv, NoSharing, UnassignedEmpty, CacheCurrent, NothingFetched, Busy,
        Principal, Current, OwnView
  <2>3. ASSUME NEW w \in Workers, Busy(w)'
        PROVE  InHand(w)' /\ StartOrDone(w)'
    <3>1. Busy(w) /\ InHand(w) /\ StartOrDone(w)
      BY <2>1, <2>3 DEF IInv, WorkerInv, Busy
    <3>. QED
      BY <2>1, <3>1
      DEF InHand, StartOrDone, MayLeave, Applied, Current, OwnView, Target,
          Granting, Role, Principal
  <2>. QED  BY <1>1, <2>2, <2>3 DEF IInv, WorkerInv
<1>. QED
  BY <1>2, <1>3, <1>4, <1>5, <1>6, <1>7, <1>8, <1>9, <1>10
  DEF Next, Handler, Eof, Beside, Crash, vars

-----------------------------------------------------------------------------
(* The theorems. *)

\* Cache, answers in hand, half-done tasks and Okta stay in step in every
\* reachable state: the invariant that the other theorems rest on.
THEOREM Invariant ==
    ASSUME Undisturbed
    PROVE  Spec => []IInv
<1>1. Init => IInv
  <2>1. Init => TypeOK
    BY ConfigAssumption DEF Init, TypeOK, WorkerTypes, Absent, View, Pcs, Outcomes
  <2>. QED
    BY <2>1
    DEF Init, IInv, NoSharing, UnassignedEmpty, CacheCurrent, WorkerInv,
        NothingFetched, Busy
<1>2. IInv /\ [Next]_vars => IInv'
  BY InvariantKept
<1>. QED  BY <1>1, <1>2, PTL DEF Spec

\* The client's cache never disagrees with Okta on an assignment of a
\* principal's own: each update drops its entry before it is sent, and no
\* other reader of that principal can put an old answer back.
THEOREM CacheIsCoherent ==
    ASSUME Undisturbed
    PROVE  Spec => []CacheCoherent
<1>1. IInv => CacheCoherent
  BY ConfigAssumption
  DEF IInv, CacheCurrent, CacheCoherent, Current, Principals
<1>. QED  BY <1>1, Invariant, PTL

\* Only a handler's write changes Okta.
LEMMA ChangesAreWrites ==
    ASSUME Undisturbed, IInv, [Next]_vars, ~ UNCHANGED okta
    PROVE  \E w \in Workers : \E q \in Principals :
             /\ q = Principal(w) /\ Busy(w)
             /\ \/ pc[w] = "assign" /\ AssignInOkta(w)
                \/ pc[w] = "update" /\ UpdateInOkta(w)
<1>1. PICK w \in Workers : \/ pc[w] = "assign" /\ AssignInOkta(w)
                           \/ pc[w] = "update" /\ UpdateInOkta(w)
  BY DEF Next, Handler, Call, Beside, Settings, Get, Hit, HitGone, Ask, AskFails, Fill,
         DecideAbsent, DecideFound, Assign, Update, WriteFails, Carried, Eof, Resend,
         Restart, Crash, Start, Expire, SyncGet, SyncFill, OutsideWrite, Undisturbed,
         IInv, TypeOK, vars
<1>2. Busy(w) /\ Principal(w) \in Principals
  BY <1>1 DEF IInv, TypeOK, WorkerTypes, Tasks, Principal, Busy
<1>. QED  BY <1>1, <1>2

\* Each write is, for its principal, exactly the task's own change.
THEOREM NoLostUpdate ==
    ASSUME Undisturbed
    PROVE  Spec => ExactChange
<1>. DEFINE Exact == \A p \in assigned \cap assigned' :
               own'[p] # own[p] =>
                 \/ outside' # outside
                 \/ \E w \in Workers : /\ Busy(w) /\ Principal(w) = p
                                       /\ own'[p] = Applied(w, own[p])
<1>1. ASSUME IInv, [Next]_vars
      PROVE  Exact
  <2>1. SUFFICES ASSUME NEW p \in assigned \cap assigned', own'[p] # own[p]
                 PROVE  \E w \in Workers : /\ Busy(w) /\ Principal(w) = p
                                           /\ own'[p] = Applied(w, own[p])
    OBVIOUS
  <2>2. PICK w \in Workers, q \in Principals :
             /\ q = Principal(w) /\ Busy(w)
             /\ \/ pc[w] = "assign" /\ AssignInOkta(w)
                \/ pc[w] = "update" /\ UpdateInOkta(w)
    BY <1>1, <2>1, ChangesAreWrites DEF okta
  <2>3. p \in Principals
    BY <1>1, <2>1 DEF IInv, TypeOK
  <2>4. /\ q # p => own'[p] = own[p]
        /\ q \in assigned /\ own'[q] # own[q] => own'[q] = Applied(w, own[q])
    BY <1>1, <2>2, <2>3, WriteIsExact
  <2>. QED  BY <2>1, <2>2, <2>4
<1>. QED  BY <1>1, Invariant, PTL DEF Spec, ExactChange

\* A task that ends leaves its principal as it was or with its change, however
\* its calls failed.
THEOREM EndsClean ==
    ASSUME Undisturbed
    PROVE  Spec => NoMixture
<1>. DEFINE Clean == \A w \in Workers : Busy(w) /\ ~Busy(w)' =>
                       LET p == Principal(w) IN
                       MayLeave(w, own'[p]) \/ p \notin assigned'
<1>1. ASSUME IInv, [Next]_vars
      PROVE  Clean
  <2>1. SUFFICES ASSUME NEW w \in Workers, Busy(w), Principal(w) \in assigned'
                 PROVE  MayLeave(w, own'[Principal(w)])
    OBVIOUS
  <2>2. Principal(w) \in Principals /\ StartOrDone(w)
    BY <1>1, <2>1 DEF IInv, WorkerInv, TypeOK, WorkerTypes, Tasks, Principal, Busy
  <2>3. CASE UNCHANGED okta
    BY <2>1, <2>2, <2>3 DEF StartOrDone, okta
  <2>4. CASE ~ UNCHANGED okta
    <3>1. PICK v \in Workers, q \in Principals :
               /\ q = Principal(v) /\ Busy(v)
               /\ \/ pc[v] = "assign" /\ AssignInOkta(v)
                  \/ pc[v] = "update" /\ UpdateInOkta(v)
      BY <1>1, <2>4, ChangesAreWrites
    <3>2. CASE v = w
      BY <1>1, <3>1, <3>2, WriteIsExact
    <3>3. CASE v # w
      <4>1. q # Principal(w)
        BY <1>1, <2>1, <3>1, <3>3 DEF IInv, NoSharing
      <4>2. /\ own'[Principal(w)] = own[Principal(w)]
            /\ Principal(w) \in assigned
        BY <1>1, <2>1, <2>2, <3>1, <4>1, WriteIsExact
      <4>. QED  BY <2>2, <4>2 DEF StartOrDone
    <3>. QED  BY <3>2, <3>3
  <2>. QED  BY <2>3, <2>4
<1>. QED  BY <1>1, Invariant, PTL DEF Spec, NoMixture
=============================================================================
