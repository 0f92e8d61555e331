-------------------------- MODULE RefinementProofs --------------------------
(* Provisioning implements RoleAssignments, for every value of its constants. *)
EXTENDS ProvisioningProofs

\* The mapped assignments are assignments of the abstract specification.
LEMMA HeldTypes ==
    ASSUME TypeOK, NEW p \in Principals
    PROVE  /\ p \in assigned => Held[p] = own[p] /\ Held[p] \in SUBSET Roles /\ Held[p] # NoRoles
           /\ p \notin assigned => Held[p] = NoRoles
BY ConfigAssumption DEF TypeOK, Held

\* What leaves Okta alone leaves the mapped assignments alone.
LEMMA HeldStays ==
    ASSUME UNCHANGED okta
    PROVE  Held' = Held
BY DEF Held, okta

LEMMA InitMaps == Init => Abstract!Init
<1>. SUFFICES ASSUME Init  PROVE Abstract!Init
  OBVIOUS
<1>1. Held \in [Principals -> {NoRoles} \cup SUBSET Roles]
  BY DEF Init, Held
<1>. QED  BY <1>1 DEF Init, Abstract!Init, Abstract!Principals, Principals

\* A write is a change the task may make, or leaves everything as it is.
LEMMA WriteMaps ==
    ASSUME IInv, TypeOK', NEW w \in Workers,
           \/ pc[w] = "assign" /\ AssignInOkta(w)
           \/ pc[w] = "update" /\ UpdateInOkta(w)
    PROVE  Abstract!Change(w) \/ Held' = Held
<1>0. PICK p \in Principals : p = Principal(w)
  BY DEF IInv, TypeOK, WorkerTypes, Tasks, Principal
<1>1. /\ p = Principal(w) /\ p = task[w].principal /\ TypeOK /\ Busy(w)
      /\ InHand(w) /\ StartOrDone(w) /\ task[w] \in Tasks
  BY <1>0 DEF IInv, WorkerInv, Busy, Principal, TypeOK, WorkerTypes
<1>2. /\ p \in assigned'
      /\ \A q \in Principals \ {p} :
           own'[q] = own[q] /\ (q \in assigned' <=> q \in assigned)
      /\ p \in assigned /\ own'[p] # own[p] => own'[p] = Applied(w, own[p])
      /\ pc[w] = "assign" /\ p \in Users => own'[p] = {Role(w)}
      /\ pc[w] = "update" => own'[p] = Target(w)
  BY <1>1, WriteIsExact
<1>3. Held' = [Held EXCEPT ![p] = own'[p]]
  BY <1>2 DEF Held
<1>4. own'[p] \in SUBSET Roles
  BY <1>1 DEF TypeOK
<1>5. CASE p \in assigned
  <2>1. Held[p] = own[p] /\ Held[p] # NoRoles
    BY <1>1, <1>5, HeldTypes
  <2>2. CASE own'[p] = own[p]
    <3>1. Held' = Held  BY <1>3, <2>1, <2>2 DEF Held
    <3>. QED  BY <3>1
  <2>3. CASE own'[p] = Applied(w, own[p])
    <3>1. own'[p] \in Abstract!After(task[w], Held[p])
      BY <1>1, <2>1, <2>3 DEF Abstract!After, Applied, Granting, Role
    <3>. QED  BY <1>1, <1>3, <3>1 DEF Abstract!Change
  <2>. QED  BY <1>2, <1>5, <2>2, <2>3
<1>6. CASE p \notin assigned
  <2>1. Held[p] = NoRoles
    BY <1>1, <1>6, HeldTypes
  <2>2. CASE p \in Groups
    <3>1. pc[w] = "assign"
      BY <1>1, <1>6, <2>2, ConfigAssumption DEF InHand, Current
    <3>2. own'[p] = DefaultRoles
      BY <1>1, <1>6, <2>2, <3>1, ConfigAssumption DEF AssignInOkta, TypeOK
    <3>3. own'[p] \in Abstract!After(task[w], Held[p])
      BY <1>1, <2>1, <2>2, <3>2 DEF Abstract!After
    <3>. QED  BY <1>1, <1>3, <3>3 DEF Abstract!Change
  <2>3. CASE p \notin Groups
    <3>1. p \in Users  BY <2>3 DEF Principals
    <3>2. Role(w) \in own'[p] <=> Granting(w)
      <4>1. CASE pc[w] = "assign"
        BY <1>1, <1>2, <3>1, <4>1 DEF InHand
      <4>2. CASE pc[w] = "update"
        BY <1>2, <4>2 DEF Target
      <4>. QED  BY <4>1, <4>2
    <3>3. own'[p] \in Abstract!After(task[w], Held[p])
      BY <1>1, <1>4, <2>1, <2>3, <3>2 DEF Abstract!After, Role, Granting
    <3>. QED  BY <1>1, <1>3, <3>3 DEF Abstract!Change
  <2>. QED  BY <2>2, <2>3
<1>. QED  BY <1>5, <1>6

\* A write whose task goes on is a step of the abstract specification, or none.
LEMMA WorkMaps ==
    ASSUME IInv, TypeOK', NEW w \in Workers,
           \/ pc[w] = "assign" /\ AssignInOkta(w)
           \/ pc[w] = "update" /\ UpdateInOkta(w),
           UNCHANGED <<task, outcome>>
    PROVE  [Abstract!Next]_Abstract!vars
<1>1. Abstract!Change(w) \/ Held' = Held
  BY WriteMaps
<1>2. task[w] # NoTask
  BY DEF IInv, TypeOK, WorkerTypes
<1>3. CASE Held' = Held
  BY <1>3 DEF Abstract!vars
<1>4. CASE Abstract!Change(w)
  BY <1>2, <1>4 DEF Abstract!Work, Abstract!Free, Abstract!Next
<1>. QED  BY <1>1, <1>3, <1>4

\* A step that ends a task, with its write or without one, ends it in the
\* abstract specification, if its answer is true of what it leaves.
LEMMA EndMaps ==
    ASSUME IInv, NEW w \in Workers, Busy(w), NEW o, Finish(w, o),
           o \in {"ok", "exists", "revoked", "gone", "error"},
           Abstract!Change(w) \/ Held' = Held,
           Abstract!True(o, task[w], Held'[task[w].principal])
    PROVE  Abstract!Next
<1>1. task[w] # NoTask
  BY DEF IInv, TypeOK, WorkerTypes, Busy
<1>2. Abstract!End(w, o)
  BY <1>1 DEF Abstract!End, Abstract!Free, Finish
<1>. QED  BY <1>2 DEF Abstract!Next

\* A call that is not carried out ends the task with an error, or repeats it.
LEMMA NotDoneMaps ==
    ASSUME IInv, NEW w \in Workers, Busy(w), UNCHANGED okta,
           NotDone(w) \/ Finish(w, "error")
    PROVE  [Abstract!Next]_Abstract!vars
<1>1. CASE Finish(w, "error")
  <2>1. Abstract!True("error", task[w], Held'[task[w].principal])
    BY DEF Abstract!True
  <2>. QED  BY <1>1, <2>1, HeldStays, EndMaps
<1>2. CASE UNCHANGED <<task, outcome>>
  BY <1>2, HeldStays DEF Abstract!vars
<1>. QED  BY <1>1, <1>2 DEF NotDone, Retry, StartOver

\* Every call of a handler is a step of the abstract specification, or none.
LEMMA CallMaps ==
    ASSUME IInv, TypeOK', NEW w \in Workers, Call(w)
    PROVE  [Abstract!Next]_Abstract!vars
<1>0. Busy(w)
  BY DEF Busy, Call, Settings, Get, Hit, HitGone, Ask, AskFails, Fill, DecideAbsent,
         DecideFound, Assign, Update, WriteFails
<1>1. PICK p \in Principals :
        /\ p = Principal(w) /\ p = task[w].principal /\ TypeOK /\ Busy(w)
        /\ InHand(w) /\ task[w] \in Tasks
  BY <1>0 DEF IInv, WorkerInv, Principal, TypeOK, WorkerTypes, Busy, Tasks
<1>2. CASE UNCHANGED <<okta, task, outcome>>
  BY <1>2, HeldStays DEF Abstract!vars
<1>3. CASE UNCHANGED okta /\ (NotDone(w) \/ Finish(w, "error"))
  BY <1>1, <1>3, NotDoneMaps
<1>4. CASE DecideAbsent(w) /\ Finish(w, "gone") /\ ~Granting(w)
  <2>1. p \notin assigned /\ UNCHANGED okta
    BY <1>1, <1>4 DEF DecideAbsent, InHand, Current, OwnView
  <2>2. Held' = Held /\ Held[p] = NoRoles
    BY <1>1, <2>1, HeldStays, HeldTypes
  <2>3. Abstract!True("gone", task[w], Held'[task[w].principal])
    BY <1>1, <1>4, <2>2 DEF Abstract!True, Tasks, Granting
  <2>. QED  BY <1>1, <1>4, <2>2, <2>3, EndMaps
<1>5. CASE /\ DecideFound(w) /\ AlreadyDone(w)
           /\ Finish(w, IF Granting(w) THEN "exists" ELSE "revoked")
  <2>1. UNCHANGED okta /\ seen[w].found /\ Current(p, seen[w])
    BY <1>1, <1>5 DEF DecideFound, InHand
  <2>2. p \in assigned => seen[w].roles = own[p]
    BY <2>1 DEF Current, OwnView
  <2>3. Held' = Held /\ (Held[p] # NoRoles => (Role(w) \in Held[p] <=> Granting(w)))
    BY <1>1, <1>5, <2>1, <2>2, HeldStays, HeldTypes DEF AlreadyDone
  <2>4. \A o \in {"exists", "revoked"} : (o = "exists" <=> Granting(w)) =>
          Abstract!True(o, task[w], Held'[task[w].principal])
    BY <1>1, <2>3 DEF Abstract!True, Tasks, Granting, Role
  <2>. QED  BY <1>1, <1>5, <2>3, <2>4, EndMaps
<1>6. CASE /\ \/ pc[w] = "assign" /\ AssignInOkta(w) /\ p \in Users
              \/ pc[w] = "update" /\ UpdateInOkta(w)
           /\ Finish(w, "ok")
  <2>1. Abstract!Change(w) \/ Held' = Held
    BY <1>6, WriteMaps
  <2>2. /\ p \in assigned'
        /\ pc[w] = "assign" /\ p \in Users => own'[p] = {Role(w)}
        /\ pc[w] = "update" => own'[p] = Target(w)
    BY <1>1, <1>6, WriteIsExact
  <2>3. Role(w) \in own'[p] <=> Granting(w)
    BY <1>1, <1>6, <2>2 DEF InHand, Target
  <2>4. Held'[p] = own'[p] /\ Held'[p] # NoRoles
    BY <1>1, <2>2, ConfigAssumption DEF Held, TypeOK
  <2>5. Abstract!True("ok", task[w], Held'[task[w].principal])
    BY <1>1, <2>3, <2>4 DEF Abstract!True, Tasks, Granting, Role
  <2>. QED  BY <1>1, <1>6, <2>1, <2>5, EndMaps
<1>7. CASE /\ \/ pc[w] = "assign" /\ AssignInOkta(w)
              \/ pc[w] = "update" /\ UpdateInOkta(w)
           /\ UNCHANGED <<task, outcome>>
  BY <1>7, WorkMaps
<1>8. CASE /\ \/ pc[w] = "assign" /\ AssignInOkta(w)
              \/ pc[w] = "update" /\ UpdateInOkta(w)
           /\ Finish(w, "error")
  <2>1. Abstract!Change(w) \/ Held' = Held
    BY <1>8, WriteMaps
  <2>2. Abstract!True("error", task[w], Held'[task[w].principal])
    BY DEF Abstract!True
  <2>. QED  BY <1>1, <1>8, <2>1, <2>2, EndMaps
<1>9. CASE \/ Settings(w) \/ Get(w) \/ Hit(w) \/ HitGone(w)
           \/ Ask(w) \/ AskFails(w) \/ Fill(w)
  BY <1>2, <1>3, <1>9 DEF Settings, Get, Hit, HitGone, Ask, AskFails, Fill, okta
<1>10. CASE DecideAbsent(w)
  BY <1>2, <1>3, <1>4, <1>10 DEF DecideAbsent
<1>11. CASE DecideFound(w)
  BY <1>2, <1>3, <1>5, <1>11 DEF DecideFound
<1>12. CASE Assign(w)
  BY <1>1, <1>6, <1>7, <1>12 DEF Assign
<1>13. CASE Update(w)
  BY <1>1, <1>3, <1>6, <1>13 DEF Update
<1>14. CASE WriteFails(w)
  BY <1>3, <1>8, <1>14 DEF WriteFails, Carried, okta
<1>. QED
  BY <1>9, <1>10, <1>11, <1>12, <1>13, <1>14 DEF Call

\* Every step of Provisioning is one of RoleAssignments, or none.
LEMMA StepMaps ==
    ASSUME Undisturbed, IInv, TypeOK', [Next]_vars
    PROVE  [Abstract!Next]_Abstract!vars
<1>1. ASSUME NEW w \in Workers, Call(w)
      PROVE  [Abstract!Next]_Abstract!vars
  BY <1>1, CallMaps
<1>8. ASSUME NEW w \in Workers, Eof(w) \/ Resend(w)
      PROVE  [Abstract!Next]_Abstract!vars
  <2>1. CASE Carried(w)
    BY <1>8, <2>1, WorkMaps DEF Carried, Eof, Resend, worker
  <2>2. CASE UNCHANGED okta
    BY <1>8, <2>2, HeldStays DEF Eof, Resend, worker, Abstract!vars
  <2>. QED  BY <1>8, <2>1, <2>2 DEF Eof, Resend
<1>2. ASSUME Restart
      PROVE  [Abstract!Next]_Abstract!vars
  <2>1. Held' = Held
    BY <1>2, HeldStays DEF Restart
  <2>2. \A w \in Workers : task[w] = NoTask <=> ~Busy(w)
    BY DEF IInv, TypeOK, WorkerTypes, Busy
  <2>3. outcome' = [w \in Workers |-> IF task[w] = NoTask THEN outcome[w] ELSE "lost"]
    BY <1>2, <2>2 DEF Restart
  <2>. QED  BY <1>2, <2>1, <2>3 DEF Restart, Abstract!Lose, Abstract!Free, Abstract!Next
<1>3. ASSUME NEW w \in Workers, NEW t \in Tasks, Start(w, t)
      PROVE  [Abstract!Next]_Abstract!vars
  <2>1. Held' = Held
    BY <1>3, HeldStays DEF Start
  <2>2. task[w] = NoTask /\ \A v \in Workers : task[v] # NoTask => task[v].principal # t.principal
    BY <1>3 DEF Start, Undisturbed, IInv, TypeOK, WorkerTypes, Busy, Principal
  <2>3. Abstract!Begin(w, t)
    BY <1>3, <2>1, <2>2 DEF Start, Abstract!Begin, Abstract!Free
  <2>4. t \in Abstract!Tasks
    BY DEF Abstract!Tasks, Abstract!Principals, Tasks, Principals
  <2>. QED  BY <2>3, <2>4 DEF Abstract!Next
<1>4. ASSUME NEW p \in Principals, Expire(p)
      PROVE  [Abstract!Next]_Abstract!vars
  BY <1>4, HeldStays DEF Expire, worker, Abstract!vars
<1>5. ASSUME NEW p \in Principals, OutsideWrite(p)
      PROVE  FALSE
  BY <1>5 DEF OutsideWrite, Undisturbed, IInv, TypeOK
<1>6. ASSUME NEW g \in Groups, SyncGet(g) \/ SyncFill(g)
      PROVE  [Abstract!Next]_Abstract!vars
  BY <1>6, HeldStays DEF SyncGet, SyncFill, worker, Abstract!vars
<1>7. CASE UNCHANGED vars
  BY <1>7, HeldStays DEF vars, worker, Abstract!vars
<1>. QED
  BY <1>1, <1>2, <1>3, <1>4, <1>5, <1>6, <1>7, <1>8
  DEF Next, Handler, Beside, Crash

\* Under Undisturbed, Grant and Revoke change Okta and answer as if each task
\* were one atomic change of its principal's roles, whatever fails on the way.
THEOREM Refinement ==
    ASSUME Undisturbed
    PROVE  Spec => ImplementsRoles
<1>1. IInv /\ IInv' /\ [Next]_vars => [Abstract!Next]_Abstract!vars
  BY StepMaps DEF IInv
<1>. QED  BY <1>1, InitMaps, Invariant, PTL DEF Spec, ImplementsRoles, Abstract!Spec
=============================================================================
