-------------------------- MODULE RoleAssignments ---------------------------
(***************************************************************************)
(* What provisioning promises to whoever issues its tasks, without caches, *)
(* requests, retries or failures: a task on a principal changes the roles  *)
(* of that principal's own assignment by the task's role, in one step, and *)
(* its answer is true when it is given.                                    *)
(***************************************************************************)
CONSTANTS Users, Groups, Roles, Workers, DefaultRoles, NoTask, NoRoles

Principals == Users \cup Groups
Tasks == [op : {"grant", "revoke"}, principal : Principals, role : Roles]

VARIABLES
    held,       \* a principal's own assignment: its roles, or NoRoles
    task,       \* the task of each slot
    outcome     \* and the answer to its last one

vars == <<held, task, outcome>>

Free(w) == task[w] = NoTask

\* What a task may make of an assignment.  A new one, of a user, has or lacks
\* the role the task names; that of a group has the roles of the app first.
After(t, R) ==
    IF R = NoRoles
    THEN IF t.principal \in Groups THEN {DefaultRoles}
         ELSE {S \in SUBSET Roles : t.op = "grant" <=> t.role \in S}
    ELSE {IF t.op = "grant" THEN R \cup {t.role} ELSE R \ {t.role}}

\* What an answer says of the assignment it leaves.  (Of a user who has none
\* of his own, and comes in through groups, it says nothing.)
True(o, t, R) ==
    /\ o \in {"ok", "exists", "revoked"} /\ R # NoRoles =>
         (t.role \in R <=> t.op = "grant")
    /\ o = "ok" => R # NoRoles
    /\ o = "gone" => R = NoRoles
    /\ o = "exists" => t.op = "grant"
    /\ o \in {"revoked", "gone"} => t.op = "revoke"

Init ==
    /\ held \in [Principals -> {NoRoles} \cup SUBSET Roles]
    /\ task = [w \in Workers |-> NoTask]
    /\ outcome = [w \in Workers |-> "none"]

\* A task begins when no other is at work on its principal.
Begin(w, t) ==
    /\ Free(w)
    /\ \A v \in Workers : ~Free(v) => task[v].principal # t.principal
    /\ task' = [task EXCEPT ![w] = t]
    /\ outcome' = [outcome EXCEPT ![w] = "none"]
    /\ UNCHANGED held

Change(w) ==
    \E R \in After(task[w], held[task[w].principal]) :
        held' = [held EXCEPT ![task[w].principal] = R]

\* The assignment changes and the task goes on.
Work(w) == ~Free(w) /\ Change(w) /\ UNCHANGED <<task, outcome>>

\* It ends, with a last change or without one.
End(w, o) ==
    /\ ~Free(w)
    /\ Change(w) \/ UNCHANGED held
    /\ True(o, task[w], held'[task[w].principal])
    /\ task' = [task EXCEPT ![w] = NoTask]
    /\ outcome' = [outcome EXCEPT ![w] = o]

\* Every task there is is lost, and leaves what it has done.
Lose ==
    /\ task' = [w \in Workers |-> NoTask]
    /\ outcome' = [w \in Workers |-> IF Free(w) THEN outcome[w] ELSE "lost"]
    /\ UNCHANGED held

Next ==
    \/ \E w \in Workers : \/ \E t \in Tasks : Begin(w, t)
                          \/ Work(w)
                          \/ \E o \in {"ok", "exists", "revoked", "gone", "error"} : End(w, o)
    \/ Lose

Spec == Init /\ [][Next]_vars
=============================================================================
