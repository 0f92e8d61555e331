----------------------------- MODULE SyncReport ------------------------------
(***************************************************************************)
(* What a sync promises to whoever reads its report, without pages, page   *)
(* tokens, session stores or failures: what is published was true at some  *)
(* moment and is not taken back, a page that fails publishes nothing, and  *)
(* a sync that ends well has published everything that was true from its   *)
(* beginning to its end.                                                   *)
(***************************************************************************)
CONSTANT Facts

VARIABLES
    lasting,    \* what has been true since the sync began
    possible,   \* what has been true at some moment since
    published,  \* the report
    status

vars == <<lasting, possible, published, status>>

Init ==
    /\ possible \in SUBSET Facts /\ lasting \subseteq possible
    /\ published = {} /\ status = "running"

\* What is true changes, beside the sync.
Change ==
    /\ lasting' \subseteq lasting
    /\ possible \subseteq possible' /\ possible' \subseteq Facts
    /\ UNCHANGED <<published, status>>

\* A part of the report is published, and it may be the last.
Publish ==
    /\ status = "running" /\ status' \in {"running", "done"}
    /\ published \subseteq published' /\ published' \subseteq published \cup possible
    /\ status' = "done" => lasting \subseteq published'
    /\ UNCHANGED <<lasting, possible>>

\* The sync is given up, or ended with a warning.
GiveUp ==
    /\ status = "running" /\ status' \in {"warned", "failed"}
    /\ UNCHANGED <<lasting, possible, published>>

Next == Change \/ Publish \/ GiveUp

Spec == Init /\ [][Next]_vars
=============================================================================
