------------------------------ MODULE HandOff ------------------------------
(***************************************************************************)
(* What the pipelines and the consent service promise about handing a case *)
(* to the human review console, without requests, rows, engines or         *)
(* routers: the audit trail says first that the case is escalated; the     *)
(* call that escalated it then makes one attempt to hand over that very    *)
(* case, which the console may miss; nothing else ever reaches the         *)
(* console, and neither the trail nor the console forgets.                 *)
(***************************************************************************)
CONSTANTS Caller,   \* what serves one call at a time
          Item      \* what may be escalated

VARIABLES due,      \* due[c] holds the case c has still to hand over, if any
          trail,    \* the cases the audit trail holds as escalated
          console   \* the cases the console has received

handOffVars == <<due, trail, console>>

Init ==
    /\ due = [c \in Caller |-> {}]
    /\ trail = {} /\ console = {}

\* A case is escalated, perhaps not for the first time.
Escalate(c, item) ==
    /\ due[c] = {}
    /\ due' = [due EXCEPT ![c] = {item}]
    /\ trail' = trail \cup {item}
    /\ UNCHANGED console

\* The one attempt.
Attempt(c) ==
    /\ due[c] # {}
    /\ due' = [due EXCEPT ![c] = {}]
    /\ console' \in {console, console \cup due[c]}
    /\ UNCHANGED trail

Next == \E c \in Caller : Attempt(c) \/ \E item \in Item : Escalate(c, item)

Spec == Init /\ [][Next]_handOffVars
=============================================================================
