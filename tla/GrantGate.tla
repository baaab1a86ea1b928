----------------------------- MODULE GrantGate -----------------------------
(***************************************************************************)
(* What the consent service promises about grants, without threads, calls, *)
(* tenants or any table but one: under each id stands at most one          *)
(* statement about a person, and a statement that does not carry its own   *)
(* evidence is in force only if somebody approved exactly that statement   *)
(* at a moment it stood pending.                                           *)
(***************************************************************************)
CONSTANTS Id,
          Statement,   \* what may be asserted
          Evidenced,   \* the statements that carry their own evidence
          Nothing      \* stands for no statement at all

VARIABLES position,    \* what stands under each id
          approved     \* the statements approved so far

gateVars == <<position, approved>>

Standing == [state: {"pending", "in_force", "closed"}, of: Statement]

InForce(i) == position[i] # Nothing /\ position[i].state = "in_force"

Init ==
    /\ position \in [Id -> Standing \cup {Nothing}]
    /\ \A i \in Id : InForce(i) => position[i].of \in Evidenced
    /\ approved = {}

\* Some statement now stands under i, in the given state.
Stand(i, state) ==
    /\ position'[i] \in [state: {state}, of: Statement]
    /\ position' = [position EXCEPT ![i] = position'[i]]
    /\ UNCHANGED approved

\* An asserted statement waits for a checker.
Assert(i) == Stand(i, "pending")

\* One that carries its evidence takes effect at once.
Prove(i) == Stand(i, "in_force") /\ position'[i].of \in Evidenced

\* A checker reads the statement standing pending under an id, and approves it.
Approve(i) ==
    /\ position[i] # Nothing
    /\ position[i].state = "pending"
    /\ approved' = approved \cup {position[i].of}
    /\ UNCHANGED position

\* What was approved takes effect, then or later.
TakeEffect(i) == Stand(i, "in_force") /\ position'[i].of \in approved

\* A withdrawal, a refusal or an unknown position closes what stood there.
Close(i) == Stand(i, "closed")

Next == \E i \in Id : Assert(i) \/ Prove(i) \/ Approve(i) \/ TakeEffect(i) \/ Close(i)

Spec == Init /\ [][Next]_gateVars
=============================================================================
