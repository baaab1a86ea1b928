------------------------------- MODULE OnFile -------------------------------
(***************************************************************************)
(* What it is for a consent to be on file, stated over the rows of a store *)
(* and without the engine: the reference its answers are compared with, in *)
(* ConsentFacts and in ReviewGate.                                         *)
(***************************************************************************)
EXTENDS ConsentEngine

\* The row no other row about the same person and thing comes after.
HasLastWord(r, rows) ==
    ~\E s \in rows : s.at > r.at \/ (s.at = r.at /\ s.id > r.id)

About(q, r) == r.tenant = q.tenant /\ r.subject = q.subject

InForce(r, t) == ~(r.from # None /\ t < r.from) /\ ~(r.until # None /\ r.until <= t)

ConsentOnFile(rows, q, purpose, t) ==
    \E r \in rows :
        /\ About(q, r) /\ Match(r.purpose, purpose)
        /\ r.status = "granted" /\ InForce(r, t)
        /\ HasLastWord(r, {s \in rows : About(q, s) /\ Match(s.purpose, purpose)})
=============================================================================
