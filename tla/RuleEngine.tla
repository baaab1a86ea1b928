----------------------------- MODULE RuleEngine -----------------------------
(***************************************************************************)
(* The pure checker of domain/rule_engine.py over an asset and its rules,  *)
(* what a review concludes from it, and the severity and the number of     *)
(* approvals adapters/_review_payload.py asks of the console.              *)
(*                                                                         *)
(* An asset's copy is the set of the phrases it contains, case folded, in  *)
(* its title or its body; its fields hold integers where the code parses a *)
(* number, and Blank where a field is absent or empty.                     *)
(***************************************************************************)
EXTENDS ConsentEngine

Severity == {"low", "medium", "high", "critical"}

Rank == [low |-> 0, medium |-> 1, high |-> 2, critical |-> 3]

-----------------------------------------------------------------------------
(* Checks: what none of the disjuncts vouches for fails.  That covers a    *)
(* consent asked of a rule of another kind, and a check type nobody knows. *)

NumericMax(value, limit) == value \in Int /\ (limit = None \/ value <= limit)

Passes(asset, granted, rule) ==
    \/ rule.check = "forbidden_phrase" /\ rule.patterns \cap asset.copy = {}
    \/ rule.check = "required_disclosure" /\ rule.patterns \subseteq asset.copy
    \/ rule.check = "required_field" /\ asset.fields[rule.field] # Blank
    \/ rule.check = "numeric_max" /\ NumericMax(asset.fields[rule.field], rule.limit)
    \/ /\ rule.check = "consent_required" /\ rule.kind = "consent"
       /\ \E g \in granted : Match(g, rule.purpose)

\* The failed findings, each named by its rule: check() for the rules of the
\* other kinds, consent_checks_for() with an asset for the consent rules.
Failing(asset, granted, rules) == {r \in rules : ~Passes(asset, granted, r)}

Outcome(failing) == IF failing = {} THEN "compliant" ELSE "non_compliant"

-----------------------------------------------------------------------------
(* What the console is asked for.                                          *)

\* mutant: the weakest failed finding speaks for the review
WeakestSeverity(failing, default) ==
    IF failing = {} THEN default
    ELSE CHOOSE s \in {r.severity : r \in failing} :
            \A r \in failing : Rank[s] <= Rank[r.severity]

\* The strongest severity among the failed findings, or the given default.
HighestSeverity(failing, default) ==
    IF failing = {} THEN default
    ELSE CHOOSE s \in {r.severity : r \in failing} :
            \A r \in failing : Rank[r.severity] <= Rank[s]

ReviewSeverity(failing) == HighestSeverity(failing, "low")

\* The floor of an assessment is HIGH when no finding failed.
AssessmentSeverity(verdict, failing) ==
    IF verdict = "unsubstantiated" THEN "critical" ELSE HighestSeverity(failing, "high")

RequiredApprovals(severity) == IF severity \in {"high", "critical"} THEN 2 ELSE 1
=============================================================================
