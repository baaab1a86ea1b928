---------------------------- MODULE ConsentEngine ----------------------------
(***************************************************************************)
(* The pure consent decision of domain/consent.py, with the consent half   *)
(* of domain/rule_engine.py it delegates the market rules to.              *)
(*                                                                         *)
(* A row is the record the store keeps: `at' is the instant that orders    *)
(* it (captured_at of a consent record, updated_at of a preference),       *)
(* `from' and `until' its window.  Instants and ids are naturals, compared *)
(* as the code compares datetimes and id strings.                          *)
(***************************************************************************)
EXTENDS Integers, FiniteSets

CONSTANTS Blank,   \* a name that is empty once stripped
          None,    \* an absent instant, channel or row
          Fold     \* Fold[p] is the spelling casefold() reduces purpose p to

Instant == Nat
Moment  == Instant \cup {None}

-----------------------------------------------------------------------------
(* Which row speaks: max() over (captured_at, id) or (updated_at, id).     *)

Match(p, q) == Fold[p] = Fold[q]

Newer(r, s) ==
    \/ r.at > s.at
    \/ r.at = s.at /\ r.id > s.id

\* max(rows, key=...) as a set: the row newer than all the others, so a
\* singleton, or empty exactly when the finite set rows is.
Latest(rows) == {r \in rows : \A s \in rows : s = r \/ Newer(r, s)}

-----------------------------------------------------------------------------
(* Purpose grants.                                                         *)

Started(row, t) == row.from = None \/ row.from <= t

LapsedAfter(row, t) == row.until # None /\ row.until < t   \* mutant: still in force at expires_at
Lapsed(row, t) == row.until # None /\ row.until <= t

WindowReason(r, t) ==
    CASE ~Started(r, t)                -> "consent_not_yet_effective"
      [] Started(r, t) /\ Lapsed(r, t) -> "consent_expired"
      [] OTHER                         -> "consent_granted"

\* mutant: a status nobody listed is read as the grant it came with
GrantReasonUnlisted(r, t) ==
    CASE r.status = "withdrawn"      -> "consent_withdrawn"
      [] r.status = "pending_review" -> "consent_pending_review"
      [] OTHER                       -> WindowReason(r, t)

GrantReason(r, t) ==
    CASE r.status = "withdrawn"      -> "consent_withdrawn"
      [] r.status = "pending_review" -> "consent_pending_review"
      [] r.status = "granted"        -> WindowReason(r, t)
      [] OTHER                       -> "consent_unknown"

Matching(p, rows) == {r \in rows : Match(r.purpose, p)}

\* resolve_grant: no matching record is an unknown position, never a grant.
ResolveGrant(p, rows, t) ==
    IF Latest(Matching(p, rows)) = {}
    THEN {"consent_unknown"}
    ELSE {GrantReason(r, t) : r \in Latest(Matching(p, rows))}

Granted(p, rows, t) == "consent_granted" \in ResolveGrant(p, rows, t)

GrantedPurposes(rows, t) ==
    {p \in {r.purpose : r \in rows} : Granted(p, rows, t)}

-----------------------------------------------------------------------------
(* The other stored facts a decision weighs.                               *)

Applies(e, q, t) ==
    /\ Started(e, t)
    /\ ~Lapsed(e, t)
    /\ \/ e.scope = "all"
       \/ e.scope = "channel" /\ e.channel = q.channel
       \/ e.scope = "purpose" /\ Match(e.purpose, q.purpose)

SuppressionReasons(q, rows, t) ==
    IF \E e \in rows : Applies(e, q, t) THEN {"suppressed"} ELSE {}

PreferenceFor(channel, rows) == Latest({p \in rows : p.channel = channel})

PreferenceReasons(q, rows) ==
    IF PreferenceFor(q.channel, rows) = {}
    THEN {"channel_preference_unknown"}
    ELSE {IF p.opted_in THEN "channel_opted_in" ELSE "channel_opted_out" :
             p \in PreferenceFor(q.channel, rows)}

ApplicableCaps(q, rows) ==
    {c \in rows : /\ c.channel = q.channel
                  /\ c.purpose = Blank \/ Match(c.purpose, q.purpose)}

\* A purpose's own cap beats the channel's, then the lower allowance, then the id.
Preferred(c, d) ==
    \/ c.purpose # Blank /\ d.purpose = Blank
    \/ /\ (c.purpose = Blank) = (d.purpose = Blank)
       /\ c.max < d.max \/ (c.max = d.max /\ c.id < d.id)

SelectedCap(q, rows) ==
    {c \in ApplicableCaps(q, rows) :
        \A d \in ApplicableCaps(q, rows) : d = c \/ Preferred(c, d)}

CapReasons(q, rows, sends) ==
    IF ApplicableCaps(q, rows) = {}
    THEN {"no_frequency_cap_configured"}
    ELSE {IF sends >= c.max THEN "frequency_cap_exceeded"
                            ELSE "within_frequency_cap" : c \in SelectedCap(q, rows)}

-----------------------------------------------------------------------------
(* The market's consent rules.  A rule set that is missing and one with no *)
(* consent rule give the same reason, so both are a set without one.       *)

ConsentRules(rules) ==
    {r \in rules : r.kind = "consent" /\ r.check = "consent_required"}

\* mutant: the granted purposes are compared as spelled
MarketReasonsSpelled(granted, rules) ==
    IF ConsentRules(rules) = {}
    THEN {"no_market_consent_rules"}
    ELSE IF \A r \in ConsentRules(rules) : r.purpose \in granted
         THEN {"market_consent_rules_satisfied"}
         ELSE {"market_consent_rule_unsatisfied"}

MarketReasons(granted, rules) ==
    IF ConsentRules(rules) = {}
    THEN {"no_market_consent_rules"}
    ELSE IF \A r \in ConsentRules(rules) : \E g \in granted : Match(g, r.purpose)
         THEN {"market_consent_rules_satisfied"}
         ELSE {"market_consent_rule_unsatisfied"}

-----------------------------------------------------------------------------
(* The decision: every step runs, and the outcome is ALLOWED exactly when  *)
(* no reason attached denies.                                              *)

DenyingReasons ==
    {"tenant_unresolved", "subject_unresolved", "snapshot_tenant_mismatch",
     "purpose_unresolved", "consent_unknown", "consent_withdrawn",
     "consent_expired", "consent_not_yet_effective", "consent_pending_review",
     "suppressed", "channel_preference_unknown", "channel_opted_out",
     "frequency_cap_exceeded", "market_consent_rule_unsatisfied"}

Unresolved(q) ==
    (IF q.tenant  = Blank THEN {"tenant_unresolved"}  ELSE {}) \cup
    (IF q.subject = Blank THEN {"subject_unresolved"} ELSE {}) \cup
    (IF q.purpose = Blank THEN {"purpose_unresolved"} ELSE {})

AnswerableReasons(q, snap) ==
    IF Unresolved(q) # {} THEN Unresolved(q)
    ELSE IF snap.tenant # q.tenant \/ snap.subject # q.subject
         THEN {"snapshot_tenant_mismatch"}
         ELSE {}

Reasons(q, snap, t, rules, sends) ==
    LET answerable == AnswerableReasons(q, snap) = {}
        granted == IF answerable THEN GrantedPurposes(snap.records, t) ELSE {}
    IN  AnswerableReasons(q, snap)
        \cup SuppressionReasons(q, snap.suppressions, t)
        \cup (IF answerable THEN ResolveGrant(q.purpose, snap.records, t) ELSE {})
        \cup PreferenceReasons(q, snap.preferences)
        \cup CapReasons(q, snap.caps, sends)
        \cup MarketReasons(granted, rules)

Allowed(q, snap, t, rules, sends) ==
    Reasons(q, snap, t, rules, sends) \cap DenyingReasons = {}
=============================================================================
