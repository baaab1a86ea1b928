---------------------------- MODULE EngineProofs ----------------------------
(***************************************************************************)
(* The lemmas on the pure decision that the proofs about every store rest  *)
(* on: which row speaks, that a purpose is granted exactly when a consent  *)
(* to it is on file, and what an allowed contact takes, for any rows.      *)
(***************************************************************************)
EXTENDS OnFile, WellFoundedInduction, TLAPS

-----------------------------------------------------------------------------
(* Which row speaks.                                                       *)

\* Rows that are ordered by their instant and their id.
Ordered(rows) == \A r \in rows : r.at \in Nat /\ r.id \in Nat

\* No two of them share an id.
Distinct(rows) == \A r, s \in rows : r.id = s.id => r = s

\* At most one row is newer than all the others.
LEMMA LatestIsOne ==
    ASSUME NEW rows, Ordered(rows), NEW r \in Latest(rows), NEW s \in Latest(rows)
    PROVE  r = s
BY DEF Latest, Newer, Ordered

\* A row added to others either speaks itself or leaves the speaker as it was.
LEMMA LatestWithout ==
    ASSUME NEW rows, NEW w, NEW r \in Latest(rows \cup {w}), r # w
    PROVE  r \in Latest(rows)
BY DEF Latest

\* The newest row is the one no other comes after.
LEMMA LatestHasLastWord ==
    ASSUME NEW rows, Ordered(rows), Distinct(rows), NEW r \in rows
    PROVE  r \in Latest(rows) <=> HasLastWord(r, rows)
<1>1. ASSUME NEW s \in rows
      PROVE  (s = r \/ Newer(r, s)) <=> ~(s.at > r.at \/ (s.at = r.at /\ s.id > r.id))
  <2>1. r.at \in Nat /\ r.id \in Nat /\ s.at \in Nat /\ s.id \in Nat /\ (r.id = s.id => r = s)
    BY DEF Ordered, Distinct
  <2> QED
    BY <2>1 DEF Newer
<1> QED
  BY <1>1 DEF Latest, HasLastWord

-----------------------------------------------------------------------------
(* Grants.                                                                 *)

\* Spellings that fold alike are matched by the same rows.
LEMMA SpellingIsNoMatter ==
    ASSUME NEW rows, NEW t, NEW p, NEW q, Match(p, q)
    PROVE  /\ ResolveGrant(p, rows, t) = ResolveGrant(q, rows, t)
           /\ Granted(p, rows, t) <=> Granted(q, rows, t)
<1>1. Matching(p, rows) = Matching(q, rows)
  BY DEF Matching, Match
<1> QED
  BY <1>1 DEF ResolveGrant, Granted

\* A purpose is granted by a row on file for it, in some spelling.
LEMMA GrantedMeansOnFile ==
    ASSUME NEW rows, NEW t, NEW p, Granted(p, rows, t)
    PROVE  /\ \E r \in Latest(Matching(p, rows)) : GrantReason(r, t) = "consent_granted"
           /\ \E g \in GrantedPurposes(rows, t) : Match(g, p)
<1>1. PICK r \in Latest(Matching(p, rows)) : GrantReason(r, t) = "consent_granted"
  BY DEF Granted, ResolveGrant
<1>2. r \in rows /\ Match(r.purpose, p)
  BY DEF Latest, Matching
<1>3. Granted(r.purpose, rows, t)
  BY <1>2, SpellingIsNoMatter
<1>4. r.purpose \in GrantedPurposes(rows, t)
  BY <1>2, <1>3 DEF GrantedPurposes
<1> QED
  BY <1>1, <1>2, <1>4

\* So both ways to ask for a grant agree.
LEMMA GrantedInSomeSpelling ==
    ASSUME NEW rows, NEW t, NEW p
    PROVE  Granted(p, rows, t) <=> \E g \in GrantedPurposes(rows, t) : Match(g, p)
BY GrantedMeansOnFile, SpellingIsNoMatter DEF GrantedPurposes

LEMMA GrantReasonOfGrant ==
    ASSUME NEW r, NEW t, GrantReason(r, t) = "consent_granted"
    PROVE  r.status = "granted"
BY DEF GrantReason

\* A window is open from its start to just before its end.
LEMMA WindowIsOpen ==
    ASSUME NEW r, r.from \in Moment, r.until \in Moment, NEW t \in Instant
    PROVE  InForce(r, t) <=> Started(r, t) /\ ~Lapsed(r, t)
BY DEF InForce, Started, Lapsed, Moment, Instant

LEMMA GrantInForce ==
    ASSUME NEW r, r.from \in Moment, r.until \in Moment, NEW t \in Instant
    PROVE  GrantReason(r, t) = "consent_granted" <=> r.status = "granted" /\ InForce(r, t)
<1>1. InForce(r, t) <=> Started(r, t) /\ ~Lapsed(r, t)
  BY WindowIsOpen
<1> QED
  BY <1>1 DEF GrantReason, WindowReason

\* Rows kept under their own ids are told apart by them.
LEMMA KeysTellRowsApart ==
    ASSUME NEW I, I \subseteq Nat, NEW Row, NEW table, table \in [I -> Row \cup {None}],
           \A i \in I : table[i] # None => table[i].id = i
    PROVE  /\ {table[i] : i \in I} \ {None} \subseteq Row
           /\ \A r \in {table[i] : i \in I} \ {None} : r.id \in Nat
           /\ Distinct({table[i] : i \in I} \ {None})
<1>1. \A r \in {table[i] : i \in I} \ {None} : \E i \in I : r = table[i] /\ r.id = i
  OBVIOUS
<1> QED
  BY <1>1 DEF Distinct

\* The window and the instant of a row, where it has one.
Timed(r) == r.at \in Instant /\ r.from \in Moment /\ r.until \in Moment

\* resolve_grant grants a person exactly what is on file.
LEMMA GrantedIsOnFile ==
    ASSUME NEW rows, \A r \in rows : Timed(r) /\ r.id \in Nat, Distinct(rows),
           NEW q, NEW p, NEW t \in Instant
    PROVE  Granted(p, {r \in rows : About(q, r)}, t) <=> ConsentOnFile(rows, q, p, t)
<1> DEFINE own == {r \in rows : About(q, r)}
           said == Matching(p, own)
<1>1. said = {s \in rows : About(q, s) /\ Match(s.purpose, p)}
  BY DEF Matching
<1>2. Ordered(said) /\ Distinct(said)
  BY <1>1 DEF Ordered, Distinct, Timed, Instant
<1>3. Granted(p, own, t) <=> \E r \in Latest(said) : GrantReason(r, t) = "consent_granted"
  BY DEF Granted, ResolveGrant
<1>4. \A r \in said : /\ r \in Latest(said) <=> HasLastWord(r, said)
                      /\ GrantReason(r, t) = "consent_granted" <=> r.status = "granted" /\ InForce(r, t)
  BY <1>1, <1>2, LatestHasLastWord, GrantInForce DEF Timed
<1>5. Latest(said) \subseteq said
  BY DEF Latest
<1>6. ConsentOnFile(rows, q, p, t) <=> \E r \in said : /\ r.status = "granted" /\ InForce(r, t)
                                                       /\ HasLastWord(r, said)
  BY <1>1 DEF ConsentOnFile
<1> HIDE DEF own, said
<1> QED
  BY <1>3, <1>4, <1>5, <1>6 DEF own

-----------------------------------------------------------------------------
(* Grants and denials.                                                     *)

\* What ResolveGrant finds denies unless the purpose is granted, and does not
\* deny when it is.
LEMMA ResolvedOrDenied ==
    ASSUME NEW rows, Ordered(rows), NEW t, NEW p
    PROVE  Granted(p, rows, t) <=> ResolveGrant(p, rows, t) \cap DenyingReasons = {}
<1>1. ASSUME NEW r
      PROVE  GrantReason(r, t) = "consent_granted" \/ GrantReason(r, t) \in DenyingReasons
  BY DEF GrantReason, WindowReason, DenyingReasons
<1>2. Ordered(Matching(p, rows))
  BY DEF Ordered, Matching
<1>3. CASE Latest(Matching(p, rows)) = {}
  BY <1>3 DEF Granted, ResolveGrant, DenyingReasons
<1>4. CASE Latest(Matching(p, rows)) # {}
  <2>1. PICK r \in Latest(Matching(p, rows)) : TRUE
    BY <1>4
  <2>2. Latest(Matching(p, rows)) = {r}
    BY <1>2, <2>1, LatestIsOne
  <2>3. ResolveGrant(p, rows, t) = {GrantReason(r, t)}
    BY <1>4, <2>2 DEF ResolveGrant
  <2>4. "consent_granted" \notin DenyingReasons
    BY DEF DenyingReasons
  <2> QED
    BY <1>1, <2>3, <2>4 DEF Granted
<1> QED
  BY <1>3, <1>4

-----------------------------------------------------------------------------
(* The decision, taken apart.                                              *)

OptInReasons(q, snap) == PreferenceReasons(q, snap.preferences)

RuleReasons(snap, t, rules) == MarketReasons(GrantedPurposes(snap.records, t), rules)

\* A contact is allowed exactly when each of the six steps finds nothing that
\* denies: no step makes up for another.
LEMMA AllowedTakenApart ==
    ASSUME NEW q, NEW snap, Ordered(snap.records), NEW t, NEW rules, NEW sent
    PROVE  Allowed(q, snap, t, rules, sent) <=>
             /\ AnswerableReasons(q, snap) = {}
             /\ SuppressionReasons(q, snap.suppressions, t) = {}
             /\ Granted(q.purpose, snap.records, t)
             /\ OptInReasons(q, snap) \cap DenyingReasons = {}
             /\ CapReasons(q, snap.caps, sent) \cap DenyingReasons = {}
             /\ RuleReasons(snap, t, rules) \cap DenyingReasons = {}
<1>1. AnswerableReasons(q, snap) \subseteq DenyingReasons
  BY DEF AnswerableReasons, Unresolved, DenyingReasons
<1>2. SuppressionReasons(q, snap.suppressions, t) \subseteq DenyingReasons
  BY DEF SuppressionReasons, DenyingReasons
<1>3. Granted(q.purpose, snap.records, t)
        <=> ResolveGrant(q.purpose, snap.records, t) \cap DenyingReasons = {}
  BY ResolvedOrDenied
<1>4. CASE AnswerableReasons(q, snap) # {}
  BY <1>1, <1>4 DEF Allowed, Reasons
<1>5. CASE AnswerableReasons(q, snap) = {}
  <2>1. Reasons(q, snap, t, rules, sent) =
            SuppressionReasons(q, snap.suppressions, t)
            \cup ResolveGrant(q.purpose, snap.records, t)
            \cup OptInReasons(q, snap)
            \cup CapReasons(q, snap.caps, sent)
            \cup RuleReasons(snap, t, rules)
    BY <1>5 DEF Reasons, OptInReasons, RuleReasons
  <2> HIDE DEF OptInReasons, RuleReasons
  <2> QED
    BY <1>2, <1>3, <1>5, <2>1 DEF Allowed
<1> QED
  BY <1>4, <1>5

-----------------------------------------------------------------------------
(* The market's rules.                                                     *)

\* The rules are met when some spelling of each purpose they require is granted.
LEMMA RulesMet ==
    ASSUME NEW granted, NEW rules
    PROVE  MarketReasons(granted, rules) \cap DenyingReasons = {}
             <=> \A c \in ConsentRules(rules) : \E g \in granted : Match(g, c.purpose)
BY DEF MarketReasons, DenyingReasons

\* Rules that are met stay met when as many purposes are granted, in whatever
\* spelling.
LEMMA RulesMetByMore ==
    ASSUME NEW granted, NEW more, NEW rules,
           \A g \in granted : \E h \in more : Fold[h] = Fold[g],
           MarketReasons(granted, rules) \cap DenyingReasons = {}
    PROVE  MarketReasons(more, rules) \cap DenyingReasons = {}
BY RulesMet DEF Match

\* A rule for a purpose that is granted denies nothing, and no rule permits.
LEMMA RulesMetWithOneMore ==
    ASSUME NEW granted, NEW rules, NEW rule, rule.kind = "consent",
           rule.check = "consent_required"
    PROVE  /\ MarketReasons(granted, rules \cup {rule}) \cap DenyingReasons = {}
              => MarketReasons(granted, rules) \cap DenyingReasons = {}
           /\ (\E g \in granted : Match(g, rule.purpose))
              /\ MarketReasons(granted, rules) \cap DenyingReasons = {}
              => MarketReasons(granted, rules \cup {rule}) \cap DenyingReasons = {}
<1>1. ConsentRules(rules \cup {rule}) = ConsentRules(rules) \cup {rule}
  BY DEF ConsentRules
<1> QED
  BY <1>1, RulesMet

-----------------------------------------------------------------------------
(* What an allowed contact takes, and when that is enough.                 *)

\* Nobody is contacted without a grant in force and a preference on file.
LEMMA AllowedTakesBoth ==
    ASSUME NEW q, NEW snap, Ordered(snap.records), NEW t, NEW rules, NEW sent,
           Allowed(q, snap, t, rules, sent)
    PROVE  /\ \E r \in snap.records : GrantReason(r, t) = "consent_granted"
           /\ \E p \in snap.preferences : p.channel = q.channel
<1>1. Granted(q.purpose, snap.records, t) /\ OptInReasons(q, snap) \cap DenyingReasons = {}
  BY AllowedTakenApart
<1>2. \E r \in Latest(Matching(q.purpose, snap.records)) : GrantReason(r, t) = "consent_granted"
  BY <1>1, GrantedMeansOnFile
<1>3. PreferenceFor(q.channel, snap.preferences) # {}
  BY <1>1 DEF OptInReasons, PreferenceReasons, DenyingReasons
<1> QED
  BY <1>2, <1>3 DEF Latest, Matching, PreferenceFor

\* Of a person with one statement about the purpose, one opt-in at most and no
\* allowance used up, it is the statement, the opt-in and the suppressions that
\* decide.
LEMMA OneStatementDecides ==
    ASSUME NEW q, NEW snap, AnswerableReasons(q, snap) = {},
           NEW r, snap.records = {r}, r.at \in Nat, r.id \in Nat, r.purpose = q.purpose,
           \A p \in snap.preferences : p.channel = q.channel => p.opted_in,
           \A p, x \in snap.preferences :
               p.channel = q.channel /\ x.channel = q.channel => p = x,
           \A c \in snap.caps : ~(0 >= c.max),
           NEW rules, \A c \in ConsentRules(rules) : Match(q.purpose, c.purpose), NEW t
    PROVE  Allowed(q, snap, t, rules, 0)
             <=> /\ GrantReason(r, t) = "consent_granted"
                 /\ \E p \in snap.preferences : p.channel = q.channel
                 /\ ~\E e \in snap.suppressions : Applies(e, q, t)
<1>1. Ordered(snap.records)
  BY DEF Ordered
<1>2. Granted(q.purpose, snap.records, t) <=> GrantReason(r, t) = "consent_granted"
  <2>1. Latest(Matching(q.purpose, snap.records)) = {r}
    BY DEF Latest, Matching, Match
  <2> QED
    BY <2>1 DEF Granted, ResolveGrant
<1>3. SuppressionReasons(q, snap.suppressions, t) = {} <=> ~\E e \in snap.suppressions : Applies(e, q, t)
  BY DEF SuppressionReasons
<1>4. OptInReasons(q, snap) \cap DenyingReasons = {}
        <=> \E p \in snap.preferences : p.channel = q.channel
  <2>1. PreferenceFor(q.channel, snap.preferences)
            = {p \in snap.preferences : p.channel = q.channel}
    BY DEF PreferenceFor, Latest
  <2>2. \A p \in PreferenceFor(q.channel, snap.preferences) : p.opted_in
    BY <2>1
  <2>3. "channel_opted_in" \notin DenyingReasons /\ "channel_preference_unknown" \in DenyingReasons
    BY DEF DenyingReasons
  <2>4. PreferenceFor(q.channel, snap.preferences) # {}
          => OptInReasons(q, snap) \subseteq {"channel_opted_in"}
    BY <2>2 DEF OptInReasons, PreferenceReasons
  <2>5. PreferenceFor(q.channel, snap.preferences) = {}
          => OptInReasons(q, snap) = {"channel_preference_unknown"}
    BY DEF OptInReasons, PreferenceReasons
  <2> QED
    BY <2>1, <2>3, <2>4, <2>5
<1>5. CapReasons(q, snap.caps, 0) \cap DenyingReasons = {}
  <2>1. \A c \in SelectedCap(q, snap.caps) : ~(0 >= c.max)
    BY DEF SelectedCap, ApplicableCaps
  <2>2. CapReasons(q, snap.caps, 0) \subseteq {"no_frequency_cap_configured", "within_frequency_cap"}
    BY <2>1 DEF CapReasons
  <2> QED
    BY <2>2 DEF DenyingReasons
<1>6. Granted(q.purpose, snap.records, t) => RuleReasons(snap, t, rules) \cap DenyingReasons = {}
  <2> SUFFICES ASSUME Granted(q.purpose, snap.records, t)
               PROVE  \A c \in ConsentRules(rules) :
                          \E g \in GrantedPurposes(snap.records, t) : Match(g, c.purpose)
    BY RulesMet DEF RuleReasons
  <2>1. q.purpose \in GrantedPurposes(snap.records, t)
    BY DEF GrantedPurposes
  <2> QED
    BY <2>1
<1> QED
  BY <1>1, <1>2, <1>3, <1>4, <1>5, <1>6, AllowedTakenApart

-----------------------------------------------------------------------------
(* Numbers.                                                                *)

Below == {pair \in Nat \X Nat : pair[1] < pair[2]}

\* Of any naturals one is the least.
LEMMA SmallestOf ==
    ASSUME NEW S, S \subseteq Nat, S # {}
    PROVE  \E m \in S : \A n \in S : m <= n
<1>1. IsWellFoundedOn(Below, Nat)
  BY NatLessThanWellFounded, Zenon DEF OpToRel, Below
<1>2. PICK m \in S : \A n \in S : <<n, m>> \notin Below
  BY <1>1, WFMin, Zenon
<1>3. ASSUME NEW n \in S PROVE m <= n
  <2>1. <<n, m>> \notin Below /\ n \in Nat /\ m \in Nat
    BY <1>2
  <2>2. ~(n < m)
    BY <2>1 DEF Below
  <2> QED
    BY <2>1, <2>2
<1> QED
  BY <1>3
=============================================================================
