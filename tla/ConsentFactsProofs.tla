------------------------- MODULE ConsentFactsProofs -------------------------
(***************************************************************************)
(* What the decision does with any rows whatever, proved of ConsentEngine  *)
(* and of every store ConsentFacts' writes can reach.                      *)
(***************************************************************************)
EXTENDS ConsentFacts, EngineProofs, FiniteSetTheorems

-----------------------------------------------------------------------------
(* The store holds rows.                                                   *)

LEMMA StoreTypeStep == StoreTypeOK /\ [Next]_tables => StoreTypeOK'
<1> SUFFICES ASSUME StoreTypeOK, [Next]_tables PROVE StoreTypeOK'
  OBVIOUS
<1> USE RowAssumption DEF StoreTypeOK
<1>1. ASSUME NEW r \in Records, PutRecord(r) PROVE StoreTypeOK'
  BY <1>1 DEF PutRecord, RecordRow
<1>2. ASSUME NEW p \in Preferences, PutPreference(p) PROVE StoreTypeOK'
  BY <1>2 DEF PutPreference, PreferenceRow
<1>3. ASSUME NEW e \in Suppressions, PutSuppression(e) PROVE StoreTypeOK'
  BY <1>3 DEF PutSuppression, SuppressionRow
<1>4. ASSUME NEW c \in Caps, PutCap(c) PROVE StoreTypeOK'
  BY <1>4 DEF PutCap, CapRow
<1>5. ASSUME NEW s \in Sends, RecordSend(s) PROVE StoreTypeOK'
  BY <1>5 DEF RecordSend, SendRow
<1>6. CASE UNCHANGED tables
  BY <1>6 DEF tables
<1> QED
  BY <1>1, <1>2, <1>3, <1>4, <1>5, <1>6 DEF Next

\* Every table holds well-formed rows, whatever is written to it.
THEOREM StoreTypeCorrect == Spec => []StoreTypeOK
<1>1. StoreInit => StoreTypeOK
  BY SeedAssumption DEF StoreInit, StoreTypeOK
<1> QED
  BY <1>1, StoreTypeStep, PTL DEF Spec

-----------------------------------------------------------------------------
(* A rule that requires the purpose asked about.                           *)

AskedRule(q) == [kind |-> "consent", check |-> "consent_required", purpose |-> q.purpose]

LEMMA SnapshotOrdered ==
    ASSUME StoreTypeOK, NEW tenant, NEW subject
    PROVE  Ordered(Snapshot(tenant, subject).records)
BY IdAssumption DEF StoreTypeOK, Ordered, Snapshot, OfSubject, Stored, RecordRow, Instant

\* One answer to a question is the answer whether or not the market requires
\* the purpose it asks about.
LEMMA AskedRuleChangesNothing ==
    ASSUME NEW q, NEW snap, Ordered(snap.records), NEW t, NEW rules, NEW sent
    PROVE  Allowed(q, snap, t, rules, sent)
             = Allowed(q, snap, t, rules \cup {AskedRule(q)}, sent)
<1> DEFINE granted == GrantedPurposes(snap.records, t)
<1>1. RuleReasons(snap, t, rules \cup {AskedRule(q)}) \cap DenyingReasons = {}
      => RuleReasons(snap, t, rules) \cap DenyingReasons = {}
  BY RulesMetWithOneMore DEF RuleReasons, AskedRule
<1>2. ASSUME Granted(q.purpose, snap.records, t),
             RuleReasons(snap, t, rules) \cap DenyingReasons = {}
      PROVE  RuleReasons(snap, t, rules \cup {AskedRule(q)}) \cap DenyingReasons = {}
  <2>1. \E g \in granted : Match(g, q.purpose)
    BY <1>2, GrantedMeansOnFile
  <2> QED
    BY <1>2, <2>1, RulesMetWithOneMore DEF RuleReasons, AskedRule
<1>3. Allowed(q, snap, t, rules, sent)
        <=> Allowed(q, snap, t, rules \cup {AskedRule(q)}, sent)
  BY <1>1, <1>2, AllowedTakenApart
<1> QED
  BY <1>3 DEF Allowed

\* The two routes by which the engine reaches a grant agree: in every
\* reachable store, a market rule that requires the very purpose asked about
\* changes no answer.
THEOREM AskedRuleIsRedundant == Spec => []RuleForAskedPurposeIsRedundant
<1>1. StoreTypeOK => RuleForAskedPurposeIsRedundant
  BY AskedRuleChangesNothing, SnapshotOrdered
     DEF RuleForAskedPurposeIsRedundant, Answer, AskedRule
<1> QED
  BY <1>1, StoreTypeCorrect, PTL

-----------------------------------------------------------------------------
(* Writes that narrow.                                                     *)

\* A record that is no grant gives no purpose a grant it had not before.
LEMMA RecordNarrows ==
    ASSUME NEW rows, NEW w, w.status # "granted", NEW t
    PROVE  /\ \A p : Granted(p, rows \cup {w}, t) => Granted(p, rows, t)
           /\ \A g \in GrantedPurposes(rows \cup {w}, t) :
                 \E h \in GrantedPurposes(rows, t) : Fold[h] = Fold[g]
<1>1. ASSUME NEW p, Granted(p, rows \cup {w}, t)
      PROVE  Granted(p, rows, t)
  <2>1. PICK r \in Latest(Matching(p, rows \cup {w})) : GrantReason(r, t) = "consent_granted"
    BY <1>1, GrantedMeansOnFile
  <2>2. r # w
    BY <2>1, GrantReasonOfGrant
  <2>3. \/ Matching(p, rows \cup {w}) = Matching(p, rows)
        \/ Matching(p, rows \cup {w}) = Matching(p, rows) \cup {w}
    BY DEF Matching
  <2>4. r \in Latest(Matching(p, rows))
    BY <2>1, <2>2, <2>3, LatestWithout
  <2> QED
    BY <2>1, <2>4 DEF Granted, ResolveGrant
<1>2. ASSUME NEW g \in GrantedPurposes(rows \cup {w}, t)
      PROVE  \E h \in GrantedPurposes(rows, t) : Fold[h] = Fold[g]
  <2>1. Granted(g, rows, t)
    BY <1>1 DEF GrantedPurposes
  <2> QED
    BY <2>1, GrantedMeansOnFile DEF Match
<1> QED
  BY <1>1, <1>2

\* An opt-out does not opt anybody in.
LEMMA OptOutNarrows ==
    ASSUME NEW q, NEW rows, Ordered(rows), NEW w, ~w.opted_in,
           PreferenceReasons(q, rows \cup {w}) \cap DenyingReasons = {}
    PROVE  PreferenceReasons(q, rows) \cap DenyingReasons = {}
<1> DEFINE onChannel == {p \in rows : p.channel = q.channel}
           withW == {p \in rows \cup {w} : p.channel = q.channel}
<1>1. PICK p \in Latest(withW) : TRUE
  BY DEF PreferenceReasons, PreferenceFor, DenyingReasons
<1>2. p.opted_in
  BY <1>1 DEF PreferenceReasons, PreferenceFor, DenyingReasons
<1>3. p # w
  BY <1>2
<1>4. withW = onChannel \/ withW = onChannel \cup {w}
  OBVIOUS
<1>5. Ordered(onChannel)
  BY DEF Ordered
<1>6. PreferenceFor(q.channel, rows) = Latest(onChannel)
  BY DEF PreferenceFor
<1> HIDE DEF onChannel, withW
<1>7. p \in Latest(onChannel)
  BY <1>1, <1>3, <1>4, LatestWithout
<1>8. Latest(onChannel) = {p}
  BY <1>5, <1>7, LatestIsOne
<1> QED
  BY <1>2, <1>6, <1>8 DEF PreferenceReasons, DenyingReasons

LEMMA SuppressionNarrows ==
    ASSUME NEW q, NEW rows, NEW w, NEW t, SuppressionReasons(q, rows \cup {w}, t) = {}
    PROVE  SuppressionReasons(q, rows, t) = {}
BY DEF SuppressionReasons

\* What of a snapshot a decision may lose and still be allowed: a record that
\* is no grant, an opt-out, a suppression.
Wider(snap, less) ==
    /\ less.tenant = snap.tenant /\ less.subject = snap.subject /\ less.caps = snap.caps
    /\ \/ snap.records = less.records
       \/ \E w : w.status # "granted" /\ snap.records = less.records \cup {w}
    /\ \/ snap.preferences = less.preferences
       \/ \E w : ~w.opted_in /\ snap.preferences = less.preferences \cup {w}
    /\ \/ snap.suppressions = less.suppressions
       \/ \E w : snap.suppressions = less.suppressions \cup {w}

LEMMA AllowedWithLess ==
    ASSUME NEW q, NEW snap, NEW less, Wider(snap, less), NEW t, NEW rules, NEW sent,
           Ordered(snap.records), Ordered(less.records), Ordered(less.preferences),
           Allowed(q, snap, t, rules, sent)
    PROVE  Allowed(q, less, t, rules, sent)
<1>1. /\ AnswerableReasons(q, snap) = {}
      /\ SuppressionReasons(q, snap.suppressions, t) = {}
      /\ Granted(q.purpose, snap.records, t)
      /\ OptInReasons(q, snap) \cap DenyingReasons = {}
      /\ CapReasons(q, snap.caps, sent) \cap DenyingReasons = {}
      /\ RuleReasons(snap, t, rules) \cap DenyingReasons = {}
  BY AllowedTakenApart
<1>2. AnswerableReasons(q, less) = {} /\ CapReasons(q, less.caps, sent) \cap DenyingReasons = {}
  BY <1>1 DEF Wider, AnswerableReasons
<1>3. SuppressionReasons(q, less.suppressions, t) = {}
  BY <1>1, SuppressionNarrows DEF Wider
<1>4. OptInReasons(q, less) \cap DenyingReasons = {}
  BY <1>1, OptOutNarrows DEF Wider, OptInReasons
<1>5. /\ Granted(q.purpose, less.records, t)
      /\ \A g \in GrantedPurposes(snap.records, t) :
            \E h \in GrantedPurposes(less.records, t) : Fold[h] = Fold[g]
  <2>1. CASE snap.records = less.records
    BY <1>1, <2>1
  <2>2. CASE snap.records # less.records
    BY <1>1, <2>2, RecordNarrows DEF Wider
  <2> QED
    BY <2>1, <2>2
<1>6. RuleReasons(less, t, rules) \cap DenyingReasons = {}
  BY <1>1, <1>5, RulesMetByMore DEF RuleReasons
<1> QED
  BY <1>2, <1>3, <1>4, <1>5, <1>6, AllowedTakenApart

\* The sends a decision counts.
Sent(q, t) == SendsInWindow(q, Snapshot(q.tenant, q.subject).caps, t)

LEMMA SentUnchanged ==
    ASSUME UNCHANGED <<caps, sends>>, NEW q, NEW t
    PROVE  Sent(q, t)' = Sent(q, t)
BY DEF Sent, SendsInWindow, SentInWindow, SentSince, Snapshot, CapsOf, OfSubject, Stored

LEMMA FreshRow ==
    ASSUME NEW table, NEW next, NEW i \in Id, NEW tenant, NEW subject,
           table[i] = None, next[i] # None, \A k \in Id \ {i} : next[k] = table[k]
    PROVE  \/ OfSubject(next, tenant, subject) = OfSubject(table, tenant, subject)
           \/ OfSubject(next, tenant, subject)
                = OfSubject(table, tenant, subject) \cup {next[i]}
<1>1. Stored(next) = Stored(table) \cup {next[i]}
  BY DEF Stored
<1> QED
  BY <1>1 DEF OfSubject

LEMMA NarrowingMakesWider ==
    ASSUME StoreTypeOK, Narrowing, NEW tenant, NEW subject
    PROVE  /\ Wider(Snapshot(tenant, subject)', Snapshot(tenant, subject))
           /\ UNCHANGED <<caps, sends>>
<1>1. CASE /\ UNCHANGED <<preferences, suppressions, caps, sends>>
           /\ \E i \in FreshId(records) :
                 /\ records' = [records EXCEPT ![i] = records'[i]]
                 /\ records'[i].status # "granted"
  <2>1. \/ OfSubject(records, tenant, subject)' = OfSubject(records, tenant, subject)
        \/ \E w : /\ w.status # "granted"
                  /\ OfSubject(records, tenant, subject)'
                       = OfSubject(records, tenant, subject) \cup {w}
    BY <1>1, FreshRow DEF FreshId, StoreTypeOK
  <2>2. /\ OfSubject(preferences, tenant, subject)' = OfSubject(preferences, tenant, subject)
        /\ OfSubject(suppressions, tenant, subject)' = OfSubject(suppressions, tenant, subject)
        /\ CapsOf(tenant, subject)' = CapsOf(tenant, subject)
    BY <1>1 DEF OfSubject, CapsOf, Stored
  <2> QED
    BY <1>1, <2>1, <2>2 DEF Wider, Snapshot
<1>2. CASE /\ UNCHANGED <<records, suppressions, caps, sends>>
           /\ \E i \in FreshId(preferences) :
                 /\ preferences' = [preferences EXCEPT ![i] = preferences'[i]]
                 /\ ~preferences'[i].opted_in
  <2>1. \/ OfSubject(preferences, tenant, subject)' = OfSubject(preferences, tenant, subject)
        \/ \E w : /\ ~w.opted_in
                  /\ OfSubject(preferences, tenant, subject)'
                       = OfSubject(preferences, tenant, subject) \cup {w}
    BY <1>2, FreshRow DEF FreshId, StoreTypeOK
  <2>2. /\ OfSubject(records, tenant, subject)' = OfSubject(records, tenant, subject)
        /\ OfSubject(suppressions, tenant, subject)' = OfSubject(suppressions, tenant, subject)
        /\ CapsOf(tenant, subject)' = CapsOf(tenant, subject)
    BY <1>2 DEF OfSubject, CapsOf, Stored
  <2> QED
    BY <1>2, <2>1, <2>2 DEF Wider, Snapshot
<1>3. CASE /\ UNCHANGED <<records, preferences, caps, sends>>
           /\ \E i \in FreshId(suppressions) :
                 suppressions' = [suppressions EXCEPT ![i] = suppressions'[i]]
  <2>1. \/ OfSubject(suppressions, tenant, subject)' = OfSubject(suppressions, tenant, subject)
        \/ \E w : OfSubject(suppressions, tenant, subject)'
                    = OfSubject(suppressions, tenant, subject) \cup {w}
    <3>1. PICK i \in Id : /\ suppressions[i] = None /\ suppressions'[i] # None
                          /\ suppressions' = [suppressions EXCEPT ![i] = suppressions'[i]]
      BY <1>3 DEF FreshId
    <3>2. \A k \in Id \ {i} : suppressions'[k] = suppressions[k]
      BY <3>1 DEF StoreTypeOK
    <3>3. \/ OfSubject(suppressions', tenant, subject) = OfSubject(suppressions, tenant, subject)
          \/ OfSubject(suppressions', tenant, subject)
               = OfSubject(suppressions, tenant, subject) \cup {suppressions'[i]}
      BY <3>1, <3>2, FreshRow
    <3> QED
      BY <3>3
  <2>2. /\ OfSubject(records, tenant, subject)' = OfSubject(records, tenant, subject)
        /\ OfSubject(preferences, tenant, subject)' = OfSubject(preferences, tenant, subject)
        /\ CapsOf(tenant, subject)' = CapsOf(tenant, subject)
    BY <1>3 DEF OfSubject, CapsOf, Stored
  <2> QED
    BY <1>3, <2>1, <2>2 DEF Wider, Snapshot
<1> QED
  BY <1>1, <1>2, <1>3 DEF Narrowing

\* The gate lets records through that are no grant, and opt-outs and
\* suppressions apply at once: none of them turns a denial into a permission,
\* whatever instants it carries and whatever is on file.
THEOREM NarrowingIsSafe == Spec => NarrowingWritesOnlyNarrow
<1>1. ASSUME StoreTypeOK, StoreTypeOK', Narrowing,
             NEW q \in Questions, NEW t \in AsOfs, NEW rules \in RuleSets,
             Answer(q, t, rules)'
      PROVE  Answer(q, t, rules)
  <2> DEFINE snap == Snapshot(q.tenant, q.subject)
  <2>1. Wider(snap', snap) /\ Sent(q, t)' = Sent(q, t)
    BY <1>1, NarrowingMakesWider, SentUnchanged
  <2>2. Allowed(q, snap', t, rules, Sent(q, t))
    BY <1>1, <2>1 DEF Answer, Sent
  <2>3. /\ Ordered(snap'.records) /\ Ordered(snap.records) /\ Ordered(snap.preferences)
    BY <1>1, IdAssumption
       DEF StoreTypeOK, Ordered, Snapshot, OfSubject, Stored, RecordRow, PreferenceRow, Instant
  <2> HIDE DEF snap
  <2>4. Allowed(q, snap, t, rules, Sent(q, t))
    BY <2>1, <2>2, <2>3, AllowedWithLess
  <2> QED
    BY <2>4 DEF snap, Answer, Sent
<1>2. StoreTypeOK /\ StoreTypeOK' /\ [Next]_tables
      => [Narrowing => \A q \in Questions, t \in AsOfs, rules \in RuleSets :
                          Answer(q, t, rules)' => Answer(q, t, rules)]_tables
  BY <1>1
<1> QED
  BY <1>2, StoreTypeCorrect, PTL DEF Spec, NarrowingWritesOnlyNarrow

-----------------------------------------------------------------------------
(* The engine and the reference.                                           *)

\* A table has each row under the row's id.
Keyed(table) == \A i \in Id : table[i] # None => table[i].id = i

\* The rows of a person, in a table of rows.
LEMMA RowsOfAPerson ==
    ASSUME NEW table, NEW Row, table \in [Id -> Row \cup {None}], Keyed(table), NEW q,
           Blank \notin {q.tenant, q.subject}
    PROVE  /\ OfSubject(table, q.tenant, q.subject) = {r \in Stored(table) : About(q, r)}
           /\ Stored(table) \subseteq Row
           /\ \A r \in Stored(table) : r.id \in Nat
           /\ Distinct(Stored(table))
BY KeysTellRowsApart, IdAssumption DEF OfSubject, About, Stored, Keyed

\* Every table has its rows under their ids, and the sends are finitely many.
StoreKept ==
    /\ StoreTypeOK
    /\ Keyed(records) /\ Keyed(preferences) /\ Keyed(suppressions) /\ Keyed(caps) /\ Keyed(sends)
    /\ IsFiniteSet({i \in Id : sends[i] # None})

LEMMA PutKeepsKeyed ==
    ASSUME NEW table, NEW Row, table \in [Id -> Row \cup {None}], Keyed(table),
           NEW r, NEW next, next = [table EXCEPT ![r.id] = r]
    PROVE  Keyed(next)
BY DEF Keyed

LEMMA StoreKeptStep == StoreKept /\ [Next]_tables => StoreKept'
<1> SUFFICES ASSUME StoreKept, [Next]_tables PROVE StoreKept'
  OBVIOUS
<1>1. StoreTypeOK /\ StoreTypeOK'
  BY StoreTypeStep DEF StoreKept
<1>2. CASE \E r \in Records : PutRecord(r)
  BY <1>1, <1>2, PutKeepsKeyed DEF StoreKept, StoreTypeOK, PutRecord, Keyed
<1>3. CASE \E p \in Preferences : PutPreference(p)
  BY <1>1, <1>3, PutKeepsKeyed DEF StoreKept, StoreTypeOK, PutPreference, Keyed
<1>4. CASE \E e \in Suppressions : PutSuppression(e)
  BY <1>1, <1>4, PutKeepsKeyed DEF StoreKept, StoreTypeOK, PutSuppression, Keyed
<1>5. CASE \E c \in Caps : PutCap(c)
  BY <1>1, <1>5, PutKeepsKeyed DEF StoreKept, StoreTypeOK, PutCap, Keyed
<1>6. CASE \E s \in Sends : RecordSend(s)
  <2> PICK s \in Sends : RecordSend(s)
    BY <1>6
  <2>1. {i \in Id : sends'[i] # None} \subseteq {i \in Id : sends[i] # None} \cup {s.id}
    BY <1>1 DEF StoreTypeOK, RecordSend
  <2>2. IsFiniteSet({i \in Id : sends'[i] # None})
    BY <2>1, FS_AddElement, FS_Subset DEF StoreKept
  <2>3. Keyed(sends')
    BY <1>1, PutKeepsKeyed DEF StoreKept, StoreTypeOK, RecordSend
  <2> QED
    BY <1>1, <2>2, <2>3 DEF StoreKept, RecordSend, Keyed
<1>7. CASE UNCHANGED tables
  BY <1>1, <1>7 DEF StoreKept, tables, Keyed
<1> QED
  BY <1>2, <1>3, <1>4, <1>5, <1>6, <1>7 DEF Next

LEMMA StoreKeptInit == StoreInit => StoreKept
<1> SUFFICES ASSUME StoreInit PROVE StoreKept
  OBVIOUS
<1>1. StoreTypeOK
  BY SeedAssumption DEF StoreInit, StoreTypeOK
<1>2. {i \in Id : sends[i] # None} = {}
  BY DEF StoreInit
<1>3. Keyed(records) /\ Keyed(preferences) /\ Keyed(suppressions) /\ Keyed(caps) /\ Keyed(sends)
  BY SeedAssumption, SeedKeysAssumption DEF StoreInit, Keyed
<1> QED
  BY <1>1, <1>2, <1>3, FS_EmptySet DEF StoreKept

Asked(q) == Blank \notin {q.tenant, q.subject}

\* A person's grant, in a store of rows.
LEMMA PersonsGrantIsOnFile ==
    ASSUME StoreKept, NEW q, Asked(q), NEW p, NEW t \in Instant
    PROVE  Granted(p, OfSubject(records, q.tenant, q.subject), t)
             <=> ConsentOnFile(Stored(records), q, p, t)
<1>1. /\ OfSubject(records, q.tenant, q.subject) = {r \in Stored(records) : About(q, r)}
      /\ Stored(records) \subseteq RecordRow
      /\ \A r \in Stored(records) : r.id \in Nat
      /\ Distinct(Stored(records))
  BY RowsOfAPerson DEF StoreKept, StoreTypeOK, Asked
<1>2. \A r \in Stored(records) : Timed(r)
  BY <1>1 DEF RecordRow, Timed
<1> QED
  BY <1>1, <1>2, GrantedIsOnFile

\* The opt-in, where all rows on the channel are comparable.
LEMMA OptInIsOnFile ==
    ASSUME StoreKept, NEW q, Asked(q)
    PROVE  PreferenceReasons(q, OfSubject(preferences, q.tenant, q.subject)) \cap DenyingReasons = {}
             <=> OptedIn(q)
<1> DEFINE rows == OfSubject(preferences, q.tenant, q.subject)
           said == {p \in rows : p.channel = q.channel}
<1>1. /\ rows = {r \in Stored(preferences) : About(q, r)}
      /\ Stored(preferences) \subseteq PreferenceRow
      /\ \A r \in Stored(preferences) : r.id \in Nat
      /\ Distinct(Stored(preferences))
  BY RowsOfAPerson DEF StoreKept, StoreTypeOK, Asked
<1>2. said = {s \in Stored(preferences) : About(q, s) /\ s.channel = q.channel}
  BY <1>1
<1>3. Ordered(said) /\ Distinct(said)
  BY <1>1, <1>2 DEF Ordered, Distinct, PreferenceRow, Instant
<1>4. \A r \in said : r \in Latest(said) <=> HasLastWord(r, said)
  BY <1>3, LatestHasLastWord
<1>5. Latest(said) \subseteq said
  BY DEF Latest
<1>6. OptedIn(q) <=> \E p \in said : p.opted_in /\ HasLastWord(p, said)
  BY <1>2 DEF OptedIn
<1>7. PreferenceReasons(q, rows) =
        IF Latest(said) = {} THEN {"channel_preference_unknown"}
        ELSE {IF p.opted_in THEN "channel_opted_in" ELSE "channel_opted_out" : p \in Latest(said)}
  BY DEF PreferenceReasons, PreferenceFor
<1> HIDE DEF rows, said
<1>8. \A p, r \in Latest(said) : p = r
  BY <1>3, LatestIsOne
<1>9. PreferenceReasons(q, rows) \cap DenyingReasons = {} <=> \E p \in Latest(said) : p.opted_in
  BY <1>7, <1>8 DEF DenyingReasons
<1> QED
  BY <1>4, <1>5, <1>6, <1>9 DEF rows

LEMMA SuppressionIsOnFile ==
    ASSUME StoreKept, NEW q, Asked(q), NEW t \in Instant
    PROVE  SuppressionReasons(q, OfSubject(suppressions, q.tenant, q.subject), t) = {}
             <=> ~DoNotContact(q, t)
<1> DEFINE rows == OfSubject(suppressions, q.tenant, q.subject)
<1>1. /\ rows = {r \in Stored(suppressions) : About(q, r)}
      /\ Stored(suppressions) \subseteq SuppressionRow
  BY RowsOfAPerson DEF StoreKept, StoreTypeOK, Asked
<1>2. ASSUME NEW e \in SuppressionRow
      PROVE  Applies(e, q, t) <=> InForce(e, t) /\ (CASE e.scope = "all"     -> TRUE
                                                      [] e.scope = "channel" -> e.channel = q.channel
                                                      [] e.scope = "purpose" -> Match(e.purpose, q.purpose))
  <2>1. InForce(e, t) <=> Started(e, t) /\ ~Lapsed(e, t)
    BY WindowIsOpen DEF SuppressionRow
  <2>2. e.scope \in {"all", "channel", "purpose"}
    BY DEF SuppressionRow, Scope
  <2> QED
    BY <2>1, <2>2 DEF Applies
<1>3. (\E e \in rows : Applies(e, q, t)) <=> DoNotContact(q, t)
  BY <1>1, <1>2 DEF DoNotContact
<1> QED
  BY <1>3 DEF SuppressionReasons

-----------------------------------------------------------------------------
(* The cap that binds.                                                     *)

\* The least allowance comes first, and of equal ones the least id.
Least(c, rows) == \A d \in rows : c.max < d.max \/ (c.max = d.max /\ c.id <= d.id)

LEMMA OneIsLeast ==
    ASSUME NEW rows, rows # {}, \A c \in rows : c.max \in Nat /\ c.id \in Nat
    PROVE  \E c \in rows : Least(c, rows)
<1>1. PICK m \in {c.max : c \in rows} : \A n \in {c.max : c \in rows} : m <= n
  BY SmallestOf
<1> DEFINE lowest == {c \in rows : c.max = m}
<1>2. {c.id : c \in lowest} # {} /\ {c.id : c \in lowest} \subseteq Nat
  BY <1>1
<1>3. PICK i \in {c.id : c \in lowest} : \A j \in {c.id : c \in lowest} : i <= j
  BY <1>2, SmallestOf
<1>4. PICK c \in lowest : c.id = i
  BY <1>3
<1>5. ASSUME NEW d \in rows
      PROVE  c.max < d.max \/ (c.max = d.max /\ c.id <= d.id)
  <2>1. m <= d.max /\ c.max = m /\ m \in Nat /\ d.max \in Nat
    BY <1>1, <1>4
  <2>2. d.max = m => c.id <= d.id
    BY <1>3, <1>4
  <2> QED
    BY <2>1, <2>2
<1> QED
  BY <1>4, <1>5 DEF Least

\* The caps the engine chooses among, and the one it chooses.
LEMMA BindingCapIsSelected ==
    ASSUME StoreKept, NEW q, Asked(q)
    PROVE  LET rows == CapsOf(q.tenant, q.subject)
           IN  /\ ApplicableCaps(q, rows) = {} <=> BindingCaps(q) = {}
               /\ \A c \in BindingCaps(q) :
                     Least(c, BindingCaps(q)) => SelectedCap(q, rows) = {c}
               /\ BindingCaps(q) # {} => \E c \in BindingCaps(q) : Least(c, BindingCaps(q))
<1> DEFINE rows  == CapsOf(q.tenant, q.subject)
           on    == {c \in Stored(caps) : c.tenant = q.tenant /\ c.channel = q.channel}
           own   == {c \in on : c.purpose # Blank /\ Match(c.purpose, q.purpose)}
           rest  == {c \in on : c.purpose = Blank}
           bind  == BindingCaps(q)
           all   == ApplicableCaps(q, rows)
<1>1. \A c \in Stored(caps) : c.max \in Nat /\ c.id \in Nat
  <2>1. Stored(caps) \subseteq CapRow
    BY DEF Stored, StoreKept, StoreTypeOK
  <2> QED
    BY <2>1, IdAssumption DEF CapRow
<1>2. Distinct(Stored(caps))
  BY DEF StoreKept, Stored, Keyed, Distinct
<1>3. all = own \cup rest /\ bind = IF own # {} THEN own ELSE rest
  BY DEF ApplicableCaps, CapsOf, Asked, BindingCaps
<1>4. bind \subseteq Stored(caps) /\ all \subseteq Stored(caps)
  BY <1>3
<1>5. ASSUME NEW c \in bind, Least(c, bind)
      PROVE  SelectedCap(q, rows) = {c}
  <2>1. ASSUME NEW d \in all PROVE d = c \/ Preferred(c, d)
    <3>1. CASE d \in bind
      <4>1. (c.purpose = Blank) = (d.purpose = Blank)
        BY <1>3, <1>5, <3>1
      <4>2. c.max < d.max \/ (c.max = d.max /\ c.id <= d.id)
        BY <1>5, <3>1 DEF Least
      <4>3. c.id \in Nat /\ d.id \in Nat /\ (c.id = d.id => c = d)
        BY <1>1, <1>2, <1>4, <3>1 DEF Distinct
      <4> QED
        BY <4>1, <4>2, <4>3 DEF Preferred
    <3>2. CASE d \notin bind
      BY <1>3, <3>2 DEF Preferred
    <3> QED
      BY <3>1, <3>2
  <2>2. ASSUME NEW d \in all, Preferred(c, d) PROVE ~Preferred(d, c)
    BY <1>1, <1>4, <1>5, <2>2 DEF Preferred
  <2>3. c \in all
    BY <1>3
  <2> HIDE DEF all, bind, rows
  <2>4. ASSUME NEW d \in SelectedCap(q, rows) PROVE d = c
    BY <2>1, <2>2, <2>3, <2>4 DEF SelectedCap, all
  <2>5. c \in SelectedCap(q, rows)
    BY <2>1, <2>3 DEF SelectedCap, all
  <2> QED
    BY <2>4, <2>5
<1>6. bind # {} => \E c \in bind : Least(c, bind)
  <2>1. \A c \in bind : c.max \in Nat /\ c.id \in Nat
    BY <1>1, <1>4
  <2> HIDE DEF bind
  <2> QED
    BY <2>1, OneIsLeast
<1>7. all = {} <=> bind = {}
  BY <1>3
<1> HIDE DEF rows, all, bind
<1> QED
  BY <1>5, <1>6, <1>7 DEF rows, all, bind

\* The sends are counted by their ids here and as rows there.
LEMMA CountedAlike ==
    ASSUME StoreKept, NEW q, Asked(q), NEW since
    PROVE  /\ Cardinality(SentSince(q, since)) \in Nat
           /\ Cardinality({s \in Stored(sends) : /\ About(q, s) /\ s.channel = q.channel
                                                 /\ s.at + s.offset >= since})
                = Cardinality(SentSince(q, since))
<1> DEFINE ids  == SentSince(q, since)
           rows == {s \in Stored(sends) : /\ About(q, s) /\ s.channel = q.channel
                                          /\ s.at + s.offset >= since}
           row  == [i \in ids |-> sends[i]]
<1>1. IsFiniteSet(ids)
  <2>1. ids \subseteq {i \in Id : sends[i] # None}
    BY DEF SentSince, OfSubject, Stored
  <2> QED
    BY <2>1, FS_Subset DEF StoreKept
<1>2. \A i \in ids : i \in Id /\ sends[i] # None /\ sends[i] \in rows
  BY DEF SentSince, OfSubject, Stored, About
<1>3. \A s \in rows : \E i \in ids : sends[i] = s
  BY DEF SentSince, OfSubject, Stored, About, Asked
<1>4. \A i, j \in ids : sends[i] = sends[j] => i = j
  BY <1>2 DEF StoreKept, Keyed
<1> HIDE DEF ids, rows
<1>5. row \in Bijection(ids, rows)
  BY <1>2, <1>3, <1>4 DEF Bijection, Injection, Surjection, IsInjective
<1>6. ExistsBijection(ids, rows)
  BY <1>5 DEF ExistsBijection
<1> QED
  BY <1>1, <1>6, FS_Bijection, FS_CardinalityType DEF ids, rows

LEMMA CapIsOnFile ==
    ASSUME StoreKept, NEW q, Asked(q), NEW t
    PROVE  CapReasons(q, CapsOf(q.tenant, q.subject), Sent(q, t)) \cap DenyingReasons = {}
             <=> UnderCap(q, t)
<1> DEFINE rows == CapsOf(q.tenant, q.subject)
           bind == BindingCaps(q)
           since(c) == {s \in Stored(sends) : /\ About(q, s) /\ s.channel = q.channel
                                              /\ s.at + s.offset >= t - c.window}
<1>1. /\ ApplicableCaps(q, rows) = {} <=> bind = {}
      /\ \A c \in bind : Least(c, bind) => SelectedCap(q, rows) = {c}
      /\ bind # {} => \E c \in bind : Least(c, bind)
  BY BindingCapIsSelected
<1>2. UnderCap(q, t) <=> (bind # {} => \E c \in bind : /\ Least(c, bind)
                                                      /\ Cardinality(since(c)) < c.max)
  BY DEF UnderCap, Least
<1>3. CASE bind = {}
  BY <1>1, <1>2, <1>3 DEF CapReasons, DenyingReasons
<1>4. CASE bind # {}
  <2>1. PICK c \in bind : Least(c, bind)
    BY <1>1, <1>4
  <2>2. SelectedCap(q, rows) = {c} /\ ApplicableCaps(q, rows) # {}
    BY <1>1, <1>4, <2>1
  <2>3. \A d \in bind : Least(d, bind) => d = c
    BY <1>1, <2>2
  <2>4. Sent(q, t) = Cardinality(SentSince(q, t - c.window))
    <3>1. Snapshot(q.tenant, q.subject).caps = rows
      BY DEF Snapshot
    <3>2. SentInWindow(q, rows, t) = SentSince(q, t - c.window)
      BY <2>2 DEF SentInWindow
    <3> QED
      BY <3>1, <3>2 DEF Sent, SendsInWindow
  <2>5. /\ Sent(q, t) \in Nat
        /\ Cardinality(since(c)) = Sent(q, t)
    BY <2>4, CountedAlike
  <2>6. c.max \in Nat
    <3>1. c \in CapRow
      BY DEF BindingCaps, Stored, StoreKept, StoreTypeOK
    <3> QED
      BY <3>1 DEF CapRow
  <2>7. UnderCap(q, t) <=> Sent(q, t) < c.max
    BY <1>2, <1>4, <2>1, <2>3, <2>5
  <2>8. CapReasons(q, rows, Sent(q, t)) =
          {IF Sent(q, t) >= c.max THEN "frequency_cap_exceeded" ELSE "within_frequency_cap"}
    BY <2>2 DEF CapReasons
  <2>9. Sent(q, t) >= c.max <=> ~(Sent(q, t) < c.max)
    BY <2>5, <2>6
  <2> HIDE DEF rows
  <2> QED
    BY <2>7, <2>8, <2>9 DEF DenyingReasons, rows
<1> QED
  BY <1>3, <1>4

-----------------------------------------------------------------------------
(* The answer.                                                             *)

LEMMA RulesAreOnFile ==
    ASSUME StoreKept, NEW q, Asked(q), NEW t \in Instant, NEW rules
    PROVE  RuleReasons(Snapshot(q.tenant, q.subject), t, rules) \cap DenyingReasons = {}
             <=> \A r \in rules : r.kind = "consent" /\ r.check = "consent_required"
                                    => ConsentOnFile(Stored(records), q, r.purpose, t)
<1> DEFINE rows == OfSubject(records, q.tenant, q.subject)
<1>1. Snapshot(q.tenant, q.subject).records = rows
  BY DEF Snapshot
<1>2. \A p : Granted(p, rows, t) <=> ConsentOnFile(Stored(records), q, p, t)
  BY PersonsGrantIsOnFile
<1> HIDE DEF rows
<1>3. \A p : (\E g \in GrantedPurposes(rows, t) : Match(g, p)) <=> ConsentOnFile(Stored(records), q, p, t)
  BY <1>2, GrantedInSomeSpelling
<1> QED
  BY <1>1, <1>3, RulesMet DEF RuleReasons, ConsentRules

LEMMA AnswerIsOnFile ==
    ASSUME StoreKept, NEW q, NEW t \in Instant, NEW rules
    PROVE  Answer(q, t, rules) <=> MayContact(q, t, rules)
<1> DEFINE snap == Snapshot(q.tenant, q.subject)
<1>1. /\ snap.records = OfSubject(records, q.tenant, q.subject)
      /\ snap.preferences = OfSubject(preferences, q.tenant, q.subject)
      /\ snap.suppressions = OfSubject(suppressions, q.tenant, q.subject)
      /\ snap.caps = CapsOf(q.tenant, q.subject)
      /\ snap.tenant = q.tenant /\ snap.subject = q.subject
  BY DEF Snapshot
<1>2. Ordered(snap.records)
  BY SnapshotOrdered DEF StoreKept
<1>3. Answer(q, t, rules) <=> Allowed(q, snap, t, rules, Sent(q, t))
  BY DEF Answer, Sent
<1> HIDE DEF snap
<1>4. Answer(q, t, rules) <=>
        /\ AnswerableReasons(q, snap) = {}
        /\ SuppressionReasons(q, snap.suppressions, t) = {}
        /\ Granted(q.purpose, snap.records, t)
        /\ OptInReasons(q, snap) \cap DenyingReasons = {}
        /\ CapReasons(q, snap.caps, Sent(q, t)) \cap DenyingReasons = {}
        /\ RuleReasons(snap, t, rules) \cap DenyingReasons = {}
  BY <1>2, <1>3, AllowedTakenApart
<1>5. AnswerableReasons(q, snap) = {} <=> Blank \notin {q.tenant, q.subject, q.purpose}
  BY <1>1 DEF AnswerableReasons, Unresolved
<1>6. CASE ~Asked(q)
  BY <1>4, <1>5, <1>6 DEF Asked, MayContact
<1>7. CASE Asked(q)
  <2>1. SuppressionReasons(q, snap.suppressions, t) = {} <=> ~DoNotContact(q, t)
    BY <1>1, <1>7, SuppressionIsOnFile
  <2>2. Granted(q.purpose, snap.records, t) <=> ConsentOnFile(Stored(records), q, q.purpose, t)
    BY <1>1, <1>7, PersonsGrantIsOnFile
  <2>3. OptInReasons(q, snap) \cap DenyingReasons = {} <=> OptedIn(q)
    BY <1>1, <1>7, OptInIsOnFile DEF OptInReasons
  <2>4. CapReasons(q, snap.caps, Sent(q, t)) \cap DenyingReasons = {} <=> UnderCap(q, t)
    BY <1>1, <1>7, CapIsOnFile
  <2>5. RuleReasons(snap, t, rules) \cap DenyingReasons = {}
          <=> \A r \in rules : r.kind = "consent" /\ r.check = "consent_required"
                                 => ConsentOnFile(Stored(records), q, r.purpose, t)
    BY <1>7, RulesAreOnFile DEF snap
  <2> QED
    BY <1>4, <1>5, <2>1, <2>2, <2>3, <2>4, <2>5 DEF MayContact
<1> QED
  BY <1>6, <1>7

\* In every store the writes can reach, a contact is allowed exactly when what
\* is on file permits it, whatever the tables hold and whatever the rules ask.
THEOREM AllowedIsWhatIsOnFile == Spec => []AllowedMatchesReference
<1>1. StoreKept => AllowedMatchesReference
  BY AnswerIsOnFile, RowAssumption DEF AllowedMatchesReference
<1> QED
  BY <1>1, StoreKeptInit, StoreKeptStep, PTL DEF Spec
=============================================================================
