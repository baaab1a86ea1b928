---------------------------- MODULE ConsentFacts ----------------------------
(***************************************************************************)
(* What the stored facts answer: the engine over every store a sequence of *)
(* writes can produce, each write a put of the store and each question the *)
(* two reads and the pure decision ConsentService.decide makes of them at  *)
(* one instant.  Concurrency is ConsentDecisions' subject, not this        *)
(* module's.                                                               *)
(***************************************************************************)
EXTENDS ConsentStore, OnFile

CONSTANTS Records, Preferences, Suppressions, Caps, Sends,  \* rows written
          Questions, RuleSets, AsOfs,                       \* what is asked
          MaxRows                                           \* bound on the store

\* What is written are rows, and a question is asked of an instant.
ASSUME RowAssumption ==
    /\ Records \subseteq RecordRow
    /\ Preferences \subseteq PreferenceRow
    /\ Suppressions \subseteq SuppressionRow
    /\ Caps \subseteq CapRow
    /\ Sends \subseteq SendRow
    /\ AsOfs \subseteq Instant

HasRoom(table, row) ==
    table[row.id] = None =>
        Cardinality({e \in (1..5) \X Id : tables[e[1]][e[2]] # None}) < MaxRows

Next ==
    \/ \E r \in Records      : HasRoom(records, r)      /\ PutRecord(r)
    \/ \E p \in Preferences  : HasRoom(preferences, p)  /\ PutPreference(p)
    \/ \E e \in Suppressions : HasRoom(suppressions, e) /\ PutSuppression(e)
    \/ \E c \in Caps         : HasRoom(caps, c)         /\ PutCap(c)
    \/ \E s \in Sends        : HasRoom(sends, s)        /\ RecordSend(s)

Spec == StoreInit /\ [][Next]_tables

Answer(q, t, rules) ==
    LET snap == Snapshot(q.tenant, q.subject)
    IN  Allowed(q, snap, t, rules, SendsInWindow(q, snap.caps, t))

-----------------------------------------------------------------------------
(* A reference definition of the answer, stated over the tables: what must *)
(* be on file for a contact to be permitted.                               *)

OptedIn(q) ==
    \E p \in Stored(preferences) :
        /\ About(q, p) /\ p.channel = q.channel /\ p.opted_in
        /\ HasLastWord(p, {s \in Stored(preferences) : About(q, s) /\ s.channel = q.channel})

DoNotContact(q, t) ==
    \E e \in Stored(suppressions) :
        /\ About(q, e) /\ InForce(e, t)
        /\ CASE e.scope = "all"     -> TRUE
             [] e.scope = "channel" -> e.channel = q.channel
             [] e.scope = "purpose" -> Match(e.purpose, q.purpose)

\* The caps that may bind: the purpose's own if it has one, else the channel's.
BindingCaps(q) ==
    LET onChannel == {c \in Stored(caps) : c.tenant = q.tenant /\ c.channel = q.channel}
        own == {c \in onChannel : c.purpose # Blank /\ Match(c.purpose, q.purpose)}
    IN  IF own # {} THEN own ELSE {c \in onChannel : c.purpose = Blank}

UnderCap(q, t) ==
    BindingCaps(q) # {} =>
        \E c \in BindingCaps(q) :
            /\ \A d \in BindingCaps(q) :
                  c.max < d.max \/ (c.max = d.max /\ c.id <= d.id)
            /\ Cardinality({s \in Stored(sends) :
                  /\ About(q, s) /\ s.channel = q.channel
                  /\ s.at + s.offset >= t - c.window}) < c.max

MayContact(q, t, rules) ==
    /\ Blank \notin {q.tenant, q.subject, q.purpose}
    /\ ConsentOnFile(Stored(records), q, q.purpose, t)
    /\ OptedIn(q)
    /\ ~DoNotContact(q, t)
    /\ UnderCap(q, t)
    /\ \A r \in rules :
          r.kind = "consent" /\ r.check = "consent_required" => ConsentOnFile(Stored(records), q, r.purpose, t)

-----------------------------------------------------------------------------
(* Properties.                                                             *)

\* The engine decides by collecting reasons and allowing when none of them
\* denies.  A contact is ALLOWED exactly when the stored facts permit it: a
\* reason missing from DENYING_REASONS, a step that appends none, a window
\* boundary or a selection that reads the wrong row would each break it.
AllowedMatchesReference ==
    \A q \in Questions, t \in AsOfs, rules \in RuleSets :
        Answer(q, t, rules) <=> MayContact(q, t, rules)

\* The engine reaches a grant twice: resolve_grant answers the purpose asked
\* about, granted_purposes lists every spelling on file for the market rules.
\* The two agree: a market rule that requires the very purpose asked about
\* never changes the answer, however that purpose was spelled in the store.
RuleForAskedPurposeIsRedundant ==
    \A q \in Questions, t \in AsOfs, rules \in RuleSets :
        Answer(q, t, rules) =
        Answer(q, t, rules \cup {[kind |-> "consent", check |-> "consent_required",
                                  purpose |-> q.purpose]})

FreshId(table) ==
    {i \in Id : table[i] = None /\ table'[i] # None}

\* A write that adds, under an id not used before, something no subject would
\* call permission: a record that is not a grant, an opt-out or a suppression.
Narrowing ==
    \/ /\ UNCHANGED <<preferences, suppressions, caps, sends>>
       /\ \E i \in FreshId(records) :
             /\ records' = [records EXCEPT ![i] = records'[i]]
             /\ records'[i].status # "granted"
    \/ /\ UNCHANGED <<records, suppressions, caps, sends>>
       /\ \E i \in FreshId(preferences) :
             /\ preferences' = [preferences EXCEPT ![i] = preferences'[i]]
             /\ ~preferences'[i].opted_in
    \/ /\ UNCHANGED <<records, preferences, caps, sends>>
       /\ \E i \in FreshId(suppressions) :
             suppressions' = [suppressions EXCEPT ![i] = suppressions'[i]]

\* _gate_status lets such records through because they "never widen what may
\* be done to the subject".  Nor do they, nor opt-outs, nor suppressions: no
\* question denied before such a write is allowed after it, at any instant
\* and whatever the row's own timestamps say.
NarrowingWritesOnlyNarrow ==
    [][Narrowing => \A q \in Questions, t \in AsOfs, rules \in RuleSets :
                        Answer(q, t, rules)' => Answer(q, t, rules)]_tables
=============================================================================
