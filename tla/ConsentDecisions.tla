-------------------------- MODULE ConsentDecisions --------------------------
(***************************************************************************)
(* ConsentService.decide among the writes of ConsentWrites.  A decision    *)
(* fixes its instant, reads the snapshot, then the sends, loads the        *)
(* market's rules, decides and audits; other calls run between its reads.  *)
(* The local store reads its four tables under one lock, the Firestore     *)
(* store with four queries one after another.                              *)
(*                                                                         *)
(* Three variables are history, kept per thread since its decision began:  *)
(* `permitting', the rule outcomes under which the store at some instant   *)
(* permitted the contact, `onFile', the facts that at some instant spoke   *)
(* for it, and `uncounted', the sends its count lost before it was taken.  *)
(***************************************************************************)
EXTENDS ConsentWrites

CONSTANTS Adapters,     \* the stores a profile may bind: "local", "firestore"
          Questions,    \* [subject, purpose, channel] as requests put them
          AsOfs,        \* the instants a request may name, None for now
          Market        \* the consent rules of the market asked about

ASSUME AdapterAssumption == Adapters \subseteq {"local", "firestore"}

\* The route and the query it makes of a body: an empty purpose is refused by the
\* decision itself, a channel or an instant that cannot be read by the route.
ASSUME QuestionAssumption ==
    /\ Questions \subseteq [subject: Subject \cup {Blank}, purpose: Purpose \cup {Blank},
                           channel: Channel]
    /\ AsOfs \subseteq Moment

VARIABLES adapter,      \* the store bound when the process started
          question,     \* the query a thread decides, with its instant as_of
          view,         \* the snapshot it has read so far
          tally,        \* the sends it has counted
          outcome,      \* its last decision and the rules that was made with
          permitting, onFile, uncounted

decisionVars == <<adapter, question, view, tally, outcome, permitting, onFile, uncounted>>
allVars == <<vars, decisionVars>>

DecisionSteps ==
    {"read_records", "read_preferences", "read_suppressions", "read_caps", "count_sends",
     "judge"}

\* The provider may fail, and then there is no rule.
RuleOutcomes == {Market, {}}

Facts == {"consent", "opt_in", "not_suppressed", "under_cap"}

QuestionType ==
    [tenant: Tenant, subject: Subject \cup {Blank}, purpose: Purpose \cup {Blank},
     channel: Channel, as_of: Instant]

SnapshotType ==
    [tenant: Tenant, subject: Subject \cup {Blank}, records: SUBSET RecordRow,
     preferences: SUBSET PreferenceRow, suppressions: SUBSET SuppressionRow,
     caps: SUBSET CapRow]

DecisionTypeOK ==
    /\ WritesTypeOK
    /\ \A t \in Thread :
          /\ pc[t] \in WriteSteps \cup DecisionSteps \cup {"idle"}
          /\ pc[t] \in DecisionSteps => who[t] \in Principal /\ question[t] \in QuestionType
          /\ view[t] \in SnapshotType \cup {None}
          /\ tally[t] \in Nat
          /\ outcome[t] \in [allowed: BOOLEAN, rules: RuleOutcomes] \cup {None}
          /\ permitting[t] \subseteq RuleOutcomes
          /\ onFile[t] \subseteq Facts
          /\ uncounted[t] \subseteq Id

-----------------------------------------------------------------------------
Init ==
    /\ WritesInit
    /\ question = [t \in Thread |-> None]
    /\ view = [t \in Thread |-> None]
    /\ tally = [t \in Thread |-> 0]
    /\ outcome = [t \in Thread |-> None]
    /\ permitting = [t \in Thread |-> {}]
    /\ onFile = [t \in Thread |-> {}]
    /\ uncounted = [t \in Thread |-> {}]
    /\ adapter \in Adapters

\* The rule outcomes under which the store permits thread t's contact now.
PermittedNow(t) ==
    LET q == question[t]
        snap == Snapshot(q.tenant, q.subject)
    IN  {rules \in RuleOutcomes :
            Allowed(q, snap, q.as_of, rules, SendsInWindow(q, snap.caps, q.as_of))}

\* The facts on file now that speak for it.
OnFileNow(t) ==
    LET q == question[t]
        snap == Snapshot(q.tenant, q.subject)
        denied == SuppressionReasons(q, snap.suppressions, q.as_of)
                  \cup CapReasons(q, snap.caps, SendsInWindow(q, snap.caps, q.as_of))
    IN  {f \in Facts :
            CASE f = "consent"        -> Granted(q.purpose, snap.records, q.as_of)
              [] f = "opt_in"         -> "channel_opted_in" \in PreferenceReasons(q, snap.preferences)
              [] f = "not_suppressed" -> "suppressed" \notin denied
              [] f = "under_cap"      -> "frequency_cap_exceeded" \notin denied}

BeginDecision(t, p, q, asOf) ==
    /\ Begin(t, p, "read_records", None)
    /\ question' = [question EXCEPT ![t] =
          [tenant |-> TenantOf[p], subject |-> q.subject, purpose |-> q.purpose,
           channel |-> q.channel, as_of |-> IF asOf = None THEN now ELSE asOf]]
    /\ view' = [view EXCEPT ![t] = None]
    /\ tally' = [tally EXCEPT ![t] = 0]
    /\ outcome' = [outcome EXCEPT ![t] = None]
    /\ UNCHANGED approved

ReadStep(t, step, next, snap) ==
    /\ pc[t] = step
    /\ view' = [view EXCEPT ![t] = snap]
    /\ pc' = [pc EXCEPT ![t] = next]
    /\ UNCHANGED <<tables, now, calls, who, write, audit, console, approved,
                   question, tally, outcome>>

\* LocalConsentStoreAdapter.snapshot, with the lock held throughout.
ReadSnapshot(t) ==
    /\ adapter = "local"
    /\ ReadStep(t, "read_records", "count_sends",
                Snapshot(question[t].tenant, question[t].subject))

\* mutant: the suppressions are left out of the picture
ReadCollectionUnsuppressed(t) ==
    /\ adapter = "firestore"
    /\ LET snap == Snapshot(question[t].tenant, question[t].subject)
       IN  \/ ReadStep(t, "read_records", "read_preferences",
                       [snap EXCEPT !.preferences = {}, !.suppressions = {}, !.caps = {}])
           \/ ReadStep(t, "read_preferences", "read_caps",
                       [view[t] EXCEPT !.preferences = snap.preferences])
           \/ ReadStep(t, "read_caps", "count_sends", [view[t] EXCEPT !.caps = snap.caps])

\* FirestoreConsentStoreAdapter.snapshot: one query per collection.
ReadCollection(t) ==
    /\ adapter = "firestore"
    /\ LET snap == Snapshot(question[t].tenant, question[t].subject)
       IN  \/ ReadStep(t, "read_records", "read_preferences",
                       [snap EXCEPT !.preferences = {}, !.suppressions = {}, !.caps = {}])
           \/ ReadStep(t, "read_preferences", "read_suppressions",
                       [view[t] EXCEPT !.preferences = snap.preferences])
           \/ ReadStep(t, "read_suppressions", "read_caps",
                       [view[t] EXCEPT !.suppressions = snap.suppressions])
           \/ ReadStep(t, "read_caps", "count_sends", [view[t] EXCEPT !.caps = snap.caps])

\* mutant: the sends are counted from as_of on, not from the start of the window
CountWindowFromNow(t) ==
    /\ pc[t] = "count_sends"
    /\ tally' = [tally EXCEPT ![t] =
          IF ApplicableCaps(question[t], view[t].caps) = {} THEN 0
          ELSE Cardinality(SentSince(question[t], question[t].as_of))]
    /\ pc' = [pc EXCEPT ![t] = "judge"]
    /\ UNCHANGED <<tables, now, calls, who, write, audit, console, approved,
                   question, view, outcome>>

\* The window is the one of the cap the snapshot holds.
CountWindow(t) ==
    /\ pc[t] = "count_sends"
    /\ tally' = [tally EXCEPT ![t] =
          SendsInWindow(question[t], view[t].caps, question[t].as_of)]
    /\ pc' = [pc EXCEPT ![t] = "judge"]
    /\ UNCHANGED <<tables, now, calls, who, write, audit, console, approved,
                   question, view, outcome>>

Decided(t, rules) == Allowed(question[t], view[t], question[t].as_of, rules, tally[t])

\* The decision is pure, so it is made where it is audited; it is returned
\* only if the audit write succeeds.
Judge(t) ==
    /\ pc[t] = "judge"
    /\ \/ \E rules \in RuleOutcomes :
             /\ outcome' = [outcome EXCEPT ![t] =
                               [allowed |-> Decided(t, rules), rules |-> rules]]
             /\ audit' = audit \cup
                   {[action |-> "consent_decision", actor |-> who[t], id |-> None,
                     status |-> IF Decided(t, rules) THEN "allowed" ELSE "blocked"]}
       \/ UNCHANGED <<outcome, audit>>
    /\ Return(t)
    /\ UNCHANGED <<tables, now, calls, console, approved, question, view, tally>>

\* The store raises in one of the reads: there is no decision.
ReadFails(t) ==
    /\ pc[t] \in DecisionSteps \ {"judge"}
    /\ Return(t)
    /\ UNCHANGED <<tables, now, calls, audit, console, approved,
                   question, view, tally, outcome>>

Decide(t) ==
    \/ \E p \in Principal, q \in Questions, asOf \in AsOfs : BeginDecision(t, p, q, asOf)
    \/ ReadSnapshot(t)
    \/ ReadCollection(t)
    \/ CountWindow(t)
    \/ Judge(t)
    \/ ReadFails(t)

\* History: what was so at some instant since t's decision began.
Since(t, before, current) ==
    IF pc'[t] \notin DecisionSteps THEN before
    ELSE IF pc[t] = "idle" THEN current
    ELSE before \cup current

\* The sends against the cap t has read, which t is yet to count.
Countable(t) ==
    IF pc[t] = "count_sends"
    THEN SentInWindow(question[t], view[t].caps, question[t].as_of) ELSE {}

\* Of these, what a step takes out of the count: another send put under the id.
Uncounted(t) == IF pc'[t] = "count_sends" THEN Countable(t) \ Countable(t)' ELSE {}

Next ==
    /\ \/ \E t \in Thread : Decide(t)
       \/ WriteNext /\ UNCHANGED <<question, view, tally, outcome>>
    /\ UNCHANGED adapter
    /\ permitting' = [t \in Thread |-> Since(t, permitting[t], PermittedNow(t)')]
    /\ onFile' = [t \in Thread |-> Since(t, onFile[t], OnFileNow(t)')]
    /\ uncounted' = [t \in Thread |-> Since(t, uncounted[t], Uncounted(t))]

Spec == Init /\ [][Next]_allVars

-----------------------------------------------------------------------------
(* Properties.                                                             *)

AllowedBy(t) == outcome[t] # None /\ outcome[t].allowed

\* A contact is allowed only if it was permitted: at some one instant between
\* the start of the decision and its end, everything then on file permitted
\* it.  The snapshot and the send count are read at different instants, with
\* withdrawals, opt-outs, suppressions, caps and sends landing between them.
\* ConsentSnapshot gives the reason: "a withdrawal landing between two reads
\* could be missed".
AllowedWasPermitted ==
    \A t \in Thread : AllowedBy(t) => outcome[t].rules \in permitting[t]

\* The local store's snapshot keeps that promise, though the sends are counted
\* later, as long as a send's id is its "idempotency key" (schemas.py): a send
\* put under the id of another may take that one out of a count.
LocalAllowedWasPermitted ==
    adapter = "local" =>
        \A t \in Thread : AllowedBy(t) /\ uncounted[t] = {} => outcome[t].rules \in permitting[t]

\* With either store, whatever writes its reads straddle, an allowed contact
\* rests on facts that were each on file at some instant while it was being
\* decided: consent, the opt-in, no suppression and, unless a send lost its id
\* to another meanwhile, room under the cap.
EachFactWasOnFile ==
    \A t \in Thread : AllowedBy(t) =>
        Facts \ onFile[t] \subseteq (IF uncounted[t] = {} THEN {} ELSE {"under_cap"})
=============================================================================
