---------------------------- MODULE ConsentStore ----------------------------
(***************************************************************************)
(* The consent store behind ConsentStorePort: one table per kind of row,   *)
(* keyed by the row's id ALONE, every put an INSERT OR REPLACE (SQLite) or *)
(* a document set (Firestore), and the two reads a decision makes.  Only   *)
(* the ids, the columns a decision reads and the columns the grant gate    *)
(* reads are kept: notes and suppression reasons are left out.             *)
(***************************************************************************)
EXTENDS ConsentEngine

CONSTANTS Id,           \* row ids, compared as the code compares id strings
          Tenant, Subject, Purpose, Channel,
          Text,         \* what a source or an evidence_ref may say, or Blank
          Offset,       \* the UTC offsets a caller may write sent_at in
          SeedRecords, SeedPreferences, SeedSuppressions, SeedCaps

Status  == {"granted", "withdrawn", "pending_review", "unknown"}
Basis   == {"explicit_opt_in", "soft_opt_in", "contractual", "legitimate_interest"}
Scope   == {"all", "channel", "purpose"}

RecordRow ==
    [id: Id, tenant: Tenant, subject: Subject, purpose: Purpose,
     status: Status, basis: Basis, source: Text \cup {Blank},
     proof: Text \cup {Blank}, from: Moment, until: Moment, at: Instant]

PreferenceRow ==
    [id: Id, tenant: Tenant, subject: Subject, channel: Channel,
     opted_in: BOOLEAN, at: Instant]

SuppressionRow ==
    [id: Id, tenant: Tenant, subject: Subject, scope: Scope,
     channel: Channel \cup {None}, purpose: Purpose \cup {Blank},
     from: Moment, until: Moment]

CapRow ==
    [id: Id, tenant: Tenant, channel: Channel, max: Nat, window: Nat \ {0},
     purpose: Purpose \cup {Blank}]

SendRow ==
    [id: Id, tenant: Tenant, subject: Subject, channel: Channel,
     at: Instant, offset: Offset]

\* A stored row, or a row about to be stored, that may take effect as a grant.
SelfEvidencing(r) ==
    /\ r.basis \in {"explicit_opt_in", "soft_opt_in"}
    /\ r.source # Blank
    /\ r.proof # Blank

\* Every row of _consent_seed.py and of the seed's four tables is well formed,
\* and each seeded grant is an evidenced opt-in.
ASSUME SeedAssumption ==
    /\ SeedRecords \in [Id -> RecordRow \cup {None}]
    /\ SeedPreferences \in [Id -> PreferenceRow \cup {None}]
    /\ SeedSuppressions \in [Id -> SuppressionRow \cup {None}]
    /\ SeedCaps \in [Id -> CapRow \cup {None}]
    /\ \A i \in Id : SeedRecords[i] # None =>
          /\ SeedRecords[i].id = i
          /\ SeedRecords[i].status = "granted" => SelfEvidencing(SeedRecords[i])

\* A seeded row, too, is kept under its own id.
ASSUME SeedKeysAssumption ==
    \A table \in {SeedRecords, SeedPreferences, SeedSuppressions, SeedCaps} :
        \A i \in Id : table[i] # None => table[i].id = i

\* Ids stand for the strings the code orders rows by.
ASSUME IdAssumption == Id \subseteq Nat

\* None stands for no row at all.
ASSUME NoneIsNoRow ==
    None \notin RecordRow \cup PreferenceRow \cup SuppressionRow \cup CapRow \cup SendRow

-----------------------------------------------------------------------------
VARIABLES records, preferences, suppressions, caps, sends

tables == <<records, preferences, suppressions, caps, sends>>

StoreTypeOK ==
    /\ records \in [Id -> RecordRow \cup {None}]
    /\ preferences \in [Id -> PreferenceRow \cup {None}]
    /\ suppressions \in [Id -> SuppressionRow \cup {None}]
    /\ caps \in [Id -> CapRow \cup {None}]
    /\ sends \in [Id -> SendRow \cup {None}]

\* An empty store seeds itself with the demo rows; it records no send.
StoreInit ==
    /\ records = SeedRecords
    /\ preferences = SeedPreferences
    /\ suppressions = SeedSuppressions
    /\ caps = SeedCaps
    /\ sends = [i \in Id |-> None]

-----------------------------------------------------------------------------
(* The writes.                                                             *)

PutRecord(r) ==
    /\ records' = [records EXCEPT ![r.id] = r]
    /\ UNCHANGED <<preferences, suppressions, caps, sends>>

PutPreference(p) ==
    /\ preferences' = [preferences EXCEPT ![p.id] = p]
    /\ UNCHANGED <<records, suppressions, caps, sends>>

\* mutant: the text column's "" is read back as a channel
PutSuppressionBlankChannel(e) ==
    /\ suppressions' = [suppressions EXCEPT ![e.id] =
                          IF e.channel = None THEN [e EXCEPT !.channel = Blank] ELSE e]
    /\ UNCHANGED <<records, preferences, caps, sends>>

PutSuppression(e) ==
    /\ suppressions' = [suppressions EXCEPT ![e.id] = e]
    /\ UNCHANGED <<records, preferences, caps, sends>>

PutCap(c) ==
    /\ caps' = [caps EXCEPT ![c.id] = c]
    /\ UNCHANGED <<records, preferences, suppressions, sends>>

RecordSend(s) ==
    /\ sends' = [sends EXCEPT ![s.id] = s]
    /\ UNCHANGED <<records, preferences, suppressions, caps>>

-----------------------------------------------------------------------------
(* The reads.  An unresolved tenant or subject reads nothing.              *)

Stored(table) == {table[i] : i \in Id} \ {None}

OfSubject(table, tenant, subject) ==
    IF tenant = Blank \/ subject = Blank THEN {}
    ELSE {r \in Stored(table) : r.tenant = tenant /\ r.subject = subject}

CapsOf(tenant, subject) ==
    IF tenant = Blank \/ subject = Blank THEN {}
    ELSE {c \in Stored(caps) : c.tenant = tenant}

Snapshot(tenant, subject) ==
    [tenant |-> tenant, subject |-> subject,
     records      |-> OfSubject(records, tenant, subject),
     preferences  |-> OfSubject(preferences, tenant, subject),
     suppressions |-> OfSubject(suppressions, tenant, subject),
     caps         |-> CapsOf(tenant, subject)]

\* The ids of the sends a count is of.  sent_at and the start of the window are
\* compared as ISO-8601 text, so as the wall-clock digits they were written with:
\* what a caller's UTC offset adds to sent_at counts.
SentSince(q, since) ==
    {i \in Id : /\ sends[i] \in OfSubject(sends, q.tenant, q.subject)
                /\ sends[i].channel = q.channel
                /\ sends[i].at + sends[i].offset >= since}

\* The sends that count against the cap the engine would select, none without one.
SentInWindow(q, capRows, t) ==
    IF ApplicableCaps(q, capRows) = {} THEN {}
    ELSE LET cap == CHOOSE c \in SelectedCap(q, capRows) : TRUE
         IN  SentSince(q, t - cap.window)

SendsInWindow(q, capRows, t) == Cardinality(SentInWindow(q, capRows, t))
=============================================================================
