---------------------------- MODULE ManagedStore ----------------------------
(***************************************************************************)
(* The managed consent store, one Firestore database of documents set by   *)
(* id, while scripts/load_consent_seed.py loads the demo seed into it: the *)
(* guard that lets a load overwrite, the puts one document at a time, the  *)
(* manifest last; several operators, crashes and repeated loads; and the   *)
(* service that writes and decides all the while.                          *)
(*                                                                         *)
(* A decision reads one instant of the store here (ConsentDecisions reads  *)
(* it query by query).                                                     *)
(***************************************************************************)
EXTENDS DemoSeed

CONSTANTS Operator,    \* the runs of the loader
          Customers,   \* the tenants the identity adapter resolves
          Subjects,    \* bound: the seeded subjects whose rows are kept
          Channels,    \* bound: the channels whose rows are kept
          Heard,       \* bound: the subjects the service is told something about
          Now,         \* the day of the first write of the service
          MaxWrites,   \* bound: writes of the service and of imports
          MaxDeaths    \* bound: loads that are cut off

Tables == {"records", "preferences", "suppressions", "caps"}

ASSUME KeptAssumption ==
    /\ Subjects \subseteq DemoSubjects \cup OtherSubjects
    /\ Heard \subseteq Subjects
    /\ "email" \in Channels

ASSUME BoundAssumption == MaxWrites \in Nat /\ MaxDeaths \in Nat

\* Every decision is of a day the seed is documented for.
ASSUME NowAssumption == Now \in Nat /\ Now..Now + MaxWrites \subseteq Documented

\* A tenant of the managed store: a customer, or its neighbour "<customer>-other".
Tenant == [name : Customers, other : BOOLEAN]
Own(c) == [name |-> c, other |-> FALSE]

ASSUME CustomersAssumption == None \notin Customers /\ Blank \notin Customers \cup Tenant

\* mutant: the second tenant is folded in
RetenantTogether(row, c) == [row EXCEPT !.tenant = Own(c)]

Retenant(row, c) ==
    [row EXCEPT !.tenant = [name |-> c, other |-> row.tenant = TenantOf(201)]]

\* The documents of a load, at their places in the order they are written.
Kept ==
    {k \in DOMAIN ConsentPuts :
        LET d == ConsentPuts[k]
        IN  /\ d.table # "caps" => d.row.subject \in Subjects
            /\ d.table \in {"preferences", "caps"} => d.row.channel \in Channels}

RowsFor ==
    [c \in Customers |->
        [k \in Kept |-> [table |-> ConsentPuts[k].table, row |-> Retenant(ConsentPuts[k].row, c)]]]

First == {k \in Kept : \A j \in Kept : k <= j}
After(k) == {j \in Kept : j > k /\ \A i \in Kept : i > k => j <= i}

-----------------------------------------------------------------------------
VARIABLES
    docs,      \* the documents: [table, row], at most one of a table and id
    manifest,  \* the customer the manifest names, or None
    pc, tenant, nth,   \* of each loader: step, --tenant, next document
    writes, deaths,    \* bounds
    refused,   \* history: <<customer, subject>> the service was told to leave alone
    rewritten, \* history: seeded subjects whose rows the service wrote over
    mixed,     \* history: customers whose rows an unfinished load may have left
    clean      \* history: of each loader, no other customer's load has put since its guard

loader == <<pc, tenant, nth>>
history == <<refused, rewritten, mixed, clean>>
vars == <<docs, manifest, loader, writes, deaths, history>>

ManagedTypeOK ==
    /\ \A d \in docs : d.table \in Tables /\ d.row.tenant \in Tenant
    /\ \A d, e \in docs : d.table = e.table /\ d.row.id = e.row.id => d = e
    /\ manifest \in Customers \cup {None}
    /\ pc \in [Operator -> {"ready", "put", "manifest"}]
    /\ tenant \in [Operator -> Customers \cup {Blank}] /\ nth \in [Operator -> Nat]
    /\ \A o \in Operator :
          /\ pc[o] \in {"put", "manifest"} => tenant[o] \in Customers
          /\ nth[o] \in (IF pc[o] = "put" THEN Kept ELSE {0})
    /\ writes \in 0..MaxWrites /\ deaths \in 0..MaxDeaths
    /\ refused \subseteq Customers \X Subjects
    /\ rewritten \subseteq Subjects /\ mixed \subseteq Customers
    /\ clean \in [Operator -> BOOLEAN]

Init ==
    /\ docs = {} /\ manifest = None
    /\ pc = [o \in Operator |-> "ready"]
    /\ tenant = [o \in Operator |-> Blank]
    /\ nth = [o \in Operator |-> 0]
    /\ writes = 0 /\ deaths = 0
    /\ refused = {} /\ rewritten = {} /\ mixed = {}
    /\ clean = [o \in Operator |-> TRUE]

\* mutant: collection.add(...), under an id Firestore picks
AddDocument(d) == docs' = docs \cup {d}

\* document(id).set(...): the whole document, whoever wrote the one before.
SetDocument(d) ==
    docs' = {e \in docs : e.table # d.table \/ e.row.id # d.row.id} \cup {d}

-----------------------------------------------------------------------------
(* The loader.                                                             *)

\* Empty as far as records and preferences go, or declared fictional (the
\* loader, which alone writes the manifest, never declares anything else).
MayOverwrite ==
    \/ manifest # None
    \/ ~\E d \in docs : d.table \in {"records", "preferences"}

\* main up to the first put: a dry run, a placeholder project, a blank --tenant
\* and a store that may not be overwritten end it here, with nothing written.
Start(o) ==
    /\ pc[o] = "ready"
    /\ \E c \in Customers \cup {Blank}, dryRun, project \in BOOLEAN :
          /\ c # Blank /\ ~dryRun /\ project /\ MayOverwrite
          /\ tenant' = [tenant EXCEPT ![o] = c]
    /\ pc' = [pc EXCEPT ![o] = "put"]
    /\ \E k \in First : nth' = [nth EXCEPT ![o] = k]
    /\ clean' = [clean EXCEPT ![o] = TRUE]
    /\ UNCHANGED <<docs, manifest, writes, deaths, refused, rewritten, mixed>>

\* On to the next document, and to the manifest behind the last.
Advance(o) ==
    \/ /\ After(nth[o]) = {}
       /\ pc' = [pc EXCEPT ![o] = "manifest"]
       /\ nth' = [nth EXCEPT ![o] = 0]
    \/ /\ pc' = [pc EXCEPT ![o] = "put"]
       /\ \E k \in After(nth[o]) : nth' = [nth EXCEPT ![o] = k]

\* What a put by o says about the loads under way.
Noted(o) ==
    /\ mixed' = mixed \cup {tenant[o]}
    /\ clean' = [p \in Operator |-> clean[p] /\ (tenant[p] \in {tenant[o], Blank})]

\* mutant: like the local stores' seed(), the first put of a load replaces the contents
PutReplacing(o) ==
    /\ pc[o] = "put"
    /\ LET d == RowsFor[tenant[o]][nth[o]]
       IN  docs' = (IF nth[o] \in First THEN {} ELSE {e \in docs : e.table # d.table \/ e.row.id # d.row.id}) \cup {d}
    /\ Advance(o) /\ Noted(o)
    /\ UNCHANGED <<manifest, tenant, writes, deaths, refused, rewritten>>

Put(o) ==
    /\ pc[o] = "put"
    /\ SetDocument(RowsFor[tenant[o]][nth[o]])
    /\ Advance(o) /\ Noted(o)
    /\ UNCHANGED <<manifest, tenant, writes, deaths, refused, rewritten>>

\* The run is over; the operator may begin another.
End(o) ==
    /\ pc' = [pc EXCEPT ![o] = "ready"]
    /\ tenant' = [tenant EXCEPT ![o] = Blank]
    /\ nth' = [nth EXCEPT ![o] = 0]
    /\ clean' = [clean EXCEPT ![o] = TRUE]

Declare(o) ==
    /\ pc[o] = "manifest"
    /\ manifest' = tenant[o]
    /\ mixed' = IF clean[o] THEN {tenant[o]} ELSE mixed
    /\ End(o)
    /\ UNCHANGED <<docs, writes, deaths, refused, rewritten>>

\* The process dies, or a put raises: what was put stays.
CutOff(o) ==
    /\ deaths < MaxDeaths
    /\ pc[o] \in {"put", "manifest"}
    /\ deaths' = deaths + 1
    /\ End(o)
    /\ UNCHANGED <<docs, manifest, writes, refused, rewritten, mixed>>

-----------------------------------------------------------------------------
(* The service, and whoever else writes the collections.                   *)

\* Each write takes a day, and a fresh id where the code draws one.
Today == Now + writes
FreshId == 1000 + writes

\* A statement of subject s under a customer's tenant.
Said(c, s, i, status) ==
    [table |-> "records", row |-> [Statement(s, status, None, None, Today)
                                      EXCEPT !.id = i, !.tenant = Own(c)]]

Stop(c, s) ==
    [table |-> "suppressions", row |-> [DoNotContact(FreshId, s, Today) EXCEPT !.tenant = Own(c)]]

Writing(d) ==
    /\ writes < MaxWrites
    /\ SetDocument(d)
    /\ writes' = writes + 1
    /\ UNCHANGED <<manifest, loader, deaths, mixed, clean>>

\* The subject is to be left alone: a withdrawal or a suppression under an id
\* of its own, or an imported record with a status outside the vocabulary.
Refuse(c, s) ==
    /\ \/ Writing(Said(c, s, FreshId, "withdrawn"))
       \/ Writing(Said(c, s, FreshId, "paused"))
       \/ Writing(Stop(c, s))
    /\ refused' = refused \cup {<<c, s>>}
    /\ UNCHANGED rewritten

\* What no later consent outweighs: a suppression the service was given, or a
\* record no decision can read.
Barred(c, s) ==
    \E d \in docs :
        /\ d.row.id >= 1000 /\ d.row.tenant = Own(c) /\ d.row.subject = s
        /\ d.table = "suppressions" \/ (d.table = "records" /\ d.row.status = "paused")

\* A withdrawal or a confirmation under the id of the seeded record.  Who
\* consents again, and is not barred, no longer asks to be left alone.
Rewrite(c, s) ==
    /\ \/ Writing(Said(c, s, s, "withdrawn")) /\ UNCHANGED refused
       \/ /\ Writing(Said(c, s, s, "granted"))
          /\ refused' = IF Barred(c, s) THEN refused ELSE refused \ {<<c, s>>}
    /\ rewritten' = rewritten \cup {s}

Next ==
    \/ \E o \in Operator :
          Start(o) \/ Put(o) \/ Declare(o) \/ CutOff(o)
    \/ \E c \in Customers, s \in Heard : Refuse(c, s) \/ Rewrite(c, s)

Spec == Init /\ [][Next]_vars

-----------------------------------------------------------------------------
(* The decision.                                                           *)

Of(t, s, table) == {d.row : d \in {e \in docs : /\ e.table = table /\ e.row.tenant = t
                                                /\ table # "caps" => e.row.subject = s}}

\* The statuses _to_record knows.
Vocabulary == {"granted", "withdrawn", "pending_review", "unknown"}

\* mutant: a row nobody modelled is left out of the snapshot
SkipUnmodelled(rows) == {r \in rows : r.status \in Vocabulary}

Readable(rows) == rows

\* decide() about marketing by e-mail; ConsentStatus(...) raises on a status
\* it does not know, and the whole decision with it.
Contactable(t, s) ==
    LET snap == [tenant |-> t, subject |-> s, records |-> Readable(Of(t, s, "records")),
                 preferences |-> Of(t, s, "preferences"),
                 suppressions |-> Of(t, s, "suppressions"), caps |-> Of(t, s, "caps")]
    IN  /\ \A r \in snap.records : r.status \in Vocabulary
        /\ Allowed([tenant |-> t, subject |-> s, purpose |-> Marketing, channel |-> "email"],
                   snap, Today, {}, 0)

-----------------------------------------------------------------------------
(* The properties.                                                         *)

\* Once the manifest names a customer, each seeded subject is as contactable
\* as _consent_seed.py says, under that customer and nowhere else: whatever loads were
\* repeated, raced for the same customer or cut off, unless loads for
\* different customers mixed or the service wrote over the subject's record.
ContactsFollowTheManifest ==
    manifest # None /\ mixed \subseteq {manifest} =>
        \A t \in Tenant, s \in Subjects \ rewritten :
            (<<t.name, s>> \notin refused \/ t.other) =>
                (Contactable(t, s) <=>
                    t = [name |-> manifest, other |-> s = 201] /\ s \in {101, 201})

\* A subject the service was told to leave alone stays so under that customer,
\* a withdrawal until they consent again, a suppression whatever they say: no
\* load, in any race or crash, brings the seeded grant back, and a status nobody
\* modelled never lets an older grant speak.
RefusalsSurviveLoads == \A r \in refused : ~Contactable(Own(r[1]), r[2])
=============================================================================
