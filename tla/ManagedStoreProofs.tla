------------------------- MODULE ManagedStoreProofs -------------------------
(***************************************************************************)
(* What the managed store holds while loads of the demo seed race, are cut *)
(* off and are repeated and the service writes, for any operators,         *)
(* customers and subjects and any number of writes and of deaths, proved   *)
(* of ManagedStore.                                                        *)
(*                                                                         *)
(* No property is inductive: the invariant follows each document from the  *)
(* load or the write that set it, and each load from its guard to its      *)
(* manifest.                                                               *)
(***************************************************************************)
EXTENDS ManagedStore, SeedProofs

-----------------------------------------------------------------------------
(* The documents of a load.                                                *)

\* The columns of a statement, an opt-in, a suppression and an allowance.
LEMMA SeededColumns ==
    /\ \A r \in Seeded("records") :
          DOMAIN r = {"id", "tenant", "subject", "purpose", "status", "from", "until", "at"}
    /\ \A r \in Seeded("preferences") :
          DOMAIN r = {"id", "tenant", "subject", "channel", "opted_in", "at"}
    /\ \A r \in Seeded("suppressions") :
          DOMAIN r = {"id", "tenant", "subject", "scope", "channel", "purpose", "from", "until"}
    /\ \A r \in Seeded("caps") :
          DOMAIN r = {"id", "tenant", "channel", "max", "purpose"}
<1>1. ASSUME NEW r \in Seeded("records")
      PROVE  DOMAIN r = {"id", "tenant", "subject", "purpose", "status", "from", "until", "at"}
  <2> DEFINE r1 == Statement(101, "granted", At(2026, 1, 5), At(2030, 1, 5), At(2026, 1, 5))
             r2 == Statement(102, "withdrawn", None, None, At(2026, 4, 2))
             r3 == Statement(103, "granted", At(2024, 6, 30), At(2025, 6, 30), At(2024, 6, 30))
             r4 == Statement(104, "granted", At(2026, 2, 1), At(2030, 2, 1), At(2026, 2, 1))
             r5 == Statement(105, "granted", At(2026, 3, 3), At(2030, 3, 3), At(2026, 3, 3))
             r6 == Statement(106, "pending_review", None, None, At(2026, 7, 20))
             r7 == Statement(201, "granted", At(2026, 1, 9), At(2030, 1, 9), At(2026, 1, 9))
             columns == {"id", "tenant", "subject", "purpose", "status", "from", "until", "at"}
  <2>1. ASSUME NEW u, NEW st, NEW f, NEW g, NEW a
        PROVE  DOMAIN Statement(u, st, f, g, a) = columns
    BY DEF Statement
  <2>2. /\ DOMAIN r1 = columns /\ DOMAIN r2 = columns /\ DOMAIN r3 = columns /\ DOMAIN r4 = columns
        /\ DOMAIN r5 = columns /\ DOMAIN r6 = columns /\ DOMAIN r7 = columns
    BY <2>1
  <2>3. SEED_RECORDS = <<r1, r2, r3, r4, r5, r6, r7>>
    BY DEF SEED_RECORDS
  <2> HIDE DEF r1, r2, r3, r4, r5, r6, r7, columns
  <2>4. Seeded("records") = {r1, r2, r3, r4, r5, r6, r7}
    BY <2>3, SevenInARow DEF Seeded
  <2>5. DOMAIN r = columns
    BY <2>2, <2>4
  <2> QED
    BY <2>5 DEF columns
<1>2. ASSUME NEW r \in Seeded("preferences")
      PROVE  DOMAIN r = {"id", "tenant", "subject", "channel", "opted_in", "at"}
  <2> DEFINE p1 == Choice(1, 101, "email", TRUE, At(2026, 1, 5))
             p2 == Choice(2, 101, "sms", FALSE, At(2026, 1, 5))
             p3 == Choice(3, 102, "email", TRUE, At(2026, 1, 6))
             p4 == Choice(4, 103, "email", TRUE, At(2024, 6, 30))
             p5 == Choice(5, 104, "email", TRUE, At(2026, 2, 1))
             p6 == Choice(6, 106, "email", TRUE, At(2026, 7, 20))
             p7 == Choice(7, 201, "email", TRUE, At(2026, 1, 9))
             columns == {"id", "tenant", "subject", "channel", "opted_in", "at"}
  <2>2. /\ DOMAIN p1 = columns /\ DOMAIN p2 = columns /\ DOMAIN p3 = columns /\ DOMAIN p4 = columns
        /\ DOMAIN p5 = columns /\ DOMAIN p6 = columns /\ DOMAIN p7 = columns
    BY DEF Choice
  <2>3. SEED_PREFERENCES = <<p1, p2, p3, p4, p5, p6, p7>>
    BY DEF SEED_PREFERENCES
  <2> HIDE DEF p1, p2, p3, p4, p5, p6, p7, columns
  <2>4. Seeded("preferences") = {p1, p2, p3, p4, p5, p6, p7}
    BY <2>3, SevenInARow DEF Seeded
  <2>5. DOMAIN r = columns
    BY <2>2, <2>4
  <2> QED
    BY <2>5 DEF columns
<1>3. ASSUME NEW r \in Seeded("suppressions")
      PROVE  DOMAIN r = {"id", "tenant", "subject", "scope", "channel", "purpose", "from", "until"}
  BY SeededLimits DEF DoNotContact
<1>4. ASSUME NEW r \in Seeded("caps")
      PROVE  DOMAIN r = {"id", "tenant", "channel", "max", "purpose"}
  <2>1. Seeded("caps") = {Limit(1, "demo-brand", "email", 3), Limit(2, "demo-brand", "sms", 1),
                          Limit(3, "other-brand", "email", 2)}
    BY SMT DEF Seeded, SEED_CAPS, Range
  <2> QED
    BY <2>1 DEF Limit
<1> QED
  BY <1>1, <1>2, <1>3, <1>4

\* Under a customer a seeded row changes its tenant and nothing else.
LEMMA RetenantKeeps ==
    ASSUME NEW t \in ConsentTable, NEW r \in Seeded(t), NEW c
    PROVE
    LET n == Retenant(r, c)
    IN  /\ n.id = r.id
        /\ t # "caps" => n.subject = r.subject
        /\ t = "records" => /\ n.purpose = r.purpose /\ n.status = r.status /\ n.at = r.at
                            /\ n.from = r.from /\ n.until = r.until
        /\ t = "preferences" => n.channel = r.channel /\ n.opted_in = r.opted_in
        /\ t = "suppressions" => /\ n.scope = r.scope /\ n.channel = r.channel
                                 /\ n.purpose = r.purpose /\ n.from = r.from /\ n.until = r.until
        /\ t = "caps" => n.max = r.max
<1> DEFINE n == Retenant(r, c)
<1>1. n = [r EXCEPT !.tenant = [name |-> c, other |-> r.tenant = TenantOf(201)]]
  BY DEF Retenant
<1> HIDE DEF n
<1>2. DOMAIN n = DOMAIN r /\ \A f \in DOMAIN r : f # "tenant" => n[f] = r[f]
  BY <1>1
<1>3. {"id", "tenant"} \subseteq DOMAIN r
  BY SeededColumns DEF ConsentTable
<1>5. t # "caps" => "subject" \in DOMAIN r
  BY SeededColumns DEF ConsentTable
<1>6. t = "records" => {"purpose", "status", "at", "from", "until"} \subseteq DOMAIN r
  BY SeededColumns
<1>7. t = "preferences" => {"channel", "opted_in"} \subseteq DOMAIN r
  BY SeededColumns
<1>8. t = "suppressions" => {"scope", "channel", "purpose", "from", "until"} \subseteq DOMAIN r
  BY SeededColumns
<1>9. t = "caps" => "max" \in DOMAIN r
  BY SeededColumns
<1>10. n.id = r.id /\ (t # "caps" => n.subject = r.subject)
  BY <1>2, <1>3, <1>5
<1>11. t = "records" => /\ n.purpose = r.purpose /\ n.status = r.status /\ n.at = r.at
                        /\ n.from = r.from /\ n.until = r.until
  BY <1>2, <1>6
<1>12. t = "suppressions" => /\ n.scope = r.scope /\ n.channel = r.channel
                             /\ n.purpose = r.purpose /\ n.from = r.from /\ n.until = r.until
  BY <1>2, <1>8
<1>13. /\ t = "preferences" => n.channel = r.channel /\ n.opted_in = r.opted_in
       /\ t = "caps" => n.max = r.max
  BY <1>2, <1>7, <1>9
<1> QED
  BY <1>10, <1>11, <1>12, <1>13 DEF n

LEMMA RetenantTo ==
    ASSUME NEW t \in ConsentTable, NEW r \in Seeded(t), NEW c
    PROVE  /\ Retenant(r, c).tenant = [name |-> c, other |-> r.tenant = TenantOf(201)]
           /\ Retenant(r, c).tenant.name = c
<1>1. "tenant" \in DOMAIN r
  BY SeededColumns DEF ConsentTable
<1>2. Retenant(r, c).tenant = [name |-> c, other |-> r.tenant = TenantOf(201)]
  BY <1>1 DEF Retenant
<1> QED
  BY <1>2

\* The document a load for c writes at place k is a row of the seed under c.
LEMMA RowsForIs ==
    ASSUME NEW c \in Customers, NEW k \in Kept
    PROVE  /\ ConsentPuts[k].table \in ConsentTable
           /\ ConsentPuts[k].row \in Seeded(ConsentPuts[k].table)
           /\ RowsFor[c][k].table = ConsentPuts[k].table
           /\ RowsFor[c][k].row = Retenant(ConsentPuts[k].row, c)
           /\ RowsFor[c][k] = [table |-> ConsentPuts[k].table, row |-> Retenant(ConsentPuts[k].row, c)]
<1>1. ConsentPuts[k] \in ConsentRows
  BY ConsentPutsAre DEF Kept, Range
<1>2. RowsFor[c][k] = [table |-> ConsentPuts[k].table, row |-> Retenant(ConsentPuts[k].row, c)]
  BY DEF RowsFor
<1> QED
  BY <1>1, <1>2, PutsAreRows

\* The places of a load come one after the other.
LEMMA PlaceByPlace ==
    /\ Kept \subseteq Nat
    /\ First \subseteq Kept /\ \A k \in First, j \in Kept : ~(j < k)
    /\ \A k \in Kept : /\ After(k) \subseteq Kept
                       /\ \A j \in After(k), i \in Kept : i < j => i < k \/ i = k
                       /\ After(k) = {} => \A i \in Kept : i < k \/ i = k
<1>1. Kept \subseteq Nat
  BY ConsentPutsAre DEF Kept
<1>2. \A k \in First, j \in Kept : ~(j < k)
  BY <1>1 DEF First
<1>3. ASSUME NEW k \in Kept, NEW j \in After(k), NEW i \in Kept, i < j PROVE i < k \/ i = k
  BY <1>1, <1>3 DEF After
<1>4. ASSUME NEW k \in Kept, After(k) = {}, NEW i \in Kept PROVE i < k \/ i = k
  <2> DEFINE later == {j \in Kept : j > k}
  <2>1. SUFFICES ASSUME ~(i < k \/ i = k) PROVE FALSE
    OBVIOUS
  <2>2. i \in later /\ later \subseteq Nat
    <3>1. i \in Nat /\ k \in Nat
      BY <1>1
    <3>2. i > k
      BY <2>1, <3>1
    <3> QED
      BY <1>1, <3>2
  <2>3. PICK m \in later : \A n \in later : m <= n
    <3> HIDE DEF later
    <3> QED
      BY <2>2, SmallestOf
  <2>4. m \in After(k)
    BY <2>3 DEF After
  <2> QED
    BY <1>4, <2>4
<1> QED
  BY <1>1, <1>2, <1>3, <1>4 DEF First, After

-----------------------------------------------------------------------------
(* Setting a document, and types.                                          *)

\* Two documents of a table with one id.
SameKey(d, e) == d.table = e.table /\ d.row.id = e.row.id

LEMMA SetDocumentDoes ==
    ASSUME NEW d, SetDocument(d)
    PROVE  \A e : e \in docs' <=> e = d \/ (e \in docs /\ ~SameKey(e, d))
BY DEF SetDocument, SameKey

LEMMA SetTyped ==
    ASSUME ManagedTypeOK, NEW d, d.table \in Tables, d.row.tenant \in Tenant, SetDocument(d)
    PROVE  /\ \A e \in docs' : e.table \in Tables /\ e.row.tenant \in Tenant
           /\ \A e, f \in docs' : e.table = f.table /\ e.row.id = f.row.id => e = f
<1>1. /\ \A e \in docs : e.table \in Tables /\ e.row.tenant \in Tenant
      /\ \A e, f \in docs : SameKey(e, f) => e = f
  BY DEF ManagedTypeOK, SameKey
<1>2. \A e, f \in docs' : SameKey(e, f) => e = f
  <2> SUFFICES ASSUME NEW e \in docs', NEW f \in docs', SameKey(e, f) PROVE e = f
    OBVIOUS
  <2>1. SameKey(f, e)
    BY DEF SameKey
  <2> QED
    BY <1>1, <2>1, SetDocumentDoes
<1> QED
  BY <1>1, <1>2, SetDocumentDoes DEF SameKey

\* What the service writes.
LEMMA SaidIs ==
    ASSUME NEW c, NEW s, NEW i, NEW st, NEW d, d = Said(c, s, i, st)
    PROVE  /\ d.table = "records" /\ d.row.id = i /\ d.row.tenant = Own(c) /\ d.row.subject = s
           /\ d.row.purpose = Marketing /\ d.row.status = st /\ d.row.at = Today
BY DEF Said, Statement

LEMMA StopIs ==
    ASSUME NEW c, NEW s, NEW d, d = Stop(c, s)
    PROVE  /\ d.table = "suppressions" /\ d.row.id = FreshId /\ d.row.tenant = Own(c)
           /\ d.row.subject = s /\ d.row.scope = "all" /\ d.row.from = Today /\ d.row.until = None
BY DEF Stop, DoNotContact

LEMMA TypeInit == Init => ManagedTypeOK
BY BoundAssumption DEF Init, ManagedTypeOK

\* What the loader's actions leave of a load.
LEMMA StartTyped ==
    ASSUME ManagedTypeOK, NEW o \in Operator, Start(o)
    PROVE  ManagedTypeOK'
<1>1. PICK c \in Customers : tenant' = [tenant EXCEPT ![o] = c]
  BY DEF Start
<1>2. PICK k \in Kept : nth' = [nth EXCEPT ![o] = k]
  BY PlaceByPlace DEF Start
<1>3. /\ pc' = [pc EXCEPT ![o] = "put"] /\ clean' = [clean EXCEPT ![o] = TRUE]
      /\ UNCHANGED <<docs, manifest, writes, deaths, refused, rewritten, mixed>>
  BY DEF Start
<1>4. k \in Nat
  BY PlaceByPlace
<1>5. /\ pc' \in [Operator -> {"ready", "put", "manifest"}] /\ clean' \in [Operator -> BOOLEAN]
      /\ tenant' \in [Operator -> Customers \cup {Blank}] /\ nth' \in [Operator -> Nat]
  BY <1>1, <1>2, <1>3, <1>4 DEF ManagedTypeOK
<1>6. ASSUME NEW p \in Operator
      PROVE  /\ pc'[p] \in {"put", "manifest"} => tenant'[p] \in Customers
             /\ nth'[p] \in (IF pc'[p] = "put" THEN Kept ELSE {0})
  BY <1>1, <1>2, <1>3 DEF ManagedTypeOK
<1> QED
  BY <1>3, <1>5, <1>6 DEF ManagedTypeOK

LEMMA EndTyped ==
    ASSUME ManagedTypeOK, NEW o \in Operator, End(o)
    PROVE  /\ pc' \in [Operator -> {"ready", "put", "manifest"}]
           /\ tenant' \in [Operator -> Customers \cup {Blank}]
           /\ \A p \in Operator :
                 /\ pc'[p] \in {"put", "manifest"} => tenant'[p] \in Customers
                 /\ nth'[p] \in (IF pc'[p] = "put" THEN Kept ELSE {0})
           /\ clean' \in [Operator -> BOOLEAN]
           /\ nth' \in [Operator -> Nat]
<1>1. /\ pc' \in [Operator -> {"ready", "put", "manifest"}] /\ clean' \in [Operator -> BOOLEAN]
      /\ tenant' \in [Operator -> Customers \cup {Blank}] /\ nth' \in [Operator -> Nat]
  BY DEF End, ManagedTypeOK
<1>2. ASSUME NEW p \in Operator
      PROVE  /\ pc'[p] \in {"put", "manifest"} => tenant'[p] \in Customers
             /\ nth'[p] \in (IF pc'[p] = "put" THEN Kept ELSE {0})
  <2>1. CASE p = o
    <3>1. pc'[p] = "ready" /\ nth'[p] = 0
      BY <2>1 DEF End, ManagedTypeOK
    <3> QED
      BY <3>1
  <2>2. CASE p # o
    <3>1. pc'[p] = pc[p] /\ tenant'[p] = tenant[p] /\ nth'[p] = nth[p]
      BY <2>2 DEF End, ManagedTypeOK
    <3> QED
      BY <3>1 DEF ManagedTypeOK
  <2> QED
    BY <2>1, <2>2
<1> QED
  BY <1>1, <1>2

LEMMA AdvanceTyped ==
    ASSUME ManagedTypeOK, NEW o \in Operator, pc[o] = "put", Advance(o), UNCHANGED tenant
    PROVE  /\ pc' \in [Operator -> {"ready", "put", "manifest"}] /\ nth' \in [Operator -> Nat]
           /\ \A p \in Operator :
                 /\ pc'[p] \in {"put", "manifest"} => tenant'[p] \in Customers
                 /\ nth'[p] \in (IF pc'[p] = "put" THEN Kept ELSE {0})
           /\ \A p \in Operator \ {o} : pc'[p] = pc[p] /\ nth'[p] = nth[p]
           /\ \/ pc'[o] = "manifest" /\ After(nth[o]) = {}
              \/ pc'[o] = "put" /\ nth'[o] \in After(nth[o])
<1>1. tenant[o] \in Customers /\ nth[o] \in Kept
  BY DEF ManagedTypeOK
<1>2. PICK step \in {"put", "manifest"}, k \in Nat :
          /\ pc' = [pc EXCEPT ![o] = step] /\ nth' = [nth EXCEPT ![o] = k]
          /\ \/ step = "manifest" /\ k = 0 /\ After(nth[o]) = {}
             \/ step = "put" /\ k \in After(nth[o]) /\ k \in Kept
  <2>1. CASE After(nth[o]) = {} /\ pc' = [pc EXCEPT ![o] = "manifest"] /\ nth' = [nth EXCEPT ![o] = 0]
    <3>1. 0 \in Nat
      OBVIOUS
    <3> QED
      BY <2>1, <3>1
  <2>2. CASE /\ pc' = [pc EXCEPT ![o] = "put"]
             /\ \E k \in After(nth[o]) : nth' = [nth EXCEPT ![o] = k]
    BY <1>1, <2>2, PlaceByPlace
  <2> QED
    BY <2>1, <2>2 DEF Advance
<1>3. pc' \in [Operator -> {"ready", "put", "manifest"}] /\ nth' \in [Operator -> Nat]
  BY <1>2 DEF ManagedTypeOK
<1>4. pc'[o] = step /\ nth'[o] = k /\ \A p \in Operator \ {o} : pc'[p] = pc[p] /\ nth'[p] = nth[p]
  BY <1>2 DEF ManagedTypeOK
<1>5. ASSUME NEW p \in Operator
      PROVE  /\ pc'[p] \in {"put", "manifest"} => tenant'[p] \in Customers
             /\ nth'[p] \in (IF pc'[p] = "put" THEN Kept ELSE {0})
  BY <1>1, <1>2, <1>4 DEF ManagedTypeOK
<1> QED
  BY <1>2, <1>3, <1>4, <1>5

\* The document a put writes.
LEMMA PutIs ==
    ASSUME ManagedTypeOK, NEW o \in Operator, pc[o] = "put"
    PROVE  /\ tenant[o] \in Customers /\ nth[o] \in Kept
           /\ RowsFor[tenant[o]][nth[o]].table \in Tables
           /\ RowsFor[tenant[o]][nth[o]].row.tenant \in Tenant
<1>1. tenant[o] \in Customers /\ nth[o] \in Kept
  BY DEF ManagedTypeOK
<1> DEFINE t == ConsentPuts[nth[o]].table
           r == ConsentPuts[nth[o]].row
<1>2. /\ t \in ConsentTable /\ r \in Seeded(t)
      /\ RowsFor[tenant[o]][nth[o]].table = t
      /\ RowsFor[tenant[o]][nth[o]].row = Retenant(r, tenant[o])
  BY <1>1, RowsForIs
<1> HIDE DEF t, r
<1>3. Retenant(r, tenant[o]).tenant = [name |-> tenant[o], other |-> r.tenant = TenantOf(201)]
  BY <1>2, RetenantTo
<1>4. Retenant(r, tenant[o]).tenant \in Tenant
  BY <1>1, <1>3 DEF Tenant
<1> QED
  BY <1>1, <1>2, <1>4 DEF Tables, ConsentTable

LEMMA PutTyped ==
    ASSUME ManagedTypeOK, NEW o \in Operator, Put(o)
    PROVE  ManagedTypeOK'
<1>1. pc[o] = "put" /\ SetDocument(RowsFor[tenant[o]][nth[o]]) /\ Advance(o) /\ Noted(o)
      /\ UNCHANGED <<manifest, tenant, writes, deaths, refused, rewritten>>
  BY DEF Put
<1>2. mixed' \subseteq Customers /\ clean' \in [Operator -> BOOLEAN]
  BY <1>1, PutIs DEF Noted, ManagedTypeOK
<1>3. /\ \A e \in docs' : e.table \in Tables /\ e.row.tenant \in Tenant
      /\ \A e, f \in docs' : e.table = f.table /\ e.row.id = f.row.id => e = f
  BY <1>1, PutIs, SetTyped
<1> QED
  BY <1>1, <1>2, <1>3, AdvanceTyped DEF ManagedTypeOK

\* What the service writes, one of two.
LEMMA ServiceTyped ==
    ASSUME ManagedTypeOK, NEW c \in Customers, NEW d, d.table \in Tables, d.row.tenant = Own(c),
           Writing(d), NEW s \in Heard, refused' \subseteq refused \cup {<<c, s>>},
           rewritten' \subseteq rewritten \cup {s}
    PROVE  ManagedTypeOK'
<1>1. Own(c) \in Tenant /\ s \in Subjects
  BY KeptAssumption DEF Own, Tenant
<1>2. SetDocument(d) /\ writes < MaxWrites /\ writes' = writes + 1
      /\ UNCHANGED <<manifest, loader, deaths, mixed, clean>>
  BY DEF Writing
<1>3. /\ \A e \in docs' : e.table \in Tables /\ e.row.tenant \in Tenant
      /\ \A e, f \in docs' : e.table = f.table /\ e.row.id = f.row.id => e = f
  BY <1>1, <1>2, SetTyped
<1>4. writes' \in 0..MaxWrites
  BY <1>2, BoundAssumption DEF ManagedTypeOK
<1>5. refused' \subseteq Customers \X Subjects /\ rewritten' \subseteq Subjects
  BY <1>1 DEF ManagedTypeOK
<1> QED
  BY <1>2, <1>3, <1>4, <1>5 DEF loader, ManagedTypeOK

\* What Refuse and Rewrite write.
LEMMA RefuseIs ==
    ASSUME NEW c \in Customers, NEW s \in Heard, Refuse(c, s)
    PROVE  /\ refused' = refused \cup {<<c, s>>} /\ UNCHANGED rewritten
           /\ \E d : /\ Writing(d) /\ d.row.tenant = Own(c) /\ d.row.subject = s /\ d.row.id = FreshId
                     /\ \/ /\ d.table = "records" /\ d.row.status \in {"withdrawn", "paused"}
                           /\ d.row.purpose = Marketing /\ d.row.at = Today
                        \/ /\ d.table = "suppressions" /\ d.row.scope = "all"
                           /\ d.row.from = Today /\ d.row.until = None
<1>1. CASE Writing(Said(c, s, FreshId, "withdrawn"))
  <2> DEFINE d == Said(c, s, FreshId, "withdrawn")
  <2>1. Writing(d) /\ d.row.tenant = Own(c) /\ d.row.subject = s /\ d.row.id = FreshId
        /\ d.table = "records" /\ d.row.status = "withdrawn"
        /\ d.row.purpose = Marketing /\ d.row.at = Today
    BY <1>1, SaidIs
  <2> HIDE DEF d
  <2> QED
    BY <2>1 DEF Refuse
<1>2. CASE Writing(Said(c, s, FreshId, "paused"))
  <2> DEFINE d == Said(c, s, FreshId, "paused")
  <2>1. Writing(d) /\ d.row.tenant = Own(c) /\ d.row.subject = s /\ d.row.id = FreshId
        /\ d.table = "records" /\ d.row.status = "paused"
        /\ d.row.purpose = Marketing /\ d.row.at = Today
    BY <1>2, SaidIs
  <2> HIDE DEF d
  <2> QED
    BY <2>1 DEF Refuse
<1>3. CASE Writing(Stop(c, s))
  <2> DEFINE d == Stop(c, s)
  <2>1. Writing(d) /\ d.row.tenant = Own(c) /\ d.row.subject = s /\ d.row.id = FreshId
        /\ d.table = "suppressions" /\ d.row.scope = "all" /\ d.row.from = Today /\ d.row.until = None
    BY <1>3, StopIs
  <2> HIDE DEF d
  <2> QED
    BY <2>1 DEF Refuse
<1> QED
  BY <1>1, <1>2, <1>3 DEF Refuse

LEMMA RewriteIs ==
    ASSUME NEW c \in Customers, NEW s \in Heard, Rewrite(c, s)
    PROVE  /\ rewritten' = rewritten \cup {s}
           /\ \E d : /\ Writing(d) /\ d.table = "records" /\ d.row.tenant = Own(c)
                     /\ d.row.subject = s /\ d.row.id = s
                     /\ d.row.purpose = Marketing /\ d.row.at = Today
                     /\ \/ d.row.status = "withdrawn" /\ refused' = refused
                        \/ d.row.status = "granted" /\ Barred(c, s) /\ refused' = refused
                        \/ d.row.status = "granted" /\ refused' = refused \ {<<c, s>>}
<1>1. CASE Writing(Said(c, s, s, "withdrawn")) /\ refused' = refused
  <2> DEFINE d == Said(c, s, s, "withdrawn")
  <2>1. Writing(d) /\ d.row.tenant = Own(c) /\ d.row.subject = s /\ d.row.id = s
        /\ d.table = "records" /\ d.row.status = "withdrawn"
        /\ d.row.purpose = Marketing /\ d.row.at = Today
    BY <1>1, SaidIs
  <2> HIDE DEF d
  <2> QED
    BY <1>1, <2>1 DEF Rewrite
<1>2. CASE /\ Writing(Said(c, s, s, "granted"))
           /\ refused' = IF Barred(c, s) THEN refused ELSE refused \ {<<c, s>>}
  <2> DEFINE d == Said(c, s, s, "granted")
  <2>2. (Barred(c, s) /\ refused' = refused) \/ refused' = refused \ {<<c, s>>}
    BY <1>2
  <2>1. Writing(d) /\ d.row.tenant = Own(c) /\ d.row.subject = s /\ d.row.id = s
        /\ d.table = "records" /\ d.row.status = "granted"
        /\ d.row.purpose = Marketing /\ d.row.at = Today
    BY <1>2, SaidIs
  <2> HIDE DEF d
  <2> QED
    BY <1>2, <2>1, <2>2 DEF Rewrite
<1> QED
  BY <1>1, <1>2 DEF Rewrite

LEMMA TypeStep == ManagedTypeOK /\ [Next]_vars => ManagedTypeOK'
<1> SUFFICES ASSUME ManagedTypeOK, [Next]_vars PROVE ManagedTypeOK'
  OBVIOUS
<1>1. ASSUME NEW o \in Operator, Declare(o) PROVE ManagedTypeOK'
  <2>1. tenant[o] \in Customers
    BY <1>1 DEF Declare, ManagedTypeOK
  <2>2. manifest' \in Customers \cup {None} /\ mixed' \subseteq Customers
    BY <1>1, <2>1 DEF Declare, ManagedTypeOK
  <2>3. End(o) /\ UNCHANGED <<docs, writes, deaths, refused, rewritten>>
    BY <1>1 DEF Declare
  <2> QED
    BY <2>2, <2>3, EndTyped DEF ManagedTypeOK
<1>2. ASSUME NEW o \in Operator, CutOff(o) PROVE ManagedTypeOK'
  <2>1. deaths' \in 0..MaxDeaths
    BY <1>2, BoundAssumption DEF CutOff, ManagedTypeOK
  <2>2. End(o) /\ UNCHANGED <<docs, manifest, writes, refused, rewritten, mixed>>
    BY <1>2 DEF CutOff
  <2> QED
    BY <2>1, <2>2, EndTyped DEF ManagedTypeOK
<1>3. ASSUME NEW c \in Customers, NEW s \in Heard, Refuse(c, s) PROVE ManagedTypeOK'
  <2>1. PICK d : Writing(d) /\ d.row.tenant = Own(c) /\ d.table \in Tables
    BY <1>3, RefuseIs DEF Tables
  <2>2. refused' = refused \cup {<<c, s>>} /\ rewritten' = rewritten
    BY <1>3, RefuseIs
  <2> QED
    BY <2>1, <2>2, ServiceTyped
<1>4. ASSUME NEW c \in Customers, NEW s \in Heard, Rewrite(c, s) PROVE ManagedTypeOK'
  <2>1. PICK d : Writing(d) /\ d.row.tenant = Own(c) /\ d.table \in Tables
    BY <1>4, RewriteIs DEF Tables
  <2>2. refused' \subseteq refused \cup {<<c, s>>} /\ rewritten' = rewritten \cup {s}
    BY <1>4, RewriteIs
  <2> QED
    BY <2>1, <2>2, ServiceTyped
<1>5. CASE UNCHANGED vars
  BY <1>5 DEF vars, loader, history, ManagedTypeOK
<1> QED
  BY <1>1, <1>2, <1>3, <1>4, <1>5, StartTyped, PutTyped DEF Next

\* The documents keep to one of a table and id, under the customers' tenants,
\* whatever the loads and the writes that set them.
THEOREM ManagedTypeCorrect == Spec => []ManagedTypeOK
BY TypeInit, TypeStep, PTL DEF Spec

-----------------------------------------------------------------------------
(* Refusals.                                                               *)

LEMMA TodayIs ==
    ASSUME ManagedTypeOK
    PROVE  /\ Today \in Documented /\ Today \in Nat /\ Now \in Nat /\ Now <= Today /\ Now \in Documented
           /\ FreshId \in Nat /\ FreshId >= 1000
<1>1. writes \in Nat /\ writes <= MaxWrites /\ MaxWrites \in Nat
  BY BoundAssumption DEF ManagedTypeOK
<1>2. Now \in Nat /\ Now..Now + MaxWrites \subseteq Documented
  BY NowAssumption
<1>3. Now + writes \in Now..Now + MaxWrites /\ Now \in Now..Now + MaxWrites
  BY <1>1, <1>2
<1>4. Now + writes \in Documented /\ Now \in Documented
  BY <1>2, <1>3
<1>5. Now + writes \in Nat /\ Now <= Now + writes
  BY <1>1, <1>2
<1>6. FreshId \in Nat /\ FreshId >= 1000
  BY <1>1 DEF FreshId
<1> QED
  BY <1>2, <1>4, <1>5, <1>6 DEF Today

\* What the document of a load says.
LEMMA RowsForSay ==
    ASSUME NEW c \in Customers, NEW k \in Kept, NEW d, d = RowsFor[c][k]
    PROVE  /\ d.table \in ConsentTable /\ d.row.id \in Nat /\ d.row.id < 1000
           /\ d.row.tenant.name = c
           /\ d.table = "records" =>
                 /\ d.row.at \in Nat /\ d.row.purpose = Marketing /\ d.row.id = d.row.subject
                 /\ \A t \in Documented : d.row.status = "granted" => d.row.at < t
<1>1. PICK t, r : /\ t \in ConsentTable /\ r \in Seeded(t)
                  /\ d.table = t /\ d.row = Retenant(r, c)
  BY RowsForIs
<1> DEFINE n == Retenant(r, c)
<1>2. n.id = r.id
  BY <1>1, RetenantKeeps
<1>8. n.tenant.name = c
  BY <1>1, RetenantTo
<1>3. t = "records" => /\ n.purpose = r.purpose /\ n.status = r.status
                       /\ n.at = r.at /\ n.subject = r.subject
  BY <1>1, RetenantKeeps
<1>4. r.id \in Nat /\ r.id < 1000
  BY <1>1, SeededKeys
<1>5. At(2026, 5, 4) \in Documented
  BY SMT DEF At, Documented
<1>6. t = "records" => /\ r.at \in Nat /\ r.purpose = Marketing /\ r.id = r.subject
                       /\ \A u \in Documented : r.status = "granted" => r.at < u
  BY <1>1, <1>5, SeededStatements
<1>7. d.row = n
  BY <1>1
<1> HIDE DEF n
<1> QED
  BY <1>1, <1>2, <1>3, <1>4, <1>6, <1>7, <1>8

\* Every id is one that was used, every grant is older than today, and every
\* suppression the service was given has begun and has no end.
Dated ==
    \A d \in docs :
        /\ d.row.id \in Nat /\ d.row.id < FreshId
        /\ d.table = "suppressions" /\ d.row.id >= 1000 =>
              d.row.scope = "all" /\ d.row.from \in Nat /\ d.row.from <= Today /\ d.row.until = None
        /\ d.table = "records" => /\ d.row.at \in Nat /\ d.row.purpose = Marketing
                                  /\ d.row.status = "granted" => d.row.at < Today

Grant(d, c, s) ==
    /\ d.table = "records" /\ d.row.tenant = Own(c) /\ d.row.subject = s
    /\ d.row.status = "granted"

\* The document by which subject s refuses contact under customer c: it has an
\* id no seeded row has, and nothing outweighs it or nothing said since does.
Refusal(d, c, s) ==
    /\ d.row.tenant = Own(c) /\ d.row.subject = s /\ d.row.id \in Nat /\ d.row.id >= 1000
    /\ \/ d.table = "records" /\ d.row.status = "paused"
       \/ /\ d.table = "records" /\ d.row.status = "withdrawn"
          /\ d.row.purpose = Marketing /\ d.row.at \in Nat /\ Now <= d.row.at
          /\ \A g \in docs : Grant(g, c, s) => g.row.at < d.row.at
       \/ /\ d.table = "suppressions" /\ d.row.scope = "all"
          /\ d.row.from \in Nat /\ d.row.from <= Today /\ d.row.until = None

RefusalsStand ==
    \A c \in Customers, s \in Subjects :
        <<c, s>> \in refused => \E d \in docs : Refusal(d, c, s)

LEMMA DatedStep == ManagedTypeOK /\ Dated /\ [Next]_vars => Dated'
<1> SUFFICES ASSUME ManagedTypeOK, Dated, [Next]_vars PROVE Dated'
  OBVIOUS
<1>1. Today \in Documented /\ Today \in Nat /\ FreshId \in Nat /\ FreshId >= 1000 /\ writes \in Nat
      /\ Now \in Nat
  BY TodayIs DEF ManagedTypeOK
<1>2. ASSUME NEW o \in Operator, Put(o) PROVE Dated'
  <2> DEFINE d == RowsFor[tenant[o]][nth[o]]
  <2>1. SetDocument(d) /\ writes' = writes /\ tenant[o] \in Customers /\ nth[o] \in Kept
    BY <1>2, PutIs DEF Put
  <2>2. /\ d.row.id \in Nat /\ d.row.id < 1000
        /\ d.table = "records" => /\ d.row.at \in Nat /\ d.row.purpose = Marketing
                                  /\ d.row.status = "granted" => d.row.at < Today
    BY <1>1, <2>1, RowsForSay
  <2>3. Today' = Today /\ FreshId' = FreshId
    BY <2>1 DEF Today, FreshId
  <2> HIDE DEF d
  <2>4. d.row.id < FreshId /\ ~(d.row.id >= 1000)
    BY <1>1, <2>2
  <2>5. \A e \in docs' : e = d \/ e \in docs
    BY <2>1, SetDocumentDoes
  <2> QED
    BY <2>2, <2>3, <2>4, <2>5 DEF Dated
<1>3. ASSUME NEW d, Writing(d), d.row.id \in Nat, d.row.id <= FreshId,
             d.table = "records" => d.row.at = Today /\ d.row.purpose = Marketing,
             d.table = "suppressions" => d.row.scope = "all" /\ d.row.from = Today /\ d.row.until = None
      PROVE  Dated'
  <2>1. SetDocument(d) /\ writes' = writes + 1
    BY <1>3 DEF Writing
  <2>2. Today' = Today + 1 /\ FreshId' = FreshId + 1
    BY <1>1, <2>1 DEF Today, FreshId
  <2>3. ASSUME NEW e \in docs'
        PROVE  /\ e.row.id \in Nat /\ e.row.id < FreshId'
               /\ e.table = "suppressions" /\ e.row.id >= 1000 =>
                    /\ e.row.scope = "all" /\ e.row.from \in Nat /\ e.row.from <= Today'
                    /\ e.row.until = None
               /\ e.table = "records" => /\ e.row.at \in Nat /\ e.row.purpose = Marketing
                                         /\ e.row.status = "granted" => e.row.at < Today'
    <3>1. CASE e = d
      BY <1>1, <1>3, <2>2, <3>1
    <3>2. CASE e \in docs
      BY <1>1, <2>2, <3>2 DEF Dated
    <3> QED
      BY <2>1, <3>1, <3>2, SetDocumentDoes
  <2> QED
    BY <2>3 DEF Dated
<1>4. ASSUME NEW c \in Customers, NEW s \in Heard, Refuse(c, s) PROVE Dated'
  <2>1. PICK d : /\ Writing(d) /\ d.row.id = FreshId
                 /\ d.table = "records" => d.row.at = Today /\ d.row.purpose = Marketing
                 /\ d.table = "suppressions" =>
                       d.row.scope = "all" /\ d.row.from = Today /\ d.row.until = None
    BY <1>4, RefuseIs
  <2> QED
    BY <1>1, <1>3, <2>1
<1>5. ASSUME NEW c \in Customers, NEW s \in Heard, Rewrite(c, s) PROVE Dated'
  <2>1. PICK d : /\ Writing(d) /\ d.row.id = s /\ d.row.at = Today /\ d.row.purpose = Marketing
                 /\ d.table = "records"
    BY <1>5, RewriteIs
  <2>2. s \in Nat /\ s <= 1000
    BY KeptAssumption DEF DemoSubjects, OtherSubjects
  <2> QED
    BY <1>1, <1>3, <2>1, <2>2
<1>6. ASSUME UNCHANGED <<docs, writes>> PROVE Dated'
  BY <1>6 DEF Dated, Today, FreshId
<1> QED
  BY <1>2, <1>4, <1>5, <1>6 DEF Next, Start, Declare, CutOff, vars

LEMMA LaterDay ==
    ASSUME NEW n \in Nat, NEW a \in Nat, NEW b \in Nat, a <= b
    PROVE  n + a <= n + b /\ n + b \in Nat
OBVIOUS

LEMMA RefusalsStep ==
    ManagedTypeOK /\ Dated /\ RefusalsStand /\ [Next]_vars => RefusalsStand'
<1> SUFFICES ASSUME ManagedTypeOK, Dated, RefusalsStand, [Next]_vars,
                    NEW c \in Customers, NEW s \in Subjects, <<c, s>> \in refused'
             PROVE  \E d \in docs' : Refusal(d, c, s)'
  BY DEF RefusalsStand
<1>1. Today \in Documented /\ Today \in Nat /\ FreshId \in Nat /\ FreshId >= 1000 /\ writes \in Nat
      /\ Now \in Nat /\ Now <= Today /\ Now \in Documented
  BY TodayIs DEF ManagedTypeOK
\* A refusal outlives a document set under another id that is no newer grant.
<1>2. ASSUME NEW d, SetDocument(d), NEW e \in docs, Refusal(e, c, s), d.row.id # e.row.id,
             writes' \in {writes, writes + 1},
             Grant(d, c, s) => \/ d.row.at \in Nat /\ d.row.at < Now
                               \/ e.table = "suppressions" \/ e.row.status = "paused"
      PROVE  e \in docs' /\ Refusal(e, c, s)'
  <2>1. ~SameKey(e, d)
    BY <1>2 DEF SameKey
  <2>2. e \in docs' /\ \A g \in docs' : g = d \/ g \in docs
    BY <1>2, <2>1, SetDocumentDoes
  <2>3. writes' \in Nat /\ writes <= writes'
    BY <1>1, <1>2
  <2>4. Today <= Today' /\ Today' \in Nat
    <3>1. Now \in Nat /\ writes \in Nat
      BY <1>1
    <3>2. Today = Now + writes /\ Today' = Now + writes'
      BY DEF Today
    <3>3. Now + writes <= Now + writes' /\ Now + writes' \in Nat
      BY <2>3, <3>1, LaterDay
    <3> QED
      BY <3>2, <3>3
  <2>5. e.table = "records" /\ e.row.status = "withdrawn" =>
            \A g \in docs' : Grant(g, c, s) => g.row.at < e.row.at
    BY <1>1, <1>2, <2>2 DEF Refusal
  <2>6. e.table = "suppressions" => e.row.from <= Today'
    BY <1>1, <1>2, <2>4 DEF Refusal
  <2> QED
    BY <1>2, <2>2, <2>5, <2>6 DEF Refusal, Grant
<1>3. ASSUME NEW o \in Operator, Put(o) PROVE \E d \in docs' : Refusal(d, c, s)'
  <2> DEFINE d == RowsFor[tenant[o]][nth[o]]
  <2>1. SetDocument(d) /\ writes' = writes /\ refused' = refused
        /\ tenant[o] \in Customers /\ nth[o] \in Kept
    BY <1>3, PutIs DEF Put
  <2>2. /\ d.row.id \in Nat /\ d.row.id < 1000
        /\ Grant(d, c, s) => d.row.at \in Nat /\ d.row.at < Now
    BY <1>1, <2>1, RowsForSay DEF Grant
  <2>3. PICK e \in docs : Refusal(e, c, s)
    BY <2>1 DEF RefusalsStand
  <2> HIDE DEF d
  <2>4. d.row.id # e.row.id
    BY <2>2, <2>3 DEF Refusal
  <2> QED
    BY <1>2, <2>1, <2>2, <2>3, <2>4
<1>4. ASSUME NEW c0 \in Customers, NEW s0 \in Heard, Refuse(c0, s0)
      PROVE  \E d \in docs' : Refusal(d, c, s)'
  <2>1. PICK d : /\ Writing(d) /\ d.row.tenant = Own(c0) /\ d.row.subject = s0 /\ d.row.id = FreshId
                 /\ \/ /\ d.table = "records" /\ d.row.status \in {"withdrawn", "paused"}
                       /\ d.row.purpose = Marketing /\ d.row.at = Today
                    \/ /\ d.table = "suppressions" /\ d.row.scope = "all"
                       /\ d.row.from = Today /\ d.row.until = None
    BY <1>4, RefuseIs
  <2>2. SetDocument(d) /\ writes' = writes + 1 /\ refused' = refused \cup {<<c0, s0>>}
    BY <1>4, <2>1, RefuseIs DEF Writing
  <2>3. ~Grant(d, c, s)
    BY <2>1 DEF Grant
  <2>4. CASE <<c, s>> \in refused
    <3>1. PICK e \in docs : Refusal(e, c, s)
      BY <2>4 DEF RefusalsStand
    <3>2. d.row.id # e.row.id
      BY <1>1, <2>1 DEF Dated
    <3> QED
      BY <1>2, <2>2, <2>3, <3>1, <3>2
  <2>5. CASE <<c, s>> = <<c0, s0>>
    <3>1. c = c0 /\ s = s0
      BY <2>5
    <3>2. d \in docs' /\ \A g \in docs' : g = d \/ g \in docs
      BY <2>2, SetDocumentDoes
    <3>3. Today' = Today + 1
      BY <1>1, <2>2 DEF Today
    <3>4. \A g \in docs' : Grant(g, c, s) => g.row.at < Today
      BY <2>3, <3>2 DEF Dated, Grant
    <3>5. Today <= Today'
      BY <1>1, <3>3
    <3> QED
      BY <1>1, <2>1, <3>1, <3>2, <3>4, <3>5 DEF Refusal, Grant
  <2> QED
    BY <2>2, <2>4, <2>5
<1>5. ASSUME NEW c0 \in Customers, NEW s0 \in Heard, Rewrite(c0, s0)
      PROVE  \E d \in docs' : Refusal(d, c, s)'
  <2>1. PICK d : /\ Writing(d) /\ d.table = "records" /\ d.row.tenant = Own(c0)
                 /\ d.row.subject = s0 /\ d.row.id = s0
                 /\ \/ d.row.status = "withdrawn" /\ refused' = refused
                    \/ d.row.status = "granted" /\ Barred(c0, s0) /\ refused' = refused
                    \/ d.row.status = "granted" /\ refused' = refused \ {<<c0, s0>>}
    BY <1>5, RewriteIs
  <2>2. SetDocument(d) /\ writes' = writes + 1
    BY <2>1 DEF Writing
  <2>3. s0 \in Nat /\ s0 < 1000
    BY KeptAssumption DEF DemoSubjects, OtherSubjects
  <2>4. ASSUME NEW e \in docs, Refusal(e, c, s),
               Grant(d, c, s) => e.table = "suppressions" \/ e.row.status = "paused"
        PROVE  \E f \in docs' : Refusal(f, c, s)'
    <3>1. d.row.id # e.row.id
      BY <2>1, <2>3, <2>4 DEF Refusal
    <3> QED
      BY <1>2, <2>2, <2>4, <3>1
  <2>5. CASE Grant(d, c, s)
    <3>1. Own(c) = Own(c0) /\ s = s0 /\ d.row.status = "granted"
      BY <2>1, <2>5 DEF Grant
    <3>2. Own(c).name = c /\ Own(c0).name = c0
      BY DEF Own
    <3>3. c = c0
      BY <3>1, <3>2
    <3>4. Barred(c, s)
      BY <2>1, <3>1, <3>3
    <3>5. PICK e \in docs :
              /\ e.row.id >= 1000 /\ e.row.tenant = Own(c) /\ e.row.subject = s
              /\ e.table = "suppressions" \/ (e.table = "records" /\ e.row.status = "paused")
      BY <3>4 DEF Barred
    <3>6. Refusal(e, c, s)
      BY <3>5 DEF Refusal, Dated
    <3> QED
      BY <2>4, <3>5, <3>6
  <2>6. CASE ~Grant(d, c, s)
    <3>1. PICK e \in docs : Refusal(e, c, s)
      BY <2>1 DEF RefusalsStand
    <3> QED
      BY <2>4, <2>6, <3>1
  <2> QED
    BY <2>5, <2>6
<1>6. ASSUME UNCHANGED <<docs, writes, refused>> PROVE \E d \in docs' : Refusal(d, c, s)'
  BY <1>6 DEF RefusalsStand, Refusal, Grant, Today
<1> QED
  BY <1>3, <1>4, <1>5, <1>6 DEF Next, Start, Declare, CutOff, vars, history

LEMMA RefusalsInit == Init => Dated /\ RefusalsStand
BY DEF Init, Dated, RefusalsStand

\* What a decision reads of a subject's table is what the documents say.
LEMMA OfIs ==
    ASSUME NEW t, NEW s, NEW table, table # "caps", NEW v
    PROVE  v \in Of(t, s, table)
             <=> \E d \in docs : d.table = table /\ d.row.tenant = t /\ d.row.subject = s /\ d.row = v
BY DEF Of

\* The snapshot and the question of Contactable.
SnapOf(t, s) ==
    [tenant |-> t, subject |-> s, records |-> Of(t, s, "records"),
     preferences |-> Of(t, s, "preferences"),
     suppressions |-> Of(t, s, "suppressions"), caps |-> Of(t, s, "caps")]

QuestionOf(t, s) == [tenant |-> t, subject |-> s, purpose |-> Marketing, channel |-> "email"]

LEMMA ContactableIs ==
    ASSUME NEW t, NEW s
    PROVE  /\ Contactable(t, s)
                <=> /\ \A r \in Of(t, s, "records") : r.status \in Vocabulary
                    /\ Allowed(QuestionOf(t, s), SnapOf(t, s), Today, {}, 0)
           /\ SnapOf(t, s).records = Of(t, s, "records")
           /\ SnapOf(t, s).preferences = Of(t, s, "preferences")
           /\ SnapOf(t, s).suppressions = Of(t, s, "suppressions")
           /\ SnapOf(t, s).caps = Of(t, s, "caps")
           /\ QuestionOf(t, s).purpose = Marketing /\ QuestionOf(t, s).channel = "email"
BY DEF Contactable, SnapOf, QuestionOf, Readable

LEMMA RefusalsHold == ManagedTypeOK /\ Dated /\ RefusalsStand => RefusalsSurviveLoads
<1> SUFFICES ASSUME ManagedTypeOK, Dated, RefusalsStand PROVE RefusalsSurviveLoads
  OBVIOUS
<1> SUFFICES ASSUME NEW c \in Customers, NEW s \in Subjects, <<c, s>> \in refused, Contactable(Own(c), s)
             PROVE  FALSE
  <2>1. refused \subseteq Customers \X Subjects
    BY DEF ManagedTypeOK
  <2>2. \A r \in Customers \X Subjects :
            r[1] \in Customers /\ r[2] \in Subjects /\ r = <<r[1], r[2]>>
    OBVIOUS
  <2> QED
    BY <2>1, <2>2 DEF RefusalsSurviveLoads
<1> DEFINE q == QuestionOf(Own(c), s)
           snap == SnapOf(Own(c), s)
           said == Of(Own(c), s, "records")
<1>1. /\ Allowed(q, snap, Today, {}, 0) /\ snap.records = said
      /\ snap.suppressions = Of(Own(c), s, "suppressions") /\ q.purpose = Marketing
  BY ContactableIs
<1>2. \A r \in said : r.at \in Nat /\ r.id \in Nat /\ r.purpose = Marketing
  BY OfIs DEF Dated
<1>3. Ordered(snap.records)
  BY <1>1, <1>2 DEF Ordered
<1> HIDE DEF q, snap
<1>4. Granted(Marketing, said, Today) /\ SuppressionReasons(q, snap.suppressions, Today) = {}
  BY <1>1, <1>3, AllowedTakenApart
<1>5. PICK e \in docs : Refusal(e, c, s)
  BY DEF RefusalsStand
<1>6. CASE e.table = "suppressions"
  <2>1. e.row \in snap.suppressions
    BY <1>1, <1>5, <1>6, OfIs DEF Refusal
  <2>2. Applies(e.row, q, Today)
    <3>1. e.row.scope = "all" /\ e.row.from <= Today /\ e.row.until = None
      BY <1>5, <1>6 DEF Refusal
    <3> QED
      BY <3>1 DEF Applies, Started, Lapsed
  <2> QED
    BY <1>4, <2>1, <2>2 DEF SuppressionReasons
<1>7. CASE e.table = "records" /\ e.row.status = "paused"
  <2>1. e.row \in said
    BY <1>5, <1>7, OfIs DEF Refusal
  <2>2. e.row.status \in Vocabulary
    BY <2>1, ContactableIs
  <2> QED
    BY <1>7, <2>2 DEF Vocabulary
<1>8. CASE e.table = "records" /\ e.row.status = "withdrawn"
  <2>1. PICK r \in Latest(Matching(Marketing, said)) : GrantReason(r, Today) = "consent_granted"
    BY <1>4, GrantedMeansOnFile
  <2>2. r.status = "granted" /\ r \in said
    BY <2>1, GrantReasonOfGrant DEF Latest, Matching
  <2>3. PICK g \in docs : g.table = "records" /\ g.row.tenant = Own(c) /\ g.row.subject = s /\ g.row = r
    BY <2>2, OfIs
  <2>4. r.at < e.row.at /\ e.row.at \in Nat /\ e.row.status # "granted"
    BY <1>5, <1>8, <2>2, <2>3 DEF Refusal, Grant
  <2>5. e.row \in said
    BY <1>5, <1>8, OfIs DEF Refusal
  <2>6. e.row \in Matching(Marketing, said)
    BY <1>2, <2>5 DEF Matching, Match
  <2>7. e.row = r \/ Newer(r, e.row)
    BY <2>1, <2>6 DEF Latest
  <2>8. r.at \in Nat
    BY <1>2, <2>2
  <2> QED
    BY <2>2, <2>4, <2>7, <2>8 DEF Newer
<1> QED
  BY <1>5, <1>6, <1>7, <1>8 DEF Refusal

\* Whom the service was told to leave alone stays alone under that customer,
\* whatever loads are repeated, raced or cut off: after a withdrawal until they
\* consent again, after a suppression whatever they say.
THEOREM RefusalsSurviveLoadsTheorem == Spec => []RefusalsSurviveLoads
<1>1. Init => ManagedTypeOK /\ Dated /\ RefusalsStand
  BY TypeInit, RefusalsInit
<1>2. ManagedTypeOK /\ Dated /\ RefusalsStand /\ [Next]_vars
        => ManagedTypeOK' /\ Dated' /\ RefusalsStand'
  BY TypeStep, DatedStep, RefusalsStep
<1> QED
  BY <1>1, <1>2, RefusalsHold, PTL DEF Spec

-----------------------------------------------------------------------------
(* Loads.                                                                  *)

\* The document a load for c writes at place k is there, or is a statement the
\* service wrote over.
Slot(c, k) ==
    \/ RowsFor[c][k] \in docs
    \/ ConsentPuts[k].table = "records" /\ ConsentPuts[k].row.subject \in rewritten

Loaded(c) == \A k \in Kept : Slot(c, k)

\* A load no other customer's load put beside has written what lies before it;
\* one that did not stay alone has rows of another customer to show for it,
\* unless a third load has meanwhile written everything.
GoesOn(o, c) ==
    /\ clean[o] /\ pc[o] = "put" => \A k \in Kept : k < nth[o] => Slot(c, k)
    /\ clean[o] /\ pc[o] = "manifest" => Loaded(c)
    /\ clean[o] \/ ~(mixed \subseteq {c}) \/ Loaded(c)

LoadsGoOn ==
    \A o \in Operator, c \in Customers : tenant[o] = c /\ pc[o] # "ready" => GoesOn(o, c)

ManifestIsTrue ==
    \A c \in Customers : manifest = c /\ mixed \subseteq {c} => Loaded(c)

FromTheSeed(d) == \E c \in mixed, k \in Kept : d = RowsFor[c][k]

FromTheService(d) ==
    \E c \in Customers, s \in Heard :
        /\ d.row.tenant = Own(c) /\ d.row.subject = s
        /\ <<c, s>> \in refused \/ s \in rewritten
        /\ d.row.id \in Nat /\ d.row.id >= 1000 /\ d.table \in {"records", "suppressions"}

Rewritten(d) ==
    d.table = "records" /\ d.row.id = d.row.subject /\ d.row.subject \in rewritten

Origins == \A d \in docs : FromTheSeed(d) \/ FromTheService(d) \/ Rewritten(d)

\* Two places of a load with one key are one document.
LEMMA PlacesDiffer ==
    ASSUME NEW c \in Customers, NEW b \in Customers, NEW k \in Kept, NEW j \in Kept,
           SameKey(RowsFor[b][k], RowsFor[c][j])
    PROVE  RowsFor[c][k] = RowsFor[c][j] /\ ConsentPuts[k] = ConsentPuts[j]
<1>1. PICK t, r : /\ t \in ConsentTable /\ r \in Seeded(t)
                  /\ ConsentPuts[k].table = t /\ ConsentPuts[k].row = r
                  /\ RowsFor[b][k].table = t /\ RowsFor[b][k].row = Retenant(r, b)
                  /\ RowsFor[c][k] = [table |-> t, row |-> Retenant(r, c)]
  BY RowsForIs
<1>2. PICK u, x : /\ u \in ConsentTable /\ x \in Seeded(u)
                  /\ ConsentPuts[j].table = u /\ ConsentPuts[j].row = x
                  /\ RowsFor[c][j].table = u /\ RowsFor[c][j].row = Retenant(x, c)
                  /\ RowsFor[c][j] = [table |-> u, row |-> Retenant(x, c)]
  BY RowsForIs
<1>3. Retenant(r, b).id = r.id /\ Retenant(x, c).id = x.id
  BY <1>1, <1>2, RetenantKeeps
<1>4. t = u /\ r.id = x.id
  BY <1>1, <1>2, <1>3 DEF SameKey
<1>5. r = x
  BY <1>1, <1>2, <1>4, SeededKeys
<1>6. ConsentPuts[k] \in ConsentRows /\ ConsentPuts[j] \in ConsentRows
  BY ConsentPutsAre DEF Kept, Range
<1>7. ConsentPuts[k] = ConsentPuts[j]
  BY <1>1, <1>2, <1>4, <1>5, <1>6, PutsAreRows
<1> QED
  BY <1>1, <1>2, <1>4, <1>5, <1>7

\* What may be set without a place of a load for c being lost: a document of the
\* same customer's load, one under an id of its own, and a statement written over.
Harmless(d, c) ==
    \/ \E j \in Kept : d = RowsFor[c][j]
    \/ d.row.id \in Nat /\ d.row.id >= 1000
    \/ d.table = "records" /\ d.row.id \in rewritten'

LEMMA SlotStays ==
    ASSUME NEW c \in Customers, NEW k \in Kept, Slot(c, k), rewritten \subseteq rewritten',
           NEW d, SetDocument(d), Harmless(d, c)
    PROVE  Slot(c, k)'
<1> DEFINE e == RowsFor[c][k]
<1>1. CASE ConsentPuts[k].table = "records" /\ ConsentPuts[k].row.subject \in rewritten
  BY <1>1 DEF Slot
<1>2. CASE e \in docs /\ ~SameKey(e, d)
  <2>1. e \in docs'
    BY <1>2, SetDocumentDoes
  <2> QED
    BY <2>1 DEF Slot
<1>3. CASE e \in docs /\ SameKey(e, d)
  <2>1. d \in docs'
    BY SetDocumentDoes
  <2>2. CASE \E j \in Kept : d = RowsFor[c][j]
    <3>1. PICK j \in Kept : d = RowsFor[c][j]
      BY <2>2
    <3>2. e = d
      BY <1>3, <3>1, PlacesDiffer
    <3> QED
      BY <2>1, <3>2 DEF Slot
  <2>3. CASE d.row.id \in Nat /\ d.row.id >= 1000
    <3>1. e.row.id \in Nat /\ e.row.id < 1000
      BY RowsForSay
    <3>2. e.row.id = d.row.id
      BY <1>3 DEF SameKey
    <3> HIDE DEF e
    <3> QED
      BY <2>3, <3>1, <3>2
  <2>4. CASE d.table = "records" /\ d.row.id \in rewritten'
    <3>1. e.table = "records" /\ e.row.id = d.row.id
      BY <1>3, <2>4 DEF SameKey
    <3>2. PICK t, r : /\ t \in ConsentTable /\ r \in Seeded(t)
                      /\ ConsentPuts[k].table = t /\ ConsentPuts[k].row = r
                      /\ e.table = t /\ e.row = Retenant(r, c)
      BY RowsForIs
    <3>3. Retenant(r, c).id = r.id
      BY <3>2, RetenantKeeps
    <3>4. At(2026, 5, 4) \in Documented
      BY SMT DEF At, Documented
    <3>5. r.id = r.subject
      BY <3>1, <3>2, <3>4, SeededStatements
    <3> HIDE DEF e
    <3>6. ConsentPuts[k].table = "records" /\ ConsentPuts[k].row.subject \in rewritten'
      BY <2>4, <3>1, <3>2, <3>3, <3>5
    <3> QED
      BY <3>6 DEF Slot
  <2> QED
    BY <2>2, <2>3, <2>4 DEF Harmless
<1> QED
  BY <1>1, <1>2, <1>3 DEF Slot

\* A put fills its own place.
LEMMA PutFills ==
    ASSUME NEW c \in Customers, NEW k \in Kept, SetDocument(RowsFor[c][k])
    PROVE  Slot(c, k)'
<1>1. RowsFor[c][k] \in docs'
  BY SetDocumentDoes
<1> QED
  BY <1>1 DEF Slot

\* The service's writes are harmless to every load.
LEMMA ServiceIsHarmless ==
    ASSUME ManagedTypeOK, NEW c \in Customers, NEW s \in Heard, Refuse(c, s) \/ Rewrite(c, s),
           NEW b \in Customers
    PROVE  /\ \E d : SetDocument(d) /\ Harmless(d, b)
           /\ rewritten \subseteq rewritten'
           /\ UNCHANGED <<manifest, loader, mixed, clean>>
<1>1. CASE Refuse(c, s)
  <2>1. PICK d : Writing(d) /\ d.row.id = FreshId
    BY <1>1, RefuseIs
  <2> QED
    BY <1>1, <2>1, TodayIs, RefuseIs DEF Writing, Harmless
<1>2. CASE Rewrite(c, s)
  <2>1. PICK d : Writing(d) /\ d.table = "records" /\ d.row.id = s
    BY <1>2, RewriteIs
  <2>2. rewritten' = rewritten \cup {s}
    BY <1>2, RewriteIs
  <2> QED
    BY <2>1, <2>2 DEF Writing, Harmless
<1> QED
  BY <1>1, <1>2

LEMMA LoadedStays ==
    ASSUME NEW c \in Customers, Loaded(c), rewritten \subseteq rewritten',
           NEW d, SetDocument(d), Harmless(d, c)
    PROVE  Loaded(c)'
BY SlotStays DEF Loaded

\* A load goes on through a document set that is harmless to it.
LEMMA GoesOnStays ==
    ASSUME NEW p \in Operator, NEW c \in Customers, GoesOn(p, c),
           \A k \in Kept : Slot(c, k) => Slot(c, k)',
           pc'[p] = pc[p], nth'[p] = nth[p], clean'[p] = clean[p], mixed \subseteq mixed'
    PROVE  GoesOn(p, c)'
<1>1. Loaded(c) => Loaded(c)'
  BY DEF Loaded
<1> QED
  BY <1>1 DEF GoesOn

\* What a put leaves of a load under way.
LEMMA PutGoesOn ==
    ASSUME ManagedTypeOK, LoadsGoOn, NEW o \in Operator, Put(o), NEW p \in Operator,
           pc'[p] # "ready", NEW c \in Customers, tenant'[p] = c
    PROVE  GoesOn(p, c)'
<1>1. PICK a \in Customers, k0 \in Kept : a = tenant[o] /\ k0 = nth[o]
  BY PutIs DEF Put
<1>2. /\ pc[o] = "put" /\ SetDocument(RowsFor[a][k0]) /\ Advance(o)
      /\ UNCHANGED <<manifest, tenant, writes, deaths, refused, rewritten>>
      /\ mixed' = mixed \cup {a} /\ clean'[p] = (clean[p] /\ tenant[p] \in {a, Blank})
  BY <1>1 DEF Put, Noted
<1>3. /\ \A q \in Operator \ {o} : pc'[q] = pc[q] /\ nth'[q] = nth[q]
      /\ \/ pc'[o] = "manifest" /\ After(k0) = {}
         \/ pc'[o] = "put" /\ nth'[o] \in After(k0)
  BY <1>1, <1>2, AdvanceTyped
<1>4. tenant[p] = c /\ pc[p] # "ready" /\ c # Blank
  BY <1>2, <1>3, CustomersAssumption
<1>5. GoesOn(p, c)
  BY <1>4 DEF LoadsGoOn
<1>6. Harmless(RowsFor[a][k0], a)
  BY <1>1 DEF Harmless
<1>7. \A k \in Kept : Slot(a, k) => Slot(a, k)'
  BY <1>2, <1>6, SlotStays
<1>8. Slot(a, k0)'
  BY <1>2, PutFills
<1>9. CASE c # a
  <2>1. ~(mixed' \subseteq {c})
    BY <1>2, <1>9
  <2>2. ~clean'[p]
    BY <1>2, <1>4, <1>9
  <2> QED
    BY <2>1, <2>2 DEF GoesOn
<1>10. CASE c = a
  <2>1. clean'[p] = clean[p]
    BY <1>2, <1>4, <1>10 DEF ManagedTypeOK
  <2>2. CASE p # o
    BY <1>2, <1>3, <1>5, <1>7, <1>10, <2>1, <2>2, GoesOnStays
  <2>3. CASE p = o
    <3>1. clean[o] => \A k \in Kept : k < k0 => Slot(a, k)
      BY <1>1, <1>2, <1>5, <1>10, <2>3 DEF GoesOn
    <3>2. ASSUME clean[o], pc'[o] = "put", NEW k \in Kept, k < nth'[o] PROVE Slot(a, k)'
      <4>1. k < k0 \/ k = k0
        BY <1>3, <3>2, PlaceByPlace
      <4> QED
        BY <1>7, <1>8, <3>1, <3>2, <4>1
    <3>3. ASSUME clean[o], pc'[o] = "manifest" PROVE Loaded(a)'
      <4>1. ASSUME NEW k \in Kept PROVE Slot(a, k)'
        <5>1. k < k0 \/ k = k0
          BY <1>3, <3>3, PlaceByPlace
        <5> QED
          BY <1>7, <1>8, <3>1, <3>3, <5>1
      <4> QED
        BY <4>1 DEF Loaded
    <3>4. clean[o] \/ ~(mixed' \subseteq {a}) \/ Loaded(a)'
      <4>1. Loaded(a) => Loaded(a)'
        BY <1>7 DEF Loaded
      <4> QED
        BY <1>2, <1>5, <1>10, <2>3, <4>1 DEF GoesOn
    <3> QED
      BY <1>10, <2>1, <2>3, <3>2, <3>3, <3>4 DEF GoesOn
  <2> QED
    BY <2>2, <2>3
<1> QED
  BY <1>9, <1>10

LEMMA LoadsStep == ManagedTypeOK /\ LoadsGoOn /\ [Next]_vars => LoadsGoOn'
<1> SUFFICES ASSUME ManagedTypeOK, LoadsGoOn, [Next]_vars, NEW p \in Operator, pc'[p] # "ready",
                    NEW c \in Customers, tenant'[p] = c
             PROVE  GoesOn(p, c)'
  BY DEF LoadsGoOn
\* A load nothing happened to, but that others may have declared theirs.
<1>1. ASSUME UNCHANGED <<docs, rewritten>>, pc'[p] = pc[p], tenant'[p] = tenant[p],
             nth'[p] = nth[p], clean'[p] = clean[p],
             mixed' = mixed \/ (\E b \in Customers : mixed' = {b} /\ Loaded(b))
      PROVE  GoesOn(p, c)'
  <2>1. \A b : (Loaded(b) <=> Loaded(b)') /\ \A k \in Kept : Slot(b, k) <=> Slot(b, k)'
    BY <1>1 DEF Loaded, Slot
  <2>2. GoesOn(p, c)
    BY <1>1 DEF LoadsGoOn
  <2>3. CASE mixed' = mixed
    BY <1>1, <2>1, <2>2, <2>3, GoesOnStays
  <2>4. ASSUME NEW b \in Customers, mixed' = {b}, Loaded(b) PROVE GoesOn(p, c)'
    <3>1. mixed' \subseteq {c} => Loaded(c)
      BY <2>4
    <3> QED
      BY <1>1, <2>1, <2>2, <3>1 DEF GoesOn
  <2> QED
    BY <1>1, <2>3, <2>4
<1>2. ASSUME NEW o \in Operator, Start(o) PROVE GoesOn(p, c)'
  <2>1. PICK k \in First :
            /\ nth' = [nth EXCEPT ![o] = k]
            /\ pc' = [pc EXCEPT ![o] = "put"] /\ clean' = [clean EXCEPT ![o] = TRUE]
            /\ UNCHANGED <<docs, manifest, writes, deaths, refused, rewritten, mixed>>
    BY <1>2 DEF Start
  <2>2. \A q \in Operator \ {o} : tenant'[q] = tenant[q]
    BY <1>2 DEF Start, ManagedTypeOK
  <2>3. CASE p = o
    <3>1. pc'[p] = "put" /\ nth'[p] = k /\ clean'[p] = TRUE
      BY <2>1, <2>3 DEF ManagedTypeOK
    <3>2. \A j \in Kept : ~(j < nth'[p])
      BY <3>1, PlaceByPlace
    <3> QED
      BY <3>1, <3>2 DEF GoesOn
  <2>4. CASE p # o
    <3>1. pc'[p] = pc[p] /\ tenant'[p] = tenant[p] /\ nth'[p] = nth[p] /\ clean'[p] = clean[p]
      BY <2>1, <2>2, <2>4 DEF ManagedTypeOK
    <3> QED
      BY <1>1, <2>1, <3>1
  <2> QED
    BY <2>3, <2>4
<1>3. ASSUME NEW o \in Operator, End(o), UNCHANGED <<docs, rewritten>>,
             mixed' = mixed \/ (\E b \in Customers : mixed' = {b} /\ Loaded(b))
      PROVE  GoesOn(p, c)'
  <2>1. p # o
    BY <1>3 DEF End, ManagedTypeOK
  <2>2. pc'[p] = pc[p] /\ tenant'[p] = tenant[p] /\ nth'[p] = nth[p] /\ clean'[p] = clean[p]
    BY <1>3, <2>1 DEF End, ManagedTypeOK
  <2> QED
    BY <1>1, <1>3, <2>2
<1>4. ASSUME NEW o \in Operator, Declare(o) PROVE GoesOn(p, c)'
  <2>1. PICK b \in Customers : tenant[o] = b
    BY <1>4 DEF Declare, ManagedTypeOK
  <2>2. /\ pc[o] = "manifest" /\ End(o) /\ UNCHANGED <<docs, rewritten>>
        /\ mixed' = IF clean[o] THEN {b} ELSE mixed
    BY <1>4, <2>1 DEF Declare
  <2>3. clean[o] => Loaded(b)
    BY <2>1, <2>2 DEF LoadsGoOn, GoesOn
  <2> QED
    BY <1>3, <2>2, <2>3
<1>5. ASSUME NEW b \in Customers, NEW s \in Heard, Refuse(b, s) \/ Rewrite(b, s)
      PROVE  GoesOn(p, c)'
  <2>1. UNCHANGED <<manifest, pc, tenant, nth, mixed, clean>> /\ rewritten \subseteq rewritten'
    BY <1>5, ServiceIsHarmless DEF loader
  <2>2. PICK d : SetDocument(d) /\ Harmless(d, c)
    BY <1>5, ServiceIsHarmless
  <2>3. \A k \in Kept : Slot(c, k) => Slot(c, k)'
    BY <2>1, <2>2, SlotStays
  <2>4. GoesOn(p, c)
    BY <2>1 DEF LoadsGoOn
  <2> QED
    BY <2>1, <2>3, <2>4, GoesOnStays
<1>6. ASSUME UNCHANGED vars PROVE GoesOn(p, c)'
  BY <1>1, <1>6 DEF vars, loader, history
<1>7. ASSUME NEW o \in Operator, CutOff(o) PROVE GoesOn(p, c)'
  BY <1>3, <1>7 DEF CutOff
<1> QED
  BY <1>2, <1>4, <1>5, <1>6, <1>7, PutGoesOn DEF Next

LEMMA ManifestStep ==
    ManagedTypeOK /\ LoadsGoOn /\ ManifestIsTrue /\ [Next]_vars => ManifestIsTrue'
<1> SUFFICES ASSUME ManagedTypeOK, LoadsGoOn, ManifestIsTrue, [Next]_vars,
                    NEW c \in Customers, manifest' = c, mixed' \subseteq {c}
             PROVE  Loaded(c)'
  BY DEF ManifestIsTrue
<1>1. ASSUME UNCHANGED <<docs, rewritten, manifest, mixed>> PROVE Loaded(c)'
  BY <1>1 DEF ManifestIsTrue, Loaded, Slot
<1>2. ASSUME NEW o \in Operator, Put(o) PROVE Loaded(c)'
  <2>1. PICK a \in Customers, k \in Kept : a = tenant[o] /\ k = nth[o]
    BY <1>2, PutIs DEF Put
  <2>2. /\ SetDocument(RowsFor[a][k]) /\ UNCHANGED <<manifest, rewritten>>
        /\ mixed' = mixed \cup {a}
    BY <1>2, <2>1 DEF Put, Noted
  <2>3. a = c /\ manifest = c /\ mixed \subseteq {c}
    BY <2>2
  <2>4. Loaded(c)
    BY <2>3 DEF ManifestIsTrue
  <2>5. Harmless(RowsFor[a][k], c)
    BY <2>3 DEF Harmless
  <2> QED
    BY <2>2, <2>4, <2>5, LoadedStays
<1>3. ASSUME NEW o \in Operator, Declare(o) PROVE Loaded(c)'
  <2>1. /\ tenant[o] = c /\ pc[o] = "manifest" /\ UNCHANGED <<docs, rewritten>>
        /\ mixed' = IF clean[o] THEN {tenant[o]} ELSE mixed
    BY <1>3 DEF Declare
  <2>2. Loaded(c)
    BY <2>1 DEF LoadsGoOn, GoesOn
  <2> QED
    BY <2>1, <2>2 DEF Loaded, Slot
<1>4. ASSUME NEW b \in Customers, NEW s \in Heard, Refuse(b, s) \/ Rewrite(b, s)
      PROVE  Loaded(c)'
  <2>1. UNCHANGED <<manifest, mixed>> /\ rewritten \subseteq rewritten'
    BY <1>4, ServiceIsHarmless
  <2>2. PICK d : SetDocument(d) /\ Harmless(d, c)
    BY <1>4, ServiceIsHarmless
  <2>3. Loaded(c)
    BY <2>1 DEF ManifestIsTrue
  <2> QED
    BY <2>1, <2>2, <2>3, LoadedStays
<1> QED
  BY <1>1, <1>2, <1>3, <1>4 DEF Next, Start, CutOff, vars, history

\* The document of a statement of a load has its subject's id.
LEMMA StatementPlace ==
    ASSUME NEW c \in Customers, NEW k \in Kept, ConsentPuts[k].table = "records", NEW d,
           d = RowsFor[c][k]
    PROVE  d.table = "records" /\ d.row.id = d.row.subject /\ d.row.subject = ConsentPuts[k].row.subject
<1>1. PICK t, r : /\ t \in ConsentTable /\ r \in Seeded(t)
                  /\ ConsentPuts[k].table = t /\ ConsentPuts[k].row = r
                  /\ d.table = t /\ d.row = Retenant(r, c)
  BY RowsForIs
<1>2. Retenant(r, c).subject = r.subject
  BY <1>1, RetenantKeeps
<1> QED
  BY <1>1, <1>2, RowsForSay

LEMMA OriginsStep == ManagedTypeOK /\ LoadsGoOn /\ Origins /\ [Next]_vars => Origins'
<1> SUFFICES ASSUME ManagedTypeOK, LoadsGoOn, Origins, [Next]_vars PROVE Origins'
  OBVIOUS
\* A document stays what it was while its customer's load may still be there.
<1>1. ASSUME NEW d, FromTheSeed(d) \/ FromTheService(d) \/ Rewritten(d), mixed \subseteq mixed',
             rewritten \subseteq rewritten',
             \A x \in refused : x \in refused' \/ x[2] \in rewritten'
      PROVE  FromTheSeed(d)' \/ FromTheService(d)' \/ Rewritten(d)'
  <2>1. FromTheSeed(d) => FromTheSeed(d)'
    BY <1>1 DEF FromTheSeed
  <2>2. ASSUME FromTheService(d) PROVE FromTheService(d)'
    <3>1. PICK c \in Customers, s \in Heard :
              /\ d.row.tenant = Own(c) /\ d.row.subject = s
              /\ <<c, s>> \in refused \/ s \in rewritten
              /\ d.row.id \in Nat /\ d.row.id >= 1000 /\ d.table \in {"records", "suppressions"}
      BY <2>2 DEF FromTheService
    <3>2. <<c, s>> \in refused' \/ s \in rewritten'
      <4>1. <<c, s>>[2] = s
        OBVIOUS
      <4> QED
        BY <1>1, <3>1, <4>1
    <3> QED
      BY <3>1, <3>2 DEF FromTheService
  <2>3. Rewritten(d) => Rewritten(d)'
    BY <1>1 DEF Rewritten
  <2> QED
    BY <1>1, <2>1, <2>2, <2>3
<1>2. ASSUME NEW o \in Operator, Put(o) PROVE Origins'
  <2>1. PICK a \in Customers, k \in Kept : a = tenant[o] /\ k = nth[o]
    BY <1>2, PutIs DEF Put
  <2>2. /\ SetDocument(RowsFor[a][k]) /\ UNCHANGED <<refused, rewritten>>
        /\ mixed' = mixed \cup {a}
    BY <1>2, <2>1 DEF Put, Noted
  <2>3. FromTheSeed(RowsFor[a][k])'
    BY <2>2 DEF FromTheSeed
  <2>4. \A e \in docs' : e = RowsFor[a][k] \/ e \in docs
    BY <2>2, SetDocumentDoes
  <2>5. ASSUME NEW e \in docs PROVE FromTheSeed(e)' \/ FromTheService(e)' \/ Rewritten(e)'
    BY <1>1, <2>2 DEF Origins
  <2>6. ASSUME NEW e \in docs' PROVE FromTheSeed(e)' \/ FromTheService(e)' \/ Rewritten(e)'
    <3>1. CASE e = RowsFor[a][k]
      BY <2>3, <3>1
    <3>2. CASE e \in docs
      BY <2>5, <3>2
    <3> QED
      BY <2>4, <3>1, <3>2
  <2> QED
    BY <2>6 DEF Origins
<1>3. ASSUME NEW o \in Operator, Declare(o) PROVE Origins'
  <2>1. PICK b \in Customers : tenant[o] = b
    BY <1>3 DEF Declare, ManagedTypeOK
  <2>2. /\ pc[o] = "manifest" /\ UNCHANGED <<docs, refused, rewritten>>
        /\ mixed' = IF clean[o] THEN {b} ELSE mixed
    BY <1>3, <2>1 DEF Declare
  <2>3. clean[o] => Loaded(b)
    BY <2>1, <2>2 DEF LoadsGoOn, GoesOn
  <2>4. ASSUME clean[o], NEW e \in docs PROVE FromTheSeed(e)' \/ FromTheService(e)' \/ Rewritten(e)'
    <3>1. FromTheService(e) => FromTheService(e)'
      BY <2>2 DEF FromTheService
    <3>2. Rewritten(e) => Rewritten(e)'
      BY <2>2 DEF Rewritten
    <3>3. ASSUME FromTheSeed(e) PROVE FromTheSeed(e)' \/ Rewritten(e)'
      <4>1. PICK c \in Customers, k \in Kept : e = RowsFor[c][k]
        BY <3>3 DEF FromTheSeed, ManagedTypeOK
      <4>2. Slot(b, k)
        BY <2>3, <2>4 DEF Loaded
      <4>3. ASSUME RowsFor[b][k] \in docs PROVE FromTheSeed(e)'
        <5>1. PICK t, r : /\ t \in ConsentTable /\ r \in Seeded(t)
                          /\ RowsFor[c][k].table = t /\ RowsFor[c][k].row = Retenant(r, c)
                          /\ RowsFor[b][k].table = t /\ RowsFor[b][k].row = Retenant(r, b)
          BY RowsForIs
        <5>2. Retenant(r, c).id = r.id /\ Retenant(r, b).id = r.id
          BY <5>1, RetenantKeeps
        <5>3. RowsFor[c][k] = RowsFor[b][k]
          BY <4>1, <4>3, <5>1, <5>2 DEF ManagedTypeOK
        <5> QED
          BY <2>2, <2>4, <4>1, <5>3 DEF FromTheSeed
      <4>4. ASSUME ConsentPuts[k].table = "records", ConsentPuts[k].row.subject \in rewritten
            PROVE  Rewritten(e)'
        BY <2>2, <4>1, <4>4, StatementPlace DEF Rewritten
      <4> QED
        BY <4>2, <4>3, <4>4 DEF Slot
    <3> QED
      BY <3>1, <3>2, <3>3 DEF Origins
  <2>5. CASE clean[o]
    BY <2>2, <2>4, <2>5 DEF Origins
  <2>6. CASE ~clean[o]
    BY <1>1, <2>2, <2>6 DEF Origins
  <2> QED
    BY <2>5, <2>6
<1>4. ASSUME NEW c \in Customers, NEW s \in Heard, Refuse(c, s) \/ Rewrite(c, s) PROVE Origins'
  <2>1. mixed' = mixed
    BY <1>4, ServiceIsHarmless
  <2>2. /\ rewritten \subseteq rewritten'
        /\ \A x \in refused : x \in refused' \/ x[2] \in rewritten'
    <3>1. CASE Refuse(c, s)
      BY <3>1, RefuseIs
    <3>2. CASE Rewrite(c, s)
      <4>1. rewritten' = rewritten \cup {s}
            /\ (refused' = refused \/ refused' = refused \ {<<c, s>>})
        BY <3>2, RewriteIs
      <4>2. <<c, s>>[2] = s
        OBVIOUS
      <4> QED
        BY <4>1, <4>2
    <3> QED
      BY <1>4, <3>1, <3>2
  <2>3. PICK d : SetDocument(d) /\ (FromTheService(d)' \/ Rewritten(d)')
    <3>1. CASE Refuse(c, s)
      <4>1. PICK d : /\ Writing(d) /\ d.row.tenant = Own(c) /\ d.row.subject = s /\ d.row.id = FreshId
                     /\ d.table \in {"records", "suppressions"}
        BY <3>1, RefuseIs
      <4>2. d.row.id \in Nat /\ d.row.id >= 1000 /\ <<c, s>> \in refused'
        BY <3>1, <4>1, TodayIs, RefuseIs
      <4>3. FromTheService(d)'
        BY <4>1, <4>2 DEF FromTheService
      <4> QED
        BY <4>1, <4>3 DEF Writing
    <3>2. CASE Rewrite(c, s)
      <4>1. PICK d : Writing(d) /\ d.table = "records" /\ d.row.subject = s /\ d.row.id = s
        BY <3>2, RewriteIs
      <4>2. s \in rewritten'
        BY <3>2, RewriteIs
      <4>3. Rewritten(d)'
        BY <4>1, <4>2 DEF Rewritten
      <4> QED
        BY <4>1, <4>3 DEF Writing
    <3> QED
      BY <1>4, <3>1, <3>2
  <2>4. \A e \in docs' : e = d \/ e \in docs
    BY <2>3, SetDocumentDoes
  <2>5. ASSUME NEW e \in docs PROVE FromTheSeed(e)' \/ FromTheService(e)' \/ Rewritten(e)'
    BY <1>1, <2>1, <2>2 DEF Origins
  <2>6. ASSUME NEW e \in docs' PROVE FromTheSeed(e)' \/ FromTheService(e)' \/ Rewritten(e)'
    <3>1. CASE e = d
      BY <2>3, <3>1
    <3>2. CASE e \in docs
      BY <2>5, <3>2
    <3> QED
      BY <2>4, <3>1, <3>2
  <2> QED
    BY <2>6 DEF Origins
<1>5. ASSUME UNCHANGED <<docs, mixed, refused, rewritten>> PROVE Origins'
  BY <1>1, <1>5 DEF Origins
<1> QED
  BY <1>2, <1>3, <1>4, <1>5 DEF Next, Start, CutOff, vars, history

-----------------------------------------------------------------------------
(* Contacts.                                                               *)

\* The seed of customer m is in, whole, and no other customer's.
SeedIsIn(m) ==
    /\ m \in Customers /\ Loaded(m)
    /\ \A d \in docs : (\E k \in Kept : d = RowsFor[m][k]) \/ FromTheService(d) \/ Rewritten(d)

Home(m, s) == [name |-> m, other |-> s = 201]

\* The tenant a row about subject s is put under.
LEMMA HomeOf ==
    ASSUME NEW r, NEW s \in DemoSubject, r.tenant = TenantOf(s), NEW m
    PROVE  [name |-> m, other |-> r.tenant = TenantOf(201)] = Home(m, s)
<1>1. TenantOf(s) = "demo-brand" \/ TenantOf(s) = "other-brand"
  BY DEF TenantOf
<1>2. s = 201 \/ s \in DemoSubjects
  BY DEF DemoSubject, OtherSubjects
<1>3. TenantOf(201) = "other-brand" /\ (s \in DemoSubjects => TenantOf(s) = "demo-brand" /\ s # 201)
  BY DEF TenantOf, DemoSubjects
<1>4. (r.tenant = TenantOf(201)) = (s = 201)
  BY <1>2, <1>3
<1> QED
  BY <1>4 DEF Home

\* About a person nothing was written of but by loads, the store holds rows of
\* the seed only, under their tenant.
LEMMA AboutIsSeeded ==
    ASSUME NEW m, SeedIsIn(m), NEW t, NEW s \in Subjects \ rewritten,
           <<t.name, s>> \notin refused \/ t.other,
           NEW d \in docs, d.table # "caps", d.row.tenant = t, d.row.subject = s,
           d.table = "preferences" => d.row.channel = "email"
    PROVE  /\ d.table \in {"records", "preferences", "suppressions"}
           /\ \E r \in Seeded(d.table) : r.subject = s /\ d.row = Retenant(r, m)
           /\ t = Home(m, s)
<1>1. ~FromTheService(d)
  <2> SUFFICES ASSUME NEW c \in Customers, d.row.tenant = Own(c), <<c, s>> \in refused \/ s \in rewritten
               PROVE  FALSE
    BY DEF FromTheService
  <2>1. Own(c).name = c /\ Own(c).other = FALSE
    BY DEF Own
  <2>2. t.name = c /\ ~t.other
    BY <2>1
  <2> QED
    BY <2>2
<1>2. ~Rewritten(d)
  BY DEF Rewritten
<1>3. PICK k \in Kept : d = RowsFor[m][k]
  BY <1>1, <1>2 DEF SeedIsIn
<1>4. PICK u, r : /\ u \in ConsentTable /\ r \in Seeded(u) /\ d.table = u /\ d.row = Retenant(r, m)
  <2>1. m \in Customers
    BY DEF SeedIsIn
  <2> QED
    BY <1>3, <2>1, RowsForIs
<1>5. r.subject = s
  BY <1>4, RetenantKeeps
<1>6. r.tenant = TenantOf(r.subject)
  <2>1. At(2026, 5, 4) \in Documented
    BY SMT DEF At, Documented
  <2>2. CASE u = "records"
    BY <1>4, <2>1, <2>2, SeededStatements
  <2>3. CASE u = "preferences"
    <3>1. r.channel = "email"
      BY <1>4, <2>3, RetenantKeeps
    <3> QED
      BY <1>4, <2>3, <3>1, SeededPreferences
  <2>4. CASE u = "suppressions"
    <3>1. r = DoNotContact(1, 104, At(2026, 5, 4))
      BY <1>4, <2>4, SeededLimits
    <3> QED
      BY <3>1 DEF DoNotContact
  <2> QED
    BY <1>4, <2>2, <2>3, <2>4 DEF ConsentTable
<1>7. s \in DemoSubject
  BY KeptAssumption DEF DemoSubject
<1>8. t = Home(m, s)
  <2>1. Retenant(r, m).tenant = [name |-> m, other |-> r.tenant = TenantOf(201)]
    BY <1>4, RetenantTo
  <2>2. [name |-> m, other |-> r.tenant = TenantOf(201)] = Home(m, s)
    BY <1>5, <1>6, <1>7, HomeOf
  <2> QED
    BY <1>4, <2>1, <2>2
<1> QED
  BY <1>4, <1>5, <1>8 DEF ConsentTable

\* And every row of the seed about that person is there.
LEMMA SeededIsAbout ==
    ASSUME NEW m, SeedIsIn(m), NEW s \in Subjects \ rewritten,
           NEW u \in {"records", "preferences", "suppressions"}, NEW r \in Seeded(u), r.subject = s,
           r.tenant = TenantOf(s), u = "preferences" => r.channel = "email"
    PROVE  Retenant(r, m) \in Of(Home(m, s), s, u)
<1>1. PICK x \in ConsentRows : x.table = u /\ x.row = r
  BY RowsAreSeeded DEF ConsentTable
<1>2. PICK k \in DOMAIN ConsentPuts : ConsentPuts[k] = x
  BY ConsentPutsAre DEF Range
<1>3. k \in Kept
  BY <1>1, <1>2, KeptAssumption DEF Kept
<1>4. RowsFor[m][k] \in docs
  BY <1>1, <1>2, <1>3 DEF SeedIsIn, Loaded, Slot
<1>5. RowsFor[m][k].table = u /\ RowsFor[m][k].row = Retenant(r, m)
  BY <1>1, <1>2, <1>3, RowsForIs DEF SeedIsIn
<1>6. Retenant(r, m).subject = s
  BY RetenantKeeps DEF ConsentTable
<1>7. Retenant(r, m).tenant = Home(m, s)
  <2>1. Retenant(r, m).tenant = [name |-> m, other |-> r.tenant = TenantOf(201)]
    BY RetenantTo DEF ConsentTable
  <2>2. s \in DemoSubject
    BY KeptAssumption DEF DemoSubject
  <2> QED
    BY <2>1, <2>2, HomeOf
<1> QED
  BY <1>4, <1>5, <1>6, <1>7, OfIs

\* A grant is in force by its status and its window.
LEMMA GrantReasonKept ==
    ASSUME NEW r, NEW n, n.status = r.status, n.from = r.from, n.until = r.until, NEW t
    PROVE  GrantReason(n, t) = GrantReason(r, t)
BY DEF GrantReason, WindowReason, Started, Lapsed

\* Elsewhere than at home nothing is known of the subject.
LEMMA NotElsewhere ==
    ASSUME NEW m, SeedIsIn(m), NEW t, NEW s \in Subjects \ rewritten,
           <<t.name, s>> \notin refused \/ t.other, t # Home(m, s)
    PROVE  ~Contactable(t, s)
<1>1. Of(t, s, "records") = {}
  BY OfIs, AboutIsSeeded
<1> DEFINE q == QuestionOf(t, s)
           snap == SnapOf(t, s)
<1>2. /\ Contactable(t, s) => Allowed(q, snap, Today, {}, 0)
      /\ snap.records = {}
  BY <1>1, ContactableIs
<1> HIDE DEF q, snap
<1>3. Ordered(snap.records)
  BY <1>2 DEF Ordered
<1> QED
  BY <1>2, <1>3, AllowedTakesBoth

\* At home the one statement of the seed decides, with the opt-in and the
\* complaint beside it.
LEMMA AsTheSeedSays ==
    ASSUME ManagedTypeOK, NEW m, SeedIsIn(m), NEW s \in Subjects \ rewritten,
           <<m, s>> \notin refused \/ s = 201
    PROVE  Contactable(Home(m, s), s) <=> s \in {101, 201}
<1> DEFINE t == Home(m, s)
           q == QuestionOf(t, s)
           snap == SnapOf(t, s)
           said == Of(t, s, "records")
           chosen == Of(t, s, "preferences")
           stopped == Of(t, s, "suppressions")
<1>1. t.name = m /\ (s = 201 => t.other)
  BY DEF Home
<1>2. <<t.name, s>> \notin refused \/ t.other
  BY <1>1
<1>3. s \in DemoSubject /\ Today \in Documented /\ Today \in Nat
  BY TodayIs, KeptAssumption DEF DemoSubject
<1>4. /\ Contactable(t, s)
           <=> (\A r \in said : r.status \in Vocabulary) /\ Allowed(q, snap, Today, {}, 0)
      /\ snap.records = said /\ snap.preferences = chosen /\ snap.suppressions = stopped
      /\ snap.caps = Of(t, s, "caps") /\ q.purpose = Marketing /\ q.channel = "email"
  BY ContactableIs
<1>5. AnswerableReasons(q, snap) = {}
  <2>1. /\ q.tenant = t /\ q.subject = s /\ snap.tenant = t /\ snap.subject = s
        /\ q.purpose = Marketing
    BY DEF QuestionOf, SnapOf
  <2>2. s # Blank /\ Marketing # Blank
    BY <1>3, NothingAssumption DEF DemoSubject, DemoSubjects, OtherSubjects
  <2>3. t # Blank
    <3>1. t \in Tenant
      BY DEF Home, Tenant, SeedIsIn
    <3> QED
      BY <3>1, CustomersAssumption
  <2> HIDE DEF q, snap, t
  <2> QED
    BY <2>1, <2>2, <2>3 DEF AnswerableReasons, Unresolved
<1>6. ASSUME NEW u \in {"records", "preferences", "suppressions"}, NEW n \in Of(t, s, u),
             u = "preferences" => n.channel = "email"
      PROVE  \E r \in Seeded(u) : r.subject = s /\ n = Retenant(r, m)
  <2>1. PICK d \in docs : d.table = u /\ d.row.tenant = t /\ d.row.subject = s /\ d.row = n
    BY <1>6, OfIs
  <2> QED
    BY <1>2, <1>6, <2>1, AboutIsSeeded
<1>7. ASSUME NEW u \in {"records", "preferences", "suppressions"}, NEW r \in Seeded(u),
             r.subject = s, r.tenant = TenantOf(s), u = "preferences" => r.channel = "email"
      PROVE  Retenant(r, m) \in Of(t, s, u)
  BY <1>7, SeededIsAbout
<1>8. PICK r \in Seeded("records") : r.subject = s
  BY <1>3, SeededStatements
<1> DEFINE n == Retenant(r, m)
<1>9. /\ n.id = r.id /\ n.purpose = r.purpose /\ n.status = r.status /\ n.at = r.at
      /\ n.from = r.from /\ n.until = r.until
  BY RetenantKeeps DEF ConsentTable
<1>10. /\ r.tenant = TenantOf(s) /\ r.purpose = Marketing /\ r.at \in Nat /\ r.id \in Nat
       /\ r.status \in {"granted", "withdrawn", "pending_review"}
       /\ GrantReason(r, Today) = "consent_granted" <=> s \in {101, 104, 105, 201}
       /\ \A x \in Seeded("records") : x.subject = s => x = r
  <2>1. r.id \in Nat
    BY SeededKeys DEF ConsentTable
  <2> QED
    BY <1>3, <1>8, <2>1, SeededStatements
<1>11. said = {n}
  <2>1. n \in said
    BY <1>7, <1>8, <1>10
  <2>2. \A x \in said : x = n
    BY <1>6, <1>10
  <2> HIDE DEF n, said
  <2> QED
    BY <2>1, <2>2
<1>12. GrantReason(n, Today) = GrantReason(r, Today)
  BY <1>9, GrantReasonKept
<1>13. ASSUME NEW p \in chosen, p.channel = "email"
       PROVE  \E x \in Seeded("preferences") :
                 x.subject = s /\ x.channel = "email" /\ x.opted_in /\ p.opted_in
                 /\ p = Retenant(x, m)
  <2>1. PICK x \in Seeded("preferences") : x.subject = s /\ p = Retenant(x, m)
    BY <1>6, <1>13
  <2>2. p.channel = x.channel /\ p.opted_in = x.opted_in
    BY <2>1, RetenantKeeps DEF ConsentTable
  <2> QED
    BY <1>13, <2>1, <2>2, SeededPreferences
<1>14. ASSUME NEW p \in chosen, NEW x \in chosen, p.channel = "email", x.channel = "email"
       PROVE  p = x
  BY <1>13, <1>14, SeededPreferences
<1>15. (\E p \in chosen : p.channel = "email") <=> s # 105
  <2>1. ASSUME s # 105 PROVE \E p \in chosen : p.channel = "email"
    <3>1. PICK x \in Seeded("preferences") : x.channel = "email" /\ x.subject = s
      BY <1>3, <2>1, SeededPreferences
    <3>2. x.tenant = TenantOf(s)
      BY <3>1, SeededPreferences
    <3>3. Retenant(x, m) \in chosen
      BY <1>7, <3>1, <3>2
    <3>4. Retenant(x, m).channel = "email"
      BY <3>1, RetenantKeeps DEF ConsentTable
    <3> QED
      BY <3>3, <3>4
  <2>2. ASSUME NEW p \in chosen, p.channel = "email" PROVE s # 105
    BY <1>13, <2>2, SeededPreferences
  <2> QED
    BY <2>1, <2>2
<1>16. (\E e \in stopped : Applies(e, q, Today)) <=> s = 104
  <2> DEFINE e1 == DoNotContact(1, 104, At(2026, 5, 4))
             n1 == Retenant(e1, m)
  <2>1. /\ e1.subject = 104 /\ e1.tenant = TenantOf(104) /\ e1.scope = "all"
        /\ e1.from = At(2026, 5, 4) /\ e1.until = None
    BY DEF DoNotContact
  <2>2. At(2026, 5, 4) <= Today
    BY <1>3, SMT DEF At, Documented
  <2>3. e1 \in Seeded("suppressions") /\ \A e \in Seeded("suppressions") : e = e1
    BY SeededLimits
  <2> HIDE DEF e1
  <2>4. n1.scope = e1.scope /\ n1.from = e1.from /\ n1.until = e1.until
    BY <2>3, RetenantKeeps DEF ConsentTable
  <2>5. Applies(n1, q, Today)
    BY <2>1, <2>2, <2>4 DEF Applies, Started, Lapsed
  <2>6. s = 104 => n1 \in stopped
    BY <1>7, <2>1, <2>3
  <2>7. \A e \in stopped : s = 104
    BY <1>6, <2>1, <2>3
  <2> HIDE DEF n1, stopped, q
  <2> QED
    BY <2>5, <2>6, <2>7
<1>17. \A c \in snap.caps : ~(0 >= c.max)
  <2> SUFFICES ASSUME NEW d \in docs, d.table = "caps" PROVE ~(0 >= d.row.max)
    BY <1>4 DEF Of
  <2>1. PICK k \in Kept : d = RowsFor[m][k]
    <3>1. ~FromTheService(d)
      BY DEF FromTheService
    <3>2. ~Rewritten(d)
      BY DEF Rewritten
    <3> QED
      BY <3>1, <3>2 DEF SeedIsIn
  <2>2. m \in Customers
    BY DEF SeedIsIn
  <2>3. PICK x \in Seeded("caps") : d.row = Retenant(x, m)
    <3>1. /\ ConsentPuts[k].row \in Seeded(ConsentPuts[k].table)
          /\ d.table = ConsentPuts[k].table /\ d.row = Retenant(ConsentPuts[k].row, m)
      BY <2>1, <2>2, RowsForIs
    <3> QED
      BY <3>1
  <2>4. d.row.max = x.max
    BY <2>3, RetenantKeeps DEF ConsentTable
  <2> QED
    BY <2>4, SeededLimits
<1> HIDE DEF t, q, snap, said, chosen, stopped, n
<1>18. Allowed(q, snap, Today, {}, 0)
         <=> /\ GrantReason(n, Today) = "consent_granted"
             /\ \E p \in snap.preferences : p.channel = q.channel
             /\ ~\E e \in snap.suppressions : Applies(e, q, Today)
  <2>1. \A c \in ConsentRules({}) : Match(q.purpose, c.purpose)
    BY DEF ConsentRules
  <2>2. /\ \A p \in snap.preferences : p.channel = q.channel => p.opted_in
        /\ \A p, x \in snap.preferences : p.channel = q.channel /\ x.channel = q.channel => p = x
    BY <1>4, <1>13, <1>14
  <2>3. snap.records = {n} /\ n.at \in Nat /\ n.id \in Nat /\ n.purpose = q.purpose
    BY <1>4, <1>9, <1>10, <1>11
  <2> QED
    BY <1>5, <1>17, <2>1, <2>2, <2>3, OneStatementDecides
<1>19. \A x \in said : x.status \in Vocabulary
  BY <1>9, <1>10, <1>11 DEF Vocabulary
<1>20. Contactable(t, s) <=> s \in {101, 104, 105, 201} /\ s # 105 /\ s # 104
  BY <1>4, <1>10, <1>12, <1>15, <1>16, <1>18, <1>19
<1> QED
  BY <1>20 DEF t

LEMMA ContactsHold == ManagedTypeOK /\ ManifestIsTrue /\ Origins => ContactsFollowTheManifest
<1> SUFFICES ASSUME ManagedTypeOK, ManifestIsTrue, Origins, manifest # None, mixed \subseteq {manifest},
                    NEW t \in Tenant, NEW s \in Subjects \ rewritten,
                    <<t.name, s>> \notin refused \/ t.other
             PROVE  Contactable(t, s)
                      <=> t = [name |-> manifest, other |-> s = 201] /\ s \in {101, 201}
  BY DEF ContactsFollowTheManifest
<1>1. PICK m \in Customers : m = manifest
  BY DEF ManagedTypeOK
<1>2. SeedIsIn(m)
  BY <1>1 DEF SeedIsIn, ManifestIsTrue, Origins, FromTheSeed
<1>3. [name |-> manifest, other |-> s = 201] = Home(m, s)
  BY <1>1 DEF Home
<1>4. CASE t # Home(m, s)
  BY <1>2, <1>3, <1>4, NotElsewhere
<1>5. CASE t = Home(m, s)
  <2>1. <<m, s>> \notin refused \/ s = 201
    BY <1>5 DEF Home
  <2> QED
    BY <1>2, <1>3, <1>5, <2>1, AsTheSeedSays
<1> QED
  BY <1>4, <1>5

\* Once the manifest names a customer, each seeded subject is as contactable
\* as the seed documents, under that customer and nowhere else.
THEOREM ContactsFollowTheManifestTheorem == Spec => []ContactsFollowTheManifest
<1> DEFINE Loading == ManagedTypeOK /\ LoadsGoOn /\ ManifestIsTrue /\ Origins
<1>1. Init => Loading
  <2> SUFFICES ASSUME Init PROVE LoadsGoOn /\ ManifestIsTrue /\ Origins
    BY TypeInit
  <2>1. \A o \in Operator : pc[o] = "ready"
    BY DEF Init
  <2>2. docs = {} /\ manifest = None
    BY DEF Init
  <2>3. None \notin Customers
    BY CustomersAssumption
  <2> QED
    BY <2>1, <2>2, <2>3 DEF LoadsGoOn, ManifestIsTrue, Origins
<1>2. Loading /\ [Next]_vars => Loading'
  BY TypeStep, LoadsStep, ManifestStep, OriginsStep
<1>3. Loading => ContactsFollowTheManifest
  BY ContactsHold
<1> QED
  BY <1>1, <1>2, <1>3, PTL DEF Spec
=============================================================================
