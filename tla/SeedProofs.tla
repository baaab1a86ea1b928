----------------------------- MODULE SeedProofs -----------------------------
(***************************************************************************)
(* The lemmas on the demo seed that the proofs about both of its stores    *)
(* rest on: the rows of each table, what they say of each subject on the   *)
(* documented days, and that no two of a table share an id.                *)
(***************************************************************************)
EXTENDS DemoSeed, EngineProofs, SequenceTheorems

-----------------------------------------------------------------------------
(* The rows of the seed.                                                   *)

\* Rows of a table are a sequence like the one they are made of.
LEMMA RowsAreASequence ==
    ASSUME NEW t, NEW S, NEW q \in Seq(S)
    PROVE  /\ Rows(t, q) \in Seq([table: {t}, row: S]) /\ Len(Rows(t, q)) = Len(q)
           /\ \A i \in 1..Len(q) : Rows(t, q)[i] = [table |-> t, row |-> q[i]]
BY DEF Rows

\* What a table of the seed holds.
Seeded(t) ==
    CASE t = "records"      -> Range(SEED_RECORDS)
      [] t = "preferences"  -> Range(SEED_PREFERENCES)
      [] t = "suppressions" -> Range(SEED_SUPPRESSIONS)
      [] t = "caps"         -> Range(SEED_CAPS)
      [] OTHER              -> {}

\* A list of seven (the longest of the seed).
LEMMA SevenInARow ==
    ASSUME NEW a, NEW b, NEW c, NEW d, NEW e, NEW f, NEW g
    PROVE  /\ <<a, b, c, d, e, f, g>> \in Seq(Range(<<a, b, c, d, e, f, g>>))
           /\ Len(<<a, b, c, d, e, f, g>>) = 7
           /\ Range(<<a, b, c, d, e, f, g>>) = {a, b, c, d, e, f, g}
BY DEF Range

LEMMA SeedLengths ==
    /\ SEED_RECORDS \in Seq(Seeded("records")) /\ Len(SEED_RECORDS) = 7
    /\ SEED_PREFERENCES \in Seq(Seeded("preferences")) /\ Len(SEED_PREFERENCES) = 7
    /\ SEED_SUPPRESSIONS \in Seq(Seeded("suppressions")) /\ Len(SEED_SUPPRESSIONS) = 1
    /\ SEED_CAPS \in Seq(Seeded("caps")) /\ Len(SEED_CAPS) = 3
<1>1. SEED_RECORDS \in Seq(Seeded("records")) /\ Len(SEED_RECORDS) = 7
  BY SMT DEF SEED_RECORDS, Seeded, Range
<1>2. SEED_PREFERENCES \in Seq(Seeded("preferences")) /\ Len(SEED_PREFERENCES) = 7
  <2> DEFINE p1 == Choice(1, 101, "email", TRUE, At(2026, 1, 5))
             p2 == Choice(2, 101, "sms", FALSE, At(2026, 1, 5))
             p3 == Choice(3, 102, "email", TRUE, At(2026, 1, 6))
             p4 == Choice(4, 103, "email", TRUE, At(2024, 6, 30))
             p5 == Choice(5, 104, "email", TRUE, At(2026, 2, 1))
             p6 == Choice(6, 106, "email", TRUE, At(2026, 7, 20))
             p7 == Choice(7, 201, "email", TRUE, At(2026, 1, 9))
  <2>1. SEED_PREFERENCES = <<p1, p2, p3, p4, p5, p6, p7>>
    BY DEF SEED_PREFERENCES
  <2> HIDE DEF p1, p2, p3, p4, p5, p6, p7
  <2> QED
    BY <2>1, SevenInARow DEF Seeded
<1>3. SEED_SUPPRESSIONS \in Seq(Seeded("suppressions")) /\ Len(SEED_SUPPRESSIONS) = 1
  BY SMT DEF SEED_SUPPRESSIONS, Seeded, Range
<1>4. SEED_CAPS \in Seq(Seeded("caps")) /\ Len(SEED_CAPS) = 3
  BY SMT DEF SEED_CAPS, Seeded, Range
<1> QED
  BY <1>1, <1>2, <1>3, <1>4

LEMMA RangeOfConcat ==
    ASSUME NEW S, NEW p \in Seq(S), NEW q \in Seq(S)
    PROVE  /\ p \o q \in Seq(S) /\ Len(p \o q) = Len(p) + Len(q)
           /\ Range(p \o q) = Range(p) \cup Range(q)
           /\ Len(p) > 0 => (p \o q)[1] = p[1]
<1>1. /\ p \o q \in Seq(S) /\ Len(p \o q) = Len(p) + Len(q)
      /\ \A i \in 1..Len(p) + Len(q) : (p \o q)[i] = IF i <= Len(p) THEN p[i] ELSE q[i - Len(p)]
  BY ConcatProperties
<1>2. Len(p) \in Nat /\ Len(q) \in Nat
  OBVIOUS
<1>3. Range(p \o q) \subseteq Range(p) \cup Range(q)
  <2> SUFFICES ASSUME NEW i \in 1..Len(p) + Len(q)
               PROVE  (p \o q)[i] \in Range(p) \cup Range(q)
    BY <1>1 DEF Range
  <2>1. CASE i <= Len(p)
    BY <1>1, <1>2, <2>1 DEF Range
  <2>2. CASE i > Len(p)
    <3>1. i - Len(p) \in DOMAIN q
      BY <1>2, <2>2
    <3> QED
      BY <1>1, <1>2, <2>2, <3>1 DEF Range
  <2> QED
    BY <1>2, <2>1, <2>2
<1>4. Range(p) \subseteq Range(p \o q)
  <2> SUFFICES ASSUME NEW i \in 1..Len(p) PROVE p[i] \in Range(p \o q)
    BY DEF Range
  <2>1. i \in 1..Len(p) + Len(q) /\ (p \o q)[i] = p[i]
    BY <1>1, <1>2
  <2> QED
    BY <1>1, <2>1 DEF Range
<1>5. Range(q) \subseteq Range(p \o q)
  <2> SUFFICES ASSUME NEW i \in 1..Len(q) PROVE q[i] \in Range(p \o q)
    BY DEF Range
  <2>1. i + Len(p) \in 1..Len(p) + Len(q) /\ ~(i + Len(p) <= Len(p)) /\ (i + Len(p)) - Len(p) = i
    BY <1>2
  <2>2. (p \o q)[i + Len(p)] = q[i]
    BY <1>1, <2>1
  <2> QED
    BY <1>1, <2>1, <2>2 DEF Range
<1>6. Len(p) > 0 => (p \o q)[1] = p[1]
  <2>1. Len(p) > 0 => 1 \in 1..Len(p) + Len(q) /\ 1 <= Len(p)
    BY <1>2
  <2> QED
    BY <1>1, <2>1
<1> QED
  BY <1>1, <1>3, <1>4, <1>5, <1>6

LEMMA Joined ==
    ASSUME NEW S, NEW p \in Seq(S), NEW q \in Seq(S), Len(p) > 0, NEW j, j = p \o q
    PROVE  /\ j \in Seq(S) /\ Len(j) = Len(p) + Len(q) /\ Len(j) > 0
           /\ \A x : x \in Range(j) <=> x \in Range(p) \/ x \in Range(q)
           /\ j[1] = p[1]
<1>1. Len(p) \in Nat /\ Len(q) \in Nat /\ Len(j) = Len(p) + Len(q)
  BY ConcatProperties
<1>2. Range(p \o q) = Range(p) \cup Range(q)
  BY RangeOfConcat
<1>3. j \in Seq(S) /\ j[1] = p[1]
  BY <1>1, RangeOfConcat
<1> QED
  BY <1>1, <1>2, <1>3

ConsentRows ==
    {[table |-> "records", row |-> r] : r \in Seeded("records")}
        \cup {[table |-> "preferences", row |-> r] : r \in Seeded("preferences")}
        \cup {[table |-> "suppressions", row |-> r] : r \in Seeded("suppressions")}
        \cup {[table |-> "caps", row |-> r] : r \in Seeded("caps")}

LEMMA RangeOfRows ==
    ASSUME NEW t, NEW S, NEW q \in Seq(S)
    PROVE  Range(Rows(t, q)) = {[table |-> t, row |-> r] : r \in Range(q)}
BY DEF Rows, Range

LEMMA ConsentPutsAre ==
    /\ ConsentPuts \in Seq(Range(ConsentPuts)) /\ Len(ConsentPuts) = 18
    /\ Range(ConsentPuts) = ConsentRows
    /\ ConsentPuts[1] \in ConsentRows /\ ConsentPuts[1].table = "records"
<1> DEFINE R == Rows("records", SEED_RECORDS)
           P == Rows("preferences", SEED_PREFERENCES)
           E == Rows("suppressions", SEED_SUPPRESSIONS)
           C == Rows("caps", SEED_CAPS)
           All == Range(R) \cup Range(P) \cup Range(E) \cup Range(C)
<1>1. Len(R) = 7 /\ R[1].table = "records" /\ Len(P) = 7 /\ Len(E) = 1 /\ Len(C) = 3
  BY SeedLengths DEF Rows
<1>2. /\ Range(R) = {[table |-> "records", row |-> r] : r \in Seeded("records")}
      /\ Range(P) = {[table |-> "preferences", row |-> r] : r \in Seeded("preferences")}
      /\ Range(E) = {[table |-> "suppressions", row |-> r] : r \in Seeded("suppressions")}
      /\ Range(C) = {[table |-> "caps", row |-> r] : r \in Seeded("caps")}
  BY SeedLengths, RangeOfRows DEF Seeded
<1>3. R \in Seq(All) /\ P \in Seq(All) /\ E \in Seq(All) /\ C \in Seq(All)
  BY SeedLengths DEF Rows, Range
<1>4. R[1] \in All
  BY SeedLengths DEF Rows, Range
<1>5. All = ConsentRows
  BY <1>2 DEF ConsentRows
<1> HIDE DEF R, P, E, C, All
<1>6. Len(R) > 0
  BY <1>1
<1>7. PICK RP : RP = R \o P
  OBVIOUS
<1>8. PICK RPE : RPE = RP \o E
  OBVIOUS
<1>9. PICK RPEC : RPEC = RPE \o C
  OBVIOUS
<1>10. RP \in Seq(All) /\ Len(RP) > 0
  BY <1>3, <1>6, <1>7, Joined
<1>11. Len(RP) = Len(R) + Len(P) /\ RP[1] = R[1]
  BY <1>3, <1>6, <1>7, Joined
<1>12. \A x : x \in Range(RP) <=> x \in Range(R) \/ x \in Range(P)
  BY <1>3, <1>6, <1>7, Joined
<1>13. RPE \in Seq(All) /\ Len(RPE) > 0
  BY <1>3, <1>8, <1>10, Joined
<1>14. Len(RPE) = Len(RP) + Len(E) /\ RPE[1] = RP[1]
  BY <1>3, <1>8, <1>10, Joined
<1>15. \A x : x \in Range(RPE) <=> x \in Range(RP) \/ x \in Range(E)
  BY <1>3, <1>8, <1>10, Joined
<1>16. RPEC \in Seq(All) /\ Len(RPEC) > 0
  BY <1>3, <1>9, <1>13, Joined
<1>17. Len(RPEC) = Len(RPE) + Len(C) /\ RPEC[1] = RPE[1]
  BY <1>3, <1>9, <1>13, Joined
<1>18. \A x : x \in Range(RPEC) <=> x \in Range(RPE) \/ x \in Range(C)
  BY <1>3, <1>9, <1>13, Joined
<1>19. RPEC = ConsentPuts
  BY <1>7, <1>8, <1>9 DEF ConsentPuts, R, P, E, C
<1>20. Range(RPEC) = All
  BY <1>12, <1>15, <1>18 DEF All
<1>21. Len(RPEC) = 18
  BY <1>1, <1>11, <1>14, <1>17
<1> QED
  BY <1>1, <1>4, <1>5, <1>11, <1>14, <1>16, <1>17, <1>19, <1>20, <1>21

-----------------------------------------------------------------------------
(* What the seed says of its subjects.                                     *)

DemoSubject == DemoSubjects \cup OtherSubjects

\* Each subject makes one statement, and four of them are grants in force.
LEMMA SeededStatements ==
    ASSUME NEW t \in Documented
    PROVE
    LET rows == Seeded("records")
    IN  /\ \A r \in rows : /\ r.tenant = TenantOf(r.subject) /\ r.purpose = Marketing
                           /\ r.at \in Nat /\ r.id = r.subject /\ r.id \in 101..201
                           /\ r.status \in {"granted", "withdrawn", "pending_review"}
                           /\ r.status = "granted" => r.at < t
                           /\ GrantReason(r, t) = "consent_granted"
                                  <=> r.subject \in {101, 104, 105, 201}
        /\ \A r, x \in rows : r.subject = x.subject => r = x
        /\ \A s \in DemoSubject : \E r \in rows : r.subject = s
<1> DEFINE r1 == Statement(101, "granted", At(2026, 1, 5), At(2030, 1, 5), At(2026, 1, 5))
           r2 == Statement(102, "withdrawn", None, None, At(2026, 4, 2))
           r3 == Statement(103, "granted", At(2024, 6, 30), At(2025, 6, 30), At(2024, 6, 30))
           r4 == Statement(104, "granted", At(2026, 2, 1), At(2030, 2, 1), At(2026, 2, 1))
           r5 == Statement(105, "granted", At(2026, 3, 3), At(2030, 3, 3), At(2026, 3, 3))
           r6 == Statement(106, "pending_review", None, None, At(2026, 7, 20))
           r7 == Statement(201, "granted", At(2026, 1, 9), At(2030, 1, 9), At(2026, 1, 9))
           said == {r1, r2, r3, r4, r5, r6, r7}
<1>1. Seeded("records") = said
  BY SevenInARow DEF Seeded, SEED_RECORDS
<1>2. ASSUME NEW u, NEW st, NEW f, NEW g, NEW a, NEW r, r = Statement(u, st, f, g, a)
      PROVE  /\ r.id = u /\ r.subject = u /\ r.tenant = TenantOf(u) /\ r.purpose = Marketing
             /\ r.status = st /\ r.from = f /\ r.until = g /\ r.at = a
  BY <1>2 DEF Statement
<1>3. \A r \in said : r.tenant = TenantOf(r.subject) /\ r.purpose = Marketing /\ r.id = r.subject
  BY <1>2
<1>4. /\ r1.subject = 101 /\ r2.subject = 102 /\ r3.subject = 103 /\ r4.subject = 104
      /\ r5.subject = 105 /\ r6.subject = 106 /\ r7.subject = 201
  BY <1>2
<1>5. /\ r1.at \in Nat /\ r2.at \in Nat /\ r3.at \in Nat /\ r4.at \in Nat /\ r5.at \in Nat
      /\ r6.at \in Nat /\ r7.at \in Nat
  <2>1. /\ r1.at = At(2026, 1, 5) /\ r2.at = At(2026, 4, 2) /\ r3.at = At(2024, 6, 30)
        /\ r4.at = At(2026, 2, 1) /\ r5.at = At(2026, 3, 3) /\ r6.at = At(2026, 7, 20)
        /\ r7.at = At(2026, 1, 9)
    BY <1>2
  <2> HIDE DEF r1, r2, r3, r4, r5, r6, r7
  <2> QED
    BY <2>1, SMT DEF At
<1>6. ASSUME NEW r, NEW f \in Nat, NEW g \in Nat, r.status = "granted", r.from = f, r.until = g
      PROVE  GrantReason(r, t) = "consent_granted" <=> f <= t /\ ~(g <= t)
  BY <1>6, NothingAssumption DEF GrantReason, WindowReason, Started, Lapsed
<1>7. GrantReason(r1, t) = "consent_granted"
  <2>1. r1.status = "granted" /\ r1.from = At(2026, 1, 5) /\ r1.until = At(2030, 1, 5)
    BY <1>2
  <2>2. At(2026, 1, 5) \in Nat /\ At(2030, 1, 5) \in Nat /\ At(2026, 1, 5) <= t /\ ~(At(2030, 1, 5) <= t)
    BY SMT DEF At, Documented
  <2> HIDE DEF r1
  <2> QED
    BY <1>6, <2>1, <2>2
<1>8. GrantReason(r3, t) # "consent_granted"
  <2>1. r3.status = "granted" /\ r3.from = At(2024, 6, 30) /\ r3.until = At(2025, 6, 30)
    BY <1>2
  <2>2. At(2024, 6, 30) \in Nat /\ At(2025, 6, 30) \in Nat /\ At(2025, 6, 30) <= t
    BY SMT DEF At, Documented
  <2> HIDE DEF r3
  <2> QED
    BY <1>6, <2>1, <2>2
<1>9. GrantReason(r4, t) = "consent_granted"
  <2>1. r4.status = "granted" /\ r4.from = At(2026, 2, 1) /\ r4.until = At(2030, 2, 1)
    BY <1>2
  <2>2. At(2026, 2, 1) \in Nat /\ At(2030, 2, 1) \in Nat /\ At(2026, 2, 1) <= t /\ ~(At(2030, 2, 1) <= t)
    BY SMT DEF At, Documented
  <2> HIDE DEF r4
  <2> QED
    BY <1>6, <2>1, <2>2
<1>10. GrantReason(r5, t) = "consent_granted"
  <2>1. r5.status = "granted" /\ r5.from = At(2026, 3, 3) /\ r5.until = At(2030, 3, 3)
    BY <1>2
  <2>2. At(2026, 3, 3) \in Nat /\ At(2030, 3, 3) \in Nat /\ At(2026, 3, 3) <= t /\ ~(At(2030, 3, 3) <= t)
    BY SMT DEF At, Documented
  <2> HIDE DEF r5
  <2> QED
    BY <1>6, <2>1, <2>2
<1>11. GrantReason(r7, t) = "consent_granted"
  <2>1. r7.status = "granted" /\ r7.from = At(2026, 1, 9) /\ r7.until = At(2030, 1, 9)
    BY <1>2
  <2>2. At(2026, 1, 9) \in Nat /\ At(2030, 1, 9) \in Nat /\ At(2026, 1, 9) <= t /\ ~(At(2030, 1, 9) <= t)
    BY SMT DEF At, Documented
  <2> HIDE DEF r7
  <2> QED
    BY <1>6, <2>1, <2>2
<1>12. GrantReason(r2, t) # "consent_granted" /\ GrantReason(r6, t) # "consent_granted"
  <2>1. r2.status = "withdrawn" /\ r6.status = "pending_review"
    BY <1>2
  <2> HIDE DEF r2, r6
  <2> QED
    BY <2>1 DEF GrantReason
<1>17. /\ r1.status = "granted" /\ r2.status = "withdrawn" /\ r3.status = "granted"
       /\ r4.status = "granted" /\ r5.status = "granted" /\ r6.status = "pending_review"
       /\ r7.status = "granted"
  BY <1>2
<1>18. r1.at < t /\ r3.at < t /\ r4.at < t /\ r5.at < t /\ r7.at < t
  <2>1. /\ r1.at = At(2026, 1, 5) /\ r3.at = At(2024, 6, 30) /\ r4.at = At(2026, 2, 1)
        /\ r5.at = At(2026, 3, 3) /\ r7.at = At(2026, 1, 9)
    BY <1>2
  <2> HIDE DEF r1, r2, r3, r4, r5, r6, r7
  <2> QED
    BY <2>1, SMT DEF At, Documented
<1> HIDE DEF r1, r2, r3, r4, r5, r6, r7
<1>13. \A r \in said : r.at \in Nat /\ r.id \in 101..201
  BY <1>3, <1>4, <1>5
<1>19. \A r \in said : /\ r.status \in {"granted", "withdrawn", "pending_review"}
                       /\ r.status = "granted" => r.at < t
  BY <1>17, <1>18
<1>14. \A r \in said : GrantReason(r, t) = "consent_granted" <=> r.subject \in {101, 104, 105, 201}
  BY <1>4, <1>7, <1>8, <1>9, <1>10, <1>11, <1>12
<1>15. \A r, x \in said : r.subject = x.subject => r = x
  BY <1>4
<1>16. \A s \in DemoSubject : \E r \in said : r.subject = s
  BY <1>4 DEF DemoSubject, DemoSubjects, OtherSubjects
<1> HIDE DEF said
<1> QED
  BY <1>1, <1>3, <1>13, <1>14, <1>15, <1>16, <1>19

\* Every subject but 105 has one opt-in for e-mail.
LEMMA SeededPreferences ==
    LET rows == {p \in Seeded("preferences") : p.channel = "email"}
    IN  /\ \A p \in rows : p.tenant = TenantOf(p.subject) /\ p.opted_in /\ p.subject # 105
        /\ \A p, x \in rows : p.subject = x.subject => p = x
        /\ \A s \in DemoSubject \ {105} : \E p \in rows : p.subject = s
<1> DEFINE p1 == Choice(1, 101, "email", TRUE, At(2026, 1, 5))
           p2 == Choice(2, 101, "sms", FALSE, At(2026, 1, 5))
           p3 == Choice(3, 102, "email", TRUE, At(2026, 1, 6))
           p4 == Choice(4, 103, "email", TRUE, At(2024, 6, 30))
           p5 == Choice(5, 104, "email", TRUE, At(2026, 2, 1))
           p6 == Choice(6, 106, "email", TRUE, At(2026, 7, 20))
           p7 == Choice(7, 201, "email", TRUE, At(2026, 1, 9))
           chosen == {p1, p2, p3, p4, p5, p6, p7}
<1>1. SEED_PREFERENCES = <<p1, p2, p3, p4, p5, p6, p7>>
  BY DEF SEED_PREFERENCES
<1>3. /\ p1.subject = 101 /\ p3.subject = 102 /\ p4.subject = 103 /\ p5.subject = 104
      /\ p6.subject = 106 /\ p7.subject = 201
  BY DEF Choice
<1>4. /\ p1.tenant = TenantOf(101) /\ p3.tenant = TenantOf(102) /\ p4.tenant = TenantOf(103)
      /\ p5.tenant = TenantOf(104) /\ p6.tenant = TenantOf(106) /\ p7.tenant = TenantOf(201)
  BY DEF Choice
<1>5. /\ p1.channel = "email" /\ p3.channel = "email" /\ p4.channel = "email"
      /\ p5.channel = "email" /\ p6.channel = "email" /\ p7.channel = "email" /\ p2.channel = "sms"
  BY DEF Choice
<1>6. p1.opted_in /\ p3.opted_in /\ p4.opted_in /\ p5.opted_in /\ p6.opted_in /\ p7.opted_in
  BY DEF Choice
<1> HIDE DEF p1, p2, p3, p4, p5, p6, p7
<1>7. Seeded("preferences") = chosen
  BY <1>1, SevenInARow DEF Seeded
<1> DEFINE mailed == {p1, p3, p4, p5, p6, p7}
<1>8. {p \in chosen : p.channel = "email"} = mailed
  BY <1>5
<1>9. \A p \in mailed : p.tenant = TenantOf(p.subject) /\ p.opted_in /\ p.subject # 105
  BY <1>3, <1>4, <1>6
<1>10. \A p, x \in mailed : p.subject = x.subject => p = x
  BY <1>3
<1>11. \A s \in DemoSubject \ {105} : \E p \in mailed : p.subject = s
  BY <1>3 DEF DemoSubject, DemoSubjects, OtherSubjects
<1> HIDE DEF mailed, chosen
<1> QED
  BY <1>7, <1>8, <1>9, <1>10, <1>11

\* Subject 104 has complained, and every allowance lets a first message through.
LEMMA SeededLimits ==
    /\ Seeded("suppressions") = {DoNotContact(1, 104, At(2026, 5, 4))}
    /\ \A c \in Seeded("caps") : ~(0 >= c.max)
<1>1. Seeded("suppressions") = {DoNotContact(1, 104, At(2026, 5, 4))}
  BY SMT DEF Seeded, SEED_SUPPRESSIONS, Range
<1>2. Seeded("caps") = {Limit(1, "demo-brand", "email", 3), Limit(2, "demo-brand", "sms", 1),
                        Limit(3, "other-brand", "email", 2)}
  BY SMT DEF Seeded, SEED_CAPS, Range
<1>3. \A c \in Seeded("caps") : c.max \in {1, 2, 3}
  BY <1>2 DEF Limit
<1> QED
  BY <1>1, <1>3

-----------------------------------------------------------------------------
(* Rows and their keys.                                                    *)

ConsentTable == {"records", "preferences", "suppressions", "caps"}

\* A row of the seed is in the table it was put in.
LEMMA RowsAreSeeded ==
    ASSUME NEW t \in ConsentTable, NEW v
    PROVE  (\E x \in ConsentRows : x.table = t /\ x.row = v) <=> v \in Seeded(t)
<1> DEFINE put(u) == {[table |-> u, row |-> r] : r \in Seeded(u)}
<1>1. ASSUME NEW u, NEW x \in put(u) PROVE x.table = u /\ x.row \in Seeded(u)
  OBVIOUS
<1>2. ASSUME NEW r \in Seeded(t) PROVE \E x \in put(t) : x.table = t /\ x.row = r
  <2> DEFINE x == [table |-> t, row |-> r]
  <2>1. x \in put(t) /\ x.table = t /\ x.row = r
    OBVIOUS
  <2> HIDE DEF x, put
  <2> QED
    BY <2>1
<1>3. ConsentRows = put("records") \cup put("preferences") \cup put("suppressions") \cup put("caps")
  BY DEF ConsentRows
<1> HIDE DEF put
<1>4. (\E x \in ConsentRows : x.table = t /\ x.row = v) => v \in Seeded(t)
  BY <1>1, <1>3
<1>5. v \in Seeded(t) => \E x \in ConsentRows : x.table = t /\ x.row = v
  BY <1>2, <1>3 DEF ConsentTable
<1> QED
  BY <1>4, <1>5

\* A put writes a row, in one of the tables, as it is.
LEMMA PutsAreRows ==
    ASSUME NEW x \in ConsentRows
    PROVE  /\ x.table \in ConsentTable /\ x.row \in Seeded(x.table)
           /\ x = [table |-> x.table, row |-> x.row]
BY DEF ConsentRows, ConsentTable

\* No two rows of a table share an id, and the ids leave those above 1000 free.
LEMMA SeededKeys ==
    ASSUME NEW t \in ConsentTable
    PROVE  /\ \A r \in Seeded(t) : r.id \in Nat /\ r.id < 1000
           /\ \A r, x \in Seeded(t) : r.id = x.id => r = x
<1>1. CASE t = "records"
  <2>1. At(2026, 5, 4) \in Documented
    BY SMT DEF At, Documented
  <2>2. \A r \in Seeded("records") : r.id = r.subject /\ r.id \in 101..201
    BY <2>1, SeededStatements
  <2>3. \A r, x \in Seeded("records") : r.subject = x.subject => r = x
    BY <2>1, SeededStatements
  <2> QED
    BY <1>1, <2>2, <2>3
<1>2. CASE t = "preferences"
  <2> DEFINE p1 == Choice(1, 101, "email", TRUE, At(2026, 1, 5))
             p2 == Choice(2, 101, "sms", FALSE, At(2026, 1, 5))
             p3 == Choice(3, 102, "email", TRUE, At(2026, 1, 6))
             p4 == Choice(4, 103, "email", TRUE, At(2024, 6, 30))
             p5 == Choice(5, 104, "email", TRUE, At(2026, 2, 1))
             p6 == Choice(6, 106, "email", TRUE, At(2026, 7, 20))
             p7 == Choice(7, 201, "email", TRUE, At(2026, 1, 9))
  <2>1. SEED_PREFERENCES = <<p1, p2, p3, p4, p5, p6, p7>>
    BY DEF SEED_PREFERENCES
  <2>2. /\ p1.id = 1 /\ p2.id = 2 /\ p3.id = 3 /\ p4.id = 4 /\ p5.id = 5 /\ p6.id = 6 /\ p7.id = 7
    BY DEF Choice
  <2> HIDE DEF p1, p2, p3, p4, p5, p6, p7
  <2>3. Seeded("preferences") = {p1, p2, p3, p4, p5, p6, p7}
    BY <2>1, SevenInARow DEF Seeded
  <2> QED
    BY <1>2, <2>2, <2>3
<1>3. CASE t = "suppressions"
  <2>1. Seeded("suppressions") = {DoNotContact(1, 104, At(2026, 5, 4))}
    BY SeededLimits
  <2>2. DoNotContact(1, 104, At(2026, 5, 4)).id = 1
    BY DEF DoNotContact
  <2> QED
    BY <1>3, <2>1, <2>2
<1>4. CASE t = "caps"
  <2> DEFINE c1 == Limit(1, "demo-brand", "email", 3)
             c2 == Limit(2, "demo-brand", "sms", 1)
             c3 == Limit(3, "other-brand", "email", 2)
  <2>1. Seeded("caps") = {c1, c2, c3}
    BY SMT DEF Seeded, SEED_CAPS, Range
  <2>2. c1.id = 1 /\ c2.id = 2 /\ c3.id = 3
    BY DEF Limit
  <2> HIDE DEF c1, c2, c3
  <2> QED
    BY <1>4, <2>1, <2>2
<1> QED
  BY <1>1, <1>2, <1>3, <1>4 DEF ConsentTable
=============================================================================
