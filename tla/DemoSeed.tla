------------------------------ MODULE DemoSeed ------------------------------
(***************************************************************************)
(* What the SDK-free stores are seeded with: the six data subjects and the *)
(* neighbour tenant of adapters/local/_consent_seed.py, the rule pack and  *)
(* the evidence of adapters/local/_seed.py, in the order they are put.     *)
(* Only the columns a decision or a review reads are kept.                 *)
(***************************************************************************)
EXTENDS ConsentEngine, Sequences

Marketing == "marketing"

DemoSubjects  == {101, 102, 103, 104, 105, 106}
OtherSubjects == {201}

TenantOf(s) == IF s \in DemoSubjects THEN "demo-brand" ELSE "other-brand"

\* None is no day, and Blank no name there is.
ASSUME NothingAssumption ==
    /\ None \notin Nat
    /\ Blank \notin Nat \cup {Marketing, "demo-brand", "other-brand"}

-----------------------------------------------------------------------------
(* The consent store, subject by subject.                                  *)

\* A day, as the number its digits spell.
At(year, month, day) == 10000 * year + 100 * month + day

\* The days for which _consent_seed.py documents the decisions: the complaint of
\* subject 104 is in, and no grant but that of subject 103 has run out.
Documented == At(2026, 5, 4)..At(2030, 1, 4)

Statement(s, status, from, until, at) ==
    [id |-> s, tenant |-> TenantOf(s), subject |-> s, purpose |-> Marketing,
     status |-> status, from |-> from, until |-> until, at |-> at]

SEED_RECORDS ==
    << Statement(101, "granted", At(2026, 1, 5), At(2030, 1, 5), At(2026, 1, 5)),
       Statement(102, "withdrawn", None, None, At(2026, 4, 2)),
       Statement(103, "granted", At(2024, 6, 30), At(2025, 6, 30), At(2024, 6, 30)),
       Statement(104, "granted", At(2026, 2, 1), At(2030, 2, 1), At(2026, 2, 1)),
       Statement(105, "granted", At(2026, 3, 3), At(2030, 3, 3), At(2026, 3, 3)),
       Statement(106, "pending_review", None, None, At(2026, 7, 20)),
       Statement(201, "granted", At(2026, 1, 9), At(2030, 1, 9), At(2026, 1, 9)) >>

Choice(i, s, channel, in, at) ==
    [id |-> i, tenant |-> TenantOf(s), subject |-> s, channel |-> channel,
     opted_in |-> in, at |-> at]

SEED_PREFERENCES ==
    << Choice(1, 101, "email", TRUE, At(2026, 1, 5)), Choice(2, 101, "sms", FALSE, At(2026, 1, 5)),
       Choice(3, 102, "email", TRUE, At(2026, 1, 6)), Choice(4, 103, "email", TRUE, At(2024, 6, 30)),
       Choice(5, 104, "email", TRUE, At(2026, 2, 1)), Choice(6, 106, "email", TRUE, At(2026, 7, 20)),
       Choice(7, 201, "email", TRUE, At(2026, 1, 9)) >>

DoNotContact(i, s, from) ==
    [id |-> i, tenant |-> TenantOf(s), subject |-> s, scope |-> "all",
     channel |-> None, purpose |-> Blank, from |-> from, until |-> None]

SEED_SUPPRESSIONS == << DoNotContact(1, 104, At(2026, 5, 4)) >>

Limit(i, owner, channel, max) ==
    [id |-> i, tenant |-> owner, channel |-> channel, max |-> max, purpose |-> Blank]

SEED_CAPS ==
    << Limit(1, "demo-brand", "email", 3), Limit(2, "demo-brand", "sms", 1),
       Limit(3, "other-brand", "email", 2) >>

Rows(table, seq) == [i \in 1..Len(seq) |-> [table |-> table, row |-> seq[i]]]

\* The rows of the consent store in the order they are put.
ConsentPuts ==
    Rows("records", SEED_RECORDS) \o Rows("preferences", SEED_PREFERENCES)
        \o Rows("suppressions", SEED_SUPPRESSIONS) \o Rows("caps", SEED_CAPS)

-----------------------------------------------------------------------------
(* The rule pack, market by market and vertical by vertical.               *)

Markets   == {"SG", "JP", "AU"}
Verticals == {"banking", "online_retail"}

\* The checks of one market and vertical beside its consent rule.
OtherChecks(m, v) ==
    {"forbidden_phrase"} \cup
    (IF v = "banking" \/ m = "JP" THEN {"required_disclosure"} ELSE {"numeric_max"}) \cup
    (IF m = "SG" THEN {"required_field"} ELSE {})

Rule(m, v, kind, check, purpose) ==
    [market |-> m, vertical |-> v, kind |-> kind, check |-> check, purpose |-> purpose]

ALL_RULES ==
    UNION {{Rule(m, v, "consent", "consent_required", Marketing)} \cup
           {Rule(m, v, IF c = "required_field" THEN "permission" ELSE "claim", c, Blank) :
                c \in OtherChecks(m, v)} : m \in Markets, v \in Verticals}

-----------------------------------------------------------------------------
(* The substantiation evidence: which tenant holds which kind for which    *)
(* asset.                                                                  *)

Held(i, owner, asset, kind) ==
    [id |-> i, tenant |-> owner, asset |-> asset, kind |-> kind]

SEED_EVIDENCE ==
    << Held(1, "demo-brand", "green-au", "emissions_inventory"),
       Held(2, "demo-brand", "green-au", "carbon_offset_retirement"),
       Held(3, "demo-brand", "green-au", "third_party_certification"),
       Held(4, "demo-brand", "green-sg", "fund_esg_disclosure"),
       Held(5, "demo-brand", "green-sg", "third_party_certification"),
       Held(6, "other-brand", "green-au", "carbon_offset_retirement") >>
=============================================================================
