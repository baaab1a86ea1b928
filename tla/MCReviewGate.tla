---------------------------- MODULE MCReviewGate ----------------------------
(* Instances of ReviewGate: two worker threads, a principal of tenant t1,  *)
(* one of t2 and one without a tenant; an asset addressed to a person, one *)
(* that addresses nobody and makes no claim, and a market without rules;   *)
(* the green-claim pack is what the loader makes of a file.                *)
EXTENDS ReviewGate, GreenPack

CONSTANTS t1, t2, s1, news, sg, jp, promo, plain, neutral, recyclable,
          inventory, offset, ann, cat, dan, w1, w2,
          guaranteed, terms, carbonNeutral, canRecycle, apr, form

MCFold == [p \in {news, Blank} |-> p]

MCTenantOf == [p \in Principal |-> IF p = ann THEN t1 ELSE IF p = cat THEN t2 ELSE Blank]

NoSeed == [i \in Id |-> None]

Row(status) ==
    [id |-> 1, tenant |-> t1, subject |-> s1, purpose |-> news, status |-> status,
     basis |-> "explicit_opt_in", source |-> form, proof |-> form, from |-> None,
     until |-> None, at |-> 0]

MCSeedRecords == [i \in Id |-> Row("granted")]
MCRecordWrites == {Row("withdrawn")}

Rule(id, kind, check, severity) ==
    [id |-> id, kind |-> kind, check |-> check, severity |-> severity, patterns |-> {},
     field |-> apr, limit |-> None, purpose |-> Blank, market |-> sg, categories |-> {}]

MCRuleBook ==
    [m \in {sg, jp} |->
        IF m = jp THEN {}
        ELSE {[Rule(1, "claim", "forbidden_phrase", "critical") EXCEPT !.patterns = {guaranteed}],
              [Rule(2, "permission", "numeric_max", "low") EXCEPT !.limit = 5],
              [Rule(3, "consent", "consent_required", "high") EXCEPT !.purpose = news]}]

MCMarketOf == [m \in {sg, jp} |-> IF m = sg THEN "SG" ELSE "JP"]
MCVerticalOf == [m \in {sg, jp} |-> IF m = sg THEN "banking" ELSE "online_retail"]

Requirement(kinds, verified) ==
    [kinds |-> kinds, maxAge |-> 1, verified |-> verified, citation |-> "guide"]

MCRule ==
    [id |-> 4, check |-> "required_disclosure", severity |-> "low", citation |-> "guide",
     verticals |-> {"banking"}, patterns |-> {terms}, field |-> Blank, categories |-> {neutral}]

MCJurisdiction(m) ==
    [categories |-> IF m = "SG" THEN Absent ELSE [c \in {recyclable} |-> {canRecycle, Blank}],
     requirements |->
        [c \in (IF m = "SG" THEN Category ELSE {neutral}) |->
            Requirement(IF c = neutral THEN {inventory, offset} ELSE {inventory}, c = neutral)],
     rules |-> {MCRule}]

MCFile ==
    [citations |-> [i \in {"guide"} |-> [title |-> "a guide", type |-> Absent]],
     categories |-> [c \in Category |-> IF c = neutral THEN {carbonNeutral} ELSE {canRecycle}],
     jurisdictions |-> [m \in {"SG", "JP"} |-> MCJurisdiction(m)]]

\* Named, so that TLC loads the file once.
Loaded == LoadPack(MCFile)
MCPack == Loaded

\* A file without markets but Singapore's.
SingaporeOnly(jurisdiction) ==
    [MCFile EXCEPT !.jurisdictions = [m \in {"SG"} |-> jurisdiction]]

BrokenRules ==
    {Malformed, Falsy, [MCRule EXCEPT !.id = Blank], [MCRule EXCEPT !.check = "substantiated"],
     [MCRule EXCEPT !.citation = Blank], [MCRule EXCEPT !.verticals = {}],
     [MCRule EXCEPT !.verticals = {"banking", "insurance"}], [MCRule EXCEPT !.patterns = {}],
     [MCRule EXCEPT !.check = "required_field"], [MCRule EXCEPT !.categories = {canRecycle}],
     [MCRule EXCEPT !.severity = "severe"], [MCRule EXCEPT !.severity = Falsy]}

BrokenRequirements ==
    {Malformed, [Requirement({}, TRUE) EXCEPT !.kinds = Malformed], Requirement({}, TRUE),
     Requirement({terms}, TRUE), [Requirement({offset}, TRUE) EXCEPT !.citation = "hearsay"],
     [Requirement({offset}, TRUE) EXCEPT !.maxAge = Absent],
     [Requirement({offset}, TRUE) EXCEPT !.maxAge = -1]}

BrokenJurisdictions ==
    {Malformed, [MCJurisdiction("SG") EXCEPT !.categories = Malformed],
     [MCJurisdiction("SG") EXCEPT !.categories = [c \in {neutral} |-> Falsy]],
     [MCJurisdiction("SG") EXCEPT !.categories = [c \in {terms} |-> {}]],
     [MCJurisdiction("SG") EXCEPT !.requirements = Falsy],
     [MCJurisdiction("SG") EXCEPT !.rules = {}]}
    \cup {[MCJurisdiction("SG") EXCEPT !.rules = @ \cup {r}] : r \in BrokenRules}
    \cup {[MCJurisdiction("SG") EXCEPT !.requirements[neutral] = r] : r \in BrokenRequirements}

BrokenFiles ==
    {Absent, Malformed, [MCFile EXCEPT !.citations = Absent],
     [MCFile EXCEPT !.citations["guide"] = Falsy],
     [MCFile EXCEPT !.citations["guide"].title = Blank],
     [MCFile EXCEPT !.citations["guide"].type = "hearsay"], [MCFile EXCEPT !.jurisdictions = Absent],
     [MCFile EXCEPT !.jurisdictions = [m \in {"NZ"} |-> MCJurisdiction("SG")]],
     [MCFile EXCEPT !.categories = Malformed]}
    \cup {SingaporeOnly(j) : j \in BrokenJurisdictions}

\* What the file means: a category the jurisdiction has no requirement for has
\* none, base and local phrases are merged, and the rule, which names no
\* vertical of Japan's place, is Singapore's alone.
ASSUME FilesLoadWhole ==
    Pack = [phrases |-> [m \in {sg, jp} |-> [c \in Category |->
                            IF c = neutral THEN {carbonNeutral} ELSE {canRecycle}]],
            requirements |-> [m \in {sg, jp} |-> [c \in Category |->
                IF m = jp /\ c = recyclable THEN NoRequirement
                ELSE [kinds |-> IF c = neutral THEN {inventory, offset} ELSE {inventory},
                      maxAge |-> 1, verified |-> c = neutral]]],
            rules |-> {[id |-> 4, kind |-> "green_claim", check |-> "required_disclosure",
                        market |-> sg, severity |-> "low", patterns |-> {terms},
                        field |-> Blank, limit |-> None, purpose |-> Blank,
                        categories |-> {neutral}]}]

\* One thing wrong with the file, and the gate does not start; the file itself loads.
ASSUME BrokenPacksAreRefused ==
    ~PackRefused(MCFile) /\ \A f \in BrokenFiles : PackRefused(f)

\* What is there and false counts as left out, where that is allowed.
ASSUME FalseBlocksAreLeftOut ==
    LET With(block) == [MCFile EXCEPT !.categories = block]
    IN  ~PackRefused(With(Falsy)) /\ LoadPack(With(Falsy)) = LoadPack(With(Absent))

\* A market the pack leaves out is no error, and has no claims to detect.
ASSUME UnmentionedMarketsDetectNothing ==
    /\ ~PackRefused(SingaporeOnly(MCJurisdiction("SG")))
    /\ \A copy \in SUBSET {carbonNeutral, canRecycle} :
          DetectClaims([market |-> jp, copy |-> copy],
                       LoadPack(SingaporeOnly(MCJurisdiction("SG")))) = {}

Asset(id, market, subject, copy, value) ==
    [id |-> id, market |-> market, subject |-> subject, copy |-> copy,
     fields |-> [f \in {apr} |-> value]]

Review(p, asset) == [actor |-> p, service |-> "review", asset |-> asset, asOf |-> None]
Assessment(p, asset, asOf) ==
    [actor |-> p, service |-> "substantiation", asset |-> asset, asOf |-> asOf]

MCRequests ==
    {Review(ann, Asset(promo, sg, s1, {carbonNeutral}, 5)),
     Review(dan, Asset(promo, sg, s1, {guaranteed}, Blank)),
     Review(ann, Asset(plain, jp, Blank, {}, 5)),
     Assessment(ann, Asset(promo, sg, s1, {carbonNeutral, canRecycle}, 5), None),
     Assessment(cat, Asset(plain, sg, Blank, {}, 5), 0),
     Assessment(dan, Asset(plain, sg, Blank, {}, 5), 0)}

Evidence(id, tenant, kind, categories, issued, until, verified) ==
    [id |-> id, tenant |-> tenant, asset |-> promo, kind |-> kind, categories |-> categories,
     issued |-> issued, until |-> until, verified |-> verified]

MCSeedEvidence ==
    [i \in EvidenceId |->
        IF i = 1 THEN Evidence(1, t1, inventory, {neutral, recyclable}, 0, 0, TRUE) ELSE NoEvidence]
MCEvidence ==
    {Evidence(2, t1, offset, {neutral}, 1, NoDate, TRUE)}
=============================================================================
