--------------------------- MODULE CoverageEngine ---------------------------
(***************************************************************************)
(* domain/coverage_engine.py: which environmental claims an asset makes    *)
(* under a jurisdiction's pack, and whether the evidence on file carries   *)
(* them.  A pack has, per market and category, the phrases that classify   *)
(* copy and the requirement on evidence, and rules that apply to some      *)
(* categories or, naming none, to every asset.  Dates are naturals.        *)
(***************************************************************************)
EXTENDS Integers, FiniteSets, Functions

CONSTANTS Category,   \* GreenClaimCategory
          NoDate,     \* an issue or expiry date that is blank or unreadable
          NoRequirement

-----------------------------------------------------------------------------
(* Detection and the rules a claim makes applicable.                       *)

\* At most one claim per category, so a claim is its category.
DetectClaims(asset, pack) ==
    {c \in Category : pack.phrases[asset.market][c] \cap asset.copy # {}}

RulesFor(asset, pack) ==
    {r \in pack.rules :
        /\ r.market = asset.market
        /\ r.categories = {} \/ r.categories \cap DetectClaims(asset, pack) # {}}

-----------------------------------------------------------------------------
(* Coverage of one claim.                                                  *)

\* mutant: evidence dated after the day asked about counts as well
InDateUnissued(e, requirement, day) ==
    /\ e.issued # NoDate
    /\ e.until = NoDate \/ e.until >= day
    /\ requirement.maxAge > 0 => day - e.issued <= requirement.maxAge

InDate(e, requirement, day) ==
    /\ e.issued # NoDate /\ e.issued <= day
    /\ e.until = NoDate \/ e.until >= day
    /\ requirement.maxAge > 0 => day - e.issued <= requirement.maxAge

Usable(e, requirement, day) ==
    /\ requirement.verified => e.verified
    /\ InDate(e, requirement, day)

SatisfiedKinds(category, requirement, evidence, day) ==
    {k \in requirement.kinds :
        \E e \in evidence :
            category \in e.categories /\ e.kind = k /\ Usable(e, requirement, day)}

\* mutant: a share is rounded to none or all, half up
RatioWhole(n, d) == 10000 * ((2 * n + d) \div (2 * d))

\* round(n / d, 4), in ten-thousandths.
Ratio(n, d) == (20000 * n + d) \div (2 * d)

\* No requirement, or one without kinds, is never met.
ClaimCoverage(category, market, pack, evidence, day) ==
    LET requirement == pack.requirements[market][category]
    IN  IF requirement = NoRequirement \/ requirement.kinds = {} THEN 0
        ELSE Ratio(Cardinality(SatisfiedKinds(category, requirement, evidence, day)),
                   Cardinality(requirement.kinds))

ClaimVerdict(coverage) ==
    IF coverage >= 10000 THEN "substantiated"
    ELSE IF coverage <= 0 THEN "unsubstantiated" ELSE "partially_substantiated"

-----------------------------------------------------------------------------
(* The assessment: the worst verdict of its claims, and their mean.        *)

Verdicts == {"unsubstantiated", "partially_substantiated", "substantiated",
             "not_applicable"}

VerdictRank == [unsubstantiated |-> 0, partially_substantiated |-> 1,
                substantiated |-> 2, not_applicable |-> 3]

Worst(verdicts) ==
    CHOOSE v \in verdicts : \A w \in verdicts : VerdictRank[v] <= VerdictRank[w]

Assess(asset, pack, evidence, day) ==
    LET claims == DetectClaims(asset, pack)
        coverage == [c \in claims |-> ClaimCoverage(c, asset.market, pack, evidence, day)]
    IN  IF claims = {} THEN [verdict |-> "not_applicable", coverage |-> 10000]
        ELSE [verdict  |-> Worst({ClaimVerdict(coverage[c]) : c \in claims}),
              coverage |-> Ratio(SumFunction(coverage), 10000 * Cardinality(claims))]
=============================================================================
