----------------------------- MODULE GreenPack -----------------------------
(***************************************************************************)
(* green_pack.py: what the loader makes of a green-claim pack file, and    *)
(* the files it refuses to start on.  A file is the mapping its YAML says: *)
(* citations (id to title and type), the base categories (name to          *)
(* phrases), and jurisdictions, each with categories, requirements and     *)
(* rules of its own.  Where a list or a mapping was called for, Absent is  *)
(* a key that is left out, Falsy something else that Python takes as false *)
(* (null, zero, an empty text), and Malformed something else that it does  *)
(* not.  A rule's patterns and categories are sets, empty if left out.     *)
(***************************************************************************)
EXTENDS CoverageEngine, RuleEngine

CONSTANTS Place,               \* a market taken together with a vertical
          MarketOf, VerticalOf,
          EvidenceKind, Malformed, Falsy, Absent

Markets   == {MarketOf[p] : p \in Place}
Verticals == {VerticalOf[p] : p \in Place}

SourceType == {"rule", "regulation", "guideline", "policy", "other"}

\* Coverage is decided from the evidence on file, so no check may declare it.
ALLOWED_CHECKS == {"forbidden_phrase", "required_disclosure", "required_field"}

-----------------------------------------------------------------------------
(* What a file may not say.  An empty block is as bad as a missing one.    *)

\* `or {}' and `or []': what is false is taken for what is not there.
LeftOut(block) == block \in {Absent, Falsy}

\* isinstance alone makes no such exception.
Unreadable(entry) == entry \in {Malformed, Falsy}

NotABlock(block) == LeftOut(block) \/ block = Malformed \/ DOMAIN block = {}
NotAList(list) == LeftOut(list) \/ list = Malformed \/ list = {}

\* A citation names its instrument; of its type only an unknown one is refused.
CitationRefused(spec) ==
    Unreadable(spec) \/ spec.title = Blank \/ spec.type \notin SourceType \cup {Absent}

CitationsRefused(citations) ==
    NotABlock(citations) \/ \E i \in DOMAIN citations : CitationRefused(citations[i])

\* A block of categories may be left out, and a category may list no phrase.
PhrasesRefused(categories) ==
    \/ categories = Malformed
    \/ ~LeftOut(categories) /\ \E c \in DOMAIN categories : c \notin Category \/ Unreadable(categories[c])

RequirementRefused(spec, citations) ==
    \/ Unreadable(spec)
    \/ NotAList(spec.kinds) \/ ~(spec.kinds \subseteq EvidenceKind)
    \/ spec.citation # Blank /\ spec.citation \notin DOMAIN citations
    \/ spec.maxAge \notin Nat

RequirementsRefused(requirements, citations) ==
    \/ NotABlock(requirements)
    \/ \E c \in DOMAIN requirements :
          c \notin Category \/ RequirementRefused(requirements[c], citations)

\* A rule that names no severity is a high one.
SeverityOf(spec) == IF spec.severity = Absent THEN "high" ELSE spec.severity

RuleRefused(spec, citations) ==
    \/ Unreadable(spec)
    \/ spec.id = Blank
    \/ spec.check \notin ALLOWED_CHECKS
    \/ spec.citation \notin DOMAIN citations
    \/ NotAList(spec.verticals) \/ ~(spec.verticals \subseteq Verticals)
    \/ spec.check \in {"forbidden_phrase", "required_disclosure"} /\ spec.patterns = {}
    \/ spec.check = "required_field" /\ spec.field = Blank
    \/ ~(spec.categories \subseteq Category)
    \/ SeverityOf(spec) \notin Severity

RulesRefused(rules, citations) ==
    NotAList(rules) \/ \E spec \in rules : RuleRefused(spec, citations)

\* load_pack raises: the gate does not start.
PackRefused(file) ==
    \/ LeftOut(file) \/ file = Malformed
    \/ CitationsRefused(file.citations)
    \/ NotABlock(file.jurisdictions)
    \/ \E m \in DOMAIN file.jurisdictions :
          LET jurisdiction == file.jurisdictions[m]
          IN  \/ m \notin Markets
              \/ Unreadable(jurisdiction)
              \/ PhrasesRefused(file.categories) \/ PhrasesRefused(jurisdiction.categories)
              \/ RequirementsRefused(jurisdiction.requirements, file.citations)
              \/ RulesRefused(jurisdiction.rules, file.citations)

-----------------------------------------------------------------------------
(* What the engines are given.  A market the file does not mention has no  *)
(* phrases, no requirements and no rules.                                  *)

Declared(file, p) == MarketOf[p] \in DOMAIN file.jurisdictions

Listed(categories, c) ==
    IF ~LeftOut(categories) /\ c \in DOMAIN categories THEN categories[c] \ {Blank} ELSE {}

\* The base vocabulary and the jurisdiction's own, together.
Phrases(file, p, c) ==
    IF Declared(file, p)
    THEN Listed(file.categories, c) \cup Listed(file.jurisdictions[MarketOf[p]].categories, c)
    ELSE {}

RequirementOf(file, p, c) ==
    IF Declared(file, p) /\ c \in DOMAIN file.jurisdictions[MarketOf[p]].requirements
    THEN LET spec == file.jurisdictions[MarketOf[p]].requirements[c]
         IN  [kinds |-> spec.kinds, maxAge |-> spec.maxAge, verified |-> spec.verified]
    ELSE NoRequirement

\* One rule for each vertical it names.
RulesOf(file, p) ==
    IF ~Declared(file, p) THEN {}
    ELSE {[id |-> spec.id, kind |-> "green_claim", check |-> spec.check, market |-> p,
           severity |-> SeverityOf(spec), patterns |-> spec.patterns, field |-> spec.field,
           limit |-> None, purpose |-> Blank, categories |-> spec.categories] :
             spec \in {s \in file.jurisdictions[MarketOf[p]].rules : VerticalOf[p] \in s.verticals}}

LoadPack(file) ==
    [phrases      |-> [p \in Place |-> [c \in Category |-> Phrases(file, p, c)]],
     requirements |-> [p \in Place |-> [c \in Category |-> RequirementOf(file, p, c)]],
     rules        |-> UNION {RulesOf(file, p) : p \in Place}]
=============================================================================
