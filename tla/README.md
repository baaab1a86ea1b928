# A verification model of the marketing compliance gate

These modules specify the consent store, the two review pipelines, the decision
engines, the demo data's way into the stores, the start of a process, its identity
adapters and the boundary around the agent's model of `marketing-compliance-gate`
in TLA+. TLC checks them on small
instances, and TLAPS proves the properties that matter most for every value of
the constants. Every definition is translated from the Python source;
`PROJECT.json` (`map`) names the lines each stands for. Paths below are relative
to `src/src/marketing_compliance_gate/`.

To repeat the checks: `tlc -workers 2 -config X.cfg M` for a run of
`PROJECT.json`, `tlapm M.tla` for the modules whose names end in `Proofs`.

## 1. The system: an inventory

The service decides two things, deterministically, and never lets a model decide
them: whether a piece of marketing (its claims, permissions, brand, consent and
environmental claims) may run, and whether a named person may be contacted for a
purpose over a channel. Sync HTTP endpoints run in a pool of worker threads over
one process-wide container of ports, so calls interleave at every port.

| part | state it keeps | operations | talks to |
|---|---|---|---|
| Consent engine (`domain/consent.py`) | none | resolve a grant, granted purposes, decide | rule engine |
| Consent service (`domain/consent_service.py`) | none | `record`, `confirm`, `set_preference`, `suppress`, `set_cap`, `note_send`, `record_by_id`, `snapshot`, `decide` | store, rules, audit, router |
| Consent stores (`adapters/local/consent.py`, `adapters/gcp/firestore_consent.py`) | five tables, rows replaced by id | puts, `snapshot`, `get_record`, `count_sends` | SQLite under a lock; Firestore, four queries |
| Review pipeline (`domain/services.py`) | none | `review`, `approve` | guardrail, rules, consent store, generator, audit, router |
| Rule engine (`domain/rule_engine.py`) | none | `check`, `consent_checks_for` | - |
| Green-claim coverage (`domain/coverage_engine.py`, `domain/substantiation.py`) | none | detect, cover, `assess`, `evidence`, `evidence_for_asset` | evidence store, guardrail, generator, audit, router |
| Pack loader (`green_pack.py`) | a cached pack | load and validate | file system |
| Demo data (`adapters/local/_consent_seed.py`, `_seed.py`, `scripts/load_consent_seed.py`) | the manifest in Firestore | seed an empty SQLite file; load, guarded, into Firestore | all stores |
| Rule and evidence stores | two tables | `rule_set`, `search`; `list_for_asset`, `get`, `put` | SQLite, Firestore |
| Review routing (`adapters/controls.py`, `adapters/*/review_router.py`, `adapters/_review_payload.py`) | the local outbox | `route`, `route_assessment`, `route_consent_grant` | the human review console |
| Model boundary (`agent/callbacks.py`) | flags in the agent's session | before/after model, after agent | guardrail, audit |
| Guardrails and generators | none | `screen`, `generate` | Model Armor, Gemini, a local model |
| Container and configuration (`config.py`) | one adapter per port, bound on first use | bind, boot refusals | all adapters |
| Identity (`adapters/*/identity.py`, `iap_identity.py`) | cached keys | resolve a principal | IAP |
| Audit trail | append-only events | `record` | SQLite hash chain, Cloud Logging |
| HTTP, CLI, MCP, agent | none | drive the services | services |
| Evaluation, infrastructure, user interface | - | offline | - |

What is hard about it, and what makes each part correct:

* **Gate on grants.** A grant is the one consent write that widens what may be
  done to a person. It takes effect only with its own evidence or after a checker
  has approved it as it stands. Writes of several threads replace rows by id, from
  earlier reads; audits and hand-offs fail in between.
* **The decision to contact.** Latest statement, suppressions, preferences, caps
  and market rules combine, at boundaries of time, with rows of equal timestamps
  and purposes spelled in several cases. It must agree with what the rows say, and
  a write that only narrows may never open anything.
* **Reads that are not one read.** Facts are read in steps, while they change.
  An answer should have been true at some instant of the call.
* **The review gate.** A verdict must be the truth about data on file for the
  caller's own tenant, must be in the audit trail before it leaves, and must reach
  a checker; guardrails, providers, stores, trail and console each fail at their
  own step.
* **Coverage.** Dates at their boundaries, rounded shares, packs without a
  requirement: every uncertainty is to count against the claim.
* **Hand-off.** One attempt, best effort, reported to the caller.
* **Seeding.** A store that finds itself empty fills itself, put by put, while
  other threads and processes do the same or already read, and may die at it. Who
  may be contacted meanwhile should be who the seed says, and never more.
* **Start and identity.** Some thirty settings, each unset, emptied or given, decide
  who is answered as whom. No combination may turn a missing setting into a
  persona, or an unverified claim into a tenant.
* **The model boundary.** Three callbacks of one turn share a session with other
  turns; any of them may be skipped, fail or run again after a tool call.

`PROJECT.json` lists the parts with their status, and under `hazards` each of
these at the line where it bites, with the property that would catch it or the
reason there is none.

## 2. The modules

```
ConsentEngine ─┬─ ConsentStore ─┬── ConsentWrites ── ConsentDecisions ── ConsentServiceProofs
               │                │        └─ INSTANCE GrantGate, HandOff
               │                ├── ConsentFacts (with OnFile) ── ConsentFactsProofs
               │                └── ReviewGate (with OnFile, RuleEngine and
               │                         │     CoverageEngine) ── ReviewGateProofs
               │                         └─ INSTANCE HandOff
               ├── OnFile ── EngineProofs
               ├── RuleEngine ── GreenPack (with CoverageEngine)
               └── DemoSeed ─┬── SeedProofs
                             ├── LocalStores ── LocalStoresProofs
                             └── ManagedStore ── ManagedStoreProofs

Posture ── Identity ── Deployment (with ModelBoundary) ── DeploymentProofs
```

(A line is an EXTENDS; each `MC...` module extends one and fixes its constants.
`MCReviewGate` extends ReviewGate and GreenPack, and gives the pipelines the pack
that `LoadPack` makes of a file. `EngineProofs` and `SeedProofs` hold the lemmas the
other proof modules share: `ConsentFactsProofs`, `ReviewGateProofs` and `SeedProofs`
extend the first, `LocalStoresProofs` and `ManagedStoreProofs` the second.)

* **ConsentEngine**: the pure decision: grants resolved by time and then id,
  windows, suppressions, preferences, the binding cap, market rules, and the set
  of reasons that denies. Purposes are compared through `Fold`, the code's
  `casefold`.
* **ConsentStore**: the tables and their puts. A row is a record of the columns
  that matter; `PutRecord` is `INSERT OR REPLACE`. Send times carry their UTC
  offset because the code compares them as text.
* **OnFile**: what it means for a consent to be on file, said over any rows with
  quantifiers and without the engine. It is a reference, not a model of code.
* **ConsentFacts**: every store a sequence of writes produces, and what
  `ConsentService.decide` answers about it at one instant.
* **ConsentWrites**: the service's writes as calls of worker threads. `pc[t]` is
  the next effect of the call (`put_record`, `audit_record`, `route`, ...),
  `who[t]` and `write[t]` its caller and the row it is about to put. `CallFails`
  is a raise by the store or the trail. `approved` is history: what checkers
  approved, as they had read it.
* **GrantGate**: the abstract promise: a statement stands under an id, and takes
  effect only with evidence or after an approval of exactly that statement.
* **HandOff**: the abstract promise the service and the pipelines share about the
  human review console: the trail has a case as escalated first, the call that
  escalated it then makes one attempt to hand over that very case, which the console
  may miss, and nothing else ever reaches the console. A case is what the trail and
  the console have in common of it: in ReviewGate its reference and its maker, in
  ConsentWrites the id of the record.
* **ConsentDecisions**: `decide` among these writes: a snapshot in one step
  (local) or four (Firestore), then the count of sends, then rules, decision and
  audit. `permitting`, `onFile` and `uncounted` are history: under which rules the
  store permitted the contact, which facts spoke for it, and which sends its count
  lost, at the instants of the decision.
* **RuleEngine**: one predicate over an asset and a rule (`Passes`), what a review
  concludes, and the severity and approvals asked of the console. An asset's copy
  is the set of phrases it contains.
* **CoverageEngine**: detection of green claims, usable evidence, coverage and the
  roll-up. A share is in ten-thousandths, as `round(..., 4)` leaves it; Python's
  round-to-even and the half-up of `Ratio` differ only in the last digit of exact
  halves, which neither 0 nor 10000 is.
* **ReviewGate**: `ReviewService.review` and `SubstantiationService.assess` as
  calls of worker threads: `screen_input`, `load`, `read`, `screen_output`,
  `audit`, `route`; `approve` and the read of one evidence record as single
  steps; and an environment that stores consent and evidence rows and moves the
  clock between any two steps. `job[t]` is the request, `found[t]` what was read
  (granted purposes or evidence), `answer[t]` what was returned. The pure work
  between two effects is done where its result is first needed, from what the
  thread has read. A review reads one collection of the consent store (the
  records), so both stores give it one read. `truths` is history: what the tables
  amounted to at the instants of the call.
* **GreenPack**: the pack loader as a function: `PackRefused`, the disjunction of
  everything `load_pack` raises on, and `LoadPack`, what it hands the engines. A
  file is the nested mapping its YAML says, with `Absent`, `Falsy` and `Malformed`
  where a mapping or a list was called for and nothing was found, something Python
  takes as false, or something else. The loader's `or {}` treats the second as the
  first; its `isinstance` alone, as for one citation or one rule, refuses it.
* **DemoSeed**: the seeded rows themselves, in the order they are put; a date is the
  number its digits spell. `Documented` are the days for which the seed's table of
  subjects is meant: from the day subject 104 complained to the day before a grant
  runs out.
* **LocalStores**: the laptop stores from the first request on. A request reaches
  its ports in the order they are wired; a port not yet `bound` in its process is
  constructed, and an adapter that finds its file empty seeds it: `Clear` opens the
  transaction with the DELETEs, each `Put` commits, `Publish` is the assignment of
  `cached_property`, which has no lock. `writer` is SQLite's write lock; `Locked` is
  a wait for it that timed out, `Die` a process that dies with the transactions it
  has open. `raced` and `torn` are history: which stores were seeded by two adapters
  at once, or by one that was cut off.
* **ManagedStore**: the documents of Firestore under `load_consent_seed.py`: the
  guard (`MayOverwrite`), the puts one document at a time, the manifest last, other
  operators, crashes, and the writes of the service all the while. `Kept` are the
  places of the seed a load writes, `After` takes it from one to the next. Each write
  of the service has a day of its own, `Today`, and where the code draws an id one
  that no row has, `FreshId`. `refused`, `rewritten`, `mixed` and `clean` are history:
  a new consent takes its subject out of `refused` only if the refusal was a
  withdrawal (`Barred`).
* **Posture**: what a process concludes from its environment and its settings file:
  the profile and whether anyone chose it, region and market, the switches, and
  every reason to refuse to start. A variable is unset, emptied or a value.
* **Identity**: `get_principal` behind the exposure guard: personas, the IAP
  assertion checked in the code's order (each refusal its own status), tenancy by
  the reviewed maps. An assertion is a record of what its verification looks at.
* **ModelBoundary**: a turn of the agent, step by step: `before_model`, the model,
  `after_model`, the tool and back, `after_agent`. `memory[s]` is the session's
  state with the three keys the callbacks keep there; `Screens` is every verdict a
  guardrail may come to, for Model Armor out of every answer the service may give.
  An `Answer` of the model is a text, a call of the tool, or both; a response that is
  refused or masked is replaced with its call. `went` is history: what each turn
  showed its user, how it ended, and what the last screen of each kind left of its
  text (`left`).
* **Deployment**: a process from its start to its end. The environment is fixed for
  it, the settings file may be edited under it (`EditSettings`), it may stop or die
  at any step, and the agent's tool loads the settings anew. A request to the API
  changes nothing here, so what it answers is stated for every request of a set.

Refused calls that change nothing (no tenant, unknown id, malformed body, a dry run)
are guards and not steps.

## 3. What the runs show

Passing runs:

* **consent_facts** (stores of up to `MaxRows = 4` rows; two purposes, one of them in
  two spellings, two tenants, two subjects, two channels). A
  contact is allowed exactly when the rows on file permit it
  (`AllowedMatchesReference`, the engine against a quantified reference), at
  instants before, on and after each boundary. A market rule for the purpose asked
  about changes no answer (`RuleForAskedPurposeIsRedundant`). A fresh record that
  is no grant, an opt-out or a suppression never turns a denial into a permission
  (`NarrowingWritesOnlyNarrow`). Four rows are enough for a grant, its successor,
  a suppression or preference and a cap with its sends to meet in pairs and
  triples.
* **consent_writes** (two threads, two tenants and a caller without one,
  `MaxCalls = 3`, `MaxTime = 1`). No interleaving stores an unevidenced grant that
  was not approved while pending (`UnevidencedGrantsWereApproved`); what the
  console has was audited (`RoutedWasAudited`); the service implements `GrantGate`
  (`ImplementsGrantGate`, a refinement) and `HandOff` (`ImplementsHandOff`, another).
  Three calls are the least in which an
  assertion, a re-assertion and a stale confirmation meet.
* **consent_decisions** (two threads, `MaxCalls = 4`, `MaxTime = 0`, questions as of
  a unit later, so that sends of now lie inside the cap's window). With the local
  store an allowed contact was permitted by the store at one instant of the decision
  (`LocalAllowedWasPermitted`); with either store each fact it rests on was on
  file at some instant (`EachFactWasOnFile`). Both make one exception: a send put
  again under its own id for another channel leaves the count, and a cap raised
  after the snapshot is not seen, so a count may be lower than it was at any instant
  with that cap. Sends are promised unique by their id, the "idempotency key" of
  `api/schemas.py`, and `uncounted` marks the decisions that lost one. Four calls
  are the least in which this happens (a decision, two sends and a cap); with three
  the exception is never needed. The threads are symmetric, and the VIEW leaves out
  the trail, the console and the approvals, which no decision reads.
* **review_gate** (two threads, three callers, all three routers, `MaxCalls = 2`,
  `MaxTime = 1`; a person's consent that may be withdrawn, evidence that may be
  added, an asset that makes two claims with one and two required kinds of
  evidence, an asset that makes none, a market without rules).
  `AnswersWereTrue`: the verdict and the very findings returned are what the rows
  of the caller's tenant amounted to at one instant of the call.
  `WholeMeansSubstantiated`: a coverage of one, after all rounding, means that
  every claim is carried. `NothingLeavesUnaudited`, `RoutingIsReported`,
  `StrongFindingsGetTwo` speak of every result and case. `ImplementsHandOff`, the
  refinement of `HandOff`, speaks of the steps between: which step escalates, that a
  call submits its own case, once, and that approvals, reads of evidence, blocks and
  failures hand nothing over. `EscalationsArrive`: with
  the local router every audited escalation reaches the console. Two calls are two
  concurrent pipelines, or one and an approval or read of evidence; no property
  relates more than two calls.

* **local_stores** (a service with two worker threads and a command-line process
  with one, `MaxRequests = 2`, `MaxDeaths = 1`; the whole seed). A decision is the
  seed's, and whatever the crash or the race nobody becomes contactable but the one
  subject whom only a later table protects (`ContactsFollowTheSeed`). The rule pack
  is never read in part (`RulesAreWhole`), adapters that seed one file together
  leave it whole (`RacesEndWhole`), and every request ends although workers wait for
  one another's transactions (`RequestsEnd`). Two requests are two concurrent
  seedings, or one and a suppression; a death gives its worker back, so a third
  worker is there to meet what it left.
* **managed_store** (two operators, two customers, the subjects 101, 104 and 201 by
  e-mail, `MaxWrites = 1`, `MaxDeaths = 1`; symmetric in operators and in
  customers, which no property tells apart). Once the manifest names a customer, the
  subjects are as contactable as documented under it and nowhere else
  (`ContactsFollowTheManifest`), whatever loads were repeated, raced or cut off; a
  subject the service was told to leave alone is never brought back by a load, and
  a status nobody modelled never lets an older grant speak
  (`RefusalsSurviveLoads`). One write is one refusal, or one statement put over a
  seeded one, in the midst of the loads; what several of them do to one another, and so
  a person who is refused and consents again, is left to the theorem, which is for any
  number. Subject 101 is the seed's plain grant,
  104 the one a suppression guards, 201 the neighbour tenant's; the rest differ from
  these in columns no step here reads.
* **deployment** (environments and files in families, each varying what one decision
  reads, around the shipped managed configuration; ten assertions, genuine and
  with one thing wrong each, over every peer; two sessions, `MaxTurns = 2`,
  `MaxCalls = 2`). Strangers are answered only as verified
  (`StrangersAreVerified`), personas only where somebody named a laptop profile
  (`PersonasWereChosen`), tenants only as reviewed (`TenantsAreReviewed`), and
  routing that is on takes no case it must lose (`HandOffsCanWork`): there is a
  console, or the router refuses to be constructed, and so each request of a service
  that escalates fails before it begins. Strangers and personas are those of the
  end-user routes (section 5). A user is shown only
  what a complete, clean screen left (`ShownWasScreened`), a blocked turn is never
  recorded as allowed (`BlockedIsRecorded`), and a record holds what the guardrail
  left of its own turn's prompt and response and never what it masked
  (`RecordsHoldScreenedText`). That property has the one exception the code has: a turn
  whose prompt is refused has no response, and is recorded with the last one of its
  session, screened in an earlier turn. Two
  turns are two sessions, or a turn after a blocked one; two calls are one return
  from a tool.
* **GreenPack** is checked by `ASSUME`s of `MCReviewGate`, which TLC evaluates in
  each of its runs: a file with two jurisdictions loads to exactly the pack written
  out by hand, one whose optional block is false loads as if it had none,
  thirty-four files with one thing wrong each are refused, and a market the file does
  not mention detects nothing.

The clock, the calls, the requests and the writes are bounded, so a behaviour ends
when they are used up: hence `CHECK_DEADLOCK FALSE`. The one place where the code
waits for another is SQLite's write lock, and `RequestsEnd` says that nobody waits
for ever.

Fairness is assumed of calls under way only. `FairSpec` of ReviewGate: a worker
thread that serves a call goes on with it (`WF_pc(Serve(t))`). `Spec` of LocalStores:
a worker that serves a request goes on (`WF_vars(Work(w))`; timing out and dying are
not assumed to happen). Deployment has safety properties only and assumes no
fairness. Each is per thread. The code has no waits in
these other than the ports', which return or raise; a raise (`CallFails`, `Locked`,
`Raise`) is a step of its own. Nothing is assumed of callers, operators, checkers,
the clock or the console.

Runs that find a disagreement between a document of the repository and the code
(each is a finding in `PROJECT.json`, with both quoted):

| run | what the text says | what the code does |
|---|---|---|
| refusal_is_terminal | a refusal is "the fail-closed terminal state" | an approval read earlier is put over it |
| tenants_are_isolated | a body cannot write into another tenant's store | a row is keyed by id alone and replaced |
| torn_snapshot | facts are "read in a single shot" | Firestore reads four collections in turn |
| green_claims_get_four_eyes | a green claim's escalation is at least HIGH | the floor applies only when no rule failed, so a LOW failure lowers it to one approval |
| record_tells_its_turn | "one WORM audit record for the agent turn" | the mark of a block is never taken out of the session, so later turns are recorded as blocked |

Two more disagreements show in the models and have no run of their own:

* `agent/callbacks.py:14-15` and `67-68` say that masked content "never reaches the
  model or the audit record". The second half holds (`RecordsHoldScreenedText`). The
  first does not: `before_model_callback` (118-133) keeps the masked prompt for the
  record and never writes it into the request, so a prompt that was masked and allowed
  goes to the model as it came. `BeforeModel` says so, and `Model` takes no text from
  `memory`.
* `domain/consent_service.py:222-223` says that market rules "can only ever add a
  denial, so their absence cannot be a fail-open". A denial they would have added is
  lost while the rule provider fails, so a contact that a rule for a further purpose
  denies is allowed. For a rule of the very purpose asked about nothing is lost, and
  `RuleForAskedPurposeIsRedundant` says no more than that.

Observed and not stated as properties, because no text speaks of them or what it
says leaves them open:

* a turn whose prompt was refused is recorded with an earlier turn's response, since
  `after_model_callback` did not run to put another in its place;
* send times are compared as text, so a caller's UTC offset can move a send into or out
  of a cap's window. `ConsentStore` compares as the code does, and so does the
  reference in `OnFile`: `AllowedMatchesReference` does not judge it;
* whoever asserts a pending grant may confirm it; a grant request repeated after a
  withdrawal is stamped with the time it arrives and outdates it;
* a suppression put again under its own id may be narrower than the first, and a
  send put again under its own id, for another channel or an earlier time, no
  longer counts against the cap;
* `approve` keeps nothing, so a review can be answered twice and differently; two
  tenants' reviews of assets with one id share a review id, and with it the
  console's case reference; the platform router submits once and keeps nothing, and
  a submission reported `failed` may still have arrived;
* a seeding that is cut off after the first record is never taken up again, because
  only `consent_records` is counted: subject 104 stays contactable in that file;
  likewise a first load into Firestore that dies before its manifest leaves records
  without suppressions, and the guard refuses every repetition;
* that guard looks at records and preferences only
  (`scripts/load_consent_seed.py:114`), so a store that holds nothing but
  suppressions counts as empty. The puts replace by id, so the suppressions stay,
  which is what `RefusalsSurviveLoads` rests on.

Every property of a passing run has a mutant in `PROJECT.json`: a plausible bug
in a modelled definition under which TLC finds the property violated.

## 4. What is proved

TLAPS checks these for every value of the constants, any number of threads,
callers, tenants, ids and calls.

* **ConsentServiceProofs**, the writes: `TypeCorrect`; `GrantsAreGated` and
  `ServiceImplementsGate`, by the invariant `GateInv`: the property alone is not
  inductive, since a put stores what a thread holds, so the invariant also says of
  every thread about to put a grant that the row is evidenced or is an approved
  statement. The refinement then maps each put, and each approval, to the step of
  `GrantGate` it is. `RoutingFollowsAudit` by `RouteInv`, which adds that a thread
  about to route has audited. `ServiceImplementsHandOff` maps the audit of a pending
  grant to `Escalate` and `Route` to `Attempt`; every other step, the audits of other
  writes included, leaves the mapped state alone (`NoGrantDue`, `NothingHandedOver`).

  The decisions: `DecisionTypeCorrect`, `EachFactCorrect` and
  `LocalDecisionsCorrect`, by the invariant `DecisionSeen`. The properties speak of
  decisions made, and are not inductive; `Seen` says of each decision under way that
  what it has read of a fact is in `onFile` if it speaks for the contact, and, with
  the local store, that rules under which its snapshot and the present count allow
  are in `permitting`. A write between two reads keeps `Seen` because a count that
  loses no send only grows (`TallyGrows`), and what a cap allows with more sends it
  allows with fewer (`FewerSendsAllow`). `AllowedNeeds` takes an allowed contact
  back to the four facts.
* **EngineProofs**: lemmas on the pure decision: which row speaks
  (`LatestHasLastWord`), that the engine grants a purpose exactly when a consent
  to it is on file (`GrantedIsOnFile`), in any set of rows with ids of their own, and
  what an allowed contact takes (`AllowedTakenApart`).
* **ConsentFactsProofs**: `StoreTypeCorrect`; `AskedRuleIsRedundant` (the two ways
  to a grant agree); `NarrowingIsSafe`, which takes `Allowed` apart into its
  conjuncts and shows each to survive, or to be false already, when one row is
  added. `AllowedIsWhatIsOnFile`: the engine and the reference agree on every store,
  question, instant and rule set; one lemma each brings the six conjuncts of an
  allowed contact to the reference's (`GrantedIsOnFile`, `OptInIsOnFile`,
  `SuppressionIsOnFile`, `CapIsOnFile`, `RulesAreOnFile`). They need more of the
  store than its type: `StoreKept` adds that
  each row is under its own id, so that equal instants are told apart, and that the
  sends are finitely many, so that counting their ids counts them. That some cap is
  the least (`OneIsLeast`) is where the order of the numbers comes in.
* **ReviewGateProofs**, the hand-off: `LeavesAudited` and `RoutingToldTrue` by
  `HandOffInv`: an answer is formed two steps after its audit record, so the invariant
  says of a call about to route that its case is in the trail and calls for a
  checker. That a result which needs no checker makes no claim rests on lemmas about
  the roll-up (`WorstIsOneOfThem`, `NotApplicableClaimsNothing`).
  `StrongFindingsGetFourEyes` by `FourEyesInv` (the asset a call decides, and who put
  it to which service, are those it was given) and `StrongestSpeaks`.
  `PipelinesImplementHandOff` takes the same invariant, as what is handed over is to be
  what was requested: the audit record of a result that needs a checker maps to
  `Escalate`, each outcome of the router to `Attempt`, and the event of a blocked or
  cleared call, an approval or a read of evidence to a stutter.

  The truth: `AnswersAreTrue`. Its first half has no steps:
  `ConclusionIsTrue` says that what a call concludes from the facts on file is what
  `Truth` says of them, rule by rule (`FailingIsBroken`) and claim by claim
  (`ClaimsJudged`). Its second half is the invariant `TruthInv`:
  a call has its day fixed before it reads, and once it has read, its conclusion is
  in its `truths`. `ReadStep` is the one step that makes this true; every later step
  keeps it, because the thread's facts do not change while its history only grows.

  The coverage number: `CoverageIsHonest`, and with it `GateTypeCorrect`, by
  `GateInv`. The number is rounded twice, each share and then their mean.
  `SharesRoundInside` says that a rounded share is 1 or at most 0.99 with a hundred
  kinds of evidence, and 1 only when every kind is there; `MeanOfShares` that the mean
  of at most a hundred such shares rounds to 1 exactly when all are 1. The sum is a
  fold over a finite set: `SumsExist` shows that its recursion has a solution, on sets of one more element after
  sets of fewer (by the least size at which it would have none, since the library's
  induction theorems are out of the provers' reach), and `SumTakes` takes one share out of it. **The theorem is
  false of much larger vocabularies** (of several hundred claims one could lack a kind
  of evidence and the mean still round to 1), so `PackAssumption` says what the code's
  enumerations are: eight claims, ten kinds of evidence.
* **SeedProofs**: the demo seed's rows, their keys, and what they say of each subject
  on the documented days.
* **LocalStoresProofs**: none of the properties is inductive, and each is about what a
  request is *served* from, which was put before its port was bound. So the invariant
  goes from the first row on: `WritersOK` (an open write transaction is that of the
  worker whose first put is next), `UsedAreFilled` (a store that is bound, served from
  or past its first put holds rows), `RulesExact` (the rule index, which commits once,
  holds the whole pack or nothing). `RulesAreWholeTheorem` follows.
  `RacesEndWholeTheorem` takes `SeedersFill`: unless a seeding was cut off, a file is
  empty or whole, or the worker that last deleted its rows is still putting them back
  and what it has put is there. `ContactsFollowTheSeedTheorem` takes `Quiet`: the
  consent store was raced for or torn, or it is empty, or one worker fills it and
  nobody has it, or it holds the seed and the acknowledged suppression. What then may
  be contacted is a matter of rows alone, by the lemmas of `SeedProofs`.
* **ManagedStoreProofs**: `ManagedTypeCorrect`, that documents keep to one of a table and
  id. `RefusalsSurviveLoadsTheorem` by `RefusalsStand`: each refusal has a document that
  no load replaces, for its id is none of the seed's, and that either no consent
  outweighs (a suppression, a record no decision can read) or that is newer than every
  grant of its subject; `Dated` keeps every grant older than today.
  `ContactsFollowTheManifestTheorem` follows each load and each document. `LoadsGoOn`:
  a load no other customer's put came between has written everything before its next
  place, and one that was disturbed has left rows of another customer in `mixed`
  unless a third load has meanwhile written everything. `ManifestIsTrue`: the customer
  the manifest names is loaded, unless loads mixed. `Origins`: every document is a
  load's, a refusal, or was put over a seeded one. A load that races with its own
  customer's is harmless because both set the same documents (`PlacesDiffer`).
* **DeploymentProofs**, the process: `StrangersAreVerifiedTheorem`,
  `PersonasWereChosenTheorem`, `TenantsAreReviewedTheorem`, `HandOffsCanWorkTheorem`,
  for any environments, files
  and requests whatever. They rest on one invariant, `Booted`: a process that is up
  runs on the settings loaded from a file its start did not refuse. The properties
  are then about functions of the environment, that file and the request; the
  invariant is needed because the file on disk may have changed since.

  The model boundary: `ShownWasScreenedTheorem`, `BlockedIsRecordedTheorem` and
  `RecordsHoldScreenedTextTheorem`, for
  any sessions, turns and calls. None is inductive. `BoundaryInv` adds that a
  session's running turn is its last and that a block in it is marked in the
  session's state (`TurnIsTheLast`), that a mark was earned by some turn of that
  session (`MarkIsEarned`), and that every record was true when it was written
  (`RecordIsTrue`). `Moves` says what all steps of a turn have in common, so that
  `MovesKeepInv` is proved once; `AllowedIsClean` is the lemma about the guardrails.
  For what the records hold, `LeftInv` goes on top of it: on its way to the record a
  turn keeps in the session's state what its screens left, and has no screened response
  at its end only if its prompt was refused; whatever response a session holds, one of
  its turns left (`KeepsLeft`). An old record is not disturbed by a running turn
  (`LeftElsewhere`), because that one is its session's last.
  `DeploymentTypeCorrect` by `TypeInv`: that a turn's calls of the model stay within
  their bound takes knowing which of its steps still lead to the model
  (`ToTheModel`), and that turns run only in an agent that is up.

Assumptions: `SeedAssumption` (seeded rows are well formed and seeded grants
evidenced, as `_consent_seed.py` is), `IdAssumption` (ids are ordered, as strings
are), `SeedKeysAssumption` (seeded rows are under their ids), `NoneIsNoRow`,
`NoneIsNoStanding` and `NothingAssumption` (the absent value is no row, no standing, no
day and no name), `BodyAssumption` and `RowAssumption` (the shape of requests and rows,
which the schemas enforce), `QuestionAssumption` (likewise of questions),
`AdapterAssumption`, `RouterAssumption` (the adapters that exist), `GradingAssumption`
(rules have a severity, requests their fields, and come from a principal for a market
the rule book knows, which is an enumeration in the code), `FactsAssumption` (what is
stored during a review are rows, seeded evidence is under its id, and a day asked about
is a day), `PackAssumption` (there are at most a hundred kinds of claim, and of evidence
for one claim, see above),
`MapsAssumption` (a tenant map is a set of pairs), `HomeAssumption` and
`NobodyIsNoWorker` (each worker runs in a process; the absent holder of a lock is no
worker), `NowAssumption` (decisions about the demo seed are asked as of days it is
documented for), `KeptAssumption` and `CustomersAssumption` (the subjects kept are
seeded ones and e-mail is among the channels; the absent value is no customer), and
`BoundAssumption` and `BoundsAssumption` (bounds are numbers, and a turn calls the model
once at least). TLC evaluates each of them in a run.

Every invariant that a passing run checks, its one action property and its three
refinements are proved. Only model-checked: `EscalationsArrive` and `RequestsEnd`, as
liveness is beyond the prover; the pack loader, which is checked on files; and the
disagreements, which are counterexamples. Nor do the theorems speak of the bounds: the
clock, calls, requests, turns, writes and deaths are bounded by constants of which
nothing more is assumed, so what is proved holds of every prefix of an unbounded
behaviour.

## 5. What is not modelled

* The wording of narrations, messages, citations, gap texts and audit payloads; it
  decides nothing. The generator is left out for the same reason: when it raises a
  fallback text is used.
* Redaction, pseudonyms, the hash chain, signatures and the verifier of assertions:
  external packages and cryptography, modelled by what the code uses them for.
* The rule store's text search, the managed rule sources, and the settings of models
  and of the knowledge base: they choose texts, not verdicts.
* Foreign rows a store may hold (an unreadable date, an unknown status in a SQLite
  file); ManagedStore has the unknown status, as a decision that fails.
* The two routes for calling services (`api/app.py` 663-747): how the caller is
  authenticated (`make_require_service_caller`, an external package), which scheme the
  exposure profile selects for it, and the principal made of the tenant in its body.
  `StrangersAreVerified`, `PersonasWereChosen` and `TenantsAreReviewed` say nothing of
  them. The decision and the send behind them are `decide` and `note_send` as modelled.
* The death of a service's process between an audit record and its hand-off: nothing
  is kept from which a restart would go on, so such a case has its record and no more.
* The YAML parser and the cache of the pack loader; discovery and listing routes, the agent card and the MCP
  server, which keep no state.
* CLI and evaluation: sequential drivers of the same services. Infrastructure and
  the static interface hold no logic of the gate.

## 6. Plan

Modelled, in this order: the consent engine and its store; the writes and the gate on
grants; decisions; rules, coverage and the two review pipelines; the stores' demo
data, locally and managed; the pack loader; posture, identity and the model boundary.

Left, in the order of what each would add:

1. Consent: a calling service that notes its sends, against the cap; replaying a
   decision at its `as_of`.
2. The rule sources under the managed profiles, with an index that is rebuilt while
   reviews search it.
