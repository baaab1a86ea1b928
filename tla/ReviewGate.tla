----------------------------- MODULE ReviewGate -----------------------------
(***************************************************************************)
(* The two maker pipelines, ReviewService.review and                       *)
(* SubstantiationService.assess, and their hand-off to the review console. *)
(*                                                                         *)
(* A call screens the asset's text, reads the rules and then the consent   *)
(* records or the evidence, decides, narrates, screens the narration,      *)
(* audits, and routes the case.  Worker threads serve calls at the same    *)
(* time, and records, evidence and the clock change between any two steps. *)
(* The guardrail may block any text; it, the rule provider, the stores and *)
(* the audit trail may raise; the generator decides nothing, so what it    *)
(* writes is left out.  A tick of the clock is a day, and a market is      *)
(* taken together with a vertical.                                         *)
(*                                                                         *)
(* `truths' is history: per thread, what the data on file at the instants  *)
(* of its call amounted to.                                                *)
(***************************************************************************)
EXTENDS ConsentStore, OnFile, RuleEngine, CoverageEngine

CONSTANTS Thread, Principal, TenantOf,
          Requests,        \* [actor, service, asset, asOf] as callers put them
          Checkers,        \* who disposes of reviews
          RuleBook,        \* per market, the provider's rules
          Pack,            \* the jurisdictions' green-claim pack
          Routers,         \* the routers a deployment may bind
          EvidenceId, NoEvidence, SeedEvidence,
          RecordWrites, EvidenceWrites,   \* rows stored meanwhile
          MaxTime, MaxCalls               \* bounds on the clock and the calls

ASSUME RouterAssumption == Routers \subseteq {"local", "platform", "off"}

\* Every rule has a severity, and every request the fields of a request: it
\* comes from a principal, for a market the rule book knows.
ASSUME GradingAssumption ==
    /\ \A r \in Pack.rules : r.severity \in Severity
    /\ \A q \in Requests :
          /\ q = [actor |-> q.actor, service |-> q.service, asset |-> q.asset, asOf |-> q.asOf]
          /\ q.actor \in Principal /\ q.asset.market \in DOMAIN RuleBook
          /\ \A r \in RuleBook[q.asset.market] : r.severity \in Severity

\* What is stored meanwhile are rows, what is seeded is kept under its id, and
\* a request asks of a day or of none.
ASSUME FactsAssumption ==
    /\ None \notin Instant
    /\ RecordWrites \subseteq RecordRow
    /\ SeedEvidence = [i \in EvidenceId |-> SeedEvidence[i]]
    /\ \A i \in EvidenceId : SeedEvidence[i] # NoEvidence => SeedEvidence[i].id = i
    /\ \A e \in EvidenceWrites \cup ({SeedEvidence[i] : i \in EvidenceId} \ {NoEvidence}) :
          {e.issued, e.until} \subseteq Instant \cup {NoDate}
    /\ \A q \in Requests : q.service \in {"review", "substantiation"} /\ q.asOf \in Moment

\* The vocabularies of claims and of evidence are short: with a hundred of each
\* a share that is not whole is clearly less; of several hundred claims, one
\* that lacked a kind of evidence would leave the mean whole when it is rounded.
ASSUME PackAssumption ==
    /\ IsFiniteSet(Category) /\ Cardinality(Category) <= 100
    /\ \A q \in Requests, c \in Category :
          LET required == Pack.requirements[q.asset.market][c]
          IN  required # NoRequirement =>
                  /\ required.maxAge \in Nat
                  /\ IsFiniteSet(required.kinds) /\ Cardinality(required.kinds) <= 100

VARIABLES evidence,   \* the substantiation evidence, by id
          now, calls, router,
          pc,         \* where each thread is in the call it serves
          job,        \* the request it serves and who made it
          found,      \* what it read: granted purposes, or evidence
          answer,     \* what its last call returned, None for an error
          audit,      \* the audit trail, as the set of events in it
          console,    \* the cases the review console has received
          truths

vars == <<tables, evidence, now, calls, router, pc, job, found, answer, audit, console, truths>>

Steps == {"screen_input", "load", "read", "screen_output", "audit", "route"}

Conclusions == [verdict: Verdicts \cup {"compliant", "non_compliant"}, coverage: Nat,
                failing: SUBSET UNION ({RuleBook[m] : m \in DOMAIN RuleBook} \cup {Pack.rules})]

Decisions == {"allowed", "blocked", "escalated"}

GateTypeOK ==
    /\ \A i \in EvidenceId : evidence[i] # NoEvidence => evidence[i].id = i
    /\ pc \in [Thread -> Steps \cup {"idle"}]
    /\ \A t \in Thread :
          /\ pc[t] # "idle" => job[t].actor \in Principal
          /\ pc[t] # "idle" /\ job[t].service = "substantiation" => TenantOf[job[t].actor] # Blank
          /\ pc[t] \notin {"idle", "screen_input", "load"} => job[t].asOf \in Instant
          /\ answer[t] # None => answer[t].conclusion \in Conclusions
    /\ \A e \in audit : e.decision \in Decisions
    /\ \A c \in console : c.approvals \in 1..2

Init ==
    /\ StoreInit
    /\ evidence = SeedEvidence
    /\ now = 0 /\ calls = 0
    /\ router \in Routers
    /\ pc = [t \in Thread |-> "idle"]
    /\ job = [t \in Thread |-> None]
    /\ found = [t \in Thread |-> {}]
    /\ answer = [t \in Thread |-> None]
    /\ audit = {} /\ console = {}
    /\ truths = [t \in Thread |-> {}]

-----------------------------------------------------------------------------
(* What a call reads, and what it concludes.                               *)

\* mutant: an unresolved tenant reads every tenant's records
GrantedToAnyTenant(j) ==
    LET tenant == TenantOf[j.actor]
    IN  GrantedPurposes({r \in Stored(records) : r.subject = j.asset.subject
                                                 /\ (tenant = Blank \/ r.tenant = tenant)}, j.asOf)

\* _consent_source: a subject nobody named, or a caller without a tenant,
\* grants nothing, and neither does a subject without records.
GrantedTo(j) ==
    GrantedPurposes(OfSubject(records, TenantOf[j.actor], j.asset.subject), j.asOf)

EvidenceOn(j) ==
    {e \in {evidence[i] : i \in EvidenceId} \ {NoEvidence} :
        e.tenant = TenantOf[j.actor] /\ e.asset = j.asset.id}

Applicable(j) ==
    IF j.service = "review" THEN RuleBook[j.asset.market] ELSE RulesFor(j.asset, Pack)

Conclude(j, seen) ==
    IF j.service = "review"
    THEN LET failing == Failing(j.asset, seen, Applicable(j))
         IN  [verdict |-> Outcome(failing), coverage |-> 0, failing |-> failing]
    ELSE LET assessed == Assess(j.asset, Pack, seen, j.asOf)
         IN  [verdict |-> assessed.verdict, coverage |-> assessed.coverage,
              failing |-> Failing(j.asset, {}, Applicable(j))]

Concluded(t) == Conclude(job[t], found[t])

\* Every review needs a checker; an assessment that makes no green claim and
\* fails no rule does not.
NeedsReview(j, conclusion) ==
    \/ j.service = "review"
    \/ conclusion.verdict # "not_applicable"
    \/ conclusion.failing # {}

\* A review's id names its market and its asset, an assessment's its tenant too.
Ref(j) ==
    [service |-> j.service, market |-> j.asset.market, asset |-> j.asset.id,
     tenant |-> IF j.service = "review" THEN None ELSE TenantOf[j.actor]]

Case(j, conclusion) ==
    LET severity == IF j.service = "review"
                    THEN ReviewSeverity(conclusion.failing)
                    ELSE AssessmentSeverity(conclusion.verdict, conclusion.failing)
    IN  [ref |-> Ref(j), maker |-> j.actor, tenant |-> TenantOf[j.actor],
         severity |-> severity, approvals |-> RequiredApprovals(severity)]

Event(action, actor, decision, ref, verdict) ==
    [action |-> action, actor |-> actor, decision |-> decision, ref |-> ref,
     verdict |-> verdict]

-----------------------------------------------------------------------------
(* The steps of a call.                                                    *)

Goto(t, step) ==
    /\ pc' = [pc EXCEPT ![t] = step]
    /\ UNCHANGED <<job, found>>

Leave(t) ==
    /\ pc' = [pc EXCEPT ![t] = "idle"]
    /\ job' = [job EXCEPT ![t] = None]
    /\ found' = [found EXCEPT ![t] = {}]

\* An assessment fixes its day before its first step.
AtOnce(request) ==
    IF request.service = "substantiation" /\ request.asOf = None
    THEN [request EXCEPT !.asOf = now] ELSE request

\* mutant: a caller without a tenant is served an assessment
SubmitUnverified(t, request) ==
    /\ pc[t] = "idle" /\ calls < MaxCalls
    /\ calls' = calls + 1
    /\ job' = [job EXCEPT ![t] = AtOnce(request)]
    /\ answer' = [answer EXCEPT ![t] = None]
    /\ pc' = [pc EXCEPT ![t] = "screen_input"]
    /\ UNCHANGED <<tables, evidence, now, router, found, audit, console>>

\* An assessment is refused without a tenant, before anything is screened.
Submit(t, request) ==
    /\ pc[t] = "idle" /\ calls < MaxCalls
    /\ request.service = "substantiation" => TenantOf[request.actor] # Blank
    /\ calls' = calls + 1
    /\ job' = [job EXCEPT ![t] = AtOnce(request)]
    /\ answer' = [answer EXCEPT ![t] = None]
    /\ pc' = [pc EXCEPT ![t] = "screen_input"]
    /\ UNCHANGED <<tables, evidence, now, router, found, audit, console>>

\* The block is audited, and raised.
Blocked(t) ==
    /\ audit' = audit \cup {Event(job[t].service, job[t].actor, "blocked", None, None)}
    /\ Leave(t)

ScreenInput(t) ==
    /\ pc[t] = "screen_input"
    /\ \/ Goto(t, IF job[t].service = "review" THEN "load" ELSE "read") /\ UNCHANGED audit
       \/ Blocked(t)
    /\ UNCHANGED <<tables, evidence, now, calls, router, answer, console>>

\* A market without rules is refused; otherwise the review's instant is fixed
\* here, unless its caller has fixed it.
LoadRules(t) ==
    /\ pc[t] = "load"
    /\ IF RuleBook[job[t].asset.market] = {}
       THEN Leave(t)
       ELSE /\ pc' = [pc EXCEPT ![t] = "read"]
            /\ job' = [job EXCEPT ![t].asOf = IF @ = None THEN now ELSE @]
            /\ UNCHANGED found
    /\ UNCHANGED <<tables, evidence, now, calls, router, answer, audit, console>>

ReadFacts(t) ==
    /\ pc[t] = "read"
    /\ found' = [found EXCEPT ![t] =
          IF job[t].service = "review" THEN GrantedTo(job[t]) ELSE EvidenceOn(job[t])]
    /\ pc' = [pc EXCEPT ![t] = "screen_output"]
    /\ UNCHANGED <<tables, evidence, now, calls, router, job, answer, audit, console>>

\* The findings are decided and narrated before this, from what was read.
ScreenOutput(t) ==
    /\ pc[t] = "screen_output"
    /\ \/ Goto(t, "audit") /\ UNCHANGED audit
       \/ Blocked(t)
    /\ UNCHANGED <<tables, evidence, now, calls, router, answer, console>>

Answered(t, routing) ==
    [job |-> job[t], conclusion |-> Concluded(t), routing |-> routing]

Return(t, routing) ==
    /\ Leave(t)
    /\ answer' = [answer EXCEPT ![t] = Answered(t, routing)]

Escalates(t) == NeedsReview(job[t], Concluded(t))

\* mutant: a case is routed first, and audited when the console has answered
RecordLate(t) ==
    /\ pc[t] = "audit"
    /\ console' = IF Escalates(t) THEN console \cup {Case(job[t], Concluded(t))} ELSE console
    /\ Return(t, "routed")
    /\ UNCHANGED <<tables, evidence, now, calls, router, audit>>

Record(t) ==
    /\ pc[t] = "audit"
    /\ audit' = audit \cup
          {Event(job[t].service, job[t].actor, IF Escalates(t) THEN "escalated" ELSE "allowed",
                 Ref(job[t]), Concluded(t).verdict)}
    /\ IF Escalates(t)
       THEN Goto(t, "route") /\ UNCHANGED answer
       ELSE Return(t, "not_required")
    /\ UNCHANGED <<tables, evidence, now, calls, router, console>>

Receive(t) == console' = console \cup {Case(job[t], Concluded(t))}

\* mutant: a submission the console took but that failed is made again
RouteRetried(t) ==
    /\ pc[t] = "route"
    /\ \/ router # "off" /\ Receive(t) /\ Return(t, "routed")
       \/ router = "platform" /\ Receive(t) /\ UNCHANGED <<pc, job, found, answer>>
       \/ router = "platform" /\ UNCHANGED console /\ Return(t, "failed")
       \/ router = "off" /\ UNCHANGED console /\ Return(t, "off")
    /\ UNCHANGED <<tables, evidence, now, calls, router, audit>>

\* mutant: a failed submission is reported as made
RouteSwallowed(t) ==
    /\ pc[t] = "route"
    /\ \/ router # "off" /\ Receive(t) /\ Return(t, "routed")
       \/ router = "platform" /\ UNCHANGED console /\ Return(t, "routed")
       \/ router = "off" /\ UNCHANGED console /\ Return(t, "off")
    /\ UNCHANGED <<tables, evidence, now, calls, router, audit>>

\* mutant: an assessment is not submitted
RouteReviewsOnly(t) ==
    /\ pc[t] = "route"
    /\ \/ /\ router # "off" /\ Return(t, "routed")
          /\ IF job[t].service = "review" THEN Receive(t) ELSE UNCHANGED console
       \/ router = "platform" /\ UNCHANGED console /\ Return(t, "failed")
       \/ router = "off" /\ UNCHANGED console /\ Return(t, "off")
    /\ UNCHANGED <<tables, evidence, now, calls, router, audit>>

\* The recording router's one attempt.  The local outbox takes every case; a
\* submission to the platform's console may fail, before or after the console
\* has it; a router that is switched off submits nothing.
Route(t) ==
    /\ pc[t] = "route"
    /\ \/ router # "off" /\ Receive(t) /\ Return(t, "routed")
       \/ router = "platform" /\ Receive(t) /\ Return(t, "failed")
       \/ router = "platform" /\ UNCHANGED console /\ Return(t, "failed")
       \/ router = "off" /\ UNCHANGED console /\ Return(t, "off")
    /\ UNCHANGED <<tables, evidence, now, calls, router, audit>>

\* The guardrail, the provider, a store or the audit trail raises: no answer.
CallFails(t) ==
    /\ pc[t] \in Steps \ {"route"}
    /\ Leave(t)
    /\ UNCHANGED <<tables, evidence, now, calls, router, answer, audit, console>>

Serve(t) ==
    ScreenInput(t) \/ LoadRules(t) \/ ReadFacts(t) \/ ScreenOutput(t) \/ Record(t) \/ Route(t)
    \/ CallFails(t)

-----------------------------------------------------------------------------
(* The other operations of the services, each one step.                    *)

\* approve: a checker disposes of a review that was built.  Nothing is kept
\* but the event.
Approve(p, review, approved) ==
    /\ calls < MaxCalls
    /\ review \in audit /\ review.action = "review" /\ review.decision = "escalated"
    /\ calls' = calls + 1
    /\ audit' = audit \cup {Event("approve", p, IF approved THEN "allowed" ELSE "blocked",
                                  review.ref, review.verdict)}
    /\ UNCHANGED <<tables, evidence, now, router, pc, job, found, answer, console>>

\* evidence(): one record, refused and audited when it is another tenant's.
ReadEvidence(p, i) ==
    /\ calls < MaxCalls
    /\ TenantOf[p] # Blank /\ evidence[i] # NoEvidence
    /\ calls' = calls + 1
    /\ audit' = audit \cup
          {Event("evidence_read", p,
                 IF evidence[i].tenant = TenantOf[p] THEN "allowed" ELSE "blocked", i, None)}
    /\ UNCHANGED <<tables, evidence, now, router, pc, job, found, answer, console>>

Elsewhere == <<now, calls, router, pc, job, found, answer, audit, console>>

PutEvidence(e) ==
    /\ evidence' = [evidence EXCEPT ![e.id] = e]
    /\ UNCHANGED <<tables, Elsewhere>>

Tick ==
    /\ now < MaxTime
    /\ now' = now + 1
    /\ UNCHANGED <<tables, evidence, calls, router, pc, job, found, answer, audit, console>>

Environment ==
    \/ \E r \in RecordWrites : PutRecord(r) /\ UNCHANGED <<evidence, Elsewhere>>
    \/ \E e \in EvidenceWrites : PutEvidence(e)
    \/ Tick

-----------------------------------------------------------------------------
(* The reference a conclusion is compared with: what the data on file      *)
(* amount to now, said of the tables and not by the engines.               *)

RuleIsMet(j, r) ==
    CASE r.check = "forbidden_phrase"    -> \A p \in r.patterns : p \notin j.asset.copy
      [] r.check = "required_disclosure" -> \A p \in r.patterns : p \in j.asset.copy
      [] r.check = "required_field"      -> j.asset.fields[r.field] # Blank
      [] r.check = "numeric_max"         -> /\ j.asset.fields[r.field] \in Int
                                            /\ r.limit # None => j.asset.fields[r.field] <= r.limit
      [] OTHER ->
            /\ r.check = "consent_required" /\ r.kind = "consent" /\ j.service = "review"
            /\ Blank \notin {j.asset.subject, TenantOf[j.actor]}
            /\ ConsentOnFile(Stored(records),
                             [tenant |-> TenantOf[j.actor], subject |-> j.asset.subject],
                             r.purpose, j.asOf)

Broken(j, rules) == {r \in rules : ~RuleIsMet(j, r)}

Claimed(j) == {c \in Category : \E p \in Pack.phrases[j.asset.market][c] : p \in j.asset.copy}

\* Evidence of kind k about a claim of category c that may be relied on.
OnFileFor(j, c, k) ==
    \E i \in EvidenceId :
        LET e == evidence[i]
            required == Pack.requirements[j.asset.market][c]
        IN  /\ e # NoEvidence
            /\ e.tenant = TenantOf[j.actor] /\ e.asset = j.asset.id
            /\ e.kind = k /\ c \in e.categories
            /\ e.verified \/ ~required.verified
            /\ e.issued # NoDate /\ e.issued \in 0..j.asOf
            /\ e.until # NoDate => j.asOf <= e.until
            /\ required.maxAge = 0 \/ e.issued + required.maxAge >= j.asOf

Kinds(j, c) ==
    IF Pack.requirements[j.asset.market][c] = NoRequirement THEN {}
    ELSE Pack.requirements[j.asset.market][c].kinds

Carried(j, c) == Kinds(j, c) # {} /\ \A k \in Kinds(j, c) : OnFileFor(j, c, k)

Unsupported(j, c) == \A k \in Kinds(j, c) : ~OnFileFor(j, c, k)

TrueVerdict(j) ==
    IF Claimed(j) = {} THEN "not_applicable"
    ELSE IF \A c \in Claimed(j) : Carried(j, c) THEN "substantiated"
    ELSE IF \E c \in Claimed(j) : Unsupported(j, c) THEN "unsubstantiated"
    ELSE "partially_substantiated"

Truth(j) ==
    IF j.service = "review"
    THEN LET broken == Broken(j, RuleBook[j.asset.market])
         IN  [verdict |-> IF broken = {} THEN "compliant" ELSE "non_compliant", failing |-> broken]
    ELSE [verdict |-> TrueVerdict(j),
          failing |-> Broken(j, {r \in Pack.rules :
                                    /\ r.market = j.asset.market
                                    /\ \/ r.categories = {}
                                       \/ \E c \in r.categories : c \in Claimed(j)})]

\* History: what was true at the instants of t's call, from the one it asks
\* about on, kept with its answer.
Since(t) ==
    IF pc'[t] = "idle" THEN IF answer'[t] = None THEN {} ELSE truths[t]
    ELSE (IF pc[t] = "idle" THEN {} ELSE truths[t])
         \cup (IF job'[t].asOf = None THEN {} ELSE {Truth(job[t])'})

History == truths' = [t \in Thread |-> Since(t)]

Next ==
    /\ \/ \E t \in Thread, request \in Requests : Submit(t, request)
       \/ \E t \in Thread : Serve(t)
       \/ \E p \in Checkers, review \in audit, approved \in BOOLEAN : Approve(p, review, approved)
       \/ \E p \in Principal, i \in EvidenceId : ReadEvidence(p, i)
       \/ Environment
    /\ History

Spec == Init /\ [][Next]_vars

\* A worker thread that serves a call goes on with it; each step moves pc.
FairSpec == Spec /\ \A t \in Thread : WF_pc(Serve(t))

-----------------------------------------------------------------------------
(* Properties.                                                             *)

Answers == {answer[t] : t \in Thread} \ {None}

\* The consequential decision is true: the verdict a call returns and the very
\* findings it lists are what the consent records, or the evidence, of the
\* caller's tenant amounted to at one instant of the call, whatever was stored,
\* withdrawn or replaced around its reads.
AnswersWereTrue ==
    \A t \in Thread : answer[t] # None =>
        [verdict |-> answer[t].conclusion.verdict,
         failing |-> answer[t].conclusion.failing] \in truths[t]

\* "only code produces ... the coverage number": it is whole exactly when
\* every claim is substantiated, however the shares of the claims round.
WholeMeansSubstantiated ==
    \A a \in Answers : a.job.service = "substantiation" =>
        (a.conclusion.coverage = 10000
            <=> a.conclusion.verdict \in {"substantiated", "not_applicable"})

AuditedAs(j, conclusion, decision) ==
    Event(j.service, j.actor, decision, Ref(j), conclusion.verdict) \in audit

\* "Routing is a best-effort hand-off after the durable audit ESCALATED
\* record": no result is returned, and no case reaches the console, that the
\* audit trail does not hold with its verdict and its decision, whichever step
\* of whichever call failed.
NothingLeavesUnaudited ==
    /\ \A a \in Answers :
          AuditedAs(a.job, a.conclusion,
                    IF NeedsReview(a.job, a.conclusion) THEN "escalated" ELSE "allowed")
    /\ \A c \in console : \E e \in audit :
          e.decision = "escalated" /\ e.ref = c.ref /\ e.actor = c.maker

\* A case as the trail, a call and the console each name it.
Handed(ref, maker) == [ref |-> ref, maker |-> maker]

Due(t) == IF pc[t] = "route" THEN {Handed(Ref(job[t]), job[t].actor)} ELSE {}

RequestedItems == {Handed(Ref(q), q.actor) : q \in Requests}

Promise == INSTANCE HandOff WITH
    Caller  <- Thread,
    Item    <- RequestedItems,
    due     <- [t \in Thread |-> Due(t)],
    trail   <- {Handed(e.ref, e.actor) : e \in {a \in audit : a.decision = "escalated"}},
    console <- {Handed(c.ref, c.maker) : c \in console}

\* The pipelines implement the promise of HandOff: an escalation is in the
\* trail before its call submits anything, the call then submits that very
\* case, once, and gives up; a call that failed, was blocked or needs no
\* checker hands nothing over, and no other operation of the services does.
ImplementsHandOff == Promise!Spec

\* What review_routing tells the caller is so: a case reported routed is in
\* the console, with its maker and its approvals; one that is not required
\* makes no claim, and fails no rule, that would need a checker.
RoutingIsReported ==
    \A a \in Answers :
        /\ a.routing = "routed" => Case(a.job, a.conclusion) \in console
        /\ a.routing = "failed" => router = "platform"
        /\ a.routing = "off" => router = "off"
        /\ a.routing = "not_required" => Claimed(a.job) = {} /\ a.job.service # "review"

\* "a HIGH/CRITICAL failing finding warranting four-eyes": every case in the
\* console that answers a call with such a finding asks for two approvals.
StrongFindingsGetTwo ==
    \A a \in Answers :
        (\E r \in a.conclusion.failing : r.severity \in {"high", "critical"})
        => Case(a.job, a.conclusion).approvals = 2

\* Every escalation in the audit trail has its case in the console.
Delivered ==
    \A e \in audit : e.decision = "escalated" =>
        \E c \in console : c.ref = e.ref /\ c.maker = e.actor

\* With the local router every escalation that was audited arrives.
EscalationsArrive == router = "local" => []<>Delivered

\* "A green-claim escalation is at least HIGH: ... so it gets four eyes even
\* when no rule finding failed" (_review_payload.py).
GreenClaimsGetFourEyes ==
    \A c \in console : c.ref.service = "substantiation" => c.approvals = 2
=============================================================================
