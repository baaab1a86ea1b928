-------------------------- MODULE ReviewGateProofs --------------------------
(***************************************************************************)
(* What holds of every result the two maker pipelines return and of every  *)
(* case they hand off, for any threads, callers, assets, rules, packs and  *)
(* routers, proved of ReviewGate: first that a result is audited and       *)
(* handed off as told, then that it was true, last what a coverage of one  *)
(* means.                                                                  *)
(***************************************************************************)
EXTENDS ReviewGate, EngineProofs, FiniteSetTheorems

-----------------------------------------------------------------------------
(* The engines.                                                            *)

\* The worst of some claims' verdicts is one of them, and none is worse.
LEMMA WorstIsOneOfThem ==
    ASSUME NEW S, S # {}, S \subseteq Verdicts
    PROVE  Worst(S) \in S /\ \A v \in S : VerdictRank[Worst(S)] <= VerdictRank[v]
<1>1. \E v \in S : \A w \in S : VerdictRank[v] <= VerdictRank[w]
  <2>1. CASE "unsubstantiated" \in S
    BY <2>1 DEF Verdicts, VerdictRank
  <2>2. CASE "unsubstantiated" \notin S /\ "partially_substantiated" \in S
    BY <2>2 DEF Verdicts, VerdictRank
  <2>3. CASE S \subseteq {"substantiated", "not_applicable"} /\ "substantiated" \in S
    BY <2>3 DEF VerdictRank
  <2>4. CASE S = {"not_applicable"}
    BY <2>4 DEF VerdictRank
  <2> QED
    BY <2>1, <2>2, <2>3, <2>4 DEF Verdicts
<1> QED
  BY <1>1 DEF Worst

\* An assessment finds nothing to assess only in copy that claims nothing.
LEMMA NotApplicableClaimsNothing ==
    ASSUME NEW asset, NEW pack, NEW seen, NEW day,
           Assess(asset, pack, seen, day).verdict = "not_applicable"
    PROVE  DetectClaims(asset, pack) = {}
<1> DEFINE claims == DetectClaims(asset, pack)
           verdictOf(c) == ClaimVerdict(ClaimCoverage(c, asset.market, pack, seen, day))
           verdicts == {verdictOf(c) : c \in claims}
<1> SUFFICES ASSUME claims # {} PROVE FALSE
  OBVIOUS
<1>1. verdicts \subseteq {"unsubstantiated", "partially_substantiated", "substantiated"}
  BY DEF ClaimVerdict
<1>2. Worst(verdicts) \in verdicts
  BY <1>1, WorstIsOneOfThem DEF Verdicts
<1>3. Assess(asset, pack, seen, day).verdict = Worst(verdicts)
  BY DEF Assess
<1> QED
  BY <1>1, <1>2, <1>3

\* What needs no checker makes no claim, and is no review.
LEMMA OnlyAssessmentsClear ==
    ASSUME NEW j, NEW seen, ~NeedsReview(j, Conclude(j, seen))
    PROVE  Claimed(j) = {} /\ j.service # "review"
<1>1. j.service # "review" /\ Conclude(j, seen).verdict = "not_applicable"
  BY DEF NeedsReview
<1>2. Conclude(j, seen).verdict = Assess(j.asset, Pack, seen, j.asOf).verdict
  BY <1>1 DEF Conclude
<1>3. DetectClaims(j.asset, Pack) = {}
  BY <1>1, <1>2, NotApplicableClaimsNothing
<1> QED
  BY <1>1, <1>3 DEF DetectClaims, Claimed

-----------------------------------------------------------------------------
(* The hand-off.                                                           *)

Shapes ==
    /\ pc = [t \in Thread |-> pc[t]]
    /\ job = [t \in Thread |-> job[t]]
    /\ found = [t \in Thread |-> found[t]]
    /\ answer = [t \in Thread |-> answer[t]]

\* A call that is about to hand its case off has its escalation in the trail.
AboutToRoute(t) ==
    pc[t] = "route" => Escalates(t) /\ AuditedAs(job[t], Concluded(t), "escalated")

\* An answer is in the trail with the decision it calls for.
AnswerIsAudited(t) ==
    answer[t] # None =>
        AuditedAs(answer[t].job, answer[t].conclusion,
                  IF NeedsReview(answer[t].job, answer[t].conclusion)
                  THEN "escalated" ELSE "allowed")

CaseIsAudited(c) ==
    \E e \in audit : e.decision = "escalated" /\ e.ref = c.ref /\ e.actor = c.maker

\* The routing an answer reports is what became of its case.
AnswerIsTold(t) ==
    answer[t] # None =>
        /\ answer[t].routing = "routed" =>
              Case(answer[t].job, answer[t].conclusion) \in console
        /\ answer[t].routing = "failed" => router = "platform"
        /\ answer[t].routing = "off" => router = "off"
        /\ answer[t].routing = "not_required" =>
              Claimed(answer[t].job) = {} /\ answer[t].job.service # "review"

HandOffInv ==
    /\ Shapes
    /\ \A t \in Thread : AboutToRoute(t) /\ AnswerIsAudited(t) /\ AnswerIsTold(t)
    /\ \A c \in console : CaseIsAudited(c)

LEMMA HandOffInit == Init => HandOffInv
BY DEF Init, HandOffInv, Shapes, AboutToRoute, AnswerIsAudited, AnswerIsTold

\* A step of one thread, or of none, that hands nothing off: its thread does
\* not come to route a case and its answer is withdrawn or kept.
Quietly(t) ==
    /\ \A u \in Thread : u # t =>
          pc'[u] = pc[u] /\ job'[u] = job[u] /\ found'[u] = found[u]
    /\ pc'[t] # "route"
    /\ answer'[t] \in {None, answer[t]}

LEMMA QuietStep ==
    ASSUME HandOffInv, Shapes', audit \subseteq audit', UNCHANGED <<console, router>>,
           NEW t \in Thread, Quietly(t),
           \A u \in Thread : u # t => answer'[u] = answer[u]
    PROVE  HandOffInv'
<1>1. ASSUME NEW u \in Thread
      PROVE  AboutToRoute(u)'
  BY DEF HandOffInv, Quietly, AboutToRoute, Escalates, AuditedAs, Concluded
<1>2. ASSUME NEW u \in Thread
      PROVE  AnswerIsAudited(u)' /\ AnswerIsTold(u)'
  BY DEF HandOffInv, Quietly, AnswerIsAudited, AnswerIsTold, AuditedAs
<1>3. \A c \in console' : CaseIsAudited(c)'
  BY DEF HandOffInv, CaseIsAudited
<1> QED
  BY <1>1, <1>2, <1>3 DEF HandOffInv

LEMMA SubmitStep ==
    ASSUME HandOffInv, NEW t \in Thread, NEW request \in Requests, Submit(t, request)
    PROVE  HandOffInv'
<1>1. Shapes'
  BY DEF HandOffInv, Shapes, Submit
<1>2. Quietly(t) /\ \A u \in Thread : u # t => answer'[u] = answer[u]
  BY DEF HandOffInv, Shapes, Submit, Quietly
<1> QED
  BY <1>1, <1>2, QuietStep DEF Submit

\* The steps between submission and the audit record, and a call that ends in
\* an error.
LEMMA EarlyStep ==
    ASSUME HandOffInv, NEW t \in Thread,
           ScreenInput(t) \/ LoadRules(t) \/ ReadFacts(t) \/ ScreenOutput(t) \/ CallFails(t)
    PROVE  HandOffInv'
<1>1. Shapes'
  BY DEF HandOffInv, Shapes, ScreenInput, LoadRules, ReadFacts, ScreenOutput, CallFails,
         Goto, Leave, Blocked
<1>2. Quietly(t)
  BY DEF HandOffInv, Shapes, Quietly, ScreenInput, LoadRules, ReadFacts, ScreenOutput, CallFails,
         Goto, Leave, Blocked
<1>3. audit \subseteq audit' /\ UNCHANGED <<console, router, answer>>
  BY DEF ScreenInput, LoadRules, ReadFacts, ScreenOutput, CallFails, Blocked
<1> QED
  BY <1>1, <1>2, <1>3, QuietStep

LEMMA RecordStep ==
    ASSUME HandOffInv, NEW t \in Thread, Record(t)
    PROVE  HandOffInv'
<1> DEFINE event == Event(job[t].service, job[t].actor,
                          IF Escalates(t) THEN "escalated" ELSE "allowed",
                          Ref(job[t]), Concluded(t).verdict)
<1>1. Shapes'
  BY DEF HandOffInv, Shapes, Record, Goto, Return, Leave
<1>2. audit' = audit \cup {event} /\ UNCHANGED <<console, router>>
  BY DEF Record
<1>4. \A u \in Thread : u # t =>
        pc'[u] = pc[u] /\ job'[u] = job[u] /\ found'[u] = found[u] /\ answer'[u] = answer[u]
  BY DEF HandOffInv, Shapes, Record, Goto, Return, Leave
<1>5. ASSUME NEW u \in Thread, u # t
      PROVE  AboutToRoute(u)' /\ AnswerIsAudited(u)' /\ AnswerIsTold(u)'
  BY <1>2, <1>4, <1>5
     DEF HandOffInv, AboutToRoute, AnswerIsAudited, AnswerIsTold, Escalates, AuditedAs, Concluded
<1>6. AboutToRoute(t)' /\ AnswerIsAudited(t)' /\ AnswerIsTold(t)'
  <2>1. CASE Escalates(t)
    <3>1. /\ job' = job /\ found' = found /\ answer' = answer
          /\ event = Event(job[t].service, job[t].actor, "escalated", Ref(job[t]),
                           Concluded(t).verdict)
      BY <2>1 DEF Record, Goto
    <3>2. AboutToRoute(t)'
      BY <1>2, <2>1, <3>1 DEF AboutToRoute, Escalates, AuditedAs, Concluded
    <3>3. AnswerIsAudited(t)' /\ AnswerIsTold(t)'
      BY <1>2, <3>1 DEF HandOffInv, AnswerIsAudited, AnswerIsTold, AuditedAs
    <3> QED
      BY <3>2, <3>3
  <2>2. CASE ~Escalates(t)
    <3>1. pc'[t] = "idle" /\ answer'[t] = Answered(t, "not_required")
      BY <2>2 DEF HandOffInv, Shapes, Record, Return, Leave
    <3>2. /\ answer'[t].job = job[t] /\ answer'[t].conclusion = Concluded(t)
          /\ answer'[t].routing = "not_required"
      BY <3>1 DEF Answered
    <3>3. ~NeedsReview(job[t], Concluded(t))
      BY <2>2 DEF Escalates
    <3>4. event = Event(job[t].service, job[t].actor, "allowed", Ref(job[t]),
                        Concluded(t).verdict)
      BY <2>2
    <3>5. AnswerIsAudited(t)'
      BY <1>2, <3>2, <3>3, <3>4 DEF AnswerIsAudited, AuditedAs
    <3>6. Claimed(job[t]) = {} /\ job[t].service # "review"
      BY <3>3, OnlyAssessmentsClear DEF Concluded
    <3>7. AnswerIsTold(t)'
      BY <3>2, <3>6 DEF AnswerIsTold
    <3> QED
      BY <3>1, <3>5, <3>7 DEF AboutToRoute
  <2> QED
    BY <2>1, <2>2
<1>7. \A c \in console' : CaseIsAudited(c)'
  BY <1>2 DEF HandOffInv, CaseIsAudited
<1> QED
  BY <1>1, <1>5, <1>6, <1>7 DEF HandOffInv

LEMMA RouteStep ==
    ASSUME HandOffInv, NEW t \in Thread, Route(t)
    PROVE  HandOffInv'
<1> DEFINE case == Case(job[t], Concluded(t))
<1>1. PICK routing \in {"routed", "failed", "off"} :
        /\ Return(t, routing)
        /\ routing = "routed" => Receive(t)
        /\ routing = "failed" => router = "platform"
        /\ routing = "off" => router = "off"
        /\ Receive(t) \/ UNCHANGED console
  BY DEF Route
<1>2. UNCHANGED <<audit, router>> /\ console \subseteq console'
      /\ console' \subseteq console \cup {case}
  BY <1>1 DEF Route, Receive
<1>3. Shapes'
  BY <1>1 DEF HandOffInv, Shapes, Return, Leave
<1>4. \A u \in Thread : u # t =>
        pc'[u] = pc[u] /\ job'[u] = job[u] /\ found'[u] = found[u] /\ answer'[u] = answer[u]
  BY <1>1 DEF HandOffInv, Shapes, Return, Leave
<1>5. Escalates(t) /\ AuditedAs(job[t], Concluded(t), "escalated")
  BY DEF HandOffInv, Route, AboutToRoute
<1>6. ASSUME NEW u \in Thread, u # t
      PROVE  AboutToRoute(u)' /\ AnswerIsAudited(u)' /\ AnswerIsTold(u)'
  BY <1>2, <1>4, <1>6
     DEF HandOffInv, AboutToRoute, AnswerIsAudited, AnswerIsTold, Escalates, AuditedAs, Concluded
<1>7. AboutToRoute(t)' /\ AnswerIsAudited(t)' /\ AnswerIsTold(t)'
  <2>1. pc'[t] = "idle" /\ answer'[t] = Answered(t, routing)
    BY <1>1 DEF HandOffInv, Shapes, Return, Leave
  <2>2. /\ answer'[t].job = job[t] /\ answer'[t].conclusion = Concluded(t)
        /\ answer'[t].routing = routing
    BY <2>1 DEF Answered
  <2>3. AnswerIsAudited(t)'
    BY <1>2, <1>5, <2>2 DEF AnswerIsAudited, AuditedAs, Escalates
  <2>4. AnswerIsTold(t)'
    BY <1>1, <1>2, <2>2 DEF AnswerIsTold, Receive
  <2> QED
    BY <2>1, <2>3, <2>4 DEF AboutToRoute
<1>8. ASSUME NEW c \in console'
      PROVE  CaseIsAudited(c)'
  <2>1. CASE c \in console
    BY <1>2, <2>1 DEF HandOffInv, CaseIsAudited
  <2>2. CASE c = case
    BY <1>2, <1>5, <2>2 DEF CaseIsAudited, AuditedAs, Event, Case
  <2> QED
    BY <1>2, <2>1, <2>2
<1> QED
  BY <1>3, <1>6, <1>7, <1>8 DEF HandOffInv

\* The other operations, the environment and a stutter leave every call alone.
LEMMA OtherStep ==
    ASSUME HandOffInv, audit \subseteq audit',
           UNCHANGED <<router, pc, job, found, answer, console>>
    PROVE  HandOffInv'
BY DEF HandOffInv, Shapes, AboutToRoute, AnswerIsAudited, AnswerIsTold, CaseIsAudited,
       Escalates, AuditedAs, Concluded

LEMMA HandOffStep == HandOffInv /\ [Next]_vars => HandOffInv'
<1> SUFFICES ASSUME HandOffInv, [Next]_vars PROVE HandOffInv'
  OBVIOUS
<1>1. ASSUME NEW t \in Thread, NEW request \in Requests, Submit(t, request)
      PROVE  HandOffInv'
  BY <1>1, SubmitStep
<1>2. ASSUME NEW t \in Thread, Serve(t)
      PROVE  HandOffInv'
  BY <1>2, EarlyStep, RecordStep, RouteStep DEF Serve
<1>3. ASSUME NEW p \in Checkers, NEW review \in audit, NEW approved \in BOOLEAN,
             Approve(p, review, approved)
      PROVE  HandOffInv'
  BY <1>3, OtherStep DEF Approve
<1>4. ASSUME NEW p \in Principal, NEW i \in EvidenceId, ReadEvidence(p, i)
      PROVE  HandOffInv'
  BY <1>4, OtherStep DEF ReadEvidence
<1>5. CASE Environment
  BY <1>5, OtherStep DEF Environment, Elsewhere, PutEvidence, Tick
<1>6. CASE UNCHANGED vars
  BY <1>6, OtherStep DEF vars
<1> QED
  BY <1>1, <1>2, <1>3, <1>4, <1>5, <1>6 DEF Next

-----------------------------------------------------------------------------
(* The theorems.                                                           *)

LEMMA HandOffAlways == Spec => []HandOffInv
BY HandOffInit, HandOffStep, PTL DEF Spec

\* No result is returned, and no case reaches the console, that the audit trail
\* does not hold with its verdict and its decision, for any number of calls at
\* once and wherever one of them fails.
THEOREM LeavesAudited == Spec => []NothingLeavesUnaudited
<1>1. HandOffInv => NothingLeavesUnaudited
  BY DEF HandOffInv, NothingLeavesUnaudited, AnswerIsAudited, CaseIsAudited, Answers
<1> QED
  BY <1>1, HandOffAlways, PTL

\* The routing reported to a caller is what became of the case: routed means
\* the console has it, not_required that the copy makes no green claim.
THEOREM RoutingToldTrue == Spec => []RoutingIsReported
<1>1. HandOffInv => RoutingIsReported
  BY DEF HandOffInv, RoutingIsReported, AnswerIsTold, Answers
<1> QED
  BY <1>1, HandOffAlways, PTL

-----------------------------------------------------------------------------
(* Four eyes.                                                              *)

\* The strongest of the failed findings' severities speaks for them.
LEMMA StrongestSpeaks ==
    ASSUME NEW failing, NEW default, \A r \in failing : r.severity \in Severity,
           \E r \in failing : r.severity \in {"high", "critical"}
    PROVE  HighestSeverity(failing, default) \in {"high", "critical"}
<1> DEFINE severities == {r.severity : r \in failing}
           highest(s) == \A r \in failing : Rank[r.severity] <= Rank[s]
<1>1. \E s \in severities : highest(s)
  <2>1. CASE "critical" \in severities
    <3>1. highest("critical")
      BY DEF Severity, Rank
    <3> QED
      BY <2>1, <3>1
  <2>2. CASE "critical" \notin severities
    <3>1. highest("high") /\ "high" \in severities
      BY <2>2 DEF Severity, Rank
    <3> QED
      BY <3>1
  <2> QED
    BY <2>1, <2>2
<1>2. HighestSeverity(failing, default) = CHOOSE s \in severities : highest(s)
  BY DEF HighestSeverity
<1>3. /\ HighestSeverity(failing, default) \in Severity
      /\ highest(HighestSeverity(failing, default))
  BY <1>1, <1>2
<1> QED
  BY <1>3 DEF Severity, Rank

Graded(conclusion) == \A r \in conclusion.failing : r.severity \in Severity

\* A case with a strong finding asks for two approvals.
LEMMA StrongCasesAskForTwo ==
    ASSUME NEW j, NEW conclusion, Graded(conclusion),
           \E r \in conclusion.failing : r.severity \in {"high", "critical"}
    PROVE  Case(j, conclusion).approvals = 2
BY StrongestSpeaks
   DEF Case, Graded, ReviewSeverity, AssessmentSeverity, RequiredApprovals

Requested(j) ==
    \E q \in Requests : j.asset = q.asset /\ j.actor = q.actor /\ j.service = q.service

LEMMA ConclusionsAreGraded ==
    ASSUME NEW j, NEW seen, Requested(j)
    PROVE  Graded(Conclude(j, seen))
<1>1. \A r \in Applicable(j) : r.severity \in Severity
  BY GradingAssumption DEF Requested, Applicable, RulesFor
<1>2. CASE j.service = "review"
  <2>1. Conclude(j, seen).failing = Failing(j.asset, seen, Applicable(j))
    BY <1>2 DEF Conclude
  <2> QED
    BY <1>1, <2>1 DEF Graded, Failing
<1>3. CASE j.service # "review"
  <2>1. Conclude(j, seen).failing = Failing(j.asset, {}, Applicable(j))
    BY <1>3 DEF Conclude
  <2> QED
    BY <1>1, <2>1 DEF Graded, Failing
<1> QED
  BY <1>2, <1>3

FourEyesInv ==
    /\ Shapes
    /\ \A t \in Thread :
          /\ pc[t] # "idle" => /\ Requested(job[t])
                               /\ job[t] = [actor |-> job[t].actor, service |-> job[t].service,
                                            asset |-> job[t].asset, asOf |-> job[t].asOf]
          /\ answer[t] # None => Graded(answer[t].conclusion)

LEMMA FourEyesInit == Init => FourEyesInv
BY DEF Init, FourEyesInv, Shapes

\* A thread that goes on keeps the asset it was given.
LEMMA FourEyesServe ==
    ASSUME FourEyesInv, NEW t \in Thread, Serve(t)
    PROVE  FourEyesInv'
<1>1. Shapes' /\ pc[t] # "idle"
  BY DEF FourEyesInv, Shapes, Serve, ScreenInput, LoadRules, ReadFacts, ScreenOutput, Record,
         Route, CallFails, Goto, Leave, Return, Blocked, Steps
<1>2. ASSUME NEW u \in Thread, u # t
      PROVE  pc'[u] = pc[u] /\ job'[u] = job[u] /\ answer'[u] = answer[u]
  BY <1>2 DEF FourEyesInv, Shapes, Serve, ScreenInput, LoadRules, ReadFacts, ScreenOutput, Record,
         Route, CallFails, Goto, Leave, Return, Blocked
<1>3. \/ pc'[t] = "idle"
      \/ job'[t] = job[t]
      \/ job'[t] = [job[t] EXCEPT !.asOf = now]
  BY DEF FourEyesInv, Shapes, Serve, ScreenInput, LoadRules, ReadFacts, ScreenOutput, Record,
         Route, CallFails, Goto, Leave, Return, Blocked
<1>4. \/ answer'[t] = answer[t]
      \/ \E routing : answer'[t] = Answered(t, routing)
  BY DEF FourEyesInv, Shapes, Serve, ScreenInput, LoadRules, ReadFacts, ScreenOutput, Record,
         Route, CallFails, Goto, Leave, Return, Blocked
<1>5. /\ Requested(job[t])
      /\ job[t] = [actor |-> job[t].actor, service |-> job[t].service,
                   asset |-> job[t].asset, asOf |-> job[t].asOf]
      /\ answer[t] # None => Graded(answer[t].conclusion)
  BY <1>1 DEF FourEyesInv
<1>6. pc'[t] # "idle" => /\ Requested(job'[t])
                         /\ job'[t] = [actor |-> job'[t].actor, service |-> job'[t].service,
                                       asset |-> job'[t].asset, asOf |-> job'[t].asOf]
  BY <1>3, <1>5 DEF Requested
<1>7. answer'[t] # None => Graded(answer'[t].conclusion)
  <2>1. Graded(Concluded(t))
    BY <1>5, ConclusionsAreGraded DEF Concluded
  <2>2. ASSUME NEW routing, answer'[t] = Answered(t, routing)
        PROVE  Graded(answer'[t].conclusion)
    BY <2>1, <2>2 DEF Answered
  <2> QED
    BY <1>4, <1>5, <2>2
<1> QED
  BY <1>1, <1>2, <1>6, <1>7 DEF FourEyesInv

LEMMA FourEyesStep == FourEyesInv /\ [Next]_vars => FourEyesInv'
<1> SUFFICES ASSUME FourEyesInv, [Next]_vars PROVE FourEyesInv'
  OBVIOUS
<1>1. ASSUME NEW t \in Thread, NEW request \in Requests, Submit(t, request)
      PROVE  FourEyesInv'
  <2>1. Shapes' /\ answer'[t] = None
    BY <1>1 DEF FourEyesInv, Shapes, Submit
  <2>2. ASSUME NEW u \in Thread, u # t
        PROVE  pc'[u] = pc[u] /\ job'[u] = job[u] /\ answer'[u] = answer[u]
    BY <1>1, <2>2 DEF FourEyesInv, Shapes, Submit
  <2>3. job'[t] = AtOnce(request)
    BY <1>1 DEF FourEyesInv, Shapes, Submit
  <2>4. AtOnce(request) = request \/ AtOnce(request) = [request EXCEPT !.asOf = now]
    BY DEF AtOnce
  <2>5. /\ Requested(job'[t])
        /\ job'[t] = [actor |-> job'[t].actor, service |-> job'[t].service,
                      asset |-> job'[t].asset, asOf |-> job'[t].asOf]
    BY <2>3, <2>4, GradingAssumption DEF Requested
  <2> QED
    BY <2>1, <2>2, <2>5 DEF FourEyesInv
<1>2. ASSUME NEW t \in Thread, Serve(t)
      PROVE  FourEyesInv'
  BY <1>2, FourEyesServe
<1>3. CASE UNCHANGED <<pc, job, found, answer>>
  BY <1>3 DEF FourEyesInv, Shapes
<1> QED
  BY <1>1, <1>2, <1>3 DEF Next, vars, Approve, ReadEvidence, Environment, Elsewhere,
                          PutEvidence, Tick

\* Four eyes on every strong finding: whatever the rules, the pack and the
\* evidence, a result that lists a HIGH or CRITICAL failure asks for two.
THEOREM StrongFindingsGetFourEyes == Spec => []StrongFindingsGetTwo
<1>1. FourEyesInv => StrongFindingsGetTwo
  BY StrongCasesAskForTwo DEF FourEyesInv, StrongFindingsGetTwo, Answers
<1> QED
  BY <1>1, FourEyesInit, FourEyesStep, PTL DEF Spec
-----------------------------------------------------------------------------
(* The refinement of HandOff.                                              *)

EscalatedIn(events) ==
    {Handed(e.ref, e.actor) : e \in {a \in events : a.decision = "escalated"}}

HandedTo(cases) == {Handed(c.ref, c.maker) : c \in cases}

due == [t \in Thread |-> Due(t)]

\* A thread that neither comes to route a case nor has one to route.
LEMMA NothingDue ==
    ASSUME NEW t \in Thread, pc[t] # "route", pc'[t] # "route",
           \A u \in Thread : u # t => pc'[u] = pc[u] /\ job'[u] = job[u]
    PROVE  UNCHANGED due
<1>1. ASSUME NEW u \in Thread
      PROVE  Due(u)' = Due(u)
  BY DEF Due
<1> QED
  BY <1>1 DEF due

\* What is handed over is what was requested.
LEMMA HandsOverRequests ==
    ASSUME NEW j, Requested(j)
    PROVE  Handed(Ref(j), j.actor) \in RequestedItems
BY DEF Requested, RequestedItems, Ref

LEMMA RecordRefines ==
    ASSUME FourEyesInv, NEW t \in Thread, Record(t)
    PROVE  [Promise!Next]_(Promise!handOffVars)
<1> DEFINE case == Handed(Ref(job[t]), job[t].actor)
           event == Event(job[t].service, job[t].actor,
                          IF Escalates(t) THEN "escalated" ELSE "allowed",
                          Ref(job[t]), Concluded(t).verdict)
<1>1. /\ audit' = audit \cup {event} /\ UNCHANGED console
      /\ event.ref = Ref(job[t]) /\ event.actor = job[t].actor
      /\ event.decision = IF Escalates(t) THEN "escalated" ELSE "allowed"
  BY DEF Record, Event
<1>2. pc[t] = "audit"
  BY DEF Record
<1> HIDE DEF event
<1>3. CASE Escalates(t)
  <2>1. EscalatedIn(audit)' = EscalatedIn(audit) \cup {case}
    BY <1>1, <1>3 DEF EscalatedIn
  <2>2. due[t] = {}
    BY <1>2 DEF due, Due
  <2>3. pc' = [pc EXCEPT ![t] = "route"] /\ UNCHANGED job
    BY <1>3 DEF Record, Goto
  <2>4. due' = [due EXCEPT ![t] = {case}]
    <3>1. Due(t)' = {case}
      BY <2>3 DEF FourEyesInv, Shapes, Due
    <3>2. \A u \in Thread : u # t => Due(u)' = Due(u)
      BY <2>3 DEF FourEyesInv, Shapes, Due
    <3> QED
      BY <3>1, <3>2 DEF due
  <2>5. case \in RequestedItems
    BY <1>2, HandsOverRequests DEF FourEyesInv
  <2> HIDE DEF case
  <2>6. Promise!Escalate(t, case)
    BY <1>1, <2>1, <2>2, <2>4 DEF Promise!Escalate, EscalatedIn, due
  <2> QED
    BY <2>5, <2>6 DEF Promise!Next, Promise!Escalate
<1>4. CASE ~Escalates(t)
  <2>1. EscalatedIn(audit)' = EscalatedIn(audit)
    BY <1>1, <1>4 DEF EscalatedIn
  <2>2. UNCHANGED due
    BY <1>2, <1>4, NothingDue DEF FourEyesInv, Shapes, Record, Return, Leave
  <2> QED
    BY <1>1, <2>1, <2>2 DEF Promise!handOffVars, EscalatedIn, due
<1> QED
  BY <1>3, <1>4

LEMMA RouteRefines ==
    ASSUME FourEyesInv, NEW t \in Thread, Route(t)
    PROVE  Promise!Next
<1> DEFINE case == Handed(Ref(job[t]), job[t].actor)
<1>1. /\ pc[t] = "route" /\ UNCHANGED audit
      /\ \A u \in Thread : u # t => pc'[u] = pc[u] /\ job'[u] = job[u]
      /\ pc'[t] = "idle"
      /\ Receive(t) \/ UNCHANGED console
  BY DEF Route, Return, Leave, FourEyesInv, Shapes
<1>2. due[t] = {case}
  BY <1>1 DEF due, Due
<1>3. due' = [due EXCEPT ![t] = {}]
  <2>1. Due(t)' = {} /\ \A u \in Thread : u # t => Due(u)' = Due(u)
    BY <1>1 DEF Due
  <2> QED
    BY <2>1 DEF due
<1>4. HandedTo(console)' \in {HandedTo(console), HandedTo(console) \cup due[t]}
  <2>1. CASE Receive(t)
    <3>1. /\ console' = console \cup {Case(job[t], Concluded(t))}
          /\ Case(job[t], Concluded(t)).ref = Ref(job[t])
          /\ Case(job[t], Concluded(t)).maker = job[t].actor
      BY <2>1 DEF Receive, Case
    <3> QED
      BY <1>2, <3>1 DEF HandedTo
  <2>2. CASE UNCHANGED console
    BY <2>2
  <2> QED
    BY <1>1, <2>1, <2>2
<1>5. Promise!Attempt(t)
  BY <1>1, <1>2, <1>3, <1>4 DEF Promise!Attempt, HandedTo, due
<1> QED
  BY <1>5 DEF Promise!Next

\* The steps that hand nothing over.
LEMMA OtherRefines ==
    ASSUME EscalatedIn(audit)' = EscalatedIn(audit), UNCHANGED <<console, due>>
    PROVE  UNCHANGED Promise!handOffVars
BY DEF Promise!handOffVars, EscalatedIn, due

LEMMA PromiseStep ==
    FourEyesInv /\ [Next]_vars => [Promise!Next]_(Promise!handOffVars)
<1> SUFFICES ASSUME FourEyesInv, [Next]_vars PROVE [Promise!Next]_(Promise!handOffVars)
  OBVIOUS
<1>1. ASSUME NEW t \in Thread, NEW request \in Requests, Submit(t, request)
      PROVE  UNCHANGED Promise!handOffVars
  <2>1. UNCHANGED <<audit, console>> /\ pc[t] # "route" /\ pc'[t] # "route"
        /\ \A u \in Thread : u # t => pc'[u] = pc[u] /\ job'[u] = job[u]
    BY <1>1 DEF FourEyesInv, Shapes, Submit
  <2> QED
    BY <2>1, NothingDue, OtherRefines
<1>2. ASSUME NEW t \in Thread,
             ScreenInput(t) \/ LoadRules(t) \/ ReadFacts(t) \/ ScreenOutput(t) \/ CallFails(t)
      PROVE  UNCHANGED Promise!handOffVars
  <2>1. UNCHANGED console /\ pc[t] # "route" /\ pc'[t] # "route"
        /\ \A u \in Thread : u # t => pc'[u] = pc[u] /\ job'[u] = job[u]
    BY <1>2 DEF FourEyesInv, Shapes, ScreenInput, LoadRules, ReadFacts, ScreenOutput, CallFails,
           Goto, Leave, Blocked
  <2>2. audit' = audit \/ Blocked(t)
    BY <1>2 DEF ScreenInput, LoadRules, ReadFacts, ScreenOutput, CallFails
  <2>3. EscalatedIn(audit)' = EscalatedIn(audit)
    BY <2>2 DEF EscalatedIn, Blocked, Event
  <2> QED
    BY <2>1, <2>3, NothingDue, OtherRefines
<1>3. ASSUME NEW p \in Checkers, NEW review \in audit, NEW approved \in BOOLEAN,
             Approve(p, review, approved)
      PROVE  UNCHANGED Promise!handOffVars
  <2>1. EscalatedIn(audit)' = EscalatedIn(audit)
    BY <1>3 DEF EscalatedIn, Approve, Event
  <2> QED
    BY <1>3, <2>1, OtherRefines DEF Approve, due, Due
<1>4. ASSUME NEW p \in Principal, NEW i \in EvidenceId, ReadEvidence(p, i)
      PROVE  UNCHANGED Promise!handOffVars
  <2>1. EscalatedIn(audit)' = EscalatedIn(audit)
    BY <1>4 DEF EscalatedIn, ReadEvidence, Event
  <2> QED
    BY <1>4, <2>1, OtherRefines DEF ReadEvidence, due, Due
<1>5. CASE Environment \/ UNCHANGED vars
  <2>1. UNCHANGED <<audit, console, pc, job>>
    BY <1>5 DEF Environment, Elsewhere, PutEvidence, Tick, vars
  <2> QED
    BY <2>1, OtherRefines DEF EscalatedIn, due, Due
<1>6. ASSUME NEW t \in Thread, Serve(t)
      PROVE  [Promise!Next]_(Promise!handOffVars)
  BY <1>2, <1>6, RecordRefines, RouteRefines DEF Serve
<1> QED
  BY <1>1, <1>3, <1>4, <1>5, <1>6 DEF Next

\* The pipelines are an implementation of HandOff: whatever the requests, the
\* rules and the routers, and wherever a call fails, each escalation is in the
\* trail before it is submitted, is submitted once and as itself, and nothing
\* else ever reaches the console.
THEOREM PipelinesImplementHandOff == Spec => ImplementsHandOff
<1>1. Init => Promise!Init
  BY DEF Init, Promise!Init, Due
<1> QED
  BY <1>1, FourEyesInit, FourEyesStep, PromiseStep, PTL
     DEF Spec, ImplementsHandOff, Promise!Spec

-----------------------------------------------------------------------------
(* That what the pipelines conclude is what the consent records and the    *)
(* evidence on file amounted to: first that the engines agree with the     *)
(* reference on the facts they are given, then that every call was given   *)
(* the facts of one of its instants.                                       *)

(* Rules.                                                                  *)

RecordsKept ==
    /\ records \in [Id -> RecordRow \cup {None}]
    /\ \A i \in Id : records[i] # None => records[i].id = i

PersonOf(j) == [tenant |-> TenantOf[j.actor], subject |-> j.asset.subject]

\* A review finds granted what the caller's tenant has on file.
LEMMA GrantedToIsOnFile ==
    ASSUME RecordsKept, NEW j, j.asOf \in Instant, NEW p
    PROVE  (\E g \in GrantedTo(j) : Match(g, p))
             <=> /\ Blank \notin {j.asset.subject, TenantOf[j.actor]}
                 /\ ConsentOnFile(Stored(records), PersonOf(j), p, j.asOf)
<1> DEFINE rows == OfSubject(records, TenantOf[j.actor], j.asset.subject)
<1>1. CASE Blank \in {j.asset.subject, TenantOf[j.actor]}
  <2>1. rows = {}
    BY <1>1 DEF OfSubject
  <2>2. GrantedTo(j) = {}
    BY <2>1 DEF GrantedTo, GrantedPurposes
  <2> QED
    BY <1>1, <2>2
<1>2. CASE Blank \notin {j.asset.subject, TenantOf[j.actor]}
  <2>1. PersonOf(j).tenant = TenantOf[j.actor] /\ PersonOf(j).subject = j.asset.subject
    BY DEF PersonOf
  <2>2. rows = {r \in Stored(records) : About(PersonOf(j), r)}
    BY <1>2, <2>1 DEF OfSubject, About
  <2>3. /\ Stored(records) \subseteq RecordRow
        /\ \A r \in Stored(records) : r.id \in Nat
        /\ Distinct(Stored(records))
    BY KeysTellRowsApart, IdAssumption DEF RecordsKept, Stored
  <2>4. \A r \in Stored(records) : Timed(r)
    BY <2>3 DEF RecordRow, Timed
  <2>5. Granted(p, rows, j.asOf) <=> ConsentOnFile(Stored(records), PersonOf(j), p, j.asOf)
    BY <2>2, <2>3, <2>4, GrantedIsOnFile
  <2> QED
    BY <1>2, <2>5, GrantedInSomeSpelling DEF GrantedTo
<1> QED
  BY <1>1, <1>2

\* The checker fails the rules that are broken.
LEMMA FailingIsBroken ==
    ASSUME RecordsKept, NEW j, j.asOf \in Instant, NEW rules, NEW granted,
           granted = IF j.service = "review" THEN GrantedTo(j) ELSE {}
    PROVE  Failing(j.asset, granted, rules) = Broken(j, rules)
<1>1. ASSUME NEW r
      PROVE  (\E g \in granted : Match(g, r.purpose))
               <=> /\ j.service = "review"
                   /\ Blank \notin {j.asset.subject, TenantOf[j.actor]}
                   /\ ConsentOnFile(Stored(records), PersonOf(j), r.purpose, j.asOf)
  BY GrantedToIsOnFile
<1>2. ASSUME NEW r
      PROVE  Passes(j.asset, granted, r) <=> RuleIsMet(j, r)
  <2>1. CASE r.check = "forbidden_phrase"
    BY <2>1 DEF Passes, RuleIsMet
  <2>2. CASE r.check = "required_disclosure"
    BY <2>2 DEF Passes, RuleIsMet
  <2>3. CASE r.check = "required_field"
    BY <2>3 DEF Passes, RuleIsMet
  <2>4. CASE r.check = "numeric_max"
    BY <2>4 DEF Passes, RuleIsMet, NumericMax
  <2>5. CASE r.check \notin {"forbidden_phrase", "required_disclosure", "required_field",
                             "numeric_max"}
    <3>1. Passes(j.asset, granted, r)
            <=> /\ r.check = "consent_required" /\ r.kind = "consent"
                /\ \E g \in granted : Match(g, r.purpose)
      BY <2>5 DEF Passes
    <3>2. RuleIsMet(j, r)
            <=> /\ r.check = "consent_required" /\ r.kind = "consent" /\ j.service = "review"
                /\ Blank \notin {j.asset.subject, TenantOf[j.actor]}
                /\ ConsentOnFile(Stored(records), PersonOf(j), r.purpose, j.asOf)
      BY <2>5 DEF RuleIsMet, PersonOf
    <3> QED
      BY <1>1, <3>1, <3>2
  <2> QED
    BY <2>1, <2>2, <2>3, <2>4, <2>5
<1> QED
  BY <1>2 DEF Failing, Broken

LEMMA ClaimsDetected ==
    ASSUME NEW j
    PROVE  /\ DetectClaims(j.asset, Pack) = Claimed(j)
           /\ RulesFor(j.asset, Pack) =
                 {r \in Pack.rules : /\ r.market = j.asset.market
                                     /\ \/ r.categories = {}
                                        \/ \E c \in r.categories : c \in Claimed(j)}
<1>1. DetectClaims(j.asset, Pack) = Claimed(j)
  BY DEF DetectClaims, Claimed
<1> QED
  BY <1>1 DEF RulesFor

-----------------------------------------------------------------------------
(* Claims.                                                                 *)

Share == 0..9900 \cup {10000}

LEMMA QuotientBelow ==
    ASSUME NEW a \in Nat, NEW b \in Nat, b > 0, NEW k \in Nat, a < b * k
    PROVE  a \div b \in Nat /\ a \div b < k
<1>1. PICK q \in Nat : q = a \div b /\ b * q <= a
  OBVIOUS
<1>2. ASSUME q >= k PROVE b * q >= b * k
  BY <1>2
<1> QED
  BY <1>1, <1>2

LEMMA QuotientAtLeast ==
    ASSUME NEW a \in Nat, NEW b \in Nat, b > 0, NEW k \in Nat, b * k <= a
    PROVE  a \div b >= k
<1>1. PICK q \in Nat : q = a \div b /\ a < b * q + b
  OBVIOUS
<1>2. ASSUME q + 1 <= k PROVE b * (q + 1) <= b * k
  BY <1>2
<1>3. b * (q + 1) = b * q + b
  OBVIOUS
<1> QED
  BY <1>1, <1>2, <1>3

\* A share of at most a hundred rounds to the whole only when it is one, and to
\* nothing likewise; otherwise it stays a hundredth away from the whole.
LEMMA SharesRoundInside ==
    ASSUME NEW n \in Nat, NEW d \in Nat, 0 < d, d <= 100, n <= d
    PROVE  /\ Ratio(n, d) \in Share
           /\ Ratio(n, d) >= 10000 <=> n = d
           /\ Ratio(n, d) <= 0 <=> n = 0
<1> DEFINE a == 20000 * n + d
           b == 2 * d
<1>1. a \in Nat /\ b \in Nat /\ b > 0 /\ Ratio(n, d) = a \div b
  BY DEF Ratio
<1>2. /\ n = d => a < b * 10001 /\ b * 10000 <= a
      /\ n < d => a < b * 9901
      /\ n = 0 => a < b * 1
      /\ n # 0 => b * 1 <= a
  OBVIOUS
<1> HIDE DEF a, b
<1>3. n = d => a \div b = 10000
  BY <1>1, <1>2, QuotientBelow, QuotientAtLeast
<1>4. n < d => a \div b \in 0..9900
  BY <1>1, <1>2, QuotientBelow
<1>5. n = 0 => a \div b = 0
  BY <1>1, <1>2, QuotientBelow
<1>6. n # 0 => a \div b >= 1
  BY <1>1, <1>2, QuotientAtLeast
<1> QED
  BY <1>1, <1>3, <1>4, <1>5, <1>6 DEF Share

EvidenceDated ==
    \A i \in EvidenceId : evidence[i] # NoEvidence =>
        {evidence[i].issued, evidence[i].until} \subseteq Instant \cup {NoDate}

Requirement(j, c) == Pack.requirements[j.asset.market][c]

\* The kinds a claim's evidence satisfies are those on file for it.
LEMMA SatisfiedMeansOnFile ==
    ASSUME EvidenceDated, NEW j, Requested(j), j.asOf \in Instant, NEW c \in Category,
           Requirement(j, c) # NoRequirement
    PROVE  SatisfiedKinds(c, Requirement(j, c), EvidenceOn(j), j.asOf)
             = {k \in Kinds(j, c) : OnFileFor(j, c, k)}
<1> DEFINE required == Requirement(j, c)
           day == j.asOf
           stands(e) == /\ e.verified \/ ~required.verified
                        /\ e.issued # NoDate /\ e.issued \in 0..day
                        /\ e.until # NoDate => day <= e.until
                        /\ required.maxAge = 0 \/ e.issued + required.maxAge >= day
<1>1. required.maxAge \in Nat /\ day \in Nat
  BY PackAssumption DEF Requested, Requirement, Instant
<1>2. ASSUME NEW e, {e.issued, e.until} \subseteq Nat \cup {NoDate}
      PROVE  Usable(e, required, day) <=> stands(e)
  <2>1. (e.until = NoDate \/ e.until >= day) <=> (e.until # NoDate => day <= e.until)
    BY <1>1, <1>2
  <2>2. CASE e.issued = NoDate
    BY <2>2 DEF Usable, InDate
  <2>3. CASE e.issued # NoDate
    <3>1. e.issued \in Nat
      BY <1>2, <2>3
    <3>2. /\ e.issued <= day <=> e.issued \in 0..day
          /\ (required.maxAge > 0 => day - e.issued <= required.maxAge)
               <=> (required.maxAge = 0 \/ e.issued + required.maxAge >= day)
      BY <1>1, <3>1
    <3> HIDE DEF required, day
    <3> QED
      BY <2>1, <2>3, <3>2 DEF Usable, InDate
  <2> QED
    BY <2>2, <2>3
<1>3. Kinds(j, c) = required.kinds
  BY DEF Kinds, Requirement
<1>4. ASSUME NEW k
      PROVE  (\E e \in EvidenceOn(j) : c \in e.categories /\ e.kind = k /\ Usable(e, required, day))
               <=> OnFileFor(j, c, k)
  <2>1. \A e \in EvidenceOn(j) : {e.issued, e.until} \subseteq Nat \cup {NoDate}
    BY DEF EvidenceOn, EvidenceDated, Instant
  <2>2. OnFileFor(j, c, k)
          <=> \E e \in EvidenceOn(j) : e.kind = k /\ c \in e.categories /\ stands(e)
    BY DEF OnFileFor, EvidenceOn, Requirement
  <2> HIDE DEF stands
  <2> QED
    BY <1>2, <2>1, <2>2
<1> QED
  BY <1>3, <1>4 DEF SatisfiedKinds

VerdictOf(j, c) == ClaimVerdict(ClaimCoverage(c, j.asset.market, Pack, EvidenceOn(j), j.asOf))

\* A claim is judged by what is on file for it.
LEMMA ClaimsJudged ==
    ASSUME EvidenceDated, NEW j, Requested(j), j.asOf \in Instant, NEW c \in Category
    PROVE  /\ VerdictOf(j, c) = "substantiated" <=> Carried(j, c)
           /\ VerdictOf(j, c) = "unsubstantiated" <=> Unsupported(j, c)
<1> DEFINE kinds == Kinds(j, c)
           onFile == {k \in kinds : OnFileFor(j, c, k)}
           coverage == ClaimCoverage(c, j.asset.market, Pack, EvidenceOn(j), j.asOf)
<1>1. CASE kinds = {}
  <2>1. coverage = 0
    BY <1>1 DEF ClaimCoverage, Kinds
  <2>2. VerdictOf(j, c) = "unsubstantiated"
    BY <2>1 DEF VerdictOf, ClaimVerdict
  <2> QED
    BY <1>1, <2>2 DEF Carried, Unsupported
<1>2. CASE kinds # {}
  <2>1. Requirement(j, c) # NoRequirement /\ kinds = Requirement(j, c).kinds
    BY <1>2 DEF Kinds, Requirement
  <2>2. IsFiniteSet(kinds) /\ Cardinality(kinds) <= 100
    BY <2>1, PackAssumption DEF Requested, Requirement
  <2>3. coverage = Ratio(Cardinality(onFile), Cardinality(kinds))
    <3>1. SatisfiedKinds(c, Requirement(j, c), EvidenceOn(j), j.asOf) = onFile
      BY <2>1, SatisfiedMeansOnFile
    <3> QED
      BY <1>2, <2>1, <3>1 DEF ClaimCoverage, Requirement
  <2>4. Carried(j, c) <=> onFile = kinds
    BY <1>2 DEF Carried
  <2>5. Unsupported(j, c) <=> onFile = {}
    BY DEF Unsupported
  <2>6. onFile \subseteq kinds
    OBVIOUS
  <2> HIDE DEF kinds, onFile, coverage
  <2>7. /\ IsFiniteSet(onFile) /\ Cardinality(onFile) <= Cardinality(kinds)
        /\ Cardinality(onFile) = Cardinality(kinds) <=> onFile = kinds
    BY <2>2, <2>6, FS_Subset
  <2>8. /\ Cardinality(kinds) \in Nat /\ Cardinality(onFile) \in Nat
        /\ 0 < Cardinality(kinds)
        /\ Cardinality(onFile) = 0 <=> onFile = {}
    BY <1>2, <2>2, <2>7, FS_CardinalityType, FS_EmptySet
  <2>9. /\ coverage >= 10000 <=> onFile = kinds
        /\ coverage <= 0 <=> onFile = {}
    <3> DEFINE share == Ratio(Cardinality(onFile), Cardinality(kinds))
    <3>1. /\ share >= 10000 <=> Cardinality(onFile) = Cardinality(kinds)
          /\ share <= 0 <=> Cardinality(onFile) = 0
      BY <2>2, <2>7, <2>8, SharesRoundInside
    <3> HIDE DEF share
    <3>2. coverage = share
      BY <2>3 DEF share
    <3> QED
      BY <2>7, <2>8, <3>1, <3>2
  <2>10. VerdictOf(j, c) = ClaimVerdict(coverage)
    BY DEF VerdictOf, coverage
  <2> QED
    BY <1>2, <2>4, <2>5, <2>9, <2>10 DEF ClaimVerdict
<1> QED
  BY <1>1, <1>2

\* The verdict on an asset is what its claims' verdicts make of it.
LEMMA AssessmentIsTrue ==
    ASSUME EvidenceDated, NEW j, Requested(j), j.asOf \in Instant
    PROVE  Assess(j.asset, Pack, EvidenceOn(j), j.asOf).verdict = TrueVerdict(j)
<1> DEFINE claims == Claimed(j)
           verdicts == {VerdictOf(j, c) : c \in claims}
           verdict == Assess(j.asset, Pack, EvidenceOn(j), j.asOf).verdict
<1>1. claims \subseteq Category /\ DetectClaims(j.asset, Pack) = claims
  BY ClaimsDetected DEF Claimed
<1>2. CASE claims = {}
  BY <1>1, <1>2 DEF Assess, TrueVerdict
<1>3. CASE claims # {}
  <2>1. verdict = Worst(verdicts)
    BY <1>1, <1>3 DEF Assess, VerdictOf
  <2>2. verdicts \subseteq {"unsubstantiated", "partially_substantiated", "substantiated"}
    BY DEF VerdictOf, ClaimVerdict
  <2>3. verdicts # {}
    BY <1>3
  <2>4. /\ (\A c \in claims : Carried(j, c)) <=> verdicts \subseteq {"substantiated"}
        /\ (\E c \in claims : Unsupported(j, c)) <=> "unsubstantiated" \in verdicts
    BY <1>1, ClaimsJudged
  <2>5. TrueVerdict(j) = IF verdicts \subseteq {"substantiated"} THEN "substantiated"
                         ELSE IF "unsubstantiated" \in verdicts THEN "unsubstantiated"
                         ELSE "partially_substantiated"
    BY <1>3, <2>4 DEF TrueVerdict
  <2> HIDE DEF verdicts, verdict
  <2>6. Worst(verdicts) \in verdicts
        /\ \A v \in verdicts : VerdictRank[Worst(verdicts)] <= VerdictRank[v]
    BY <2>2, <2>3, WorstIsOneOfThem DEF Verdicts
  <2>7. CASE verdicts \subseteq {"substantiated"}
    BY <2>5, <2>6, <2>7, <2>1 DEF verdict
  <2>0. /\ VerdictRank["unsubstantiated"] = 0
        /\ VerdictRank["partially_substantiated"] = 1
        /\ VerdictRank["substantiated"] = 2
    BY DEF VerdictRank
  <2>10. \/ Worst(verdicts) = "unsubstantiated"
         \/ Worst(verdicts) = "partially_substantiated"
         \/ Worst(verdicts) = "substantiated"
    BY <2>2, <2>6
  <2>8. CASE "unsubstantiated" \in verdicts
    <3>1. VerdictRank[Worst(verdicts)] <= 0
      BY <2>0, <2>6, <2>8
    <3>2. Worst(verdicts) = "unsubstantiated"
      BY <2>0, <2>10, <3>1
    <3> QED
      BY <2>1, <2>5, <2>8, <3>2 DEF verdict
  <2>9. CASE ~(verdicts \subseteq {"substantiated"}) /\ "unsubstantiated" \notin verdicts
    <3>1. "partially_substantiated" \in verdicts
      BY <2>2, <2>9
    <3>2. VerdictRank[Worst(verdicts)] <= 1
      BY <2>0, <2>6, <3>1
    <3>3. Worst(verdicts) = "partially_substantiated"
      BY <2>0, <2>6, <2>9, <2>10, <3>2
    <3> QED
      BY <2>1, <2>5, <2>9, <3>3 DEF verdict
  <2> QED
    BY <2>7, <2>8, <2>9
<1> QED
  BY <1>2, <1>3

-----------------------------------------------------------------------------
(* The mean of the shares.                                                 *)

\* SumFunction: a sum over a finite set takes its members one after the other.
Pick(s) == CHOOSE x \in s : TRUE

Taking(f, D, g) == g = [s \in D |-> IF s = {} THEN 0 ELSE f[Pick(s)] + g[s \ {Pick(s)}]]

UpTo(S, n) == {s \in SUBSET S : Cardinality(s) <= n}

LEMMA OneLess ==
    ASSUME NEW S, IsFiniteSet(S), NEW s \in SUBSET S, s # {}
    PROVE  /\ Pick(s) \in s /\ s \ {Pick(s)} \in SUBSET S
           /\ Cardinality(s) \in Nat /\ Cardinality(s) >= 1
           /\ Cardinality(s \ {Pick(s)}) = Cardinality(s) - 1
<1>1. Pick(s) \in s
  BY DEF Pick
<1>2. IsFiniteSet(s)
  BY FS_Subset
<1>3. Cardinality(s \ {Pick(s)}) = Cardinality(s) - 1
  BY <1>1, <1>2, FS_RemoveElement
<1>4. Cardinality(s) \in Nat /\ Cardinality(s) # 0
  BY <1>2, FS_CardinalityType, FS_EmptySet
<1> QED
  BY <1>1, <1>3, <1>4

LEMMA SumsExist ==
    ASSUME NEW f, NEW S, IsFiniteSet(S)
    PROVE  \E g : Taking(f, SUBSET S, g)
<1> DEFINE short(n) == \E g : Taking(f, UpTo(S, n), g)
           bad == {n \in Nat : ~short(n)}
<1>1. short(0)
  <2> DEFINE g == [s \in UpTo(S, 0) |-> 0]
  <2>1. ASSUME NEW s \in UpTo(S, 0) PROVE s = {}
    <3>1. IsFiniteSet(s) /\ Cardinality(s) <= 0
      BY FS_Subset DEF UpTo
    <3> QED
      BY <3>1, FS_CardinalityType, FS_EmptySet
  <2>2. Taking(f, UpTo(S, 0), g)
    BY <2>1 DEF Taking
  <2> HIDE DEF g
  <2> QED
    BY <2>2
<1>2. ASSUME NEW n \in Nat, short(n) PROVE short(n + 1)
  <2>1. PICK g : Taking(f, UpTo(S, n), g)
    BY <1>2
  <2> DEFINE next(s) == IF s = {} THEN 0 ELSE f[Pick(s)] + g[s \ {Pick(s)}]
             h == [s \in UpTo(S, n + 1) |-> next(s)]
  <2>2. ASSUME NEW s \in UpTo(S, n + 1), s # {} PROVE h[s \ {Pick(s)}] = g[s \ {Pick(s)}]
    <3> DEFINE u == s \ {Pick(s)}
    <3>1. u \in SUBSET S /\ Cardinality(u) <= n /\ Cardinality(u) <= n + 1
      BY <2>2, OneLess DEF UpTo
    <3>2. u \in UpTo(S, n) /\ u \in UpTo(S, n + 1)
      BY <3>1 DEF UpTo
    <3> HIDE DEF u
    <3>3. g[u] = next(u)
      BY <2>1, <3>2 DEF Taking
    <3>4. h[u] = next(u)
      BY <3>2
    <3> QED
      BY <3>3, <3>4 DEF u
  <2>3. h = [s \in UpTo(S, n + 1) |-> IF s = {} THEN 0 ELSE f[Pick(s)] + h[s \ {Pick(s)}]]
    <3>1. \A s \in UpTo(S, n + 1) : next(s) = IF s = {} THEN 0 ELSE f[Pick(s)] + h[s \ {Pick(s)}]
      BY <2>2
    <3> QED
      BY <3>1
  <2> HIDE DEF h
  <2> QED
    BY <2>3 DEF Taking
<1>3. \A n \in Nat : short(n)
  <2> HIDE DEF short
  <2> SUFFICES ASSUME bad # {} PROVE FALSE
    OBVIOUS
  <2>1. bad \subseteq Nat
    OBVIOUS
  <2>2. PICK m \in bad : \A k \in bad : m <= k
    <3> HIDE DEF bad
    <3> QED
      BY <2>1, SmallestOf
  <2>3. m # 0 /\ m \in Nat
    BY <1>1
  <2>4. m - 1 \in Nat /\ m - 1 \notin bad
    BY <2>2, <2>3
  <2>5. short((m - 1) + 1)
    BY <1>2, <2>4
  <2>6. (m - 1) + 1 = m
    BY <2>3
  <2> QED
    BY <2>2, <2>5, <2>6
<1>4. UpTo(S, Cardinality(S)) = SUBSET S
  <2>1. ASSUME NEW s \in SUBSET S PROVE Cardinality(s) <= Cardinality(S)
    BY FS_Subset
  <2> QED
    BY <2>1 DEF UpTo
<1>5. PICK n \in Nat : n = Cardinality(S)
  BY FS_CardinalityType
<1>6. PICK g : Taking(f, UpTo(S, n), g)
  BY <1>3
<1> QED
  BY <1>4, <1>5, <1>6

LEMMA SumTakes ==
    ASSUME NEW f, IsFiniteSet(DOMAIN f)
    PROVE  \E g : Taking(f, SUBSET DOMAIN f, g) /\ SumFunction(f) = g[DOMAIN f]
<1> DEFINE g == CHOOSE g : Taking(f, SUBSET DOMAIN f, g)
<1>1. Taking(f, SUBSET DOMAIN f, g)
  BY SumsExist
<1>2. SumFunction(f) = g[DOMAIN f]
  BY DEF SumFunction, SumFunctionOnSet, FoldFunctionOnSet, MapThenFoldSet, Taking, Pick
<1> QED
  BY <1>1, <1>2

Full(f, s) == \A x \in s : f[x] = 10000

\* A sum of shares is whole when each is, and clearly less when one is not.
Adds(whole, sum, n) ==
    /\ sum \in Nat
    /\ whole => sum = 10000 * n
    /\ ~whole => sum <= 10000 * n - 100

LEMMA OneShareMore ==
    ASSUME NEW share \in Share, NEW sum, NEW n \in Nat, NEW whole,
           Adds(whole, sum, n)
    PROVE  Adds(whole /\ share = 10000, share + sum, n + 1)
<1>1. share \in Nat /\ sum \in Nat /\ share + sum \in Nat
  BY DEF Adds, Share
<1>2. ASSUME whole, share = 10000 PROVE share + sum = 10000 * (n + 1)
  BY <1>1, <1>2 DEF Adds
<1>3. ASSUME ~whole \/ share # 10000 PROVE share + sum <= 10000 * (n + 1) - 100
  <2>1. CASE ~whole
    <3>1. sum <= 10000 * n - 100 /\ share <= 10000
      BY <2>1 DEF Adds, Share
    <3> QED
      BY <1>1, <3>1
  <2>2. CASE whole
    <3>1. sum = 10000 * n /\ share <= 9900
      BY <1>3, <2>2 DEF Adds, Share
    <3> QED
      BY <1>1, <3>1
  <2> QED
    BY <2>1, <2>2
<1> QED
  BY <1>1, <1>2, <1>3 DEF Adds

Shares(f, S) == \A x \in S : f[x] \in Share

LEMMA TakesOne ==
    ASSUME NEW f, NEW D, NEW g, Taking(f, D, g), NEW s \in D, s # {}
    PROVE  g[s] = f[Pick(s)] + g[s \ {Pick(s)}]
BY DEF Taking

LEMMA TakesNone ==
    ASSUME NEW f, NEW D, NEW g, Taking(f, D, g), {} \in D
    PROVE  g[{}] = 0
BY DEF Taking

\* Shares of a whole that is 10000 add up to as many wholes as there are shares
\* exactly when each is one, and otherwise to a hundred less.
LEMMA SharesAddUp ==
    ASSUME NEW f, NEW S, S = DOMAIN f, IsFiniteSet(S), Shares(f, S)
    PROVE  Adds(Full(f, S), SumFunction(f), Cardinality(S))
<1>1. PICK g : Taking(f, SUBSET S, g) /\ SumFunction(f) = g[S]
  BY SumTakes
<1> DEFINE fits(s) == Adds(Full(f, s), g[s], Cardinality(s))
           bad == {n \in Nat : \E s \in SUBSET S : Cardinality(s) = n /\ ~fits(s)}
<1>2. \A s \in SUBSET S : s # {} => g[s] = f[Pick(s)] + g[s \ {Pick(s)}]
  BY <1>1, TakesOne
<1>3. fits({})
  <2>0. {} \in SUBSET S
    OBVIOUS
  <2>1. g[{}] = 0
    BY <1>1, <2>0, TakesNone
  <2>3. Full(f, {})
    BY DEF Full
  <2>2. Cardinality({}) = 0
    BY FS_EmptySet
  <2> QED
    BY <2>1, <2>2, <2>3 DEF Adds
<1>4. ASSUME NEW s \in SUBSET S, s # {}, fits(s \ {Pick(s)}) PROVE fits(s)
  <2> DEFINE x == Pick(s)
             u == s \ {x}
  <2>1. x = Pick(s) /\ u = s \ {x}
    OBVIOUS
  <2> HIDE DEF x, u
  <2>2. g[s] = f[x] + g[u]
    BY <1>2, <1>4, <2>1
  <2>3. /\ x \in s /\ u \in SUBSET S /\ Cardinality(s) \in Nat /\ Cardinality(s) >= 1
        /\ Cardinality(u) = Cardinality(s) - 1
    BY <1>4, <2>1, OneLess
  <2>4. PICK n \in Nat : n = Cardinality(u) /\ Cardinality(s) = n + 1
    BY <2>3
  <2>5. f[x] \in Share
    BY <2>3 DEF Shares
  <2>6. Adds(Full(f, u), g[u], n)
    BY <1>4, <2>1, <2>4
  <2>7. Adds(Full(f, u) /\ f[x] = 10000, f[x] + g[u], n + 1)
    BY <2>5, <2>6, OneShareMore
  <2>8. Full(f, s) <=> Full(f, u) /\ f[x] = 10000
    BY <2>1, <2>3 DEF Full
  <2> QED
    BY <2>2, <2>4, <2>7, <2>8 DEF Adds
<1> HIDE DEF fits
<1>5. \A s \in SUBSET S : fits(s)
  <2> SUFFICES ASSUME NEW s0 \in SUBSET S, ~fits(s0) PROVE FALSE
    OBVIOUS
  <2>1. Cardinality(s0) \in bad
    <3>1. IsFiniteSet(s0)
      BY FS_Subset
    <3> QED
      BY <3>1, FS_CardinalityType
  <2>2. PICK m \in bad : \A k \in bad : m <= k
    <3>1. bad \subseteq Nat
      OBVIOUS
    <3> HIDE DEF bad
    <3>2. bad # {}
      BY <2>1
    <3> QED
      BY <3>1, <3>2, SmallestOf
  <2>4. PICK s \in SUBSET S : Cardinality(s) = m /\ ~fits(s)
    BY <2>2
  <2>5. s # {}
    BY <1>3, <2>4
  <2>6. /\ s \ {Pick(s)} \in SUBSET S /\ m \in Nat /\ m >= 1
        /\ Cardinality(s \ {Pick(s)}) = m - 1
    BY <2>4, <2>5, OneLess
  <2>7. m - 1 \in Nat /\ m - 1 \notin bad
    BY <2>2, <2>6
  <2>8. fits(s \ {Pick(s)})
    BY <2>6, <2>7
  <2> QED
    BY <1>4, <2>4, <2>5, <2>8
<1>6. fits(S)
  BY <1>5
<1> QED
  BY <1>1, <1>6 DEF fits
-----------------------------------------------------------------------------
(* The coverage number.                                                    *)

LEMMA ClaimsHaveShares ==
    ASSUME NEW j, Requested(j), NEW c \in Category, NEW seen, NEW day
    PROVE  ClaimCoverage(c, j.asset.market, Pack, seen, day) \in Share
<1> DEFINE required == Requirement(j, c)
           satisfied == SatisfiedKinds(c, required, seen, day)
           coverage == ClaimCoverage(c, j.asset.market, Pack, seen, day)
<1>1. CASE required = NoRequirement \/ required.kinds = {}
  <2>1. coverage = 0
    BY <1>1 DEF ClaimCoverage, Requirement
  <2> QED
    BY <2>1 DEF Share
<1>2. CASE required # NoRequirement /\ required.kinds # {}
  <2>1. coverage = Ratio(Cardinality(satisfied), Cardinality(required.kinds))
    BY <1>2 DEF ClaimCoverage, Requirement
  <2>2. IsFiniteSet(required.kinds) /\ Cardinality(required.kinds) <= 100
    BY <1>2, PackAssumption DEF Requested, Requirement
  <2>3. satisfied \subseteq required.kinds
    BY DEF SatisfiedKinds
  <2> DEFINE kinds == required.kinds
  <2> HIDE DEF coverage, satisfied, required
  <2>4. IsFiniteSet(satisfied) /\ Cardinality(satisfied) <= Cardinality(kinds)
    BY <2>2, <2>3, FS_Subset
  <2>5. Cardinality(kinds) \in Nat /\ Cardinality(satisfied) \in Nat /\ 0 < Cardinality(kinds)
    BY <1>2, <2>2, <2>4, FS_CardinalityType, FS_EmptySet
  <2>6. Ratio(Cardinality(satisfied), Cardinality(kinds)) \in Share
    BY <2>2, <2>4, <2>5, SharesRoundInside
  <2> QED
    BY <2>1, <2>6 DEF coverage
<1> QED
  BY <1>1, <1>2

LEMMA WholeMeans ==
    ASSUME NEW n \in Nat, 0 < n
    PROVE  Ratio(10000 * n, 10000 * n) = 10000
<1> DEFINE a == 20000 * (10000 * n) + 10000 * n
           b == 2 * (10000 * n)
<1>1. a \in Nat /\ b \in Nat /\ b > 0 /\ Ratio(10000 * n, 10000 * n) = a \div b
  BY DEF Ratio
<1>2. a < b * 10001 /\ b * 10000 <= a
  OBVIOUS
<1> HIDE DEF a, b
<1> QED
  BY <1>1, <1>2, QuotientBelow, QuotientAtLeast

LEMMA PartialMeans ==
    ASSUME NEW n \in Nat, 0 < n, n <= 100, NEW sum \in Nat, sum <= 10000 * n - 100
    PROVE  Ratio(sum, 10000 * n) \in Nat /\ Ratio(sum, 10000 * n) < 10000
<1> DEFINE a == 20000 * sum + 10000 * n
           b == 2 * (10000 * n)
<1>1. a \in Nat /\ b \in Nat /\ b > 0 /\ Ratio(sum, 10000 * n) = a \div b
  BY DEF Ratio
<1>2. a < b * 10000
  OBVIOUS
<1> HIDE DEF a, b
<1> QED
  BY <1>1, <1>2, QuotientBelow

\* The mean of the shares is whole exactly when each is.
LEMMA MeanOfShares ==
    ASSUME NEW f, NEW S, S = DOMAIN f, IsFiniteSet(S), S # {}, Cardinality(S) <= 100, Shares(f, S)
    PROVE  /\ Ratio(SumFunction(f), 10000 * Cardinality(S)) \in Nat
           /\ Ratio(SumFunction(f), 10000 * Cardinality(S)) = 10000 <=> Full(f, S)
<1>1. PICK n \in Nat : n = Cardinality(S) /\ 0 < n
  BY FS_CardinalityType, FS_EmptySet
<1>2. Adds(Full(f, S), SumFunction(f), n)
  BY <1>1, SharesAddUp
<1>3. CASE Full(f, S)
  <2>1. SumFunction(f) = 10000 * n
    BY <1>2, <1>3 DEF Adds
  <2> QED
    BY <1>1, <1>3, <2>1, WholeMeans
<1>4. CASE ~Full(f, S)
  <2>1. SumFunction(f) \in Nat /\ SumFunction(f) <= 10000 * n - 100
    BY <1>2, <1>4 DEF Adds
  <2>2. Ratio(SumFunction(f), 10000 * n) \in Nat /\ Ratio(SumFunction(f), 10000 * n) < 10000
    BY <1>1, <2>1, PartialMeans
  <2> QED
    BY <1>1, <1>4, <2>2
<1> QED
  BY <1>3, <1>4

LEMMA WorstIsWhole ==
    ASSUME NEW S, S # {}, S \subseteq {"unsubstantiated", "partially_substantiated", "substantiated"}
    PROVE  Worst(S) = "substantiated" <=> S \subseteq {"substantiated"}
<1>1. Worst(S) \in S /\ \A v \in S : VerdictRank[Worst(S)] <= VerdictRank[v]
  BY WorstIsOneOfThem DEF Verdicts
<1>2. /\ VerdictRank["unsubstantiated"] = 0
      /\ VerdictRank["partially_substantiated"] = 1
      /\ VerdictRank["substantiated"] = 2
  BY DEF VerdictRank
<1>3. ASSUME Worst(S) = "substantiated", NEW v \in S PROVE v = "substantiated"
  <2>1. 2 <= VerdictRank[v]
    BY <1>1, <1>2, <1>3
  <2>2. v = "unsubstantiated" \/ v = "partially_substantiated" \/ v = "substantiated"
    OBVIOUS
  <2> QED
    BY <1>2, <2>1, <2>2
<1> QED
  BY <1>1, <1>3

\* An assessment's coverage is whole exactly when its verdict is: nothing is
\* claimed, or every claim is substantiated.
LEMMA AssessmentIsWhole ==
    ASSUME NEW j, Requested(j), NEW seen, NEW day
    PROVE  LET assessed == Assess(j.asset, Pack, seen, day)
           IN  /\ assessed.verdict \in Verdicts /\ assessed.coverage \in Nat
               /\ assessed.coverage = 10000
                    <=> assessed.verdict \in {"substantiated", "not_applicable"}
<1> DEFINE assessed == Assess(j.asset, Pack, seen, day)
           claims == DetectClaims(j.asset, Pack)
           share(c) == ClaimCoverage(c, j.asset.market, Pack, seen, day)
           shares == [c \in claims |-> share(c)]
           verdicts == {ClaimVerdict(shares[c]) : c \in claims}
<1>1. CASE claims = {}
  <2>1. assessed.verdict = "not_applicable" /\ assessed.coverage = 10000
    BY <1>1 DEF Assess
  <2> QED
    BY <2>1 DEF Verdicts
<1>2. CASE claims # {}
  <2>1. /\ assessed.verdict = Worst(verdicts)
        /\ assessed.coverage = Ratio(SumFunction(shares), 10000 * Cardinality(claims))
    BY <1>2 DEF Assess
  <2>2. claims \subseteq Category
    BY DEF DetectClaims
  <2>3. IsFiniteSet(claims) /\ Cardinality(claims) <= 100
    <3>1. /\ IsFiniteSet(claims) /\ Cardinality(claims) <= Cardinality(Category)
          /\ Cardinality(Category) <= 100
      BY <2>2, PackAssumption, FS_Subset
    <3> HIDE DEF claims
    <3>2. Cardinality(claims) \in Nat /\ Cardinality(Category) \in Nat
      BY <3>1, PackAssumption, FS_CardinalityType
    <3> QED
      BY <3>1, <3>2
  <2>4. \A c \in claims : share(c) \in Share
    BY <2>2, ClaimsHaveShares
  <2>5. verdicts \subseteq {"unsubstantiated", "partially_substantiated", "substantiated"}
        /\ verdicts # {}
    BY <1>2 DEF ClaimVerdict
  <2> HIDE DEF share, claims
  <2>6. Shares(shares, claims) /\ claims = DOMAIN shares
    BY <2>4 DEF Shares
  <2>7. verdicts \subseteq {"substantiated"} <=> Full(shares, claims)
    <3>1. ASSUME NEW x \in Share PROVE ClaimVerdict(x) = "substantiated" <=> x = 10000
      BY DEF ClaimVerdict, Share
    <3>2. \A c \in claims : shares[c] \in Share
      BY <2>6 DEF Shares
    <3> HIDE DEF shares
    <3> QED
      BY <3>1, <3>2 DEF Full
  <2> HIDE DEF verdicts, shares, assessed
  <2>8. /\ assessed.coverage \in Nat
        /\ assessed.coverage = 10000 <=> Full(shares, claims)
    BY <1>2, <2>1, <2>3, <2>6, MeanOfShares
  <2>11. assessed.verdict = "substantiated" <=> verdicts \subseteq {"substantiated"}
    <3>1. Worst(verdicts) = "substantiated" <=> verdicts \subseteq {"substantiated"}
      BY <2>5, WorstIsWhole
    <3> QED
      BY <2>1, <3>1
  <2>9. assessed.verdict \in {"unsubstantiated", "partially_substantiated", "substantiated"}
    <3>1. Worst(verdicts) \in verdicts
      BY <2>5, WorstIsOneOfThem DEF Verdicts
    <3>2. Worst(verdicts) \in {"unsubstantiated", "partially_substantiated", "substantiated"}
      BY <2>5, <3>1
    <3> QED
      BY <2>1, <3>2
  <2>10. /\ assessed.verdict \in Verdicts /\ assessed.coverage \in Nat
         /\ assessed.coverage = 10000
              <=> assessed.verdict \in {"substantiated", "not_applicable"}
    BY <2>7, <2>8, <2>9, <2>11 DEF Verdicts
  <2> QED
    BY <2>10 DEF assessed
<1> QED
  BY <1>1, <1>2

-----------------------------------------------------------------------------
(* Conclusions.                                                            *)

Said(conclusion) == [verdict |-> conclusion.verdict, failing |-> conclusion.failing]

Facts(j) == IF j.service = "review" THEN GrantedTo(j) ELSE EvidenceOn(j)

FactsKept == RecordsKept /\ EvidenceDated

\* What a call concludes from the facts on file is what they amount to.
LEMMA ConclusionIsTrue ==
    ASSUME FactsKept, NEW j, Requested(j), j.asOf \in Instant
    PROVE  Said(Conclude(j, Facts(j))) = Truth(j)
<1>1. CASE j.service = "review"
  <2>1. Failing(j.asset, GrantedTo(j), RuleBook[j.asset.market])
          = Broken(j, RuleBook[j.asset.market])
    BY <1>1, FailingIsBroken DEF FactsKept
  <2>2. Said(Conclude(j, Facts(j))) =
          LET failing == Failing(j.asset, GrantedTo(j), RuleBook[j.asset.market])
          IN  [verdict |-> Outcome(failing), failing |-> failing]
    BY <1>1 DEF Said, Conclude, Facts, Applicable
  <2> QED
    BY <1>1, <2>1, <2>2 DEF Truth, Outcome
<1>2. CASE j.service # "review"
  <2>1. Failing(j.asset, {}, RulesFor(j.asset, Pack)) = Broken(j, RulesFor(j.asset, Pack))
    BY <1>2, FailingIsBroken DEF FactsKept
  <2>2. Assess(j.asset, Pack, EvidenceOn(j), j.asOf).verdict = TrueVerdict(j)
    BY AssessmentIsTrue DEF FactsKept
  <2>3. Said(Conclude(j, Facts(j))) =
          [verdict |-> Assess(j.asset, Pack, EvidenceOn(j), j.asOf).verdict,
           failing |-> Failing(j.asset, {}, RulesFor(j.asset, Pack))]
    BY <1>2 DEF Said, Conclude, Facts, Applicable
  <2> QED
    BY <1>2, <2>1, <2>2, <2>3, ClaimsDetected DEF Truth
<1> QED
  BY <1>1, <1>2

-----------------------------------------------------------------------------
(* What a call has read was so.                                            *)

Concluding == {"screen_output", "audit", "route"}

\* A call has its day fixed before it reads.
Dated(t) ==
    pc[t] # "idle" =>
        /\ answer[t] = None
        /\ job[t].service \in {"review", "substantiation"}
        /\ job[t].asOf \in Moment
        /\ pc[t] \notin {"screen_input", "load"} \/ job[t].service = "substantiation"
              => job[t].asOf \in Instant

\* What a call has concluded, and then answers, was true at an instant of it.
ConclusionWasTrue(t) ==
    /\ pc[t] \in Concluding => Said(Concluded(t)) \in truths[t]
    /\ answer[t] # None => Said(answer[t].conclusion) \in truths[t]

EvidenceShape == evidence = [i \in EvidenceId |-> evidence[i]]

TruthInv ==
    /\ FactsKept /\ EvidenceShape
    /\ now \in Instant
    /\ \A t \in Thread : Dated(t) /\ ConclusionWasTrue(t)

LEMMA TruthInit == Init => TruthInv
<1> SUFFICES ASSUME Init PROVE TruthInv
  OBVIOUS
<1>1. RecordsKept
  BY SeedAssumption DEF Init, StoreInit, RecordsKept
<1>2. EvidenceDated /\ EvidenceShape
  BY FactsAssumption DEF Init, EvidenceDated, EvidenceShape
<1>3. now \in Instant /\ \A t \in Thread : Dated(t) /\ ConclusionWasTrue(t)
  BY DEF Init, Instant, Dated, ConclusionWasTrue, Concluding
<1> QED
  BY <1>1, <1>2, <1>3 DEF TruthInv, FactsKept

\* What is on file stays rows, whoever writes it.
LEMMA FactsStep ==
    ASSUME TruthInv, [Next]_vars
    PROVE  FactsKept' /\ EvidenceShape' /\ now' \in Instant
<1>1. CASE UNCHANGED <<tables, evidence, now>>
  BY <1>1 DEF TruthInv, FactsKept, RecordsKept, EvidenceDated, EvidenceShape, tables
<1>2. CASE Environment
  <2>1. ASSUME NEW r \in RecordWrites, PutRecord(r), UNCHANGED <<evidence, Elsewhere>>
        PROVE  FactsKept' /\ EvidenceShape' /\ now' \in Instant
    <3>1. r \in RecordRow /\ r.id \in Id
      BY FactsAssumption DEF RecordRow
    <3>2. RecordsKept'
      BY <2>1, <3>1 DEF TruthInv, FactsKept, RecordsKept, PutRecord
    <3> QED
      BY <2>1, <3>2 DEF TruthInv, FactsKept, EvidenceDated, EvidenceShape, Elsewhere
  <2>2. ASSUME NEW e \in EvidenceWrites, PutEvidence(e)
        PROVE  FactsKept' /\ EvidenceShape' /\ now' \in Instant
    <3>1. {e.issued, e.until} \subseteq Instant \cup {NoDate}
      BY FactsAssumption
    <3>2. EvidenceShape'
      BY <2>2 DEF TruthInv, EvidenceShape, PutEvidence
    <3>3. \A i \in EvidenceId : evidence'[i] = e \/ evidence'[i] = evidence[i]
      BY <2>2 DEF TruthInv, EvidenceShape, PutEvidence
    <3>4. EvidenceDated'
      BY <3>1, <3>3 DEF TruthInv, FactsKept, EvidenceDated
    <3> QED
      BY <2>2, <3>2, <3>4 DEF TruthInv, FactsKept, RecordsKept, PutEvidence, Elsewhere, tables
  <2>3. ASSUME Tick
        PROVE  FactsKept' /\ EvidenceShape' /\ now' \in Instant
    BY <2>3 DEF TruthInv, FactsKept, RecordsKept, EvidenceDated, EvidenceShape, Tick, tables,
                Instant
  <2> QED
    BY <1>2, <2>1, <2>2, <2>3 DEF Environment
<1>3. CASE \E t \in Thread : Serve(t)
  BY <1>1, <1>3 DEF Serve, ScreenInput, LoadRules, ReadFacts, ScreenOutput, Record, Route, CallFails
<1>4. CASE \E t \in Thread, request \in Requests : Submit(t, request)
  BY <1>1, <1>4 DEF Submit
<1> QED
  BY <1>1, <1>2, <1>3, <1>4 DEF Next, vars, Approve, ReadEvidence

-----------------------------------------------------------------------------
(* The threads.                                                            *)

\* The history of a call keeps what it holds while the call goes on, and with
\* its answer.
LEMMA HistoryKept ==
    ASSUME History, NEW t \in Thread
    PROVE  /\ pc[t] # "idle" /\ pc'[t] # "idle" => truths[t] \subseteq truths'[t]
           /\ pc'[t] = "idle" /\ answer'[t] # None => truths'[t] = truths[t]
BY DEF History, Since

\* A thread nobody moves, and one that goes on with what it has.
LEMMA ThreadKept ==
    ASSUME History, NEW t \in Thread, ConclusionWasTrue(t), Dated(t),
           job'[t] = job[t], found'[t] = found[t], answer'[t] = answer[t],
           pc[t] = "idle" => pc'[t] = "idle",
           pc'[t] \in Concluding => pc[t] \in Concluding
    PROVE  ConclusionWasTrue(t)'
<1>1. Concluded(t)' = Concluded(t)
  BY DEF Concluded
<1>2. pc'[t] \in Concluding => truths[t] \subseteq truths'[t]
  BY HistoryKept DEF Concluding
<1>3. answer'[t] # None => pc[t] = "idle" /\ truths'[t] = truths[t]
  BY HistoryKept DEF Dated
<1> QED
  BY <1>1, <1>2, <1>3 DEF ConclusionWasTrue

LEMMA TruthUnchanged ==
    ASSUME NEW t \in Thread, UNCHANGED <<records, evidence>>, job'[t] = job[t]
    PROVE  Truth(job[t])' = Truth(job[t])
BY DEF Truth, Broken, RuleIsMet, ConsentOnFile, Stored, Claimed, TrueVerdict, Carried, Unsupported,
       Kinds, OnFileFor

\* The call that reads finds the facts of that very instant.
LEMMA ReadStep ==
    ASSUME FourEyesInv, TruthInv, History, NEW t \in Thread, ReadFacts(t)
    PROVE  (Dated(t) /\ ConclusionWasTrue(t))'
<1>1. /\ pc[t] = "read" /\ pc'[t] = "screen_output" /\ found'[t] = Facts(job[t])
      /\ job'[t] = job[t] /\ answer'[t] = answer[t] /\ UNCHANGED <<records, evidence>>
  BY DEF FourEyesInv, Shapes, ReadFacts, Facts, tables
<1>2. Dated(t) /\ FactsKept
  BY DEF TruthInv
<1>3. /\ answer[t] = None /\ job[t].asOf \in Instant /\ job[t].asOf # None
      /\ job[t].service \in {"review", "substantiation"}
  BY <1>1, <1>2, FactsAssumption DEF Dated
<1>4. Requested(job[t])
  BY <1>1 DEF FourEyesInv
<1>5. Said(Conclude(job[t], Facts(job[t]))) = Truth(job[t])
  BY <1>2, <1>3, <1>4, ConclusionIsTrue
<1>6. Concluded(t)' = Conclude(job[t], Facts(job[t]))
  BY <1>1 DEF Concluded
<1>7. Truth(job[t])' \in truths'[t]
  BY <1>1, <1>3 DEF History, Since
<1>8. ConclusionWasTrue(t)'
  <2>1. Said(Concluded(t)') = Truth(job[t])
    BY <1>5, <1>6
  <2>2. Said(Concluded(t)') \in truths'[t]
    BY <1>1, <1>7, <2>1, TruthUnchanged
  <2> QED
    BY <1>1, <1>3, <2>2 DEF ConclusionWasTrue, Said
<1> QED
  BY <1>1, <1>2, <1>3, <1>8 DEF Dated, Moment

\* The call that answers keeps what was true of it.
LEMMA ReturnStep ==
    ASSUME FourEyesInv, TruthInv, History, NEW t \in Thread, pc[t] \in Concluding,
           NEW routing, Return(t, routing)
    PROVE  (Dated(t) /\ ConclusionWasTrue(t))'
<1>1. pc'[t] = "idle" /\ answer'[t] = Answered(t, routing)
  BY DEF FourEyesInv, Shapes, Return, Leave
<1>2. answer'[t].conclusion = Concluded(t)
  BY <1>1 DEF Answered
<1>3. Said(Concluded(t)) \in truths[t]
  BY DEF TruthInv, ConclusionWasTrue
<1>4. answer'[t] # None => truths'[t] = truths[t]
  BY <1>1, HistoryKept
<1> QED
  BY <1>1, <1>2, <1>3, <1>4 DEF Dated, ConclusionWasTrue, Concluding, Said

\* The call that ends without an answer.
LEMMA LeaveStep ==
    ASSUME FourEyesInv, TruthInv, NEW t \in Thread, pc[t] # "idle", Leave(t), UNCHANGED answer
    PROVE  (Dated(t) /\ ConclusionWasTrue(t))'
<1>1. pc'[t] = "idle" /\ answer'[t] = None
  BY DEF FourEyesInv, Shapes, Leave, TruthInv, Dated
<1> QED
  BY <1>1 DEF Dated, ConclusionWasTrue, Concluding

LEMMA OnwardStep ==
    ASSUME FourEyesInv, TruthInv, History, NEW t \in Thread, NEW step, pc[t] # "idle",
           Goto(t, step), UNCHANGED answer,
           step \in {"load", "read"} \cup Concluding,
           step \in Concluding => pc[t] \in Concluding,
           step = "load" => job[t].service = "review",
           step = "read" => job[t].service = "substantiation"
    PROVE  (Dated(t) /\ ConclusionWasTrue(t))'
<1>1. pc'[t] = step /\ UNCHANGED <<job, found>>
  BY DEF FourEyesInv, Shapes, Goto
<1>2. ConclusionWasTrue(t)'
  BY <1>1, ThreadKept DEF TruthInv
<1>3. Dated(t)
  BY DEF TruthInv
<1>4. Dated(t)'
  BY <1>1, <1>3 DEF Dated, Concluding
<1> QED
  BY <1>2, <1>4

LEMMA LoadStep ==
    ASSUME FourEyesInv, TruthInv, History, NEW t \in Thread, LoadRules(t)
    PROVE  (Dated(t) /\ ConclusionWasTrue(t))'
<1>1. CASE RuleBook[job[t].asset.market] = {}
  BY <1>1, LeaveStep DEF LoadRules
<1>2. CASE RuleBook[job[t].asset.market] # {}
  <2>1. /\ pc[t] = "load" /\ pc'[t] = "read" /\ answer'[t] = answer[t]
        /\ job' = [job EXCEPT ![t].asOf = IF @ = None THEN now ELSE @]
    BY <1>2 DEF FourEyesInv, Shapes, LoadRules
  <2>2. /\ Dated(t) /\ now \in Instant
    BY DEF TruthInv
  <2>3. job[t] = [actor |-> job[t].actor, service |-> job[t].service,
                  asset |-> job[t].asset, asOf |-> job[t].asOf]
    BY <2>1 DEF FourEyesInv
  <2>4. job'[t] = [job[t] EXCEPT !.asOf = IF @ = None THEN now ELSE @]
    BY <2>1 DEF FourEyesInv, Shapes
  <2>5. /\ job'[t].service = job[t].service
        /\ job'[t].asOf = IF job[t].asOf = None THEN now ELSE job[t].asOf
    BY <2>3, <2>4
  <2>6. job'[t].asOf \in Instant
    BY <2>1, <2>2, <2>5 DEF Dated, Moment
  <2> QED
    BY <2>1, <2>2, <2>5, <2>6 DEF Dated, ConclusionWasTrue, Concluding, Moment
<1> QED
  BY <1>1, <1>2

LEMMA ServeStep ==
    ASSUME FourEyesInv, TruthInv, History, NEW t \in Thread, Serve(t)
    PROVE  (Dated(t) /\ ConclusionWasTrue(t))'
<1>1. Dated(t)
  BY DEF TruthInv
<1>2. CASE ScreenInput(t)
  <2>1. pc[t] = "screen_input" /\ UNCHANGED answer
    BY <1>2 DEF ScreenInput
  <2>2. CASE Blocked(t)
    BY <2>1, <2>2, LeaveStep DEF Blocked
  <2>3. CASE Goto(t, IF job[t].service = "review" THEN "load" ELSE "read")
    <3> DEFINE step == IF job[t].service = "review" THEN "load" ELSE "read"
    <3>1. /\ step \in {"load", "read"} \cup Concluding /\ step \notin Concluding
          /\ step = "load" => job[t].service = "review"
          /\ step = "read" => job[t].service = "substantiation"
      BY <1>1, <2>1 DEF Dated, Concluding
    <3>2. Goto(t, step) /\ pc[t] # "idle"
      BY <2>1, <2>3
    <3> HIDE DEF step
    <3> QED
      BY <2>1, <3>1, <3>2, OnwardStep
  <2> QED
    BY <1>2, <2>2, <2>3 DEF ScreenInput
<1>3. CASE LoadRules(t)
  BY <1>3, LoadStep
<1>4. CASE ReadFacts(t)
  BY <1>4, ReadStep
<1>5. CASE ScreenOutput(t)
  <2>1. pc[t] = "screen_output" /\ UNCHANGED answer
    BY <1>5 DEF ScreenOutput
  <2>2. CASE Blocked(t)
    BY <2>1, <2>2, LeaveStep DEF Blocked
  <2>3. CASE Goto(t, "audit")
    BY <2>1, <2>3, OnwardStep DEF Concluding
  <2> QED
    BY <1>5, <2>2, <2>3 DEF ScreenOutput
<1>6. CASE Record(t)
  <2>1. pc[t] = "audit"
    BY <1>6 DEF Record
  <2>2. CASE Goto(t, "route") /\ UNCHANGED answer
    BY <2>1, <2>2, OnwardStep DEF Concluding
  <2>3. CASE Return(t, "not_required")
    BY <2>1, <2>3, ReturnStep DEF Concluding
  <2> QED
    BY <1>6, <2>2, <2>3 DEF Record
<1>7. CASE Route(t)
  <2>1. pc[t] \in Concluding /\ \E routing : Return(t, routing)
    BY <1>7 DEF Route, Concluding
  <2> QED
    BY <2>1, ReturnStep
<1>8. CASE CallFails(t)
  BY <1>8, LeaveStep DEF CallFails, Steps
<1> QED
  BY <1>2, <1>3, <1>4, <1>5, <1>6, <1>7, <1>8 DEF Serve

\* A step leaves the other threads where they are.
LEMMA OtherThread ==
    ASSUME TruthInv, History, NEW u \in Thread,
           pc'[u] = pc[u], job'[u] = job[u], found'[u] = found[u], answer'[u] = answer[u]
    PROVE  (Dated(u) /\ ConclusionWasTrue(u))'
<1>1. Dated(u) /\ ConclusionWasTrue(u)
  BY DEF TruthInv
<1>2. ConclusionWasTrue(u)'
  BY <1>1, ThreadKept
<1> QED
  BY <1>1, <1>2 DEF Dated

LEMMA SubmitDates ==
    ASSUME FourEyesInv, TruthInv, NEW t \in Thread, NEW request \in Requests, Submit(t, request)
    PROVE  (Dated(t) /\ ConclusionWasTrue(t))'
<1>1. pc'[t] = "screen_input" /\ answer'[t] = None /\ job'[t] = AtOnce(request)
  BY DEF FourEyesInv, Shapes, Submit
<1>2. /\ request = [actor |-> request.actor, service |-> request.service,
                    asset |-> request.asset, asOf |-> request.asOf]
      /\ request.service \in {"review", "substantiation"} /\ request.asOf \in Moment
  BY GradingAssumption, FactsAssumption
<1>3. now \in Instant
  BY DEF TruthInv
<1>4. /\ job'[t].service = request.service /\ job'[t].asOf \in Moment
      /\ request.service = "substantiation" => job'[t].asOf \in Instant
  <2>1. CASE request.service = "substantiation" /\ request.asOf = None
    <3>1. job'[t] = [request EXCEPT !.asOf = now]
      BY <1>1, <2>1 DEF AtOnce
    <3>2. job'[t].service = request.service /\ job'[t].asOf = now
      BY <1>2, <3>1
    <3> QED
      BY <1>3, <3>2 DEF Moment
  <2>2. CASE ~(request.service = "substantiation" /\ request.asOf = None)
    BY <1>1, <1>2, <2>2 DEF AtOnce, Moment
  <2> QED
    BY <2>1, <2>2
<1> QED
  BY <1>1, <1>2, <1>4 DEF Dated, ConclusionWasTrue, Concluding

LEMMA TruthStep == FourEyesInv /\ TruthInv /\ [Next]_vars => TruthInv'
<1> SUFFICES ASSUME FourEyesInv, TruthInv, [Next]_vars PROVE TruthInv'
  OBVIOUS
<1>1. FactsKept' /\ EvidenceShape' /\ now' \in Instant
  BY FactsStep
<1>2. ASSUME NEW t \in Thread, Serve(t), History, NEW u \in Thread
      PROVE  (Dated(u) /\ ConclusionWasTrue(u))'
  <2>1. CASE u = t
    BY <1>2, <2>1, ServeStep
  <2>2. CASE u # t
    <3>1. pc'[u] = pc[u] /\ job'[u] = job[u] /\ found'[u] = found[u] /\ answer'[u] = answer[u]
      BY <1>2, <2>2
         DEF FourEyesInv, Shapes, Serve, ScreenInput, LoadRules, ReadFacts, ScreenOutput, Record,
             Route, CallFails, Goto, Leave, Return, Blocked
    <3> QED
      BY <1>2, <3>1, OtherThread
  <2> QED
    BY <2>1, <2>2
<1>3. ASSUME NEW t \in Thread, NEW request \in Requests, Submit(t, request), History,
             NEW u \in Thread
      PROVE  (Dated(u) /\ ConclusionWasTrue(u))'
  <2>1. CASE u = t
    BY <1>3, <2>1, SubmitDates
  <2>2. CASE u # t
    <3>1. pc'[u] = pc[u] /\ job'[u] = job[u] /\ found'[u] = found[u] /\ answer'[u] = answer[u]
      BY <1>3, <2>2 DEF FourEyesInv, Shapes, Submit
    <3> QED
      BY <1>3, <3>1, OtherThread
  <2> QED
    BY <2>1, <2>2
<1>4. ASSUME UNCHANGED <<pc, job, found, answer>>, History, NEW u \in Thread
      PROVE  (Dated(u) /\ ConclusionWasTrue(u))'
  BY <1>4, OtherThread
<1>5. ASSUME UNCHANGED vars, NEW u \in Thread
      PROVE  (Dated(u) /\ ConclusionWasTrue(u))'
  BY <1>5 DEF vars, TruthInv, Dated, ConclusionWasTrue, Concluded
<1>6. ASSUME NEW u \in Thread
      PROVE  (Dated(u) /\ ConclusionWasTrue(u))'
  BY <1>2, <1>3, <1>4, <1>5 DEF Next, Approve, ReadEvidence, Environment, Elsewhere, PutEvidence, Tick
<1> QED
  BY <1>1, <1>6 DEF TruthInv

\* For any number of calls at once and whatever is stored, withdrawn or
\* replaced around their reads, the verdict of an answer and the findings it
\* lists are what the records, or the evidence, on file amounted to at one
\* instant of its call.
THEOREM AnswersAreTrue == Spec => []AnswersWereTrue
<1>1. TruthInv => AnswersWereTrue
  BY DEF TruthInv, ConclusionWasTrue, AnswersWereTrue, Said
<1>2. Init => FourEyesInv /\ TruthInv
  BY FourEyesInit, TruthInit
<1>3. FourEyesInv /\ TruthInv /\ [Next]_vars => (FourEyesInv /\ TruthInv)'
  BY FourEyesStep, TruthStep
<1> QED
  BY <1>1, <1>2, <1>3, PTL DEF Spec

-----------------------------------------------------------------------------
(* The states the gate can be in, and the coverage number.                 *)

\* Coverage is whole exactly when nothing claimed lacks evidence.
Whole(service, conclusion) ==
    service = "substantiation" =>
        (conclusion.coverage = 10000
            <=> conclusion.verdict \in {"substantiated", "not_applicable"})

LEMMA ConclusionsTyped ==
    ASSUME NEW j, NEW seen, Requested(j), j.service \in {"review", "substantiation"}
    PROVE  Conclude(j, seen) \in Conclusions /\ Whole(j.service, Conclude(j, seen))
<1> DEFINE all == UNION ({RuleBook[m] : m \in DOMAIN RuleBook} \cup {Pack.rules})
           conclusion == Conclude(j, seen)
<1>1. Applicable(j) \subseteq all
  <2>1. RuleBook[j.asset.market] \in {RuleBook[m] : m \in DOMAIN RuleBook}
    BY GradingAssumption DEF Requested
  <2> QED
    BY <2>1 DEF Applicable, RulesFor
<1>2. CASE j.service = "review"
  <2> DEFINE failing == Failing(j.asset, seen, Applicable(j))
  <2>1. failing \subseteq all
    BY <1>1 DEF Failing
  <2>2. conclusion = [verdict |-> Outcome(failing), coverage |-> 0, failing |-> failing]
    BY <1>2 DEF Conclude
  <2> HIDE DEF all, failing
  <2>3. Outcome(failing) \in {"compliant", "non_compliant"}
    BY DEF Outcome
  <2> HIDE DEF conclusion
  <2>4. conclusion \in [verdict: Verdicts \cup {"compliant", "non_compliant"}, coverage: Nat,
                        failing: SUBSET all]
    BY <2>1, <2>2, <2>3
  <2> QED
    BY <1>2, <2>4 DEF Conclusions, Whole, all, conclusion
<1>3. CASE j.service = "substantiation"
  <2> DEFINE failing == Failing(j.asset, {}, Applicable(j))
             assessed == Assess(j.asset, Pack, seen, j.asOf)
  <2>1. failing \subseteq all
    BY <1>1 DEF Failing
  <2>2. conclusion = [verdict |-> assessed.verdict, coverage |-> assessed.coverage,
                      failing |-> failing]
    BY <1>3 DEF Conclude
  <2>3. /\ assessed.verdict \in Verdicts /\ assessed.coverage \in Nat
        /\ assessed.coverage = 10000 <=> assessed.verdict \in {"substantiated", "not_applicable"}
    BY AssessmentIsWhole
  <2> HIDE DEF all, failing, assessed
  <2> HIDE DEF conclusion
  <2>4. conclusion \in [verdict: Verdicts \cup {"compliant", "non_compliant"}, coverage: Nat,
                        failing: SUBSET all]
    BY <2>1, <2>2, <2>3
  <2>5. conclusion.coverage = assessed.coverage /\ conclusion.verdict = assessed.verdict
    BY <2>2
  <2> QED
    BY <2>3, <2>4, <2>5 DEF Conclusions, Whole, all, conclusion
<1> QED
  BY <1>2, <1>3

CallerKnown(t) ==
    pc[t] # "idle" =>
        /\ job[t].actor \in Principal
        /\ job[t].service = "substantiation" => TenantOf[job[t].actor] # Blank

AnswerTyped(t) ==
    answer[t] # None =>
        answer[t].conclusion \in Conclusions /\ Whole(answer[t].job.service, answer[t].conclusion)

EvidenceKeyed == \A i \in EvidenceId : evidence[i] # NoEvidence => evidence[i].id = i

TrailTyped ==
    /\ \A e \in audit : e.decision \in Decisions
    /\ \A c \in console : c.approvals \in 1..2

GateInv ==
    /\ EvidenceKeyed /\ TrailTyped
    /\ \A t \in Thread : pc[t] \in Steps \cup {"idle"} /\ CallerKnown(t) /\ AnswerTyped(t)

LEMMA GateInit == Init => GateInv
<1> SUFFICES ASSUME Init PROVE GateInv
  OBVIOUS
<1>1. EvidenceKeyed
  BY FactsAssumption DEF Init, EvidenceKeyed
<1>2. TrailTyped
  BY DEF Init, TrailTyped
<1>3. \A t \in Thread : pc[t] = "idle" /\ answer[t] = None
  BY DEF Init
<1> QED
  BY <1>1, <1>2, <1>3 DEF GateInv, CallerKnown, AnswerTyped

\* What a step leaves of a thread it does not move.
LEMMA GateOther ==
    ASSUME GateInv, NEW u \in Thread, pc'[u] = pc[u], job'[u] = job[u], answer'[u] = answer[u]
    PROVE  pc'[u] \in Steps \cup {"idle"} /\ CallerKnown(u)' /\ AnswerTyped(u)'
BY DEF GateInv, CallerKnown, AnswerTyped

LEMMA EventTyped ==
    ASSUME TrailTyped, NEW action, NEW actor, NEW decision \in Decisions, NEW ref, NEW verdict,
           audit' = audit \cup {Event(action, actor, decision, ref, verdict)},
           UNCHANGED console
    PROVE  TrailTyped'
<1>1. Event(action, actor, decision, ref, verdict).decision = decision
  BY DEF Event
<1> QED
  BY <1>1 DEF TrailTyped

LEMMA CaseTyped ==
    ASSUME TrailTyped, NEW j, NEW conclusion, UNCHANGED audit,
           console' = console \cup {Case(j, conclusion)} \/ UNCHANGED console
    PROVE  TrailTyped'
<1>1. Case(j, conclusion).approvals \in 1..2
  BY DEF Case, RequiredApprovals
<1> QED
  BY <1>1 DEF TrailTyped

LEMMA GateServe ==
    ASSUME FourEyesInv, TruthInv, GateInv, NEW t \in Thread, Serve(t)
    PROVE  GateInv'
<1>1. pc[t] # "idle" /\ UNCHANGED evidence
  BY DEF Serve, ScreenInput, LoadRules, ReadFacts, ScreenOutput, Record, Route, CallFails, Steps
<1>2. ASSUME NEW u \in Thread, u # t
      PROVE  pc'[u] = pc[u] /\ job'[u] = job[u] /\ answer'[u] = answer[u]
  BY <1>2 DEF FourEyesInv, Shapes, Serve, ScreenInput, LoadRules, ReadFacts, ScreenOutput, Record,
         Route, CallFails, Goto, Leave, Return, Blocked
<1>3. \/ pc'[t] = "idle"
      \/ job'[t] = job[t]
      \/ job'[t] = [job[t] EXCEPT !.asOf = now]
  BY DEF FourEyesInv, Shapes, Serve, ScreenInput, LoadRules, ReadFacts, ScreenOutput, Record,
         Route, CallFails, Goto, Leave, Return, Blocked
<1>4. \/ answer'[t] = answer[t]
      \/ \E routing : answer'[t] = Answered(t, routing)
  BY DEF FourEyesInv, Shapes, Serve, ScreenInput, LoadRules, ReadFacts, ScreenOutput, Record,
         Route, CallFails, Goto, Leave, Return, Blocked
<1>5. /\ Requested(job[t])
      /\ job[t] = [actor |-> job[t].actor, service |-> job[t].service,
                   asset |-> job[t].asset, asOf |-> job[t].asOf]
      /\ job[t].service \in {"review", "substantiation"}
      /\ CallerKnown(t) /\ AnswerTyped(t)
  BY <1>1 DEF FourEyesInv, TruthInv, Dated, GateInv
<1>6. CallerKnown(t)'
  BY <1>1, <1>3, <1>5 DEF CallerKnown
<1>7. AnswerTyped(t)'
  <2>1. Concluded(t) \in Conclusions /\ Whole(job[t].service, Concluded(t))
    BY <1>5, ConclusionsTyped DEF Concluded
  <2>2. ASSUME NEW routing, answer'[t] = Answered(t, routing)
        PROVE  AnswerTyped(t)'
    <3>1. answer'[t].job = job[t] /\ answer'[t].conclusion = Concluded(t)
      BY <2>2 DEF Answered
    <3> QED
      BY <2>1, <3>1 DEF AnswerTyped, Whole
  <2> QED
    BY <1>4, <1>5, <2>2 DEF AnswerTyped
<1>8. pc'[t] \in Steps \cup {"idle"}
  BY DEF FourEyesInv, Shapes, Serve, ScreenInput, LoadRules, ReadFacts, ScreenOutput, Record,
         Route, CallFails, Goto, Leave, Return, Blocked, Steps
<1>9. TrailTyped'
  <2>1. CASE ScreenInput(t) \/ ScreenOutput(t)
    <3>1. UNCHANGED console /\ (Blocked(t) \/ UNCHANGED audit)
      BY <2>1 DEF ScreenInput, ScreenOutput
    <3>2. CASE UNCHANGED <<console, audit>>
      BY <3>2 DEF GateInv, TrailTyped
    <3>3. CASE Blocked(t)
      BY <3>1, <3>3, EventTyped DEF Blocked, GateInv, Decisions
    <3> QED
      BY <3>1, <3>2, <3>3
  <2>2. CASE Record(t)
    <3> DEFINE decision == IF Escalates(t) THEN "escalated" ELSE "allowed"
    <3>1. decision \in Decisions
      BY DEF Decisions
    <3>2. /\ audit' = audit \cup {Event(job[t].service, job[t].actor, decision, Ref(job[t]),
                                        Concluded(t).verdict)}
          /\ UNCHANGED console
      BY <2>2 DEF Record
    <3> HIDE DEF decision
    <3> QED
      BY <3>1, <3>2, EventTyped DEF GateInv
  <2>3. CASE Route(t)
    <3>1. UNCHANGED audit /\ (UNCHANGED console \/ Receive(t))
      BY <2>3 DEF Route
    <3> QED
      BY <3>1, CaseTyped DEF Receive, GateInv
  <2>4. CASE UNCHANGED <<audit, console>>
    BY <2>4 DEF GateInv, TrailTyped
  <2> QED
    BY <2>1, <2>2, <2>3, <2>4 DEF Serve, LoadRules, ReadFacts, CallFails
<1> QED
  <2>1. EvidenceKeyed'
    BY <1>1 DEF GateInv, EvidenceKeyed
  <2>2. ASSUME NEW u \in Thread
        PROVE  pc'[u] \in Steps \cup {"idle"} /\ CallerKnown(u)' /\ AnswerTyped(u)'
    BY <1>2, <1>6, <1>7, <1>8, GateOther
  <2> QED
    BY <1>9, <2>1, <2>2 DEF GateInv

LEMMA GateSubmit ==
    ASSUME FourEyesInv, GateInv, NEW t \in Thread, NEW request \in Requests, Submit(t, request)
    PROVE  GateInv'
<1>1. /\ answer'[t] = None /\ job'[t] = AtOnce(request) /\ pc'[t] = "screen_input"
      /\ UNCHANGED <<evidence, audit, console>>
      /\ request.service = "substantiation" => TenantOf[request.actor] # Blank
  BY DEF FourEyesInv, Shapes, Submit
<1>2. ASSUME NEW u \in Thread, u # t
      PROVE  pc'[u] = pc[u] /\ job'[u] = job[u] /\ answer'[u] = answer[u]
  BY <1>2 DEF FourEyesInv, Shapes, Submit
<1>3. AtOnce(request) = request \/ AtOnce(request) = [request EXCEPT !.asOf = now]
  BY DEF AtOnce
<1>4. job'[t].actor = request.actor /\ job'[t].service = request.service
  BY <1>1, <1>3, GradingAssumption
<1>5. CallerKnown(t)' /\ AnswerTyped(t)' /\ pc'[t] \in Steps \cup {"idle"}
  BY <1>1, <1>4, GradingAssumption DEF CallerKnown, AnswerTyped, Steps
<1>6. EvidenceKeyed' /\ TrailTyped'
  BY <1>1 DEF GateInv, EvidenceKeyed, TrailTyped
<1>7. ASSUME NEW u \in Thread
      PROVE  pc'[u] \in Steps \cup {"idle"} /\ CallerKnown(u)' /\ AnswerTyped(u)'
  BY <1>2, <1>5, GateOther
<1> QED
  BY <1>6, <1>7 DEF GateInv

LEMMA GateStep == FourEyesInv /\ TruthInv /\ GateInv /\ [Next]_vars => GateInv'
<1> SUFFICES ASSUME FourEyesInv, TruthInv, GateInv, [Next]_vars PROVE GateInv'
  OBVIOUS
<1>1. ASSUME NEW t \in Thread, NEW request \in Requests, Submit(t, request)
      PROVE  GateInv'
  BY <1>1, GateSubmit
<1>2. ASSUME NEW t \in Thread, Serve(t)
      PROVE  GateInv'
  BY <1>2, GateServe
<1>3. ASSUME UNCHANGED <<pc, job, answer>>, EvidenceKeyed', TrailTyped'
      PROVE  GateInv'
  BY <1>3, GateOther DEF GateInv
<1>4. ASSUME NEW p \in Checkers, NEW review \in audit, NEW approved \in BOOLEAN,
             Approve(p, review, approved)
      PROVE  GateInv'
  <2> DEFINE decision == IF approved THEN "allowed" ELSE "blocked"
  <2>1. /\ audit' = audit \cup {Event("approve", p, decision, review.ref, review.verdict)}
        /\ decision \in Decisions /\ UNCHANGED <<console, evidence, pc, job, answer>>
    BY <1>4 DEF Approve, Decisions
  <2> HIDE DEF decision
  <2> QED
    BY <1>3, <2>1, EventTyped DEF GateInv, EvidenceKeyed
<1>5. ASSUME NEW p \in Principal, NEW i \in EvidenceId, ReadEvidence(p, i)
      PROVE  GateInv'
  <2> DEFINE decision == IF evidence[i].tenant = TenantOf[p] THEN "allowed" ELSE "blocked"
  <2>1. /\ audit' = audit \cup {Event("evidence_read", p, decision, i, None)}
        /\ decision \in Decisions /\ UNCHANGED <<console, evidence, pc, job, answer>>
    BY <1>5 DEF ReadEvidence, Decisions
  <2> HIDE DEF decision
  <2> QED
    BY <1>3, <2>1, EventTyped DEF GateInv, EvidenceKeyed
<1>6. CASE UNCHANGED <<evidence, pc, job, answer, audit, console>>
  BY <1>3, <1>6 DEF GateInv, EvidenceKeyed, TrailTyped
<1>7. ASSUME NEW e \in EvidenceWrites, PutEvidence(e)
      PROVE  GateInv'
  <2>1. \A i \in EvidenceId : evidence'[i] = evidence[i] \/ (i = e.id /\ evidence'[i] = e)
    BY <1>7 DEF TruthInv, EvidenceShape, PutEvidence
  <2>2. EvidenceKeyed' /\ TrailTyped' /\ UNCHANGED <<pc, job, answer>>
    BY <1>7, <2>1 DEF GateInv, EvidenceKeyed, TrailTyped, PutEvidence, Elsewhere
  <2> QED
    BY <1>3, <2>2
<1> QED
  BY <1>1, <1>2, <1>4, <1>5, <1>6, <1>7 DEF Next, vars, Environment, Elsewhere, Tick

LEMMA GateAlways == Spec => [](FourEyesInv /\ TruthInv /\ GateInv)
<1>1. Init => FourEyesInv /\ TruthInv /\ GateInv
  BY FourEyesInit, TruthInit, GateInit
<1>2. FourEyesInv /\ TruthInv /\ GateInv /\ [Next]_vars => (FourEyesInv /\ TruthInv /\ GateInv)'
  BY FourEyesStep, TruthStep, GateStep
<1> QED
  BY <1>1, <1>2, PTL DEF Spec

\* Every state of the gate is one of the expected ones: an assessment runs only
\* for a caller with a tenant, a call that reads has its day fixed, an answer
\* lists findings of the rule book or the pack alone, and every case asks for
\* one approval or for two.
THEOREM GateTypeCorrect == Spec => []GateTypeOK
<1>1. ASSUME FourEyesInv, TruthInv, GateInv PROVE GateTypeOK
  <2>1. pc \in [Thread -> Steps \cup {"idle"}]
    BY <1>1 DEF FourEyesInv, Shapes, GateInv
  <2>2. ASSUME NEW t \in Thread
        PROVE  /\ CallerKnown(t) /\ AnswerTyped(t)
               /\ pc[t] \notin {"idle", "screen_input", "load"} => job[t].asOf \in Instant
    BY <1>1 DEF TruthInv, Dated, GateInv
  <2> QED
    BY <1>1, <2>1, <2>2
       DEF GateTypeOK, GateInv, EvidenceKeyed, TrailTyped, CallerKnown, AnswerTyped
<1> QED
  BY <1>1, GateAlways, PTL

\* The coverage number of every assessment that is returned is whole exactly
\* when its verdict is, whatever the claims, the evidence and the rounding.
THEOREM CoverageIsHonest == Spec => []WholeMeansSubstantiated
<1>1. GateInv => WholeMeansSubstantiated
  BY DEF GateInv, WholeMeansSubstantiated, AnswerTyped, Whole, Answers
<1> QED
  BY <1>1, GateAlways, PTL
=============================================================================
