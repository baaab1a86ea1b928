-------------------------- MODULE DeploymentProofs --------------------------
(***************************************************************************)
(* The exposure and the model boundary of Deployment, for every set of     *)
(* environments, settings files, requests, sessions and texts.             *)
(*                                                                         *)
(* What the API answers follows from the settings it is bound to, so those *)
(* theorems rest on one small invariant: a process runs on settings that   *)
(* were loaded, and not refused, from some file.  What the model's turns   *)
(* show and record needs the turns' own invariant, and so do the states a  *)
(* turn can be in.                                                         *)
(***************************************************************************)
EXTENDS Deployment, TLAPS

\* A process that is up was booted from a file that was not refused.
Booted ==
    /\ env \in Environments[role] /\ role \in Role
    /\ process # Down => process = Up(process.from) /\ ~LoadRefused(env, process.from)

LEMMA BootedInvariant == Spec => []Booted
<1>1. Init => Booted
  BY DEF Init, Booted
<1>2. Booted /\ [Next]_vars => Booted'
  <2> SUFFICES ASSUME Booted, [Next]_vars PROVE Booted'
    OBVIOUS
  <2>1. CASE EditSettings
    BY <2>1 DEF EditSettings, Booted, Up, Down
  <2>2. CASE Boot
    <3>1. ~LoadRefused(env, file)
      BY <2>2 DEF Boot, BootRefused, ApiRefused, AgentRefused
    <3>2. Up(file).from = file
      BY DEF Up
    <3>3. process' = Up(file) /\ UNCHANGED <<role, env, file>>
      BY <2>2 DEF Boot
    <3> QED
      BY <3>1, <3>2, <3>3 DEF Booted, Up, Down
  <2>3. CASE Stop
    BY <2>3 DEF Stop, Booted, Down
  <2>4. CASE \E s \in Session : Talk(s) \/ TurnStep(s)
    <3>1. UNCHANGED <<role, env, file, process>>
      BY <2>4 DEF Talk, TurnStep
    <3> QED
      BY <3>1 DEF Booted, Up, Down
  <2>5. CASE UNCHANGED vars
    BY <2>5 DEF vars, Booted, Up, Down
  <2> QED
    BY <2>1, <2>2, <2>3, <2>4, <2>5 DEF Next
<1> QED
  BY <1>1, <1>2, PTL DEF Spec

-----------------------------------------------------------------------------
(* Who is answered.                                                        *)

\* A refusal is no answer.
LEMMA RefusalsAnswerNobody ==
    /\ Refusal(401).status # 200 /\ Refusal(500).status # 200 /\ Refusal(503).status # 200
BY DEF Refusal

\* Who is answered got past the guard.
LEMMA AnsweredIsResolved ==
    ASSUME NEW e, NEW s, NEW req, UserRoute(e, s, req).status = 200
    PROVE  UserRoute(e, s, req) = GetPrincipal(e, s, req) /\ ~Exposed(e, s, req)
BY RefusalsAnswerNobody DEF UserRoute

\* Behind the guard a stranger meets the two adapters that verify.
LEMMA GuardStands ==
    ASSUME NEW e, NEW s, NEW req,
           ~Exposed(e, s, req), req.peer # "loopback", e.insecureDemo # "1"
    PROVE  s.identity = "iap" \/ s.identity = "client idp"
<1>1. EndUserAuthKind(s.identity) = "verified"
  BY DEF Exposed, EndUserAuthenticated
<1> QED
  BY <1>1 DEF EndUserAuthKind

\* What a resolved assertion went through.
LEMMA IapResolves ==
    ASSUME NEW e, NEW req, ResolveIap(e, req).status = 200
    PROVE  /\ HasValue(e.iapAudience)
           /\ SelectAssertion(req) # NoAssertion /\ SelectAssertion(req).pinned
           /\ Verifies(SelectAssertion(req), e.iapAudience)
           /\ ~ClaimsRefused(SelectAssertion(req))
BY RefusalsAnswerNobody DEF ResolveIap

\* Whom the IAP adapter resolves is the assertion's.
LEMMA IapPrincipal ==
    ASSUME NEW e, NEW req, ResolveIap(e, req).status = 200
    PROVE  /\ ResolveIap(e, req).principal.source = "iap"
           /\ ResolveIap(e, req).principal.subject = SelectAssertion(req).email
           /\ ResolveIap(e, req).principal.tenant = TenantFor(e, SelectAssertion(req))
<1> DEFINE a == SelectAssertion(req)
           p == [source |-> "iap", subject |-> a.email, tenant |-> TenantFor(e, a)]
<1>1. ResolveIap(e, req) = Resolved(p)
  BY RefusalsAnswerNobody DEF ResolveIap
<1>2. Resolved(p).principal = p
  BY DEF Resolved
<1>3. p.source = "iap" /\ p.subject = a.email /\ p.tenant = TenantFor(e, a)
  OBVIOUS
<1> HIDE DEF p
<1> QED
  BY <1>1, <1>2, <1>3

\* The two ways a stranger may be answered.
ByAssertion(req, answer) ==
    LET a == SelectAssertion(req)
    IN  /\ answer.principal.source = "iap" /\ a # NoAssertion
        /\ a.pinned /\ a.fresh /\ a.signedBy = "iap key" /\ a.iss = "iap"
        /\ HasValue(a.aud) /\ a.aud = env.iapAudience
        /\ a.email # Blank /\ answer.principal.subject = a.email

ByProvider(req, answer) == answer.principal.source = "client idp" /\ req.known

LEMMA AssertionsAreGenuine ==
    ASSUME NEW req, ResolveIap(env, req).status = 200
    PROVE  ByAssertion(req, ResolveIap(env, req))
<1> DEFINE a == SelectAssertion(req)
<1>1. HasValue(env.iapAudience) /\ a # NoAssertion /\ a.pinned
  BY IapResolves
<1>2. Verifies(a, env.iapAudience) /\ ~ClaimsRefused(a)
  BY IapResolves
<1>3. /\ ResolveIap(env, req).principal.source = "iap"
      /\ ResolveIap(env, req).principal.subject = a.email
  BY IapPrincipal
<1>4. a.signedBy = "iap key" /\ a.aud = env.iapAudience /\ a.fresh
  BY <1>2 DEF Verifies
<1>5. a.iss = "iap" /\ a.email # Blank
  BY <1>2 DEF ClaimsRefused
<1> QED
  BY <1>1, <1>3, <1>4, <1>5 DEF ByAssertion

LEMMA ProvidersKnowThem ==
    ASSUME NEW e, NEW s, NEW req,
           s.identity = "client idp", GetPrincipal(e, s, req).status = 200
    PROVE  ByProvider(req, GetPrincipal(e, s, req))
<1> DEFINE p == [source |-> "client idp", subject |-> "employee", tenant |-> "client"]
<1>1. GetPrincipal(e, s, req) = IF req.known THEN Resolved(p) ELSE Refusal(401)
  BY DEF GetPrincipal
<1>2. req.known /\ GetPrincipal(e, s, req) = Resolved(p)
  BY <1>1, RefusalsAnswerNobody
<1>3. Resolved(p).principal = p /\ p.source = "client idp"
  BY DEF Resolved
<1> HIDE DEF p
<1> QED
  BY <1>2, <1>3 DEF ByProvider

LEMMA StrangersAreVerifiedNow == StrangersAreVerified
<1>1. SUFFICES ASSUME NEW req \in Requests,
                      Answered(req).status = 200, req.peer # "loopback", env.insecureDemo # "1"
               PROVE  ByProvider(req, Answered(req)) \/ ByAssertion(req, Answered(req))
  BY DEF StrangersAreVerified, ByProvider, ByAssertion
<1>2. req.peer # "loopback" /\ env.insecureDemo # "1"
  BY <1>1
<1>3. Answered(req) = GetPrincipal(env, process.settings, req)
  BY <1>1, AnsweredIsResolved DEF Answered
<1>4. ~Exposed(env, process.settings, req)
  BY <1>1, AnsweredIsResolved DEF Answered
<1>5. GetPrincipal(env, process.settings, req).status = 200
  BY <1>1, <1>3
<1>6. CASE process.settings.identity = "iap"
  <2>1. GetPrincipal(env, process.settings, req) = ResolveIap(env, req)
    BY <1>6 DEF GetPrincipal
  <2> QED
    BY <1>3, <1>5, <2>1, AssertionsAreGenuine
<1>7. CASE process.settings.identity = "client idp"
  <2>1. ByProvider(req, GetPrincipal(env, process.settings, req))
    BY <1>5, <1>7, ProvidersKnowThem
  <2> QED
    BY <1>3, <2>1
<1>8. process.settings.identity = "iap" \/ process.settings.identity = "client idp"
  BY <1>2, <1>4, GuardStands
<1> QED
  BY <1>6, <1>7, <1>8

\* Whatever the environment, the file or the request: nobody from elsewhere is
\* answered as somebody on the strength of the request alone.
THEOREM StrangersAreVerifiedTheorem == Spec => []StrangersAreVerified
<1>1. StrangersAreVerified
  BY StrangersAreVerifiedNow
<1> QED
  BY <1>1, PTL

-----------------------------------------------------------------------------
(* Personas.                                                               *)

\* Only the persona adapter answers as a persona, and only where it may.
LEMMA PersonasAnswer ==
    ASSUME NEW e, NEW s, NEW req,
           IsPersona(UserRoute(e, s, req)) \/ PersonasRoute(e, s, req) # {}
    PROVE  ~PersonasRefused(s)
<1>1. CASE PersonasRoute(e, s, req) # {}
  BY <1>1 DEF PersonasRoute
<1>2. CASE IsPersona(UserRoute(e, s, req))
  <2> DEFINE answer == GetPrincipal(e, s, req)
  <2>1. UserRoute(e, s, req) = answer /\ answer.status = 200
    BY <1>2, AnsweredIsResolved DEF IsPersona
  <2>2. answer.principal.source = "persona"
    BY <1>2, <2>1 DEF IsPersona
  <2>3. CASE s.identity = "personas"
    <3>1. answer = ResolvePersona(s, req)
      BY <2>3 DEF GetPrincipal
    <3> QED
      BY <2>1, <3>1, RefusalsAnswerNobody DEF ResolvePersona
  <2>4. CASE s.identity = "iap"
    <3>1. answer = ResolveIap(e, req)
      BY <2>4 DEF GetPrincipal
    <3>2. ResolveIap(e, req).status = 200
      BY <2>1, <3>1
    <3> QED
      BY <2>2, <3>1, <3>2, IapPrincipal
  <2>5. CASE s.identity = "client idp"
    <3>1. answer.status = 200
      BY <2>1
    <3>2. ByProvider(req, answer)
      BY <3>1, <2>5, ProvidersKnowThem
    <3> QED
      BY <2>2, <3>2 DEF ByProvider
  <2>6. CASE /\ s.identity # "personas" /\ s.identity # "iap"
             /\ s.identity # "client idp"
    <3>1. answer = Refusal(500)
      BY <2>6 DEF GetPrincipal
    <3> QED
      BY <2>1, <3>1, RefusalsAnswerNobody
  <2> QED
    BY <2>3, <2>4, <2>5, <2>6
<1> QED
  BY <1>1, <1>2

\* A laptop profile that counts as chosen was named by the variable or the file.
LEMMA LaptopsAreNamed ==
    ASSUME NEW e, NEW f, ~LoadRefused(e, f), ~PersonasRefused(Load(e, f))
    PROVE  \/ e.profile \in LAPTOP_PROFILES
           \/ e.profile = Unset /\ f.profile \in LAPTOP_PROFILES
<1>1. ~ProfileRefused(e.profile, f.profile)
  BY DEF LoadRefused
<1>2. /\ Load(e, f).profile = ResolveProfile(e.profile, f.profile).profile
      /\ Load(e, f).explicit = ResolveProfile(e.profile, f.profile).explicit
  BY DEF Load
<1> QED
  BY <1>1, <1>2 DEF ProfileRefused, PersonasRefused, ResolveProfile, HasValue

\* Personas are served only where someone named a laptop profile, under every
\* environment and every file a process may be booted from.
THEOREM PersonasWereChosenTheorem == Spec => []PersonasWereChosen
<1>1. Booted => PersonasWereChosen
  <2> SUFFICES ASSUME Booted, Serving("api"), NEW req \in Requests,
                      \/ IsPersona(Answered(req))
                      \/ PersonasRoute(env, process.settings, req) # {}
               PROVE  \/ env.profile \in LAPTOP_PROFILES
                      \/ env.profile = Unset /\ process.from.profile \in LAPTOP_PROFILES
    BY DEF PersonasWereChosen
  <2>1. process # Down
    BY DEF Serving, Down
  <2>2. process.settings = Load(env, process.from) /\ ~LoadRefused(env, process.from)
    BY <2>1 DEF Booted, Up
  <2>3. ~PersonasRefused(process.settings)
    BY PersonasAnswer DEF Answered
  <2> QED
    BY <2>2, <2>3, LaptopsAreNamed
<1> QED
  BY <1>1, BootedInvariant, PTL

-----------------------------------------------------------------------------
(* Tenants.                                                                *)

\* A key a map of the environment names is found with one of its own tenants.
LEMMA NamedPairs ==
    ASSUME NEW pairs, NEW k, \E pair \in pairs : pair[1] = k,
           \A pair \in pairs : pair = <<pair[1], pair[2]>>
    PROVE  <<k, (CHOOSE pair \in pairs : pair[1] = k)[2]>> \in pairs
<1> DEFINE chosen == CHOOSE pair \in pairs : pair[1] = k
<1>1. chosen \in pairs /\ chosen[1] = k
  OBVIOUS
<1> HIDE DEF chosen
<1>2. chosen = <<k, chosen[2]>>
  BY <1>1
<1> QED
  BY <1>1, <1>2

\* Only the IAP adapter answers with a principal of its.
LEMMA IapAnswers ==
    ASSUME NEW e, NEW s, NEW req,
           GetPrincipal(e, s, req).status = 200,
           GetPrincipal(e, s, req).principal.source = "iap"
    PROVE  GetPrincipal(e, s, req) = ResolveIap(e, req)
<1> DEFINE answer == GetPrincipal(e, s, req)
<1>1. CASE s.identity = "personas"
  <2>1. answer = ResolvePersona(s, req)
    BY <1>1 DEF GetPrincipal
  <2>2. PICK id : answer = Resolved(PersonaPrincipal(id))
    BY <2>1, RefusalsAnswerNobody DEF ResolvePersona
  <2>3. Resolved(PersonaPrincipal(id)).principal.source = "persona"
    BY DEF Resolved, PersonaPrincipal
  <2> QED
    BY <2>2, <2>3
<1>2. CASE s.identity = "iap"
  BY <1>2 DEF GetPrincipal
<1>3. CASE s.identity = "client idp"
  <2>1. ByProvider(req, answer)
    BY <1>3, ProvidersKnowThem
  <2> QED
    BY <2>1 DEF ByProvider
<1>4. CASE /\ s.identity # "personas" /\ s.identity # "iap"
           /\ s.identity # "client idp"
  <2>1. answer = Refusal(500)
    BY <1>4 DEF GetPrincipal
  <2> QED
    BY <2>1, RefusalsAnswerNobody
<1> QED
  BY <1>1, <1>2, <1>3, <1>4

\* What TenantFor says of an assertion under reviewed maps.
LEMMA TenantsOfAssertions ==
    ASSUME NEW e, NEW a, TenantFor(e, a) # Blank,
           \A pair \in e.domainTenants.pairs \cup e.machineTenants.pairs :
               pair = <<pair[1], pair[2]>>
    PROVE  IF a.machine
           THEN <<a.email, TenantFor(e, a)>> \in e.machineTenants.pairs
           ELSE /\ a.hosted # Blank
                /\ \/ <<a.hosted, TenantFor(e, a)>> \in e.domainTenants.pairs
                   \/ /\ TenantFor(e, a) = a.hosted
                      /\ \A pair \in e.domainTenants.pairs : pair[1] # a.hosted
<1>1. CASE a.machine
  <2>1. Mapped(e.machineTenants, a.email)
    BY <1>1 DEF TenantFor
  <2>2. TenantFor(e, a) = (CHOOSE p \in e.machineTenants.pairs : p[1] = a.email)[2]
    BY <1>1, <2>1 DEF TenantFor
  <2>3. \A pair \in e.machineTenants.pairs : pair = <<pair[1], pair[2]>>
    OBVIOUS
  <2> QED
    BY <1>1, <2>1, <2>2, <2>3, NamedPairs DEF Mapped
<1>2. CASE ~a.machine /\ a.hosted # Blank /\ Mapped(e.domainTenants, a.hosted)
  <2>1. TenantFor(e, a) = (CHOOSE p \in e.domainTenants.pairs : p[1] = a.hosted)[2]
    BY <1>2 DEF TenantFor
  <2>2. \A pair \in e.domainTenants.pairs : pair = <<pair[1], pair[2]>>
    OBVIOUS
  <2> QED
    BY <1>2, <2>1, <2>2, NamedPairs DEF Mapped
<1>3. CASE ~a.machine /\ ~(a.hosted # Blank /\ Mapped(e.domainTenants, a.hosted))
  <2>1. TenantFor(e, a) = a.hosted
    BY <1>3 DEF TenantFor
  <2> QED
    BY <1>3, <2>1 DEF Mapped
<1> QED
  BY <1>1, <1>2, <1>3

\* No tenant is made up: under every pair of maps it is one somebody reviewed the
\* address or the domain into, or the verified domain itself.
THEOREM TenantsAreReviewedTheorem == Spec => []TenantsAreReviewed
<1>1. Booted => TenantsAreReviewed
  <2> SUFFICES ASSUME Booted, NEW req \in Requests,
                      Answered(req).status = 200,
                      Answered(req).principal.source = "iap",
                      Answered(req).principal.tenant # Blank
               PROVE  LET a == SelectAssertion(req)
                          tenant == Answered(req).principal.tenant
                      IN  IF a.machine
                          THEN <<a.email, tenant>> \in env.machineTenants.pairs
                          ELSE /\ a.hosted # Blank
                               /\ \/ <<a.hosted, tenant>> \in env.domainTenants.pairs
                                  \/ /\ tenant = a.hosted
                                     /\ \A pair \in env.domainTenants.pairs : pair[1] # a.hosted
    BY DEF TenantsAreReviewed
  <2>1. Answered(req) = GetPrincipal(env, process.settings, req)
    BY AnsweredIsResolved DEF Answered
  <2>2. Answered(req) = ResolveIap(env, req)
    BY <2>1, IapAnswers
  <2>3. Answered(req).principal.tenant = TenantFor(env, SelectAssertion(req))
    BY <2>2, IapPrincipal
  <2>4. \A pair \in env.domainTenants.pairs \cup env.machineTenants.pairs :
            pair = <<pair[1], pair[2]>>
    BY MapsAssumption DEF Booted
  <2> QED
    BY <2>3, <2>4, TenantsOfAssertions
<1> QED
  BY <1>1, BootedInvariant, PTL

-----------------------------------------------------------------------------
(* Hand-offs.                                                              *)

\* Settings that route to the platform know where.
LEMMA LoadedRoutingWorks ==
    ASSUME NEW e, NEW f, ~LoadRefused(e, f), Load(e, f).routing = "platform"
    PROVE  /\ Load(e, f).profile \in ManagedProfiles => HandOff(e, Load(e, f)) # "failed"
           /\ Load(e, f).profile = "gcp" => HandOff(e, Load(e, f)) = "edge bearer"
<1> DEFINE s == Load(e, f)
           p == ResolveProfile(e.profile, f.profile).profile
<1>1. ~RoutingRefused(e, p)
  BY DEF LoadRefused
<1>2. s.profile = p
  BY DEF Load
<1>3. BooleanSetting(e.routing)
  BY DEF Load
<1>4. p \in ManagedProfiles => HasValue(e.reviewUrl)
  BY <1>1, <1>3 DEF RoutingRefused
<1>5. p = "gcp" => HasValue(e.reviewAudience) /\ e.reviewAudience # "backend service"
  BY <1>1, <1>3 DEF RoutingRefused
<1> HIDE DEF s
<1>6. s.routing = "platform"
  BY DEF s
<1>7. CASE RouterRefused(e)
  <2>1. HandOff(e, s) = "error"
    BY <1>6, <1>7 DEF HandOff
  <2>2. p # "gcp"
    BY <1>5, <1>7 DEF RouterRefused, HasValue
  <2> QED
    BY <1>2, <2>1, <2>2 DEF s
<1>8. CASE ~RouterRefused(e)
  <2>1. HandOff(e, s) = IF ~HasValue(e.reviewUrl) THEN "failed"
                        ELSE IF e.reviewAudience = Unset THEN "static bearer" ELSE "edge bearer"
    BY <1>6, <1>8 DEF HandOff
  <2>2. p \in ManagedProfiles => HandOff(e, s) # "failed"
    BY <1>4, <2>1
  <2>3. p = "gcp" => HandOff(e, s) = "edge bearer"
    BY <1>4, <1>5, <2>1 DEF HasValue, ManagedProfiles
  <2> QED
    BY <1>2, <2>2, <2>3 DEF s
<1> QED
  BY <1>7, <1>8

\* No environment and no edit of the file lets routing that is on point nowhere.
THEOREM HandOffsCanWorkTheorem == Spec => []HandOffsCanWork
<1>1. Booted => HandOffsCanWork
  <2> SUFFICES ASSUME Booted, process.state = "up", NEW s \in InUse, s.routing = "platform"
               PROVE  /\ s.profile \in ManagedProfiles => HandOff(env, s) # "failed"
                      /\ s.profile = "gcp" => HandOff(env, s) = "edge bearer"
    BY DEF HandOffsCanWork
  <2>1. process # Down
    BY DEF Down
  <2>2. process.settings = Load(env, process.from) /\ ~LoadRefused(env, process.from)
    BY <2>1 DEF Booted, Up
  <2>3. PICK f : s = Load(env, f) /\ ~LoadRefused(env, f)
    BY <2>2 DEF InUse
  <2> QED
    BY <2>3, LoadedRoutingWorks
<1> QED
  BY <1>1, BootedInvariant, PTL
-----------------------------------------------------------------------------
(* What the agent's turns show and what the audit trail says of them.  The *)
(* property of a record must survive later turns of its session and turns  *)
(* of other sessions, so the invariant ties a running turn to the          *)
(* session's blocked mark, keeps its number the session's last, and keeps  *)
(* recorded turns apart from running ones.                                 *)

-----------------------------------------------------------------------------
(* The guardrails.                                                         *)

\* Whatever screens, allows only what all of its filters found nothing in.
LEMMA AllowedIsClean ==
    ASSUME NEW guardrail, NEW text, NEW screen \in Screens(guardrail, text),
           screen.verdict.allowed
    PROVE  screen.clean
<1>1. CASE guardrail = "off"
  BY <1>1 DEF Screens
<1>2. CASE guardrail = "local"
  BY <1>2 DEF Screens, Heuristic, Verdict
<1>3. CASE guardrail = "model_armor"
  <2>1. PICK a \in ArmorAnswers :
           screen = [verdict |-> Parse(a, text),
                     clean |-> a.match = "NO_MATCH_FOUND" /\ a.ran = "SUCCESS"]
    BY <1>3 DEF Screens
  <2>2. screen.clean = (a.match = "NO_MATCH_FOUND" /\ a.ran = "SUCCESS")
    BY <2>1
  <2>3. Parse(a, text).allowed = (a.match = "NO_MATCH_FOUND" /\ a.ran = "SUCCESS")
    BY DEF Parse, Verdict
  <2> QED
    BY <2>1, <2>2, <2>3
<1>4. CASE guardrail # "off" /\ guardrail # "local" /\ guardrail # "model_armor"
  BY <1>4 DEF Screens
<1> QED
  BY <1>1, <1>2, <1>3, <1>4

-----------------------------------------------------------------------------
(* The inductive invariant.                                                *)

Shapes ==
    /\ begun \in Nat
    /\ turn = [s \in Session |-> turn[s]]
    /\ memory = [s \in Session |-> memory[s]]
    /\ went = [n \in Turns |-> went[n]]

Running(s) == turn[s].step # "none"

\* A running turn is its session's last, and has left its mark if it was blocked.
TurnIsTheLast(s) ==
    Running(s) =>
        /\ turn[s].nr \in Turns
        /\ went[turn[s].nr].session = s /\ went[turn[s].nr].ended = "running"
        /\ went[turn[s].nr].blocked => memory[s].blocked
        /\ \A n \in Turns : went[n].session = s => n <= turn[s].nr

\* The mark was left by a turn of the session.
MarkIsEarned(s) ==
    memory[s].blocked => \E n \in Turns : went[n].blocked /\ went[n].session = s

RecordIsTrue(r) ==
    /\ r.nr \in Turns /\ went[r.nr].ended = "audited"
    /\ IF r.decision = "allowed" THEN ~went[r.nr].blocked
       ELSE \E n \in 1..r.nr : went[n].blocked /\ went[n].session = went[r.nr].session

BoundaryInv ==
    /\ Shapes
    /\ \A s \in Session : TurnIsTheLast(s) /\ MarkIsEarned(s)
    /\ \A r \in trail : RecordIsTrue(r)
    /\ ShownWasScreened

LEMMA BoundaryInvInit == Init => BoundaryInv
<1> SUFFICES ASSUME Init PROVE BoundaryInv
  OBVIOUS
<1>1. begun = 0 /\ trail = {} /\ Turns = {}
  BY DEF Init, BoundaryInit, Turns
<1>2. \A s \in Session : turn[s].step = "none" /\ memory[s].blocked = FALSE
  BY DEF Init, BoundaryInit, NoTurn
<1>3. Shapes
  BY <1>1 DEF Init, BoundaryInit, Shapes, Turns
<1> QED
  BY <1>1, <1>2, <1>3
     DEF BoundaryInv, TurnIsTheLast, MarkIsEarned, Running, ShownWasScreened

-----------------------------------------------------------------------------
(* A step of a running turn.                                               *)

\* What a step of s's turn does, which blocks it if b, and may end it: with a record
\* only if it does not block.
Moves(s, b) ==
    LET n == turn[s].nr
    IN  /\ begun' = begun
        /\ \A u \in Session : u # s => turn'[u] = turn[u] /\ memory'[u] = memory[u]
        /\ \A m \in Turns : m # n => went'[m] = went[m]
        /\ went'[n].session = went[n].session
        /\ went'[n].blocked <=> went[n].blocked \/ b
        /\ memory'[s].blocked <=> memory[s].blocked \/ b
        /\ went'[n].shown \subseteq went'[n].cleared \cup {Reason}
        /\ \/ /\ turn'[s].nr = n /\ went'[n].ended = "running" /\ trail' = trail
           \/ /\ turn'[s].step = "none"
              /\ \/ trail' = trail
                 \/ trail' = trail \cup {Record(s)} /\ went'[n].ended = "audited" /\ ~b

LEMMA MovesKeepInv ==
    ASSUME BoundaryInv, Shapes', NEW s \in Session, Running(s), NEW b \in BOOLEAN, Moves(s, b)
    PROVE  BoundaryInv'
<1> DEFINE n == turn[s].nr
<1>1. /\ n \in Turns /\ went[n].session = s /\ went[n].ended = "running"
      /\ went[n].blocked => memory[s].blocked
      /\ \A m \in Turns : went[m].session = s => m <= n
  BY DEF BoundaryInv, TurnIsTheLast
<1>2. Turns' = Turns /\ Turns \subseteq Nat
  BY DEF Moves, Turns
<1>3. \A m \in Turns : went'[m].session = went[m].session
  BY DEF Moves
<1>4. \A m \in Turns : went[m].blocked => went'[m].blocked
  BY DEF Moves
<1>5. ASSUME NEW u \in Session, u # s
      PROVE  TurnIsTheLast(u)'
  <2>1. turn'[u] = turn[u] /\ memory'[u] = memory[u]
    BY <1>5 DEF Moves
  <2> SUFFICES ASSUME Running(u) PROVE TurnIsTheLast(u)'
    BY <2>1 DEF TurnIsTheLast, Running
  <2>2. /\ turn[u].nr \in Turns
        /\ went[turn[u].nr].session = u /\ went[turn[u].nr].ended = "running"
        /\ went[turn[u].nr].blocked => memory[u].blocked
        /\ \A m \in Turns : went[m].session = u => m <= turn[u].nr
    BY DEF BoundaryInv, TurnIsTheLast
  <2>3. turn[u].nr # n
    BY <1>1, <1>5, <2>2
  <2>4. went'[turn[u].nr] = went[turn[u].nr]
    BY <2>2, <2>3 DEF Moves
  <2> QED
    BY <1>2, <1>3, <2>1, <2>2, <2>4 DEF TurnIsTheLast
<1>6. TurnIsTheLast(s)'
  <2>1. CASE turn'[s].nr = n /\ went'[n].ended = "running"
    <3>1. went'[n].blocked => memory'[s].blocked
      BY <1>1 DEF Moves
    <3> QED
      BY <1>1, <1>2, <1>3, <2>1, <3>1 DEF TurnIsTheLast
  <2>2. CASE turn'[s].step = "none"
    BY <2>2 DEF TurnIsTheLast, Running
  <2> QED
    BY <2>1, <2>2 DEF Moves
<1>7. ASSUME NEW u \in Session
      PROVE  MarkIsEarned(u)'
  <2> SUFFICES ASSUME memory'[u].blocked
               PROVE  \E m \in Turns : went'[m].blocked /\ went'[m].session = u
    BY <1>2 DEF MarkIsEarned
  <2>1. CASE memory[u].blocked
    BY <1>3, <1>4, <2>1 DEF BoundaryInv, MarkIsEarned
  <2>2. CASE ~memory[u].blocked
    <3>1. u = s /\ b
      BY <2>2 DEF Moves
    <3>2. went'[n].blocked /\ went'[n].session = s
      BY <1>1, <3>1 DEF Moves
    <3> QED
      BY <1>1, <3>1, <3>2
  <2> QED
    BY <2>1, <2>2
<1>8. ASSUME NEW r \in trail
      PROVE  RecordIsTrue(r)'
  <2>1. RecordIsTrue(r)
    BY DEF BoundaryInv
  <2>2. r.nr \in Turns /\ r.nr # n
    BY <1>1, <2>1 DEF RecordIsTrue
  <2>3. went'[r.nr] = went[r.nr]
    BY <2>2 DEF Moves
  <2>4. 1..r.nr \subseteq Turns
    BY <2>2 DEF BoundaryInv, Shapes, Turns
  <2> QED
    BY <1>2, <1>3, <1>4, <2>1, <2>3, <2>4 DEF RecordIsTrue
<1>9. ASSUME NEW r, r = Record(s), went'[n].ended = "audited", ~b
      PROVE  RecordIsTrue(r)'
  <2>1. r.nr = n /\ r.decision = IF memory[s].blocked THEN "blocked" ELSE "allowed"
    BY <1>9 DEF Record
  <2>2. 1..n \subseteq Turns /\ \A m \in Turns : m <= n => m \in 1..n
    BY <1>1 DEF BoundaryInv, Shapes, Turns
  <2>3. CASE memory[s].blocked
    <3>1. PICK m \in Turns : went[m].blocked /\ went[m].session = s
      BY <2>3 DEF BoundaryInv, MarkIsEarned
    <3>2. m \in 1..n
      BY <1>1, <2>2, <3>1
    <3>3. went'[m].blocked /\ went'[m].session = went'[n].session
      BY <1>1, <1>3, <1>4, <3>1
    <3>4. r.decision # "allowed"
      BY <2>1, <2>3
    <3> QED
      BY <1>1, <1>2, <1>9, <2>1, <3>2, <3>3, <3>4 DEF RecordIsTrue
  <2>4. CASE ~memory[s].blocked
    <3>1. ~went'[n].blocked
      BY <1>1, <1>9, <2>4 DEF Moves
    <3>2. r.decision = "allowed"
      BY <2>1, <2>4
    <3> QED
      BY <1>1, <1>2, <1>9, <2>1, <3>1, <3>2 DEF RecordIsTrue
  <2> QED
    BY <2>3, <2>4
<1>10. ShownWasScreened'
  BY <1>2 DEF Moves, BoundaryInv, ShownWasScreened
<1> QED
  BY <1>5, <1>6, <1>7, <1>8, <1>9, <1>10 DEF Moves, BoundaryInv

-----------------------------------------------------------------------------
(* Every step of the deployment.                                           *)

\* What Note, Goto and Remember leave behind.
LEMMA NoteEffect ==
    ASSUME Shapes, NEW n \in Turns, NEW b \in BOOLEAN, NEW shown, NEW cleared, NEW left,
           NEW ended, Note(n, b, shown, cleared, left, ended)
    PROVE  /\ went' = [m \in Turns |-> went'[m]]
           /\ \A m \in Turns : m # n => went'[m] = went[m]
           /\ went'[n].session = went[n].session
           /\ went'[n].blocked <=> went[n].blocked \/ b
           /\ went'[n].shown = went[n].shown \cup shown
           /\ went'[n].cleared = went[n].cleared \cup cleared
           /\ went'[n].left = left /\ went'[n].ended = ended
<1> DEFINE w == [session |-> went[n].session, blocked |-> went[n].blocked \/ b,
                 shown |-> went[n].shown \cup shown,
                 cleared |-> went[n].cleared \cup cleared, left |-> left, ended |-> ended]
<1>1. went' = [went EXCEPT ![n] = w]
  BY DEF Note
<1>2. /\ w.session = went[n].session /\ w.blocked = (went[n].blocked \/ b)
      /\ w.shown = went[n].shown \cup shown /\ w.cleared = went[n].cleared \cup cleared
      /\ w.left = left /\ w.ended = ended
  OBVIOUS
<1> HIDE DEF w
<1>3. went' = [m \in Turns |-> IF m = n THEN w ELSE went[m]]
  BY <1>1 DEF Shapes
<1> QED
  BY <1>2, <1>3

LEMMA GotoEffect ==
    ASSUME Shapes, NEW s \in Session, NEW step, NEW text, NEW calls,
           Goto(s, step, text, calls)
    PROVE  /\ turn' = [u \in Session |-> turn'[u]]
           /\ \A u \in Session : u # s => turn'[u] = turn[u]
           /\ turn'[s].step = step /\ turn'[s].nr = turn[s].nr
<1> DEFINE w == [step |-> step, nr |-> turn[s].nr, at |-> text, calls |-> calls]
<1>1. turn' = [turn EXCEPT ![s] = w]
  BY DEF Goto
<1>2. w.step = step /\ w.nr = turn[s].nr
  OBVIOUS
<1> HIDE DEF w
<1> QED
  BY <1>1, <1>2 DEF Shapes

LEMMA RememberEffect ==
    ASSUME Shapes, NEW s \in Session, NEW prompt, NEW response, NEW blocked,
           Remember(s, prompt, response, blocked)
    PROVE  /\ memory' = [u \in Session |-> memory'[u]]
           /\ \A u \in Session : u # s => memory'[u] = memory[u]
           /\ memory'[s].blocked = blocked
           /\ memory'[s].prompt = prompt /\ memory'[s].response = response
<1> DEFINE w == [heard |-> memory[s].heard, prompt |-> prompt,
                 response |-> response, blocked |-> blocked]
<1>1. memory' = [memory EXCEPT ![s] = w]
  BY DEF Remember
<1>2. w.blocked = blocked /\ w.prompt = prompt /\ w.response = response
  OBVIOUS
<1> HIDE DEF w
<1> QED
  BY <1>1, <1>2 DEF Shapes

\* A screen of either callback, of which `shown' is shown.
LEMMA ScreenStep ==
    ASSUME BoundaryInv, NEW s \in Session, Running(s),
           NEW guardrail, NEW text, NEW screen \in Screens(guardrail, text),
           NEW prompt, NEW response, NEW step, NEW shown, NEW cleared, NEW left,
           shown \subseteq cleared \cup {Reason},
           Remember(s, prompt, response, memory[s].blocked \/ ~screen.verdict.allowed),
           Goto(s, step, NoAnswer, turn[s].calls),
           Note(turn[s].nr, ~screen.verdict.allowed, shown, cleared, left, "running"),
           UNCHANGED <<trail, begun>>
    PROVE  BoundaryInv'
<1> DEFINE n == turn[s].nr
           b == ~screen.verdict.allowed
<1>1. Shapes /\ n \in Turns /\ b \in BOOLEAN /\ went[n].shown \subseteq went[n].cleared \cup {Reason}
  BY DEF BoundaryInv, TurnIsTheLast, ShownWasScreened
<1>2. /\ turn' = [u \in Session |-> turn'[u]]
      /\ \A u \in Session : u # s => turn'[u] = turn[u]
      /\ turn'[s].nr = n
  BY <1>1, GotoEffect
<1>3. /\ memory' = [u \in Session |-> memory'[u]]
      /\ \A u \in Session : u # s => memory'[u] = memory[u]
      /\ memory'[s].blocked = (memory[s].blocked \/ b)
  BY <1>1, RememberEffect
<1>a. Note(n, b, shown, cleared, left, "running")
  OBVIOUS
<1> HIDE DEF b
<1>4. /\ went' = [m \in Turns |-> went'[m]]
      /\ \A m \in Turns : m # n => went'[m] = went[m]
      /\ went'[n].session = went[n].session
      /\ went'[n].blocked <=> went[n].blocked \/ b
      /\ went'[n].shown = went[n].shown \cup shown
      /\ went'[n].cleared = went[n].cleared \cup cleared
      /\ went'[n].ended = "running"
  BY <1>1, <1>a, NoteEffect
<1>5. Shapes'
  BY <1>1, <1>2, <1>3, <1>4 DEF Shapes, Turns
<1>6. went'[n].shown \subseteq went'[n].cleared \cup {Reason}
  BY <1>1, <1>4
<1>7. Moves(s, b)
  BY <1>2, <1>3, <1>4, <1>6 DEF Moves
<1> QED
  BY <1>1, <1>5, <1>7, MovesKeepInv

LEMMA BeforeModelStep ==
    ASSUME BoundaryInv, NEW s \in Session, NEW guardrail, BeforeModel(s, guardrail)
    PROVE  BoundaryInv'
<1>1. PICK screen \in Screens(guardrail, Plain(memory[s].heard)) :
          LET passed == screen.verdict.allowed
          IN  /\ Remember(s, screen.verdict.safe, memory[s].response, memory[s].blocked \/ ~passed)
              /\ Goto(s, IF passed THEN "model" ELSE "after_agent", NoAnswer, turn[s].calls)
              /\ Note(turn[s].nr, ~passed, IF passed THEN {} ELSE {Reason}, {},
                      Left({screen.verdict.safe}, went[turn[s].nr].left.response), "running")
  BY DEF BeforeModel
<1>2. Running(s) /\ UNCHANGED <<trail, begun>>
  BY DEF BeforeModel, Running
<1>3. (IF screen.verdict.allowed THEN {} ELSE {Reason}) \subseteq {} \cup {Reason}
  OBVIOUS
<1> QED
  BY <1>1, <1>2, <1>3, ScreenStep

LEMMA AfterModelStep ==
    ASSUME BoundaryInv, NEW s \in Session, NEW guardrail, AfterModel(s, guardrail)
    PROVE  BoundaryInv'
<1>1. PICK screen \in Screens(guardrail, turn[s].at.text) :
          LET passed == screen.verdict.allowed
              safe   == screen.verdict.safe
              stands == passed /\ safe = turn[s].at.text
          IN  /\ Remember(s, memory[s].prompt, safe, memory[s].blocked \/ ~passed)
              /\ Goto(s, IF stands /\ turn[s].at.call THEN "tool" ELSE "after_agent",
                      NoAnswer, turn[s].calls)
              /\ Note(turn[s].nr, ~passed, {Reply(screen.verdict, turn[s].at.text)},
                      IF screen.clean THEN {safe} ELSE {},
                      Left(went[turn[s].nr].left.prompt, {safe}), "running")
  BY DEF AfterModel
<1>2. Running(s) /\ UNCHANGED <<trail, begun>>
  BY DEF AfterModel, Running
<1>3. {Reply(screen.verdict, turn[s].at.text)}
        \subseteq (IF screen.clean THEN {screen.verdict.safe} ELSE {}) \cup {Reason}
  BY AllowedIsClean DEF Reply
<1> DEFINE shown   == {Reply(screen.verdict, turn[s].at.text)}
           cleared == IF screen.clean THEN {screen.verdict.safe} ELSE {}
           left    == Left(went[turn[s].nr].left.prompt, {screen.verdict.safe})
           step    == IF screen.verdict.allowed /\ screen.verdict.safe = turn[s].at.text
                           /\ turn[s].at.call
                      THEN "tool" ELSE "after_agent"
<1>4. Note(turn[s].nr, ~screen.verdict.allowed, shown, cleared, left, "running")
  BY <1>1
<1>5. Goto(s, step, NoAnswer, turn[s].calls)
  BY <1>1
<1>6. Remember(s, memory[s].prompt, screen.verdict.safe,
               memory[s].blocked \/ ~screen.verdict.allowed)
  BY <1>1
<1> HIDE DEF shown, cleared, left, step
<1>7. shown \subseteq cleared \cup {Reason}
  BY <1>3 DEF shown, cleared
<1> QED
  BY <1>2, <1>4, <1>5, <1>6, <1>7, ScreenStep

\* A step between the callbacks: of the model, or of the tool.
LEMMA GotoStep ==
    ASSUME BoundaryInv, NEW s \in Session, Running(s), NEW step, NEW text, NEW calls,
           Goto(s, step, text, calls), UNCHANGED <<memory, trail, begun, went>>
    PROVE  BoundaryInv'
<1> DEFINE n == turn[s].nr
<1>1. /\ Shapes /\ n \in Turns /\ went[n].ended = "running"
      /\ went[n].shown \subseteq went[n].cleared \cup {Reason}
  BY DEF BoundaryInv, TurnIsTheLast, ShownWasScreened
<1>2. /\ turn' = [u \in Session |-> turn'[u]]
      /\ \A u \in Session : u # s => turn'[u] = turn[u]
      /\ turn'[s].nr = n
  BY <1>1, GotoEffect
<1>3. Shapes'
  BY <1>1, <1>2 DEF Shapes, Turns
<1>4. Moves(s, FALSE)
  BY <1>1, <1>2 DEF Moves
<1> QED
  BY <1>3, <1>4, MovesKeepInv

\* The end of a turn, with a record or without.
LEMMA EndStep ==
    ASSUME BoundaryInv, NEW s \in Session, Running(s), NEW left, NEW ended,
           turn' = [turn EXCEPT ![s] = NoTurn], Note(turn[s].nr, FALSE, {}, {}, left, ended),
           UNCHANGED <<memory, begun>>,
           \/ trail' = trail
           \/ trail' = trail \cup {Record(s)} /\ ended = "audited"
    PROVE  BoundaryInv'
<1> DEFINE n == turn[s].nr
<1>1. Shapes /\ n \in Turns /\ went[n].shown \subseteq went[n].cleared \cup {Reason}
  BY DEF BoundaryInv, TurnIsTheLast, ShownWasScreened
<1>2. /\ turn' = [u \in Session |-> turn'[u]]
      /\ \A u \in Session : u # s => turn'[u] = turn[u]
      /\ turn'[s].step = "none"
  BY <1>1 DEF Shapes, NoTurn
<1>3. /\ went' = [m \in Turns |-> went'[m]]
      /\ \A m \in Turns : m # n => went'[m] = went[m]
      /\ went'[n].session = went[n].session
      /\ went'[n].blocked <=> went[n].blocked
      /\ went'[n].shown = went[n].shown
      /\ went'[n].cleared = went[n].cleared
      /\ went'[n].ended = ended
  <2> DEFINE b == FALSE
             nothing == {}
  <2>1. b \in BOOLEAN /\ Note(n, b, nothing, nothing, left, ended)
    OBVIOUS
  <2> HIDE DEF b, nothing
  <2>2. /\ went' = [m \in Turns |-> went'[m]]
        /\ \A m \in Turns : m # n => went'[m] = went[m]
        /\ went'[n].session = went[n].session
        /\ went'[n].blocked <=> went[n].blocked \/ b
        /\ went'[n].shown = went[n].shown \cup nothing
        /\ went'[n].cleared = went[n].cleared \cup nothing
        /\ went'[n].ended = ended
    BY <1>1, <2>1, NoteEffect
  <2> QED
    BY <2>2 DEF b, nothing
<1>4. Shapes'
  BY <1>1, <1>2, <1>3 DEF Shapes, Turns
<1>5. Moves(s, FALSE)
  BY <1>1, <1>2, <1>3 DEF Moves
<1> QED
  BY <1>4, <1>5, MovesKeepInv

\* A new turn is the last of its session; its number is nobody else's.
LEMMA StartTurnStep ==
    ASSUME BoundaryInv, NEW s \in Session, StartTurn(s)
    PROVE  BoundaryInv'
<1> DEFINE new == begun + 1
           t == [step |-> "before_model", nr |-> new, at |-> NoAnswer, calls |-> 0]
           w == [session |-> s, blocked |-> FALSE, shown |-> {}, cleared |-> {},
                 left |-> Left({}, {}), ended |-> "running"]
<1>1. /\ Shapes /\ begun \in Nat /\ begun' = new /\ trail' = trail
      /\ turn' = [turn EXCEPT ![s] = t]
      /\ went' = [n \in 1..new |-> IF n \in 1..begun THEN went[n] ELSE w]
  BY DEF StartTurn, BoundaryInv, Shapes
<1>2. PICK m : memory' = [memory EXCEPT ![s] = m] /\ m.blocked = memory[s].blocked
  BY DEF StartTurn
<1>3. t.step = "before_model" /\ t.nr = new
  OBVIOUS
<1>4. w.session = s /\ w.blocked = FALSE /\ w.shown = {} /\ w.ended = "running"
  OBVIOUS
<1> HIDE DEF t, w
<1>5. /\ Turns' = 1..new /\ new \in Turns' /\ new \notin Turns /\ Turns \subseteq Turns'
      /\ new \in Nat
      /\ \A n \in Turns' : n = new \/ n \in Turns
      /\ \A n \in Turns : n \in Nat /\ n <= new /\ 1..n \subseteq Turns
  BY <1>1 DEF Turns
<1>6. went'[new] = w /\ \A n \in Turns : went'[n] = went[n]
  BY <1>1, <1>5 DEF Turns
<1>7. \A u \in Session : u # s => turn'[u] = turn[u]
  BY <1>1 DEF Shapes
<1>8. turn'[s] = t /\ \A u \in Session : memory'[u].blocked = memory[u].blocked
  BY <1>1, <1>2 DEF Shapes
<1>9. Shapes'
  <2>1. turn' = [u \in Session |-> turn'[u]] /\ memory' = [u \in Session |-> memory'[u]]
    BY <1>1, <1>2 DEF Shapes
  <2>2. went' = [n \in Turns' |-> went'[n]]
    BY <1>1, <1>5
  <2>3. begun' \in Nat
    BY <1>1
  <2> QED
    BY <2>1, <2>2, <2>3 DEF Shapes
<1>10. ASSUME NEW u \in Session
       PROVE  TurnIsTheLast(u)' /\ MarkIsEarned(u)'
  <2>1. MarkIsEarned(u)'
    BY <1>5, <1>6, <1>8 DEF BoundaryInv, MarkIsEarned
  <2>2. ASSUME u = s PROVE TurnIsTheLast(u)'
    <3>1. turn'[u].nr = new /\ went'[new].session = u /\ went'[new].ended = "running"
      BY <1>3, <1>4, <1>6, <1>8, <2>2
    <3>2. ~went'[new].blocked
      BY <1>4, <1>6
    <3>3. \A n \in Turns' : n <= new
      BY <1>5
    <3>4. \A n \in Turns' : went'[n].session = u => n <= turn'[u].nr
      BY <3>1, <3>3
    <3>5. turn'[u].nr \in Turns' /\ ~went'[turn'[u].nr].blocked
      BY <1>5, <3>1, <3>2
    <3>6. went'[turn'[u].nr].session = u /\ went'[turn'[u].nr].ended = "running"
      BY <3>1
    <3> QED
      BY <3>4, <3>5, <3>6 DEF TurnIsTheLast
  <2>3. ASSUME u # s PROVE TurnIsTheLast(u)'
    <3>1. turn'[u] = turn[u] /\ (memory[u].blocked => memory'[u].blocked)
      BY <1>7, <1>8, <2>3
    <3>2. went'[new].session # u
      BY <1>4, <1>6, <2>3
    <3>3. TurnIsTheLast(u)
      BY DEF BoundaryInv
    <3> SUFFICES ASSUME turn[u].step # "none" PROVE TurnIsTheLast(u)'
      BY <3>1 DEF TurnIsTheLast, Running
    <3>4. /\ turn[u].nr \in Turns
          /\ went[turn[u].nr].session = u /\ went[turn[u].nr].ended = "running"
          /\ went[turn[u].nr].blocked => memory[u].blocked
          /\ \A n \in Turns : went[n].session = u => n <= turn[u].nr
      BY <3>3 DEF TurnIsTheLast, Running
    <3>5. \A n \in Turns' : went'[n].session = u => n <= turn[u].nr
      BY <1>5, <1>6, <3>2, <3>4
    <3>6. turn[u].nr \in Turns' /\ went'[turn[u].nr] = went[turn[u].nr]
      BY <1>5, <1>6, <3>4
    <3> QED
      BY <3>1, <3>4, <3>5, <3>6 DEF TurnIsTheLast
  <2> QED
    BY <2>1, <2>2, <2>3
<1>11. ASSUME NEW r \in trail
       PROVE  RecordIsTrue(r)'
  <2>1. RecordIsTrue(r)
    BY DEF BoundaryInv
  <2>2. r.nr \in Turns /\ 1..r.nr \subseteq Turns
    BY <1>5, <2>1 DEF RecordIsTrue
  <2> QED
    BY <1>5, <1>6, <2>1, <2>2 DEF RecordIsTrue
<1>12. ShownWasScreened'
  BY <1>4, <1>5, <1>6 DEF BoundaryInv, ShownWasScreened
<1> QED
  BY <1>1, <1>9, <1>10, <1>11, <1>12 DEF BoundaryInv

\* The process goes, and with it the turns: none runs, and what they did stays.
LEMMA StopStep ==
    ASSUME BoundaryInv, Stop
    PROVE  BoundaryInv'
<1>1. /\ Shapes /\ UNCHANGED <<memory, trail, begun>> /\ Turns' = Turns
      /\ turn' = [s \in Session |-> NoTurn]
  BY DEF Stop, BoundaryInv, Turns
<1>2. ASSUME NEW n \in Turns
      PROVE  /\ went'[n].session = went[n].session /\ went'[n].blocked = went[n].blocked
             /\ went'[n].shown = went[n].shown /\ went'[n].cleared = went[n].cleared
             /\ went[n].ended = "audited" => went'[n].ended = "audited"
  <2> DEFINE w == [session |-> went[n].session, blocked |-> went[n].blocked,
                   shown |-> went[n].shown, cleared |-> went[n].cleared,
                   left |-> went[n].left, ended |-> "failed"]
  <2>1. went'[n] = IF went[n].ended = "running" THEN w ELSE went[n]
    BY DEF Stop
  <2>2. /\ w.session = went[n].session /\ w.blocked = went[n].blocked
        /\ w.shown = went[n].shown /\ w.cleared = went[n].cleared
    OBVIOUS
  <2> HIDE DEF w
  <2> QED
    BY <2>1, <2>2
<1>3. Shapes'
  BY <1>1 DEF Stop, Shapes, Turns
<1>4. ASSUME NEW s \in Session
      PROVE  TurnIsTheLast(s)' /\ MarkIsEarned(s)'
  <2>1. TurnIsTheLast(s)'
    BY <1>1 DEF TurnIsTheLast, Running, NoTurn
  <2>2. MarkIsEarned(s)'
    BY <1>1, <1>2 DEF BoundaryInv, MarkIsEarned
  <2> QED
    BY <2>1, <2>2
<1>5. ASSUME NEW r \in trail
      PROVE  RecordIsTrue(r)'
  <2>1. RecordIsTrue(r)
    BY DEF BoundaryInv
  <2>2. 1..r.nr \subseteq Turns
    BY <1>1, <2>1 DEF RecordIsTrue, Shapes, Turns
  <2> QED
    BY <1>1, <1>2, <2>1, <2>2 DEF RecordIsTrue
<1>6. ShownWasScreened'
  BY <1>1, <1>2 DEF BoundaryInv, ShownWasScreened
<1> QED
  BY <1>1, <1>3, <1>4, <1>5, <1>6 DEF BoundaryInv

LEMMA BoundaryInvStep == BoundaryInv /\ [Next]_vars => BoundaryInv'
<1> SUFFICES ASSUME BoundaryInv, [Next]_vars PROVE BoundaryInv'
  OBVIOUS
<1>1. CASE UNCHANGED boundary
  BY <1>1 DEF boundary, BoundaryInv, Shapes, Turns, TurnIsTheLast, Running, MarkIsEarned,
              RecordIsTrue, ShownWasScreened
<1>2. CASE Stop
  BY <1>2, StopStep
<1>3. ASSUME NEW s \in Session, Talk(s)
      PROVE  BoundaryInv'
  BY <1>3, StartTurnStep DEF Talk
<1>4. ASSUME NEW s \in Session, TurnStep(s)
      PROVE  BoundaryInv'
  <2>1. CASE BeforeModel(s, Guardrail)
    BY <2>1, BeforeModelStep
  <2>2. CASE Model(s)
    <3>1. PICK ids, call :
             Goto(s, "after_model", [text |-> Plain(ids), call |-> call], turn[s].calls + 1)
      BY <2>2 DEF Model
    <3>2. Running(s) /\ UNCHANGED <<memory, trail, begun, went>>
      BY <2>2 DEF Model, Running
    <3> QED
      BY <3>1, <3>2, GotoStep
  <2>3. CASE AfterModel(s, Guardrail)
    BY <2>3, AfterModelStep
  <2>4. CASE ToolCall(s)
    <3>1. Goto(s, "before_model", NoAnswer, turn[s].calls)
      BY <2>4 DEF ToolCall, Tool
    <3>2. Running(s) /\ UNCHANGED <<memory, trail, begun, went>>
      BY <2>4 DEF ToolCall, Tool, Running
    <3> QED
      BY <3>1, <3>2, GotoStep
  <2>5. CASE AfterAgent(s)
    BY <2>5, EndStep DEF AfterAgent, Running
  <2>6. CASE Raise(s)
    BY <2>6, EndStep DEF Raise, FailTurn, Running
  <2> QED
    BY <1>4, <2>1, <2>2, <2>3, <2>4, <2>5, <2>6 DEF TurnStep
<1> QED
  BY <1>1, <1>2, <1>3, <1>4 DEF Next, vars, EditSettings, Boot

LEMMA BoundaryInvariant == Spec => []BoundaryInv
BY BoundaryInvInit, BoundaryInvStep, PTL DEF Spec

\* Nothing unscreened is shown, by any guardrail there is, in any turn.
THEOREM ShownWasScreenedTheorem == Spec => []ShownWasScreened
<1>1. BoundaryInv => ShownWasScreened
  BY DEF BoundaryInv
<1> QED
  BY <1>1, BoundaryInvariant, PTL

\* No blocked turn is recorded as allowed, in any interleaving of turns and sessions,
\* across restarts; a record that says blocked is of a session that earned it.
THEOREM BlockedIsRecordedTheorem == Spec => []BlockedIsRecorded
<1>1. BoundaryInv => BlockedIsRecorded
  BY DEF BoundaryInv, RecordIsTrue, BlockedIsRecorded
<1> QED
  BY <1>1, BoundaryInvariant, PTL

-----------------------------------------------------------------------------
(* What the records hold.  On the way to its record a turn keeps, in the   *)
(* session's state, what its screens left; what it has none of is of an    *)
(* earlier turn of the session.                                            *)

KeepsLeft(s) ==
    /\ Running(s) =>
          LET story == went[turn[s].nr]
          IN  /\ turn[s].step # "before_model" => story.left.prompt = {memory[s].prompt}
              /\ \/ story.left.response = {memory[s].response}
                 \/ /\ story.left.response = {}
                    /\ turn[s].step = "after_agent" => story.blocked
    /\ \/ memory[s].response = NoText
       \/ \E m \in Turns : went[m].session = s /\ went[m].left.response = {memory[s].response}

RecordIsScreened(r) ==
    /\ r.nr \in Turns /\ went[r.nr].left.prompt = {r.prompt}
    /\ \/ went[r.nr].left.response = {r.response}
       \/ /\ went[r.nr].left.response = {} /\ went[r.nr].blocked
          /\ \/ r.response = NoText
             \/ \E m \in 1..(r.nr - 1) : /\ went[m].session = went[r.nr].session
                                         /\ r.response \in went[m].left.response

LeftInv ==
    /\ \A s \in Session : KeepsLeft(s)
    /\ \A r \in trail : RecordIsScreened(r)

LEMMA LeftInvInit == Init => LeftInv
<1> SUFFICES ASSUME Init PROVE LeftInv
  OBVIOUS
<1>1. trail = {}
  BY DEF Init, BoundaryInit
<1>2. \A s \in Session : turn[s].step = "none"
  BY DEF Init, BoundaryInit, NoTurn
<1>3. \A s \in Session : memory[s].response = NoText
  BY DEF Init, BoundaryInit
<1> QED
  BY <1>1, <1>2, <1>3 DEF LeftInv, KeepsLeft, Running

\* A step of s's turn is nothing to the other sessions and to the records on file.
LEMMA LeftElsewhere ==
    ASSUME BoundaryInv, LeftInv, begun' = begun, NEW s \in Session, Running(s),
           \A u \in Session : u # s => turn'[u] = turn[u] /\ memory'[u] = memory[u],
           \A m \in Turns : m # turn[s].nr => went'[m] = went[m],
           went'[turn[s].nr].session = went[turn[s].nr].session
    PROVE  /\ \A u \in Session : u # s => KeepsLeft(u)'
           /\ \A r \in trail : RecordIsScreened(r)'
<1> DEFINE n == turn[s].nr
<1>1. /\ n \in Turns /\ went[n].session = s /\ went[n].ended = "running"
      /\ \A m \in Turns : went[m].session = s => m <= n
  BY DEF BoundaryInv, TurnIsTheLast
<1>2. Turns' = Turns /\ Turns \subseteq Nat
  BY DEF Turns
<1>3. ASSUME NEW u \in Session, u # s
      PROVE  KeepsLeft(u)'
  <2>1. turn'[u] = turn[u] /\ memory'[u] = memory[u] /\ KeepsLeft(u)
    BY <1>3 DEF LeftInv
  <2>2. \A m \in Turns : went[m].session = u => went'[m] = went[m]
    BY <1>1, <1>3
  <2>3. Running(u) => turn[u].nr \in Turns /\ went[turn[u].nr].session = u
    BY DEF BoundaryInv, TurnIsTheLast
  <2>4. Running(u) => went'[turn[u].nr] = went[turn[u].nr]
    BY <2>2, <2>3
  <2> QED
    BY <1>2, <2>1, <2>2, <2>4 DEF KeepsLeft, Running
<1>4. ASSUME NEW r \in trail
      PROVE  RecordIsScreened(r)'
  <2>1. RecordIsScreened(r)
    BY DEF LeftInv
  <2>2. r.nr \in Turns /\ went[r.nr].ended = "audited"
    BY DEF BoundaryInv, RecordIsTrue
  <2>3. went'[r.nr] = went[r.nr]
    BY <1>1, <2>2
  <2>4. ASSUME NEW m \in 1..(r.nr - 1), went[m].session = went[r.nr].session
        PROVE  went'[m] = went[m]
    <3>1. m \in Turns /\ m < r.nr
      BY <1>2, <2>2 DEF BoundaryInv, Shapes, Turns
    <3>2. CASE m = n
      <4>1. went[r.nr].session = s
        BY <1>1, <2>4, <3>2
      <4>2. r.nr <= n
        BY <1>1, <2>2, <4>1
      <4>3. r.nr \in Nat /\ m \in Nat
        BY <1>2, <2>2, <3>1
      <4>4. FALSE
        BY <3>1, <3>2, <4>2, <4>3
      <4> QED
        BY <4>4
    <3> QED
      BY <3>1, <3>2
  <2> QED
    BY <1>2, <2>1, <2>3, <2>4 DEF RecordIsScreened
<1> QED
  BY <1>3, <1>4

\* A screen of either callback: memory and history are told the same.
LEMMA ScreenKeepsLeft ==
    ASSUME BoundaryInv, LeftInv, NEW s \in Session, Running(s),
           NEW prompt, NEW response, NEW blocked, NEW b \in BOOLEAN, NEW step, NEW answer,
           NEW calls, NEW shown, NEW cleared, NEW left, NEW ended,
           Remember(s, prompt, response, blocked), Goto(s, step, answer, calls),
           Note(turn[s].nr, b, shown, cleared, left, ended),
           UNCHANGED <<trail, begun>>,
           left.prompt = {prompt},
           \/ left.response = {response}
           \/ /\ left.response = went[turn[s].nr].left.response
              /\ response = memory[s].response
              /\ step = "after_agent" => b
    PROVE  LeftInv'
<1> DEFINE n == turn[s].nr
<1>1. Shapes /\ n \in Turns /\ went[n].session = s
  BY DEF BoundaryInv, TurnIsTheLast
<1>2. /\ \A u \in Session : u # s => turn'[u] = turn[u]
      /\ turn'[s].step = step /\ turn'[s].nr = n
  BY <1>1, GotoEffect
<1>3. /\ \A u \in Session : u # s => memory'[u] = memory[u]
      /\ memory'[s].prompt = prompt /\ memory'[s].response = response
  BY <1>1, RememberEffect
<1>4. /\ \A m \in Turns : m # n => went'[m] = went[m]
      /\ went'[n].session = went[n].session /\ went'[n].left = left
      /\ went'[n].blocked <=> went[n].blocked \/ b
  BY <1>1, NoteEffect
<1>5. Turns' = Turns
  BY DEF Turns
<1>6. KeepsLeft(s)
  BY DEF LeftInv
<1>7. KeepsLeft(s)'
  <2>1. /\ went'[turn'[s].nr].left.prompt = {memory'[s].prompt}
    BY <1>2, <1>3, <1>4
  <2>2. CASE left.response = {response}
    <3>1. went'[n].left.response = {memory'[s].response} /\ went'[n].session = s
      BY <1>1, <1>3, <1>4, <2>2
    <3> QED
      BY <1>1, <1>2, <1>5, <2>1, <3>1 DEF KeepsLeft
  <2>3. CASE /\ left.response = went[n].left.response /\ response = memory[s].response
             /\ step = "after_agent" => b
    <3>1. memory'[s].response = memory[s].response
          /\ \A m \in Turns : /\ went'[m].session = went[m].session
                              /\ went'[m].left.response = went[m].left.response
      BY <1>3, <1>4, <2>3
    <3>2. \/ went[n].left.response = {memory[s].response}
          \/ went[n].left.response = {}
      BY <1>6 DEF KeepsLeft
    <3>3. turn'[s].step = "after_agent" => went'[n].blocked
      BY <1>2, <1>4, <2>3
    <3>4. \/ memory'[s].response = NoText
          \/ \E m \in Turns' : /\ went'[m].session = s
                               /\ went'[m].left.response = {memory'[s].response}
      BY <1>5, <1>6, <3>1 DEF KeepsLeft
    <3>5. \/ went'[n].left.response = {memory'[s].response}
          \/ went'[n].left.response = {}
      BY <1>1, <3>1, <3>2
    <3> QED
      BY <1>2, <2>1, <3>3, <3>4, <3>5 DEF KeepsLeft
  <2> QED
    BY <2>2, <2>3
<1>8. /\ \A u \in Session : u # s => KeepsLeft(u)'
      /\ \A r \in trail : RecordIsScreened(r)'
  BY <1>2, <1>3, <1>4, LeftElsewhere
<1> QED
  BY <1>7, <1>8 DEF LeftInv

LEMMA BeforeModelKeepsLeft ==
    ASSUME BoundaryInv, LeftInv, NEW s \in Session, NEW guardrail, BeforeModel(s, guardrail)
    PROVE  LeftInv'
<1>1. PICK screen \in Screens(guardrail, Plain(memory[s].heard)) :
          LET passed == screen.verdict.allowed
          IN  /\ Remember(s, screen.verdict.safe, memory[s].response, memory[s].blocked \/ ~passed)
              /\ Goto(s, IF passed THEN "model" ELSE "after_agent", NoAnswer, turn[s].calls)
              /\ Note(turn[s].nr, ~passed, IF passed THEN {} ELSE {Reason}, {},
                      Left({screen.verdict.safe}, went[turn[s].nr].left.response), "running")
  BY DEF BeforeModel
<1>2. Running(s) /\ UNCHANGED <<trail, begun>>
  BY DEF BeforeModel, Running
<1> DEFINE b == ~screen.verdict.allowed
           blocked == memory[s].blocked \/ b
           step == IF screen.verdict.allowed THEN "model" ELSE "after_agent"
           shown == IF screen.verdict.allowed THEN {} ELSE {Reason}
           cleared == {}
           left == Left({screen.verdict.safe}, went[turn[s].nr].left.response)
           ended == "running"
<1>3. /\ Remember(s, screen.verdict.safe, memory[s].response, blocked)
      /\ Goto(s, step, NoAnswer, turn[s].calls)
      /\ Note(turn[s].nr, b, shown, cleared, left, ended)
  BY <1>1
<1>4. /\ b \in BOOLEAN /\ (step = "after_agent" => b)
      /\ left.prompt = {screen.verdict.safe}
      /\ left.response = went[turn[s].nr].left.response
  BY DEF Left
<1> HIDE DEF b, blocked, step, shown, cleared, left, ended
<1> QED
  BY <1>2, <1>3, <1>4, ScreenKeepsLeft

LEMMA AfterModelKeepsLeft ==
    ASSUME BoundaryInv, LeftInv, NEW s \in Session, NEW guardrail, AfterModel(s, guardrail)
    PROVE  LeftInv'
<1>1. PICK screen \in Screens(guardrail, turn[s].at.text) :
          LET passed == screen.verdict.allowed
              safe   == screen.verdict.safe
              stands == passed /\ safe = turn[s].at.text
          IN  /\ Remember(s, memory[s].prompt, safe, memory[s].blocked \/ ~passed)
              /\ Goto(s, IF stands /\ turn[s].at.call THEN "tool" ELSE "after_agent",
                      NoAnswer, turn[s].calls)
              /\ Note(turn[s].nr, ~passed, {Reply(screen.verdict, turn[s].at.text)},
                      IF screen.clean THEN {safe} ELSE {},
                      Left(went[turn[s].nr].left.prompt, {safe}), "running")
  BY DEF AfterModel
<1>2. Running(s) /\ turn[s].step # "before_model" /\ UNCHANGED <<trail, begun>>
  BY DEF AfterModel, Running
<1> DEFINE b == ~screen.verdict.allowed
           blocked == memory[s].blocked \/ b
           step == IF screen.verdict.allowed /\ screen.verdict.safe = turn[s].at.text
                        /\ turn[s].at.call
                   THEN "tool" ELSE "after_agent"
           shown == {Reply(screen.verdict, turn[s].at.text)}
           cleared == IF screen.clean THEN {screen.verdict.safe} ELSE {}
           left == Left(went[turn[s].nr].left.prompt, {screen.verdict.safe})
           ended == "running"
<1>3. /\ Remember(s, memory[s].prompt, screen.verdict.safe, blocked)
      /\ Goto(s, step, NoAnswer, turn[s].calls)
      /\ Note(turn[s].nr, b, shown, cleared, left, ended)
  BY <1>1
<1>4. went[turn[s].nr].left.prompt = {memory[s].prompt}
  BY <1>2 DEF LeftInv, KeepsLeft
<1>5. /\ b \in BOOLEAN
      /\ left.prompt = {memory[s].prompt} /\ left.response = {screen.verdict.safe}
  BY <1>4 DEF Left
<1> HIDE DEF b, blocked, step, shown, cleared, left, ended
<1> QED
  BY <1>2, <1>3, <1>5, ScreenKeepsLeft

\* A step between the callbacks, to one before the agent's end.
LEMMA GotoKeepsLeft ==
    ASSUME BoundaryInv, LeftInv, NEW s \in Session, Running(s), NEW step, NEW answer, NEW calls,
           Goto(s, step, answer, calls), UNCHANGED <<memory, trail, begun, went>>,
           turn[s].step # "before_model", step # "after_agent"
    PROVE  LeftInv'
<1>1. Shapes
  BY DEF BoundaryInv
<1>2. /\ \A u \in Session : u # s => turn'[u] = turn[u]
      /\ turn'[s].step = step /\ turn'[s].nr = turn[s].nr
  BY <1>1, GotoEffect
<1>3. Turns' = Turns
  BY DEF Turns
<1>4. KeepsLeft(s)'
  BY <1>2, <1>3 DEF LeftInv, KeepsLeft, Running
<1>5. /\ \A u \in Session : u # s => KeepsLeft(u)'
      /\ \A r \in trail : RecordIsScreened(r)'
  BY <1>2, LeftElsewhere
<1> QED
  BY <1>4, <1>5 DEF LeftInv

\* The end of a turn: its record, if it has one, is written from what the turn left.
LEMMA EndKeepsLeft ==
    ASSUME BoundaryInv, LeftInv, NEW s \in Session, Running(s), NEW ended,
           turn' = [turn EXCEPT ![s] = NoTurn],
           Note(turn[s].nr, FALSE, {}, {}, went[turn[s].nr].left, ended),
           UNCHANGED <<memory, begun>>,
           \/ trail' = trail
           \/ trail' = trail \cup {Record(s)} /\ turn[s].step = "after_agent"
    PROVE  LeftInv'
<1> DEFINE n == turn[s].nr
<1>1. /\ Shapes /\ n \in Turns /\ went[n].session = s
      /\ \A m \in Turns : went[m].session = s => m <= n
  BY DEF BoundaryInv, TurnIsTheLast
<1>2. /\ \A u \in Session : u # s => turn'[u] = turn[u]
      /\ turn'[s].step = "none"
  BY <1>1 DEF Shapes, NoTurn
<1>3. /\ \A m \in Turns : m # n => went'[m] = went[m]
      /\ went'[n].session = went[n].session
      /\ went'[n].left = went[n].left
      /\ went'[n].blocked <=> went[n].blocked
  <2> DEFINE b == FALSE
             shown == {}
             cleared == {}
             left == went[n].left
  <2>1. b \in BOOLEAN /\ Note(n, b, shown, cleared, left, ended)
    OBVIOUS
  <2> HIDE DEF b, shown, cleared, left
  <2>2. /\ \A m \in Turns : m # n => went'[m] = went[m]
        /\ went'[n].session = went[n].session
        /\ went'[n].left = left
        /\ went'[n].blocked <=> went[n].blocked \/ b
    BY <1>1, <2>1, NoteEffect
  <2> QED
    BY <2>2 DEF b, left
<1>4. Turns' = Turns /\ Turns \subseteq Nat
  BY DEF Turns
<1>5. KeepsLeft(s)
  BY DEF LeftInv
<1>6. KeepsLeft(s)'
  <2>1. \A m \in Turns : went'[m].session = went[m].session /\ went'[m].left = went[m].left
    BY <1>3
  <2> QED
    BY <1>2, <1>4, <1>5, <2>1 DEF KeepsLeft, Running
<1>7. ASSUME NEW r, r = Record(s), turn[s].step = "after_agent"
      PROVE  RecordIsScreened(r)'
  <2>1. r.nr = n /\ r.prompt = memory[s].prompt /\ r.response = memory[s].response
    BY <1>7 DEF Record
  <2>2. went'[n].left.prompt = {r.prompt}
    BY <1>3, <1>5, <1>7, <2>1 DEF KeepsLeft
  <2>3. CASE went[n].left.response = {memory[s].response}
    BY <1>1, <1>3, <1>4, <2>1, <2>2, <2>3 DEF RecordIsScreened
  <2>4. CASE went[n].left.response = {} /\ went[n].blocked
    <3>1. ASSUME r.response # NoText
          PROVE  \E m \in 1..(n - 1) : /\ went'[m].session = went'[n].session
                                       /\ r.response \in went'[m].left.response
      <4>1. PICK m \in Turns : went[m].session = s /\ went[m].left.response = {memory[s].response}
        BY <1>5, <2>1, <3>1 DEF KeepsLeft
      <4>2. m <= n /\ m # n
        BY <1>1, <2>4, <4>1
      <4>3. m \in 1..(n - 1)
        BY <1>1, <1>4, <4>2 DEF BoundaryInv, Shapes, Turns
      <4>4. went'[m] = went[m] /\ went'[n].session = s
        BY <1>1, <1>3, <4>2
      <4> QED
        BY <2>1, <4>1, <4>3, <4>4
    <3>2. went'[n].left.response = {} /\ went'[n].blocked
      BY <1>3, <2>4
    <3> QED
      BY <1>1, <1>4, <2>1, <2>2, <3>1, <3>2 DEF RecordIsScreened
  <2> QED
    BY <1>5, <1>7, <2>3, <2>4 DEF KeepsLeft, Running
<1>8. /\ \A u \in Session : u # s => KeepsLeft(u)'
      /\ \A r \in trail : RecordIsScreened(r)'
  BY <1>2, <1>3, LeftElsewhere
<1>9. \A r \in trail' : RecordIsScreened(r)'
  BY <1>7, <1>8
<1> QED
  BY <1>6, <1>8, <1>9 DEF LeftInv

\* A new turn has left nothing yet.
LEMMA StartKeepsLeft ==
    ASSUME BoundaryInv, LeftInv, NEW s \in Session, StartTurn(s)
    PROVE  LeftInv'
<1> DEFINE new == begun + 1
           t == [step |-> "before_model", nr |-> new, at |-> NoAnswer, calls |-> 0]
           w == [session |-> s, blocked |-> FALSE, shown |-> {}, cleared |-> {},
                 left |-> Left({}, {}), ended |-> "running"]
<1>1. /\ Shapes /\ begun \in Nat /\ begun' = new /\ trail' = trail
      /\ turn' = [turn EXCEPT ![s] = t]
      /\ went' = [n \in 1..new |-> IF n \in 1..begun THEN went[n] ELSE w]
  BY DEF StartTurn, BoundaryInv, Shapes
<1>2. PICK kept : memory' = [memory EXCEPT ![s] = kept] /\ kept.response = memory[s].response
  BY DEF StartTurn
<1>3. t.step = "before_model" /\ t.nr = new /\ w.left.response = {}
  BY DEF Left
<1> HIDE DEF t, w
<1>4. /\ new \in Turns' /\ Turns \subseteq Turns'
      /\ \A n \in Turns : n \in Nat /\ 1..n \subseteq Turns
  BY <1>1 DEF Turns
<1>5. went'[new] = w /\ \A n \in Turns : went'[n] = went[n]
  BY <1>1 DEF Turns
<1>6. turn'[s] = t /\ \A u \in Session : u # s => turn'[u] = turn[u] /\ memory'[u] = memory[u]
  BY <1>1, <1>2 DEF Shapes
<1>7. \A u \in Session : memory'[u].response = memory[u].response
  BY <1>1, <1>2 DEF Shapes
<1>8. ASSUME NEW u \in Session PROVE KeepsLeft(u)'
  <2>1. KeepsLeft(u)
    BY DEF LeftInv
  <2>2. \/ memory'[u].response = NoText
        \/ \E m \in Turns' : /\ went'[m].session = u
                             /\ went'[m].left.response = {memory'[u].response}
    BY <1>4, <1>5, <1>7, <2>1 DEF KeepsLeft
  <2>3. CASE u = s
    <3>1. turn'[u].step = "before_model" /\ went'[turn'[u].nr].left.response = {}
      BY <1>3, <1>5, <1>6, <2>3
    <3> QED
      BY <2>2, <3>1 DEF KeepsLeft
  <2>4. CASE u # s
    <3>1. turn'[u] = turn[u] /\ memory'[u] = memory[u]
      BY <1>6, <2>4
    <3>2. Running(u) => went'[turn[u].nr] = went[turn[u].nr]
      BY <1>5 DEF BoundaryInv, TurnIsTheLast
    <3> QED
      BY <2>1, <2>2, <3>1, <3>2 DEF KeepsLeft, Running
  <2> QED
    BY <2>3, <2>4
<1>9. ASSUME NEW r \in trail PROVE RecordIsScreened(r)'
  <2>1. RecordIsScreened(r)
    BY DEF LeftInv
  <2>2. r.nr \in Turns /\ \A m \in 1..(r.nr - 1) : m \in Turns
    BY <1>1, <2>1 DEF RecordIsScreened, Turns
  <2> QED
    BY <1>4, <1>5, <2>1, <2>2 DEF RecordIsScreened
<1> QED
  BY <1>1, <1>8, <1>9 DEF LeftInv

\* The process goes: the sessions and what their turns left stay.
LEMMA StopKeepsLeft ==
    ASSUME BoundaryInv, LeftInv, Stop
    PROVE  LeftInv'
<1>1. /\ UNCHANGED <<memory, trail, begun>> /\ Turns' = Turns
      /\ turn' = [s \in Session |-> NoTurn]
  BY DEF Stop, Turns
<1>2. ASSUME NEW n \in Turns
      PROVE  /\ went'[n].session = went[n].session /\ went'[n].left = went[n].left
             /\ went'[n].blocked = went[n].blocked
  <2> DEFINE w == [session |-> went[n].session, blocked |-> went[n].blocked,
                   shown |-> went[n].shown, cleared |-> went[n].cleared,
                   left |-> went[n].left, ended |-> "failed"]
  <2>1. went'[n] = IF went[n].ended = "running" THEN w ELSE went[n]
    BY DEF Stop
  <2>2. /\ w.session = went[n].session /\ w.blocked = went[n].blocked
        /\ w.left = went[n].left
    OBVIOUS
  <2> HIDE DEF w
  <2> QED
    BY <2>1, <2>2
<1>3. ASSUME NEW u \in Session PROVE KeepsLeft(u)'
  <2>1. ~Running(u)'
    BY <1>1 DEF Running, NoTurn
  <2> QED
    BY <1>1, <1>2, <2>1 DEF LeftInv, KeepsLeft
<1>4. ASSUME NEW r \in trail PROVE RecordIsScreened(r)'
  <2>1. RecordIsScreened(r)
    BY DEF LeftInv
  <2>2. r.nr \in Turns /\ \A m \in 1..(r.nr - 1) : m \in Turns
    BY <2>1 DEF BoundaryInv, Shapes, RecordIsScreened, Turns
  <2> QED
    BY <1>1, <1>2, <2>1, <2>2 DEF RecordIsScreened
<1> QED
  BY <1>1, <1>3, <1>4 DEF LeftInv

LEMMA LeftInvStep == BoundaryInv /\ LeftInv /\ [Next]_vars => LeftInv'
<1> SUFFICES ASSUME BoundaryInv, LeftInv, [Next]_vars PROVE LeftInv'
  OBVIOUS
<1>1. CASE UNCHANGED boundary
  BY <1>1 DEF boundary, LeftInv, Turns, KeepsLeft, Running, RecordIsScreened
<1>2. CASE Stop
  BY <1>2, StopKeepsLeft
<1>3. ASSUME NEW s \in Session, Talk(s)
      PROVE  LeftInv'
  BY <1>3, StartKeepsLeft DEF Talk
<1>4. ASSUME NEW s \in Session, TurnStep(s)
      PROVE  LeftInv'
  <2>1. CASE BeforeModel(s, Guardrail)
    BY <2>1, BeforeModelKeepsLeft
  <2>2. CASE Model(s)
    <3> DEFINE step == "after_model"
    <3>1. PICK ids, call :
             Goto(s, step, [text |-> Plain(ids), call |-> call], turn[s].calls + 1)
      BY <2>2 DEF Model
    <3>2. /\ Running(s) /\ turn[s].step # "before_model" /\ step # "after_agent"
          /\ UNCHANGED <<memory, trail, begun, went>>
      BY <2>2 DEF Model, Running
    <3> HIDE DEF step
    <3> QED
      BY <3>1, <3>2, GotoKeepsLeft
  <2>3. CASE AfterModel(s, Guardrail)
    BY <2>3, AfterModelKeepsLeft
  <2>4. CASE ToolCall(s)
    <3> DEFINE step == "before_model"
    <3>1. Goto(s, step, NoAnswer, turn[s].calls)
      BY <2>4 DEF ToolCall, Tool
    <3>2. /\ Running(s) /\ turn[s].step # "before_model" /\ step # "after_agent"
          /\ UNCHANGED <<memory, trail, begun, went>>
      BY <2>4 DEF ToolCall, Tool, Running
    <3> HIDE DEF step
    <3> QED
      BY <3>1, <3>2, GotoKeepsLeft
  <2>5. CASE AfterAgent(s)
    BY <2>5, EndKeepsLeft DEF AfterAgent, Running
  <2>6. CASE Raise(s)
    BY <2>6, EndKeepsLeft DEF Raise, FailTurn, Running
  <2> QED
    BY <1>4, <2>1, <2>2, <2>3, <2>4, <2>5, <2>6 DEF TurnStep
<1> QED
  BY <1>1, <1>2, <1>3, <1>4 DEF Next, vars, EditSettings, Boot

\* A record holds what the guardrail left of its own turn's texts, or for want of one an
\* earlier turn's response, whatever the sessions, turns and restarts in between.
THEOREM RecordsHoldScreenedTextTheorem == Spec => []RecordsHoldScreenedText
<1>1. ASSUME NEW r, RecordIsScreened(r)
      PROVE  LET left == went[r.nr].left
             IN  /\ left.prompt = {r.prompt}
                 /\ \/ left.response = {r.response}
                    \/ /\ left.response = {} /\ went[r.nr].blocked
                       /\ r.response \in LeftEarlier(r.nr) \cup {NoText}
  BY <1>1 DEF RecordIsScreened, LeftEarlier
<1>2. LeftInv => RecordsHoldScreenedText
  BY <1>1 DEF LeftInv, RecordsHoldScreenedText
<1> QED
  BY <1>2, BoundaryInvariant, LeftInvInit, LeftInvStep, PTL DEF Spec

-----------------------------------------------------------------------------
(* The states a process and its turns can be in.  That the calls of a turn *)
(* stay within their bound takes an invariant: a turn that is on its way   *)
(* to the model has a call left.                                           *)

TurnStates == [step : Steps, nr : 0..MaxTurns, at : Answer, calls : 0..MaxCalls]

Sessions == [heard : SUBSET TextId, prompt : Text, response : Text, blocked : BOOLEAN]

Lefts == [prompt : SUBSET Text, response : SUBSET Text]

Stories == [session : Session, blocked : BOOLEAN, shown : SUBSET (Text \cup {Reason}),
            cleared : SUBSET Text, left : Lefts, ended : {"running", "failed", "audited"}]

Records == [nr : 1..MaxTurns, decision : {"allowed", "blocked"}, prompt : Text, response : Text]

ToTheModel(t) ==
    t.step \in {"before_model", "model", "tool"} \/ (t.step = "after_model" /\ t.at.call)

\* What is so of the turn of one session.
TurnIsSound(s) ==
    /\ (turn[s].step = "none") <=> (turn[s].nr = 0)
    /\ turn[s].nr \in 0..begun
    /\ turn[s].step # "none" => role = "agent" /\ process.state = "up"
    /\ ToTheModel(turn[s]) => turn[s].calls < MaxCalls

TypeInv ==
    /\ begun \in 0..MaxTurns
    /\ turn \in [Session -> TurnStates]
    /\ memory \in [Session -> Sessions]
    /\ trail \subseteq Records
    /\ went \in [1..begun -> Stories]
    /\ \A s \in Session : TurnIsSound(s)

\* The process, its environment and its files.
ProcessTyped ==
    /\ role \in Role /\ env \in Environments[role] /\ file \in Files[role]
    /\ process # Down => process.from \in Files[role] /\ process = Up(process.from)

LEMMA PlainTexts ==
    ASSUME NEW ids \in SUBSET TextId
    PROVE  Plain(ids) \in Text /\ (Plain(ids) = NoText <=> ids = {})
BY DEF Plain, Text, NoText

LEMMA NoAnswerIsOne == NoAnswer \in Answer /\ NoText \in Text /\ ~NoAnswer.call
BY DEF NoAnswer, Answer, NoText, Plain, Text

\* A guardrail answers with a text.
LEMMA ScreensAreTexts ==
    ASSUME NEW guardrail, NEW text \in Text, NEW screen \in Screens(guardrail, text)
    PROVE  screen.verdict.safe \in Text
<1>1. CASE guardrail = "off"
  BY <1>1 DEF Screens, Verdict
<1>2. CASE guardrail = "local"
  BY <1>2 DEF Screens, Heuristic, Verdict
<1>3. CASE guardrail = "model_armor"
  <2>1. PICK a \in ArmorAnswers : screen.verdict = Parse(a, text)
    BY <1>3 DEF Screens
  <2>2. screen.verdict.safe = Deidentified(a, text)
    BY <2>1 DEF Parse, Verdict
  <2>3. Deidentified(a, text) \in Text
    BY DEF Deidentified, Text
  <2> QED
    BY <2>2, <2>3
<1>4. CASE guardrail # "off" /\ guardrail # "local" /\ guardrail # "model_armor"
  BY <1>4 DEF Screens
<1> QED
  BY <1>1, <1>2, <1>3, <1>4

LEMMA GotoTyped ==
    ASSUME turn \in [Session -> TurnStates], NEW s \in Session, NEW step \in Steps,
           NEW answer \in Answer, NEW calls \in 0..MaxCalls, Goto(s, step, answer, calls)
    PROVE  /\ turn' \in [Session -> TurnStates]
           /\ \A u \in Session : u # s => turn'[u] = turn[u]
           /\ turn'[s].step = step /\ turn'[s].nr = turn[s].nr
           /\ turn'[s].at = answer /\ turn'[s].calls = calls
<1> DEFINE t == [step |-> step, nr |-> turn[s].nr, at |-> answer, calls |-> calls]
<1>1. turn' = [turn EXCEPT ![s] = t]
  BY DEF Goto
<1>2. t \in TurnStates
  BY DEF TurnStates
<1>3. t.step = step /\ t.nr = turn[s].nr /\ t.at = answer /\ t.calls = calls
  OBVIOUS
<1> HIDE DEF t
<1> QED
  BY <1>1, <1>2, <1>3

LEMMA RememberTyped ==
    ASSUME memory \in [Session -> Sessions], NEW s \in Session, NEW prompt \in Text,
           NEW response \in Text, NEW blocked \in BOOLEAN, Remember(s, prompt, response, blocked)
    PROVE  memory' \in [Session -> Sessions]
<1> DEFINE m == [heard |-> memory[s].heard, prompt |-> prompt,
                 response |-> response, blocked |-> blocked]
<1>1. memory' = [memory EXCEPT ![s] = m]
  BY DEF Remember
<1>2. m \in Sessions
  BY DEF Sessions
<1> HIDE DEF m
<1> QED
  BY <1>1, <1>2

LEMMA NoteTyped ==
    ASSUME went \in [1..begun -> Stories], UNCHANGED begun, NEW n \in 1..begun, NEW b \in BOOLEAN,
           NEW shown \in SUBSET (Text \cup {Reason}), NEW cleared \in SUBSET Text,
           NEW left \in Lefts, NEW ended \in {"running", "failed", "audited"},
           Note(n, b, shown, cleared, left, ended)
    PROVE  (went \in [1..begun -> Stories])'
<1> DEFINE w == [session |-> went[n].session, blocked |-> went[n].blocked \/ b,
                 shown |-> went[n].shown \cup shown,
                 cleared |-> went[n].cleared \cup cleared, left |-> left, ended |-> ended]
<1>1. went' = [went EXCEPT ![n] = w]
  BY DEF Note
<1>2. w \in Stories
  <2>1. went[n] \in Stories
    OBVIOUS
  <2> QED
    BY <2>1 DEF Stories
<1> HIDE DEF w
<1> QED
  BY <1>1, <1>2

\* A running turn has a number.
LEMMA RunningHasNumber ==
    ASSUME TypeInv, NEW s \in Session, turn[s].step # "none"
    PROVE  turn[s].nr \in 1..begun /\ role = "agent" /\ process.state = "up"
BY DEF TypeInv, TurnIsSound

LEMMA RunningHasLeft ==
    ASSUME TypeInv, NEW s \in Session, turn[s].step # "none"
    PROVE  went[turn[s].nr].left \in Lefts
<1>1. went[turn[s].nr] \in Stories
  BY RunningHasNumber DEF TypeInv
<1> QED
  BY <1>1 DEF Stories

\* A turn that moves on within its bounds leaves the others sound.
LEMMA MoveTyped ==
    ASSUME TypeInv, NEW s \in Session, NEW step \in Steps, NEW answer \in Answer,
           NEW calls \in 0..MaxCalls, Goto(s, step, answer, calls), turn[s].step # "none",
           step # "none",
           ToTheModel([step |-> step, at |-> answer]) => calls < MaxCalls,
           UNCHANGED <<begun, role, process>>,
           memory' \in [Session -> Sessions], trail' \subseteq Records,
           (went \in [1..begun -> Stories])'
    PROVE  TypeInv'
<1>1. /\ turn' \in [Session -> TurnStates]
      /\ \A u \in Session : u # s => turn'[u] = turn[u]
      /\ turn'[s].step = step /\ turn'[s].nr = turn[s].nr
      /\ turn'[s].at = answer /\ turn'[s].calls = calls
  BY GotoTyped DEF TypeInv
<1>2. /\ step \in {"before_model", "model", "tool"} \/ (step = "after_model" /\ answer.call)
           => calls < MaxCalls
  BY DEF ToTheModel
<1>3. turn[s].nr \in 1..begun /\ turn[s].nr \in 0..begun /\ role = "agent" /\ process.state = "up"
      /\ turn[s].nr # 0
  BY RunningHasNumber
<1>4. ASSUME NEW u \in Session PROVE TurnIsSound(u)'
  <2>1. CASE u = s
    BY <1>1, <1>2, <1>3, <2>1 DEF TurnIsSound, ToTheModel
  <2>2. CASE u # s
    BY <1>1, <2>2 DEF TypeInv, TurnIsSound, ToTheModel
  <2> QED
    BY <2>1, <2>2
<1> QED
  BY <1>1, <1>4 DEF TypeInv

\* A screen of either callback.
LEMMA ScreenTyped ==
    ASSUME TypeInv, NEW s \in Session, turn[s].step # "none",
           NEW guardrail, NEW text \in Text, NEW screen \in Screens(guardrail, text),
           NEW prompt \in Text, NEW response \in Text, NEW step \in Steps, NEW blocked \in BOOLEAN,
           NEW b \in BOOLEAN,
           NEW shown \in SUBSET (Text \cup {Reason}), NEW cleared \in SUBSET Text,
           NEW left \in Lefts,
           Remember(s, prompt, response, blocked),
           Goto(s, step, NoAnswer, turn[s].calls),
           Note(turn[s].nr, b, shown, cleared, left, "running"),
           step # "none", step = "after_agent" \/ turn[s].calls < MaxCalls,
           UNCHANGED <<trail, begun, role, process>>
    PROVE  TypeInv'
<1>1. turn[s].nr \in 1..begun /\ turn[s].calls \in 0..MaxCalls
  BY RunningHasNumber DEF TypeInv, TurnStates
<1>2. NoAnswer \in Answer
  BY NoAnswerIsOne
<1>3. memory' \in [Session -> Sessions]
  BY RememberTyped DEF TypeInv
<1>4. (went \in [1..begun -> Stories])'
  <2> DEFINE ended == "running"
  <2>1. ended \in {"running", "failed", "audited"}
        /\ Note(turn[s].nr, b, shown, cleared, left, ended)
    OBVIOUS
  <2> HIDE DEF ended
  <2> QED
    BY <1>1, <2>1, NoteTyped DEF TypeInv
<1>5. ToTheModel([step |-> step, at |-> NoAnswer]) => turn[s].calls < MaxCalls
  BY NoAnswerIsOne DEF ToTheModel
<1>6. trail' \subseteq Records
  BY DEF TypeInv
<1> QED
  BY <1>1, <1>2, <1>3, <1>4, <1>5, <1>6, MoveTyped

LEMMA BeforeModelTyped ==
    ASSUME TypeInv, NEW s \in Session, NEW guardrail, BeforeModel(s, guardrail),
           UNCHANGED <<role, process>>
    PROVE  TypeInv'
<1>1. PICK screen \in Screens(guardrail, Plain(memory[s].heard)) :
          LET passed == screen.verdict.allowed
          IN  /\ Remember(s, screen.verdict.safe, memory[s].response, memory[s].blocked \/ ~passed)
              /\ Goto(s, IF passed THEN "model" ELSE "after_agent", NoAnswer, turn[s].calls)
              /\ Note(turn[s].nr, ~passed, IF passed THEN {} ELSE {Reason}, {},
                      Left({screen.verdict.safe}, went[turn[s].nr].left.response), "running")
  BY DEF BeforeModel
<1>2. /\ turn[s].step = "before_model" /\ UNCHANGED <<trail, begun>>
      /\ turn[s].calls < MaxCalls
  BY DEF BeforeModel, TypeInv, TurnIsSound, ToTheModel
<1>3. memory[s] \in Sessions
  BY DEF TypeInv
<1>4. Plain(memory[s].heard) \in Text /\ memory[s].response \in Text
  BY <1>3, PlainTexts DEF Sessions
<1>5. screen.verdict.safe \in Text
  BY <1>4, ScreensAreTexts
<1> DEFINE b == ~screen.verdict.allowed
           blocked == memory[s].blocked \/ b
           step == IF screen.verdict.allowed THEN "model" ELSE "after_agent"
           shown == IF screen.verdict.allowed THEN {} ELSE {Reason}
           cleared == {}
           left == Left({screen.verdict.safe}, went[turn[s].nr].left.response)
<1>6. /\ b \in BOOLEAN /\ blocked \in BOOLEAN
      /\ step \in Steps /\ step # "none"
      /\ shown \in SUBSET (Text \cup {Reason}) /\ cleared \in SUBSET Text
  BY DEF Steps
<1>7. /\ Remember(s, screen.verdict.safe, memory[s].response, blocked)
      /\ Goto(s, step, NoAnswer, turn[s].calls)
      /\ Note(turn[s].nr, b, shown, cleared, left, "running")
  BY <1>1
<1>8. left \in Lefts
  BY <1>2, <1>5, RunningHasLeft DEF Left, Lefts
<1> HIDE DEF b, blocked, step, shown, cleared, left
<1> QED
  BY <1>2, <1>4, <1>5, <1>6, <1>7, <1>8, ScreenTyped

LEMMA AfterModelTyped ==
    ASSUME TypeInv, NEW s \in Session, NEW guardrail, AfterModel(s, guardrail),
           UNCHANGED <<role, process>>
    PROVE  TypeInv'
<1>1. PICK screen \in Screens(guardrail, turn[s].at.text) :
          LET passed == screen.verdict.allowed
              safe   == screen.verdict.safe
              stands == passed /\ safe = turn[s].at.text
          IN  /\ Remember(s, memory[s].prompt, safe, memory[s].blocked \/ ~passed)
              /\ Goto(s, IF stands /\ turn[s].at.call THEN "tool" ELSE "after_agent",
                      NoAnswer, turn[s].calls)
              /\ Note(turn[s].nr, ~passed, {Reply(screen.verdict, turn[s].at.text)},
                      IF screen.clean THEN {safe} ELSE {},
                      Left(went[turn[s].nr].left.prompt, {safe}), "running")
  BY DEF AfterModel
<1>2. /\ turn[s].step = "after_model" /\ UNCHANGED <<trail, begun>>
      /\ turn[s].at.call => turn[s].calls < MaxCalls
  BY DEF AfterModel, TypeInv, TurnIsSound, ToTheModel
<1>3. memory[s] \in Sessions /\ turn[s] \in TurnStates
  BY DEF TypeInv
<1>4. turn[s].at.text \in Text /\ memory[s].prompt \in Text
  BY <1>3 DEF Sessions, TurnStates, Answer
<1>5. screen.verdict.safe \in Text
  BY <1>4, ScreensAreTexts
<1> DEFINE b == ~screen.verdict.allowed
           blocked == memory[s].blocked \/ b
           step == IF screen.verdict.allowed /\ screen.verdict.safe = turn[s].at.text
                        /\ turn[s].at.call
                   THEN "tool" ELSE "after_agent"
           shown == {Reply(screen.verdict, turn[s].at.text)}
           cleared == IF screen.clean THEN {screen.verdict.safe} ELSE {}
           left == Left(went[turn[s].nr].left.prompt, {screen.verdict.safe})
<1>6. /\ b \in BOOLEAN /\ blocked \in BOOLEAN
      /\ step \in Steps /\ step # "none"
      /\ step = "after_agent" \/ turn[s].calls < MaxCalls
  BY <1>2 DEF Steps
<1>7. shown \in SUBSET (Text \cup {Reason}) /\ cleared \in SUBSET Text
  BY <1>5 DEF Reply
<1>8. /\ Remember(s, memory[s].prompt, screen.verdict.safe, blocked)
      /\ Goto(s, step, NoAnswer, turn[s].calls)
      /\ Note(turn[s].nr, b, shown, cleared, left, "running")
  BY <1>1
<1>9. left \in Lefts
  BY <1>2, <1>5, RunningHasLeft DEF Left, Lefts
<1> HIDE DEF b, blocked, step, shown, cleared, left
<1> QED
  BY <1>2, <1>4, <1>5, <1>6, <1>7, <1>8, <1>9, ScreenTyped

LEMMA ModelTyped ==
    ASSUME TypeInv, NEW s \in Session, Model(s), UNCHANGED <<role, process>>
    PROVE  TypeInv'
<1>1. PICK ids \in {{i} : i \in TextId} \cup {{}}, call \in BOOLEAN :
          /\ call => turn[s].calls + 1 < MaxCalls
          /\ Goto(s, "after_model", [text |-> Plain(ids), call |-> call], turn[s].calls + 1)
  BY DEF Model
<1>2. /\ turn[s].step = "model" /\ UNCHANGED <<memory, trail, begun, went>>
      /\ turn[s].calls < MaxCalls
  BY DEF Model, TypeInv, TurnIsSound, ToTheModel
<1>3. turn[s].calls + 1 \in 0..MaxCalls
  <2>1. turn[s] \in TurnStates
    BY DEF TypeInv
  <2> QED
    BY <1>2, <2>1, BoundsAssumption DEF TurnStates
<1> DEFINE answer == [text |-> Plain(ids), call |-> call]
<1>4. answer \in Answer /\ (answer.call => turn[s].calls + 1 < MaxCalls)
  BY <1>1, PlainTexts DEF Answer
<1> DEFINE calls == turn[s].calls + 1
           step == "after_model"
<1>5. ToTheModel([step |-> step, at |-> answer]) => calls < MaxCalls
  BY <1>4 DEF ToTheModel
<1>6. /\ step \in Steps /\ step # "none" /\ answer \in Answer /\ calls \in 0..MaxCalls
      /\ Goto(s, step, answer, calls)
  BY <1>1, <1>3, <1>4 DEF Steps
<1> HIDE DEF answer, calls, step
<1>7. /\ memory' \in [Session -> Sessions] /\ trail' \subseteq Records
      /\ (went \in [1..begun -> Stories])'
  BY <1>2 DEF TypeInv
<1> QED
  BY <1>2, <1>5, <1>6, <1>7, MoveTyped

LEMMA ToolTyped ==
    ASSUME TypeInv, NEW s \in Session, Tool(s), UNCHANGED <<role, process>>
    PROVE  TypeInv'
<1>1. /\ turn[s].step = "tool" /\ UNCHANGED <<memory, trail, begun, went>>
      /\ turn[s].calls < MaxCalls /\ Goto(s, "before_model", NoAnswer, turn[s].calls)
  BY DEF Tool, TypeInv, TurnIsSound, ToTheModel
<1>2. turn[s].calls \in 0..MaxCalls /\ NoAnswer \in Answer
  BY NoAnswerIsOne DEF TypeInv, TurnStates
<1> DEFINE step == "before_model"
<1>3. step \in Steps /\ step # "none" /\ Goto(s, step, NoAnswer, turn[s].calls)
  BY <1>1 DEF Steps
<1> HIDE DEF step
<1>4. /\ memory' \in [Session -> Sessions] /\ trail' \subseteq Records
      /\ (went \in [1..begun -> Stories])'
  BY <1>1 DEF TypeInv
<1> QED
  BY <1>1, <1>2, <1>3, <1>4, MoveTyped

\* The end of a turn, with a record or without.
LEMMA EndTyped ==
    ASSUME TypeInv, NEW s \in Session, turn[s].step # "none",
           NEW ended \in {"running", "failed", "audited"},
           turn' = [turn EXCEPT ![s] = NoTurn],
           Note(turn[s].nr, FALSE, {}, {}, went[turn[s].nr].left, ended),
           UNCHANGED <<memory, begun, role, process>>,
           trail' = trail \/ trail' = trail \cup {Record(s)}
    PROVE  TypeInv'
<1>1. turn[s].nr \in 1..begun /\ memory[s] \in Sessions
  BY RunningHasNumber DEF TypeInv
<1>2. (went \in [1..begun -> Stories])'
  <2> DEFINE n == turn[s].nr
             w == [session |-> went[n].session, blocked |-> went[n].blocked \/ FALSE,
                   shown |-> went[n].shown \cup {}, cleared |-> went[n].cleared \cup {},
                   left |-> went[n].left, ended |-> ended]
  <2>1. went' = [went EXCEPT ![n] = w]
    BY DEF Note
  <2>2. went[n] \in Stories
    BY <1>1 DEF TypeInv
  <2>3. w \in Stories
    BY <2>2 DEF Stories
  <2> HIDE DEF w
  <2> QED
    BY <1>1, <2>1, <2>3 DEF TypeInv
<1>3. Record(s) \in Records
  <2> DEFINE decision == IF memory[s].blocked THEN "blocked" ELSE "allowed"
  <2>1. decision \in {"allowed", "blocked"}
    OBVIOUS
  <2>2. turn[s].nr \in 1..MaxTurns
    BY <1>1, BoundsAssumption DEF TypeInv
  <2>3. memory[s].prompt \in Text /\ memory[s].response \in Text
    BY <1>1 DEF Sessions
  <2>4. Record(s) = [nr |-> turn[s].nr, decision |-> decision,
                     prompt |-> memory[s].prompt, response |-> memory[s].response]
    BY DEF Record
  <2> HIDE DEF decision
  <2> QED
    BY <2>1, <2>2, <2>3, <2>4 DEF Records
<1>4. NoTurn \in TurnStates /\ NoTurn.step = "none" /\ NoTurn.nr = 0 /\ ~ToTheModel(NoTurn)
  BY NoAnswerIsOne, BoundsAssumption DEF NoTurn, TurnStates, Steps, ToTheModel
<1>5. turn' \in [Session -> TurnStates]
      /\ turn'[s] = NoTurn /\ \A u \in Session : u # s => turn'[u] = turn[u]
  BY <1>4 DEF TypeInv
<1>6. ASSUME NEW u \in Session PROVE TurnIsSound(u)'
  <2>1. CASE u = s
    <3>1. begun \in Nat
      BY BoundsAssumption DEF TypeInv
    <3> QED
      BY <1>4, <1>5, <2>1, <3>1 DEF TurnIsSound, ToTheModel
  <2>2. CASE u # s
    BY <1>5, <2>2 DEF TypeInv, TurnIsSound, ToTheModel
  <2> QED
    BY <2>1, <2>2
<1>7. trail' \subseteq Records /\ memory' \in [Session -> Sessions]
  BY <1>3 DEF TypeInv
<1> QED
  BY <1>2, <1>5, <1>6, <1>7 DEF TypeInv

LEMMA StartTyped ==
    ASSUME TypeInv, NEW s \in Session, StartTurn(s), role = "agent", process.state = "up",
           UNCHANGED <<role, process>>
    PROVE  TypeInv'
<1> DEFINE new == begun + 1
           t == [step |-> "before_model", nr |-> new, at |-> NoAnswer, calls |-> 0]
           w == [session |-> s, blocked |-> FALSE, shown |-> {}, cleared |-> {},
                 left |-> Left({}, {}), ended |-> "running"]
<1>1. /\ begun < MaxTurns /\ begun' = new /\ trail' = trail
      /\ turn' = [turn EXCEPT ![s] = t]
      /\ went' = [n \in 1..new |-> IF n \in 1..begun THEN went[n] ELSE w]
  BY DEF StartTurn
<1>2. PICK i \in TextId :
         memory' = [memory EXCEPT ![s] = [heard |-> @.heard \cup {i}, prompt |-> @.prompt,
                                          response |-> @.response, blocked |-> @.blocked]]
  BY DEF StartTurn
<1>3. new \in 1..MaxTurns /\ begun \in Nat
  BY <1>1, BoundsAssumption DEF TypeInv
<1>4. t \in TurnStates /\ t.step = "before_model" /\ t.nr = new /\ t.calls = 0
  BY <1>3, NoAnswerIsOne, BoundsAssumption DEF TurnStates, Steps
<1>5. w \in Stories
  BY DEF Stories, Left, Lefts
<1>6. (memory \in [Session -> Sessions])'
  <2> DEFINE m == [heard |-> memory[s].heard \cup {i}, prompt |-> memory[s].prompt,
                   response |-> memory[s].response, blocked |-> memory[s].blocked]
  <2>1. memory' = [memory EXCEPT ![s] = m]
    BY <1>2
  <2>2. memory[s] \in Sessions
    BY DEF TypeInv
  <2>3. m \in Sessions
    BY <2>2 DEF Sessions
  <2> HIDE DEF m
  <2> QED
    BY <2>1, <2>3 DEF TypeInv
<1> HIDE DEF t, w
<1>7. (went \in [1..begun -> Stories])'
  BY <1>1, <1>5 DEF TypeInv
<1>8. turn' \in [Session -> TurnStates]
      /\ turn'[s] = t /\ \A u \in Session : u # s => turn'[u] = turn[u]
  BY <1>1, <1>4 DEF TypeInv
<1>9. ASSUME NEW u \in Session PROVE TurnIsSound(u)'
  <2>1. CASE u = s
    <3>1. turn'[u].calls < MaxCalls
      BY <1>4, <1>8, <2>1, BoundsAssumption
    <3> QED
      BY <1>1, <1>3, <1>4, <1>8, <2>1, <3>1 DEF TurnIsSound
  <2>2. CASE u # s
    <3>1. /\ (turn[u].step = "none") <=> (turn[u].nr = 0)
          /\ turn[u].nr \in 0..begun
          /\ ToTheModel(turn[u]) => turn[u].calls < MaxCalls
      BY DEF TypeInv, TurnIsSound
    <3> QED
      BY <1>1, <1>3, <1>8, <2>2, <3>1 DEF TurnIsSound, ToTheModel
  <2> QED
    BY <2>1, <2>2
<1> QED
  BY <1>1, <1>3, <1>6, <1>7, <1>8, <1>9 DEF TypeInv

LEMMA StopTyped ==
    ASSUME TypeInv, Stop
    PROVE  TypeInv'
<1>1. /\ UNCHANGED <<role, memory, trail, begun>>
      /\ turn' = [s \in Session |-> NoTurn]
  BY DEF Stop
<1>2. NoTurn \in TurnStates /\ NoTurn.step = "none" /\ NoTurn.nr = 0 /\ ~ToTheModel(NoTurn)
  BY NoAnswerIsOne, BoundsAssumption DEF NoTurn, TurnStates, Steps, ToTheModel
<1>3. (went \in [1..begun -> Stories])'
  <2> DEFINE gone(n) == [session |-> went[n].session, blocked |-> went[n].blocked,
                         shown |-> went[n].shown, cleared |-> went[n].cleared,
                         left |-> went[n].left, ended |-> "failed"]
  <2>1. went' = [n \in 1..begun |-> IF went[n].ended = "running" THEN gone(n) ELSE went[n]]
    BY DEF Stop, Turns
  <2>2. ASSUME NEW n \in 1..begun PROVE gone(n) \in Stories /\ went[n] \in Stories
    <3>1. went[n] \in Stories
      BY DEF TypeInv
    <3> QED
      BY <3>1 DEF Stories
  <2> HIDE DEF gone
  <2> QED
    BY <1>1, <2>1, <2>2
<1>4. ASSUME NEW u \in Session PROVE TurnIsSound(u)'
  <2>1. begun \in Nat /\ turn'[u] = NoTurn
    BY <1>1, BoundsAssumption DEF TypeInv
  <2> QED
    BY <1>1, <1>2, <2>1 DEF TurnIsSound, ToTheModel
<1> QED
  BY <1>1, <1>2, <1>3, <1>4 DEF TypeInv

LEMMA TypeStep == TypeInv /\ [Next]_vars => TypeInv'
<1> SUFFICES ASSUME TypeInv, [Next]_vars PROVE TypeInv'
  OBVIOUS
<1>1. CASE UNCHANGED <<role, process, boundary>>
  BY <1>1 DEF boundary, TypeInv, TurnIsSound, ToTheModel
<1>2. CASE Boot
  <2>1. process'.state = "up" /\ UNCHANGED <<role, boundary>>
    BY <1>2 DEF Boot, Up
  <2> QED
    BY <2>1 DEF boundary, TypeInv, TurnIsSound, ToTheModel
<1>3. CASE Stop
  BY <1>3, StopTyped
<1>4. ASSUME NEW s \in Session, Talk(s) PROVE TypeInv'
  BY <1>4, StartTyped DEF Talk, Serving
<1>5. ASSUME NEW s \in Session, TurnStep(s) PROVE TypeInv'
  <2>1. UNCHANGED <<role, process>>
    BY <1>5 DEF TurnStep
  <2>2. CASE BeforeModel(s, Guardrail)
    BY <2>1, <2>2, BeforeModelTyped
  <2>3. CASE Model(s)
    BY <2>1, <2>3, ModelTyped
  <2>4. CASE AfterModel(s, Guardrail)
    BY <2>1, <2>4, AfterModelTyped
  <2>5. CASE ToolCall(s)
    BY <2>1, <2>5, ToolTyped DEF ToolCall
  <2>6. CASE AfterAgent(s)
    <3> DEFINE ended == "audited"
    <3>1. /\ ended \in {"running", "failed", "audited"} /\ turn[s].step # "none"
          /\ turn' = [turn EXCEPT ![s] = NoTurn]
          /\ Note(turn[s].nr, FALSE, {}, {}, went[turn[s].nr].left, ended)
          /\ UNCHANGED <<memory, begun>> /\ trail' = trail \cup {Record(s)}
      BY <2>6 DEF AfterAgent
    <3> HIDE DEF ended
    <3> QED
      BY <2>1, <3>1, EndTyped
  <2>7. CASE Raise(s)
    <3> DEFINE ended == "failed"
    <3>1. /\ ended \in {"running", "failed", "audited"} /\ turn[s].step # "none"
          /\ turn' = [turn EXCEPT ![s] = NoTurn]
          /\ Note(turn[s].nr, FALSE, {}, {}, went[turn[s].nr].left, ended)
          /\ UNCHANGED <<memory, begun, trail>>
      BY <2>7 DEF Raise, FailTurn
    <3> HIDE DEF ended
    <3> QED
      BY <2>1, <3>1, EndTyped
  <2> QED
    BY <1>5, <2>2, <2>3, <2>4, <2>5, <2>6, <2>7 DEF TurnStep
<1> QED
  BY <1>1, <1>2, <1>3, <1>4, <1>5 DEF Next, vars, EditSettings

LEMMA TypeInit == Init => TypeInv
<1> SUFFICES ASSUME Init PROVE TypeInv
  OBVIOUS
<1>1. NoTurn \in TurnStates /\ NoTurn.step = "none" /\ NoTurn.nr = 0 /\ ~ToTheModel(NoTurn)
  BY NoAnswerIsOne, BoundsAssumption DEF NoTurn, TurnStates, Steps, ToTheModel
<1>2. /\ turn = [s \in Session |-> NoTurn] /\ trail = {} /\ begun = 0
      /\ memory = [s \in Session |-> [heard |-> {}, prompt |-> NoText, response |-> NoText,
                                      blocked |-> FALSE]]
  BY DEF Init, BoundaryInit
<1>3. memory \in [Session -> Sessions]
  <2>1. [heard |-> {}, prompt |-> NoText, response |-> NoText, blocked |-> FALSE] \in Sessions
    BY PlainTexts DEF Sessions, NoText
  <2> QED
    BY <1>2, <2>1
<1>4. went \in [1..begun -> Stories]
  BY <1>2 DEF Init, BoundaryInit
<1>5. ASSUME NEW s \in Session PROVE TurnIsSound(s)
  BY <1>1, <1>2 DEF TurnIsSound
<1>6. turn \in [Session -> TurnStates]
  BY <1>1, <1>2
<1>7. begun \in 0..MaxTurns /\ trail \subseteq Records
  BY <1>2, BoundsAssumption
<1> QED
  BY <1>3, <1>4, <1>5, <1>6, <1>7 DEF TypeInv

LEMMA ProcessStep == ProcessTyped /\ [Next]_vars => ProcessTyped'
<1> SUFFICES ASSUME ProcessTyped, [Next]_vars PROVE ProcessTyped'
  OBVIOUS
<1>1. CASE EditSettings
  BY <1>1 DEF EditSettings, ProcessTyped, Up
<1>2. CASE Boot
  <2>1. Up(file).from = file
    BY DEF Up
  <2>2. process' = Up(file) /\ UNCHANGED <<role, env, file>>
    BY <1>2 DEF Boot
  <2> QED
    BY <2>1, <2>2 DEF ProcessTyped, Up
<1>3. CASE Stop
  BY <1>3 DEF Stop, ProcessTyped
<1>4. CASE UNCHANGED <<role, env, file, process>>
  BY <1>4 DEF ProcessTyped, Up
<1> QED
  BY <1>1, <1>2, <1>3, <1>4 DEF Next, vars, Talk, TurnStep

\* Every state of a deployment is one of the expected ones, for any environments,
\* files, sessions and bounds: turns run only in an agent that is up, under their own
\* numbers and within their calls, and what is shown and recorded are texts.
THEOREM DeploymentTypeCorrect == Spec => []DeploymentTypeOK
<1>1. Init => ProcessTyped
  BY DEF Init, ProcessTyped
<1>2. TypeInv /\ ProcessTyped => DeploymentTypeOK
  <2> SUFFICES ASSUME TypeInv, ProcessTyped PROVE DeploymentTypeOK
    OBVIOUS
  <2>1. BoundaryTypeOK
    BY DEF TypeInv, BoundaryTypeOK, TurnStates, Sessions, Stories, Lefts, Records, TurnIsSound
  <2> QED
    BY <2>1 DEF TypeInv, ProcessTyped, DeploymentTypeOK, TurnIsSound
<1> QED
  BY <1>1, <1>2, TypeInit, TypeStep, ProcessStep, PTL DEF Spec
=============================================================================
