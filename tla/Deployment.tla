----------------------------- MODULE Deployment -----------------------------
(***************************************************************************)
(* A process of the system from its start to its end, with the environment *)
(* it was given and the settings file beside it: the API (api/app.py,      *)
(* api/deps.py) or the hosted agent (agent/root_agent.py, agent/tools.py). *)
(*                                                                         *)
(* The environment is fixed for a process; the file may be edited under a  *)
(* running one.  Both bind one container to the settings they loaded at    *)
(* their start; the agent's tool and the health route load the settings    *)
(* anew.  A request changes nothing here, so what the API answers is       *)
(* stated for every request of a set.                                      *)
(***************************************************************************)
EXTENDS Identity, ModelBoundary

CONSTANTS Environments,   \* by role: the environments a process may be given
          Files,          \* by role: the settings files it may find
          Requests,       \* the requests that may reach the API
          Nowhere         \* the settings of a process that is not up

Role == {"api", "agent"}

\* A map of the environment is one of keys to tenants.
ASSUME MapsAssumption ==
    \A r \in Role : \A e \in Environments[r] :
        \A pair \in e.domainTenants.pairs \cup e.machineTenants.pairs :
            pair = <<pair[1], pair[2]>>

VARIABLES role, env, file,
          process         \* state, the settings bound, and the file they are of

vars == <<role, env, file, process, boundary>>

Down == [state |-> "down", settings |-> Nowhere, from |-> Nowhere]

Up(at) == [state |-> "up", settings |-> Load(env, at), from |-> at]

BootRefused == IF role = "api" THEN ApiRefused(env, file) ELSE AgentRefused(env, file)

DeploymentTypeOK ==
    /\ BoundaryTypeOK
    /\ role \in Role /\ env \in Environments[role] /\ file \in Files[role]
    /\ process # Down => process.from \in Files[role] /\ process = Up(process.from)
    /\ \A s \in Session : turn[s].step # "none" => role = "agent" /\ process.state = "up"

Init ==
    /\ role \in Role /\ env \in Environments[role] /\ file \in Files[role]
    /\ process = Down
    /\ BoundaryInit

-----------------------------------------------------------------------------
(* The operator.                                                           *)

EditSettings ==
    /\ file' \in Files[role] \ {file}
    /\ UNCHANGED <<role, env, process, boundary>>

\* A refused start leaves no process (or, of the agent, no agent) behind.
Boot ==
    /\ process = Down /\ ~BootRefused
    /\ process' = Up(file)
    /\ UNCHANGED <<role, env, file, boundary>>

\* mutant: the turns under way are left as they are
StopLeavingTurns ==
    /\ process.state = "up"
    /\ process' = Down
    /\ UNCHANGED <<role, env, file, boundary>>

\* Stopped or died, at any step: turns are lost, sessions are not.
Stop ==
    /\ process.state = "up"
    /\ process' = Down
    /\ turn' = [s \in Session |-> NoTurn]
    /\ went' = [n \in Turns |-> IF went[n].ended = "running"
                                THEN [session |-> went[n].session, blocked |-> went[n].blocked,
                                      shown |-> went[n].shown, cleared |-> went[n].cleared,
                                      left |-> went[n].left, ended |-> "failed"]
                                ELSE went[n]]
    /\ UNCHANGED <<role, env, file, memory, trail, begun>>

-----------------------------------------------------------------------------
(* The agent's turns, screened by the container bound at the start.        *)

Serving(what) == role = what /\ process.state = "up"

Guardrail == process.settings.guardrail

\* The review tool builds a container of its own, from the settings as they are now.
ToolCall(s) == ~LoadRefused(env, file) /\ Tool(s)

\* The model, the tool and the audit sink may always raise; a guardrail, some.
Raise(s) ==
    /\ turn[s].step # "none"
    /\ turn[s].step \in {"before_model", "after_model"} => CanRaise(Guardrail)
    /\ FailTurn(s)

TurnStep(s) ==
    /\ Serving("agent")
    /\ \/ BeforeModel(s, Guardrail)
       \/ Model(s)
       \/ AfterModel(s, Guardrail)
       \/ ToolCall(s)
       \/ AfterAgent(s)
       \/ Raise(s)
    /\ UNCHANGED <<role, env, file, process>>

Talk(s) ==
    /\ Serving("agent")
    /\ StartTurn(s)
    /\ UNCHANGED <<role, env, file, process>>

Next ==
    \/ EditSettings
    \/ Boot
    \/ Stop
    \/ \E s \in Session : Talk(s) \/ TurnStep(s)

Spec == Init /\ [][Next]_vars

-----------------------------------------------------------------------------
(* What the API answers.                                                   *)

Answered(req) == UserRoute(env, process.settings, req)

IsPersona(answer) == answer.status = 200 /\ answer.principal.source = "persona"

\* Whoever is not on the machine itself, and is answered as somebody by an end-user
\* route, is whom a genuine assertion for this deployment names, or whom the adopter's
\* own provider knows; unless the demo opt-out was set, to exactly "1" (app.py 277-326,
\* security.py 23-43, iap_identity.py 189-292).
StrangersAreVerified ==
    Serving("api") => \A req \in Requests :
        LET answer == Answered(req)
            a      == SelectAssertion(req)
        IN  answer.status = 200 /\ req.peer # "loopback" /\ env.insecureDemo # "1" =>
              \/ answer.principal.source = "client idp" /\ req.known
              \/ /\ answer.principal.source = "iap" /\ a # NoAssertion
                 /\ a.pinned /\ a.fresh /\ a.signedBy = "iap key" /\ a.iss = "iap"
                 /\ HasValue(a.aud) /\ a.aud = env.iapAudience
                 /\ a.email # Blank /\ answer.principal.subject = a.email

\* A seeded persona is served, or listed, only where somebody named a laptop profile:
\* never because a variable went missing, and never because a settings file bound the
\* persona adapter under another profile (config.py 127-150, local/identity.py).
PersonasWereChosen ==
    Serving("api") => \A req \in Requests :
        IsPersona(Answered(req)) \/ PersonasRoute(env, process.settings, req) # {} =>
            \/ env.profile \in LAPTOP_PROFILES
            \/ env.profile = Unset /\ process.from.profile \in LAPTOP_PROFILES

\* A machine is of a tenant only if its exact address was reviewed into it; a human is
\* of the tenant the verified domain was reviewed into, or of the domain itself
\* (iap_identity.py 67-134).
TenantsAreReviewed ==
    Serving("api") => \A req \in Requests :
        LET answer == Answered(req)
            a      == SelectAssertion(req)
        IN  answer.status = 200 /\ answer.principal.source = "iap" /\ answer.principal.tenant # Blank =>
              IF a.machine
              THEN <<a.email, answer.principal.tenant>> \in env.machineTenants.pairs
              ELSE /\ a.hosted # Blank
                   /\ \/ <<a.hosted, answer.principal.tenant>> \in env.domainTenants.pairs
                      \/ /\ answer.principal.tenant = a.hosted
                         /\ \A pair \in env.domainTenants.pairs : pair[1] # a.hosted

\* The settings somebody works with: the ones bound at the start, and what the tool
\* and the health route would load now.
InUse == {process.settings} \cup (IF LoadRefused(env, file) THEN {} ELSE {Load(env, file)})

\* Routing that is on takes no case it must lose: under a managed profile a process has
\* a console to send to, or a router that cannot be constructed, so that a request of
\* a service that escalates fails before it is begun; behind the IAP edge it has the
\* bearer the edge accepts (config.py 477-550, platform/review_router.py 48-93).
HandOffsCanWork ==
    process.state = "up" => \A s \in InUse : s.routing = "platform" =>
        /\ s.profile \in ManagedProfiles => HandOff(env, s) # "failed"
        /\ s.profile = "gcp" => HandOff(env, s) = "edge bearer"
=============================================================================
