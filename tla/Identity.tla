------------------------------ MODULE Identity ------------------------------
(***************************************************************************)
(* Who a request is made by: api/security.py asks the bound identity       *)
(* adapter, and the exposure guard stands in front of every route.         *)
(*                                                                         *)
(* An assertion is a record of what its verification looks at; the         *)
(* verifier (google-auth) and the reading of the claims (hex_service_kit)  *)
(* are libraries, modelled by what the adapter uses them for.              *)
(***************************************************************************)
EXTENDS Posture

CONSTANTS NoAssertion, Nobody

\* What a request is answered with when it is not answered by a principal.
Refusal(status) == [status |-> status, principal |-> Nobody]

Resolved(principal) == [status |-> 200, principal |-> principal]

-----------------------------------------------------------------------------
(* Seeded personas.                                                        *)

Personas == {"analyst", "approver", "auditor", "other-tenant"}

PersonaTenant(id) == IF id = "other-tenant" THEN "other-brand" ELSE "demo-brand"

PersonaPrincipal(id) == [source |-> "persona", subject |-> id, tenant |-> PersonaTenant(id)]

\* mutant: the profile's name is enough
PersonasRefusedByName(s) == s.profile \notin LAPTOP_PROFILES

\* The adapter refuses to be constructed.
PersonasRefused(s) == s.profile \notin LAPTOP_PROFILES \/ ~s.explicit

ResolvePersona(s, req) ==
    IF PersonasRefused(s) \/ (req.persona # Blank /\ req.persona \notin Personas)
    THEN Refusal(401)
    ELSE Resolved(PersonaPrincipal(IF req.persona = Blank THEN "analyst" ELSE req.persona))

-----------------------------------------------------------------------------
(* The IAP assertion.                                                      *)

\* The edge's own header before the one an embedding host forwards.
SelectAssertion(req) == IF req.edge # NoAssertion THEN req.edge ELSE req.portal

\* id_token.verify_token
Verifies(a, audience) == a.signedBy = "iap key" /\ a.aud = audience /\ a.fresh

\* require_claims, on the claims verify_token does not look at
ClaimsRefused(a) == a.iss # "iap" \/ a.email = Blank

\* A map of the environment: unset, emptied, malformed or a set of pairs.
MapRefused(setting) == setting.state \notin {Unset, "set"}

MapsRefused(env) == MapRefused(env.domainTenants) \/ MapRefused(env.machineTenants)

Mapped(setting, key) == \E pair \in setting.pairs : pair[1] = key

\* mutant: a machine, too, is of its domain
TenantForByDomain(env, a) ==
    LET pairs == env.machineTenants.pairs \cup env.domainTenants.pairs
        named == {p \in pairs : p[1] \in {a.email, a.domain}}
    IN  IF named = {} THEN a.hosted ELSE (CHOOSE p \in named : TRUE)[2]

\* A machine is tenanted by its exact address; a human by the hosted domain the
\* assertion states, through the reviewed map where that names it.
TenantFor(env, a) ==
    IF a.machine
    THEN IF Mapped(env.machineTenants, a.email)
         THEN (CHOOSE p \in env.machineTenants.pairs : p[1] = a.email)[2] ELSE Blank
    ELSE IF a.hosted # Blank /\ Mapped(env.domainTenants, a.hosted)
         THEN (CHOOSE p \in env.domainTenants.pairs : p[1] = a.hosted)[2] ELSE a.hosted

\* mutant: whatever the claims say, once the signature is right
ResolveIapBySignature(env, req) ==
    LET a == SelectAssertion(req)
    IN  IF ~HasValue(env.iapAudience) THEN Refusal(503)
        ELSE IF a = NoAssertion THEN Refusal(401)
        ELSE IF ~a.pinned THEN Refusal(401)
        ELSE IF ~env.verifier THEN Refusal(503)
        ELSE IF ~Verifies(a, env.iapAudience) THEN Refusal(401)
        ELSE IF MapsRefused(env) THEN Refusal(500)
        ELSE Resolved([source |-> "iap", subject |-> a.email, tenant |-> TenantFor(env, a)])

\* The audience first, the algorithm before the verifier sees the token, the
\* claims before anything is read from them, the maps last.
ResolveIap(env, req) ==
    LET a == SelectAssertion(req)
    IN  IF ~HasValue(env.iapAudience) THEN Refusal(503)
        ELSE IF a = NoAssertion THEN Refusal(401)
        ELSE IF ~a.pinned THEN Refusal(401)
        ELSE IF ~env.verifier THEN Refusal(503)
        ELSE IF ~Verifies(a, env.iapAudience) \/ ClaimsRefused(a) THEN Refusal(401)
        ELSE IF MapsRefused(env) THEN Refusal(500)
        ELSE Resolved([source |-> "iap", subject |-> a.email, tenant |-> TenantFor(env, a)])

-----------------------------------------------------------------------------
(* The dependency of every end-user route, and the routes that have none.  *)
(* The two routes for calling services (app.py 663-747) are not among      *)
(* them: a library authenticates the caller, the body names the tenant.    *)

\* get_principal.  An adopter's own identity provider is taken at its word; the
\* placeholder's NotImplementedError and a missing binding are not caught.
GetPrincipal(env, s, req) ==
    CASE s.identity = "personas"   -> ResolvePersona(s, req)
      [] s.identity = "iap"        -> ResolveIap(env, req)
      [] s.identity = "client idp" ->
            IF req.known THEN Resolved([source |-> "client idp", subject |-> "employee",
                                        tenant |-> "client"])
            ELSE Refusal(401)
      [] OTHER                     -> Refusal(500)

\* The outermost middleware.  A forwarding header disqualifies a loopback peer,
\* and exactly "1" opts out.
Exposed(env, s, req) ==
    ~EndUserAuthenticated(s) /\ req.peer # "loopback" /\ env.insecureDemo # "1"

\* A route of a person's: everything that takes CurrentPrincipal.
UserRoute(env, s, req) ==
    IF Exposed(env, s, req) THEN Refusal(503) ELSE GetPrincipal(env, s, req)

\* The persona picker: empty where the adapter refuses or has none to list.
PersonasRoute(env, s, req) ==
    IF Exposed(env, s, req) \/ s.identity # "personas" \/ PersonasRefused(s)
    THEN {} ELSE Personas
=============================================================================
