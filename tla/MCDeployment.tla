---------------------------- MODULE MCDeployment ----------------------------
(* Environments in slices around the shipped managed one: each slice varies *)
(* what one decision reads.  The agent's are few, for its turns multiply.   *)
EXTENDS Deployment, FiniteSets

CONSTANTS s1, s2

NoMap == [state |-> Unset, pairs |-> {}]

Mapping(pairs) == [state |-> "set", pairs |-> pairs]

Managed == [profile |-> "gcp", guardrail |-> Unset, routing |-> Unset,
            reviewUrl |-> "console", reviewAudience |-> "oauth client", mcp |-> Unset,
            frame |-> Unset, cors |-> Unset, insecureDemo |-> Unset,
            region |-> Unset, market |-> Unset, iapAudience |-> "backend", verifier |-> TRUE,
            domainTenants |-> NoMap, machineTenants |-> NoMap]

Profiles ==
    RUNTIME_PROFILES \cup {Unset, Emptied, "Local"}

OfProfile == {[Managed EXCEPT !.profile = p, !.insecureDemo = d] :
                 p \in Profiles, d \in {Unset, "1", "true"}}

OfConsole == {[Managed EXCEPT !.profile = p, !.routing = r, !.reviewUrl = u, !.reviewAudience = a] :
                 p \in ManagedProfiles, r \in {Unset, "off", "maybe"}, u \in {Unset, Emptied, "console"},
                 a \in {Unset, Emptied, "backend service", "oauth client"}}

OfIap == {[Managed EXCEPT !.iapAudience = a, !.verifier = v, !.domainTenants = d, !.machineTenants = m] :
             a \in {Unset, Emptied, "backend"}, v \in BOOLEAN,
             d \in {NoMap, [NoMap EXCEPT !.state = Emptied], Mapping({<<"bank.example", "bank">>}),
                    Mapping({<<"project.example", "bank">>})},
             m \in {NoMap, Mapping({<<"robot@project.example", "bank">>})}}

OfOrigins == {[Managed EXCEPT !.frame = f, !.cors = c] :
                 f \in {Unset, Emptied, "*", "https://portal.example"}, c \in {Unset, "null", "https://portal.example"}}

OfResidency == {[Managed EXCEPT !.region = r, !.market = m, !.guardrail = g] :
                   r \in {Unset, Emptied, "us", "asia-northeast1"}, m \in {Unset, Emptied, "JP", "FR"},
                   g \in {Unset, "off", Emptied}}

OfAgent == {[Managed EXCEPT !.profile = p] : p \in {"gcp", "local", "onprem"}}
           \cup {[Managed EXCEPT !.guardrail = "off"], [Managed EXCEPT !.mcp = Emptied]}

\* Named, so that TLC computes each once.
EveryEnvironment == [r \in Role |-> IF r = "agent" THEN OfAgent
                                  ELSE OfProfile \cup OfConsole \cup OfIap \cup OfOrigins \cup OfResidency]

Shipped ==
    [profile |-> "", region |-> "var", market |-> "SG", template |-> TRUE,
     overrides |-> MarketRegion,
     identity  |-> [p \in RUNTIME_PROFILES |-> CASE p \in LAPTOP_PROFILES -> "personas"
                                                 [] p \in ManagedProfiles -> "iap" [] OTHER -> "onprem"],
     guardrail |-> [local |-> "local", live |-> "local", gcp |-> "model_armor",
                    platform |-> "remote", onprem |-> "onprem"],
     routing   |-> [p \in RUNTIME_PROFILES |-> CASE p \in LAPTOP_PROFILES -> "local"
                                                 [] p \in ManagedProfiles -> "platform" [] OTHER -> "onprem"]]

Unbound == [p \in RUNTIME_PROFILES |-> ""]

Missing == [Shipped EXCEPT !.region = "asia-southeast1", !.overrides = <<>>,
                           !.identity = Unbound, !.guardrail = Unbound, !.routing = Unbound]

Abroad == [Shipped EXCEPT !.region = "us"]

EveryFile ==
    [r \in Role |->
       IF r = "agent" THEN {Shipped, Abroad}
       ELSE {Shipped, Missing,
             [Abroad EXCEPT !.overrides.SG = "us", !.profile = "gcp"],
             [Shipped EXCEPT !.profile = "local", !.template = FALSE],
             [Shipped EXCEPT !.identity.onprem = "client idp", !.identity.local = "client idp"],
             [Shipped EXCEPT !.identity.gcp = "personas", !.identity.platform = "personas",
                             !.identity.onprem = "personas", !.routing.onprem = "platform"]}]

Genuine == [pinned |-> TRUE, signedBy |-> "iap key", aud |-> "backend", fresh |-> TRUE, iss |-> "iap",
            email |-> "user@bank.example", machine |-> FALSE, hosted |-> "bank.example", domain |-> "bank.example"]

Robot == [Genuine EXCEPT !.email = "robot@project.example", !.machine = TRUE,
                         !.hosted = "", !.domain = "project.example"]

Assertions == {Genuine, Robot,
               [Robot EXCEPT !.email = "other@project.example"],
               [Genuine EXCEPT !.hosted = ""],
               [Genuine EXCEPT !.pinned = FALSE], [Genuine EXCEPT !.signedBy = "nobody"],
               [Genuine EXCEPT !.aud = "elsewhere"], [Genuine EXCEPT !.fresh = FALSE],
               [Genuine EXCEPT !.iss = "another"], [Genuine EXCEPT !.email = ""]}

Bare == [peer |-> "remote", persona |-> "", edge |-> NoAssertion, portal |-> NoAssertion, known |-> FALSE]

EveryRequest ==
    {[Bare EXCEPT !.peer = p, !.persona = x] :
        p \in {"loopback", "remote", "forwarded"}, x \in {"", "approver", "other-tenant", "stranger"}}
    \cup {[Bare EXCEPT !.edge = a] : a \in Assertions}
    \cup {[Bare EXCEPT !.peer = "forwarded", !.portal = a, !.persona = "approver"] : a \in Assertions}
    \cup {[Bare EXCEPT !.edge = [Genuine EXCEPT !.fresh = FALSE], !.portal = Genuine],
          [Bare EXCEPT !.known = TRUE]}

MCEnvironments == EveryEnvironment
MCFiles == EveryFile
MCRequests == EveryRequest
=============================================================================
