------------------------------ MODULE Posture ------------------------------
(***************************************************************************)
(* What a process concludes from its environment and its settings file     *)
(* before it serves anything (config.py, envread.py, the boot part of      *)
(* api/app.py): the profile and whether anyone chose it, the switches of   *)
(* the controls, the bindings, and every reason to refuse.                 *)
(*                                                                         *)
(* A variable of the environment has three states: unset, emptied, or a    *)
(* value.  Values are named for what the code tells apart.                 *)
(***************************************************************************)

Unset == "unset"
Emptied == "emptied"

Blank == ""   \* nothing named

HasValue(setting) == setting \notin {Unset, Emptied}

SettingOrDefault(setting, default) == IF setting = Unset THEN default ELSE setting

RUNTIME_PROFILES == {"local", "live", "gcp", "platform", "onprem"}
LAPTOP_PROFILES == {"local", "live"}
ManagedProfiles == {"gcp", "platform"}

-----------------------------------------------------------------------------
(* The profile.                                                            *)

\* `configured' is the settings file's profile, "" when it names none.
ProfileRefused(var, configured) ==
    \/ var = Emptied
    \/ HasValue(var) /\ var \notin RUNTIME_PROFILES
    \/ var = Unset /\ configured # Blank /\ configured \notin RUNTIME_PROFILES

\* mutant: an absent variable is read as a choice of "local"
ResolveProfileSilently(var, configured) ==
    IF HasValue(var) THEN [profile |-> var, explicit |-> TRUE]
    ELSE [profile |-> IF configured = Blank THEN "local" ELSE configured, explicit |-> TRUE]

\* An absent variable is no choice; the settings file may make it.
ResolveProfile(var, configured) ==
    IF HasValue(var) THEN [profile |-> var, explicit |-> TRUE]
    ELSE [profile |-> IF configured = Blank THEN "local" ELSE configured,
          explicit |-> configured # Blank]

-----------------------------------------------------------------------------
(* Residency and the controls.                                             *)

\* The file's region is a literal, or "var" for ${MKT_GOV_REGION:-...}.
InterpolationRefused(env, file) == file.region = "var" /\ env.region = Emptied

Region(env, file) ==
    IF file.region = "var" THEN SettingOrDefault(env.region, "asia-southeast1") ELSE file.region

MarketRegion == [JP |-> "asia-northeast1", AU |-> "australia-southeast1", SG |-> "asia-southeast1"]

\* The market an override of the file may move to another region.
ResidencyRefused(env, file, profile) ==
    LET market == SettingOrDefault(env.market, file.market)
    IN  \/ env.market = Emptied
        \/ /\ profile = "gcp"
           /\ \/ market \notin DOMAIN MarketRegion
              \/ market \in DOMAIN MarketRegion
                 /\ Region(env, file) # (IF market \in DOMAIN file.overrides
                                         THEN file.overrides[market] ELSE MarketRegion[market])

\* Unset is on; only a boolean is a choice.
SwitchRefused(switch) == switch \notin {Unset, "on", "off"}

BooleanSetting(switch) == switch # "off"

\* mutant: a console is enough, whatever edge it is behind
RoutingRefusedWithoutConsole(env, profile) ==
    /\ BooleanSetting(env.routing)
    /\ profile \in ManagedProfiles
    /\ ~HasValue(env.reviewUrl)

\* Routing that is on must know its console, and behind the IAP edge also the
\* bearer audience the edge accepts.
RoutingRefused(env, profile) ==
    /\ BooleanSetting(env.routing)
    /\ \/ profile \in ManagedProfiles /\ ~HasValue(env.reviewUrl)
       \/ profile = "gcp" /\ (~HasValue(env.reviewAudience) \/ env.reviewAudience = "backend service")

GuardrailRefused(env, file, profile) ==
    /\ BooleanSetting(env.guardrail)
    /\ profile \in ManagedProfiles
    /\ file.guardrail[profile] = "model_armor"
    /\ ~file.template

-----------------------------------------------------------------------------
(* Settings.load.                                                          *)

LoadRefused(env, file) ==
    LET profile == ResolveProfile(env.profile, file.profile).profile
    IN  \/ InterpolationRefused(env, file)
        \/ ProfileRefused(env.profile, file.profile)
        \/ SwitchRefused(env.guardrail) \/ SwitchRefused(env.routing)
        \/ ResidencyRefused(env, file, profile)
        \/ RoutingRefused(env, profile)
        \/ GuardrailRefused(env, file, profile)

\* Whatever else the file says of consent or of the switches is dropped.
Load(env, file) ==
    LET choice == ResolveProfile(env.profile, file.profile)
    IN  [profile   |-> choice.profile,
         explicit  |-> choice.explicit,
         identity  |-> file.identity[choice.profile],
         guardrail |-> IF BooleanSetting(env.guardrail)
                       THEN file.guardrail[choice.profile] ELSE "off",
         routing   |-> IF BooleanSetting(env.routing)
                       THEN file.routing[choice.profile] ELSE "off"]

-----------------------------------------------------------------------------
(* Where the bound review router would send a case.                        *)

\* PlatformReviewRouter.__init__ refuses, and with it the whole request.
RouterRefused(env) == env.reviewAudience \in {Emptied, "backend service"}

\* The bearer a submission carries: a token minted for the edge, or the static one.
HandOff(env, s) ==
    CASE s.routing = "off"    -> "off"
      [] s.routing = "local"  -> "outbox"
      [] s.routing = "onprem" -> "failed"
      [] s.routing = "platform" /\ ~RouterRefused(env) ->
            IF ~HasValue(env.reviewUrl) THEN "failed"
            ELSE IF env.reviewAudience = Unset THEN "static bearer" ELSE "edge bearer"
      [] OTHER                -> "error"

-----------------------------------------------------------------------------
(* The API's own refusals at import, and its exposure guard.               *)

Wildcards == {"*", "'*'", "null", "*.*", "https://*.client.example"}

FrameAncestorsRefused(env) == env.frame = Emptied \/ env.frame \in Wildcards

CorsRefused(env) == env.cors \in Wildcards

ApiRefused(env, file) ==
    \/ FrameAncestorsRefused(env)
    \/ ProfileRefused(env.profile, Blank)
    \/ CorsRefused(env)
    \/ LoadRefused(env, file)

\* The agent is built when it is first reached; an emptied MCP server refuses it.
AgentRefused(env, file) == LoadRefused(env, file) \/ env.mcp = Emptied

\* What the bound identity adapter's class declares.  "" is no binding; a class
\* that declares nothing, or a kind nobody knows, asserts nothing.
EndUserAuthKind(class) ==
    CASE class \in {"iap", "client idp"} -> "verified"
      [] class = "onprem"                -> "unimplemented"
      [] OTHER                           -> "client-asserted"

\* mutant: any deliberate profile stands the guard down
EndUserAuthenticatedByProfile(s) == s.explicit

EndUserAuthenticated(s) == s.explicit /\ EndUserAuthKind(s.identity) = "verified"
=============================================================================
