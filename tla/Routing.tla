------------------------------ MODULE Routing -------------------------------
(***************************************************************************)
(* Which accounts may serve a request (gateway/routing/routing.ts and the  *)
(* availability policies of the providers).                                *)
(*                                                                         *)
(* `cfg' is the configuration a request works with: the providers in order *)
(* with their type, priority, credentials and switches, and the model      *)
(* routes of its three layers.  `see' is what was read for the selection:  *)
(* for every health object "free", "cooling", "quota" (cooling for quota)  *)
(* or "failed" (the read failed), the readiness, mode and quota view of    *)
(* each account.                                                           *)
(***************************************************************************)
EXTENDS Integers, Sequences, FiniteSets, SequencesExt

Native == {"codex", "antigravity", "claude", "xai"}
NoMode == "any"
ProviderKey(p) == <<"provider", p>>
CredentialKey(c) == <<"key", c>>
ModelQuotaKey(c) == <<"quota", c>>

Credentials(cfg, p) == {c \in ToSet(cfg.creds[p]) : c \notin cfg.off}

-----------------------------------------------------------------------------
\* modelRoutesForProvider(): the provider's layer wins over the client's, that
\* one over the global one.
ModelRoutes(cfg, p) == cfg.own[p] @@ cfg.client @@ cfg.global

UpstreamModel(cfg, p, model) ==
    IF model \in DOMAIN ModelRoutes(cfg, p)
    THEN ModelRoutes(cfg, p)[model].model ELSE model

\* configuredModelRoute(): one provider's eligibility for a model.
Eligible(cfg, p, model) ==
    LET routes == ModelRoutes(cfg, p) IN
    /\ p \notin cfg.off /\ p \in cfg.allowed
    /\ model \in DOMAIN routes => p \in routes[model].providers
    /\ UpstreamModel(cfg, p, model) \in cfg.models[p]
    /\ Credentials(cfg, p) # {}

\* sortRoutedProviders(): priority first, then the order of the configuration.
Before(cfg, p, q) ==
    LET place(r) == CHOOSE i \in DOMAIN cfg.order : cfg.order[i] = r IN
    \/ cfg.prio[p] > cfg.prio[q]
    \/ cfg.prio[p] = cfg.prio[q] /\ place(p) < place(q)

\* resolveModelRoute(): an Antigravity provider without a variant is dropped.
Targets(cfg, model) ==
    LET found == {p \in ToSet(cfg.order) :
                     /\ Eligible(cfg, p, model)
                     /\ cfg.type[p] = "antigravity" =>
                           UpstreamModel(cfg, p, model) \in cfg.variants[p]}
    IN  SetToSortSeq(found, LAMBDA p, q : Before(cfg, p, q))

-----------------------------------------------------------------------------
\* getProviderAvailability() under applyHealthReadPolicy(): a read that failed
\* is fatal only where health also holds account quotas.
ProviderOpen(cfg, see, p) ==
    \/ see.health[ProviderKey(p)] = "free"
    \/ /\ see.health[ProviderKey(p)] = "failed"
       /\ cfg.type[p] \notin {"codex", "antigravity"}

\* validateSiwcRequest(): what a ChatGPT sign-in account does not accept.
SiwcRefuses(see, c) == see.mode[c] = "siwc" /\ ~see.siwcOk

\* codexRequestAvailability(): the mode of the running request, and the above.
Unsupported(see, c, mode) ==
    (mode # NoMode /\ see.mode[c] # mode) \/ SiwcRefuses(see, c)

\* oauthAccountAvailability(), where the account object is asked.
Readiness(see, c) ==
    CASE see.readiness = "failed" -> "failed" [] ~see.ready[c] -> "unready" [] OTHER -> "free"

\* antigravityModelAvailability(): the quota object of the account and model.
ModelQuota(see, c) ==
    LET h == see.health[ModelQuotaKey(c)] IN IF h \in {"free", "failed"} THEN h ELSE "quota"

\* evaluateAvailability(): the reason a credential is or is not available.
CredentialCheck(cfg, see, p, c, mode) ==
    LET h == see.health[CredentialKey(c)]
        codex == cfg.type[p] = "codex"
        antigravity == cfg.type[p] = "antigravity"
    IN  CASE h = "failed" -> IF codex \/ antigravity THEN "failed" ELSE "free"
          [] codex /\ Readiness(see, c) = "failed" -> "failed"
          [] codex /\ Unsupported(see, c, mode) -> "unsupported"
          [] codex /\ Readiness(see, c) # "free" -> Readiness(see, c)
          [] antigravity /\ h = "free" ->
                IF Readiness(see, c) # "free" THEN Readiness(see, c) ELSE ModelQuota(see, c)
          [] OTHER -> h

\* claudeQuotaRoute() and xaiQuotaRoute(): what the account objects answered.
Known(cfg, see, p, c) ==
    /\ see.health[ProviderKey(p)] = "free" /\ see.health[CredentialKey(c)] = "free"
    /\ see.view[c] # "unknown"

AllBlocked(cfg, see, p, excluded) ==
    LET asked == Credentials(cfg, p) \ excluded IN
    asked # {} /\ \A c \in asked : Known(cfg, see, p, c) /\ see.view[c] # "subscription"

\* Subscription accounts first; paid usage only once no account is left.
ClaudeQuotaRoute(cfg, see, p, excluded) ==
    LET asked == {c \in Credentials(cfg, p) \ excluded : Known(cfg, see, p, c)}
        free == {c \in asked : see.view[c] = "subscription"}
    IN  CASE free # {} -> free
          [] cfg.extra[p] /\ AllBlocked(cfg, see, p, excluded) ->
                {c \in asked : see.view[c] = "extra"}
          [] OTHER -> {}

\* xaiQuotaRoute() decides as claudeQuotaRoute() does.
XaiQuotaRoute(cfg, see, p, excluded) == ClaudeQuotaRoute(cfg, see, p, excluded)

Routed(cfg, see, p, excluded) ==
    CASE cfg.type[p] = "claude" /\ ~see.counting -> ClaudeQuotaRoute(cfg, see, p, excluded)
      [] cfg.type[p] = "xai" /\ ~see.counting -> XaiQuotaRoute(cfg, see, p, excluded)
      [] OTHER -> Credentials(cfg, p)

\* selectAvailableTargetWithDetails(): the candidates of one provider.
Candidates(cfg, see, p, excluded, mode) ==
    {c \in Routed(cfg, see, p, excluded) \ excluded :
        ProviderOpen(cfg, see, p) /\ CredentialCheck(cfg, see, p, c, mode) = "free"}

\* chooseAffinityCandidate(): the best credentials of the best provider; round
\* robin takes any of the equals, the others the first of the configuration.
Preferred(cfg, p, candidates) ==
    LET top == {c \in candidates : \A d \in candidates : cfg.cprio[c] >= cfg.cprio[d]}
    IN  IF cfg.rr[p] THEN top
        ELSE {SelectSeq(cfg.creds[p], LAMBDA c : c \in top)[1]}
=============================================================================
