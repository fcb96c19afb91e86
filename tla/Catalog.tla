------------------------------ MODULE Catalog -------------------------------
(***************************************************************************)
(* The model catalog of a client (gateway/catalog/models.ts).              *)
(*                                                                         *)
(* A request names a client of a configuration and the format it expects.  *)
(* Each process looks into its own cache, then into the cache it shares    *)
(* with the others, and otherwise asks every available provider at once,   *)
(* merges what they answered under the routes of the client, and fills     *)
(* both caches.                                                            *)
(*                                                                         *)
(* `Setups' are the configurations as one client sees them, in the form of *)
(* module Routing; `Family' maps the physical Antigravity variants to the  *)
(* family they belong to; `Published' is the limit a provider publishes    *)
(* for a model, `Nil' if it publishes none.                                *)
(***************************************************************************)
EXTENDS Routing

\* `Worlds' bounds what happens together: the processes, the requests, the
\* outcomes of a fetch and the length of time.
CONSTANTS Nil, Worlds, Setups, Family, Published, CodexCatalog,
          Ttl, MaxTtl, MaxEntries, DefaultLimit

VARIABLES world,     \* the world of this behaviour
          catTime,   \* the clock
          local,     \* per process, the entries of its cache, oldest first
          shared,    \* the shared cache
          asking,    \* per process, the request it works on
          answered,  \* per process, the last answer
          reports    \* the reports to the health objects of scope "catalog"

catalogVars == <<world, catTime, local, shared, asking, answered, reports>>

Least(S) == CHOOSE x \in S : \A y \in S : x <= y
\* modelsCacheKey(): configuration, client, headers and format.
Key(req) == req
NoAnswer == [status |-> Nil]
Idle == [at |-> "idle"]

-----------------------------------------------------------------------------
\* antigravityFamilyModels(): the enabled variants of a family that is not
\* itself configured.
FamilyModels(models, family) ==
    IF family \in models \/ family \in DOMAIN Family THEN {}
    ELSE {m \in models \cap DOMAIN Family : Family[m] = family}

\* antigravityModelGroups(), the groups that stand for variants.
Groups(models) ==
    {Family[m] : m \in {v \in models \cap DOMAIN Family : Family[v] \notin models}}

SupportsProviderModel(cfg, p, model) ==
    \/ model \in cfg.models[p]
    \/ cfg.type[p] = "antigravity" /\ FamilyModels(cfg.models[p], model) # {}

HiddenVariant(cfg, p, model) ==
    /\ cfg.type[p] = "antigravity" /\ model \in DOMAIN Family
    /\ Family[model] \notin cfg.models[p]

\* limit() of a family: known only if every enabled variant was published.
FamilyLimit(entries, variants) ==
    LET limits == {e.limit : e \in entries} IN
    IF {e.id : e \in entries} = variants /\ Nil \notin limits THEN Least(limits) ELSE Nil

\* antigravityCatalogModels(): physical entries stay for explicit aliases.
AntigravityCatalogModels(models, configured) ==
    LET selected == {m \in models : m.id \in configured}
        entries(f) == {m \in selected : m.id \in FamilyModels(configured, f)}
        families == {f \in Groups(configured) : entries(f) # {}}
    IN  selected \cup
        {[id |-> f, limit |-> FamilyLimit(entries(f), FamilyModels(configured, f))] : f \in families}

CatalogModels(cfg, p, models) ==
    IF cfg.type[p] = "antigravity" THEN AntigravityCatalogModels(models, cfg.models[p]) ELSE models

-----------------------------------------------------------------------------

\* exposedClientModels(): the names a client may use for a provider's model.
ExposedClientModels(cfg, p, model) ==
    LET routes == ModelRoutes(cfg, p) IN
    IF ~SupportsProviderModel(cfg, p, model) THEN {}
    ELSE (IF model \in DOMAIN routes \/ HiddenVariant(cfg, p, model) THEN {} ELSE {model})
         \cup {m \in DOMAIN routes : routes[m].model = model /\ p \in routes[m].providers}

\* Everything `providers' expose: `results' maps the ones that succeeded to
\* the models they returned.
Exposed(cfg, results, providers) ==
    UNION {UNION {{[id |-> id, from |-> p, model |-> m.id, limit |-> m.limit] :
                      id \in ExposedClientModels(cfg, p, m.id)} :
                  m \in CatalogModels(cfg, p, results[p])} :
           p \in DOMAIN results \cap providers}

\* aggregateClientModels(): the first provider of the configuration gives a
\* name its entry, with any of the models that stand behind the name there.
FirstOf(cfg, entries) ==
    {e \in entries : \A f \in entries : f.id = e.id /\ f.from # e.from => Before(cfg, e.from, f.from)}

AggregateClientModels(cfg, results, providers) ==
    {e \in FirstOf(cfg, Exposed(cfg, results, providers)) : e.id # "codex-auto-review"}

\* codexModelIds(): the names again, the review model among them.
CodexModelIds(cfg, results) ==
    {e.id : e \in Exposed(cfg, results, DOMAIN results)}

\* antigravityCodexModel(): the account's limits, the client's metadata.
AntigravityCodexModel(e) == e

\* aggregateCodexModels(): Antigravity entries, then those an account itself
\* describes, then the published catalog; its metadata replaces the limits.
AggregateCodexModels(cfg, results) ==
    LET ids == CodexModelIds(cfg, results)
        of(type) == {p \in DOMAIN results : cfg.type[p] = type}
        native == AggregateClientModels(cfg, results, of("antigravity"))
        account == {e \in AggregateClientModels(cfg, results, of("codex")) :
                       e.id \notin {n.id : n \in native}}
        named == {e.id : e \in native \cup account}
        standard == {e \in Exposed(cfg, results, DOMAIN results) :
                        e.id \in (CodexCatalog \cap ids) \ named}
    IN  {AntigravityCodexModel(e) : e \in native} \cup account
        \cup {[e EXCEPT !.limit = Nil] : e \in standard}

\* anthropicModelInfo(): an unknown limit is given the client's default.
AnthropicModelInfo(e) == [e EXCEPT !.limit = IF e.limit = Nil THEN DefaultLimit ELSE e.limit]

\* modelsPayload()
ModelsPayload(cfg, results, format) ==
    LET standard == AggregateClientModels(cfg, results, DOMAIN results) IN
    CASE format = "codex" -> AggregateCodexModels(cfg, results)
      [] format = "anthropic" -> {AnthropicModelInfo(e) : e \in standard}
      [] format = "openai" -> standard

-----------------------------------------------------------------------------
\* ModelsCache: read() forgets an expired entry, write() all of them, and then
\* the oldest one if the cache is full.
Live(entries, time) == SelectSeq(entries, LAMBDA e : e.expires > time)
HasKey(entries, k) == \E i \in DOMAIN entries : entries[i].key = k
EntryOf(entries, k) == entries[CHOOSE i \in DOMAIN entries : entries[i].key = k]

CacheRead(entries, k, time) ==
    SelectSeq(entries, LAMBDA e : e.key # k \/ e.expires > time)

CacheWrite(entries, k, payload, ttl, time) ==
    LET live == Live(entries, time)
        kept == IF Len(live) >= MaxEntries THEN Tail(live) ELSE live
        entry == [key |-> k, expires |-> time + ttl, payload |-> payload]
    IN  CASE ttl <= 0 -> entries
          [] HasKey(kept, k) -> [i \in DOMAIN kept |-> IF kept[i].key = k THEN entry ELSE kept[i]]
          [] OTHER -> Append(kept, entry)

Answer(n, status, payload) ==
    /\ answered' = [answered EXCEPT ![n] =
                       [status |-> status, req |-> asking[n].req, payload |-> payload]]
    /\ asking' = [asking EXCEPT ![n] = Idle]

CatalogInit ==
    /\ world \in Worlds
    /\ catTime = 0
    /\ local = [n \in world.nodes |-> <<>>]
    /\ shared = <<>>
    /\ asking = [n \in world.nodes |-> Idle]
    /\ answered = [n \in world.nodes |-> NoAnswer]
    /\ reports = {}

\* handleModels(): the request arrives and the process's own cache is read.
HandleModels(n) ==
    /\ asking[n] = Idle
    /\ \E req \in world.requests :
          LET entries == CacheRead(local[n], Key(req), catTime)
          IN  /\ local' = [local EXCEPT ![n] = IF Ttl > 0 THEN entries ELSE @]
              /\ IF Ttl > 0 /\ HasKey(entries, Key(req))
                 THEN /\ answered' = [answered EXCEPT ![n] =
                             [status |-> 200, req |-> req, payload |-> EntryOf(entries, Key(req)).payload]]
                      /\ UNCHANGED asking
                 ELSE /\ asking' = [asking EXCEPT ![n] =
                             [at |-> IF Ttl > 0 THEN "shared" ELSE "select", req |-> req]]
                      /\ UNCHANGED answered
    /\ UNCHANGED <<world, catTime, shared, reports>>

\* The mutant lets a copy of a shared entry live as long as a new one.
SharedTtlAnew(expires) == Ttl
SharedTtl(expires) == Least({Ttl, expires - catTime})

\* The shared cache answers; what it holds is checked before it is used.
SharedHit(n) ==
    /\ asking[n].at = "shared"
    /\ HasKey(shared, Key(asking[n].req))
    /\ LET k == Key(asking[n].req)
           cached == EntryOf(shared, k)
       IN  /\ cached.expires > catTime /\ cached.expires <= catTime + MaxTtl
           /\ local' = [local EXCEPT ![n] =
                  CacheWrite(@, k, cached.payload, SharedTtl(cached.expires), catTime)]
           /\ Answer(n, 200, cached.payload)
    /\ UNCHANGED <<world, catTime, shared, reports>>

\* It has nothing that can be used, or cannot be reached.
SharedMiss(n) ==
    /\ asking[n].at = "shared"
    /\ asking' = [asking EXCEPT ![n] = [at |-> "select", req |-> asking[n].req]]
    /\ UNCHANGED <<world, catTime, local, shared, answered, reports>>

\* collectModels(): the available providers of the client, one account each.
CatalogTargets(cfg) ==
    {p \in ToSet(cfg.order) : p \notin cfg.off /\ p \in cfg.allowed /\ Credentials(cfg, p) # {}}

Select(n) ==
    /\ asking[n].at = "select"
    /\ \E available \in SUBSET CatalogTargets(Setups[asking[n].req.setup]) :
          IF available = {}
          THEN Answer(n, 503, {})
          ELSE /\ asking' = [asking EXCEPT ![n] =
                      [at |-> "fetch", req |-> asking[n].req, asked |-> available,
                       waits |-> available, results |-> <<>>, proxies |-> {}]]
               /\ UNCHANGED answered
    /\ UNCHANGED <<world, catTime, local, shared, reports>>

-----------------------------------------------------------------------------
\* fetchProviderModels(): how one provider's catalog request ended.
\*   "whole", "part"  it returned all or some of the models it serves
\*   "local"          the adapter answered from the configuration
\*   "provider", "credential", "other"  an error status, by whom it is held
\*                    against (healthFailureScope)
\*   "invalid"        not a catalog; "failed" no usable answer in time
\*   "unprepared"     no request could be prepared within the deadline
\*   "oauth"          the account rejected a recovery; "proxy" the proxy failed
\*   "cancelled"      the client has gone
Succeeds(outcome) == outcome \in {"whole", "part", "local"}

Returned(cfg, p, outcome) ==
    {[id |-> m, limit |-> Published[m]] :
        m \in CASE outcome = "part" -> {CHOOSE m \in cfg.models[p] : TRUE}
                [] OTHER -> cfg.models[p]}

\* What is reported to the health objects.
Blamed(p, outcome) ==
    CASE outcome \in {"whole", "part"} -> {[of |-> p, kind |-> "success"]}
      [] outcome \in {"provider", "invalid", "failed"} -> {[of |-> p, kind |-> "failure"]}
      [] outcome = "credential" -> {[of |-> p, kind |-> "credential"]}
      [] OTHER -> {}

FetchProviderModels(n) ==
    /\ asking[n].at = "fetch"
    /\ \E p \in asking[n].waits, outcome \in world.outcomes :
          LET cfg == Setups[asking[n].req.setup] IN
          /\ asking' = [asking EXCEPT
                ![n].waits = @ \ {p},
                ![n].results = IF Succeeds(outcome) THEN @ @@ (p :> Returned(cfg, p, outcome)) ELSE @,
                ![n].proxies = IF outcome = "proxy" THEN @ \cup {p} ELSE @]
          /\ reports' = Blamed(p, outcome)
    /\ UNCHANGED <<world, catTime, local, shared, answered>>

\* Every provider has answered: merge, keep and answer.  A failure of every
\* proxy is told as it is; the write to the shared cache may fail.
Collected(n) ==
    /\ asking[n].at = "fetch" /\ asking[n].waits = {}
    /\ LET req == asking[n].req
           results == asking[n].results
           payload == [models |-> ModelsPayload(Setups[req.setup], results, req.format),
                       made |-> catTime, req |-> req, results |-> results]
           put == IF Ttl > 0
                  THEN Append(SelectSeq(shared, LAMBDA e : e.key # Key(req)),
                              [key |-> Key(req), expires |-> catTime + Ttl, payload |-> payload])
                  ELSE shared
       IN  IF DOMAIN results = {}
           THEN /\ Answer(n, IF asking[n].proxies = asking[n].asked THEN 503 ELSE 502, {})
                /\ UNCHANGED <<local, shared>>
           ELSE /\ local' = [local EXCEPT ![n] = CacheWrite(@, Key(req), payload, Ttl, catTime)]
                /\ shared' \in {shared, put}
                /\ Answer(n, 200, payload)
    /\ UNCHANGED <<world, catTime, reports>>

\* Time passes; the shared cache drops what has expired when it likes.
Pass ==
    /\ catTime < world.time
    /\ catTime' = catTime + 1
    /\ shared' \in {shared, Live(shared, catTime + 1)}
    /\ answered' = [n \in world.nodes |-> NoAnswer]
    /\ UNCHANGED <<world, local, asking, reports>>

CatalogNext ==
    \/ \E n \in world.nodes :
          \/ HandleModels(n)
          \/ SharedHit(n)
          \/ SharedMiss(n)
          \/ Select(n)
          \/ FetchProviderModels(n)
          \/ Collected(n)
    \/ Pass

CatalogSpec == CatalogInit /\ [][CatalogNext]_catalogVars

-----------------------------------------------------------------------------
\* The catalog a client is given is the one of its configuration and format,
\* and never older than the lifetime of a cache entry, whichever of the two
\* caches it comes from and however often it was copied (handleModels).
AnswersAreCurrent ==
    \A n \in world.nodes : answered[n].status = 200 =>
        /\ answered[n].payload.req = answered[n].req
        /\ catTime - answered[n].payload.made < IF Ttl > 0 THEN Ttl ELSE 1

\* configuredModelRoute() over the names of providerModelNames().
Named(cfg) ==
    [cfg EXCEPT !.models = [p \in DOMAIN cfg.models |->
        cfg.models[p] \cup IF cfg.type[p] = "antigravity" THEN Groups(cfg.models[p]) ELSE {}]]

Names(cfg) ==
    UNION {Named(cfg).models[p] \cup DOMAIN ModelRoutes(cfg, p) : p \in ToSet(cfg.order)}

Behind(cfg, p, model) == IF model \in cfg.models[p] THEN {model} ELSE FamilyModels(cfg.models[p], model)

\* Every model of a catalog would be routed to the provider it is listed for,
\* as the model it describes, and promises no larger context than each variant
\* that may serve it; and every name that would be routed to a model some
\* provider returned is listed, but for the physical variants of a family and
\* the review model (exposedClientModels against configuredModelRoute).
ListedIsServed ==
    \A n \in world.nodes : answered[n].status = 200 =>
        LET req == answered[n].req
            cfg == Setups[req.setup]
            models == answered[n].payload.models
            results == answered[n].payload.results
        IN  /\ \A e \in models :
                  /\ Eligible(Named(cfg), e.from, e.id)
                  /\ UpstreamModel(cfg, e.from, e.id) = e.model
                  /\ e.limit # Nil /\ req.format # "anthropic" =>
                        \A m \in Behind(cfg, e.from, e.model) :
                            Published[m] # Nil /\ e.limit <= Published[m]
            /\ \A p \in DOMAIN results, id \in Names(cfg) \ {"codex-auto-review"} :
                  /\ Eligible(Named(cfg), p, id)
                  /\ Behind(cfg, p, UpstreamModel(cfg, p, id)) \cap {m.id : m \in results[p]} # {}
                  /\ id \in DOMAIN ModelRoutes(cfg, p) \/ ~HiddenVariant(cfg, p, id)
                  /\ req.format # "codex"
                  => \E e \in models : e.id = id
=============================================================================
