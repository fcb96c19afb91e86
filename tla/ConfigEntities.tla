----------------------------- MODULE ConfigEntities -----------------------------
(***************************************************************************)
(* The configuration as rows of SQL tables, and what each service of the   *)
(* control plane does to them (src/src/control: compiler.ts,               *)
(* projection.ts, recovery.ts, secret-repository.ts, validation.ts and     *)
(* services/*.ts; the reference rules of src/src/config/schema.ts).        *)
(*                                                                         *)
(* A table is a function from the ids of its rows to the rows; a row that  *)
(* was deleted stays in its table with live = FALSE.  Names, URLs and      *)
(* priorities are left out.  A service works on a unit of work             *)
(*                                                                         *)
(*    w = [rows, version, ok, stored, pending]                             *)
(*                                                                         *)
(* and an exception of the code is ok = FALSE.  An id made in version v is *)
(* <<v, kind, ...>>, which is as unique as the code's random UUIDs because *)
(* every version is committed once.                                        *)
(***************************************************************************)
EXTENDS Integers, FiniteSets, Sequences, SequencesExt, TLC, Functions

CONSTANTS
    None,      \* null or undefined
    Variant,   \* physical thinking level -> the family it belongs to
    Accounts   \* OAuth account -> the provider that owns it

Keep == "keep"                          \* SECRET_PLACEHOLDER
SearchOwner == <<"web_search">>         \* the owner of the search key
Natives == {"antigravity", "codex"}

-----------------------------------------------------------------------------
(* Tables. *)

Live(table) == {i \in DOMAIN table : table[i].live}

Put(table, id, row) == (id :> row) @@ table

Drop(table, ids) == Restrict(table, DOMAIN table \ ids)

Fail(w) == [w EXCEPT !.ok = FALSE]

Require(w, condition) == IF condition THEN w ELSE Fail(w)

\* reorder: the new order names every live row once.
Reorder(w, name, ids, order) ==
    IF Range(order) = ids /\ Len(order) = Cardinality(ids)
    THEN [w EXCEPT !.rows[name] =
            [i \in DOMAIN @ |->
               IF i \in ids
               THEN [@[i] EXCEPT !.position = CHOOSE n \in DOMAIN order : order[n] = i]
               ELSE @[i]]]
    ELSE Fail(w)

-----------------------------------------------------------------------------
(* Model names: an Antigravity provider also answers to the family of its  *)
(* thinking levels, unless the family is configured itself.                *)

FamilyModels(models, family) ==
    IF family \in models \/ family \in DOMAIN Variant THEN {}
    ELSE {m \in models \cap DOMAIN Variant : Variant[m] = family}

ProviderModelNames(type, models) ==
    models \cup
    (IF type = "antigravity"
     THEN {f \in Range(Variant) : FamilyModels(models, f) # {}} ELSE {})

SupportsProviderModel(type, models, m) ==
    m \in models \/ (type = "antigravity" /\ FamilyModels(models, m) # {})

ModelsOf(rows, p) == {k[2] : k \in {k \in Live(rows.models) : k[1] = p}}

ProviderModelSupport(rows) ==
    [p \in Live(rows.providers) |->
        ProviderModelNames(rows.providers[p].type, ModelsOf(rows, p))]

\* modelFamily: the live siblings of one thinking level.
ModelFamily(rows, key) ==
    IF /\ key \in Live(rows.models) /\ key[1] \in Live(rows.providers)
       /\ rows.providers[key[1]].type = "antigravity"
       /\ key[2] \in DOMAIN Variant
       /\ Variant[key[2]] \notin ModelsOf(rows, key[1])
    THEN {k \in Live(rows.models) :
             k[1] = key[1] /\ k[2] \in DOMAIN Variant /\ Variant[k[2]] = Variant[key[2]]}
    ELSE {}

-----------------------------------------------------------------------------
(* Secrets: immutable rows, staged with the unit of work that needs them.  *)

SecretText(w, id) == (w.pending @@ w.stored)[id]

\* seal: the id under which a value is kept ...
SealedId(w, owner, value, previous) ==
    IF value = Keep \/ (previous # None /\ SecretText(w, previous) = value) THEN previous
    ELSE <<w.version, "secret", owner>>

\* ... and the row it stages; a new owner must give a value.
Staged(w, owner, value, previous) ==
    IF value = Keep THEN Require(w, previous # None)
    ELSE IF previous # None /\ SecretText(w, previous) = value THEN w
    ELSE [w EXCEPT !.pending = Put(@, <<w.version, "secret", owner>>, value)]

-----------------------------------------------------------------------------
(* Routes.  An input is a set of records [id, name, model, providers] whose *)
(* id may be None; providers = None means the route is not restricted.      *)

Owned(route, scope, owner) == route.scope = scope /\ route.owner = owner

RouteRow(scope, owner, r) ==
    [scope |-> scope, owner |-> owner, name |-> r.name, model |-> r.model,
     restrict |-> r.providers # None, live |-> TRUE]

RouteTargets(id, r) == {id} \X (IF r.providers = None THEN {} ELSE r.providers)

\* replaceRoutes: a route keeps its id when it names it, or else by its alias.
RouteNamed(routes, mine, r) ==
    {i \in mine : IF r.id # None THEN i = r.id ELSE routes[i].name = r.name /\ routes[i].live}

RouteId(w, scope, owner, mine, r) ==
    LET named == RouteNamed(w.rows.routes, mine, r)
    IN  IF named # {} THEN CHOOSE i \in named : TRUE
        ELSE <<w.version, "route", scope, owner, r.name>>

RoutesReplaced(w, scope, owner, mine, inputs, next) ==
    IF /\ \A r \in inputs : r.id \in DOMAIN w.rows.routes => r.id \in mine
       /\ Cardinality(DOMAIN next) = Cardinality(inputs)
    THEN [w EXCEPT
            !.rows.routes = [i \in DOMAIN next |-> RouteRow(scope, owner, next[i])] @@ Drop(@, mine),
            !.rows.targets = [t \in UNION {RouteTargets(i, next[i]) : i \in DOMAIN next} |->
                                [live |-> TRUE]]
                             @@ Drop(@, {t \in DOMAIN @ : t[1] \in mine})]
    ELSE Fail(w)

ById(pairs) == [i \in {x[1] : x \in pairs} |-> (CHOOSE x \in pairs : x[1] = i)[2]]

ReplaceOwned(w, scope, owner, mine, inputs) ==
    RoutesReplaced(w, scope, owner, mine, inputs,
                   ById({<<RouteId(w, scope, owner, mine, r), r>> : r \in inputs}))

ReplaceRoutes(w, scope, owner, inputs) ==
    ReplaceOwned(w, scope, owner,
        {i \in DOMAIN w.rows.routes : Owned(w.rows.routes[i], scope, owner)}, inputs)

\* detachProviderRoutes: routes that lose their model or their last provider
\* are dropped, and so are the targets that no longer serve the model.
DetachedTargets(rows, support, p, removed, models) ==
    {t \in DOMAIN rows.targets :
        \/ removed /\ t[2] = p
        \/ t[1] \notin Live(rows.routes)
        \/ LET m == rows.routes[t[1]].model
           IN  (removed \/ m \in models) /\ ~(t[2] \in DOMAIN support /\ m \in support[t[2]])}

\* Mutant: a route that has lost its last provider is kept.
DropUnsupportedOnly(rows, support, detached, p, removed, models) ==
    {i \in Live(rows.routes) :
        LET r == rows.routes[i]
        IN  IF r.scope = "provider" THEN removed /\ r.owner = p
            ELSE (removed \/ r.model \in models) /\ r.model \notin UNION Range(support)}

DroppedRoutes(rows, support, detached, p, removed, models) ==
    LET supported == UNION Range(support)
        held == {t[1] : t \in Live(rows.targets) \ detached}
    IN  {i \in Live(rows.routes) :
           LET r == rows.routes[i]
           IN  IF r.scope = "provider" THEN removed /\ r.owner = p
               ELSE /\ removed \/ r.model \in models
                    /\ r.model \notin supported \/ (r.restrict /\ i \notin held)}

WithoutRoutes(rows, gone, detached) ==
    [rows EXCEPT !.routes = Drop(@, gone),
                 !.targets = Drop(@, {t \in DOMAIN @ : t[1] \in gone} \cup detached)]

DetachSupported(rows, support, p, removed, models) ==
    LET detached == DetachedTargets(rows, support, p, removed, models)
    IN  WithoutRoutes(rows, DroppedRoutes(rows, support, detached, p, removed, models), detached)

DetachProviderRoutes(rows, p, removed, models) ==
    IF ~removed /\ models = {} THEN rows
    ELSE DetachSupported(rows,
            Drop(ProviderModelSupport(rows), IF removed THEN {p} ELSE {}), p, removed, models)

-----------------------------------------------------------------------------
(* Providers and their credentials. *)

CredentialRow(p, position, input, secret) ==
    [provider |-> p, position |-> position, type |-> input.auth.type,
     secret |-> secret,
     account |-> IF input.auth.type = "oauth" THEN input.auth.account ELSE None,
     group |-> input.group, live |-> TRUE]

\* writeCredential
PutCredential(w, p, input, position, id, previous) ==
    IF input.auth.type = "oauth"
    THEN [w EXCEPT !.rows.credentials = Put(@, id, CredentialRow(p, position, input, None))]
    ELSE [Staged(w, id, input.auth.api_key, previous) EXCEPT !.rows.credentials =
            Put(@, id, CredentialRow(p, position, input,
                                     SealedId(w, id, input.auth.api_key, previous)))]

WriteCredential(w, p, input, position, existing) ==
    IF existing = None
    THEN PutCredential(w, p, input, position, <<w.version, "credential", position>>, None)
    ELSE PutCredential(w, p, input, position, existing, w.rows.credentials[existing].secret)

\* The live thinking levels of the family a new level joins.
Siblings(rows, id, input, m) ==
    IF input.type = "antigravity" /\ m \in DOMAIN Variant /\ Variant[m] \notin input.models
    THEN {k \in Live(rows.models) :
             k[1] = id /\ k[2] \in DOMAIN Variant /\ Variant[k[2]] = Variant[m]}
    ELSE {}

\* model -> the levels whose price and context window it inherits
Inherited(rows, id, input) ==
    LET joins == {m \in input.models : /\ <<id, m>> \notin Live(rows.models)
                                       /\ Siblings(rows, id, input, m) # {}}
    IN  [m \in joins |-> Siblings(rows, id, input, m)]

PriceOf(rows, k) == IF k \in Live(rows.prices) THEN rows.prices[k].pricing ELSE None

FamilyAgrees(rows, levels) ==
    \A k, l \in levels : /\ PriceOf(rows, k) = PriceOf(rows, l)
                         /\ rows.models[k].context = rows.models[l].context

\* The rows of the provider and of its models, and the prices that are left.
Settled(w, input, id, row, inherited) ==
    LET level(m) == CHOOSE k \in inherited[m] : TRUE
        context(m) == IF m \in DOMAIN input.contexts THEN input.contexts[m]
                      ELSE IF m \in DOMAIN inherited THEN w.rows.models[level(m)].context
                      ELSE None
        priced == {m \in DOMAIN inherited : PriceOf(w.rows, level(m)) # None}
    IN  [w EXCEPT
           !.rows.providers = Put(@, id, row),
           !.rows.models = [k \in {id} \X input.models |->
                              [context |-> context(k[2]), live |-> TRUE]]
                           @@ Drop(@, {k \in DOMAIN @ : k[1] = id}),
           !.rows.prices = [k \in {id} \X priced |->
                              [pricing |-> PriceOf(w.rows, level(k[2])), live |-> TRUE]]
                           @@ Drop(@, {k \in Live(@) : k[1] = id /\ k[2] \notin input.models})]

\* A route that was committed as it stands is retired with its model.
StaleRoutes(before, after, id, removedModels) ==
    {i \in DOMAIN after \cap Live(before) :
        /\ Owned(before[i], "provider", id) /\ after[i].model \in removedModels
        /\ after[i].name = before[i].name /\ after[i].model = before[i].model}

Rerouted(w, routed, id, removedModels) ==
    [routed EXCEPT !.rows = DetachProviderRoutes(
        [@ EXCEPT !.routes = Drop(@, StaleRoutes(w.rows.routes, @, id, removedModels))],
        id, FALSE, removedModels)]

\* writeSettings: the provider's row, its models (a thinking level that is
\* switched on takes the price and the window its family agrees on), its
\* routes, and the routes that lose a model.
WriteProvider(w, input, id, row, inherited) ==
    IF \A m \in DOMAIN inherited : FamilyAgrees(w.rows, inherited[m])
    THEN Rerouted(w, ReplaceRoutes(Settled(w, input, id, row, inherited),
                                   "provider", id, input.routes),
                  id, ModelsOf(w.rows, id) \ ProviderModelNames(input.type, input.models))
    ELSE Fail(w)

WriteSettings(w, input, existing) ==
    LET id == IF existing # None THEN existing ELSE <<w.version, "provider">>
        row == [type |-> input.type, disabled |-> input.disabled, group |-> input.group,
                position |-> IF existing # None THEN w.rows.providers[id].position
                             ELSE Cardinality(DOMAIN w.rows.providers) + 1,
                live |-> TRUE]
    IN  WriteProvider(w, input, id, row, Inherited(w.rows, id, input))

ProviderEntity(w, p) == Require(w, p \in Live(w.rows.providers))

\* editable
Editable(w, p) ==
    Require(w, p \in Live(w.rows.providers) /\ w.rows.providers[p].type = "ai_gateway")

CredentialsOf(rows, p) == {c \in Live(rows.credentials) : rows.credentials[c].provider = p}

CredentialEntity(w, p, c) == Require(w, c \in CredentialsOf(w.rows, p))

\* ProviderService.create
CreateProvider(w, q) ==
    LET settled == WriteSettings(w, q.input, None)
        write(acc, n) == WriteCredential(acc, <<w.version, "provider">>,
                                         q.input.credentials[n], n, None)
    IN  FoldLeftDomain(write, settled, q.input.credentials)

\* ProviderService.update: a credential keeps its id, and cannot be taken
\* from another provider or from the deleted ones.
KeepCredentials(w, p, retained) ==
    [w EXCEPT !.rows.credentials =
        Drop(@, {c \in Live(@) : @[c].provider = p /\ c \notin retained})]

UpdateProvider(w, q) ==
    LET inputs == q.input.credentials
        existing(n) == IF inputs[n].id \in DOMAIN w.rows.credentials THEN inputs[n].id ELSE None
        write(acc, n) == WriteCredential(acc, q.id, inputs[n], n, existing(n))
    IN  IF /\ Editable(w, q.id).ok
           /\ \A n \in DOMAIN inputs : existing(n) \in {None} \cup CredentialsOf(w.rows, q.id)
        THEN KeepCredentials(
                FoldLeftDomain(write, WriteSettings(w, q.input, q.id), inputs), q.id,
                {IF existing(n) # None THEN existing(n) ELSE <<w.version, "credential", n>> :
                    n \in DOMAIN inputs})
        ELSE Fail(w)

\* ProviderService.remove
RemoveProvider(w, q) ==
    LET detached == DetachProviderRoutes(w.rows, q.id, TRUE, {})
    IN  IF ~Editable(w, q.id).ok THEN Fail(w)
        ELSE [w EXCEPT !.rows =
                [detached EXCEPT
                   !.providers = Drop(@, {q.id}),
                   !.credentials = Drop(@, {c \in DOMAIN @ : @[c].provider = q.id}),
                   !.models = Drop(@, {k \in DOMAIN @ : k[1] = q.id}),
                   !.prices = Drop(@, {k \in DOMAIN @ : k \in DOMAIN w.rows.models /\ k[1] = q.id}),
                   !.clientProviders = Drop(@, {k \in DOMAIN @ : k[2] = q.id})]]

\* ProviderService.order
OrderProviders(w, q) == Reorder(w, "providers", Live(w.rows.providers), q.order)

\* ProviderService.saveNative
SaveNative(w, q) ==
    LET current == {p \in Live(w.rows.providers) : w.rows.providers[p].type = q.input.type}
    IN  WriteSettings(w, q.input, IF current = {} THEN None ELSE CHOOSE p \in current : TRUE)

\* ProviderService.createCredential
CreateCredential(w, q) ==
    IF ~ProviderEntity(w, q.id).ok THEN Fail(w)
    ELSE WriteCredential(w, q.id, q.input, Cardinality(DOMAIN w.rows.credentials) + 1, None)

\* ProviderService.updateCredential
UpdateCredential(w, q) ==
    IF ~CredentialEntity(w, q.id, q.credential).ok THEN Fail(w)
    ELSE WriteCredential(w, q.id, q.input, w.rows.credentials[q.credential].position,
                         q.credential)

\* ProviderService.removeCredential: the last account of a native provider
\* takes the provider out of service.
RemoveCredential(w, q) ==
    LET left == CredentialsOf(w.rows, q.id) \ {q.credential}
    IN  IF ~CredentialEntity(w, q.id, q.credential).ok THEN Fail(w)
        ELSE [w EXCEPT
                !.rows.credentials = Drop(@, {q.credential}),
                !.rows.providers[q.id].disabled =
                    @ \/ (w.rows.providers[q.id].type # "ai_gateway" /\ left = {})]

\* ProviderService.orderCredentials
OrderCredentials(w, q) ==
    IF ~ProviderEntity(w, q.id).ok THEN Fail(w)
    ELSE Reorder(w, "credentials", CredentialsOf(w.rows, q.id), q.order)

\* ProviderService.saveRoutes
SaveProviderRoutes(w, q) ==
    IF ~ProviderEntity(w, q.id).ok THEN Fail(w)
    ELSE ReplaceRoutes(w, "provider", q.id, q.routes)

\* ProviderService.saveModel, and saveModelFamily for the whole family
SaveModel(w, q) ==
    IF q.key \notin Live(w.rows.models) THEN Fail(w)
    ELSE [w EXCEPT !.rows.models[q.key].context = q.context]

SaveModelFamily(w, q) ==
    LET family == ModelFamily(w.rows, q.key)
    IN  IF family = {} THEN Fail(w)
        ELSE [w EXCEPT !.rows.models =
                [k \in DOMAIN @ |-> IF k \in family THEN [@[k] EXCEPT !.context = q.context]
                                    ELSE @[k]]]

-----------------------------------------------------------------------------
(* Clients, prices, global routes, settings, proxy groups. *)

\* ClientService.save
PutClient(w, q, id, previous) ==
    ReplaceRoutes(
        [Staged(w, id, q.api_key, previous) EXCEPT
            !.rows.clients = Put(@, id, [secret |-> SealedId(w, id, q.api_key, previous),
                                         live |-> TRUE]),
            !.rows.clientProviders = [k \in {id} \X q.providers |-> [live |-> TRUE]]
                                     @@ Drop(@, {k \in DOMAIN @ : k[1] = id})],
        "client", id, q.routes)

SaveClient(w, q) ==
    IF q.id = None THEN PutClient(w, q, <<w.version, "client">>, None)
    ELSE IF q.id \in Live(w.rows.clients) THEN PutClient(w, q, q.id, w.rows.clients[q.id].secret)
    ELSE Fail(w)

\* ClientService.remove
RemoveClient(w, q) ==
    IF q.id \notin Live(w.rows.clients) THEN Fail(w)
    ELSE ReplaceRoutes(
            [w EXCEPT !.rows.clients = Drop(@, {q.id}),
                      !.rows.clientProviders = Drop(@, {k \in DOMAIN @ : k[1] = q.id})],
            "client", q.id, {})

\* ClientService.saveRoutes
SaveClientRoutes(w, q) ==
    IF q.id \notin Live(w.rows.clients) THEN Fail(w)
    ELSE ReplaceRoutes(w, "client", q.id, q.routes)

\* RoutingService.save
SaveGlobalRoutes(w, q) == ReplaceRoutes(w, "global", None, q.routes)

\* PricingService.write, for one model or for its family; None removes
SavePrice(w, q) ==
    LET keys == IF q.scope = "family" THEN ModelFamily(w.rows, q.key)
                ELSE {q.key} \cap Live(w.rows.models)
    IN  IF keys = {} THEN Fail(w)
        ELSE [w EXCEPT !.rows.prices =
                IF q.pricing = None THEN Drop(@, keys)
                ELSE [k \in keys |-> [pricing |-> q.pricing, live |-> TRUE]] @@ @]

\* SettingsService.saveReporting
SaveReporting(w, q) == [w EXCEPT !.rows.reporting = q.reporting]

\* SettingsService.saveSearch: a key belongs to the mode it was given for.
SaveSearch(w, q) ==
    LET previous == IF w.rows.search.mode = q.mode THEN w.rows.search.secret ELSE None
    IN  IF q.mode = "proxy" THEN [w EXCEPT !.rows.search = [mode |-> "proxy", secret |-> None]]
        ELSE [Staged(w, SearchOwner, q.api_key, previous) EXCEPT !.rows.search =
                [mode |-> q.mode, secret |-> SealedId(w, SearchOwner, q.api_key, previous)]]

NodesOf(rows, g) == {n \in Live(rows.nodes) : rows.nodes[n].group = g}

\* writeNode
PutNode(w, g, input, id, previous) ==
    IF input.password = None
    THEN [w EXCEPT !.rows.nodes = Put(@, id, [group |-> g, secret |-> None, live |-> TRUE])]
    ELSE [Staged(w, id, input.password, previous) EXCEPT !.rows.nodes =
            Put(@, id, [group |-> g, secret |-> SealedId(w, id, input.password, previous),
                        live |-> TRUE])]

WriteNode(w, g, input, position, existing) ==
    IF existing = None THEN PutNode(w, g, input, <<w.version, "node", position>>, None)
    ELSE PutNode(w, g, input, existing, w.rows.nodes[existing].secret)

\* ProxyService.save: the group and every node it keeps
KeepNodes(w, g, retained) ==
    [w EXCEPT !.rows.nodes = Drop(@, {n \in Live(@) : @[n].group = g /\ n \notin retained})]

SaveGroup(w, q) ==
    LET id == IF q.id # None THEN q.id ELSE <<w.version, "group">>
        existing(n) == IF q.id # None /\ q.nodes[n].id \in DOMAIN w.rows.nodes
                       THEN q.nodes[n].id ELSE None
        write(acc, n) == WriteNode(acc, id, q.nodes[n], n, existing(n))
    IN  IF /\ q.id # None => q.id \in Live(w.rows.groups)
           /\ \A n \in DOMAIN q.nodes : existing(n) \in {None} \cup NodesOf(w.rows, q.id)
        THEN KeepNodes(
                FoldLeftDomain(write, [w EXCEPT !.rows.groups = Put(@, id, [live |-> TRUE])],
                               q.nodes), id,
                {IF existing(n) # None THEN existing(n) ELSE <<w.version, "node", n>> :
                    n \in DOMAIN q.nodes})
        ELSE Fail(w)

\* ProxyService.remove
RemoveGroup(w, q) ==
    IF q.id \notin Live(w.rows.groups) THEN Fail(w)
    ELSE [w EXCEPT !.rows.groups = Drop(@, {q.id}),
                   !.rows.nodes = Drop(@, {n \in DOMAIN @ : @[n].group = q.id})]

\* ProxyService.saveNode
SaveNode(w, q) ==
    IF \/ q.id \notin Live(w.rows.groups)
       \/ q.node # None /\ q.node \notin NodesOf(w.rows, q.id)
    THEN Fail(w)
    ELSE WriteNode(w, q.id, q.input, Cardinality(DOMAIN w.rows.nodes) + 1, q.node)

\* ProxyService.removeNode
RemoveNode(w, q) ==
    IF q.node \notin NodesOf(w.rows, q.id) THEN Fail(w)
    ELSE [w EXCEPT !.rows.nodes = Drop(@, {q.node})]

-----------------------------------------------------------------------------
(* Compilation: the document the gateway reads, made of the live rows. *)

RoutesFromEntities(rows, scope, owner) ==
    {[id |-> i, name |-> rows.routes[i].name, model |-> rows.routes[i].model,
      providers |-> IF rows.routes[i].restrict
                    THEN {t[2] : t \in {t \in Live(rows.targets) : t[1] = i}} ELSE None] :
        i \in {i \in Live(rows.routes) : Owned(rows.routes[i], scope, owner)}}

GroupsFromEntities(rows) ==
    [g \in Live(rows.groups) |-> [n \in NodesOf(rows, g) |-> rows.nodes[n].secret]]

CredentialFromEntity(row) ==
    [position |-> row.position, type |-> row.type, secret |-> row.secret,
     account |-> row.account, group |-> row.group]

ProvidersFromEntities(rows) ==
    [p \in Live(rows.providers) |->
       [type |-> rows.providers[p].type, disabled |-> rows.providers[p].disabled,
        position |-> rows.providers[p].position, group |-> rows.providers[p].group,
        models |-> [m \in ModelsOf(rows, p) |-> rows.models[<<p, m>>].context],
        routes |-> RoutesFromEntities(rows, "provider", p),
        credentials |-> [c \in CredentialsOf(rows, p) |->
                            CredentialFromEntity(rows.credentials[c])]]]

ClientsFromEntities(rows) ==
    [c \in Live(rows.clients) |->
       [secret |-> rows.clients[c].secret,
        providers |-> {k[2] : k \in {k \in Live(rows.clientProviders) : k[1] = c}},
        routes |-> RoutesFromEntities(rows, "client", c)]]

PricesFromEntities(rows) == [k \in Live(rows.prices) |-> rows.prices[k].pricing]

CompileSnapshot(rows) ==
    [groups |-> GroupsFromEntities(rows), providers |-> ProvidersFromEntities(rows),
     clients |-> ClientsFromEntities(rows),
     routes |-> RoutesFromEntities(rows, "global", None),
     prices |-> PricesFromEntities(rows), reporting |-> rows.reporting,
     search |-> rows.search]

-----------------------------------------------------------------------------
(* The rules a document must keep (config/schema.ts). *)

\* aiGatewayProviderSchema and the native schemas with requireEnabledCredentials
ProviderSchema(p) ==
    /\ p.type = "ai_gateway" =>
         /\ DOMAIN p.credentials # {} /\ DOMAIN p.models # {}
         /\ \A c \in DOMAIN p.credentials : p.credentials[c].type = "api_key"
    /\ p.type # "ai_gateway" =>
         /\ p.disabled \/ (DOMAIN p.models # {} /\ DOMAIN p.credentials # {})
         /\ \A c \in DOMAIN p.credentials : p.credentials[c].type = "oauth"
         /\ \A c, d \in DOMAIN p.credentials :
              p.credentials[c].account = p.credentials[d].account => c = d

ValidateIdentities(config) ==
    /\ \A t \in Natives :
         Cardinality({p \in DOMAIN config.providers : config.providers[p].type = t}) <= 1
    /\ \A c, d \in DOMAIN config.clients :
         config.clients[c].secret = config.clients[d].secret => c = d

ValidateReferences(config) ==
    LET provider(p) == config.providers[p]
        models(p) == DOMAIN provider(p).models
        names == UNION {ProviderModelNames(provider(p).type, models(p)) :
                           p \in DOMAIN config.providers}
        supports(p, m) == /\ p \in DOMAIN config.providers
                          /\ SupportsProviderModel(provider(p).type, models(p), m)
        targets(r) == IF r.providers = None THEN {} ELSE r.providers
        ValidRoute(r) == /\ r.model \in names /\ r.providers # {}
                         /\ \A p \in targets(r) : supports(p, r.model)
        known(g) == g = None \/ g \in DOMAIN config.groups
    IN  /\ \A r \in config.routes : ValidRoute(r)
        /\ \A c \in DOMAIN config.clients :
             /\ config.clients[c].providers \subseteq DOMAIN config.providers
             /\ \A r \in config.clients[c].routes : ValidRoute(r)
        /\ \A p \in DOMAIN config.providers :
             /\ known(provider(p).group)
             /\ \A c \in DOMAIN provider(p).credentials : known(provider(p).credentials[c].group)
             /\ \A r \in provider(p).routes : supports(p, r.model)
        /\ \A k \in DOMAIN config.prices :
             k[1] \in DOMAIN config.providers /\ k[2] \in models(k[1])

\* configurationSchema; a price without its model does not compile
ConfigurationSchema(config) ==
    /\ \A p \in DOMAIN config.providers : ProviderSchema(config.providers[p])
    /\ ValidateIdentities(config)
    /\ ValidateReferences(config)

\* validateClientKeys: two secret rows may hold the same text.
ValidateClientKeys(w, previous) ==
    LET active == Live(w.rows.clients)
        same(c) == c \in Live(previous.clients)
                   /\ previous.clients[c].secret = w.rows.clients[c].secret
    IN  (\A c \in active : same(c)) \/
        \A c, d \in active :
            SecretText(w, w.rows.clients[c].secret) = SecretText(w, w.rows.clients[d].secret)
            => c = d

\* validateOAuth
ValidateOAuth(config) ==
    \A p \in DOMAIN config.providers : \A c \in DOMAIN config.providers[p].credentials :
        LET a == config.providers[p].credentials[c].account
        IN  a # None => a \in DOMAIN Accounts /\ Accounts[a] = p

-----------------------------------------------------------------------------
(* Recovery: an old document with the secrets of the current one. *)

\* preserveCurrentSecrets: None when the old document names a row that is gone
PreserveCurrentSecrets(config, current) ==
    LET nodes(c, g) == IF g \in DOMAIN c.groups THEN DOMAIN c.groups[g] ELSE {}
        creds(c, p) == IF p \in DOMAIN c.providers THEN DOMAIN c.providers[p].credentials ELSE {}
        auth(p, c) == LET latest == current.providers[p].credentials[c]
                      IN  [config.providers[p].credentials[c] EXCEPT
                             !.type = latest.type, !.secret = latest.secret,
                             !.account = latest.account]
    IN  IF /\ DOMAIN config.clients \subseteq DOMAIN current.clients
           /\ \A p \in DOMAIN config.providers : creds(config, p) \subseteq creds(current, p)
           /\ \A g \in DOMAIN config.groups : nodes(config, g) \subseteq nodes(current, g)
           /\ config.search.mode \in {"proxy", current.search.mode}
        THEN [config EXCEPT
                !.clients = [c \in DOMAIN @ |-> [@[c] EXCEPT !.secret = current.clients[c].secret]],
                !.providers = [p \in DOMAIN @ |-> [@[p] EXCEPT !.credentials =
                                 [c \in DOMAIN @ |-> auth(p, c)]]],
                !.groups = [g \in DOMAIN @ |-> [n \in DOMAIN @[g] |-> current.groups[g][n]]],
                !.search.secret = IF @ = None THEN None ELSE current.search.secret]
        ELSE None

\* The secrets of a document by the row that owns them.
SecretsOf(config) ==
    LET nodes == UNION {{<<n, config.groups[g][n]>> : n \in DOMAIN config.groups[g]} :
                           g \in DOMAIN config.groups}
        creds == UNION {{<<c, config.providers[p].credentials[c].secret>> :
                           c \in DOMAIN config.providers[p].credentials} :
                           p \in DOMAIN config.providers}
        clients == {<<c, config.clients[c].secret>> : c \in DOMAIN config.clients}
    IN  ById(nodes \cup creds \cup clients \cup {<<SearchOwner, config.search.secret>>})

\* projectConfiguration: rows made from a document; a row it does not name
\* is left out, and the commit retires it.  Positions are counted anew.
ProjectConfiguration(config, secret) ==
    LET rank(f, x) == Cardinality({y \in DOMAIN f : f[y].position <= f[x].position})
        scopes == {<<"global", None>>} \cup {<<"client", c>> : c \in DOMAIN config.clients}
                  \cup {<<"provider", p>> : p \in DOMAIN config.providers}
        routesOf(s) == CASE s[1] = "global" -> config.routes
                         [] s[1] = "client" -> config.clients[s[2]].routes
                         [] s[1] = "provider" -> config.providers[s[2]].routes
        routes == UNION {{<<s, r>> : r \in routesOf(s)} : s \in scopes}
        routeOf(i) == CHOOSE x \in routes : x[2].id = i
        creds == UNION {{<<p, c>> : c \in DOMAIN config.providers[p].credentials} :
                           p \in DOMAIN config.providers}
        provider(c) == (CHOOSE x \in creds : x[2] = c)[1]
        credential(c) == config.providers[provider(c)].credentials[c]
        nodes == UNION {{<<g, n>> : n \in DOMAIN config.groups[g]} : g \in DOMAIN config.groups}
        models == UNION {{p} \X DOMAIN config.providers[p].models : p \in DOMAIN config.providers}
    IN  [groups |-> [g \in DOMAIN config.groups |-> [live |-> TRUE]],
         nodes |-> [n \in {x[2] : x \in nodes} |->
                      [group |-> (CHOOSE x \in nodes : x[2] = n)[1],
                       secret |-> secret[n], live |-> TRUE]],
         providers |-> [p \in DOMAIN config.providers |->
                          [type |-> config.providers[p].type,
                           disabled |-> config.providers[p].disabled,
                           position |-> rank(config.providers, p),
                           group |-> config.providers[p].group, live |-> TRUE]],
         credentials |-> [c \in {x[2] : x \in creds} |->
                            [provider |-> provider(c),
                             position |-> rank(config.providers[provider(c)].credentials, c),
                             type |-> credential(c).type, secret |-> secret[c],
                             account |-> credential(c).account,
                             group |-> credential(c).group, live |-> TRUE]],
         models |-> [k \in models |->
                       [context |-> config.providers[k[1]].models[k[2]], live |-> TRUE]],
         prices |-> [k \in DOMAIN config.prices |->
                       [pricing |-> config.prices[k], live |-> TRUE]],
         clients |-> [c \in DOMAIN config.clients |-> [secret |-> secret[c], live |-> TRUE]],
         clientProviders |->
            [k \in UNION {{c} \X config.clients[c].providers : c \in DOMAIN config.clients} |->
                [live |-> TRUE]],
         routes |-> [i \in {x[2].id : x \in routes} |->
                       RouteRow(routeOf(i)[1][1], routeOf(i)[1][2], routeOf(i)[2])],
         targets |-> [t \in UNION {RouteTargets(x[2].id, x[2]) : x \in routes} |->
                        [live |-> TRUE]],
         reporting |-> config.reporting,
         search |-> [mode |-> config.search.mode, secret |-> secret[SearchOwner]]]

\* sealConfiguration: a row whose text has not changed keeps its secret's id.
SealedSecrets(w, wanted, old) ==
    [o \in DOMAIN wanted |->
        IF wanted[o] = None THEN None
        ELSE SealedId(w, o, SecretText(w, wanted[o]), IF o \in DOMAIN old THEN old[o] ELSE None)]

ReplaceDocument(w, config, wanted, sealed) ==
    [w EXCEPT
       !.rows = ProjectConfiguration(config, sealed),
       !.pending = ById({<<sealed[o], SecretText(w, wanted[o])>> :
                            o \in {o \in DOMAIN wanted : sealed[o] = <<w.version, "secret", o>>}})]

\* A search key is compared only with the key of the same mode.
ComparableSecrets(before, mode) ==
    Drop(SecretsOf(before), IF before.search.mode = mode THEN {} ELSE {SearchOwner})

\* ControlStore.save: the document replaces the rows, with its secrets sealed.
SaveConfiguration(w, config) ==
    LET wanted == SecretsOf(config)
    IN  ReplaceDocument(w, config, wanted,
            SealedSecrets(w, wanted, ComparableSecrets(CompileSnapshot(w.rows), config.search.mode)))

-----------------------------------------------------------------------------
(* Commit: the rows the transaction leaves, and the document it stores. *)

RetireMissing(before, after) ==
    [i \in DOMAIN before \cup DOMAIN after |->
        IF i \in DOMAIN after THEN after[i] ELSE [before[i] EXCEPT !.live = FALSE]]

CommittedRows(before, after) ==
    [t \in DOMAIN before |->
        IF t \in {"reporting", "search"} THEN after[t] ELSE RetireMissing(before[t], after[t])]

\* The operation a request asks for.  config is the document of a restore.
Change(w, q, config) ==
    CASE q.kind = "createProvider" -> CreateProvider(w, q)
      [] q.kind = "updateProvider" -> UpdateProvider(w, q)
      [] q.kind = "removeProvider" -> RemoveProvider(w, q)
      [] q.kind = "orderProviders" -> OrderProviders(w, q)
      [] q.kind = "saveNative" -> SaveNative(w, q)
      [] q.kind = "createCredential" -> CreateCredential(w, q)
      [] q.kind = "updateCredential" -> UpdateCredential(w, q)
      [] q.kind = "removeCredential" -> RemoveCredential(w, q)
      [] q.kind = "orderCredentials" -> OrderCredentials(w, q)
      [] q.kind = "saveProviderRoutes" -> SaveProviderRoutes(w, q)
      [] q.kind = "saveModel" -> SaveModel(w, q)
      [] q.kind = "saveModelFamily" -> SaveModelFamily(w, q)
      [] q.kind = "saveClient" -> SaveClient(w, q)
      [] q.kind = "removeClient" -> RemoveClient(w, q)
      [] q.kind = "saveClientRoutes" -> SaveClientRoutes(w, q)
      [] q.kind = "saveGlobalRoutes" -> SaveGlobalRoutes(w, q)
      [] q.kind = "savePrice" -> SavePrice(w, q)
      [] q.kind = "saveReporting" -> SaveReporting(w, q)
      [] q.kind = "saveSearch" -> SaveSearch(w, q)
      [] q.kind = "saveGroup" -> SaveGroup(w, q)
      [] q.kind = "removeGroup" -> RemoveGroup(w, q)
      [] q.kind = "saveNode" -> SaveNode(w, q)
      [] q.kind = "removeNode" -> RemoveNode(w, q)
      [] q.kind = "restore" -> SaveConfiguration(w, config)

\* The unit of work of a request on these rows, with every check that
\* ControlStore.write makes before it commits.
Checked(w, previous, compiled) ==
    Require(w,
               /\ ConfigurationSchema(compiled)
               /\ ValidateClientKeys(w, previous)
               /\ ValidateOAuth(compiled))

Compiled(w, previous) == IF w.ok THEN Checked(w, previous, CompileSnapshot(w.rows)) ELSE w

Worked(rows, stored, version, q, config) ==
    Compiled(Change([rows |-> rows, version |-> version, ok |-> TRUE, stored |-> stored,
                     pending |-> <<>>], q, config), rows)
=============================================================================
