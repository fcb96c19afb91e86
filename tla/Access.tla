------------------------------- MODULE Access --------------------------------
(***************************************************************************)
(* Who is let in, and what an administrator's request then acts on.        *)
(*                                                                         *)
(* Signing in: administrators sign in with an OpenID provider              *)
(* (admin/oidc.ts), and the console's requests are admitted by what they   *)
(* then carry (admin/auth.ts, admin/middleware.ts).  The server keeps no   *)
(* sessions.  What it knows of an attempt to sign in and of a session is   *)
(* sealed in two cookies, under keys derived from one secret, so that a    *)
(* browser may return them after the server was restarted with other       *)
(* settings, in any order and more than once.  A request is answered in    *)
(* several steps and keeps the settings of the process that answers it.    *)
(* Random tokens are numbers of attempts.                                  *)
(*                                                                         *)
(* Accounts: the console's requests about provider accounts                *)
(* (admin/routes/oauth.ts).  An authorization is started for a provider as *)
(* the administrator saw it; of the operations on an account, a spent      *)
(* reset also ends the cooldowns of its credentials.  A request reads the  *)
(* configuration more than once while others commit to it; the account     *)
(* object itself is OAuthAccount's.                                        *)
(*                                                                         *)
(* Clients: how a request's key is found among the configured ones         *)
(* (gateway/http/http.ts).  Keys are compared by digest.  The digests of   *)
(* the configured keys are computed once, while other requests run, and    *)
(* cached with the keys they were computed from; the entries may be        *)
(* replaced in the meantime.                                               *)
(***************************************************************************)
EXTENDS Naturals, FiniteSets, Sequences

CONSTANTS
    Nothing,             \* null or undefined
    (* signing in *)
    Browsers, Visits,    \* browsers, and requests that are being answered
    Users,               \* identities at the provider: sub, email, verified
    Settings,            \* environments that the server may be started with
    Pkce,                \* whether the provider checks the code verifier
    LoginTtl, DiscoveryTtl, MaxTime, MaxAttempts,  \* times, and bounds of the model
    (* accounts *)
    Configurations,      \* what may be committed: providers' types, groups, credentials
    Types,               \* types of providers
    Refs,                \* accounts
    Calls,               \* requests of administrators
    MaxVersions,         \* bound on the commits
    (* clients *)
    Keys,                \* client keys
    EntryLists,          \* what may be configured: sequences of entries
    Callers,             \* requests
    MaxChanges, MaxDigests  \* bounds of the model

(* Null is neither a time nor a row of an account; a lifetime is a number of  *)
(* milliseconds, and the server has been started with finitely many; the      *)
(* entries are an array.                                                      *)
ASSUME AccessAssumption ==
    /\ Nothing \notin Nat
    /\ Nothing \notin [provider : UNION {DOMAIN c.types : c \in Configurations}, type : Types]
    /\ \A s \in Settings : s.ttl \in Nat
    /\ \E s \in Settings : \A t \in Settings : t.ttl <= s.ttl
    /\ \A es \in EntryLists : Len(es) \in Nat /\ DOMAIN es = 1..Len(es)

VARIABLES
    env,           \* the settings of the running process
    clock,
    jar,           \* the cookies of each browser
    attempts,      \* sign-ins that were sent to the provider
    codes,         \* codes that the provider has issued, and when they were used
    discovery,     \* the cached documents by issuer: the number of a fetch
    fetches,       \* fetches of documents: pending, failed, or when they expire
    visits         \* the requests that are being answered

VARIABLES
    commits,       \* every configuration that was committed; the last counts
    owned,         \* oauth_accounts: the provider and the type of each account
    calls,         \* the requests
    started,       \* authorizations: their provider, type, account and version
    cooling        \* the credentials that are cooling down

VARIABLES
    entries,       \* the configured entries
    changes,       \* how often they were replaced
    digests,       \* computations: the keys they started from, and their status
    cached,        \* the computation that the cache holds, or 0
    callers        \* the requests

signInVars == <<env, clock, jar, attempts, codes, discovery, fetches, visits>>
routeVars == <<commits, owned, calls, started, cooling>>
keyVars == <<entries, changes, digests, cached, callers>>

-----------------------------------------------------------------------------
(* Signing in. *)

Issuers == {s.issuer : s \in Settings}
NoVisit == [step |-> "idle"]
NoCookies == [login |-> Nothing, session |-> Nothing]

SignInInit ==
    /\ env \in Settings /\ clock = 0
    /\ jar = [b \in Browsers |-> NoCookies]
    /\ attempts = <<>> /\ codes = {}
    /\ discovery = [i \in Issuers |-> Nothing] /\ fetches = <<>>
    /\ visits = [v \in Visits |-> NoVisit]

-----------------------------------------------------------------------------
(* Sealed cookies, and who is admitted. *)

\* seal and open: readable with the same secret, for as long as it lives.
Seal(claims, secret, ttl) == [claims |-> claims, secret |-> secret, expires |-> clock + ttl]
Open(token, secret) ==
    IF token = Nothing THEN Nothing
    ELSE IF token.secret = secret /\ clock < token.expires THEN token.claims ELSE Nothing

\* identityAllowed: without a list everyone is.
IdentityAllowed(e, email) == e.allowed = {} \/ email \in e.allowed

\* Mutant: a session of any provider will do.
AnySession(b) ==
    LET s == Open(jar[b].session, env.secret)
    IN  IF s # Nothing /\ IdentityAllowed(env, s.email) THEN s ELSE Nothing

\* authenticateOidcSession: the session must be of this provider and this
\* client, and its identity must be allowed today.
AuthenticateSession(b) ==
    LET s == Open(jar[b].session, env.secret)
    IN  IF /\ s # Nothing
           /\ s.issuer = env.issuer /\ s.client = env.client
           /\ IdentityAllowed(env, s.email)
        THEN s ELSE Nothing

\* authenticateAdmin and safeAdminMutation, for the mode of signing in.
Admitted(b) == env.mode = "oidc" /\ AuthenticateSession(b) # Nothing

-----------------------------------------------------------------------------
(* discover: the document of an issuer, kept for a while and fetched once    *)
(* for all who wait for it.                                                  *)

Idle(v) == visits[v].step = "idle"
Visit(v, visit) == visits' = [visits EXCEPT ![v] = visit]
Done(v) == Visit(v, NoVisit)

Fetch(v, cache) ==
    LET n == Len(fetches) + 1
        i == visits[v].env.issuer
    IN  /\ fetches' = Append(fetches, [status |-> "pending", issuer |-> i, expires |-> 0])
        /\ discovery' = [cache EXCEPT ![i] = n]
        /\ visits' = [visits EXCEPT ![v].step = "fetching", ![v].fetch = n]

Lookup(v) ==
    LET i == visits[v].env.issuer
    IN  /\ visits[v].step = "discover" /\ Len(fetches) < MaxAttempts
        /\ IF discovery[i] = Nothing THEN Fetch(v, discovery)
           ELSE /\ visits' = [visits EXCEPT ![v].step = "cached", ![v].fetch = discovery[i]]
                /\ UNCHANGED <<discovery, fetches>>
        /\ UNCHANGED <<env, clock, jar, attempts, codes>>

Settled(v) == fetches[visits[v].fetch].status # "pending"

Good(f) == f.status = "done" /\ f.expires > clock

\* What was cached is settled: good, or replaced by a fetch of one's own.
Cached(v) ==
    /\ visits[v].step = "cached" /\ Settled(v) /\ Len(fetches) < MaxAttempts
    /\ IF Good(fetches[visits[v].fetch])
       THEN /\ visits' = [visits EXCEPT ![v].step = "discovered"]
            /\ UNCHANGED <<discovery, fetches>>
       ELSE Fetch(v, [discovery EXCEPT ![visits[v].env.issuer] = Nothing])
    /\ UNCHANGED <<env, clock, jar, attempts, codes>>

\* The provider answers, with its document or not.
FetchEnds(n, ok) ==
    /\ n \in DOMAIN fetches /\ fetches[n].status = "pending"
    /\ fetches' = [fetches EXCEPT ![n].status = IF ok THEN "done" ELSE "failed",
                                  ![n].expires = clock + DiscoveryTtl]
    /\ discovery' = IF ok THEN discovery ELSE [discovery EXCEPT ![fetches[n].issuer] = Nothing]
    /\ UNCHANGED <<env, clock, jar, attempts, codes, visits>>

ClearLogin(b) == jar' = [jar EXCEPT ![b].login = Nothing]

\* The own fetch is settled: a failed one ends the visit.
Fetched(v) ==
    /\ visits[v].step = "fetching" /\ Settled(v)
    /\ IF fetches[visits[v].fetch].status = "done"
       THEN visits' = [visits EXCEPT ![v].step = "discovered"] /\ UNCHANGED jar
       ELSE /\ Done(v)
            /\ IF visits[v].kind = "callback" THEN ClearLogin(visits[v].browser) ELSE UNCHANGED jar
    /\ UNCHANGED <<env, clock, attempts, codes, discovery, fetches>>

-----------------------------------------------------------------------------
(* The sign-in. *)

\* GET /login
SignIn(v, b) ==
    /\ Idle(v) /\ env.mode = "oidc" /\ Len(attempts) < MaxAttempts
    /\ Visit(v, [step |-> "discover", kind |-> "login", browser |-> b, env |-> env, fetch |-> 0,
                 login |-> Nothing, code |-> Nothing])
    /\ UNCHANGED <<env, clock, jar, attempts, codes, discovery, fetches>>

\* The browser is sent to the provider with a cookie that knows the attempt.
Redirect(v) ==
    LET e == visits[v].env
        n == Len(attempts) + 1
    IN  /\ visits[v].step = "discovered" /\ visits[v].kind = "login"
        /\ attempts' = Append(attempts, [browser |-> visits[v].browser, issuer |-> e.issuer, client |-> e.client])
        /\ jar' = [jar EXCEPT ![visits[v].browser].login = Seal([attempt |-> n], e.secret, LoginTtl)]
        /\ Done(v)
        /\ UNCHANGED <<env, clock, codes, discovery, fetches>>

\* External: a user proves who they are, and the provider issues a code.
Grant(n, user) ==
    /\ n \in DOMAIN attempts /\ \A c \in codes : c.attempt # n
    /\ codes' = codes \cup {[attempt |-> n, user |-> user, used |-> Nothing]}
    /\ UNCHANGED <<env, clock, jar, attempts, discovery, fetches, visits>>

\* GET /callback: the cookie is read, and the state must be the cookie's.
Callback(v, b, code, state) ==
    LET login == Open(jar[b].login, env.secret)
    IN  /\ Idle(v) /\ env.mode = "oidc"
        /\ IF login = Nothing \/ code = Nothing \/ login.attempt # state
           THEN ClearLogin(b) /\ UNCHANGED visits
           ELSE /\ Visit(v, [step |-> "discover", kind |-> "callback", browser |-> b, env |-> env,
                             fetch |-> 0, login |-> login, code |-> code])
                /\ UNCHANGED jar
        /\ UNCHANGED <<env, clock, attempts, codes, discovery, fetches>>

\* External: a code is exchanged once, by the client it was issued to.
Exchanges(code, e, login) ==
    \E c \in codes :
        /\ c.attempt = code /\ c.used = Nothing
        /\ attempts[code].client = e.client /\ attempts[code].issuer = e.issuer
        /\ Pkce => login.attempt = code

\* The claims must be of this attempt, and the address verified if it counts.
Verified(code, user, e, login) ==
    /\ code = login.attempt
    /\ e.allowed # {} => user.verified

\* mintAdminSession
Mint(user, e) ==
    Seal([sub |-> user.sub, email |-> user.email, issuer |-> e.issuer, client |-> e.client],
         e.secret, e.ttl)

Exchange(v) ==
    LET r == visits[v]
        user == (CHOOSE c \in codes : c.attempt = r.code).user
        fine == Exchanges(r.code, r.env, r.login)
    IN  /\ r.step = "discovered" /\ r.kind = "callback"
        /\ codes' = IF fine THEN {[c EXCEPT !.used = IF c.attempt = r.code THEN clock ELSE @] : c \in codes} ELSE codes
        /\ jar' = [jar EXCEPT ![r.browser].login = Nothing,
                     ![r.browser].session =
                        IF fine /\ Verified(r.code, user, r.env, r.login)
                                /\ IdentityAllowed(r.env, user.email)
                        THEN Mint(user, r.env) ELSE @]
        /\ Done(v)
        /\ UNCHANGED <<env, clock, attempts, discovery, fetches>>

\* POST /logout
Logout(b) ==
    /\ env.mode = "oidc" /\ jar[b] # NoCookies
    /\ jar' = [jar EXCEPT ![b] = NoCookies]
    /\ UNCHANGED <<env, clock, attempts, codes, discovery, fetches, visits>>

\* The server is started with other settings; its cache is empty.  Requests
\* that the old process still answers end there.
Restart(e) ==
    /\ e # env /\ env' = e /\ discovery' = [i \in Issuers |-> Nothing]
    /\ UNCHANGED <<clock, jar, attempts, codes, fetches, visits>>

Pass ==
    /\ clock < MaxTime /\ clock' = clock + 1
    /\ UNCHANGED <<env, jar, attempts, codes, discovery, fetches, visits>>

SignInNext ==
    \/ \E v \in Visits : Lookup(v) \/ Cached(v) \/ Fetched(v) \/ Redirect(v) \/ Exchange(v)
    \/ \E v \in Visits, b \in Browsers :
         \/ SignIn(v, b)
         \/ \E code \in {c.attempt : c \in codes} \cup {Nothing}, state \in DOMAIN attempts :
              Callback(v, b, code, state)
    \/ \E n \in DOMAIN fetches, ok \in BOOLEAN : FetchEnds(n, ok)
    \/ \E n \in DOMAIN attempts, u \in Users : Grant(n, u)
    \/ \E b \in Browsers : Logout(b)
    \/ \E e \in Settings : Restart(e)
    \/ Pass

SignInSpec == SignInInit /\ [][SignInNext]_signInVars

-----------------------------------------------------------------------------
(* Requests about accounts. *)

Version == Len(commits)
CurrentConfig == commits[Version]
Providers == DOMAIN CurrentConfig.types
KnownCredentials == UNION {DOMAIN c.credentials : c \in Configurations}
NoCall == [step |-> "idle"]

RoutesInit ==
    /\ \E c \in Configurations : commits = <<c>>
    /\ owned = [r \in Refs |-> Nothing]
    /\ calls = [c \in Calls |-> NoCall]
    /\ started = {} /\ cooling = KnownCredentials

At(c, step) == calls[c].step = step
Go(c, step) == calls' = [calls EXCEPT ![c].step = step]
Answer(c) == calls' = [calls EXCEPT ![c] = NoCall]

\* Someone commits another configuration.
Commit(config) ==
    /\ Version < MaxVersions /\ config # CurrentConfig
    /\ commits' = Append(commits, config)
    /\ UNCHANGED <<owned, calls, started, cooling>>

-----------------------------------------------------------------------------
(* POST /oauth/sessions *)

\* The administrator acts on a version they have loaded.
Ask(c, provider, type, ref, group, version) ==
    /\ At(c, "idle")
    /\ calls' = [calls EXCEPT ![c] = [step |-> "state", provider |-> provider, type |-> type,
                                      ref |-> ref, group |-> group, version |-> version]]
    /\ UNCHANGED <<commits, owned, started, cooling>>

\* store.state()
ReadState(c) ==
    /\ At(c, "state")
    /\ IF Version = calls[c].version THEN Go(c, "resource") ELSE Answer(c)
    /\ UNCHANGED <<commits, owned, started, cooling>>

Saved(config, provider, type) == provider \in DOMAIN config.types /\ config.types[provider] = type

\* Mutant: the version was checked before.
ReadAnyResource(c) ==
    /\ At(c, "resource")
    /\ IF Saved(CurrentConfig, calls[c].provider, calls[c].type) THEN Go(c, "proxy") ELSE Answer(c)
    /\ UNCHANGED <<commits, owned, started, cooling>>

\* store.resource: the version and the provider of one read.
ReadResource(c) ==
    /\ At(c, "resource")
    /\ IF Version = calls[c].version /\ Saved(CurrentConfig, calls[c].provider, calls[c].type)
       THEN Go(c, "proxy") ELSE Answer(c)
    /\ UNCHANGED <<commits, owned, started, cooling>>

\* currentProxyConfiguration
ReadProxies(c) ==
    /\ At(c, "proxy")
    /\ IF calls[c].group = Nothing \/ calls[c].group \in CurrentConfig.groups THEN Go(c, "account") ELSE Answer(c)
    /\ UNCHANGED <<commits, owned, started, cooling>>

\* checkedAccount: a known account must be the provider's.
CheckAccount(c) ==
    /\ At(c, "account")
    /\ IF owned[calls[c].ref] = Nothing \/ owned[calls[c].ref].provider = calls[c].provider
       THEN Go(c, "run") ELSE Answer(c)
    /\ UNCHANGED <<commits, owned, started, cooling>>

\* account.run({action: "start"}): the row of a new account names its provider.
\* The object refuses another type; and a start is audited.
StartAuthorization(c) ==
    LET call == calls[c]
        row == [provider |-> call.provider, type |-> call.type]
    IN  /\ At(c, "run")
        /\ IF owned[call.ref] \in {Nothing, row}
           THEN /\ owned' = [owned EXCEPT ![call.ref] = row]
                /\ started' = started \cup {[provider |-> call.provider, type |-> call.type,
                                             ref |-> call.ref, version |-> call.version]}
           ELSE UNCHANGED <<owned, started>>
        /\ Answer(c)
        /\ UNCHANGED <<commits, cooling>>

-----------------------------------------------------------------------------
(* POST /provider-accounts/:ref/reset-credits/consume, and the other         *)
(* operations, which only check the account.                                 *)

Operate(c, ref, type) ==
    /\ At(c, "idle") /\ owned[ref] # Nothing /\ owned[ref].type = type
    /\ calls' = [calls EXCEPT ![c] = [step |-> "operating", ref |-> ref, type |-> type]]
    /\ UNCHANGED <<commits, owned, started, cooling>>

\* The account has answered; a reset that was spent, now or before, counts.
Operated(c, reset) ==
    /\ At(c, "operating") /\ (reset => calls[c].type = "codex")
    /\ IF reset THEN Go(c, "clearing") ELSE Answer(c)
    /\ UNCHANGED <<commits, owned, started, cooling>>

\* clearResetCooldowns: every credential of the account in the configuration.
Cleared(ref) == cooling \ {x \in DOMAIN CurrentConfig.credentials : CurrentConfig.credentials[x] = ref}

ClearCooldowns(c) ==
    /\ At(c, "clearing")
    /\ cooling' = Cleared(calls[c].ref)
    /\ Answer(c)
    /\ UNCHANGED <<commits, owned, started>>

RoutesNext ==
    \/ \E c \in Calls :
         \/ ReadState(c) \/ ReadResource(c) \/ ReadProxies(c) \/ CheckAccount(c) \/ StartAuthorization(c)
         \/ ClearCooldowns(c)
         \/ \E reset \in BOOLEAN : Operated(c, reset)
         \/ \E p \in Providers, t \in Types, r \in Refs, v \in 1..Version,
              g \in {Nothing} \cup UNION {x.groups : x \in Configurations} : Ask(c, p, t, r, g, v)
         \/ \E r \in Refs, t \in Types : Operate(c, r, t)
    \/ \E x \in Configurations : Commit(x)

RoutesSpec == RoutesInit /\ [][RoutesNext]_routeVars

-----------------------------------------------------------------------------
(* The keys of clients. *)

Idling == [step |-> "idle", tokens |-> {}, uses |-> 0, since |-> 0, found |-> Nothing]

KeysInit ==
    /\ entries \in EntryLists /\ changes = 0
    /\ digests = <<>> /\ cached = 0
    /\ callers = [c \in Callers |-> Idling]

\* requestCredentialTokens: a bearer token, an API key, both or neither.
Present(c, tokens) ==
    /\ callers[c].step = "idle"
    /\ callers' = [callers EXCEPT ![c] = [Idling EXCEPT !.tokens = tokens, !.since = changes,
                     !.step = IF tokens = {} THEN "answered" ELSE "digested"]]
    /\ UNCHANGED <<entries, changes, digests, cached>>

KeysOf(es) == [i \in DOMAIN es |-> es[i].key]

\* configuredKeyDigests: the cache is good for the keys it was made from.
Configured(c) ==
    LET hit == cached # 0 /\ digests[cached].keys = KeysOf(entries)
        n == IF hit THEN cached ELSE Len(digests) + 1
    IN  /\ callers[c].step = "digested" /\ n <= MaxDigests
        /\ digests' = IF hit THEN digests
                      ELSE Append(digests, [keys |-> KeysOf(entries), status |-> "pending"])
        /\ cached' = n
        /\ callers' = [callers EXCEPT ![c].uses = n, ![c].step = "waiting"]
        /\ UNCHANGED <<entries, changes>>

\* The digests are computed; a failed computation leaves the cache if it is
\* still there.
Computed(n, ok) ==
    /\ n \in DOMAIN digests /\ digests[n].status = "pending"
    /\ digests' = [digests EXCEPT ![n].status = IF ok THEN "done" ELSE "failed"]
    /\ cached' = IF ~ok /\ cached = n THEN 0 ELSE cached
    /\ UNCHANGED <<entries, changes, callers>>

\* Mutant: a digest stands for the entry at its place.
MatchesByPlace(c, i) ==
    LET keys == digests[callers[c].uses].keys
    IN  i \in DOMAIN keys /\ keys[i] \in callers[c].tokens

Matches(c, i) ==
    LET keys == digests[callers[c].uses].keys
    IN  i \in DOMAIN keys /\ keys[i] = entries[i].key /\ keys[i] \in callers[c].tokens

\* matchClientKeyDigests: the first entry that matches.
Match(c) ==
    LET matches == {i \in DOMAIN entries : Matches(c, i)}
    IN  /\ callers[c].step = "waiting" /\ digests[callers[c].uses].status # "pending"
        /\ callers' = [callers EXCEPT ![c].step = "answered",
             ![c].found = IF digests[callers[c].uses].status = "failed" \/ matches = {} THEN Nothing
                          ELSE entries[CHOOSE i \in matches : \A j \in matches : i <= j]]
        /\ UNCHANGED <<entries, changes, digests, cached>>

\* An administrator replaces, removes or reorders keys.
Replace(es) ==
    /\ es # entries /\ changes < MaxChanges
    /\ entries' = es /\ changes' = changes + 1
    /\ UNCHANGED <<digests, cached, callers>>

KeysNext ==
    \/ \E c \in Callers : Configured(c) \/ Match(c) \/ \E ts \in {k \in SUBSET Keys : Cardinality(k) <= 2} : Present(c, ts)
    \/ \E n \in DOMAIN digests, ok \in BOOLEAN : Computed(n, ok)
    \/ \E es \in EntryLists : Replace(es)

KeysSpec == KeysInit /\ [][KeysNext]_keyVars

-----------------------------------------------------------------------------
(* Properties. *)

Lifetime == CHOOSE t \in {s.ttl : s \in Settings} : \A s \in Settings : s.ttl <= t

\* Whoever is admitted has signed in: in this browser, at the provider and for
\* the client that are configured now, no longer ago than a session lives, as an
\* identity that is allowed now (oidc.ts authenticateOidcSession, /callback).
AdmittedHaveSignedIn ==
    \A b \in Browsers : Admitted(b) =>
        \E c \in codes :
            LET s == AuthenticateSession(b)
            IN  /\ c.used # Nothing /\ c.user.sub = s.sub /\ c.user.email = s.email
                /\ attempts[c.attempt] = [browser |-> b, issuer |-> env.issuer, client |-> env.client]
                /\ clock < c.used + Lifetime
                /\ env.allowed # {} => c.user.email \in env.allowed

\* An authorization runs only for a provider that had its type in the version
\* the administrator acted on, and an account never serves two providers,
\* whatever is committed between the reads (routes/oauth.ts: "The configuration
\* changed; reload before authorizing").
StartsAsSeen ==
    /\ \A s \in started : Saved(commits[s.version], s.provider, s.type)
    /\ \A s, t \in started : s.ref = t.ref => s.provider = t.provider /\ s.type = t.type

\* A request becomes the client whose key it carries and who is configured at
\* that moment, although keys are replaced while digests are computed; and if
\* nothing was replaced and nothing failed it becomes the first such client
\* (http.ts: "Never authenticate a key replaced while its digest was being
\* computed").
AnswerIsCurrent ==
    \A c \in Callers :
        callers[c].step = "waiting" /\ callers'[c].step = "answered" =>
          LET known == {i \in DOMAIN entries : entries[i].key \in callers[c].tokens}
              found == callers'[c].found
          IN  /\ found # Nothing => \E i \in known : entries[i] = found
              /\ callers[c].since = changes /\ digests[callers[c].uses].status = "done" =>
                   IF known = {} THEN found = Nothing
                   ELSE found = entries[CHOOSE i \in known : \A j \in known : i <= j]
ClientIsCurrent == [][AnswerIsCurrent]_keyVars
=============================================================================
