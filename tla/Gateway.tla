------------------------------ MODULE Gateway -------------------------------
(***************************************************************************)
(* One inference request over HTTP (gateway/http/proxy.ts): selection of   *)
(* an account, upstream attempts with configured retries and one recovery  *)
(* of a rejected token (upstream-retry.ts), inspection of the response     *)
(* before output, the switch to another account of the same provider once  *)
(* a limit has been stored, and the answer.  Other requests change the     *)
(* health objects and account views it reads (Elsewhere).                  *)
(*                                                                         *)
(* Time counts down: `left' is what remains of the attempt's budget,       *)
(* `total' of the request's.  Both bind only a request that is `timed'.    *)
(***************************************************************************)
EXTENDS HealthRecord, Routing, FiniteSetsExt

CONSTANTS
    Configurations,   \* the configurations and requests to consider
    Responses,        \* [status, sse, events, limit] an upstream can answer with
    Resets,           \* how far away a reported limit resets; 0 is in the past
    Budget,           \* attemptTimeoutMs
    Delay,            \* every delay of the retry policies
    MaxUntimed        \* bound: time observed by a request without a timeout

VARIABLES
    cfg,          \* the configuration and the request's own properties
    health,       \* the stored record of every health object
    view,         \* the quota view of every account
    pc, target,   \* where the request is, and the selected account
    chain,        \* [excluded, locked, mode, exhausted, resetUsed] of the request
    attempt,      \* [retries, recovered, pause] of the running attempt chain
    left, total,  \* the time of a provider that shares it over the request
    response,     \* the response in hand
    answer,
    others,       \* bound: steps taken by other requests, at most cfg.others
    sends,        \* history: accounts the request was sent to, in order
    recorded,     \* history: accounts whose limit was stored, not restored since
    dropped,      \* history: the response last replaced by a replay, with its cut
    spent         \* history: time the running attempt has taken

vars == <<cfg, health, view, pc, target, chain, attempt, left, total, response,
          answer, others, sends, recorded, dropped, spent>>
inputs == <<cfg, others>>
history == <<sends, recorded, dropped, spent>>

-----------------------------------------------------------------------------
(* What may be decided about a response before any of it has been          *)
(* forwarded (retry-errors.ts, response-prefix.ts).                        *)
(*                                                                         *)
(* A response carries a sequence of events (a JSON body is one event).  An *)
(* event is a record: `valid', it parses as an envelope; `output', it      *)
(* carries content a client could already use; `agrees', its SSE name and  *)
(* its type agree; `kind', "created" and "item" for the empty preambles,   *)
(* "commit" for the other events that start or end work, else "other";     *)
(* `pending', no status but queued or in_progress and no error; `failed',  *)
(* no status but failed; `code', the error code found in it, or NoCode.    *)
(* The prefix that is read ends at a time or size limit: `cut' events.     *)

NoCode == "none"

Event == [valid : BOOLEAN, output : BOOLEAN, agrees : BOOLEAN,
          kind : {"created", "item", "commit", "other"},
          pending : BOOLEAN, failed : BOOLEAN, code : STRING]

\* replayGuard(): content first, then the preamble, then what commits.
ReplayGuard(e) ==
    CASE e.output \/ ~e.agrees -> "forward"
      [] e.pending /\ e.kind \in {"created", "item"} -> "inspect"
      [] e.kind \in {"item", "commit"} \/ ~e.failed -> "forward"
      [] OTHER -> "eligible"

\* responseReplaySafety()
ReplaySafety(e) == IF e.valid THEN ReplayGuard(e) ELSE "forward"

\* classifyPayload(): an eligible event is replayed for a known code only.
Classify(e, codes) ==
    CASE ReplaySafety(e) # "eligible" -> ReplaySafety(e)
      [] e.code \in codes -> "retry"
      [] OTHER -> "forward"

\* inspectResponsePrefix(): what is read before the response is committed.
Prefix(events, cut) == SubSeq(events, 1, cut)

\* inspectRetryError(): the first decisive event of the prefix authorises a
\* replay (its index) or commits what was read (0).
Inspect(events, codes, cut) ==
    LET prefix == Prefix(events, cut)
        decisive == {i \in DOMAIN prefix : Classify(prefix[i], codes) # "inspect"}
        first == Min(decisive)
    IN  IF decisive # {} /\ Classify(prefix[first], codes) = "retry" THEN first ELSE 0

-----------------------------------------------------------------------------
Nobody == "nobody"
Accounts == UNION {ToSet(cfg.creds[p]) : p \in ToSet(cfg.order)}
ProviderOf(c) == CHOOSE p \in ToSet(cfg.order) : c \in ToSet(cfg.creds[p])
Type(c) == cfg.type[ProviderOf(c)]
NoResponse == [status |-> 0, sse |-> FALSE, events |-> <<>>, limit |-> FALSE]

Keys(c) == LET cs == UNION {ToSet(c.creds[p]) : p \in ToSet(c.order)} IN
    {ProviderKey(p) : p \in ToSet(c.order)}
        \union {CredentialKey(d) : d \in cs} \union {ModelQuotaKey(d) : d \in cs}

Init ==
    /\ cfg \in Configurations
    /\ health = [k \in Keys(cfg) |-> Fresh]
    /\ view = cfg.view
    /\ pc = "input" /\ target = Nobody
    /\ chain = [excluded |-> {}, locked |-> Nobody, mode |-> NoMode,
                exhausted |-> FALSE, resetUsed |-> FALSE]
    /\ attempt = [retries |-> 0, recovered |-> FALSE, pause |-> 0]
    /\ left = Budget /\ total = Budget
    /\ response = NoResponse /\ answer = Nobody /\ others = 0
    /\ sends = <<>> /\ recorded = {} /\ dropped = {} /\ spent = 0

Finish(code) == pc' = "done" /\ answer' = code

-----------------------------------------------------------------------------
\* prepareInferenceInput(): the bounded body, its payload and its route.
PrepareInput ==
    /\ pc = "input"
    /\ \/ \E code \in {"request_too_large", "invalid_request"} : Finish(code)
       \/ IF Targets(cfg, cfg.model) = <<>> THEN Finish("model_not_found")
          ELSE pc' = "select" /\ UNCHANGED answer
    /\ UNCHANGED <<cfg, health, view, target, chain, attempt, left, total,
                   response, others, history>>

ReadinessKey == <<"readiness", "">>

\* getProviderAvailability() and its siblings, from a snapshot that was read.
Availability(h) ==
    CASE ~Cooling(h) -> "free" [] h.reason = Quota -> "quota" [] OTHER -> "cooling"

\* What selection reads; at most one of its reads fails.
See(failed) ==
    [health |-> [k \in DOMAIN health |->
                    IF k \in failed THEN "failed" ELSE Availability(Snapshot(health[k]))],
     readiness |-> IF ReadinessKey \in failed THEN "failed" ELSE "ok",
     ready |-> cfg.ready, mode |-> cfg.mode, siwcOk |-> cfg.siwcOk,
     view |-> view, counting |-> cfg.counting]

Route == SelectSeq(Targets(cfg, cfg.model),
                   LAMBDA p : chain.locked \in {Nobody, p})

Checked(see) ==
    UNION {IF ProviderOpen(cfg, see, p) THEN Routed(cfg, see, p, chain.excluded) ELSE {}
             : p \in ToSet(Route)}
Check(see, c) == CredentialCheck(cfg, see, ProviderOf(c), c, chain.mode)
OfType(route, type) == {p \in ToSet(route) : cfg.type[p] = type}

\* siwcOnlySelection()
SiwcOnly(see) ==
    LET compatible == {c \in Checked(see) : Check(see, c) # "unsupported"} IN
    /\ compatible # {}
    /\ \A c \in compatible : Type(c) = "codex" /\ see.mode[c] = "siwc" /\ see.readiness = "ok"

\* codexQuotaResetsAt(): every Codex account that could serve is cooling for
\* its quota, and there is one.
CodexExhausted(see) ==
    \E p \in OfType(Targets(cfg, cfg.model), "codex") :
        LET judged == {c \in Credentials(cfg, p) :
                          c \notin Checked(see) \/ Check(see, c) # "unsupported"}
            cooling == {c \in judged : c \in Checked(see) /\ Check(see, c) = "quota"}
        IN  cooling # {} /\ judged \ cooling \subseteq chain.excluded

\* restoreCodexAccount(): whether a reset credit may be asked for.
MayRestore(see) ==
    /\ ~chain.resetUsed /\ ~SiwcOnly(see)
    /\ \E p \in OfType(Targets(cfg, cfg.model), "codex") : cfg.auto[p]
    /\ chain.exhausted \/ CodexExhausted(see)

\* antigravityQuotaResetsAt()
AntigravityExhausted(see) ==
    \E p \in OfType(Route, "antigravity") :
        /\ ProviderOpen(cfg, see, p)
        /\ \A c \in Credentials(cfg, p) : Check(see, c) = "quota"

\* unavailableInference(): the answer, in the order in which it is looked for.
Unavailable(see) ==
    LET checks == {Check(see, c) : c \in Checked(see)}
        unread == \E p \in ToSet(Route) :
            /\ cfg.type[p] \in {"codex", "antigravity"}
            /\ \/ see.health[ProviderKey(p)] = "failed"
               \/ \E c \in Credentials(cfg, p) :
                     c \in Checked(see) /\ Check(see, c) = "failed"
        blocked(type) == ~cfg.counting /\ \E p \in OfType(Route, type) :
            AllBlocked(cfg, see, p, chain.excluded)
    IN  CASE unread -> "quota_state_unavailable"
          [] AntigravityExhausted(see) -> "usage_limit_reached"
          [] chain.exhausted -> "accounts_exhausted"
          [] blocked("xai") \/ blocked("claude") -> "usage_limit_reached"
          [] checks = {"unsupported"} /\ ~cfg.siwcOk -> "request_unsupported"
          [] CodexExhausted(see) -> "usage_limit_reached"
          [] OTHER -> "provider_cooling_down"

\* A target was found: the kept answer of an exhausted account is let go.
Take(c) ==
    /\ target' = c /\ pc' = "prepare"
    /\ chain' = [chain EXCEPT !.exhausted = FALSE] /\ UNCHANGED answer

\* selectAvailableProviderWithDetails(), and what follows when it finds nobody.
Select ==
    /\ pc = "select"
    /\ \E failed \in {{}} \union {{k} : k \in DOMAIN health \union {ReadinessKey}} :
         LET see == See(failed)
             open(p) == Candidates(cfg, see, p, chain.excluded, chain.mode)
             serving == SelectSeq(Route, LAMBDA p : open(p) # {})
         IN  \/ /\ serving # <<>> /\ cfg.session
                /\ \/ \E p \in ToSet(serving) : \E c \in open(p) : Take(c)
                   \/ Finish("session_affinity_unavailable") /\ UNCHANGED <<target, chain>>
             \/ /\ serving # <<>> /\ ~cfg.session
                /\ \/ \E c \in Preferred(cfg, serving[1], open(serving[1])) : Take(c)
                   \/ /\ cfg.rr[serving[1]] /\ Finish("internal_error")
                      /\ UNCHANGED <<target, chain>>
             \/ /\ serving = <<>>
                /\ answer' = Unavailable(see)
                /\ pc' = IF /\ MayRestore(see) /\ ~AntigravityExhausted(see)
                            /\ Unavailable(see) # "quota_state_unavailable"
                         THEN "restore" ELSE "done"
                /\ UNCHANGED <<target, chain>>
    /\ UNCHANGED <<inputs, health, view, attempt, left, total, response, history>>

\* consumeCodexResetForExhaustion(), module QuotaReset: it may restore one
\* native account that is cooling for its quota; else the answer found stands.
Restore ==
    /\ pc = "restore"
    /\ \/ pc' = "done" /\ UNCHANGED <<health, chain, answer, recorded>>
       \/ \E c \in Accounts :
             /\ Type(c) = "codex" /\ cfg.mode[c] = "native"
             /\ chain.mode \in {NoMode, "native"}
             /\ Cooling(health[CredentialKey(c)]) /\ health[CredentialKey(c)].reason = Quota
             /\ health' = [health EXCEPT ![CredentialKey(c)] = Fresh]
             /\ chain' = [chain EXCEPT !.excluded = @ \ {c}, !.resetUsed = TRUE]
             /\ recorded' = recorded \ {c}
             /\ pc' = "select" /\ answer' = Nobody
    /\ UNCHANGED <<inputs, view, target, attempt, left, total, response, sends,
                   dropped, spent>>

-----------------------------------------------------------------------------
RequestScope(c) == Type(c) \in {"antigravity", "xai"}
Remaining == IF RequestScope(target) THEN total ELSE left
OutOfTime == cfg.timed /\ Remaining = 0

\* prepareProviderRequest(): refused, answered here, or ready to be sent.
Prepare ==
    /\ pc = "prepare"
    /\ \/ \E code \in {"provider_preparation_failed", "local"} : Finish(code)
       \/ pc' = "send" /\ UNCHANGED answer
    /\ attempt' = [retries |-> 0, recovered |-> FALSE, pause |-> 0]
    /\ left' = Budget
    /\ spent' = IF RequestScope(target) THEN spent ELSE 0
    /\ UNCHANGED <<inputs, health, view, target, chain, total, response, sends,
                   recorded, dropped>>

\* No response: the provider is blamed unless the client left or the proxy failed.
Unreachable(code) ==
    /\ Finish(code)
    /\ health' = IF code = "upstream_unavailable"
                 THEN [health EXCEPT ![ProviderKey(ProviderOf(target))] = Failure(@)]
                 ELSE health

Send ==
    /\ pc = "send"
    /\ IF OutOfTime THEN Unreachable("upstream_unavailable") /\ UNCHANGED sends
       ELSE /\ pc' = "wait" /\ sends' = Append(sends, target)
            /\ UNCHANGED <<health, answer>>
    /\ UNCHANGED <<inputs, view, target, chain, attempt, left, total, response,
                   recorded, dropped, spent>>

\* The attempt fails: by itself, by its timer, by the client or by the proxy.
SendFails ==
    /\ pc \in {"wait", "recover"}
    /\ \E code \in {"upstream_unavailable", "request_cancelled", "proxy_error"} :
          Unreachable(code)
    /\ UNCHANGED <<inputs, view, target, chain, attempt, left, total, response, history>>

\* Mutant: the timer does not cover the recovery of a rejected token.
TimesOutWaitingOnly ==
    /\ pc = "wait" /\ OutOfTime
    /\ Unreachable("upstream_unavailable")
    /\ UNCHANGED <<inputs, view, target, chain, attempt, left, total, response, history>>

\* The timer of the attempt, or of the recovery it is spent on, fires.
TimesOut ==
    /\ pc \in {"wait", "recover"} /\ OutOfTime
    /\ Unreachable("upstream_unavailable")
    /\ UNCHANGED <<inputs, view, target, chain, attempt, left, total, response, history>>

\* A response arrives; the first 401 of a Codex account starts a recovery.
Arrive ==
    /\ pc = "wait"
    /\ \E r \in Responses : response' = r
    /\ LET recovers == response'.status = 401 /\ Type(target) = "codex" /\ ~attempt.recovered
       IN  /\ attempt' = [attempt EXCEPT !.recovered = @ \/ recovers]
           /\ pc' = IF recovers THEN "recover" ELSE "inspect"
    /\ UNCHANGED <<inputs, health, view, target, chain, left, total, answer, history>>

\* recoverUnauthorized(): a new token sends the request again on what is left
\* of the attempt's time; otherwise the 401 stands.  The account may also never
\* answer: only the timer is sure to.
Recover ==
    /\ pc = "recover"
    /\ pc' \in {"send", "inspect"}
    /\ UNCHANGED <<inputs, health, view, target, chain, attempt, left, total,
                   response, answer, history>>

-----------------------------------------------------------------------------
\* healthFailureScope(): whose record a status is held against.
FailureScope(type, anthropic, status) ==
    CASE type = "codex" ->
            (CASE status \in {401, 402, 403} -> "credential"
               [] status = 503 -> "provider" [] OTHER -> "nobody")
      [] type # "codex" /\ anthropic ->
            (CASE status \in {401, 403} -> "credential"
               [] status \in {500, 502, 503, 529} -> "provider" [] OTHER -> "nobody")
      [] OTHER ->
            (CASE status \in {402, 403} -> "credential"
               [] status \in {400, 503} -> "provider" [] OTHER -> "nobody")
Scope == FailureScope(Type(target), cfg.anthropic, response.status)

Ok == response.status \in 200..299
Policy == cfg.retry[ProviderOf(target)]
QuotaCodes == {"usage_limit_reached"}
Inspectable(statuses) == response.status \in statuses \/ (Ok /\ response.sse)

\* Which events report a limit (codex/limits.ts and its siblings).
Reports(i) == response.events[i].code \in QuotaCodes

\* The event that reports a limit which another account may still answer, or
\* 0.  Codex shares one inspection between limits and retries;
CodexLimit(cut) ==
    LET i == Inspect(response.events, QuotaCodes \union Policy.codes, cut)
    IN  IF Inspectable({429}) /\ i > 0 /\ Reports(i) THEN i ELSE 0
\* Antigravity only takes the very first event for one;
AntigravityLimit(cut) == IF Inspectable({429}) /\ cut > 0 /\ Reports(1) THEN 1 ELSE 0
\* xAI one that is still safe to replay;
XaiLimit(cut) ==
    IF Inspectable({402, 403, 429}) THEN Inspect(response.events, QuotaCodes, cut) ELSE 0
\* Claude the headers of a 429.
ClaudeLimit == IF response.status = 429 /\ response.limit THEN 1 ELSE 0

LimitAt(cut) ==
    CASE Type(target) = "codex" -> CodexLimit(cut)
      [] Type(target) = "antigravity" -> AntigravityLimit(cut)
      [] Type(target) = "xai" -> XaiLimit(cut)
      [] Type(target) = "claude" -> ClaudeLimit
      [] OTHER -> 0

\* The retry decision: by status, or by an error code before any output.
RetriedAt(cut) ==
    CASE response.status = 401 /\ Type(target) = "codex" -> -1
      [] attempt.retries >= Policy.retries -> -1
      [] response.status \in Policy.statuses -> 0
      [] Policy.codes # {} /\ response.status >= 200 ->
            (LET i == Inspect(response.events, Policy.codes, cut) IN IF i > 0 THEN i ELSE -1)
      [] OTHER -> -1

Drop(cut) == dropped' = {[response |-> response, at |-> cut]}

\* onResponse and the inspection of one response: a limit is settled first, a
\* retry waits its turn, everything else is the answer.
InspectResponse ==
    /\ pc = "inspect"
    /\ health' = IF Scope = "credential"
                 THEN [health EXCEPT ![CredentialKey(target)] = ImmediateFailure(@)]
                 ELSE health
    /\ view' = IF Type(target) = "xai" /\ response.status = 401
               THEN [view EXCEPT ![target] = "unknown"] ELSE view
    /\ \E cut \in (IF OutOfTime THEN {0} ELSE 0..Len(response.events)) :
         \/ /\ LimitAt(cut) > 0 /\ pc' = "persist"
            /\ UNCHANGED <<response, attempt, left, dropped, spent>>
         \/ /\ LimitAt(cut) = 0 /\ RetriedAt(cut) >= 0
            /\ pc' = "delay" /\ Drop(RetriedAt(cut)) /\ response' = NoResponse
            /\ attempt' = [attempt EXCEPT !.retries = @ + 1,
                  !.pause = IF cfg.timed /\ RequestScope(target) /\ total < Delay
                            THEN total ELSE Delay]
            /\ left' = Budget
            /\ spent' = IF RequestScope(target) THEN spent ELSE 0
         \/ /\ LimitAt(cut) = 0 /\ RetriedAt(cut) < 0
            /\ pc' = "answer" /\ UNCHANGED <<response, attempt, left, dropped, spent>>
    /\ UNCHANGED <<inputs, target, chain, total, answer, sends, recorded>>

\* The delay before a retry is over, or the client left during it.
Resume ==
    /\ pc = "delay" /\ attempt.pause = 0
    /\ \/ pc' = "send" /\ UNCHANGED answer
       \/ Finish("request_cancelled")
    /\ UNCHANGED <<inputs, health, view, target, chain, attempt, left, total,
                   response, history>>

-----------------------------------------------------------------------------
\* Storing a limit: a quota cooldown of the account, or of the account and the
\* model, or the quota view the account itself keeps.
StoreCodexLimit(until) ==
    /\ health' = [health EXCEPT ![CredentialKey(target)] = CooldownUntil(@, until)]
    /\ UNCHANGED view
StoreAntigravityLimit(until) ==
    /\ health' = [health EXCEPT ![ModelQuotaKey(target)] = CooldownUntil(@, until)]
    /\ UNCHANGED view
StoreXaiLimit ==
    /\ view' = [view EXCEPT ![target] =
                   IF @ = "subscription" /\ cfg.paid[target] THEN "extra" ELSE "blocked"]
    /\ UNCHANGED health
StoreClaudeLimit ==
    /\ view' = [view EXCEPT ![target] =
                   IF @ = "subscription" /\ cfg.paid[target] THEN "extra" ELSE "blocked"]
    /\ UNCHANGED health
StoreLimit(until) ==
    CASE Type(target) = "codex" -> StoreCodexLimit(until)
      [] Type(target) = "antigravity" -> StoreAntigravityLimit(until)
      [] Type(target) = "xai" -> StoreXaiLimit
      [] OTHER -> StoreClaudeLimit

\* Mutant: a limit that could not be stored still moves to another account.
PersistMovesOn ==
    /\ pc = "persist"
    /\ \/ \E until \in Resets : StoreLimit(until) /\ recorded' = recorded \union {target}
       \/ UNCHANGED <<health, view, recorded>>
    /\ chain' = [chain EXCEPT !.excluded = @ \union {target}, !.locked = ProviderOf(target),
                              !.mode = cfg.mode[target], !.exhausted = TRUE]
    /\ pc' = "select"
    /\ UNCHANGED <<inputs, target, attempt, left, total, response, answer, sends,
                   dropped, spent>>

\* accountSwitch.persist(): only a recorded limit moves to another account; an
\* unrecorded one is answered as it came (Codex, Claude) or refused.
Persist ==
    /\ pc = "persist"
    /\ \/ /\ \E until \in Resets : StoreLimit(until)
          /\ chain' = [chain EXCEPT !.excluded = @ \union {target},
                 !.locked = ProviderOf(target), !.exhausted = TRUE,
                 !.mode = IF Type(target) = "codex" THEN cfg.mode[target] ELSE NoMode]
          /\ recorded' = recorded \union {target}
          /\ pc' = "select" /\ response' = NoResponse /\ UNCHANGED answer
       \/ /\ IF RequestScope(target) THEN Finish("quota_state_unavailable")
             ELSE pc' = "answer" /\ UNCHANGED answer
          /\ UNCHANGED <<health, view, chain, response, recorded>>
    /\ UNCHANGED <<inputs, target, attempt, left, total, sends, dropped, spent>>

\* recordProviderSuccess() and recordProviderFailure() for the final response.
JudgeProvider ==
    LET p == ProviderKey(ProviderOf(target)) IN
    CASE Ok -> health' = [health EXCEPT ![p] = Success(@)]
      [] Scope = "provider" -> health' = [health EXCEPT ![p] = Failure(@)]
      [] OTHER -> UNCHANGED health

\* The answer, whose transformation may fail.
Answer ==
    /\ pc = "answer"
    /\ JudgeProvider
    /\ \/ answer' = "upstream"
       \/ RequestScope(target) /\ answer' = "invalid_upstream_response"
    /\ pc' = IF Ok /\ response.sse THEN "stream" ELSE "done"
    /\ UNCHANGED <<inputs, view, target, chain, attempt, left, total, response, history>>

\* The rest of a stream is observed while it is forwarded: a limit reported
\* too late to switch is still stored.
Stream ==
    /\ pc = "stream" /\ pc' = "done" /\ response' = NoResponse
    /\ \/ /\ \E i \in DOMAIN response.events : Reports(i)
          /\ Type(target) \in {"codex", "antigravity", "xai"}
          /\ \E until \in Resets : StoreLimit(until)
       \/ UNCHANGED <<health, view>>
    /\ UNCHANGED <<inputs, target, chain, attempt, left, total, answer, history>>

-----------------------------------------------------------------------------
\* Time passes while the upstream, a recovery or a delay is waited for.
Tick ==
    /\ pc \in {"wait", "recover", "delay"}
    /\ pc = "delay" => attempt.pause > 0
    /\ pc # "delay" => IF cfg.timed THEN Remaining > 0 ELSE spent < MaxUntimed
    /\ health' = [k \in DOMAIN health |-> Older(health[k])]
    /\ attempt' = [attempt EXCEPT !.pause = IF pc = "delay" THEN @ - 1 ELSE @]
    /\ left' = IF pc = "delay" \/ left = 0 THEN left ELSE left - 1
    /\ total' = IF RequestScope(target) /\ total > 0 THEN total - 1 ELSE total
    /\ spent' = IF pc = "delay" /\ ~RequestScope(target) THEN spent ELSE spent + 1
    /\ UNCHANGED <<inputs, view, pc, target, chain, response, answer, sends,
                   recorded, dropped>>

\* Other requests, an administrator or an account's own refresh, seen where
\* the request reads what they change.
Elsewhere ==
    /\ others < cfg.others /\ pc \in {"select", "restore"} /\ others' = others + 1
    /\ \/ \E k \in DOMAIN health :
            /\ health' \in {[health EXCEPT ![k] = h] :
                   h \in CASE k[1] = "provider" -> {Failure(health[k]), Fresh}
                           [] k[1] = "key" -> {ImmediateFailure(health[k]),
                                               CooldownUntil(health[k], Cooldown), Fresh}
                           [] OTHER -> {CooldownUntil(health[k], Cooldown)}}
            /\ UNCHANGED view
       \/ \E c \in Accounts, v \in {"subscription", "extra", "blocked", "unknown"} :
            /\ Type(c) \in {"claude", "xai"}
            /\ view' = [view EXCEPT ![c] = v] /\ UNCHANGED health
    /\ UNCHANGED <<cfg, pc, target, chain, attempt, left, total, response, answer, history>>

Step ==
    \/ PrepareInput \/ Select \/ Restore \/ Prepare \/ Send \/ TimesOut
    \/ InspectResponse \/ Resume \/ Persist \/ Answer \/ Stream
Next == Step \/ SendFails \/ Arrive \/ Recover \/ Tick \/ Elsewhere

\* The gateway runs and time passes; nothing is assumed of the upstream
\* or of the account object that recovers a token.
Fairness == WF_vars(Step) /\ WF_vars(Tick)
Spec == Init /\ [][Next]_vars /\ Fairness

-----------------------------------------------------------------------------
\* Types, and a target wherever the request needs one.
TypeOK ==
    /\ pc \in {"input", "select", "restore", "prepare", "send", "wait", "recover",
               "inspect", "delay", "persist", "answer", "stream", "done"}
    /\ \A k \in DOMAIN health : health[k] \in Record
    /\ pc \in {"prepare", "send", "wait", "recover", "inspect", "delay", "persist", "answer"}
          => target \in Accounts
    /\ chain.excluded \subseteq Accounts /\ chain.locked \in ToSet(cfg.order) \union {Nobody}
    /\ left \in 0..Budget /\ total \in 0..Budget /\ attempt.pause \in 0..Delay

\* A successful response is given up for a retry only on an error event before
\* which, and in which, no output was seen: what a client could already have
\* used is never asked for twice.
NoReplayAfterOutput ==
    \A d \in dropped :
        d.response.status \in 200..299 =>
            /\ d.at \in DOMAIN d.response.events
            /\ \A i \in 1..d.at : ~d.response.events[i].output
            /\ \A i \in 1..(d.at - 1) : d.response.events[i].pending

\* The request is sent to a second account only after the limit of the first
\* has been stored, stays with that account's provider, and comes back to an
\* account only if a reset restored it.
SwitchIsRecorded ==
    /\ \A i \in 1..(Len(sends) - 1) :
          sends[i] # sends[i + 1] =>
              /\ ProviderOf(sends[i]) = ProviderOf(sends[i + 1])
              /\ sends[i] \in recorded \/ chain.resetUsed
    /\ pc \in {"send", "wait", "recover"} => target \notin recorded

\* An attempt never takes more than its budget: recovering a rejected token
\* spends the same time, and account switches share the time of the request
\* where the provider says so.
BudgetIsShared == cfg.timed => spent <= Budget

\* A request with a timeout is answered, whatever the upstream does.
EveryRequestAnswers == <>(cfg.timed => pc = "done")
=============================================================================
