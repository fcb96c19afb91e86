# Cody Gateway: a TLA+ verification project

Cody is a gateway between coding agents and model providers. Clients send Anthropic- or
OpenAI-style requests over HTTP or WebSocket; the gateway picks an account of a provider
(Codex, Claude, Antigravity, xAI or a plain API key), keeps a client's session with one
account, sends the request directly or through a SOCKS proxy group, meters what it cost and
records it. It runs on Cloudflare (Durable Objects, D1, queues) and, with the same core
classes, on a "standard" runtime (Node.js or Vercel with SQL and Redis).

Paths below are relative to `src/src/` unless they say otherwise.

## 1. Inventory

| Component | State it keeps | Operations | What is hard | What makes it correct |
|---|---|---|---|---|
| Standard object storage (`platform/standard/objects.ts`, `cached-objects.ts`, `sql-objects.ts`) | Redis lease, cache key and one hash per revision; SQL version and rows; per invocation a memo and a revision | `invoke`, reads and writes of an object, lease-free `readCached`, recovery of a dirty cache | leases expire under a running holder; a SQL batch lands after its sender died; recovery races recovery | a change is computed from, and an answer given from, the stored state only; a clean cache never lies |
| Object alarms of the standard runtime (`platform/standard/objects.ts`, `runtime.ts`) | alarm rows, leases, fences, a queue per process | calls, `runDueAlarms`, the handler and its retry | a process that dies between claim and handler; one object's failure ends a tick | what has work has an alarm, and the work is done |
| Usage outbox (`telemetry/outbox.ts`, `delivery-backoff.ts`, `delivery.ts`) | a journal of records, a cursor, two back-offs, an alarm | `enqueue`, `flush`, `alarm` | partial failure of one destination, eviction at any await, an alarm that must exist | nothing accepted is lost; whatever is pending is eventually delivered |
| Usage ledger (`reporting/store.ts`, `../migrations`) | request rows, the hourly rollup | `ingestUsage`, `expirePendingRequests`, `cleanupRequests`, triggers | events late, twice, out of order, around maintenance | the rollup counts each finished request once; the genuine result wins |
| Meter and observers (`telemetry/`) | attempts, times, usage, an outcome, what was emitted | the reads of a response, its end, cancellation, discarding | a stop that races the completion; a body cut off inside an event | one terminal record, which tells what was handed over |
| Billing (`billing/`, `telemetry/usage.ts`) | none | normalising a report, the charges | partial reports, images and cache durations | a full report is charged exactly, an unknown share never guessed |
| Health (`gateway/health/`) | failure window and cooldown of a provider, cooldown of a credential | success, failure, quota limit, clear | boundaries of the window; a milder event after a harsher one | a cooldown is earned, and holds |
| Reset credits (`providers/codex/resets.ts`) | a lease with a pending redemption | discover, acquire, verify, redeem, confirm, release | lease expiry in the middle of a purchase, lost answers | a reset is bought once, and a purchase is never forgotten |
| OAuth accounts (`providers/oauth/`, `providers/codex/*-account.ts`) | an account record with tokens, two generations, an authorization session, an alarm | resolve, refresh, start, complete, callback, poll, cancel, retry, disconnect, revoke | network awaits between read and commit; single-use refresh tokens | a working token is never lost to a late operation; open sessions always have an alarm |
| Antigravity projects (`providers/antigravity/account.ts`, `initialization.ts`) | a pending initialization with a copy of the tokens, an alarm | poll, verify, finish, give up | requests rotate a borrowed token meanwhile | the account keeps a token that works, and the initialization ends |
| Codex quota views (`providers/codex/quota.ts`, `inventory.ts`) | windows, groups, plan, credits, each with its age | observe an answer or an event, full read, merge | reads and events overtake each other | nothing shown is replaced by something older |
| Session affinity (`gateway/sessions/`, `gateway/routing/affinity.ts`) | bindings per model, a per-client index, an alarm | resolve, list, clear one or all, expire | two stores kept together by background tasks | the index follows the bindings; a binding leaves its account only when outranked |
| Proxy groups (`gateway/proxies/`, `platform/standard/proxy-group.ts`) | node health, sticky bindings, owners, the configuration they follow | select, observe, status, clear; the transport's node switch | callers with old or partial configurations; reports in the wrong order | old configurations are fenced; cooldowns follow from counted failures; bindings stay |
| HTTP inference (`gateway/http/`) and routing (`gateway/routing/`) | per request: attempts, locked provider, switches, time left | selection, attempts, recovery after 401, inspection, account switch, reset, every answer | one step of several failing; budgets shared between them | no replay after output; a switch only after the limit was stored; a timed request is answered |
| Responses over WebSocket (`gateway/websocket/`) | two bounded queues, the stored session, turns, usage checkpoints, an alarm | messages both ways, moves to another account, closes by any party, crash | handlers interleave at every wait; hibernation | the client hears one account; each response is judged and recorded once |
| Control plane (`control/`), configuration (`config/`) | versioned tables, snapshots, operation log, secrets, a cached document | 25 requests in a fenced transaction; restore; the gateway's cache | concurrent administrators, repeated calls, references between entities | a register: every version is one request applied to the one before |
| Data transfer (`transfer/`) | a journal on disk, two deployments | copy, resume, abort, alarm hand-over | a crash at any step, a lost answer | one side acts at a time, and nothing is lost |
| Sign-in (`admin/oidc.ts`, `auth.ts`, `middleware.ts`), client keys (`gateway/http/http.ts`), account routes (`admin/routes/oauth.ts`) | sealed cookies; a cache of digests; nothing | login, callback, admission; lookup; start | restarts with other settings; state read twice around an await | who is admitted signed in under the settings in force; the client is the one whose key was sent |
| Model catalog (`gateway/catalog/`), web search (`gateway/search/`) | two caches; a batch with a byte budget | list; search | a cached answer outlives its reasons; failures in any order | listed models are served; the first failure is the one reported |
| Adapters of xAI and Antigravity (`providers/xai/`, `providers/antigravity/`) | encoder state; a stored answer in chunks | stream translation, tools, history, replay store | items interleave; turns overlap; signatures bind to content | the client's stream is well formed; a signature comes back with its content |
| SQL and Redis drivers, protocol formats, Claude and Codex requests, assets, console | none that others rely on | format conversion, byte I/O, presentation | | not modelled: no protocol of their own |

How they interact: an HTTP or WebSocket request finds its client by key, reads the committed
configuration through the cache, asks routing for candidates, the session's affinity object for
an account, the OAuth account for a token and the proxy group for a node, sends, reports health,
translates the stream, and hands the meter's events to the outbox, which delivers them to the
ledger. When every Codex account is out of quota the request may spend a reset credit. On the
standard runtime every one of those objects is an invocation of the object storage; on
Cloudflare it is a Durable Object. Administrators sign in and change the configuration, the
accounts and the groups through routes that read several of these states in turn.

## 2. Modules

Components:

| Module | Models | Checked by run |
|---|---|---|
| `ObjectContract`, `CachedObject`, `CachedObjectProofs` | what the standard runtime promises an object; one object with lease, cache, fence, invocations, lease-free readers; theorems | `objects` |
| `ObjectAlarms` | the alarms of objects over several processes | `delivery` |
| `UsageOutbox`, `StandardOutbox` | one shard of the journal on Durable Objects; the same core under the standard runtime (EXTENDS) | `delivery`, `standard_outbox` |
| `DeliveryProofs` | theorems about `UsageOutbox` and `ObjectAlarms` | |
| `UsageLedger`, `UsageLedgerProofs` | rows, rollup triggers, maintenance; theorems | `usage` |
| `Meter`, `Pricing` | the meter of a request and its observers; counters and charges | `gateway` |
| `HealthRecord`, `Health` | the record and its operators; a provider's and a credential's object | `gateway` |
| `Routing`, `Gateway` | selection; one request with the decision to replay, composed with `Routing` and `HealthRecord` | `gateway` |
| `WebSocketProxy` | one connection | `control` |
| `ConfigRegister`, `ConfigEntities`, `ControlPlane`, `ControlPlaneProofs` | the abstract register; every service as an operator on the tables; concurrent calls, shown to implement the register; theorems | `control` |
| `QuotaReset`, `QuotaResetProofs` | competing redemptions of reset credits; theorems | `quota` |
| `OAuthAccount`, `OAuthAccountProofs` | one account with the Codex protocols and an issuer; theorems | `oauth_account`, `oauth_account_start` |
| `AntigravityProject`, `Transfer` | a project's initialization; a transfer between deployments | `usage` |
| `SessionAffinity`, `SessionAffinityProofs` | one session, the index, the management endpoints; theorems | `session`, `session_affinity_late` |
| `ClientStream`, `XaiEncoder`, `AntigravityAdapter` | what a client may rely on; xAI's encoder; Antigravity's encoder and its requests | `session` |
| `XaiReplay` | tool names and their way back; turns, history and the replay store | `session` |
| `Catalog` (over `Routing`), `Search` | the catalog with both caches; a search batch | `session` |
| `ProxyGroup` | one group's object with transports | `administration` |
| `Access` | sign-in and admission; the lookup of client keys; the console's requests about accounts | `administration` |
| `AdministrationProofs` | theorems about `ProxyGroup` and `Access` | |
| `CodexQuota` | quota views | `administration` |

The `MC` modules put several components side by side. A variable `part` (`focus` in `MCGateway`)
is chosen in the initial state; the actions of that part run and the variables of the others
stay as they began. So a composite explores the sum of its parts' state spaces and not their
product, and an invariant of a part is an implication whose hypothesis names the part. Nothing
is lost by this: the parts share no state. What does share state is composed in one module
(`Gateway` with `HealthRecord` and `Routing`; `ControlPlane` with the configuration cache;
Antigravity's requests with its encoder; `StandardOutbox` with the object runtime's
calls and alarms).

Operators whose comment starts with "Mutant:" are deliberately wrong variants of the
definition below them, listed in `PROJECT.json`. Replacing the definition by its variant must
break the property it is listed for, which shows that the property depends on that code.
Correspondence of definitions to lines is in `PROJECT.json` under `map`.

### CachedObject

An invocation takes the lease (`Acquire`), pins a revision from a clean cache key
(`ScopeClean`) or recovers: it marks the key (`MarkRecovering`), claims the SQL version
(`ClaimInsert`, `ClaimSelect`, an empty batch) and publishes (`PublishClaim`). It then reads
through its memo, the revision's hash and SQL (`HashHit`, `SqlGet`, `Fill`), writes by
`MarkDirty`, `SendBatch`, `Committed`, `Publish`, and answers (`Resolve`, `Reject`, `Drained`).
`ApplyBatch` is the database: it takes any batch that has been sent, at any time, if its
expected version is still current. `LeaseExpires`, `CacheExpires` and `HashExpires` may happen
at any moment. Readers follow `readCached` (`ReadRevision`, `ReadItem`, `Validate`).
A crash needs no action: an invocation may take no further step; its lease expires and its last
batch may still land. Random UUIDs are pairs of drawer and batch number, hence unique, as the
code assumes. The queue inside a process is subsumed by the lease; the compare-and-write Lua
scripts are atomic. An alarm is cached like an item, except that its memo survives a failed fill.
The xAI replay namespace, which stays in Redis alone, is left out.

### ObjectAlarms, UsageOutbox, StandardOutbox

In `ObjectAlarms` a process serves the invocations of an object in order, processes exclude each
other by a lease and fence each other's commits; ticks look at due alarms in order and end with
the first failure. The object is any that keeps jobs and an alarm for them. In `UsageOutbox`,
`Enqueue`, `Load`, `Scan`, the two lanes (`Send`, `Arrive`, `SendFails`, `Failed`,
`Acknowledge`), `EndPass`, `Finish`, `Schedule` are the awaits of `deliver()`; `Fire`, `Crash`
and `Boot` are the platform. Time is a countdown: each deadline loses one unit per `Tick`, so
the state space stays finite while time goes on forever, which liveness needs.
`StandardOutbox` adds the invocation: construct, look at the alarm, operate, drain, release.

### UsageLedger, Meter, Pricing

An event is ingested atomically (one SQL statement plus its triggers); `Supersedes` is the
WHERE clause of the upsert, `Inserted` and `Updated` the triggers, `Expire` and `Cleanup`
maintenance. Amounts are abstracted to the bucket a request is counted in. `Meter` reads a body
piece by piece; a line and its end are separate pieces, so that a chunk boundary inside a line
is kept. `Pricing` compares the bill of a partial or complete report with what was used, for
the two protocols. It takes for granted that a provider that counts no cache writes has none,
and allows half a unit of rounding per charge.

### Gateway, Routing, HealthRecord, Health

One request from its parsed body to its answer, every error answer included. `Elsewhere` lets
other requests and time change the health records and account views it reads between any two of
its steps. Time counts down: `left` of an attempt's budget, `total` of the request's.
One section is the decision whether a response prefix may be discarded. `Routing` is resolution over
three layers of aliases and the availability of accounts with its read failures. Health records
change under the object's serialisation, so an operation is one action; the failure window is
fixed: it starts with a first failure and is replaced when over. `Health` runs the records on
their own, with every order of reports.

### WebSocketProxy

Two queues with byte and message budgets, one drain task each; a task runs without interruption
between two waits. `Scenarios` bound a connection: its frames, sizes, kinds, events, crashes and
accounts. The closing party is whoever moves the stored session to Closed. Hibernation and crash
lose what is in memory; the stored session, the usage checkpoints and the alarm stay. A full
replay may be asked for by the first frame, too: then later frames may be waiting, but nothing
was sent upstream yet (`fresh`).

### ConfigRegister, ConfigEntities, ControlPlane

A configuration is a function from tables to rows; each service is an operator on a unit of work
that may refuse. `ControlPlane` runs requests as calls: look up the operation id, read the
version, the rows, the version again, compile, commit under the fence, look up again. `Restore`
takes an old snapshot with the secrets of today. Ids are made from the version and are unique
because every version is committed once. Two more operators read the gateway's cached document.

### QuotaReset

`QuotaReset` puts requests at the lease; each await of `resets.ts` is a step. The provider honours
an operation id once and repeats its answer. It may also refuse: for good when the account has no
credit, and for the moment (`nothing_to_reset`), so that the same id may be honoured later. The
code completes a refused operation (`resets.ts:191`), and the history `forgotten` holds its id:
`CreditsAreSpentOnce` excepts those ids, because a slow holder that stored one before its lease
was taken over may still have it honoured beside a successor's new one; no lease owner
ever does. Manual resets appear as a cleared cooldown.

### OAuthAccount, AntigravityProject, CodexQuota

A commit is atomic because the account's mutation queue serialises it; awaits for the network
and for SQL lie between commits. `gen` fences operations on active credentials, `auth` those on
the pending authorization. The issuer is external: refresh tokens are single-use and rotate,
answers may be lost (history `lost`), and a refresh may be answered for another workspace or
subject (`stranger`): the tokens are thrown away and the object demands reauthorization itself
(`native-account.ts:188`, `siwc.ts:253`). A grant comes with a refresh token of its own, with
none, or repeats one that an operation or the account holds (`Grants`). `authorizationTokens` takes
a repeated token for inherited only if it is the account's when it looks; otherwise the session
takes it for its own, and `shared` holds it. The SIWC refresh always rotates; the native exchange
always returns a refresh token, and the grant `"none"` stands for providers that may omit it.
An account's mode is fixed when it is created. A caller knows its session only once `start()` has
answered. Eviction redelivers a running alarm. In `AntigravityProject` the session is one step
per operation and the background initialization is spelled out; alarms that Cloudflare drops
after its own retries are not modelled. In `CodexQuota` a value is the time it is known to be as
recent as; labels and reset credits, which no merge looks at, are left out.

### SessionAffinity, ProxyGroup

`Resolve` is one action because `blockConcurrencyWhile` lets nothing in between; index tasks
(`Unregister`, `Register`, `Confirm`, `Overtake`, `Withdraw`, `Abandon`) run beside later calls,
as on Cloudflare (the standard runtime drains them first, which is a special case). A binding
is its id, generation, account and times. Rotation among equals is shared with other sessions
and therefore a free choice. An empty candidate list never reaches `resolve()`.
`MaxGeneration` stands for `Number.MAX_SAFE_INTEGER`. Every call to a proxy group brings a
configuration revision, the whole one or one without owners (the OAuth operations),
synchronises, then acts: `Select`, `GetStatus`, `Clear`, `Observe`. A request selects, dials,
retries after a response, or changes accounts (a new transport with the same switch allowance).
Reports are in `mail` until delivered; one that is lost and not waited for just stays there.

### Transfer

The journal, every phase, the three ways tables travel, abort and resume, with crashes before and
after every call. The verification is spelled out: the inventory, every page of every table of the
source, every account and the saved journal are steps of their own, and `Touch` writes to the
source between any two of them. `touched` tells whether the process would still read what was
written: only a write that came "late", after the verification began to read (or after the export
it reads was made), may be missing on the target, which is why `docs/data-transfer.md` wants the
source stopped. The target's digest of a table is taken together with the last page of the
source's, since only this process writes to the target's tables. Lost answers are modelled; a
command of a timed-out call that arrives after the next one is not. The preflight of schemas and
keys and the check of references inside old documents are left out. A digest stands for what it is
computed from.

### Access

Three parts that share no state. Sign-in: one visit of a browser to the server at a time; several
settings under which the server is restarted, each with one of two secrets. `Pkce` is FALSE in the
run, so that the nonce and state have to carry the weight. Client keys: entries may be replaced
while digests are computed. Routes about accounts: the committed configurations are a sequence,
and a request may have read any two consecutive moments of it.

### Catalog, Search

`Catalog` keeps a model's identity and its context limit; a process, its cache, the shared cache
and the health reports are state. `Search` has two workers over the queries and one budget.

### XaiEncoder, AntigravityAdapter, XaiReplay

Encoders handle one upstream event per step and throw where the code throws. xAI announces an
item before it writes to it. `AntigravityAdapter` lets the client edit what it sends back, and
encodes it: the names of tools differ in every namespace, and a custom tool is called with its
input alone. A call without an
identifier that is sealed twice loses what the second seal looks for: the claim excepts it. In
`XaiReplay` a chunk holds one item and a version is the turn that drew it.

## 3. Runs

| Run | Instance | Shows |
|---|---|---|
| `objects` | 2 invocations of 2 batches contending for one key with an alarm; or 1 invocation of 3 batches and 1 reader on 2 keys with both kinds of list pages and `clear()` | the cache never lies, late batches are fenced, the contract is implemented, the inductive invariant holds |
| `delivery` | a progress, a terminal, an unparsable and a legacy record, one pass of two per flush, one storage fault; 2 objects with a job each, 2 processes, one fault | nothing stored is lost or without a wake-up, and all of it is done |
| `usage` | 2 requests, 2 buckets, 3 events each in any order and number; a transfer of 5 tables and 3 accounts with 2 crashes and a write to the source; a project with 3 tokens and a crash | exact rollup and final results; one deployment acts; no working token given up; all three end |
| `gateway` | 11 requests over every provider type and 9 responses; threshold 3, window 3, cooldown 4; streams of up to 3 events cut anywhere; 4 families of bills | switches, budgets and replays are sound; cooldowns are earned and hold; one true record; exact bills; timed requests are answered |
| `session` | 2 models, 2 tasks, 1 manager and the alarm, 2 bindings; pairs of items of every kind; two overlapping turns of 8 kinds; the catalog in two processes; search batches | the index follows the bindings, streams are well formed, histories and catalogs are what they should be |
| `quota` | 3 requests, 2 accounts, 1 credit each, refusals that are not final | one purchase, never forgotten while it was not refused |
| `administration` | 4 revisions of a group under four limits; 2 browsers, 3 settings; 3 lists of keys; configurations that change under the console's requests; quota reads and events | fencing, stickiness, exact cooldowns, admission, a start is for the provider that was seen, nothing stale |
| `oauth_account` | 2 callers and the alarm, all flows, all kinds of grants, 2 authorizations, 4 tokens | tokens survive, demands are due, sessions end once, alarms exist |
| `control` | every pair of 30 requests; a race of a rotation with a restore; repeated calls; 2 gateway reads; connections of up to 3 frames in 5 scenarios | the control plane implements the register, commits keep the rules, cached reads are fresh; one voice, bounded buffers, exact usage, every wait ends |
| `standard_outbox` (violation) | 2 records | finding 1 |
| `oauth_account_start` (violation) | SIWC, 2 callers | finding 2 |
| `session_affinity_late` (violation) | 2 tasks, 3 bindings | finding 3 |

### Why the bounds are enough to be interesting

- `objects`: two invocations are what a race needs; a third would only add another late batch,
  and the proofs cover any number. Two batches allow a claim and a write, or a write that lands
  after recovery.
- `delivery`: one pass per flush forces the cursor to stop in the middle of four records, so
  wrap-around, unparsable records and both lanes meet. `MaxFaults` bounds failures of the journal only;
  destinations fail without bound. One fault of the runtime (`MaxFailures`) is a crash, a lost lease or a failing
  handler at any point; recovery from it needs the other process.
- `usage`: every order and repetition of six events around expiry and deletion. Tables of one and
  two pages; a crash during the recovery from a crash. Three tokens allow a borrowed token to be
  rotated twice.
- `gateway`: each request is a configuration in which some budget, alias, mode or readiness makes
  a difference; each response leads to another decision about its prefix. All values of window and
  cooldown relative to now. Cutting after every piece covers every boundary a reader can observe.
- `session`: two bindings allow an old and a new one, with a task each; two items are what an
  encoder can confuse.
- `quota`: three requests, so that a holder, its successor and a bystander coexist.
- `administration`: Threshold is 2 (3 in the code) to need fewer dials. A limit is chosen in
  `Init`: configurations and owners need little health history, and health history needs one node.
- `oauth_account`: two authorizations allow one that replaces a connected account's tokens, or
  overtakes a pending one; four tokens allow three rotations, or a repeated token that is rotated
  under its session. The theorems cover any number of both.
- `control`: a small configuration in which every kind of reference occurs; pairs of requests,
  because a second one meets what the first one made.

`CHECK_DEADLOCK FALSE` is given where all bounded work may come to an end.

### Fairness

`UsageOutbox`: weak fairness of the object's own steps, of the platform's due alarms (Durable
Object alarms run at least once) and of time; strong fairness of acceptance per record: a record
that its destination is offered again and again is accepted in the end. Calls, evictions and
failures are not fair. `StandardOutbox` the same, with a poller that keeps calling
`runDueAlarms`. `ObjectAlarms`: every process ticks, every thread goes on unless it crashes, a
thread that waits for a lease that is free again and again gets it (the code retries in a loop),
and time passes. `UsageLedger`: maintenance runs again and again, and a queue does not hold an
event forever. `Transfer`: the operator starts the command again until it ends, and an abort once
begun is resumed. `AntigravityProject`: the alarm, the run and the answers under way go on.
`Gateway`: the request's own steps and its clock. `WebSocketProxy`: the drain tasks and the
deadline. In `WorkIsDone` and `TasksEnd` records are accepted once and jobs added once, so
that "again and again nothing is left" says as much as "whatever comes is done". All other
properties are safety.

## 4. Proofs

Everything below holds for every value of the constants that meets the named `ASSUME` of the
component. Each proof module has the same form: an inductive invariant whose parts are named, a
lemma per action (or per kind of action), one that combines them into "every step preserves it",
and the theorems. Each invariant was first checked by TLC on the component's run.

| Module | Theorems (property of a run) | For any |
|---|---|---|
| `CachedObjectProofs` | `ProtocolInvariant` (`ProtocolInv`), `TypeCorrect` (`TypeOK`), `CleanCache` (`CleanCacheIsCurrent`), `Fenced` (`DelayedWritesAreFenced`), `Refinement` (`ImplementsContract`) | invocations, readers, keys, values, batches |
| `DeliveryProofs` | `OutboxInvariant`, `Kept` (`RecordsAreKept`) | journal, batch and page sizes, faults, delays |
| | `JobsStayArmed` (`JobsAreArmed`) | objects, jobs, processes, faults |
| `UsageLedgerProofs` | `LedgerInvariant`, `Ledger` (`LedgerIsExact`), `Final` (`GenuineIsFinal`) | finite set of requests, any hours |
| `QuotaResetProofs` | `ResetInvariant`, `SpentOnce` (`CreditsAreSpentOnce`) | requests, accounts, credits, cooldowns |
| `OAuthAccountProofs` | `AccountInvariant`, `TokensKept` (`TokensAreSound`), `SessionsKept` (`SessionsAreSound`), `OnlyDueDemands` (`DemandsAreDue`), `FinishedStays` (`FinishedIsFinal`) | callers, authorizations, tokens, both account modes, every kind of grant |
| `SessionAffinityProofs` | `AffinityInvariant` (`BindingsAreSound`), `ClearsAreInformed` (`ClearsOnlyWhatItSaw`) | models, candidate lists, tasks, managers, times; while generations last |
| `AdministrationProofs` | `GroupInvariant`, `GroupSoundness` (`GroupIsSound`), `GroupJustice` (`GroupStepsAreJust`) | nodes, owners, revisions, requests, threshold, window, cooldown |
| | `SignInInvariant`, `SignedIn` (`AdmittedHaveSignedIn`) | browsers, visits, settings, users, with or without PKCE |
| | `StartedAsSeen` (`StartsAsSeen`) | configurations, accounts, calls |
| | `ClientsAreCurrent` | lists of keys, callers |
| `ControlPlaneProofs` | `ControlInvariant`, `Truth` (`AnswersAreTrue`), `Refinement` (`ImplementsRegister`) | administrators, workers, operation ids, requests, services |

**CachedObject.** "A clean key's revision equals the SQL version" is not invariant: a slow
recoverer may still land an empty claim that only moves the version. The history variable
`current` therefore holds all revisions whose state is the present items; a batch that changes
nothing adds to it, one that changes something replaces it. `ProtocolInv` has five parts:

- `TypeOK`;
- `BornInv`: a revision is mentioned only after it was created, so a new one is new;
- `StageInv`: what each stage of an invocation knows of its batch;
- `CopyInv`: every memo, hash, fetched value or reader's value of a current revision agrees with
  the items;
- `FenceInv`: under a clean key, under an accepted batch about to be published, or under a lease
  holder between writes, there is no *threat*: no batch, sent or about to be, that the database
  would accept and that changes something.

There is one lemma per part (`TypeStep`, `BornStep`, `StageStep`, `CopyStep`, `FenceStep`), with a
case per action; `ThreatStep`, `CurrentStep`, `CleanStep`, `PublishableStep` and `SettledStep`
split the fence. The refinement maps memo to `view`, poisoned writes to `failed`, replies to
`answered` and reads to `served`. Assumptions: changes are well formed, `Unfilled` is no value,
and the like; revisions are unique.

**UsageOutbox.** `RecordsAreKept` (types, nothing accepted is lost, a journal that is not empty
has a wake-up) becomes inductive with two facts: a lane that acknowledges has had all it sent
taken by the destination (`AcknowledgesDelivered`), without which an acknowledgement could remove
a record nobody has; and a pass that delivers is within the limit (`PassesAreBounded`). The wake-up
survives `schedule()` because the earliest of the deadlines exists and is a time (lemmas `Least`,
`WakeUp`). The order in which a lane works through its batches does not matter, and the model
leaves it open.

**ObjectAlarms.** The step to fear is the handler that found no job left and then deletes the
alarm, while another process, having taken the lease over, adds one. `AlarmsInv` therefore says
of every thread: if it has handled its alarm and still has the fence, its object has no job
(`RestsAssured`). Opening an object takes the fence from whoever had it, and a write without the
fence changes nothing. `AlarmsAssumption`: a job belongs to one object; `None` is no time.

**UsageLedger.** The rollup is exact if moving one request from the bucket it is counted in
(`Home`) to another, with the triggers' two updates, keeps it exact (`Recount`, by cardinality).
`GenuineIsFinal` needs that a terminal event that will not arrive again has left its row
(`TerminalIsKept`), that a row tells what the meter's last event said (`RowsAreReports`), that a
deleted one never comes back (`PurgedIsOver`), and that a meter emits one event per sequence.

**QuotaReset.** Two requests buy two credits only if both hold an operation that is still good and
different; so the invariant says that only the operation stored in the lease can still be bought
(`BuyableIsPending`), that a request's operation is the lease's while it owns it
(`HeldIsStored`), that ids are drawn once (`DrawnOnce`), and that what a request was told was
paid for was (`OutcomeIsKept`). Refusals are not final, so nothing is concluded from one: an id
that was refused and completed goes to `forgotten`, and `ForgottenIsGone` says that no lease
and no owner of one comes back to it.

**OAuthAccount.** `IInv` has a part per idea. `TurnsOK` is the core: whoever presents a refresh
token is the first in its generation's line, holds the account's token while its generation is the
account's, and one that is nobody else's when it is not. That needs to know where every number the
issuer drew can be (`NumbersOK`), how old what was read may be (`AgesOK`), that answers on their way
work and denied tokens do not (`IssuerOK`), that replacements lead to the newest token
(`LatestToken`, `ReplacementOK`), and that what is revoked no ready account holds
(`RevocationsOK`). The sessions need that a fence which stands belongs to an unfinished session
(`FencesOK`), that nobody works for one being started (`StartsOK`), and that an open session's
alarm is ahead, due or running (`AlarmOK`). Two frame lemmas carry the parts an action leaves
alone. No
theorem restricts what grants come with. `NumbersOK` says of a repeated refresh token that it is a
number drawn before (`Whole`, `Repeatable`), that what is on its way to the account is new to
everybody else (`OnItsWay`), and what is in `shared` is excepted where two generations
would otherwise be told apart. For `DemandsAreDue`, `OwnTokens` shows that an access token is read
by nobody before the account has it, and `NoStrangersTokens` that one of a stranger's answer never
gets there.

**SessionAffinity.** Three facts carry the bindings. An id is drawn once and a generation only
grows, so an entry that was once read shows at most the present generation of its binding
(`Known`); hence an entry that is not a live binding's never becomes one again (`Gone`), which makes
late removals harmless: of expired, replaced, cleared and overtaken bindings alike. And a row that
showed a live binding goes on doing so, unless a registration of a higher generation overruns it,
which `overrun` records (`Listed`, `Stays`). `AffinityInv` says of each task, request and model what
it knows in these terms; `Evolves` is what a step may do to a binding, `Advances` to all of them, and
`TaskStays`, `RequestStays`, `ModelStays` carry everything a step leaves alone. `AlarmKnows` and
the lemmas on `Schedule` and `Reschedule` cover the wake-up, although a write looks only at the
binding it touches. `StoredIsWanted` shows for every list of candidates that an account, once
bound, gives way only to a higher rank; it quantifies over lists, so no step is involved.
`AffinityAssumption` says that candidates have priorities and that ids are unique within a list
(`Rankable`; the configuration schema ensures it), `NoneAssumption` that `None` is no binding. The theorems are about
behaviours in which no generation reaches `MaxGeneration` (`GenerationsLast`): there a task gives
up by withdrawing its own entry, although it may be that of the live binding, and another task
that registered the same entry then confirms a row that is gone (`ensureIndexed`,
`gateway/sessions/session-affinity.ts:411`). TLC finds that with `MaxGeneration = 2`; it takes
2^53 - 1 generations of one session.

**ProxyGroup.** The question behind both properties is whether the few numbers an object keeps of a
node (the last success, the failures after it, a generation) say the same as everything it was
told, in whatever order that came. `Tells` states it: every success told is at or before the one
kept and that one, while it is recent, was told; every failure that counts is kept, and every one
kept is later than the success and, while it is recent, was told. `HealthIsTold` says it of each node that does
not cool. It survives a report (`TellsSuccess`, `TellsFailure`), the passing of time
(`TellsLater`) and forgetting (`TellsRecent`); `CountedAreKept` and `KeptAreCounted` compare the
number kept with the number that counts, by an injection and by a surjection. Generations are what separates
a node's lives: a new one is none that a lease or a report has (`NewGeneration`), and one that is
switched off has none in use. `RequestIsBounded` says why a request switches once: what may still
switch has tried a single node. `FollowingMoves` and `ConfigurationStep` cover everything that
takes over a revision (`select`, `getStatus`, `clear`). Assumptions: finitely many request slots,
configurations that are well formed, `None` no value of another kind.

**Access.** Sign-in: what a cookie vouches for is on record. `Ledger` says that a code belongs to
one attempt; `Jars` that a login cookie is for an attempt of its own browser, and a session cookie
for a code that was used in that browser, at that provider and for that client (`Behind`); `VisitsOK`
that a visit knows only such attempts. A code is used once, so what it was used for stays. Routes:
`RoutesInv` says that a request past the provider's check has found it in the version its
administrator saw, versions stay as they were committed, and an account's row names one
provider for good. Keys: `KeysInv` says that a waiting request uses a computation from the keys
configured when it asked, which are those of now unless they were replaced after it came. That the first
entry that matches is one that matches takes a least number (`LeastNumber`). `AccessAssumption`:
session lifetimes have a greatest value, lists are finite, `Nothing` is no value of another kind.

**ControlPlane.** The services stay unexpanded, so the theorems hold whatever a request does to
the rows. Optimistic concurrency is the point of the invariant: what a call has recovered, read
and worked out is what it would be now, as long as the version it was made on is the current one
(`Unused`, `Recovers`, `Reads`, `Proposes`; parts of `CallInv`). Then a commit under the fence is one
step of `ConfigRegister`, and every other step is a stutter. `RegisterInv` ties versions,
snapshots and operations together, `ConsoleInv` says that nobody speaks of versions to come, and
`LoadInv` that the gateway's cached reads are of committed documents. `ConfigRegister` takes
what a request does as an operator parameter, so that the abstract register knows nothing of tables.

**Only model-checked.** Liveness (`WorkIsDone`, `TasksEnd`, `EveryTimedRequestAnswers`,
`AwaitingEnds`) is beyond the prover, and so is what recursive definitions and folds compute for
inputs of any length: `BillsAreExact`, the streams and histories of `session`, `CommitsAreJust`
(what the services do to the tables). Within its reach and not proved are the safety invariants of
`WebSocketProxy` (`TurnsAreSound`, `UsageIsKept`), `Transfer` (`TransferIsSafe`),
`AntigravityProject` (`CredentialsSurvive`), `Meter` (`RecordsAreTrue`) and `Gateway`
(`RequestsAreSound`).

## 5. Findings

1. `standard_outbox`: on the standard runtime every call constructs the outbox anew, and its
   constructor moves a due alarm ten seconds ahead before the runtime looks at it, so a due alarm
   never runs its handler by itself (`telemetry/outbox.ts:68`, `platform/standard/objects.ts`).
2. `oauth_account_start`: `start()` reads `authorization_generation` after its SQL insert; one
   overtaken by a second start fails the newer session (`providers/oauth/account.ts:511`).
3. `session_affinity_late`: generations restart at one after a clear; a deleted binding's late
   task can overrun and then withdraw the row of the new binding, which stays marked as listed
   (`gateway/sessions/session-affinity.ts:352`).

Observations without a run:

- `telemetry/outbox.ts:246`: when a flush starts from a stored cursor, records before it are not
  looked at, and the wake-up becomes the other destination's back-off: such a record is late,
  although never lost (`WorkIsDone`).
- `providers/codex/resets.ts:198`: if an account's quota cooldown is extended between discovery
  and redemption, the redeemed reset clears nothing, while `docs/agents/gateway.md:69` says a reset
  clears it.
- `providers/codex/native-account.ts:156`: a grant that repeats a refresh token whose rotation has
  not been committed yet lets two generations hold one token; the next rotation costs the other
  its own. `TokensAreSound` excepts such tokens (`shared`).
- `providers/codex/native-account.ts:188`: a refresh that was answered for another workspace may
  have rotated the token, or not: the account is asked to reauthorize either way.
- `providers/codex/resets.ts:191`: a redemption answered `nothing_to_reset` is completed and
  forgotten. A slow holder that stored it before its lease expired may redeem it
  when there is something to reset again, while a successor redeems under a new id, which spends
  two credits. `docs/agents/providers.md:98` says that "Lease takeover replays the same operation,
  fences late owners"; after such a completion there is nothing to replay, and the fence is checked
  before and after the purchase, not with it. `CreditsAreSpentOnce` excepts such operations
  (`forgotten`).

`MarkedIsListed` (in `BindingsAreSound`) and `FinishedIsFinal` name the exceptions of findings 3
and 2 (`overrun`, `blamed`), so that they still speak about everything else.

## 6. Not modelled

`PROJECT.json` gives the reason for each part. In short: format conversion between dialects that
keeps no state, parsing, presentation, drivers and byte streams. Within modelled parts: the
inventories of an OAuth account (models, quotas and subscriptions of Claude, xAI and
Antigravity), report queries, the SOCKS handshake (one step with three outcomes) and
`SessionAffinity.clear()`, which has no caller. A client key's header filters and the texts of
errors are pure and left out.

## 7. Plan

1. Proofs of the invariants that section 4 names as within reach, beginning with `Transfer` and
   `AntigravityProject`, whose state is small.
2. Models of what section 6 leaves out where state is kept: the inventories of an OAuth account
   and the replies of the Antigravity replay store.
