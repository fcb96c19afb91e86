----------------------------- MODULE ControlPlane -----------------------------
(***************************************************************************)
(* The control plane (src/src/control/store.ts, transaction.ts) and the    *)
(* gateway's configuration cache (src/src/config/store.ts).                *)
(*                                                                         *)
(* An administrator's call runs in a process of its own: it looks its      *)
(* operation id up, reads the version, the rows and the version again,     *)
(* works the change out in memory, commits it in one fenced SQL batch and  *)
(* looks its operation id up once more.  Other calls take steps between    *)
(* any two of these; a call may die at any of them, and an administrator   *)
(* who has had no answer may send it again while the first still runs.     *)
(***************************************************************************)
EXTENDS ConfigEntities

CONSTANTS
    Actors,        \* administrators
    Operations,    \* operation ids
    Workers,       \* processes that carry calls
    Loads,         \* inference requests that read the configuration
    Suites,        \* suite -> [requests, operations, actors, workers, calls,
                   \* loads]: what its behaviours send, who sends it, how often
    FirstRows,     \* the rows of version 1 ...
    FirstSecrets,  \* ... and their secrets
    MaxReads       \* attempts of ControlStore.entities

ASSUME ControlAssumption ==
    /\ Workers \subseteq Nat
    /\ \A t \in DOMAIN Suites :
          /\ Suites[t].actors \subseteq Actors /\ Suites[t].workers \subseteq Workers
          /\ Suites[t].operations \subseteq Operations /\ Suites[t].loads \subseteq Loads

VARIABLES
    version,       \* config_meta.version
    rows,          \* the entity tables
    stored,        \* secret_versions: id -> text
    snapshots,     \* config_snapshots: version -> document
    operations,    \* config_operations: id -> the request it committed
    suite,         \* which requests this behaviour sends
    maintenance,   \* config_meta.maintenance, set by an operator
    calls,         \* worker -> the call it carries
    sent,          \* administrator -> the call it awaits an answer to, or None
    view,          \* administrator -> the version its console shows
    made,          \* calls made so far
    cache,         \* the gateway's cached configuration: its version, or None
    loads          \* inference request -> its progress

register == <<version, rows, stored, snapshots, operations>>
call == <<calls, sent, view, made>>
gateway == <<cache, loads>>
vars == <<register, suite, maintenance, call, gateway>>

Idle == [pc |-> "idle"]
\* What was read and worked out is None before the step and after its use.
Fresh(sentCall) ==
    [pc |-> IF sentCall.q.kind = "restore" THEN "recover" ELSE "replay",
     sent |-> sentCall, reads |-> 0, seen |-> None, base |-> None,
     config |-> None, work |-> None]
Answer(c, outcome, v) ==
    [pc |-> "answered", sent |-> c.sent, outcome |-> outcome, version |-> v]

Init ==
    /\ suite \in DOMAIN Suites
    /\ version = 1 /\ maintenance = FALSE
    /\ rows = FirstRows /\ stored = FirstSecrets
    /\ snapshots = [v \in {1} |-> CompileSnapshot(FirstRows)]
    /\ operations = [o \in {} |-> None]
    /\ calls = [w \in Workers |-> Idle] /\ sent = [a \in Actors |-> None]
    /\ view = [a \in Actors |-> 1] /\ made = 0
    /\ cache = None /\ loads = [l \in Loads |-> [pc |-> "ready"]]

Step(w, c) == calls' = [calls EXCEPT ![w] = c]
Local == UNCHANGED <<register, suite, maintenance, sent, view, made, gateway>>

-----------------------------------------------------------------------------
(* The administrator. *)

\* Workers are alike: the first idle one takes the call.
Takes(w) == calls[w].pc = "idle" /\ \A x \in Workers : x < w => calls[x].pc # "idle"

\* A change made on the version the console shows.
Begin(a, w) ==
    /\ sent[a] = None /\ Takes(w) /\ made < Suites[suite].calls
    /\ \E q \in Suites[suite].requests, op \in Suites[suite].operations :
         LET s == [actor |-> a, op |-> op, q |-> q, expected |-> view[a]]
         IN  Step(w, Fresh(s)) /\ sent' = [sent EXCEPT ![a] = s]
    /\ made' = made + 1
    /\ UNCHANGED <<register, suite, maintenance, view, gateway>>

\* The same call once more: its answer is late or lost.
Repeat(a, w) ==
    /\ sent[a] # None /\ Takes(w) /\ made < Suites[suite].calls
    /\ Step(w, Fresh(sent[a]))
    /\ made' = made + 1
    /\ UNCHANGED <<register, suite, maintenance, sent, view, gateway>>

\* An answer reaches its administrator, unless nobody waits for it any more.
Receive(w) ==
    LET c == calls[w]
        a == c.sent.actor
    IN  /\ c.pc = "answered"
        /\ Step(w, Idle)
        /\ IF sent[a] = c.sent
           THEN /\ sent' = [sent EXCEPT ![a] = None]
                /\ view' = [view EXCEPT ![a] = IF c.outcome = "saved" THEN c.version ELSE @]
           ELSE UNCHANGED <<sent, view>>
        /\ UNCHANGED <<register, suite, maintenance, made, gateway>>

\* The console is loaded again; a call in flight is given up.
Reload(a) ==
    /\ view[a] # version /\ ~maintenance
    /\ view' = [view EXCEPT ![a] = version]
    /\ sent' = [sent EXCEPT ![a] = None]
    /\ UNCHANGED <<register, suite, maintenance, calls, made, gateway>>

\* A worker dies with its call; what it committed stays.
Crash(w) ==
    /\ calls[w].pc # "idle"
    /\ Step(w, Idle)
    /\ Local

-----------------------------------------------------------------------------
(* A call of ControlStore. *)

\* Mutant: any request that used the operation id is taken for this one.
ReplayAnyRequest(c, unused) ==
    IF c.sent.op \notin DOMAIN operations THEN unused
    ELSE Answer(c, "saved", operations[c.sent.op].version)

\* replay: what an operation id stands for, if it was used.
Replay(c, unused) ==
    LET s == c.sent
    IN  IF s.op \notin DOMAIN operations THEN unused
        ELSE LET prior == operations[s.op]
             IN  IF /\ prior.actor = s.actor /\ prior.request = s.q
                    /\ prior.expected = s.expected
                 THEN Answer(c, "saved", prior.version) ELSE Answer(c, "conflict", 0)

\* restore: the old document with the secrets of the current one
Recover(w) ==
    LET c == calls[w]
        source == c.sent.q.source
        config == IF source \in DOMAIN snapshots
                  THEN PreserveCurrentSecrets(snapshots[source], snapshots[version])
                  ELSE None
    IN  /\ c.pc = "recover"
        /\ Step(w, Replay(c,
               IF maintenance THEN Answer(c, "conflict", 0)
               ELSE IF config = None THEN Answer(c, "invalid", 0)
               ELSE [c EXCEPT !.pc = "replay", !.config = config]))
        /\ Local

ReplayFirst(w) ==
    /\ calls[w].pc = "replay"
    /\ Step(w, Replay(calls[w], [calls[w] EXCEPT !.pc = "before"]))
    /\ Local

\* entities: the version, the rows, the version again.
ReadBefore(w) ==
    /\ calls[w].pc = "before"
    /\ Step(w, [calls[w] EXCEPT !.pc = "rows", !.seen = version, !.reads = @ + 1])
    /\ Local

ReadRows(w) ==
    /\ calls[w].pc = "rows"
    /\ Step(w, [calls[w] EXCEPT !.pc = "after", !.base = rows])
    /\ Local

\* write, from the second read of the version to the commit
Ready(c, work) ==
    IF work.ok
    THEN [c EXCEPT !.pc = "commit", !.config = None, !.base = None,
                   !.work = [rows |-> CommittedRows(c.base, work.rows),
                             pending |-> work.pending, config |-> CompileSnapshot(work.rows)]]
    ELSE Answer(c, "invalid", 0)

Prepared(c) == Ready(c, Worked(c.base, stored, c.sent.expected + 1, c.sent.q, c.config))

Stale(c) == version # c.sent.expected

ReadAfter(w) ==
    LET c == calls[w]
    IN  /\ c.pc = "after"
        /\ Step(w, IF c.seen # version
                   THEN IF c.reads < MaxReads THEN [c EXCEPT !.pc = "before", !.base = None]
                        ELSE Answer(c, "conflict", 0)
                   ELSE IF Stale(c) \/ maintenance THEN Answer(c, "conflict", 0)
                   ELSE Prepared(c))
        /\ Local

\* upsert(..., immutable): a row that exists stays as it is.
Insert(table, new) ==
    [i \in DOMAIN table \cup DOMAIN new |-> IF i \in DOMAIN table THEN table[i] ELSE new[i]]
Logged(s) ==
    [o \in {s.op} |-> [version |-> s.expected + 1, actor |-> s.actor,
                       request |-> s.q, expected |-> s.expected]]

\* Mutant: the batch is not fenced by the version it was worked out from.
FenceMaintenanceOnly(c) == ~maintenance

\* commitConfiguration: one batch, every statement of it fenced by the version.
Fence(c) == version = c.sent.expected /\ ~maintenance

Commit(w) ==
    LET c == calls[w]
        s == c.sent
    IN  /\ c.pc = "commit"
        /\ Step(w, [c EXCEPT !.pc = "confirm", !.work = None])
        /\ IF Fence(c)
           THEN /\ version' = s.expected + 1
                /\ rows' = c.work.rows
                /\ stored' = Insert(stored, c.work.pending)
                /\ snapshots' = Insert(snapshots, [v \in {s.expected + 1} |-> c.work.config])
                /\ operations' = Insert(operations, Logged(s))
           ELSE UNCHANGED register
        /\ UNCHANGED <<suite, maintenance, sent, view, made, gateway>>

Confirm(w) ==
    LET c == calls[w]
        reply == Replay(c, Answer(c, "conflict", 0))
    IN  /\ c.pc = "confirm"
        /\ Step(w, IF reply.outcome = "saved" /\ reply.version # c.sent.expected + 1
                   THEN Answer(c, "conflict", 0) ELSE reply)
        /\ Local

-----------------------------------------------------------------------------
(* The gateway and the operator. *)

\* loadConfig: the version is read for every request, the document is cached.
LoadVersion(l) ==
    /\ loads[l].pc = "ready"
    /\ loads' = [loads EXCEPT ![l] =
                   IF maintenance THEN [pc |-> "refused"]
                   ELSE [pc |-> "loading", version |-> version]]
    /\ UNCHANGED <<register, suite, maintenance, call, cache>>

\* A cached document is used only for the version it was read for.
Usable(l) == cache # None /\ cache.revision = loads[l].version

LoadConfig(l) ==
    LET v == loads[l].version
        config == IF Usable(l) THEN cache
                  ELSE [revision |-> v, config |-> snapshots[v]]
    IN  /\ loads[l].pc = "loading"
        /\ loads' = [loads EXCEPT ![l] = [pc |-> "serving", started |-> v, config |-> config]]
        /\ cache' = config
        /\ UNCHANGED <<register, suite, maintenance, call>>

\* The request ends and another may begin.
LoadDone(l) ==
    /\ loads[l].pc \in {"serving", "refused"} /\ made < Suites[suite].calls
    /\ loads' = [loads EXCEPT ![l] = [pc |-> "ready"]]
    /\ UNCHANGED <<register, suite, maintenance, call, cache>>

\* Set in the database by an operator (external).
SetMaintenance ==
    /\ Suites[suite].loads # {} /\ made < Suites[suite].calls
    /\ maintenance' = ~maintenance
    /\ UNCHANGED <<register, suite, call, gateway>>

CallStep(w) ==
    \/ Recover(w) \/ ReplayFirst(w) \/ ReadBefore(w) \/ ReadRows(w)
    \/ ReadAfter(w) \/ Commit(w) \/ Confirm(w)

Next ==
    \/ \E a \in Suites[suite].actors, w \in Suites[suite].workers : Begin(a, w) \/ Repeat(a, w)
    \/ \E a \in Suites[suite].actors : Reload(a)
    \/ \E w \in Workers : Receive(w) \/ Crash(w) \/ CallStep(w)
    \/ \E l \in Suites[suite].loads : LoadVersion(l) \/ LoadConfig(l) \/ LoadDone(l)
    \/ SetMaintenance

Spec == Init /\ [][Next]_vars

-----------------------------------------------------------------------------
(* Properties. *)

\* Refinement: the calls, their reads and their races amount to a register
\* each of whose versions is one request applied to the version before it
\* (store.ts write and restore, transaction.ts commitConfiguration).
Register == INSTANCE ConfigRegister WITH Requests <- UNION {Suites[t].requests : t \in DOMAIN Suites}

ImplementsRegister == Register!Spec

\* An answer that says "saved" names the version that this very request made,
\* from the version its administrator had seen, however often it was sent
\* (store.ts replay and write).
SavedIsRecorded ==
    \A w \in Workers : calls[w].pc = "answered" /\ calls[w].outcome = "saved" =>
        LET s == calls[w].sent
        IN  /\ calls[w].version = s.expected + 1
            /\ s.op \in DOMAIN operations
            /\ operations[s.op] = [version |-> s.expected + 1, actor |-> s.actor,
                                   request |-> s.q, expected |-> s.expected]

\* The tables an administrator edits and the document the gateway serves are
\* the same configuration, it keeps the rules of the schema, and no two of
\* its clients share a key even under different secret rows (transaction.ts
\* commitConfiguration, compiler.ts, validation.ts validateClientKeys).
Sound ==
    LET config == snapshots[version]
        text(c) == stored[config.clients[c].secret]
    IN  /\ CompileSnapshot(rows) = config
        /\ ConfigurationSchema(config)
        /\ \A o \in DOMAIN SecretsOf(config) :
             SecretsOf(config)[o] \in {None} \cup DOMAIN stored
        /\ \A c, d \in DOMAIN config.clients : text(c) = text(d) => c = d

CommitIsSound == version' # version => Sound'

\* A restore brings old settings back but never an old secret: every owner
\* has the text it had in the version that was replaced (recovery.ts
\* preserveCurrentSecrets, store.ts restore).
Made(op) == op \in DOMAIN operations' \ DOMAIN operations

RestoreKeepsSecrets ==
    \A op \in Operations : Made(op) /\ operations'[op].request.kind = "restore" =>
        LET after == SecretsOf(snapshots'[version'])
            before == SecretsOf(snapshots[version])
        IN  \A o \in DOMAIN after : after[o] # None =>
                o \in DOMAIN before /\ before[o] # None /\
                stored'[after[o]] = stored[before[o]]

AllRoutes(config) ==
    config.routes \cup UNION {config.clients[c].routes : c \in DOMAIN config.clients}

\* A request that does not edit routes never widens one: what is left of a
\* restricted route is restricted to providers it already had, and removing a
\* provider is never refused for the routes, prices or clients that used it
\* (services/providers.ts detachProviderRoutes: "Removing an empty
\* restriction must retire the route, not make it unrestricted").
RestrictionsSurvive ==
    version' # version =>
        /\ \A op \in Operations :
             Made(op) /\ operations'[op].request.kind
                         \in {"removeProvider", "updateProvider", "saveNative"} =>
             \A r \in AllRoutes(snapshots[version]), t \in AllRoutes(snapshots'[version']) :
                r.id = t.id /\ r.providers # None =>
                    t.providers # None /\ t.providers # {} /\ t.providers \subseteq r.providers
        /\ \A p \in Live(rows'.providers) : rows'.providers[p].type = "ai_gateway" =>
             Worked(rows', stored', version' + 1, [kind |-> "removeProvider", id |-> p], None).ok

\* An inference request is served a document that was the current one when it
\* asked, never the cache of an older version (config/store.ts loadConfig).
LoadIsFresh ==
    \A l \in Loads : loads[l].pc = "serving" =>
        loads[l].config = [revision |-> loads[l].started,
                           config |-> snapshots[loads[l].started]]

\* What an administrator and an inference request are told is so.
AnswersAreTrue == SavedIsRecorded /\ LoadIsFresh
=============================================================================
