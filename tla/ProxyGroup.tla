----------------------------- MODULE ProxyGroup -----------------------------
(***************************************************************************)
(* Proxy groups: which SOCKS node a request leaves through.                *)
(*                                                                         *)
(* One object per group keeps the nodes' health and the sticky bindings    *)
(* (gateway/proxies/proxy-group.ts, platform/standard/proxy-group.ts; the  *)
(* decisions are in coordination.ts, binding-owners.ts and policy.ts).     *)
(* Requests bring the configuration they were started with, pick a node,   *)
(* dial it and report the outcome (transport.ts, group-client.ts); reports *)
(* travel on their own and may come late or never.                         *)
(***************************************************************************)
EXTENDS Integers, FiniteSets, FiniteSetsExt

CONSTANTS
    Nodes, Owners,
    Configs,      \* Configs[r]: what revision r says of this group
    Requests,     \* slots for logical requests; each uses one owner's transport at a time
    Threshold,    \* PROXY_FAILURE_THRESHOLD
    Window,       \* PROXY_FAILURE_WINDOW_MS
    Cooldown,     \* PROXY_COOLDOWN_MS
    Limits,       \* bounds: the revisions and requests in play, outcomes reported, the clock
    None

Revisions == DOMAIN Configs

\* Fingerprints of endpoints are numbered.
NodeConfigs == [fingerprint : Nat, priority : Int, disabled : BOOLEAN]

ASSUME ProxyAssumption ==
    /\ Threshold \in Nat \ {0} /\ Window \in Nat \ {0} /\ Cooldown \in Nat \ {0}
    /\ IsFiniteSet(Requests)
    /\ Limits \subseteq [revs : SUBSET Revisions, reqs : SUBSET Requests, dials : Nat, time : Nat]
    /\ Revisions \subseteq Nat \ {0}
    /\ \A r \in Revisions :
          /\ Configs[r].strategy \in {"sticky", "priority", "random"}
          /\ DOMAIN Configs[r].nodes \subseteq Nodes /\ Configs[r].owners \subseteq Owners
          /\ \A n \in DOMAIN Configs[r].nodes : Configs[r].nodes[n] \in NodeConfigs

\* What is stored and sent. A health record keeps the failures of its generation.
Metadata == [rev : Revisions, signature : Revisions]
OwnerKeys == [rev : Revisions, keys : SUBSET Owners]
Healths == [gen : Nat, failures : SUBSET [id : Nat, at : Nat],
            success : Nat \cup {None}, cooling : Nat \cup {None}]
NodeRecords == [fingerprint : Nat, priority : Int, disabled : BOOLEAN, health : Healths]
Leases == [node : Nodes, gen : Nat]
Outcomes == [node : Nodes, gen : Nat, id : Nat, at : Nat, ok : BOOLEAN]
RequestRecords ==
    [pc : {"idle", "select", "dial", "record", "sent"}, rev : Revisions \cup {None}, full : BOOLEAN,
     owner : Owners \cup {None}, lease : Leases \cup {None}, tried : SUBSET Nodes, switched : BOOLEAN,
     spent : BOOLEAN, event : Nat \cup {None}, hops : Nat]

ASSUME NoneAssumption ==
    /\ None \notin Int \cup Nodes \cup Owners
    /\ None \notin Metadata \cup OwnerKeys \cup NodeRecords \cup Leases

VARIABLES
    meta,   \* proxy_metadata: revision and signature, or None
    owners, \* proxy_binding_owners: revision and keys, or None
    node,   \* proxy_nodes: per id its configuration and health, or None
    bind,   \* proxy_bindings: per owner a node id, or None
    req,    \* the requests; hops is a history: nodes given up for another
    mail,   \* outcomes on their way to the object
    limit,  \* the bounds of this behaviour
    dials, now,
    told    \* history: the outcomes told that can still count

object == <<meta, owners, node, bind>>
vars == <<object, req, mail, limit, dials, now, told>>

\* The signature of a revision: strategy and nodes. The first revision with the
\* same ones stands for them.
Signatures == [r \in Revisions |-> Min({s \in Revisions : /\ Configs[s].strategy = Configs[r].strategy
                                                         /\ Configs[s].nodes = Configs[r].nodes})]
Signature(r) == Signatures[r]

\* Generations are UUIDs: a new one is none that a lease or a report of node n has.
Known(n) ==
    {e.gen : e \in {x \in mail \cup told : x.node = n}} \cup
    {req[q].lease.gen : q \in {x \in Requests : req[x].lease # None /\ req[x].lease.node = n}}
NewGen(n) == Min((1..Cardinality(Known(n)) + 1) \ Known(n))

\* freshProxyHealth()
Fresh(n) == [gen |-> NewGen(n), failures |-> {}, success |-> None, cooling |-> None]

NoRequest == [pc |-> "idle", rev |-> None, full |-> FALSE, owner |-> None, lease |-> None,
              tried |-> {}, switched |-> FALSE, spent |-> FALSE, event |-> None, hops |-> 0]

Init ==
    /\ meta = None /\ owners = None
    /\ node = [n \in Nodes |-> None] /\ bind = [o \in Owners |-> None]
    /\ req = [r \in Requests |-> NoRequest] /\ mail = {}
    /\ limit \in Limits /\ dials = 0 /\ now = 0 /\ told = {}

-----------------------------------------------------------------------------
(* The object takes over the configuration a caller brings: revision r,    *)
(* with its owners if the caller has them (full).                          *)

\* Mutant: only the nodes are compared with what a later revision left.
FencedByNodes(r, full) ==
    meta # None /\ r < meta.rev /\ Signature(r) # meta.signature

\* planProxyGroupSync(), reconcileBindingOwners(): an older revision that says
\* something else is refused.
Stale(r, full) ==
    \/ meta # None /\ r < meta.rev /\ Signature(r) # meta.signature
    \/ full /\ owners # None /\ r < owners.rev /\ Configs[r].owners # owners.keys

SameNodes(r) == meta # None /\ meta.signature = Signature(r)
SameOwners(r) == owners # None /\ owners.keys = Configs[r].owners

SyncedOwners(r, full) ==
    IF ~full \/ (SameOwners(r) /\ r <= owners.rev) THEN owners
    ELSE [rev |-> r, keys |-> Configs[r].owners]

SyncedMeta(r) ==
    [rev |-> IF meta = None THEN r ELSE Max({r, meta.rev}), signature |-> Signature(r)]

\* reconcileProxyNodes(): another endpoint, or another switch, starts afresh.
Renewed(r, n) ==
    /\ ~SameNodes(r) /\ n \in DOMAIN Configs[r].nodes
    /\ \/ node[n] = None
       \/ node[n].fingerprint # Configs[r].nodes[n].fingerprint
       \/ node[n].disabled # Configs[r].nodes[n].disabled

SyncedNode(r, n) ==
    IF SameNodes(r) THEN node[n]
    ELSE IF n \notin DOMAIN Configs[r].nodes THEN None
    ELSE LET c == Configs[r].nodes[n]
         IN  [fingerprint |-> c.fingerprint, priority |-> c.priority, disabled |-> c.disabled,
              health |-> IF Renewed(r, n) THEN Fresh(n) ELSE node[n].health]

\* Mutant: a node that is switched off keeps its bindings.
SyncedBindingKeeps(r, full, o) ==
    IF full /\ ~SameOwners(r) /\ o \notin Configs[r].owners THEN None
    ELSE IF ~SameNodes(r) /\ bind[o] # None /\ bind[o] \notin DOMAIN Configs[r].nodes THEN None
    ELSE bind[o]

\* sync(): bindings of owners that are gone, to nodes that are gone or switched
\* off, and under another strategy, are dropped.
SyncedBinding(r, full, o) ==
    LET pruned == full /\ ~SameOwners(r) /\ o \notin Configs[r].owners
        unusable == bind[o] # None /\ (SyncedNode(r, bind[o]) = None \/ SyncedNode(r, bind[o]).disabled)
        cleared == meta # None /\ Configs[meta.signature].strategy # Configs[r].strategy
    IN  IF pruned \/ (~SameNodes(r) /\ (unusable \/ cleared)) THEN None ELSE bind[o]

\* currentProxyHealth(): an elapsed cooldown is forgotten, and so are old failures.
Elapsed(h) == h.cooling # None /\ now >= h.cooling
Current(n, h) ==
    IF Elapsed(h) THEN Fresh(n)
    ELSE IF h.cooling # None THEN h
    ELSE [h EXCEPT !.failures = {f \in @ : now - f.at < Window}]

\* The nodes as select() and getStatus() see, and store, them.
Seen(r, n) ==
    LET synced == SyncedNode(r, n)
    IN  IF synced = None THEN None
        ELSE [synced EXCEPT !.health = Current(n, @)]

\* What the object has been told that can still count.
Remembered(events) ==
    {e \in told \cup events : /\ node'[e.node] # None /\ e.gen = node'[e.node].health.gen
                             /\ now - e.at < Window}

\* What any call does first.
Sync(r, full) ==
    /\ meta' = SyncedMeta(r) /\ owners' = SyncedOwners(r, full)
    /\ node' = [n \in Nodes |-> Seen(r, n)] /\ told' = Remembered({})

\* getStatus(), for the console.
GetStatus(r) ==
    /\ ~Stale(r, TRUE) /\ Sync(r, TRUE)
    /\ bind' = [o \in Owners |-> SyncedBinding(r, TRUE, o)]
    /\ UNCHANGED <<req, mail, dials, now, limit>>

\* clear(): an administrator ends a cooldown.
Clear(r, n) ==
    /\ ~Stale(r, TRUE) /\ n \in DOMAIN Configs[r].nodes
    /\ meta' = SyncedMeta(r) /\ owners' = SyncedOwners(r, TRUE)
    /\ bind' = [o \in Owners |-> SyncedBinding(r, TRUE, o)]
    /\ node' = [m \in Nodes |-> IF m = n THEN [SyncedNode(r, n) EXCEPT !.health = Fresh(n)]
                                ELSE SyncedNode(r, m)]
    /\ told' = Remembered({})
    /\ UNCHANGED <<req, mail, dials, now, limit>>

-----------------------------------------------------------------------------
(* Selecting a node.                                                       *)

Healthy(r) == {n \in Nodes : LET seen == Seen(r, n)
                             IN  seen # None /\ ~seen.disabled /\ seen.health.cooling = None}

\* chooseProxy(): any node, or under "priority" any of the highest.
Eligible(r, set) ==
    IF Configs[r].strategy # "priority" THEN set
    ELSE {n \in set : \A m \in set : Seen(r, m).priority <= Seen(r, n).priority}

\* The nodes planProxySelection() may answer with, of the healthy ones; none
\* means "unavailable".
Selectable(r, full, o, exclude, healthy) ==
    LET bound == SyncedBinding(r, full, o)
    IN  IF full /\ o \notin SyncedOwners(r, full).keys THEN {}
        ELSE IF Configs[r].strategy = "sticky" /\ bound \in healthy \ exclude THEN {bound}
        ELSE Eligible(r, healthy \ exclude)

\* A sticky owner without a healthy node gets the chosen one, if any.
ReplacesBinding(r, full, o, exclude, healthy) ==
    LET keys == SyncedOwners(r, full)
    IN  /\ Configs[r].strategy = "sticky" /\ SyncedBinding(r, full, o) \notin healthy
        /\ keys = None \/ o \in keys.keys

\* select(): configuration, choice and binding are one transaction.
Select(r, full, o, exclude, chosen) ==
    /\ ~Stale(r, full)
    /\ LET healthy == Healthy(r)
           set == Selectable(r, full, o, exclude, healthy)
       IN  /\ chosen \in (IF set = {} THEN {None} ELSE set)
           /\ bind' = [x \in Owners |-> IF x = o /\ ReplacesBinding(r, full, o, exclude, healthy) THEN chosen
                                        ELSE SyncedBinding(r, full, x)]
    /\ Sync(r, full)

-----------------------------------------------------------------------------
(* Health.                                                                 *)

\* Reports on a generation that is over, or a node already cooling.
Ignored(h, e) == h.gen # e.gen \/ h.cooling # None

Succeeded(h, e) ==
    LET last == IF h.success = None THEN e.at ELSE Max({h.success, e.at})
    IN  [h EXCEPT !.success = last, !.failures = {f \in @ : f.at > last}]

\* A failure counts unless it is old, or a success has come after it.
Failed(n, h, e) ==
    LET failures == h.failures \cup {[id |-> e.id, at |-> e.at]}
    IN  IF now - e.at >= Window \/ (h.success # None /\ e.at <= h.success) THEN h
        ELSE IF Cardinality(failures) >= Threshold
             THEN [h EXCEPT !.failures = failures, !.gen = NewGen(n), !.cooling = now + Cooldown]
             ELSE [h EXCEPT !.failures = failures]

\* observeProxyHealth()
Observed(n, h, e) ==
    LET current == Current(n, h)
    IN  IF Ignored(current, e) THEN current
        ELSE IF e.ok THEN Succeeded(current, e) ELSE Failed(n, current, e)

\* observe(): a node that starts cooling loses its bindings.
Observe(e) ==
    IF node[e.node] = None \/ node[e.node].disabled THEN UNCHANGED object
    ELSE LET n == e.node
             next == Observed(n, node[n].health, e)
         IN  /\ node' = [node EXCEPT ![n].health = next]
             /\ bind' = [o \in Owners |-> IF next.cooling # None /\ bind[o] = n /\ next # node[n].health
                                          THEN None ELSE bind[o]]
             /\ UNCHANGED <<meta, owners>>

-----------------------------------------------------------------------------
(* Requests.                                                               *)

\* The next request may come.
End(q) == req' = [req EXCEPT ![q] = NoRequest]

\* createProxyTransport(): with the whole configuration, or (the operations of
\* an OAuth account) with the groups alone. Requests keep the configuration
\* they read, so any revision may turn up at any time.
Start(q, r, full, o) ==
    /\ req[q].pc = "idle" /\ (full => o \in Configs[r].owners)
    /\ req' = [req EXCEPT ![q] = [NoRequest EXCEPT !.pc = "select", !.rev = r, !.full = full, !.owner = o]]
    /\ UNCHANGED <<object, mail, dials, now, told, limit>>

\* A node is selected, for the first time or after a failure.
SelectNode(q, chosen) ==
    LET t == req[q]
    IN  /\ t.pc = "select" /\ Select(t.rev, t.full, t.owner, t.tried, chosen)
        /\ IF chosen = None THEN End(q)
           ELSE req' = [req EXCEPT ![q].pc = "dial", ![q].lease = [node |-> chosen, gen |-> node'[chosen].health.gen],
                                   ![q].switched = t.tried # {}, ![q].spent = @ \/ t.tried # {},
                                   ![q].hops = IF t.tried # {} THEN @ + 1 ELSE @]
        /\ UNCHANGED <<mail, dials, now, limit>>

\* The object refuses the configuration, or cannot be reached in time. (If the
\* call had its effect all the same, that is SelectNode and Abort.)
SelectFails(q) ==
    /\ req[q].pc = "select" /\ End(q)
    /\ UNCHANGED <<object, mail, dials, now, told, limit>>

Report(q, ok) ==
    [node |-> req[q].lease.node, gen |-> req[q].lease.gen, id |-> dials + 1, at |-> now, ok |-> ok]

\* fetchWithProxyRetries() opens the tunnel: the success is reported, and from
\* here on nothing of the request is repeated on another node.
Connect(q) ==
    /\ req[q].pc = "dial" /\ dials < limit.dials /\ dials' = dials + 1
    /\ mail' = mail \cup {Report(q, TRUE)}
    /\ req' = [req EXCEPT ![q].pc = "sent", ![q].tried = @ \cup {req[q].lease.node}]
    /\ UNCHANGED <<object, now, told, limit>>

\* One switch per group and logical request, while there is time.
MaySwitch(t) == ~t.switched /\ ~t.spent

\* The node cannot be reached, retries included: a failure is reported, and
\* its recording is awaited if another node may be tried.
ProxyFails(q, late) ==
    /\ req[q].pc = "dial" /\ dials < limit.dials /\ dials' = dials + 1
    /\ mail' = mail \cup {Report(q, FALSE)}
    /\ IF MaySwitch(req[q]) /\ ~late
       THEN req' = [req EXCEPT ![q].pc = "record", ![q].event = dials + 1, ![q].tried = @ \cup {req[q].lease.node}]
       ELSE End(q)
    /\ UNCHANGED <<object, now, told, limit>>

\* The target refuses: no failure of the node, but another may be tried.
TargetRejects(q, late) ==
    /\ req[q].pc = "dial"
    /\ IF MaySwitch(req[q]) /\ ~late
       THEN req' = [req EXCEPT ![q].pc = "select", ![q].tried = @ \cup {req[q].lease.node}]
       ELSE End(q)
    /\ UNCHANGED <<object, mail, dials, now, told, limit>>

\* The client goes away, or the set-up deadline passes.
Abort(q) ==
    /\ req[q].pc \in {"dial", "record", "sent"} /\ End(q)
    /\ UNCHANGED <<object, mail, dials, now, told, limit>>

\* A report arrives; the request that awaits it goes on to select.
Deliver(e) ==
    /\ mail' = mail \ {e} /\ Observe(e) /\ told' = Remembered({e})
    /\ req' = [q \in Requests |-> IF req[q].pc = "record" /\ req[q].event = e.id
                                  THEN [req[q] EXCEPT !.pc = "select", !.event = None] ELSE req[q]]
    /\ UNCHANGED <<dials, now, limit>>

\* A report is lost: writeObservation() is false, and no node is tried. (One that
\* no request waits for just stays in the mail.)
Lose(q) ==
    /\ req[q].pc = "record" /\ End(q)
    /\ mail' = {e \in mail : e.id # req[q].event}
    /\ UNCHANGED <<object, dials, now, told, limit>>

\* fetchWithConfiguredRetries(): the same transport sends again.
Retry(q) ==
    /\ req[q].pc = "sent" /\ req' = [req EXCEPT ![q].pc = "dial"]
    /\ UNCHANGED <<object, mail, dials, now, told, limit>>

\* proxy.ts switches the account: another transport, the same allowance. Accounts
\* that inherit their provider's group share an owner.
NextAccount(q, o) ==
    /\ req[q].pc = "sent" /\ req[q].full /\ o \in Configs[req[q].rev].owners
    /\ req' = [req EXCEPT ![q] = [NoRequest EXCEPT !.pc = "select", !.rev = req[q].rev, !.full = TRUE,
                                                  !.owner = o, !.spent = req[q].spent, !.hops = req[q].hops]]
    /\ UNCHANGED <<object, mail, dials, now, told, limit>>

Tick == now < limit.time /\ now' = now + 1 /\ UNCHANGED <<object, req, mail, dials, told, limit>>

Next ==
    \/ Tick
    \/ \E r \in limit.revs : GetStatus(r) \/ \E n \in Nodes : Clear(r, n)
    \/ \E q \in limit.reqs :
          \/ \E r \in limit.revs, full \in BOOLEAN, o \in Owners : Start(q, r, full, o)
          \/ \E chosen \in Nodes \cup {None} : SelectNode(q, chosen)
          \/ \E late \in BOOLEAN : ProxyFails(q, late) \/ TargetRejects(q, late)
          \/ SelectFails(q) \/ Connect(q) \/ Retry(q) \/ Abort(q) \/ Lose(q)
          \/ \E o \in Owners : NextAccount(q, o)
    \/ \E e \in mail : Deliver(e)

Spec == Init /\ [][Next]_vars

-----------------------------------------------------------------------------
Typed ==
    /\ meta \in Metadata \cup {None} /\ owners \in OwnerKeys \cup {None}
    /\ node \in [Nodes -> NodeRecords \cup {None}] /\ bind \in [Owners -> Nodes \cup {None}]
    /\ req \in [Requests -> RequestRecords]
    /\ mail \subseteq Outcomes /\ told \subseteq Outcomes
    /\ limit \in Limits /\ dials \in Nat /\ now \in 0..limit.time

\* Every stored value has its type: a request carries at most two exclusions
\* (proxySelectInputSchema), and no more failures are kept than trigger a
\* cooldown (storedProxyHealthSchema), which is not for longer than that.
TypeOK ==
    /\ Typed
    /\ \A n \in Nodes : node[n] # None =>
          /\ node[n].health.success # None => node[n].health.success <= now
          /\ node[n].health.cooling # None => node[n].health.cooling <= now + Cooldown
          /\ Cardinality(node[n].health.failures) <= Threshold
    /\ \A q \in Requests : Cardinality(req[q].tried) <= 2

\* Bindings lead to nodes that can be used, and belong to owners the latest
\* full configuration knows: no request with an old or a partial configuration
\* and no late report leaves any other behind.
BindingsAreUsable ==
    \A o \in Owners : bind[o] # None =>
        /\ node[bind[o]] # None /\ ~node[bind[o]].disabled /\ node[bind[o]].health.cooling = None
        /\ owners = None \/ o \in owners.keys

\* The stored nodes and owners are those of the revisions they are stored under,
\* which never go back, whatever order requests with different ones come in.
Consistent ==
    /\ meta # None =>
          /\ meta.signature = Signature(meta.rev)
          /\ \A n \in Nodes : IF n \notin DOMAIN Configs[meta.rev].nodes THEN node[n] = None
                              ELSE /\ node[n] # None
                                   /\ node[n].fingerprint = Configs[meta.rev].nodes[n].fingerprint
                                   /\ node[n].disabled = Configs[meta.rev].nodes[n].disabled
    /\ owners # None => owners.keys = Configs[owners.rev].owners
KeepsLatest ==
    /\ Consistent'
    /\ meta # None => meta'.rev >= meta.rev
    /\ owners # None => owners'.rev >= owners.rev

\* docs/agents/gateway.md: healthy bindings are retained: an owner leaves its
\* node only if the node can no longer be used, the owner is gone, or the
\* strategy has changed.
KeepsBindings ==
    \A o \in Owners : bind[o] # None /\ bind'[o] # bind[o] =>
       \/ node'[bind[o]] = None \/ node'[bind[o]].disabled \/ node'[bind[o]].health.cooling # None
       \/ owners' # None /\ o \notin owners'.keys
       \/ Configs[meta'.signature].strategy # Configs[meta.signature].strategy

\* Failures that count against node n: told of its present generation, recent,
\* and after every success told of.
Counting(n) ==
    LET mine == {e \in told : e.node = n /\ e.gen = node[n].health.gen}
    IN  {f \in mine : ~f.ok /\ now - f.at < Window /\ \A s \in mine : s.ok => s.at < f.at}

\* Threshold failures cool a node, in whatever order reports arrive ...
NodeFailuresCool ==
    \A n \in Nodes : node[n] # None /\ node[n].health.cooling = None => Cardinality(Counting(n)) < Threshold

\* ... and nothing less does.
CoolsByFailures ==
    \A n \in Nodes :
       node[n] # None /\ node[n].health.cooling = None /\ node'[n] # None /\ node'[n].health.cooling # None =>
       \E e \in mail : /\ e.node = n /\ e.gen = node[n].health.gen /\ ~e.ok
                       /\ Cardinality(Counting(n) \cup {e}) >= Threshold

\* A logical request moves to another node of the group once, its retries and
\* its other accounts included.
SwitchesOnce == \A q \in Requests : req[q].hops <= 1

\* Bindings lead to usable nodes, failures that count cool a node, a request
\* moves once.
GroupIsSound == TypeOK /\ BindingsAreUsable /\ NodeFailuresCool /\ SwitchesOnce

\* What is stored never goes back to an older revision, owners stay with their
\* nodes, and only failures cool a node.
GroupStepsAreJust == [][KeepsLatest /\ KeepsBindings /\ CoolsByFailures]_vars
=============================================================================
