--------------------------- MODULE CachedObject ---------------------------
(***************************************************************************)
(* One durable object of the standard (Node.js / Vercel) runtime: the      *)
(* ObjectRuntime.invoke protocol over a Redis lease, the Redis cache of    *)
(* CachedSqlObjectBackend and the version-fenced SQL store.                *)
(*                                                                         *)
(* Every call to the object is an invocation, possibly in a process of its *)
(* own.  It takes a lease that may expire at any moment, pins a revision   *)
(* (from a clean cache key, or by advancing the SQL fence), reads through  *)
(* its memo and the revision's Redis hash, and writes by marking the cache *)
(* dirty, committing to SQL and publishing the new revision.  A SQL batch  *)
(* may reach the database long after its sender lost the lease or died.    *)
(* Readers use the lease-free path of readCached.  A process that crashes   *)
(* is an invocation that takes no further step: its lease expires, and its *)
(* last batch may still land.                                              *)
(*                                                                         *)
(* Random UUIDs are modelled by who drew them and for which batch, which   *)
(* makes them unique, as the code assumes.                                 *)
(***************************************************************************)
EXTENDS Naturals

CONSTANTS
  Invocations,  \* calls to the object; an invocation is its own lease token
  Readers,      \* lease-free reads of a clean cache revision
  Keys,         \* item keys of the object's storage, and its alarm
  Alarms,       \* the key among them, if any, that stands for the alarm
  Values,       \* stored values
  Pages,        \* kinds of key range that are listed
  Changes,      \* the changes that invocations may commit
  MaxBatches,   \* bound: SQL batches sent by one invocation
  Null,         \* an absent item
  Unfilled,     \* a cache field that holds nothing
  Keep,         \* a key that a change leaves alone
  NoRevision,   \* no row in object_versions
  NoOne         \* the lease is free

Item     == Values \cup {Null}
Revision == Invocations \X (0 .. MaxBatches)
Change   == [clear : BOOLEAN, set : [Keys -> Item \cup {Keep}]]

\* claim() commits this change: it moves the fence and nothing else.
NoChange == [clear |-> FALSE, set |-> [k \in Keys |-> Keep]]

\* Cached fields of a revision: one per item, one unbounded and one bounded page.
Field == Keys \cup Pages

ASSUME ConstantsAssumption ==
  /\ MaxBatches \in Nat \ {0}
  /\ Alarms \subseteq Keys
  /\ Changes \subseteq Change
  /\ Null \notin Values
  /\ Unfilled \notin Item
  /\ Keep \notin Item
  /\ Pages \subseteq {"complete", "bounded"}
  /\ Keys \cap {"complete", "bounded"} = {}
  /\ NoRevision \notin Revision
  /\ NoOne \notin Invocations

VARIABLES
  lease,     \* holder of the Redis lock key
  cache,     \* the cache key: missing, a clean revision, or a dirty marker
  hash,      \* Redis hash of each revision
  version,   \* object_versions.version
  items,     \* object_storage rows
  pc,        \* progress of each invocation
  seen,      \* cache key that an invocation found when it entered recovery
  rev,       \* SqlObjectBackend.version of each invocation
  batches,   \* SQL batches each invocation has sent
  batch,     \* its latest batch and what the database did with it
  memo,      \* CachedObjectScope.values and pages
  fetch,     \* field being read from SQL, and the row values it returned
  poisoned,  \* a write failed: CachedObjectScope.writes is rejected
  reply,     \* what the caller of the invocation was told
  rpc, rrev, rval,   \* progress, revision and value of each reader
  current    \* history: revisions whose state is the present items

redis   == <<lease, cache, hash>>
sql     == <<version, items, current>>
scope   == <<seen, rev, batches, batch, memo, fetch, poisoned, reply>>
readers == <<rpc, rrev, rval>>
vars    == <<redis, sql, pc, scope, readers>>

---------------------------------------------------------------------------
(* Values *)

Missing   == [state |-> "missing", id |-> NoRevision]
Clean(r)  == [state |-> "clean", id |-> r]
Dirty(r)  == [state |-> "dirty", id |-> r]   \* "recovering:uuid" or "writing:uuid"
CacheKey  == [state : {"missing", "clean", "dirty"}, id : Revision \cup {NoRevision}]

Empty == [f \in Field |-> Unfilled]

\* LIMIT 1: which row comes back depends on every row of the range.
BoundedPage(rows) ==
  LET present == {k \in Keys : rows[k] # Null}
  IN  [k \in Keys |->
         IF k \in present /\ k = (CHOOSE j \in present : TRUE) THEN rows[k] ELSE Null]

\* What SQL answers for a field when the stored rows are `rows`.
View(f, rows) ==
  CASE f = "complete" -> rows
    [] f = "bounded"  -> BoundedPage(rows)
    [] OTHER          -> rows[f]

FieldType(f) == IF f \in Pages THEN [Keys -> Item] ELSE Item
FieldValue   == Item \cup [Keys -> Item]
Memo == {m \in [Field -> FieldValue \cup {Unfilled}] :
           \A f \in Field : m[f] = Unfilled \/ m[f] \in FieldType(f)}

\* Mutant: a change is written verbatim, its untouched keys included.
AppliedVerbatim(rows, c) == [k \in Keys |-> c.set[k]]

\* The rows after a committed change.
Applied(rows, c) ==
  [k \in Keys |-> IF c.set[k] # Keep THEN c.set[k]
                  ELSE IF c.clear THEN Null ELSE rows[k]]

\* A read page also memoises the items it lists.
Remember(m, f, v) ==
  [g \in Field |->
     CASE g = f -> v
       [] f \in Pages /\ g \in Keys /\ v[g] # Null -> v[g]
       [] OTHER -> m[g]]

\* Mutant: a bounded page survives the commit.
MemoAfterKeepsPages(m, c) ==
  [g \in Field |->
     CASE g = "bounded"  -> m[g]
       [] g = "complete" -> IF m[g] = Unfilled THEN Unfilled ELSE Applied(m[g], c)
       [] OTHER          -> IF c.set[g] # Keep THEN c.set[g]
                            ELSE IF c.clear THEN Unfilled ELSE m[g]]

\* The memo after a commit: complete pages are updated, bounded ones dropped.
MemoAfter(m, c) ==
  [g \in Field |->
     CASE g = "bounded"  -> Unfilled
       [] g = "complete" -> IF m[g] = Unfilled THEN Unfilled ELSE Applied(m[g], c)
       [] OTHER          -> IF c.set[g] # Keep THEN c.set[g]
                            ELSE IF c.clear THEN Unfilled ELSE m[g]]

Idle == [from |-> NoRevision, to |-> NoRevision, change |-> NoChange, status |-> "none"]

Batch == [from : Revision \cup {NoRevision}, to : Revision \cup {NoRevision},
          change : Change, status : {"none", "sent", "ok", "stale"}]

NextRevision(i) == <<i, batches[i] + 1>>

Fetch == [field : Field \cup {Unfilled}, value : FieldValue \cup {Unfilled}]
NoFetch == [field |-> Unfilled, value |-> Unfilled]

Init ==
  /\ lease = NoOne
  /\ cache = Missing
  /\ hash = [r \in Revision |-> Empty]
  /\ version = NoRevision
  /\ items = [k \in Keys |-> Null]
  /\ current = {}
  /\ pc = [i \in Invocations |-> "idle"]
  /\ seen = [i \in Invocations |-> Missing]
  /\ rev = [i \in Invocations |-> NoRevision]
  /\ batches = [i \in Invocations |-> 0]
  /\ batch = [i \in Invocations |-> Idle]
  /\ memo = [i \in Invocations |-> Empty]
  /\ fetch = [i \in Invocations |-> NoFetch]
  /\ poisoned = [i \in Invocations |-> FALSE]
  /\ reply = [i \in Invocations |-> "none"]
  /\ rpc = [r \in Readers |-> "idle"]
  /\ rrev = [r \in Readers |-> NoRevision]
  /\ rval = [r \in Readers |-> Unfilled]

Goto(i, from, to) == pc[i] = from /\ pc' = [pc EXCEPT ![i] = to]

\* DEL the lock key if it still holds this token; the invocation is over.
Release(i) ==
  /\ pc' = [pc EXCEPT ![i] = "done"]
  /\ lease' = IF lease = i THEN NoOne ELSE lease
  /\ UNCHANGED <<cache, hash, sql, seen, rev, batches, batch, memo, fetch, poisoned, readers>>

\* The call throws: reject it and release.
Leave(i) ==
  /\ reply' = [reply EXCEPT ![i] = "error"]
  /\ Release(i)

---------------------------------------------------------------------------
(* The lease *)

\* SET key token NX PX: succeeds only when nobody holds the lock.
Acquire(i) ==
  /\ Goto(i, "idle", "scope")
  /\ lease = NoOne
  /\ lease' = i
  /\ UNCHANGED <<cache, hash, sql, scope, readers>>

\* The wait deadline passed while somebody else held the lock.
AcquireTimeout(i) ==
  /\ lease # NoOne
  /\ pc[i] = "idle" /\ Leave(i)

\* The lease ran out: a renewal failed, or the process stalled beyond its TTL.
LeaseExpires ==
  /\ lease # NoOne
  /\ lease' = NoOne
  /\ UNCHANGED <<cache, hash, sql, pc, scope, readers>>

---------------------------------------------------------------------------
(* Redis eviction *)

CacheExpires ==
  /\ cache # Missing
  /\ cache' = Missing
  /\ UNCHANGED <<lease, hash, sql, pc, scope, readers>>

HashExpires(r) ==
  /\ hash[r] # Empty
  /\ hash' = [hash EXCEPT ![r] = Empty]
  /\ UNCHANGED <<lease, cache, sql, pc, scope, readers>>

---------------------------------------------------------------------------
(* durableScope: pin a revision for the invocation *)

ScopeClean(i) ==
  /\ cache.state = "clean"
  /\ Goto(i, "scope", "enter")
  /\ rev' = [rev EXCEPT ![i] = cache.id]
  /\ UNCHANGED <<redis, sql, seen, batches, batch, memo, fetch, poisoned, reply, readers>>

ScopeDirty(i) ==
  /\ cache.state # "clean"
  /\ Goto(i, "scope", "mark")
  /\ seen' = [seen EXCEPT ![i] = cache]
  /\ UNCHANGED <<redis, sql, rev, batches, batch, memo, fetch, poisoned, reply, readers>>

MarkRecovering(i) ==
  /\ Goto(i, "mark", "insert")
  /\ lease = i /\ cache = seen[i]
  /\ cache' = Dirty(NextRevision(i))
  /\ seen' = [seen EXCEPT ![i] = Missing]
  /\ UNCHANGED <<lease, hash, sql, rev, batches, batch, memo, fetch, poisoned, reply, readers>>

RecoveryLost(i) ==
  /\ ~(lease = i /\ cache = seen[i])
  /\ pc[i] = "mark" /\ Leave(i)

\* INSERT ... ON CONFLICT DO NOTHING
ClaimInsert(i) ==
  /\ Goto(i, "insert", "select")
  /\ version' = IF version = NoRevision THEN <<i, 0>> ELSE version
  /\ current' = IF version = NoRevision THEN {<<i, 0>>} ELSE current
  /\ UNCHANGED <<redis, items, scope, readers>>

\* Send a batch that moves the fence from the invocation's revision.
Send(i, from, c) ==
  /\ batches[i] < MaxBatches
  /\ batches' = [batches EXCEPT ![i] = @ + 1]
  /\ batch' = [batch EXCEPT ![i] = [from |-> from, to |-> NextRevision(i),
                                    change |-> c, status |-> "sent"]]

\* SELECT version, then the empty commit of claim().
ClaimSelect(i) ==
  /\ Goto(i, "select", "claiming")
  /\ rev' = [rev EXCEPT ![i] = version]
  /\ Send(i, version, NoChange)
  /\ UNCHANGED <<redis, sql, seen, memo, fetch, poisoned, reply, readers>>

\* Mutant: the cache is published before the claim has moved the fence.
PublishUnclaimed(i) ==
  /\ Goto(i, "claiming", "enter")
  /\ lease = i /\ cache = Dirty(batch[i].to)
  /\ cache' = Clean(batch[i].to)
  /\ rev' = [rev EXCEPT ![i] = batch[i].to]
  /\ UNCHANGED <<lease, hash, sql, seen, batches, batch, memo, fetch, poisoned, reply, readers>>

\* The claim was accepted and the cache key still carries this recovery.
PublishClaim(i) ==
  /\ batch[i].status = "ok"
  /\ Goto(i, "claiming", "enter")
  /\ lease = i /\ cache = Dirty(batch[i].to)
  /\ cache' = Clean(batch[i].to)
  /\ rev' = [rev EXCEPT ![i] = batch[i].to]
  /\ UNCHANGED <<lease, hash, sql, seen, batches, batch, memo, fetch, poisoned, reply, readers>>

\* SQL failed, the claim was stale, or the lease or the cache key
\* changed hands meanwhile.
ClaimFails(i) == pc[i] \in {"insert", "select", "claiming"} /\ Leave(i)

\* lock.assertHeld() before the instance is built.
Enter(i) ==
  /\ Goto(i, "enter", "running")
  /\ lease = i
  /\ UNCHANGED <<redis, sql, scope, readers>>

EnterLost(i) ==
  /\ lease # i
  /\ pc[i] = "enter" /\ Leave(i)

---------------------------------------------------------------------------
(* The database: one batch is one transaction *)

\* Mutant: the statements are not guarded by the version.
ApplyUnfenced(i) ==
  /\ batch[i].status = "sent"
  /\ version' = batch[i].to
  /\ items' = Applied(items, batch[i].change)
  /\ current' = {batch[i].to}
  /\ batch' = [batch EXCEPT ![i].status = "ok"]
  /\ UNCHANGED <<redis, pc, seen, rev, batches, memo, fetch, poisoned, reply, readers>>

ApplyBatch(i) ==
  LET b == batch[i] IN
  /\ b.status = "sent"
  /\ IF version = b.from
       THEN /\ version' = b.to
            /\ items' = Applied(items, b.change)
            /\ current' = {b.to} \cup IF b.change = NoChange THEN current ELSE {}
            /\ batch' = [batch EXCEPT ![i].status = "ok"]
       ELSE /\ batch' = [batch EXCEPT ![i].status = "stale"]
            /\ UNCHANGED sql
  /\ UNCHANGED <<redis, pc, seen, rev, batches, memo, fetch, poisoned, reply, readers>>

---------------------------------------------------------------------------
(* CachedObjectScope reads *)

HashHit(i, f) ==
  /\ pc[i] = "running"
  /\ memo[i][f] = Unfilled
  /\ hash[rev[i]][f] # Unfilled
  /\ memo' = [memo EXCEPT ![i] = Remember(@, f, hash[rev[i]][f])]
  /\ UNCHANGED <<redis, sql, pc, seen, rev, batches, batch, fetch, poisoned, reply, readers>>

HashMiss(i, f) ==
  /\ Goto(i, "running", "sqlget")
  /\ memo[i][f] = Unfilled
  /\ hash[rev[i]][f] = Unfilled
  /\ fetch' = [fetch EXCEPT ![i] = [field |-> f, value |-> Unfilled]]
  /\ UNCHANGED <<redis, sql, seen, rev, batches, batch, memo, poisoned, reply, readers>>

SqlGet(i) ==
  /\ Goto(i, "sqlget", "fill")
  /\ fetch' = [fetch EXCEPT ![i].value = View(fetch[i].field, items)]
  /\ UNCHANGED <<redis, sql, seen, rev, batches, batch, memo, poisoned, reply, readers>>

Guarded(i, key) == lease = i /\ cache = key

Fill(i) ==
  /\ Goto(i, "fill", "running")
  /\ Guarded(i, Clean(rev[i]))
  /\ hash' = [hash EXCEPT ![rev[i]][fetch[i].field] = fetch[i].value]
  /\ memo' = [memo EXCEPT ![i] = Remember(@, fetch[i].field, fetch[i].value)]
  /\ fetch' = [fetch EXCEPT ![i] = NoFetch]
  /\ UNCHANGED <<lease, cache, sql, seen, rev, batches, batch, poisoned, reply, readers>>

\* The read throws and the object's code may go on.  getAlarm has memoised its
\* answer by then; an item or a page is not.
FillLost(i) ==
  /\ Goto(i, "fill", "running")
  /\ ~Guarded(i, Clean(rev[i]))
  /\ memo' = IF fetch[i].field \in Alarms
               THEN [memo EXCEPT ![i] = Remember(@, fetch[i].field, fetch[i].value)]
               ELSE memo
  /\ fetch' = [fetch EXCEPT ![i] = NoFetch]
  /\ UNCHANGED <<redis, sql, seen, rev, batches, batch, poisoned, reply, readers>>

---------------------------------------------------------------------------
(* CachedObjectScope.apply: dirty, commit, publish *)

\* Mutant: the commit is sent while the cache key is still clean.
MarkNothing(i) ==
  /\ ~poisoned[i]
  /\ Goto(i, "running", "marked")
  /\ batches[i] < MaxBatches
  /\ Guarded(i, Clean(rev[i]))
  /\ UNCHANGED <<redis, sql, scope, readers>>

MarkDirty(i) ==
  /\ ~poisoned[i]
  /\ Goto(i, "running", "marked")
  /\ batches[i] < MaxBatches
  /\ Guarded(i, Clean(rev[i]))
  /\ cache' = Dirty(NextRevision(i))
  /\ UNCHANGED <<lease, hash, sql, scope, readers>>

SendBatch(i, c) ==
  /\ Goto(i, "marked", "writing")
  /\ Send(i, rev[i], c)
  /\ UNCHANGED <<redis, sql, seen, rev, memo, fetch, poisoned, reply, readers>>

Poison(i) ==
  /\ poisoned' = [poisoned EXCEPT ![i] = TRUE]
  /\ pc' = [pc EXCEPT ![i] = "running"]

\* The cache was not clean at this revision, or the lease is gone.
MarkLost(i) ==
  /\ pc[i] = "running" /\ ~poisoned[i]
  /\ ~Guarded(i, Clean(rev[i]))
  /\ Poison(i)
  /\ UNCHANGED <<redis, sql, seen, rev, batches, batch, memo, fetch, reply, readers>>

\* A stale batch, or an answer that never arrived from Redis or SQL.
WriteFails(i) ==
  /\ pc[i] \in {"marked", "writing"}
  /\ Poison(i)
  /\ UNCHANGED <<redis, sql, seen, rev, batches, batch, memo, fetch, reply, readers>>

\* The SQL answer moves the scope to the new revision whatever Redis says next.
Committed(i) ==
  /\ batch[i].status = "ok"
  /\ rev' = [rev EXCEPT ![i] = batch[i].to]
  /\ memo' = [memo EXCEPT ![i] = MemoAfter(@, batch[i].change)]

Publish(i) ==
  /\ Goto(i, "writing", "running")
  /\ Committed(i)
  /\ Guarded(i, Dirty(batch[i].to))
  /\ cache' = Clean(batch[i].to)
  /\ hash' = [hash EXCEPT ![rev[i]] = Empty, ![batch[i].to] = memo'[i]]
  /\ UNCHANGED <<lease, sql, seen, batches, batch, fetch, poisoned, reply, readers>>

PublishLost(i) ==
  /\ pc[i] = "writing"
  /\ Committed(i)
  /\ ~Guarded(i, Dirty(batch[i].to))
  /\ Poison(i)
  /\ UNCHANGED <<redis, sql, seen, batches, batch, fetch, reply, readers>>

---------------------------------------------------------------------------
(* The end of an invocation; work given to waitUntil may run after the reply *)

Resolve(i) ==
  /\ pc[i] = "running" /\ reply[i] = "none"
  /\ lease = i
  /\ reply' = [reply EXCEPT ![i] = "ok"]
  /\ UNCHANGED <<redis, sql, pc, seen, rev, batches, batch, memo, fetch, poisoned, readers>>

\* The operation threw, or the lease was lost before the answer.
Reject(i) ==
  /\ pc[i] = "running" /\ reply[i] = "none"
  /\ reply' = [reply EXCEPT ![i] = "error"]
  /\ UNCHANGED <<redis, sql, pc, seen, rev, batches, batch, memo, fetch, poisoned, readers>>

\* drain() is over: nothing that waitUntil holds is pending.
Drained(i) ==
  /\ pc[i] = "running" /\ reply[i] # "none"
  /\ Release(i)
  /\ UNCHANGED reply

---------------------------------------------------------------------------
(* readCached: no lease; the revision is checked again after decoding *)

Fallback(r) ==
  /\ rpc' = [rpc EXCEPT ![r] = "fallback"]
  /\ rrev' = [rrev EXCEPT ![r] = NoRevision]
  /\ rval' = [rval EXCEPT ![r] = Unfilled]

ReadRevision(r) ==
  /\ rpc[r] = "idle"
  /\ \/ /\ cache.state = "clean"
        /\ rpc' = [rpc EXCEPT ![r] = "hget"]
        /\ rrev' = [rrev EXCEPT ![r] = cache.id]
        /\ UNCHANGED rval
     \/ cache.state # "clean" /\ Fallback(r)
  /\ UNCHANGED <<redis, sql, pc, scope>>

ReadItem(r, k) ==
  /\ rpc[r] = "hget"
  /\ LET v == hash[rrev[r]][k] IN
     \/ /\ v \notin {Unfilled, Null}
        /\ rpc' = [rpc EXCEPT ![r] = "decode"]
        /\ rval' = [rval EXCEPT ![r] = <<k, v>>]
        /\ UNCHANGED rrev
     \/ v \in {Unfilled, Null} /\ Fallback(r)
  /\ UNCHANGED <<redis, sql, pc, scope>>

Validate(r) ==
  /\ rpc[r] = "decode"
  /\ \/ /\ cache = Clean(rrev[r])
        /\ rpc' = [rpc EXCEPT ![r] = "served"]
        /\ UNCHANGED <<rrev, rval>>
     \/ cache # Clean(rrev[r]) /\ Fallback(r)
  /\ UNCHANGED <<redis, sql, pc, scope>>

---------------------------------------------------------------------------

Lease(i) == Acquire(i) \/ AcquireTimeout(i)

Scope(i) ==
  \/ ScopeClean(i) \/ ScopeDirty(i) \/ MarkRecovering(i) \/ RecoveryLost(i)
  \/ ClaimInsert(i) \/ ClaimSelect(i) \/ PublishClaim(i)
  \/ ClaimFails(i) \/ Enter(i) \/ EnterLost(i)

Read(i) ==
  \/ \E f \in Field : HashHit(i, f) \/ HashMiss(i, f)
  \/ SqlGet(i) \/ Fill(i) \/ FillLost(i)

Write(i) ==
  \/ MarkDirty(i) \/ (\E c \in Changes : SendBatch(i, c)) \/ MarkLost(i)
  \/ WriteFails(i) \/ Publish(i) \/ PublishLost(i)

Finish(i) == Resolve(i) \/ Reject(i) \/ Drained(i)

ReadCached(r) == ReadRevision(r) \/ (\E k \in Keys : ReadItem(r, k)) \/ Validate(r)

Next ==
  \/ LeaseExpires \/ CacheExpires \/ (\E r \in Revision : HashExpires(r))
  \/ \E i \in Invocations :
       Lease(i) \/ Scope(i) \/ ApplyBatch(i) \/ Read(i) \/ Write(i) \/ Finish(i)
  \/ \E r \in Readers : ReadCached(r)

Spec == Init /\ [][Next]_vars
---------------------------------------------------------------------------
(* Correctness *)

\* The state is well formed: the lease, the cache key, the SQL fence and every
\* invocation's scope hold values that the code can put there.
TypeOK ==
  /\ lease \in Invocations \cup {NoOne}
  /\ cache \in CacheKey
  /\ hash \in [Revision -> Memo]
  /\ version \in Revision \cup {NoRevision}
  /\ items \in [Keys -> Item]
  /\ current \subseteq Revision
  /\ pc \in [Invocations -> {"idle", "scope", "mark", "insert", "select", "claiming",
                             "enter", "running", "sqlget", "fill", "marked", "writing",
                             "done"}]
  /\ seen \in [Invocations -> CacheKey]
  /\ rev \in [Invocations -> Revision \cup {NoRevision}]
  /\ batches \in [Invocations -> 0 .. MaxBatches]
  /\ batch \in [Invocations -> Batch]
  /\ memo \in [Invocations -> Memo]
  /\ fetch \in [Invocations -> Fetch]
  /\ poisoned \in [Invocations -> BOOLEAN]
  /\ reply \in [Invocations -> {"none", "ok", "error"}]
  /\ rpc \in [Readers -> {"idle", "hget", "decode", "served", "fallback"}]
  /\ rrev \in [Readers -> Revision \cup {NoRevision}]
  /\ rval \in [Readers -> (Keys \X (FieldValue \cup {Unfilled})) \cup {Unfilled}]

Contract ==
  INSTANCE ObjectContract WITH
    Commits  <- Changes \cup {NoChange},
    view     <- memo,
    failed   <- poisoned,
    answered <- reply,
    served   <- [r \in Readers |-> IF rpc[r] = "served" THEN rval[r] ELSE Unfilled]

Consistent(m, rows) == \A f \in Field : m[f] # Unfilled => m[f] = View(f, rows)

\* A batch that the database would still accept.
Landable(i) == batch[i].status = "sent" /\ batch[i].from = version

\* A clean cache key names a revision whose hash answers exactly as SQL would:
\* readers that trust it (ScopeClean, readCached) never see a stale field.
CleanCacheIsCurrent ==
  cache.state = "clean" => Consistent(hash[cache.id], items)

\* Once the cache is clean again, no delayed batch of an earlier lease owner can
\* still change an item: recovery moved the fence first.
DelayedWritesAreFenced ==
  cache.state = "clean" =>
    \A i \in Invocations : Landable(i) => batch[i].change = NoChange

\* The runtime implements its contract: no change is computed from stale state,
\* no caller is answered from stale state, no lease-free read is stale.
ImplementsContract == Contract!Spec

---------------------------------------------------------------------------
(* The inductive invariant behind these properties *)

\* A revision that no committed batch has created yet.
Unborn(r) ==
  \/ r[2] > batches[r[1]]
  \/ r[2] = batches[r[1]] /\ batch[r[1]].status = "sent"

\* Revisions are created once: whatever mentions one mentions a created one.
BornInv ==
  /\ version = NoRevision =>
       /\ current = {} /\ cache.state # "clean"
       /\ \A i \in Invocations : rev[i] = NoRevision /\ batch[i].status = "none"
       /\ \A r \in Readers : rrev[r] = NoRevision
       /\ \A r \in Revision : hash[r] = Empty
  /\ version # NoRevision => version \in current
  /\ \A r \in current : ~Unborn(r)
  /\ cache.state = "clean" => cache.id \in Revision /\ ~Unborn(cache.id)
  /\ \A i \in Invocations : rev[i] # NoRevision => ~Unborn(rev[i])
  /\ \A r \in Readers : rrev[r] # NoRevision => ~Unborn(rrev[r])
  /\ \A r \in Revision : Unborn(r) => hash[r] = Empty

\* What each stage of an invocation knows of its latest batch and revision.
StageInv ==
  /\ \A i \in Invocations :
       /\ batch[i].status = "sent" =>
            /\ rev[i] # NoRevision /\ batch[i].from = rev[i]
            /\ batch[i].change \in Changes \cup {NoChange}
       /\ batch[i].status # "none" => batch[i].to = <<i, batches[i]>>
       /\ pc[i] \in {"claiming", "writing"} => batch[i].status # "none"
       /\ pc[i] = "claiming" => batch[i].change = NoChange
       /\ pc[i] \in {"claiming", "enter", "running", "sqlget", "fill", "marked", "writing"} =>
            rev[i] # NoRevision
       /\ pc[i] \in {"sqlget", "fill"} => fetch[i].field \in Field
       /\ pc[i] = "fill" => fetch[i].value \in FieldType(fetch[i].field)
       /\ pc[i] \in {"idle", "scope", "mark", "insert", "select"} =>
            batches[i] = 0 /\ batch[i].status = "none"
       /\ pc[i] \in {"idle", "scope", "mark", "insert", "select", "claiming", "enter"} =>
            memo[i] = Empty /\ reply[i] = "none"
       /\ pc[i] = "select" => version # NoRevision
       /\ pc[i] = "marked" => batches[i] < MaxBatches
  /\ \A r \in Readers : rpc[r] \in {"hget", "decode"} => rrev[r] # NoRevision

\* Every copy of a revision that still names the present items agrees with them.
CopyInv ==
  /\ \A i \in Invocations :
       /\ rev[i] \in current => Consistent(memo[i], items)
       /\ pc[i] = "writing" /\ batch[i].status = "ok" /\ batch[i].to \in current =>
            Consistent(MemoAfter(memo[i], batch[i].change), items)
       /\ pc[i] = "fill" /\ rev[i] \in current =>
            fetch[i].value = View(fetch[i].field, items)
  /\ \A r \in current : Consistent(hash[r], items)
  /\ \A r \in Readers : rpc[r] = "decode" =>
       /\ rval[r] \in Keys \X Item
       /\ rrev[r] \in current => rval[r][2] = items[rval[r][1]]

\* An invocation whose change the database would accept, now or once sent.
Threat(j) ==
  \/ pc[j] = "marked" /\ rev[j] = version
  \/ Landable(j) /\ batch[j].change # NoChange

\* An accepted batch whose marker is still on the cache key.
Publishable(i) ==
  /\ pc[i] \in {"claiming", "writing"}
  /\ batch[i].status = "ok"
  /\ cache = Dirty(batch[i].to)

\* An invocation that holds the lease at a pinned revision, between two writes.
Settled(i) ==
  /\ lease = i
  /\ pc[i] \in {"enter", "running", "sqlget", "fill"}
  /\ ~poisoned[i]

\* No change can land under a clean key, under an accepted batch that is about to
\* be published, or under a settled lease holder.
FenceInv ==
  /\ cache.state = "clean" =>
       cache.id \in current /\ \A j \in Invocations : ~Threat(j)
  /\ \A i \in Invocations : Publishable(i) =>
       batch[i].to \in current /\ \A j \in Invocations : ~Threat(j)
  /\ \A i \in Invocations : Settled(i) =>
       rev[i] \in current /\ \A j \in Invocations : ~Threat(j)

\* The protocol invariant of the cache, the fence and the lease.
ProtocolInv == TypeOK /\ BornInv /\ StageInv /\ CopyInv /\ FenceInv
===========================================================================
