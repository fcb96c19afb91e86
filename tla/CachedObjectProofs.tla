------------------------ MODULE CachedObjectProofs ------------------------
(***************************************************************************)
(* Proofs about CachedObject, for any number of invocations, readers,      *)
(* keys, values and batches.                                               *)
(***************************************************************************)
EXTENDS CachedObject, TLAPS

---------------------------------------------------------------------------
(* The operators the protocol is built from *)

\* SQL answers every field with a value of the field's type.
LEMMA ViewType ==
  ASSUME NEW rows \in [Keys -> Item], NEW f \in Field
  PROVE  View(f, rows) \in FieldType(f)
<1>1. BoundedPage(rows) \in [Keys -> Item]
  BY DEF BoundedPage, Item
<1>2. CASE f \in Pages
  BY <1>1, <1>2, ConstantsAssumption DEF View, FieldType
<1>3. CASE f \notin Pages
  BY <1>3, ConstantsAssumption DEF View, FieldType, Field
<1> QED BY <1>2, <1>3

LEMMA FieldTypes ==
  ASSUME NEW f \in Field
  PROVE  FieldType(f) \subseteq FieldValue
BY DEF FieldType, FieldValue

LEMMA AppliedType ==
  ASSUME NEW rows \in [Keys -> Item], NEW c \in Change
  PROVE  Applied(rows, c) \in [Keys -> Item]
BY ConstantsAssumption DEF Applied, Change, Item

\* The empty commit of claim() leaves the rows alone.
LEMMA NoChangeKeeps ==
  /\ NoChange \in Change
  /\ \A rows \in [Keys -> Item] : Applied(rows, NoChange) = rows
BY ConstantsAssumption DEF NoChange, Change, Applied

LEMMA EmptyMemo ==
  /\ Empty \in Memo
  /\ \A rows : Consistent(Empty, rows)
BY DEF Empty, Memo, Consistent

\* Memoising a well-typed answer keeps the memo well typed.
LEMMA RememberType ==
  ASSUME NEW m \in Memo, NEW f \in Field, NEW v \in FieldType(f)
  PROVE  Remember(m, f, v) \in Memo
<1> DEFINE n == Remember(m, f, v)
<1>1. ASSUME NEW g \in Field
      PROVE  n[g] \in FieldType(g) \/ n[g] = Unfilled
  <2>1. CASE g = f
    BY <2>1, ConstantsAssumption DEF Remember
  <2>2. CASE g # f /\ f \in Pages /\ g \in Keys /\ v[g] # Null
    <3>1. v \in [Keys -> Item]
      BY <2>2 DEF FieldType
    <3>2. FieldType(g) = Item
      BY <2>2, ConstantsAssumption DEF FieldType
    <3> QED BY <2>2, <3>1, <3>2 DEF Remember
  <2>3. CASE g # f /\ ~(f \in Pages /\ g \in Keys /\ v[g] # Null)
    <3>1. n[g] = m[g]
      BY <2>3 DEF Remember
    <3> QED BY <3>1 DEF Memo
  <2> QED BY <2>1, <2>2, <2>3
<1>2. n \in [Field -> FieldValue \cup {Unfilled}]
  BY <1>1, FieldTypes DEF Remember
<1> QED BY <1>1, <1>2 DEF Memo

\* Memoising what SQL answers keeps the memo in agreement with SQL.
LEMMA RememberConsistent ==
  ASSUME NEW m \in Memo, NEW f \in Field, NEW rows \in [Keys -> Item],
         Consistent(m, rows)
  PROVE  Consistent(Remember(m, f, View(f, rows)), rows)
<1> DEFINE v == View(f, rows)
<1> SUFFICES ASSUME NEW g \in Field, Remember(m, f, v)[g] # Unfilled
             PROVE  Remember(m, f, v)[g] = View(g, rows)
  BY DEF Consistent
<1>1. CASE g = f
  BY <1>1, ConstantsAssumption DEF Remember
<1>2. CASE g # f /\ f \in Pages /\ g \in Keys /\ v[g] # Null
  <2>1. Remember(m, f, v)[g] = v[g]
    BY <1>2 DEF Remember
  <2>2. View(g, rows) = rows[g]
    BY <1>2, ConstantsAssumption DEF View
  <2>3. v[g] = rows[g]
    BY <1>2, ConstantsAssumption DEF View, BoundedPage
  <2> QED BY <2>1, <2>2, <2>3
<1>3. CASE g # f /\ ~(f \in Pages /\ g \in Keys /\ v[g] # Null)
  <2>1. Remember(m, f, v)[g] = m[g]
    BY <1>3 DEF Remember
  <2> QED BY <2>1 DEF Consistent
<1> QED BY <1>1, <1>2, <1>3

\* The memo that apply() keeps after a commit is well typed, and agrees with SQL
\* after the commit if the memo agreed with SQL before it.
LEMMA MemoAfterType ==
  ASSUME NEW m \in Memo, NEW c \in Change
  PROVE  MemoAfter(m, c) \in Memo
<1> DEFINE n == MemoAfter(m, c)
<1>1. ASSUME NEW g \in Field
      PROVE  n[g] \in FieldType(g) \/ n[g] = Unfilled
  <2>0. m[g] = Unfilled \/ m[g] \in FieldType(g)
    BY DEF Memo
  <2>1. CASE g = "bounded"
    BY <2>1 DEF MemoAfter
  <2>2. CASE g = "complete"
    <3>1. FieldType(g) = [Keys -> Item]
      BY <2>2, ConstantsAssumption DEF FieldType, Field
    <3>2. n[g] = IF m[g] = Unfilled THEN Unfilled ELSE Applied(m[g], c)
      BY <2>2 DEF MemoAfter
    <3> QED BY <3>1, <3>2, <2>0, AppliedType
  <2>3. CASE g \in Keys
    <3>1. FieldType(g) = Item
      BY <2>3, ConstantsAssumption DEF FieldType
    <3>2. n[g] = IF c.set[g] # Keep THEN c.set[g] ELSE IF c.clear THEN Unfilled ELSE m[g]
      BY <2>3, ConstantsAssumption DEF MemoAfter
    <3>3. c.set[g] \in Item \cup {Keep}
      BY <2>3 DEF Change
    <3> QED BY <2>0, <3>1, <3>2, <3>3
  <2> QED BY <2>1, <2>2, <2>3, ConstantsAssumption DEF Field
<1>2. n \in [Field -> FieldValue \cup {Unfilled}]
  BY <1>1, FieldTypes DEF MemoAfter
<1> QED BY <1>1, <1>2 DEF Memo

LEMMA MemoAfterConsistent ==
  ASSUME NEW m \in Memo, NEW c \in Change, NEW rows \in [Keys -> Item],
         Consistent(m, rows)
  PROVE  Consistent(MemoAfter(m, c), Applied(rows, c))
<1> DEFINE n == MemoAfter(m, c)
<1> SUFFICES ASSUME NEW g \in Field, n[g] # Unfilled
             PROVE  n[g] = View(g, Applied(rows, c))
  BY DEF Consistent
<1>1. CASE g = "bounded"
  BY <1>1 DEF MemoAfter
<1>2. CASE g = "complete"
  <2>1. m[g] # Unfilled /\ n[g] = Applied(m[g], c)
    BY <1>2 DEF MemoAfter
  <2>2. m[g] = rows
    BY <1>2, <2>1 DEF Consistent, View
  <2> QED BY <1>2, <2>1, <2>2 DEF View
<1>3. CASE g \in Keys
  <2>1. n[g] = IF c.set[g] # Keep THEN c.set[g] ELSE IF c.clear THEN Unfilled ELSE m[g]
    BY <1>3, ConstantsAssumption DEF MemoAfter
  <2>2. View(g, Applied(rows, c)) = Applied(rows, c)[g] /\ View(g, rows) = rows[g]
    BY <1>3, ConstantsAssumption DEF View
  <2>3. m[g] # Unfilled => m[g] = View(g, rows)
    BY DEF Consistent
  <2> QED BY <1>3, <2>1, <2>2, <2>3 DEF Applied
<1> QED BY <1>1, <1>2, <1>3, ConstantsAssumption DEF Field

LEMMA CacheKeys ==
  /\ Missing \in CacheKey
  /\ \A r \in Revision \cup {NoRevision} : Clean(r) \in CacheKey /\ Dirty(r) \in CacheKey
  /\ \A k \in CacheKey : k.id \in Revision \cup {NoRevision}
BY DEF CacheKey, Missing, Clean, Dirty

LEMMA Batches ==
  ASSUME NEW from \in Revision \cup {NoRevision}, NEW to \in Revision \cup {NoRevision},
         NEW c \in Change
  PROVE  [from |-> from, to |-> to, change |-> c, status |-> "sent"] \in Batch
BY DEF Batch

LEMMA BatchAnswers ==
  ASSUME NEW b \in Batch, NEW x \in {"ok", "stale"}
  PROVE  [b EXCEPT !.status = x] \in Batch
BY DEF Batch

---------------------------------------------------------------------------
(* Every step keeps the state well typed *)

LEMMA TypeStep ==
  ASSUME ProtocolInv, Next
  PROVE  TypeOK'
<1> USE ConstantsAssumption DEF ProtocolInv, TypeOK, redis, sql, scope, readers, Goto
<1>1. ASSUME LeaseExpires PROVE TypeOK'
  BY <1>1 DEF LeaseExpires
<1>2. ASSUME CacheExpires PROVE TypeOK'
  BY <1>2, CacheKeys DEF CacheExpires
<1>3. ASSUME NEW r \in Revision, HashExpires(r) PROVE TypeOK'
  BY <1>3, EmptyMemo DEF HashExpires
<1>4. ASSUME NEW i \in Invocations, Acquire(i) PROVE TypeOK'
  BY <1>4 DEF Acquire
<1>5. ASSUME NEW i \in Invocations, Leave(i) PROVE TypeOK'
  BY <1>5 DEF Leave, Release
<1>6. ASSUME NEW i \in Invocations, ScopeClean(i) PROVE TypeOK'
  BY <1>6, CacheKeys DEF ScopeClean
<1>7. ASSUME NEW i \in Invocations, ScopeDirty(i) PROVE TypeOK'
  BY <1>7 DEF ScopeDirty
<1>8. ASSUME NEW i \in Invocations, MarkRecovering(i) PROVE TypeOK'
  <2>1. NextRevision(i) \in Revision
    BY <1>8 DEF MarkRecovering, StageInv, NextRevision, Revision
  <2> QED BY <1>8, <2>1, CacheKeys DEF MarkRecovering
<1>9. ASSUME NEW i \in Invocations, ClaimInsert(i) PROVE TypeOK'
  <2>1. <<i, 0>> \in Revision
    BY DEF Revision
  <2> QED BY <1>9, <2>1 DEF ClaimInsert
<1>10. ASSUME NEW i \in Invocations, ClaimSelect(i) PROVE TypeOK'
  <2>1. NextRevision(i) \in Revision
    BY <1>10 DEF ClaimSelect, Send, NextRevision, Revision
  <2>2. batch' \in [Invocations -> Batch]
    BY <1>10, <2>1, Batches, NoChangeKeeps DEF ClaimSelect, Send
  <2>3. batches' \in [Invocations -> 0 .. MaxBatches]
    BY <1>10 DEF ClaimSelect, Send
  <2> QED BY <1>10, <2>2, <2>3 DEF ClaimSelect
<1>11. ASSUME NEW i \in Invocations, PublishClaim(i) PROVE TypeOK'
  <2>1. batch[i].to \in Revision \cup {NoRevision}
    BY DEF Batch
  <2> QED BY <1>11, <2>1, CacheKeys DEF PublishClaim
<1>12. ASSUME NEW i \in Invocations, Enter(i) PROVE TypeOK'
  BY <1>12 DEF Enter
<1>13. ASSUME NEW i \in Invocations, ApplyBatch(i) PROVE TypeOK'
  <2>1. batch' \in [Invocations -> Batch]
    <3>1. batch[i] \in Batch
      OBVIOUS
    <3>2. \A x \in {"ok", "stale"} : [batch[i] EXCEPT !.status = x] \in Batch
      BY <3>1, BatchAnswers
    <3>3. PICK x \in {"ok", "stale"} : batch' = [batch EXCEPT ![i].status = x]
      BY <1>13 DEF ApplyBatch
    <3> QED BY <3>2, <3>3
  <2>2. Applied(items, batch[i].change) \in [Keys -> Item]
    BY AppliedType DEF Batch
  <2>3. batch[i].to \in Revision
    BY <1>13 DEF ApplyBatch, StageInv, Revision
  <2> QED BY <1>13, <2>1, <2>2, <2>3 DEF ApplyBatch
<1>14. ASSUME NEW i \in Invocations, SqlGet(i) PROVE TypeOK'
  <2>1. fetch[i].field \in Field
    BY <1>14 DEF SqlGet, StageInv
  <2>2. View(fetch[i].field, items) \in FieldValue
    BY <2>1, ViewType, FieldTypes
  <2>3. fetch' \in [Invocations -> Fetch]
    BY <1>14, <2>2 DEF SqlGet, Fetch
  <2> QED BY <1>14, <2>3 DEF SqlGet
<1>15. ASSUME NEW i \in Invocations, NEW f \in Field, HashHit(i, f) PROVE TypeOK'
  <2>1. rev[i] \in Revision
    BY <1>15 DEF HashHit, StageInv
  <2>2. hash[rev[i]][f] \in FieldType(f)
    BY <1>15, <2>1 DEF HashHit, Memo
  <2>3. Remember(memo[i], f, hash[rev[i]][f]) \in Memo
    BY <2>2, RememberType
  <2> QED BY <1>15, <2>3 DEF HashHit
<1>16. ASSUME NEW i \in Invocations, NEW f \in Field, HashMiss(i, f) PROVE TypeOK'
  BY <1>16 DEF HashMiss, Fetch
<1>17. ASSUME NEW i \in Invocations, Fill(i) \/ FillLost(i) PROVE TypeOK'
  <2>1. fetch[i].field \in Field /\ fetch[i].value \in FieldType(fetch[i].field)
    BY <1>17 DEF Fill, FillLost, StageInv
  <2>2. Remember(memo[i], fetch[i].field, fetch[i].value) \in Memo
    BY <2>1, RememberType
  <2>3. fetch' \in [Invocations -> Fetch]
    BY <1>17 DEF Fill, FillLost, Fetch, NoFetch
  <2>4. ASSUME Fill(i) PROVE hash' \in [Revision -> Memo]
    <3>1. rev[i] \in Revision
      BY <2>4 DEF Fill, StageInv
    <3>2. [hash[rev[i]] EXCEPT ![fetch[i].field] = fetch[i].value] \in Memo
      BY <2>1, <3>1, FieldTypes DEF Memo
    <3> QED BY <2>4, <3>1, <3>2 DEF Fill
  <2> QED BY <1>17, <2>2, <2>3, <2>4 DEF Fill, FillLost
<1>18. ASSUME NEW i \in Invocations, MarkDirty(i) PROVE TypeOK'
  <2>1. NextRevision(i) \in Revision
    BY <1>18 DEF MarkDirty, NextRevision, Revision
  <2> QED BY <1>18, <2>1, CacheKeys DEF MarkDirty
<1>19. ASSUME NEW i \in Invocations, NEW c \in Changes, SendBatch(i, c) PROVE TypeOK'
  <2>1. NextRevision(i) \in Revision
    BY <1>19 DEF SendBatch, Send, NextRevision, Revision
  <2>2. batch' \in [Invocations -> Batch]
    BY <1>19, <2>1, Batches DEF SendBatch, Send
  <2>3. batches' \in [Invocations -> 0 .. MaxBatches]
    BY <1>19 DEF SendBatch, Send
  <2> QED BY <1>19, <2>2, <2>3 DEF SendBatch
<1>20. ASSUME NEW i \in Invocations, MarkLost(i) \/ WriteFails(i) PROVE TypeOK'
  BY <1>20 DEF MarkLost, WriteFails, Poison
<1>21. ASSUME NEW i \in Invocations, Publish(i) \/ PublishLost(i) PROVE TypeOK'
  <2>1. batch[i].to \in Revision \cup {NoRevision} /\ batch[i].change \in Change
    BY DEF Batch
  <2>2. MemoAfter(memo[i], batch[i].change) \in Memo
    BY <2>1, MemoAfterType
  <2>3. rev' \in [Invocations -> Revision \cup {NoRevision}] /\ memo' \in [Invocations -> Memo]
    BY <1>21, <2>1, <2>2 DEF Publish, PublishLost, Committed
  <2>4. ASSUME Publish(i) PROVE hash' \in [Revision -> Memo]
    BY <2>3, <2>4, EmptyMemo DEF Publish
  <2>5. CASE Publish(i)
    BY <2>1, <2>3, <2>4, <2>5, CacheKeys DEF Publish
  <2>6. CASE PublishLost(i)
    BY <2>3, <2>6 DEF PublishLost, Poison
  <2> QED BY <1>21, <2>5, <2>6
<1>22. ASSUME NEW i \in Invocations, Resolve(i) \/ Reject(i) \/ Drained(i) PROVE TypeOK'
  BY <1>22 DEF Resolve, Reject, Drained, Release
<1>23. ASSUME NEW r \in Readers, ReadRevision(r) PROVE TypeOK'
  BY <1>23, CacheKeys DEF ReadRevision, Fallback
<1>24. ASSUME NEW r \in Readers, NEW k \in Keys, ReadItem(r, k) PROVE TypeOK'
  <2>1. hash[rrev[r]][k] \in FieldValue \cup {Unfilled}
    BY <1>24 DEF ReadItem, StageInv, Memo, Field
  <2> QED BY <1>24, <2>1 DEF ReadItem, Fallback
<1>25. ASSUME NEW r \in Readers, Validate(r) PROVE TypeOK'
  BY <1>25 DEF Validate, Fallback
<1> QED
  BY <1>1, <1>2, <1>3, <1>4, <1>5, <1>6, <1>7, <1>8, <1>9, <1>10, <1>11, <1>12, <1>13,
     <1>14, <1>15, <1>16, <1>17, <1>18, <1>19, <1>20, <1>21, <1>22, <1>23, <1>24, <1>25
  DEF Next, Lease, Scope, Read, Write, Finish, ReadCached,
      AcquireTimeout, RecoveryLost, ClaimFails, EnterLost

---------------------------------------------------------------------------
(* Revisions are created once *)

\* A created revision stays created.
LEMMA UnbornShrinks ==
  ASSUME ProtocolInv, Next, NEW r \in Revision, Unborn(r)'
  PROVE  Unborn(r)
<1> USE ConstantsAssumption DEF ProtocolInv, TypeOK, redis, sql, scope, readers, Goto
<1> r[1] \in Invocations /\ r[2] \in Nat
  BY DEF Revision
<1>1. ASSUME UNCHANGED <<batches, batch>> PROVE Unborn(r)
  BY <1>1 DEF Unborn
<1>2. ASSUME NEW i \in Invocations, NEW c, NEW from, Send(i, from, c) PROVE Unborn(r)
  BY <1>2 DEF Send, Unborn
<1>3. ASSUME NEW i \in Invocations, ApplyBatch(i) PROVE Unborn(r)
  BY <1>3 DEF ApplyBatch, Batch, Unborn
<1>4. ASSUME NEW i \in Invocations, Lease(i) \/ Finish(i) PROVE Unborn(r)
  BY <1>1, <1>4 DEF Lease, Finish, Acquire, AcquireTimeout, Resolve, Reject, Drained,
     Leave, Release
<1>5. ASSUME NEW i \in Invocations, Scope(i) PROVE Unborn(r)
  BY <1>1, <1>2, <1>5 DEF Scope, ScopeClean, ScopeDirty, MarkRecovering, RecoveryLost,
     ClaimInsert, ClaimSelect, PublishClaim, ClaimFails, Enter, EnterLost, Leave, Release
<1>6. ASSUME NEW i \in Invocations, Read(i) PROVE Unborn(r)
  BY <1>1, <1>6 DEF Read, HashHit, HashMiss, SqlGet, Fill, FillLost
<1>7. ASSUME NEW i \in Invocations, Write(i) PROVE Unborn(r)
  BY <1>1, <1>2, <1>7 DEF Write, MarkDirty, SendBatch, MarkLost, WriteFails, Publish,
     PublishLost
<1>8. ASSUME NEW q \in Readers, ReadCached(q) PROVE Unborn(r)
  BY <1>1, <1>8 DEF ReadCached, ReadRevision, ReadItem, Validate
<1>9. ASSUME LeaseExpires \/ CacheExpires \/ \E q \in Revision : HashExpires(q) PROVE Unborn(r)
  BY <1>1, <1>9 DEF LeaseExpires, CacheExpires, HashExpires
<1> QED BY <1>3, <1>4, <1>5, <1>6, <1>7, <1>8, <1>9 DEF Next

\* The revision that an accepted batch created is no longer unborn; the one that a
\* batch in flight will create still is.
LEMMA BatchRevision ==
  ASSUME TypeOK, StageInv, NEW i \in Invocations
  PROVE  /\ batch[i].status \in {"ok", "stale"} =>
              batch[i].to \in Revision /\ ~Unborn(batch[i].to)
         /\ batch[i].status = "sent" => batch[i].to \in Revision /\ Unborn(batch[i].to)
<1>1. <<i, batches[i]>> \in Revision
  BY DEF TypeOK, Revision
<1>2. batch[i].status # "none" => batch[i].to = <<i, batches[i]>>
  BY DEF StageInv
<1>3. Unborn(<<i, batches[i]>>) <=> batch[i].status = "sent"
  BY ConstantsAssumption DEF TypeOK, Unborn
<1> QED BY <1>1, <1>2, <1>3

LEMMA BornStep ==
  ASSUME ProtocolInv, Next
  PROVE  BornInv'
<1> USE ConstantsAssumption DEF ProtocolInv, TypeOK, redis, sql, scope, readers, Goto
<1>0. \A r \in Revision : Unborn(r)' => Unborn(r)
  BY UnbornShrinks
<1>1. ASSUME UNCHANGED <<version, current, cache, rev, hash, batch>>,
             \A r \in Readers : rrev'[r] \in {rrev[r], NoRevision}
      PROVE  BornInv'
  BY <1>0, <1>1 DEF BornInv
<1>2. ASSUME UNCHANGED <<version, current, rev, hash, rrev, batch>>, cache'.state # "clean"
      PROVE  BornInv'
  BY <1>0, <1>2 DEF BornInv
<1>3. ASSUME NEW r \in Revision, HashExpires(r) PROVE BornInv'
  BY <1>0, <1>3 DEF HashExpires, BornInv
<1>4. ASSUME NEW i \in Invocations, ScopeClean(i) PROVE BornInv'
  BY <1>0, <1>4 DEF ScopeClean, BornInv
<1>5. ASSUME NEW i \in Invocations, ClaimInsert(i) PROVE BornInv'
  <2>1. CASE version # NoRevision
    BY <1>0, <1>5, <2>1 DEF ClaimInsert, BornInv
  <2>2. CASE version = NoRevision
    <3>1. <<i, 0>> \in Revision /\ ~Unborn(<<i, 0>>)
      BY <2>2 DEF BornInv, Unborn, Revision
    <3> QED BY <1>0, <1>5, <2>2, <3>1 DEF ClaimInsert, BornInv
  <2> QED BY <2>1, <2>2
<1>6. ASSUME NEW i \in Invocations, ClaimSelect(i) PROVE BornInv'
  <2>1. version # NoRevision
    BY <1>6 DEF ClaimSelect, StageInv
  <2> QED BY <1>0, <1>6, <2>1 DEF ClaimSelect, BornInv
<1>7. ASSUME NEW i \in Invocations, PublishClaim(i) PROVE BornInv'
  <2>1. batch[i].to \in Revision /\ ~Unborn(batch[i].to)
    BY <1>7, BatchRevision DEF PublishClaim
  <2>2. cache'.state = "clean" /\ cache'.id = batch[i].to
    BY <1>7 DEF PublishClaim, Clean
  <2> QED BY <1>0, <1>7, <2>1, <2>2 DEF PublishClaim, BornInv
<1>8. ASSUME NEW i \in Invocations, ApplyBatch(i) PROVE BornInv'
  <2>1. batch'[i].status \in {"ok", "stale"} /\ batch'[i].to = batch[i].to
    BY <1>8 DEF ApplyBatch, Batch
  <2>2. batch[i].to \in Revision /\ batch[i].to = <<i, batches[i]>>
    BY <1>8, BatchRevision DEF ApplyBatch, StageInv
  <2>3. \A r \in Revision : r = batch[i].to => ~Unborn(r)'
    BY <1>8, <2>1, <2>2 DEF Unborn, ApplyBatch
  <2>4. version # NoRevision
    BY <1>8 DEF BornInv, ApplyBatch
  <2>5. version' # NoRevision /\ version' \in current'
    BY <1>8, <2>2, <2>4 DEF ApplyBatch, BornInv
  <2>6. \A r \in current' : ~Unborn(r)'
    <3>1. \A r \in current' : r = batch[i].to \/ r \in current
      BY <1>8 DEF ApplyBatch
    <3>2. \A r \in current : r \in Revision /\ ~Unborn(r)
      BY DEF BornInv
    <3>3. \A r \in current : ~Unborn(r)'
      BY <1>0, <3>2
    <3> QED BY <2>2, <2>3, <3>1, <3>3
  <2> QED BY <1>0, <1>8, <2>4, <2>5, <2>6 DEF ApplyBatch, BornInv
<1>9. ASSUME NEW i \in Invocations, Fill(i) PROVE BornInv'
  <2>1. rev[i] # NoRevision /\ version # NoRevision /\ ~Unborn(rev[i])
    BY <1>9 DEF Fill, StageInv, BornInv
  <2> QED BY <1>0, <1>9, <2>1 DEF Fill, BornInv
<1>10. ASSUME NEW i \in Invocations, NEW c \in Changes, SendBatch(i, c) PROVE BornInv'
  <2>1. version # NoRevision
    BY <1>10 DEF SendBatch, StageInv, BornInv
  <2> QED BY <1>0, <1>10, <2>1 DEF SendBatch, BornInv
<1>11. ASSUME NEW i \in Invocations, Publish(i) \/ PublishLost(i) PROVE BornInv'
  <2>1. batch[i].to \in Revision /\ ~Unborn(batch[i].to)
    BY <1>11, BatchRevision DEF Publish, PublishLost, Committed
  <2>2. version # NoRevision
    BY <1>11 DEF Publish, PublishLost, Committed, BornInv
  <2>3. \A j \in Invocations : rev'[j] \in {rev[j], batch[i].to}
    BY <1>11 DEF Publish, PublishLost, Committed
  <2>4. \A r \in Revision : hash'[r] = hash[r] \/ hash'[r] = Empty \/ r = batch[i].to
    BY <1>11 DEF Publish, PublishLost
  <2>5. cache' = cache \/ (cache'.state = "clean" /\ cache'.id = batch[i].to)
    BY <1>11 DEF Publish, PublishLost, Clean
  <2>6. UNCHANGED <<version, current, rrev, batch>>
    BY <1>11 DEF Publish, PublishLost
  <2> QED BY <1>0, <2>1, <2>2, <2>3, <2>4, <2>5, <2>6 DEF BornInv
<1>12. ASSUME NEW r \in Readers, ReadRevision(r) PROVE BornInv'
  BY <1>0, <1>12 DEF ReadRevision, Fallback, BornInv
<1>13. ASSUME NEW i \in Invocations, MarkRecovering(i) \/ MarkDirty(i) PROVE BornInv'
  BY <1>2, <1>13 DEF MarkRecovering, MarkDirty, Dirty
<1>14. ASSUME CacheExpires PROVE BornInv'
  BY <1>2, <1>14 DEF CacheExpires, Missing
<1>15. ASSUME NEW r \in Readers, Validate(r) \/ \E k \in Keys : ReadItem(r, k) PROVE BornInv'
  BY <1>1, <1>15 DEF Validate, ReadItem, Fallback
<1> QED
  BY <1>1, <1>3, <1>4, <1>5, <1>6, <1>7, <1>8, <1>9, <1>10, <1>11, <1>12, <1>13, <1>14, <1>15
  DEF Next, Lease, Scope, Read, Write, Finish, ReadCached, LeaseExpires, Acquire,
      AcquireTimeout, Leave, Release, ScopeDirty, RecoveryLost, ClaimFails, Enter,
      EnterLost, HashHit, HashMiss, SqlGet, FillLost, MarkLost, WriteFails, Resolve,
      Reject, Drained

---------------------------------------------------------------------------
(* What each stage of an invocation knows *)

LEMMA StageStep ==
  ASSUME ProtocolInv, Next
  PROVE  StageInv'
<1> USE ConstantsAssumption DEF ProtocolInv, TypeOK, redis, sql, scope, readers, Goto
<1>1. ASSUME LeaseExpires \/ CacheExpires \/ \E r \in Revision : HashExpires(r) PROVE StageInv'
  BY <1>1 DEF LeaseExpires, CacheExpires, HashExpires, StageInv
<1>2. ASSUME NEW i \in Invocations, Acquire(i) PROVE StageInv'
  BY <1>2 DEF Acquire, StageInv
<1>3. ASSUME NEW i \in Invocations, Leave(i) PROVE StageInv'
  BY <1>3 DEF Leave, Release, StageInv
<1>4. ASSUME NEW i \in Invocations, ScopeClean(i) PROVE StageInv'
  <2>1. cache.id # NoRevision
    BY <1>4 DEF ScopeClean, BornInv
  <2> QED BY <1>4, <2>1 DEF ScopeClean, StageInv
<1>5. ASSUME NEW i \in Invocations, ScopeDirty(i) PROVE StageInv'
  BY <1>5 DEF ScopeDirty, StageInv
<1>6. ASSUME NEW i \in Invocations, MarkRecovering(i) PROVE StageInv'
  BY <1>6 DEF MarkRecovering, StageInv
<1>7. ASSUME NEW i \in Invocations, ClaimInsert(i) PROVE StageInv'
  <2>1. version' # NoRevision
    BY <1>7 DEF ClaimInsert, Revision
  <2> QED BY <1>7, <2>1 DEF ClaimInsert, StageInv
<1>8. ASSUME NEW i \in Invocations, ClaimSelect(i) PROVE StageInv'
  BY <1>8 DEF ClaimSelect, Send, NextRevision, StageInv
<1>9. ASSUME NEW i \in Invocations, PublishClaim(i) PROVE StageInv'
  <2>1. batch[i].to # NoRevision
    BY <1>9, BatchRevision DEF PublishClaim
  <2> QED BY <1>9, <2>1 DEF PublishClaim, StageInv
<1>10. ASSUME NEW i \in Invocations, Enter(i) PROVE StageInv'
  BY <1>10 DEF Enter, StageInv
<1>11. ASSUME NEW i \in Invocations, ApplyBatch(i) PROVE StageInv'
  <2>1. /\ batch'[i].status \in {"ok", "stale"} /\ batch'[i].to = batch[i].to
        /\ batch'[i].change = batch[i].change
        /\ \A j \in Invocations \ {i} : batch'[j] = batch[j]
    BY <1>11 DEF ApplyBatch, Batch
  <2>2. version # NoRevision => version' # NoRevision
    BY <1>11, BatchRevision DEF ApplyBatch
  <2> QED BY <1>11, <2>1, <2>2 DEF ApplyBatch, StageInv
<1>12. ASSUME NEW i \in Invocations, NEW f \in Field, HashHit(i, f) PROVE StageInv'
  BY <1>12 DEF HashHit, StageInv
<1>13. ASSUME NEW i \in Invocations, NEW f \in Field, HashMiss(i, f) PROVE StageInv'
  BY <1>13 DEF HashMiss, StageInv
<1>14. ASSUME NEW i \in Invocations, SqlGet(i) PROVE StageInv'
  <2>1. fetch[i].field \in Field
    BY <1>14 DEF SqlGet, StageInv
  <2>2. fetch'[i].field = fetch[i].field /\ fetch'[i].value \in FieldType(fetch[i].field)
    BY <1>14, <2>1, ViewType DEF SqlGet, Fetch
  <2> QED BY <1>14, <2>1, <2>2 DEF SqlGet, StageInv
<1>15. ASSUME NEW i \in Invocations, Fill(i) \/ FillLost(i) PROVE StageInv'
  BY <1>15 DEF Fill, FillLost, StageInv
<1>16. ASSUME NEW i \in Invocations, MarkDirty(i) PROVE StageInv'
  BY <1>16 DEF MarkDirty, StageInv
<1>17. ASSUME NEW i \in Invocations, NEW c \in Changes, SendBatch(i, c) PROVE StageInv'
  BY <1>17 DEF SendBatch, Send, NextRevision, StageInv
<1>18. ASSUME NEW i \in Invocations, MarkLost(i) \/ WriteFails(i) PROVE StageInv'
  BY <1>18 DEF MarkLost, WriteFails, Poison, StageInv
<1>19. ASSUME NEW i \in Invocations, Publish(i) \/ PublishLost(i) PROVE StageInv'
  <2>1. batch[i].to # NoRevision
    BY <1>19, BatchRevision DEF Publish, PublishLost, Committed
  <2>2. /\ pc[i] = "writing" /\ pc' = [pc EXCEPT ![i] = "running"] /\ Committed(i)
        /\ UNCHANGED <<sql, batches, batch, fetch, reply, readers>>
    BY <1>19 DEF Publish, PublishLost, Poison
  <2> QED BY <2>1, <2>2 DEF Committed, StageInv
<1>20. ASSUME NEW i \in Invocations, Resolve(i) \/ Reject(i) \/ Drained(i) PROVE StageInv'
  BY <1>20 DEF Resolve, Reject, Drained, Release, StageInv
<1>21. ASSUME NEW r \in Readers, ReadRevision(r) PROVE StageInv'
  BY <1>21 DEF ReadRevision, Fallback, BornInv, StageInv
<1>22. ASSUME NEW r \in Readers, NEW k \in Keys, ReadItem(r, k) PROVE StageInv'
  BY <1>22 DEF ReadItem, Fallback, StageInv
<1>23. ASSUME NEW r \in Readers, Validate(r) PROVE StageInv'
  BY <1>23 DEF Validate, Fallback, StageInv
<1> QED
  BY <1>1, <1>2, <1>3, <1>4, <1>5, <1>6, <1>7, <1>8, <1>9, <1>10, <1>11, <1>12, <1>13,
     <1>14, <1>15, <1>16, <1>17, <1>18, <1>19, <1>20, <1>21, <1>22, <1>23
  DEF Next, Lease, Scope, Read, Write, Finish, ReadCached,
      AcquireTimeout, RecoveryLost, ClaimFails, EnterLost

---------------------------------------------------------------------------
(* Copies of the present state agree with it *)

LEMMA CopyStep ==
  ASSUME ProtocolInv, Next
  PROVE  CopyInv'
<1> USE ConstantsAssumption DEF ProtocolInv, TypeOK, redis, sql, scope, readers, Goto
\* Nothing that CopyInv mentions moves except pc (away from "fill" and "writing").
<1>1. ASSUME UNCHANGED <<items, current, rev, memo, hash, batch, rpc, rrev, rval, fetch>>,
             \A i \in Invocations : pc'[i] \in {"fill", "writing"} => pc'[i] = pc[i]
      PROVE  CopyInv'
  BY <1>1 DEF CopyInv
<1>2. ASSUME NEW r \in Revision, HashExpires(r) PROVE CopyInv'
  BY <1>2, EmptyMemo DEF HashExpires, CopyInv
\* Pinning a revision: the memo is still empty.
<1>3. ASSUME NEW i \in Invocations, pc[i] \in {"scope", "select", "claiming"},
             \A j \in Invocations \ {i} : rev'[j] = rev[j] /\ batch'[j] = batch[j] /\ pc'[j] = pc[j],
             pc'[i] \in {"claiming", "enter"},
             UNCHANGED <<items, current, memo, hash, rpc, rrev, rval, fetch>>
      PROVE  CopyInv'
  <2>1. memo[i] = Empty
    BY <1>3 DEF StageInv
  <2> QED BY <1>3, <2>1, EmptyMemo DEF CopyInv
<1>4. ASSUME NEW i \in Invocations, ClaimInsert(i) PROVE CopyInv'
  <2>1. CASE version # NoRevision
    BY <1>1, <1>4, <2>1 DEF ClaimInsert
  <2>2. CASE version = NoRevision
    <3>1. \A r \in Revision : hash[r] = Empty
      BY <2>2 DEF BornInv
    <3>2. current' = {<<i, 0>>} /\ <<i, 0>> \in Revision
      BY <1>4, <2>2 DEF ClaimInsert, Revision
    <3>3. \A j \in Invocations : rev[j] \notin current' /\ batch[j].status = "none"
      BY <2>2, <3>2 DEF BornInv
    <3>4. \A r \in Readers : rrev[r] = NoRevision
      BY <2>2 DEF BornInv
    <3>5. \A r \in current' : Consistent(hash[r], items)
      BY <3>1, <3>2, EmptyMemo
    <3>6. \A r \in Readers : rpc[r] = "decode" => FALSE
      BY <3>4 DEF StageInv
    <3> QED BY <1>4, <3>3, <3>5, <3>6 DEF ClaimInsert, CopyInv
  <2> QED BY <2>1, <2>2
<1>5. ASSUME NEW i \in Invocations, ApplyBatch(i) PROVE CopyInv'
  <2> DEFINE b == batch[i]
  <2>0. /\ batch'[i].status \in {"ok", "stale"} /\ batch'[i].to = b.to
        /\ batch'[i].change = b.change
        /\ version # b.from => batch'[i].status = "stale"
        /\ \A j \in Invocations \ {i} : batch'[j] = batch[j]
    BY <1>5 DEF ApplyBatch, Batch
  <2>1. CASE version # b.from
    BY <1>5, <2>0, <2>1 DEF ApplyBatch, CopyInv
  <2>2. CASE version = b.from
    <3>1. /\ b.to \in Revision /\ Unborn(b.to) /\ b.to = <<i, batches[i]>>
          /\ b.change \in Change
      BY <1>5, BatchRevision DEF ApplyBatch, StageInv, Batch
    <3>2. rev[i] \in current /\ Consistent(memo[i], items)
      BY <1>5, <2>2 DEF ApplyBatch, StageInv, BornInv, CopyInv
    <3>3. Consistent(MemoAfter(memo[i], b.change), items')
      BY <1>5, <2>2, <3>1, <3>2, MemoAfterConsistent DEF ApplyBatch
    \* Nothing mentions the new revision yet.
    <3>4. /\ \A j \in Invocations : rev[j] # b.to
          /\ \A r \in Readers : rpc[r] = "decode" => rrev[r] # b.to
          /\ hash[b.to] = Empty
      <4>1. \A j \in Invocations : rev[j] # b.to
        BY <3>1 DEF BornInv
      <4>2. ASSUME NEW r \in Readers, rrev[r] = b.to PROVE FALSE
        BY <3>1, <4>2 DEF BornInv
      <4>3. hash[b.to] = Empty
        BY <3>1 DEF BornInv
      <4> QED BY <4>1, <4>2, <4>3
    <3>5. \A j \in Invocations \ {i} : batch[j].status # "none" => batch[j].to # b.to
      BY <3>1 DEF StageInv
    <3>6. CASE b.change = NoChange
      <4>1. items' = items /\ current' = current \cup {b.to}
        BY <1>5, <2>2, <3>6, NoChangeKeeps DEF ApplyBatch
      <4>2. \A r \in current' : Consistent(hash[r], items)
        BY <3>4, <4>1, EmptyMemo DEF CopyInv
      <4> QED BY <1>5, <2>0, <3>3, <3>4, <3>5, <4>1, <4>2 DEF ApplyBatch, CopyInv
    <3>7. CASE b.change # NoChange
      <4>1. current' = {b.to}
        BY <1>5, <2>2, <3>7 DEF ApplyBatch
      <4> QED BY <1>5, <2>0, <3>3, <3>4, <3>5, <4>1, EmptyMemo DEF ApplyBatch, CopyInv
    <3> QED BY <3>6, <3>7
  <2> QED BY <2>1, <2>2
<1>6. ASSUME NEW i \in Invocations, NEW f \in Field, HashHit(i, f) PROVE CopyInv'
  <2>1. ASSUME rev[i] \in current PROVE Consistent(Remember(memo[i], f, hash[rev[i]][f]), items)
    <3>1. hash[rev[i]][f] = View(f, items)
      BY <1>6, <2>1 DEF HashHit, CopyInv, Consistent
    <3> QED BY <2>1, <3>1, RememberConsistent DEF CopyInv
  <2> QED BY <1>6, <2>1 DEF HashHit, CopyInv
<1>7. ASSUME NEW i \in Invocations, NEW f \in Field, HashMiss(i, f) PROVE CopyInv'
  BY <1>7 DEF HashMiss, CopyInv
<1>8. ASSUME NEW i \in Invocations, SqlGet(i) PROVE CopyInv'
  <2>1. fetch'[i].value = View(fetch'[i].field, items)
    BY <1>8 DEF SqlGet, Fetch
  <2> QED BY <1>8, <2>1 DEF SqlGet, CopyInv
<1>9. ASSUME NEW i \in Invocations, Fill(i) \/ FillLost(i) PROVE CopyInv'
  <2> DEFINE f == fetch[i].field
             v == fetch[i].value
  <2>1. f \in Field /\ rev[i] \in Revision
    BY <1>9 DEF Fill, FillLost, StageInv
  <2>2. rev[i] \in current => v = View(f, items)
    BY <1>9 DEF Fill, FillLost, CopyInv
  <2>3. rev[i] \in current => Consistent(memo'[i], items)
    BY <1>9, <2>1, <2>2, RememberConsistent DEF Fill, FillLost, CopyInv
  <2>4. \A r \in current : Consistent(hash'[r], items)
    <3>1. ASSUME Fill(i), rev[i] \in current
          PROVE  Consistent([hash[rev[i]] EXCEPT ![f] = v], items)
      BY <2>1, <2>2, <3>1 DEF CopyInv, Consistent, Memo
    <3> QED BY <1>9, <3>1 DEF Fill, FillLost, CopyInv
  <2> QED BY <1>9, <2>3, <2>4 DEF Fill, FillLost, CopyInv
<1>10. ASSUME NEW i \in Invocations, NEW c \in Changes, SendBatch(i, c) PROVE CopyInv'
  BY <1>10 DEF SendBatch, Send, CopyInv
<1>11. ASSUME NEW i \in Invocations, Publish(i) \/ PublishLost(i) PROVE CopyInv'
  <2>1. /\ pc[i] = "writing" /\ pc' = [pc EXCEPT ![i] = "running"] /\ Committed(i)
        /\ UNCHANGED <<sql, batch, fetch, readers>>
    BY <1>11 DEF Publish, PublishLost, Poison
  <2>2. batch[i].to \in current => Consistent(memo'[i], items)
    BY <2>1 DEF Committed, CopyInv
  <2>3. rev'[i] = batch[i].to /\ \A j \in Invocations \ {i} : rev'[j] = rev[j] /\ memo'[j] = memo[j]
    BY <2>1 DEF Committed
  <2>4. \A r \in current : Consistent(hash'[r], items)
    <3>1. CASE Publish(i)
      <4>1. \A r \in Revision : hash'[r] = IF r = batch[i].to THEN memo'[i]
                                           ELSE IF r = rev[i] THEN Empty ELSE hash[r]
        BY <3>1 DEF Publish
      <4> QED BY <2>2, <4>1, EmptyMemo DEF CopyInv
    <3>2. CASE PublishLost(i)
      BY <3>2 DEF PublishLost, CopyInv
    <3> QED BY <1>11, <3>1, <3>2
  <2> QED BY <2>1, <2>2, <2>3, <2>4 DEF CopyInv
<1>12. ASSUME NEW r \in Readers, ReadRevision(r) \/ Validate(r) PROVE CopyInv'
  BY <1>12 DEF ReadRevision, Validate, Fallback, CopyInv
<1>13. ASSUME NEW r \in Readers, NEW k \in Keys, ReadItem(r, k) PROVE CopyInv'
  <2> DEFINE v == hash[rrev[r]][k]
  <2>1. rrev[r] \in Revision
    BY <1>13 DEF ReadItem, StageInv
  <2>2. v = Unfilled \/ v \in Item
    BY <2>1 DEF Memo, FieldType, Field
  <2>3. rrev[r] \in current /\ v # Unfilled => v = items[k]
    BY DEF CopyInv, Consistent, View, Field
  <2> QED BY <1>13, <2>2, <2>3 DEF ReadItem, Fallback, CopyInv
<1>14. ASSUME NEW i \in Invocations, ScopeClean(i) \/ ClaimSelect(i) \/ PublishClaim(i)
       PROVE  CopyInv'
  BY <1>3, <1>14 DEF ScopeClean, ClaimSelect, PublishClaim, Send
<1>15. ASSUME NEW i \in Invocations, Lease(i) \/ Finish(i) PROVE CopyInv'
  BY <1>1, <1>15 DEF Lease, Finish, Acquire, AcquireTimeout, Resolve, Reject, Drained,
     Leave, Release
<1>16. ASSUME NEW i \in Invocations,
              \/ ScopeDirty(i) \/ MarkRecovering(i) \/ RecoveryLost(i) \/ ClaimFails(i)
              \/ Enter(i) \/ EnterLost(i)
       PROVE  CopyInv'
  BY <1>1, <1>16 DEF ScopeDirty, MarkRecovering, RecoveryLost, ClaimFails, Enter,
     EnterLost, Leave, Release
<1>17. ASSUME NEW i \in Invocations, MarkDirty(i) \/ MarkLost(i) \/ WriteFails(i) PROVE CopyInv'
  BY <1>1, <1>17 DEF MarkDirty, MarkLost, WriteFails, Poison
<1>18. ASSUME LeaseExpires \/ CacheExpires PROVE CopyInv'
  BY <1>1, <1>18 DEF LeaseExpires, CacheExpires
<1> QED
  BY <1>2, <1>4, <1>5, <1>6, <1>7, <1>8, <1>9, <1>10, <1>11, <1>12, <1>13, <1>14, <1>15,
     <1>16, <1>17, <1>18
  DEF Next, Scope, Read, Write, ReadCached

---------------------------------------------------------------------------
(* The fence *)

\* Only MarkDirty turns an invocation into a threat.
LEMMA ThreatStep ==
  ASSUME ProtocolInv, Next, NEW j \in Invocations, Threat(j)'
  PROVE  Threat(j) \/ MarkDirty(j)
<1> USE ConstantsAssumption DEF ProtocolInv, TypeOK, redis, sql, scope, readers, Goto
<1>1. ASSUME UNCHANGED <<version, batch>>, pc'[j] = "marked" => pc[j] = "marked" /\ rev'[j] = rev[j]
      PROVE  Threat(j)
  BY <1>1 DEF Threat, Landable
<1>2. ASSUME NEW i \in Invocations, ClaimInsert(i) PROVE Threat(j)
  <2>1. CASE version # NoRevision
    BY <1>1, <1>2, <2>1 DEF ClaimInsert
  <2>2. CASE version = NoRevision
    BY <1>2, <2>2 DEF ClaimInsert, BornInv, StageInv, Threat, Landable
  <2> QED BY <2>1, <2>2
<1>3. ASSUME NEW i \in Invocations, ClaimSelect(i) PROVE Threat(j)
  <2>1. j # i
    BY <1>3 DEF ClaimSelect, Send, Threat, Landable
  <2> QED BY <1>3, <2>1 DEF ClaimSelect, Send, Threat, Landable
<1>4. ASSUME NEW i \in Invocations, ApplyBatch(i) PROVE Threat(j)
  <2>1. batch'[i].status # "sent" /\ \A k \in Invocations \ {i} : batch'[k] = batch[k]
    BY <1>4 DEF ApplyBatch, Batch
  <2>2. CASE version # batch[i].from
    BY <1>4, <2>1, <2>2 DEF ApplyBatch, Threat, Landable
  <2>3. CASE version = batch[i].from
    <3>1. version' \in Revision /\ Unborn(version')
      BY <1>4, <2>3, BatchRevision DEF ApplyBatch
    <3>2. rev[j] # version'
      BY <3>1 DEF BornInv
    <3>3. batch[j].status = "sent" => batch[j].from # version'
      BY <3>2 DEF StageInv
    <3> QED BY <1>4, <2>1, <3>2, <3>3 DEF ApplyBatch, Threat, Landable
  <2> QED BY <2>2, <2>3
<1>5. ASSUME NEW i \in Invocations, NEW c \in Changes, SendBatch(i, c) PROVE Threat(j)
  <2>1. CASE j = i
    BY <1>5, <2>1 DEF SendBatch, Send, Threat, Landable
  <2>2. CASE j # i
    BY <1>5, <2>2 DEF SendBatch, Send, Threat, Landable
  <2> QED BY <2>1, <2>2
<1>6. ASSUME NEW i \in Invocations, MarkDirty(i), i # j PROVE Threat(j)
  BY <1>1, <1>6 DEF MarkDirty
<1>7. ASSUME NEW i \in Invocations, Lease(i) \/ Finish(i) PROVE Threat(j)
  BY <1>1, <1>7 DEF Lease, Finish, Acquire, AcquireTimeout, Resolve, Reject, Drained,
     Leave, Release
<1>8. ASSUME NEW i \in Invocations,
             \/ ScopeClean(i) \/ ScopeDirty(i) \/ MarkRecovering(i) \/ RecoveryLost(i)
             \/ PublishClaim(i) \/ ClaimFails(i) \/ Enter(i) \/ EnterLost(i)
      PROVE  Threat(j)
  BY <1>1, <1>8 DEF ScopeClean, ScopeDirty, MarkRecovering, RecoveryLost, PublishClaim,
     ClaimFails, Enter, EnterLost, Leave, Release
<1>9. ASSUME NEW i \in Invocations, Read(i) PROVE Threat(j)
  BY <1>1, <1>9 DEF Read, HashHit, HashMiss, SqlGet, Fill, FillLost
<1>10. ASSUME NEW i \in Invocations, MarkLost(i) \/ WriteFails(i) \/ Publish(i) \/ PublishLost(i)
       PROVE  Threat(j)
  BY <1>1, <1>10 DEF MarkLost, WriteFails, Publish, PublishLost, Poison, Committed
<1>11. ASSUME \/ LeaseExpires \/ CacheExpires \/ \E r \in Revision : HashExpires(r)
              \/ \E r \in Readers : ReadCached(r)
       PROVE  Threat(j)
  BY <1>1, <1>11 DEF LeaseExpires, CacheExpires, HashExpires, ReadCached, ReadRevision,
     ReadItem, Validate
<1> QED
  BY <1>2, <1>3, <1>4, <1>5, <1>6, <1>7, <1>8, <1>9, <1>10, <1>11 DEF Next, Scope, Write

\* Only a threat that lands makes the present revisions stale.
LEMMA CurrentStep ==
  ASSUME ProtocolInv, Next, \A j \in Invocations : ~Threat(j)
  PROVE  current \subseteq current'
<1> USE ConstantsAssumption DEF ProtocolInv, TypeOK, redis, sql, scope, readers, Goto
<1>1. ASSUME NEW i \in Invocations, ClaimInsert(i) PROVE current \subseteq current'
  BY <1>1 DEF ClaimInsert, BornInv
<1>2. ASSUME NEW i \in Invocations, ApplyBatch(i) PROVE current \subseteq current'
  BY <1>2 DEF ApplyBatch, Threat, Landable
<1>3. ASSUME NEW i \in Invocations, Lease(i) \/ Finish(i) PROVE current' = current
  BY <1>3 DEF Lease, Finish, Acquire, AcquireTimeout, Resolve, Reject, Drained, Leave, Release
<1>4. ASSUME NEW i \in Invocations, Scope(i) PROVE ClaimInsert(i) \/ current' = current
  BY <1>4 DEF Scope, ScopeClean, ScopeDirty, MarkRecovering, RecoveryLost, ClaimSelect,
     PublishClaim, ClaimFails, Enter, EnterLost, Leave, Release
<1>5. ASSUME NEW i \in Invocations, Read(i) \/ Write(i) PROVE current' = current
  BY <1>5 DEF Read, HashHit, HashMiss, SqlGet, Fill, FillLost, Write, MarkDirty, SendBatch,
     MarkLost, WriteFails, Publish, PublishLost
<1>6. ASSUME \/ LeaseExpires \/ CacheExpires \/ \E r \in Revision : HashExpires(r)
             \/ \E r \in Readers : ReadCached(r)
      PROVE  current' = current
  BY <1>6 DEF LeaseExpires, CacheExpires, HashExpires, ReadCached, ReadRevision,
     ReadItem, Validate
<1> QED BY <1>1, <1>2, <1>3, <1>4, <1>5, <1>6 DEF Next

\* The cache becomes clean only when an accepted batch is published.
LEMMA CleanStep ==
  ASSUME ProtocolInv, Next, cache' # cache, cache'.state = "clean"
  PROVE  \E i \in Invocations : Publishable(i) /\ cache' = Clean(batch[i].to)
<1> USE ConstantsAssumption DEF ProtocolInv, TypeOK, redis, sql, scope, readers, Goto
<1>1. ASSUME NEW i \in Invocations, PublishClaim(i) \/ Publish(i)
      PROVE  Publishable(i) /\ cache' = Clean(batch[i].to)
  BY <1>1 DEF PublishClaim, Publish, Publishable, Committed, Guarded
<1>2. ~CacheExpires
  BY DEF CacheExpires, Missing
<1>3. \A i \in Invocations : ~MarkRecovering(i) /\ ~MarkDirty(i)
  BY DEF MarkRecovering, MarkDirty, Dirty
<1>4. ASSUME NEW i \in Invocations, Lease(i) \/ Finish(i) PROVE FALSE
  BY <1>4 DEF Lease, Finish, Acquire, AcquireTimeout, Resolve, Reject, Drained, Leave, Release
<1>5. ASSUME NEW i \in Invocations, Scope(i) PROVE PublishClaim(i)
  BY <1>3, <1>5 DEF Scope, ScopeClean, ScopeDirty, RecoveryLost, ClaimInsert, ClaimSelect,
     ClaimFails, Enter, EnterLost, Leave, Release
<1>6. ASSUME NEW i \in Invocations, Read(i) \/ ApplyBatch(i) PROVE FALSE
  BY <1>6 DEF Read, HashHit, HashMiss, SqlGet, Fill, FillLost, ApplyBatch
<1>7. ASSUME NEW i \in Invocations, Write(i) PROVE Publish(i)
  BY <1>3, <1>7 DEF Write, SendBatch, MarkLost, WriteFails, PublishLost
<1>8. ~(\/ LeaseExpires \/ \E r \in Revision : HashExpires(r)
        \/ \E q \in Readers : ReadCached(q))
  BY DEF LeaseExpires, HashExpires, ReadCached, ReadRevision, ReadItem, Validate
<1> QED BY <1>1, <1>2, <1>4, <1>5, <1>6, <1>7, <1>8 DEF Next

\* A batch becomes publishable only when the database accepts it, which leaves no
\* threat: whoever pinned an earlier revision is fenced.
LEMMA PublishableStep ==
  ASSUME ProtocolInv, Next, NEW i \in Invocations, Publishable(i)', ~Publishable(i)
  PROVE  batch'[i].to \in current' /\ \A j \in Invocations : ~Threat(j)'
<1> USE ConstantsAssumption DEF ProtocolInv, TypeOK, redis, sql, scope, readers, Goto
<1>1. CASE ApplyBatch(i)
  <2>1. version = batch[i].from
    BY <1>1 DEF ApplyBatch, Batch, Publishable
  <2>2. batch'[i].to = batch[i].to /\ batch[i].to \in current' /\ version' = batch[i].to
    BY <1>1, <2>1 DEF ApplyBatch, Batch
  <2>3. version' \in Revision /\ Unborn(version')
    BY <1>1, <2>2, BatchRevision DEF ApplyBatch
  <2>4. ASSUME NEW j \in Invocations PROVE ~Threat(j)'
    <3>1. rev[j] # version'
      BY <2>3 DEF BornInv
    <3>2. batch[j].status = "sent" => batch[j].from # version'
      BY <3>1 DEF StageInv
    <3>3. batch'[j] = batch[j] \/ batch'[j].status # "sent"
      BY <1>1 DEF ApplyBatch, Batch
    <3> QED BY <1>1, <3>1, <3>2, <3>3 DEF ApplyBatch, Threat, Landable
  <2> QED BY <2>2, <2>4
<1>2. CASE ~ApplyBatch(i)
  <2>1. ASSUME pc'[i] \in {"claiming", "writing"} => pc[i] = pc'[i], batch'[i] = batch[i], cache' = cache
        PROVE  FALSE
    BY <2>1 DEF Publishable
  <2>2. ASSUME pc'[i] \notin {"claiming", "writing"} PROVE FALSE
    BY <2>2 DEF Publishable
  <2>3. ASSUME batch'[i].status # "ok" PROVE FALSE
    BY <2>3 DEF Publishable
  <2>4. ASSUME NEW k \in Invocations, MarkRecovering(k) \/ MarkDirty(k) PROVE FALSE
    <3>1. CASE k = i
      BY <2>2, <2>4, <3>1 DEF MarkRecovering, MarkDirty
    <3>2. CASE k # i
      <4>1. cache'.id = <<k, batches[k] + 1>> /\ batch' = batch
        BY <2>4 DEF MarkRecovering, MarkDirty, Dirty, NextRevision
      <4>2. batch[i].to = <<i, batches[i]>>
        BY <4>1 DEF Publishable, StageInv
      <4>3. cache' = Dirty(batch[i].to)
        BY <4>1 DEF Publishable
      <4> QED BY <3>2, <4>1, <4>2, <4>3 DEF Dirty
    <3> QED BY <3>1, <3>2
  <2>5. ASSUME cache' = Missing \/ cache'.state = "clean" PROVE FALSE
    BY <2>5 DEF Publishable, Dirty, Missing
  <2>6. ASSUME NEW k \in Invocations, Lease(k) \/ Finish(k) PROVE FALSE
    BY <2>1, <2>6 DEF Lease, Finish, Acquire, AcquireTimeout, Resolve, Reject, Drained,
       Leave, Release
  <2>7. ASSUME NEW k \in Invocations, Scope(k) PROVE FALSE
    <3>1. CASE PublishClaim(k)
      BY <2>5, <3>1 DEF PublishClaim, Clean
    <3>2. CASE ClaimSelect(k)
      <4>1. CASE k = i
        BY <2>3, <3>2, <4>1 DEF ClaimSelect, Send
      <4>2. CASE k # i
        BY <2>1, <3>2, <4>2 DEF ClaimSelect, Send
      <4> QED BY <4>1, <4>2
    <3>3. CASE \/ ScopeClean(k) \/ ScopeDirty(k) \/ RecoveryLost(k) \/ ClaimInsert(k)
               \/ ClaimFails(k) \/ Enter(k) \/ EnterLost(k)
      BY <2>1, <3>3 DEF ScopeClean, ScopeDirty, RecoveryLost, ClaimInsert, ClaimFails,
         Enter, EnterLost, Leave, Release
    <3> QED BY <2>4, <2>7, <3>1, <3>2, <3>3 DEF Scope
  <2>8. ASSUME NEW k \in Invocations, Read(k) PROVE FALSE
    BY <2>1, <2>8 DEF Read, HashHit, HashMiss, SqlGet, Fill, FillLost
  <2>9. ASSUME NEW k \in Invocations, ApplyBatch(k) PROVE FALSE
    <3>1. k # i
      BY <1>2, <2>9
    <3> QED BY <2>1, <2>9, <3>1 DEF ApplyBatch
  <2>10. ASSUME NEW k \in Invocations, Write(k) PROVE FALSE
    <3>1. CASE Publish(k)
      BY <2>5, <3>1 DEF Publish, Clean
    <3>2. CASE \E c \in Changes : SendBatch(k, c)
      <4>1. CASE k = i
        BY <2>3, <3>2, <4>1 DEF SendBatch, Send
      <4>2. CASE k # i
        BY <2>1, <3>2, <4>2 DEF SendBatch, Send
      <4> QED BY <4>1, <4>2
    <3>3. CASE MarkLost(k) \/ WriteFails(k) \/ PublishLost(k)
      BY <2>1, <3>3 DEF MarkLost, WriteFails, PublishLost, Poison
    <3> QED BY <2>4, <2>10, <3>1, <3>2, <3>3 DEF Write
  <2>11. ~(\/ LeaseExpires \/ CacheExpires \/ \E r \in Revision : HashExpires(r)
           \/ \E r \in Readers : ReadCached(r))
    BY <2>1, <2>5 DEF LeaseExpires, CacheExpires, HashExpires, ReadCached, ReadRevision,
       ReadItem, Validate
  <2> QED BY <2>6, <2>7, <2>8, <2>9, <2>10, <2>11 DEF Next
<1> QED BY <1>1, <1>2

\* A lease holder settles at the revision it pins or publishes.
LEMMA SettledStep ==
  ASSUME ProtocolInv, Next, NEW i \in Invocations, Settled(i)'
  PROVE  \/ Settled(i) /\ rev'[i] = rev[i]
         \/ cache.state = "clean" /\ rev'[i] = cache.id
         \/ Publishable(i) /\ rev'[i] = batch[i].to
<1> USE ConstantsAssumption DEF ProtocolInv, TypeOK, redis, sql, scope, readers, Goto, Settled
<1>1. ASSUME UNCHANGED <<rev, poisoned>>, lease'= i => lease = i,
             pc'[i] \in {"enter", "running", "sqlget", "fill"} =>
                pc[i] \in {"enter", "running", "sqlget", "fill"}
      PROVE  Settled(i) /\ rev'[i] = rev[i]
  BY <1>1
<1>2. ASSUME NEW k \in Invocations, Lease(k) \/ Finish(k) PROVE Settled(i) /\ rev'[i] = rev[i]
  BY <1>1, <1>2 DEF Lease, Finish, Acquire, AcquireTimeout, Resolve, Reject, Drained,
     Leave, Release
<1>3. ASSUME NEW k \in Invocations, ScopeClean(k)
      PROVE  (Settled(i) /\ rev'[i] = rev[i]) \/ (cache.state = "clean" /\ rev'[i] = cache.id)
  <2>1. CASE k = i
    BY <1>3, <2>1 DEF ScopeClean
  <2>2. CASE k # i
    <3>1. pc'[i] = pc[i] /\ rev'[i] = rev[i] /\ UNCHANGED <<lease, poisoned>>
      BY <1>3, <2>2 DEF ScopeClean
    <3> QED BY <3>1
  <2> QED BY <2>1, <2>2
<1>4. ASSUME NEW k \in Invocations, PublishClaim(k)
      PROVE  (Settled(i) /\ rev'[i] = rev[i]) \/ (Publishable(i) /\ rev'[i] = batch[i].to)
  BY <1>4 DEF PublishClaim, Publishable
<1>5. ASSUME NEW k \in Invocations,
             \/ ScopeDirty(k) \/ MarkRecovering(k) \/ RecoveryLost(k) \/ ClaimInsert(k)
             \/ ClaimFails(k) \/ Enter(k) \/ EnterLost(k)
      PROVE  Settled(i) /\ rev'[i] = rev[i]
  BY <1>1, <1>5 DEF ScopeDirty, MarkRecovering, RecoveryLost, ClaimInsert, ClaimFails,
     Enter, EnterLost, Leave, Release
<1>6. ASSUME NEW k \in Invocations, ClaimSelect(k) PROVE Settled(i) /\ rev'[i] = rev[i]
  BY <1>6 DEF ClaimSelect
<1>7. ASSUME NEW k \in Invocations, Read(k) \/ ApplyBatch(k) PROVE Settled(i) /\ rev'[i] = rev[i]
  BY <1>1, <1>7 DEF Read, HashHit, HashMiss, SqlGet, Fill, FillLost, ApplyBatch
<1>8. ASSUME NEW k \in Invocations, MarkDirty(k) \/ \E c \in Changes : SendBatch(k, c)
      PROVE  Settled(i) /\ rev'[i] = rev[i]
  BY <1>1, <1>8 DEF MarkDirty, SendBatch
<1>9. ASSUME NEW k \in Invocations, MarkLost(k) \/ WriteFails(k) PROVE Settled(i) /\ rev'[i] = rev[i]
  BY <1>9 DEF MarkLost, WriteFails, Poison
<1>10. ASSUME NEW k \in Invocations, Publish(k)
       PROVE  (Settled(i) /\ rev'[i] = rev[i]) \/ (Publishable(i) /\ rev'[i] = batch[i].to)
  BY <1>10 DEF Publish, Publishable, Committed, Guarded
<1>11. ASSUME NEW k \in Invocations, PublishLost(k) PROVE Settled(i) /\ rev'[i] = rev[i]
  BY <1>11 DEF PublishLost, Committed, Poison
<1>12. ASSUME \/ LeaseExpires \/ CacheExpires \/ \E r \in Revision : HashExpires(r)
              \/ \E r \in Readers : ReadCached(r)
       PROVE  Settled(i) /\ rev'[i] = rev[i]
  BY <1>1, <1>12 DEF LeaseExpires, CacheExpires, HashExpires, ReadCached, ReadRevision,
     ReadItem, Validate
<1> QED
  BY <1>2, <1>3, <1>4, <1>5, <1>6, <1>7, <1>8, <1>9, <1>10, <1>11, <1>12 DEF Next, Scope, Write

\* An invocation that waits for a batch sends no other.
LEMMA NoSecondBatch ==
  ASSUME ProtocolInv, Next, NEW i \in Invocations, pc[i] \in {"claiming", "writing"}
  PROVE  batches'[i] = batches[i]
<1> USE DEF ProtocolInv, TypeOK, redis, sql, scope, readers, Goto
<1>1. ASSUME NEW k \in Invocations, Lease(k) \/ Finish(k) PROVE batches' = batches
  BY <1>1 DEF Lease, Finish, Acquire, AcquireTimeout, Resolve, Reject, Drained, Leave, Release
<1>2. ASSUME NEW k \in Invocations, Scope(k) PROVE ClaimSelect(k) \/ batches' = batches
  BY <1>2 DEF Scope, ScopeClean, ScopeDirty, MarkRecovering, RecoveryLost, ClaimInsert,
     PublishClaim, ClaimFails, Enter, EnterLost, Leave, Release
<1>3. ASSUME NEW k \in Invocations, ClaimSelect(k) PROVE batches'[i] = batches[i]
  BY <1>3 DEF ClaimSelect, Send
<1>4. ASSUME NEW k \in Invocations, Read(k) \/ ApplyBatch(k) PROVE batches' = batches
  BY <1>4 DEF Read, HashHit, HashMiss, SqlGet, Fill, FillLost, ApplyBatch
<1>5. ASSUME NEW k \in Invocations, Write(k)
      PROVE  (\E c \in Changes : SendBatch(k, c)) \/ batches' = batches
  BY <1>5 DEF Write, MarkDirty, MarkLost, WriteFails, Publish, PublishLost
<1>6. ASSUME NEW k \in Invocations, NEW c \in Changes, SendBatch(k, c) PROVE batches'[i] = batches[i]
  BY <1>6 DEF SendBatch, Send
<1>7. ASSUME \/ LeaseExpires \/ CacheExpires \/ \E r \in Revision : HashExpires(r)
             \/ \E r \in Readers : ReadCached(r)
      PROVE  batches' = batches
  BY <1>7 DEF LeaseExpires, CacheExpires, HashExpires, ReadCached, ReadRevision,
     ReadItem, Validate
<1> QED BY <1>1, <1>2, <1>3, <1>4, <1>5, <1>6, <1>7 DEF Next

LEMMA FenceStep ==
  ASSUME ProtocolInv, Next
  PROVE  FenceInv'
<1> DEFINE Calm == \A j \in Invocations : ~Threat(j)
\* Marking needs the lease and a clean key, and leaves neither a clean key, nor a
\* publishable batch, nor a settled holder.
<1>1. ASSUME NEW j \in Invocations, MarkDirty(j) PROVE FenceInv'
  <2>1. cache' = Dirty(NextRevision(j)) /\ pc' = [pc EXCEPT ![j] = "marked"]
        /\ lease = j /\ lease' = j /\ batch' = batch
    BY <1>1 DEF MarkDirty, Goto, Guarded, scope
  <2>2. cache'.state # "clean"
    BY <2>1 DEF Dirty
  <2>3. ASSUME NEW i \in Invocations PROVE ~Publishable(i)'
    <3>1. CASE i = j
      BY <2>1, <3>1 DEF Publishable, ProtocolInv, TypeOK
    <3>2. CASE i # j
      <4>1. batch[i].status = "ok" => batch[i].to = <<i, batches[i]>>
        BY DEF ProtocolInv, StageInv
      <4> QED BY <2>1, <3>2, <4>1 DEF Publishable, Dirty, NextRevision
    <3> QED BY <3>1, <3>2
  <2>4. ASSUME NEW i \in Invocations PROVE ~Settled(i)'
    BY <2>1 DEF Settled, ProtocolInv, TypeOK
  <2> QED BY <2>2, <2>3, <2>4 DEF FenceInv
<1>2. ASSUME \A j \in Invocations : ~MarkDirty(j) PROVE FenceInv'
  <2>1. Calm => Calm'
    BY <1>2, ThreatStep
  <2>2. Calm => current \subseteq current'
    BY CurrentStep
  <2>3. ASSUME NEW i \in Invocations, Publishable(i)
        PROVE  Calm /\ batch[i].to \in current
    BY <2>3 DEF ProtocolInv, FenceInv
  <2>4. ASSUME cache'.state = "clean" PROVE cache'.id \in current' /\ Calm'
    <3>1. CASE cache' = cache
      BY <2>1, <2>2, <2>4, <3>1 DEF ProtocolInv, FenceInv
    <3>2. CASE cache' # cache
      <4>1. PICK i \in Invocations : Publishable(i) /\ cache' = Clean(batch[i].to)
        BY <2>4, <3>2, CleanStep
      <4>2. cache'.id = batch[i].to
        BY <4>1 DEF Clean
      <4> QED BY <2>1, <2>2, <2>3, <4>1, <4>2
    <3> QED BY <3>1, <3>2
  <2>5. ASSUME NEW i \in Invocations, Publishable(i)' PROVE batch'[i].to \in current' /\ Calm'
    <3>1. CASE ~Publishable(i)
      BY <2>5, <3>1, PublishableStep
    <3>2. CASE Publishable(i)
      <4>1. batch[i].to = <<i, batches[i]>> /\ batch'[i].to = <<i, batches'[i]>>
        BY <2>5, <3>2, StageStep DEF Publishable, ProtocolInv, StageInv
      <4>2. batch'[i].to = batch[i].to
        BY <3>2, <4>1, NoSecondBatch DEF Publishable
      <4> QED BY <2>1, <2>2, <2>3, <3>2, <4>2
    <3> QED BY <3>1, <3>2
  <2>6. ASSUME NEW i \in Invocations, Settled(i)' PROVE rev'[i] \in current' /\ Calm'
    <3>1. CASE Settled(i) /\ rev'[i] = rev[i]
      BY <2>1, <2>2, <3>1 DEF ProtocolInv, FenceInv
    <3>2. CASE cache.state = "clean" /\ rev'[i] = cache.id
      BY <2>1, <2>2, <3>2 DEF ProtocolInv, FenceInv
    <3>3. CASE Publishable(i) /\ rev'[i] = batch[i].to
      BY <2>1, <2>2, <2>3, <3>3
    <3> QED BY <2>6, <3>1, <3>2, <3>3, SettledStep
  <2> QED BY <2>4, <2>5, <2>6 DEF FenceInv
<1> QED BY <1>1, <1>2

---------------------------------------------------------------------------
(* The theorems *)

\* The cache protocol of durableScope, CachedObjectScope and SqlObjectBackend keeps
\* its invariant whatever leases expire, processes die and batches arrive late.
THEOREM ProtocolInvariant == Spec => []ProtocolInv
<1>1. Init => ProtocolInv
  <2> SUFFICES ASSUME Init PROVE ProtocolInv
    OBVIOUS
  <2>1. TypeOK
    <3>1. Idle \in Batch
      BY NoChangeKeeps DEF Batch, Idle
    <3>2. NoFetch \in Fetch
      BY DEF Fetch, NoFetch
    <3>3. [k \in Keys |-> Null] \in [Keys -> Item]
      BY DEF Item
    <3> QED BY <3>1, <3>2, <3>3, ConstantsAssumption, CacheKeys, EmptyMemo DEF Init, TypeOK
  <2>2. BornInv
    BY DEF Init, BornInv, Missing, Idle
  <2>3. StageInv
    BY DEF Init, StageInv, Idle
  <2>4. CopyInv
    BY DEF Init, CopyInv, Idle
  <2>5. FenceInv
    BY DEF Init, FenceInv, Missing, Publishable, Settled
  <2> QED BY <2>1, <2>2, <2>3, <2>4, <2>5 DEF ProtocolInv
<1>2. ProtocolInv /\ [Next]_vars => ProtocolInv'
  <2>1. ASSUME ProtocolInv, Next PROVE ProtocolInv'
    BY <2>1, TypeStep, BornStep, StageStep, CopyStep, FenceStep DEF ProtocolInv
  <2>2. ASSUME ProtocolInv, UNCHANGED vars PROVE ProtocolInv'
    BY <2>2 DEF vars, redis, sql, scope, readers, ProtocolInv, TypeOK, BornInv, StageInv,
       CopyInv, FenceInv, Unborn, Threat, Landable, Publishable, Settled
  <2> QED BY <2>1, <2>2
<1> QED BY <1>1, <1>2, PTL DEF Spec

\* The state of the lease, the cache, the fence and the scopes stays well formed.
THEOREM TypeCorrect == Spec => []TypeOK
<1>1. ProtocolInv => TypeOK
  BY DEF ProtocolInv
<1> QED BY <1>1, ProtocolInvariant, PTL

\* A clean cache key is never stale: readCached and durableScope may trust it.
THEOREM CleanCache == Spec => []CleanCacheIsCurrent
<1>1. ProtocolInv => CleanCacheIsCurrent
  BY DEF ProtocolInv, FenceInv, CopyInv, CleanCacheIsCurrent
<1> QED BY <1>1, ProtocolInvariant, PTL

\* Under a clean cache key the SQL fence rejects every delayed change.
THEOREM Fenced == Spec => []DelayedWritesAreFenced
<1>1. ProtocolInv => DelayedWritesAreFenced
  BY DEF ProtocolInv, FenceInv, Threat, DelayedWritesAreFenced
<1> QED BY <1>1, ProtocolInvariant, PTL

---------------------------------------------------------------------------
(* CachedObject implements ObjectContract *)

LEMMA ContractStep ==
  ASSUME ProtocolInv, ProtocolInv', Next
  PROVE  Contract!Next \/ UNCHANGED Contract!vars
<1> USE ConstantsAssumption DEF ProtocolInv, TypeOK, redis, sql, scope, readers, Goto
<1> DEFINE served == [r \in Readers |-> IF rpc[r] = "served" THEN rval[r] ELSE Unfilled]
\* Steps that the contract does not see.
<1>1. ASSUME UNCHANGED <<items, memo, poisoned, reply, rpc, rval>>
      PROVE  UNCHANGED Contract!vars
  BY <1>1 DEF Contract!vars
\* Steps on what one invocation knows.
<1>2. ASSUME NEW i \in Invocations, \A j \in Invocations \ {i} : memo'[j] = memo[j],
             poisoned' = poisoned \/ poisoned' = [poisoned EXCEPT ![i] = TRUE],
             UNCHANGED <<items, reply, rpc, rval>>
      PROVE  Contract!Next
  <2>1. Contract!Observe(i)
    BY <1>2 DEF Contract!Observe
  <2> QED BY <2>1 DEF Contract!Next
\* Answers.
<1>3. ASSUME NEW i \in Invocations, reply[i] = "none", reply' = [reply EXCEPT ![i] = "error"],
             UNCHANGED <<items, memo, poisoned, rpc, rval>>
      PROVE  Contract!Next
  <2>1. Contract!Answer(i)
    BY <1>3 DEF Contract!Answer
  <2> QED BY <2>1 DEF Contract!Next
<1>4. ASSUME NEW i \in Invocations, Resolve(i) PROVE Contract!Next
  <2>1. ASSUME ~poisoned[i] PROVE Contract!Consistent(memo[i], items)
    <3>1. Settled(i)
      BY <1>4, <2>1 DEF Resolve, Settled
    <3>2. Consistent(memo[i], items)
      BY <3>1 DEF FenceInv, CopyInv
    <3> QED BY <3>2 DEF Consistent, Contract!Consistent
  <2>2. Contract!Answer(i)
    BY <1>4, <2>1 DEF Resolve, Contract!Answer
  <2> QED BY <2>2 DEF Contract!Next
\* The database.
<1>5. ASSUME NEW i \in Invocations, ApplyBatch(i) PROVE Contract!Next \/ UNCHANGED Contract!vars
  <2>1. CASE version # batch[i].from
    BY <1>1, <1>5, <2>1 DEF ApplyBatch
  <2>2. CASE version = batch[i].from
    <3>1. rev[i] \in current
      BY <1>5, <2>2 DEF ApplyBatch, StageInv, BornInv
    <3>2. Contract!Consistent(memo[i], items)
      BY <3>1 DEF CopyInv, Consistent, Contract!Consistent
    <3>3. batch[i].change \in Changes \cup {NoChange}
      BY <1>5 DEF ApplyBatch, StageInv
    <3>4. Contract!Commit(i, batch[i].change)
      BY <1>5, <2>2, <3>2 DEF ApplyBatch, Contract!Commit
    <3> QED BY <3>3, <3>4 DEF Contract!Next
  <2> QED BY <2>1, <2>2
\* Readers.
<1>6. ASSUME NEW r \in Readers, Validate(r) PROVE Contract!Next \/ UNCHANGED Contract!vars
  <2>1. CASE cache # Clean(rrev[r])
    <3>1. served' = served
      BY <1>6, <2>1 DEF Validate, Fallback
    <3> QED BY <1>6, <3>1 DEF Validate, Contract!vars
  <2>2. CASE cache = Clean(rrev[r])
    <3>1. rrev[r] \in current
      BY <2>2 DEF FenceInv, Clean
    <3>2. PICK k \in Keys : rval[r] = <<k, items[k]>>
      BY <1>6, <3>1 DEF Validate, CopyInv
    <3>3. served[r] = Unfilled /\ served' = [served EXCEPT ![r] = <<k, items[k]>>]
      <4>1. rpc[r] = "decode" /\ rpc' = [rpc EXCEPT ![r] = "served"] /\ rval' = rval
        BY <1>6, <2>2 DEF Validate
      <4>2. served' = [q \in Readers |-> IF q = r THEN <<k, items[k]>> ELSE served[q]]
        BY <3>2, <4>1
      <4> QED BY <4>1, <4>2
    <3>4. Contract!Serve(r, k)
      BY <1>6, <2>2, <3>3 DEF Validate, Contract!Serve
    <3> QED BY <3>4 DEF Contract!Next
  <2> QED BY <2>1, <2>2
<1>7. ASSUME NEW r \in Readers, ReadRevision(r) \/ \E k \in Keys : ReadItem(r, k)
      PROVE  UNCHANGED Contract!vars
  <2>1. served' = served
    BY <1>7 DEF ReadRevision, ReadItem, Fallback
  <2> QED BY <1>7, <2>1 DEF ReadRevision, ReadItem, Contract!vars
<1>8. ASSUME NEW i \in Invocations, Leave(i), reply[i] = "none" PROVE Contract!Next
  BY <1>3, <1>8 DEF Leave, Release
<1>9. ASSUME NEW i \in Invocations, Scope(i) PROVE Contract!Next \/ UNCHANGED Contract!vars
  <2>1. pc[i] \in {"mark", "insert", "select", "claiming", "enter"} => reply[i] = "none"
    BY DEF StageInv
  <2>2. CASE RecoveryLost(i) \/ ClaimFails(i) \/ EnterLost(i)
    BY <1>8, <2>1, <2>2 DEF RecoveryLost, ClaimFails, EnterLost
  <2>3. CASE \/ ScopeClean(i) \/ ScopeDirty(i) \/ MarkRecovering(i) \/ ClaimInsert(i)
             \/ ClaimSelect(i) \/ PublishClaim(i) \/ Enter(i)
    BY <1>1, <2>3 DEF ScopeClean, ScopeDirty, MarkRecovering, ClaimInsert, ClaimSelect,
       PublishClaim, Enter
  <2> QED BY <1>9, <2>2, <2>3 DEF Scope
<1>10. ASSUME NEW i \in Invocations, Lease(i) \/ Finish(i)
       PROVE  Contract!Next \/ UNCHANGED Contract!vars
  <2>1. CASE Acquire(i)
    BY <1>1, <2>1 DEF Acquire
  <2>2. CASE AcquireTimeout(i)
    BY <1>8, <2>2 DEF AcquireTimeout, StageInv
  <2>3. CASE Reject(i)
    BY <1>3, <2>3 DEF Reject
  <2>4. CASE Drained(i)
    BY <1>1, <2>4 DEF Drained, Release
  <2> QED BY <1>4, <1>10, <2>1, <2>2, <2>3, <2>4 DEF Lease, Finish
<1>11. ASSUME NEW i \in Invocations, Read(i) PROVE Contract!Next \/ UNCHANGED Contract!vars
  BY <1>1, <1>2, <1>11 DEF Read, HashHit, HashMiss, SqlGet, Fill, FillLost
<1>12. ASSUME NEW i \in Invocations, Write(i) PROVE Contract!Next \/ UNCHANGED Contract!vars
  BY <1>1, <1>2, <1>12 DEF Write, MarkDirty, SendBatch, MarkLost, WriteFails, Publish,
     PublishLost, Poison, Committed
<1>13. ASSUME LeaseExpires \/ CacheExpires \/ \E r \in Revision : HashExpires(r)
       PROVE  UNCHANGED Contract!vars
  BY <1>1, <1>13 DEF LeaseExpires, CacheExpires, HashExpires
<1> QED
  BY <1>5, <1>6, <1>7, <1>9, <1>10, <1>11, <1>12, <1>13 DEF Next, ReadCached

\* The Redis-cached, SQL-fenced runtime implements the contract of a durable object:
\* no change is committed, no call answered and no lease-free read served from
\* anything but the stored state.
THEOREM Refinement == Spec => ImplementsContract
<1>1. Init => Contract!Init
  BY DEF Init, Contract!Init, Empty
<1>2. ProtocolInv /\ ProtocolInv' /\ [Next]_vars => [Contract!Next]_(Contract!vars)
  <2>1. ASSUME ProtocolInv, ProtocolInv', Next PROVE [Contract!Next]_(Contract!vars)
    BY <2>1, ContractStep
  <2>2. ASSUME UNCHANGED vars PROVE UNCHANGED Contract!vars
    BY <2>2 DEF vars, redis, sql, scope, readers, Contract!vars
  <2> QED BY <2>1, <2>2
<1> QED BY <1>1, <1>2, ProtocolInvariant, PTL DEF Spec, ImplementsContract, Contract!Spec
===========================================================================
