------------------------- MODULE UsageLedgerProofs --------------------------
(***************************************************************************)
(* Proofs about UsageLedger, for any finite set of requests and any set of *)
(* buckets: the rollup is exact, and a genuine result is final.            *)
(***************************************************************************)
EXTENDS UsageLedger, FiniteSetTheorems, TLAPS

-----------------------------------------------------------------------------
(* The inductive invariant. *)

\* A meter emits one event of each sequence, and its last one last.
EmittedInOrder ==
    /\ \A e, f \in emitted : e.request = f.request /\ e.seq = f.seq => e = f
    /\ \A e \in emitted : e.seq = 2 => e.request \notin alive

\* Nothing of a request is under way.
Over(r) == r \notin alive /\ \A e \in transit : e.request # r

\* A row is finished by its last sequence, and one that is finished without
\* reservation tells what the meter's last event said.
RowsAreReports ==
    \A r \in Requests : rows[r] # NoRow =>
        /\ rows[r].done <=> rows[r].seq = 2
        /\ rows[r].provisional => rows[r].done
        /\ rows[r].done /\ ~rows[r].provisional =>
              \E e \in emitted : e.request = r /\ e.seq = 2 /\ rows[r] = RowOf(e)

\* A row that was counted and deleted never comes back.
PurgedIsOver == \A r \in Requests : purged[r] # NoBucket => rows[r] = NoRow /\ Over(r)

\* A terminal event that will not arrive again has left its mark.
TerminalIsKept ==
    \A e \in emitted : e.seq = 2 /\ e \notin transit =>
        \/ rows[e.request] = RowOf(e)
        \/ rows[e.request] = NoRow /\ Over(e.request)

LedgerInv ==
    /\ TypeOK /\ EmittedInOrder /\ RowsAreReports /\ PurgedIsOver
    /\ TerminalIsKept /\ RollupIsExact

-----------------------------------------------------------------------------
(* Counting. *)

\* The bucket a request is counted in, or none.
Home(r) ==
    IF purged[r] # NoBucket THEN purged[r]
    ELSE IF rows[r] # NoRow /\ rows[r].done THEN rows[r].bucket ELSE NoBucket

LEMMA CountedIsHome ==
  ASSUME TypeOK, PurgedIsOver, NEW b \in Buckets
  PROVE  Counted(b) = {r \in Requests : Home(r) = b}
BY LedgerAssumption DEF TypeOK, PurgedIsOver, Counted, Home

\* The rollup stays exact when a single request changes its bucket and the two
\* buckets' counts go along.
LEMMA Recount ==
  ASSUME TypeOK, TypeOK', PurgedIsOver, PurgedIsOver', RollupIsExact,
         NEW r \in Requests, NEW a, NEW c, Home(r) = a, Home(r)' = c,
         \A q \in Requests \ {r} : Home(q)' = Home(q),
         \A b \in Buckets : rollup'[b] = rollup[b] + (IF b = c THEN 1 ELSE 0)
                                                   - (IF b = a THEN 1 ELSE 0)
  PROVE  RollupIsExact'
<1> SUFFICES ASSUME NEW b \in Buckets PROVE rollup'[b] = Cardinality(Counted(b)')
  BY DEF RollupIsExact
<1> DEFINE S == {q \in Requests : Home(q) = b}
           T == {q \in Requests : Home(q)' = b}
<1>1. Counted(b) = S /\ Counted(b)' = T
  <2>1. Counted(b) = S
    BY CountedIsHome
  <2>2. Counted(b)' = T
    BY LedgerAssumption DEF TypeOK, PurgedIsOver, Counted, Home
  <2> QED BY <2>1, <2>2
<1>2. IsFiniteSet(S) /\ Cardinality(S) \in Nat
  BY FS_Subset, FS_CardinalityType, LedgerAssumption
<1>3. rollup[b] = Cardinality(S) /\ rollup[b] \in Int
  BY <1>1 DEF RollupIsExact, TypeOK
<1> HIDE DEF S, T
<1>4. CASE a = c
  <2>1. T = S
    BY <1>4 DEF S, T
  <2> QED BY <1>1, <1>2, <1>3, <1>4, <2>1
<1>5. CASE a # c /\ b = c
  <2>1. T = S \cup {r} /\ r \notin S
    BY <1>5 DEF S, T
  <2>2. Cardinality(T) = Cardinality(S) + 1
    BY <1>2, <2>1, FS_AddElement
  <2> QED BY <1>1, <1>2, <1>3, <1>5, <2>2
<1>6. CASE a # c /\ b = a
  <2>1. T = S \ {r} /\ r \in S
    BY <1>6 DEF S, T
  <2>2. Cardinality(T) = Cardinality(S) - 1
    BY <1>2, <2>1, FS_RemoveElement
  <2> QED BY <1>1, <1>2, <1>3, <1>6, <2>2
<1>7. CASE b # c /\ b # a
  <2>1. T = S
    BY <1>7 DEF S, T
  <2> QED BY <1>1, <1>2, <1>3, <1>7, <2>1
<1> QED BY <1>4, <1>5, <1>6, <1>7

-----------------------------------------------------------------------------
(* Every step keeps the invariant. *)

LEMMA LedgerInit == Init => LedgerInv
<1> SUFFICES ASSUME Init PROVE LedgerInv
  OBVIOUS
<1> USE LedgerAssumption DEF Init
<1>1. TypeOK /\ EmittedInOrder /\ RowsAreReports /\ PurgedIsOver /\ TerminalIsKept
  BY DEF TypeOK, EmittedInOrder, RowsAreReports, PurgedIsOver, TerminalIsKept
<1>2. \A b \in Buckets : Counted(b) = {}
  BY DEF Counted
<1>3. RollupIsExact
  BY <1>2, FS_EmptySet DEF RollupIsExact
<1> QED BY <1>1, <1>3 DEF LedgerInv

\* The meter's side: a new event is in transit, or the meter is gone.
LEMMA MeterStep ==
  ASSUME LedgerInv, NEW r \in Requests,
         Die(r) \/ \E s \in 0..2, b \in Buckets : Emit(r, s, b)
  PROVE  LedgerInv'
<1> USE DEF LedgerInv
<1>1. UNCHANGED <<rows, rollup, purged>> /\ r \in alive /\ alive' \subseteq alive
  BY DEF Die, Emit
<1>2. TypeOK'
  BY DEF TypeOK, Die, Emit, Event
<1>3. EmittedInOrder'
  <2>1. CASE Die(r)
    BY <2>1 DEF Die, EmittedInOrder
  <2>2. ASSUME NEW s \in 0..2, NEW b \in Buckets, Emit(r, s, b) PROVE EmittedInOrder'
    <3> DEFINE new == [request |-> r, seq |-> s, bucket |-> b]
    <3>1. \A e \in emitted : e.request = r => e.seq < s /\ e.seq # s
      BY <2>2 DEF Emit, Seqs, TypeOK, Event
    <3>2. emitted' = emitted \cup {new} /\ (s = 2 => alive' = alive \ {r})
      BY <2>2 DEF Emit
    <3>3. new.request = r /\ new.seq = s
      OBVIOUS
    <3> HIDE DEF new
    <3> QED BY <1>1, <3>1, <3>2, <3>3 DEF EmittedInOrder
  <2> QED BY <2>1, <2>2
<1>4. \A q \in Requests : Over(q) => Over(q)'
  BY <1>1 DEF Over, Die, Emit
<1>5. emitted \subseteq emitted' /\ (emitted' \ emitted) \subseteq transit' /\ transit \subseteq transit'
  BY DEF Die, Emit
<1>6. RowsAreReports'
  BY <1>1, <1>5 DEF RowsAreReports
<1>7. PurgedIsOver'
  BY <1>1, <1>4 DEF PurgedIsOver
<1>8. TerminalIsKept'
  BY <1>1, <1>4, <1>5 DEF TerminalIsKept, TypeOK, Event
<1>9. RollupIsExact'
  BY <1>1 DEF RollupIsExact, Counted
<1> QED BY <1>2, <1>3, <1>6, <1>7, <1>8, <1>9

\* A row that is written as new: the request's count goes along.
LEMMA Written ==
  ASSUME LedgerInv, TypeOK', PurgedIsOver', NEW r \in Requests, NEW new \in Row,
         rows' = [rows EXCEPT ![r] = new], UNCHANGED purged,
         purged[r] = NoBucket,
         rollup' = IF rows[r] = NoRow THEN Inserted(new) ELSE Updated(rows[r], new),
         rows[r] # NoRow /\ rows[r].done =>
            rows[r].provisional /\ new.done /\ ~new.provisional
  PROVE  RollupIsExact'
<1> USE LedgerAssumption DEF LedgerInv
<1> DEFINE a == IF rows[r] # NoRow /\ rows[r].done THEN rows[r].bucket ELSE NoBucket
           c == IF new.done THEN new.bucket ELSE NoBucket
<1>1. Home(r) = a /\ Home(r)' = c
  BY DEF Home, TypeOK, Row
<1>2. \A q \in Requests \ {r} : Home(q)' = Home(q)
  BY DEF Home, TypeOK
<1>3. \A b \in Buckets : rollup'[b] = rollup[b] + (IF b = c THEN 1 ELSE 0)
                                                - (IF b = a THEN 1 ELSE 0)
  <2>1. rollup \in [Buckets -> Int] /\ new.bucket \in Buckets
        /\ (rows[r] # NoRow => rows[r].bucket \in Buckets)
    BY DEF TypeOK, Row
  <2>2. CASE rows[r] = NoRow
    BY <2>1, <2>2 DEF Inserted, Plus
  <2>3. CASE rows[r] # NoRow /\ ~rows[r].done
    BY <2>1, <2>3 DEF Updated, Plus
  <2>4. CASE rows[r] # NoRow /\ rows[r].done
    BY <2>1, <2>4 DEF Updated
  <2> QED BY <2>2, <2>3, <2>4
<1> HIDE DEF a, c
<1> QED BY <1>1, <1>2, <1>3, Recount

\* Delivering an event, for the first time or again.
LEMMA IngestStep ==
  ASSUME LedgerInv, NEW e \in transit, Ingest(e)
  PROVE  LedgerInv'
<1> USE LedgerAssumption DEF LedgerInv
<1> DEFINE r == e.request
<1>1. /\ e \in emitted /\ e \in Event /\ r \in Requests /\ RowOf(e) \in Row
      /\ RowOf(e).done = (e.seq = 2) /\ RowOf(e).seq = e.seq /\ ~RowOf(e).provisional
  BY DEF TypeOK, Event, RowOf, Row
<1>2. /\ UNCHANGED <<emitted, alive, purged>>
      /\ transit' \subseteq transit /\ transit \ {e} \subseteq transit'
      /\ \A q \in Requests : Over(q) => Over(q)'
  BY DEF Ingest, Over
<1>3. ~Over(r) /\ purged[r] = NoBucket
  BY <1>1 DEF Over, PurgedIsOver
<1>4. \/ rows[r] = NoRow /\ rows' = [rows EXCEPT ![r] = RowOf(e)] /\ rollup' = Inserted(RowOf(e))
      \/ /\ rows[r] # NoRow /\ Supersedes(e, rows[r])
         /\ rows' = [rows EXCEPT ![r] = RowOf(e)] /\ rollup' = Updated(rows[r], RowOf(e))
      \/ rows[r] # NoRow /\ ~Supersedes(e, rows[r]) /\ UNCHANGED <<rows, rollup>>
  BY DEF Ingest
<1>5. rows' = [rows EXCEPT ![r] = RowOf(e)] \/ rows' = rows
  BY <1>4
<1>6. rollup' \in [Buckets -> Int]
  BY <1>1, <1>4 DEF Inserted, Updated, Plus, TypeOK, Row
<1>7. TypeOK'
  BY <1>1, <1>2, <1>5, <1>6 DEF TypeOK
<1>8. EmittedInOrder'
  BY <1>2 DEF EmittedInOrder
<1>9. RowsAreReports'
  <2> SUFFICES ASSUME NEW q \in Requests, rows'[q] # NoRow
               PROVE  /\ rows'[q].done <=> rows'[q].seq = 2
                      /\ rows'[q].provisional => rows'[q].done
                      /\ rows'[q].done /\ ~rows'[q].provisional =>
                            \E f \in emitted : f.request = q /\ f.seq = 2 /\ rows'[q] = RowOf(f)
    BY <1>2 DEF RowsAreReports
  <2>1. rows'[q] = rows[q] \/ (q = r /\ rows'[q] = RowOf(e))
    BY <1>1, <1>5 DEF TypeOK
  <2>2. CASE rows'[q] = rows[q]
    BY <2>2 DEF RowsAreReports
  <2>3. CASE q = r /\ rows'[q] = RowOf(e)
    BY <1>1, <2>3
  <2> QED BY <2>1, <2>2, <2>3
<1>10. PurgedIsOver'
  BY <1>1, <1>2, <1>3, <1>5 DEF PurgedIsOver, TypeOK
<1>11. TerminalIsKept'
  <2> SUFFICES ASSUME NEW f \in emitted, f.seq = 2, f \notin transit'
               PROVE  \/ rows'[f.request] = RowOf(f)
                      \/ rows'[f.request] = NoRow /\ Over(f.request)'
    BY <1>2 DEF TerminalIsKept
  <2>1. f.request \in Requests /\ r \in DOMAIN rows
    BY <1>1 DEF TypeOK, Event
  <2>2. CASE f.request # r
    <3>1. f \notin transit /\ rows'[f.request] = rows[f.request]
      BY <1>1, <1>2, <1>5, <2>1, <2>2 DEF TypeOK
    <3> QED BY <1>2, <2>1, <3>1 DEF TerminalIsKept
  <2>3. CASE f = e
    <3>1. CASE rows' = [rows EXCEPT ![r] = RowOf(e)]
      BY <2>1, <2>3, <3>1
    <3>2. CASE rows[r] # NoRow /\ ~Supersedes(e, rows[r]) /\ rows' = rows
      <4>1. rows[r].seq = 2 /\ ~rows[r].provisional /\ rows[r].done
        BY <1>1, <2>3, <3>2 DEF Supersedes, RowsAreReports, TypeOK, Row
      <4>2. PICK g \in emitted : g.request = r /\ g.seq = 2 /\ rows[r] = RowOf(g)
        BY <1>1, <3>2, <4>1 DEF RowsAreReports
      <4>3. g = e
        BY <1>1, <2>3, <4>2 DEF EmittedInOrder
      <4> QED BY <2>3, <3>2, <4>2, <4>3
    <3> QED BY <1>4, <3>1, <3>2
  <2>4. CASE f.request = r /\ f # e
    <3>1. f \notin transit
      BY <1>2, <2>4
    <3>2. rows[r] = RowOf(f) /\ rows[r].done /\ ~rows[r].provisional
      <4>1. rows[r] = RowOf(f)
        BY <1>3, <2>4, <3>1 DEF TerminalIsKept
      <4>2. RowOf(f).done /\ ~RowOf(f).provisional
        BY DEF RowOf
      <4> QED BY <4>1, <4>2
    <3>3. e.seq # 2 /\ e.seq \in 0..2
      BY <1>1, <2>4 DEF EmittedInOrder, Event
    <3>4. rows[r] # NoRow /\ rows[r].seq = 2
      <4>1. RowOf(f) \in Row /\ RowOf(f).seq = 2
        BY DEF RowOf, Row, TypeOK, Event
      <4> QED BY <3>2, <4>1 DEF Row
    <3>5. ~Supersedes(e, rows[r])
      BY <3>2, <3>3, <3>4 DEF Supersedes
    <3> QED BY <1>4, <2>4, <3>2, <3>4, <3>5
  <2> QED BY <2>2, <2>3, <2>4
<1>12. RollupIsExact'
  <2>1. CASE UNCHANGED <<rows, rollup>>
    BY <1>2, <2>1 DEF RollupIsExact, Counted
  <2>2. CASE rows[r] = NoRow /\ rows' = [rows EXCEPT ![r] = RowOf(e)] /\ rollup' = Inserted(RowOf(e))
    BY <1>1, <1>2, <1>3, <1>7, <1>10, <2>2, Written
  <2>3. CASE /\ rows[r] # NoRow /\ Supersedes(e, rows[r])
             /\ rows' = [rows EXCEPT ![r] = RowOf(e)] /\ rollup' = Updated(rows[r], RowOf(e))
    <3>1. rows[r].done => rows[r].provisional /\ e.seq = 2
      BY <1>1, <2>3 DEF Supersedes, RowsAreReports, TypeOK, Row, Event
    <3> QED BY <1>1, <1>2, <1>3, <1>7, <1>10, <2>3, <3>1, Written
  <2> QED BY <1>4, <2>1, <2>2, <2>3
<1> QED BY <1>7, <1>8, <1>9, <1>10, <1>11, <1>12

\* Closing a row that stayed open.
LEMMA ExpireStep ==
  ASSUME LedgerInv, NEW r \in Requests, Expire(r)
  PROVE  LedgerInv'
<1> USE LedgerAssumption DEF LedgerInv
<1> DEFINE new == Closed(rows[r])
<1>1. /\ rows[r] # NoRow /\ ~rows[r].done /\ rows[r] \in Row
      /\ rows' = [rows EXCEPT ![r] = new] /\ rollup' = Updated(rows[r], new)
      /\ UNCHANGED <<emitted, transit, alive, purged>>
  BY DEF Expire, TypeOK
<1>2. new \in Row /\ new.seq = 2 /\ new.done /\ new.provisional
  BY <1>1 DEF Row, Closed
<1>3. purged[r] = NoBucket
  BY <1>1 DEF PurgedIsOver
<1> HIDE DEF new
<1>4. rollup' \in [Buckets -> Int]
  BY <1>1, <1>2 DEF Updated, Plus, TypeOK, Row
<1>5. TypeOK'
  BY <1>1, <1>2, <1>4 DEF TypeOK
<1>6. EmittedInOrder' /\ PurgedIsOver'
  BY <1>1, <1>3 DEF EmittedInOrder, PurgedIsOver, Over, TypeOK
<1>7. RowsAreReports'
  BY <1>1, <1>2 DEF RowsAreReports, TypeOK
<1>8. TerminalIsKept'
  <2> SUFFICES ASSUME NEW f \in emitted, f.seq = 2, f \notin transit
               PROVE  \/ rows'[f.request] = RowOf(f)
                      \/ rows'[f.request] = NoRow /\ Over(f.request)'
    BY <1>1 DEF TerminalIsKept
  <2>1. rows[f.request] = RowOf(f) \/ rows[f.request] = NoRow
    BY <1>1 DEF TerminalIsKept
  <2>2. RowOf(f).done
    BY DEF RowOf
  <2>3. f.request # r
    BY <1>1, <2>1, <2>2
  <2> QED BY <1>1, <2>3 DEF TerminalIsKept, Over, TypeOK, Event
<1>9. RollupIsExact'
  BY <1>1, <1>2, <1>3, <1>5, <1>6, Written
<1> QED BY <1>5, <1>6, <1>7, <1>8, <1>9

\* Deleting a row keeps its contribution.
LEMMA CleanupStep ==
  ASSUME LedgerInv, NEW r \in Requests, Cleanup(r)
  PROVE  LedgerInv'
<1> USE LedgerAssumption DEF LedgerInv
<1>1. /\ rows[r] # NoRow /\ rows[r] \in Row /\ Over(r) /\ rows' = [rows EXCEPT ![r] = NoRow]
      /\ purged' = [purged EXCEPT ![r] = IF rows[r].done THEN rows[r].bucket ELSE NoBucket]
      /\ UNCHANGED <<rollup, emitted, transit, alive>>
  BY DEF Cleanup, Over, TypeOK
<1>2. purged[r] = NoBucket
  BY <1>1 DEF PurgedIsOver
<1>3. TypeOK'
  BY <1>1 DEF TypeOK, Row
<1>4. EmittedInOrder' /\ PurgedIsOver' /\ RowsAreReports'
  BY <1>1 DEF EmittedInOrder, PurgedIsOver, RowsAreReports, Over, TypeOK
<1>5. TerminalIsKept'
  BY <1>1 DEF TerminalIsKept, Over, TypeOK, Event
<1>6. RollupIsExact'
  <2>1. Home(r) = (IF rows[r].done THEN rows[r].bucket ELSE NoBucket)
    BY <1>1, <1>2 DEF Home
  <2>2. Home(r)' = Home(r)
    BY <1>1, <1>2, <2>1 DEF Home, TypeOK, Row
  <2>3. \A q \in Requests \ {r} : Home(q)' = Home(q)
    BY <1>1 DEF Home, TypeOK
  <2>4. \A b \in Buckets : rollup'[b] = rollup[b] + (IF b = Home(r) THEN 1 ELSE 0)
                                                  - (IF b = Home(r) THEN 1 ELSE 0)
    BY <1>1 DEF TypeOK
  <2> HIDE DEF Home
  <2> QED BY <1>3, <1>4, <2>2, <2>3, <2>4, Recount
<1> QED BY <1>3, <1>4, <1>5, <1>6

LEMMA LedgerStep == LedgerInv /\ [Next]_vars => LedgerInv'
<1> SUFFICES ASSUME LedgerInv, [Next]_vars PROVE LedgerInv'
  OBVIOUS
<1>1. CASE UNCHANGED vars
  BY <1>1 DEF vars, LedgerInv, TypeOK, EmittedInOrder, RowsAreReports, PurgedIsOver,
     TerminalIsKept, RollupIsExact, Counted, Over
<1> QED BY <1>1, MeterStep, IngestStep, ExpireStep, CleanupStep DEF Next

-----------------------------------------------------------------------------
\* The inductive invariant holds in every reachable state.
THEOREM LedgerInvariant == Spec => []LedgerInv
BY LedgerInit, LedgerStep, PTL DEF Spec

\* The rollup counts every finished request once, in the bucket its row shows,
\* and a terminal event prevails once it has arrived (ingestUsage, the triggers,
\* expirePendingRequests, cleanupRequests).
THEOREM Ledger == Spec => []LedgerIsExact
<1>1. LedgerInv => LedgerIsExact
  BY DEF LedgerInv, LedgerIsExact, TerminalWins, TerminalIsKept
<1> QED BY LedgerInvariant, <1>1, PTL

\* Whatever arrives late or twice, and whatever maintenance does, a genuine
\* result is never undone (the WHERE of the upsert).
THEOREM Final == Spec => GenuineIsFinal
<1> DEFINE Kept ==
      \A r \in Requests : rows[r] # NoRow /\ rows[r].done /\ ~rows[r].provisional
          => rows'[r] \in {rows[r], NoRow}
<1>1. LedgerInv /\ [Next]_vars => [Kept]_vars
  <2> SUFFICES ASSUME LedgerInv, Next, NEW r \in Requests,
                      rows[r] # NoRow, rows[r].done, ~rows[r].provisional
               PROVE  rows'[r] \in {rows[r], NoRow}
    OBVIOUS
  <2> USE DEF LedgerInv, TypeOK
  <2>1. ASSUME NEW q \in Requests, Die(q) \/ \E s \in 0..2, b \in Buckets : Emit(q, s, b)
        PROVE  rows' = rows
    BY <2>1 DEF Die, Emit
  <2>2. ASSUME NEW q \in Requests, Expire(q) \/ Cleanup(q) PROVE rows'[r] \in {rows[r], NoRow}
    BY <2>2 DEF Expire, Cleanup
  <2>3. ASSUME NEW e \in transit, Ingest(e) PROVE rows'[r] \in {rows[r], NoRow}
    <3>1. CASE e.request # r
      BY <2>3, <3>1 DEF Ingest, Event
    <3>2. CASE e.request = r
      <4>1. rows[r].seq = 2 /\ e.seq \in 0..2
        BY DEF RowsAreReports, Event
      <4>2. ~Supersedes(e, rows[r])
        BY <4>1 DEF Supersedes
      <4> QED BY <2>3, <3>2, <4>2 DEF Ingest
    <3> QED BY <3>1, <3>2
  <2> QED BY <2>1, <2>2, <2>3 DEF Next
<1>2. [][Kept]_vars <=> GenuineIsFinal
  BY DEF GenuineIsFinal
<1> QED BY LedgerInvariant, <1>1, <1>2, PTL DEF Spec
=============================================================================
