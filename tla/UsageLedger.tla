---------------------------- MODULE UsageLedger ----------------------------
(***************************************************************************)
(* The request table and its hourly rollup (reporting/store.ts and the     *)
(* triggers of migrations/).                                               *)
(*                                                                         *)
(* A meter emits up to three events per request: sequence 0 when it starts,*)
(* 1 once it knows more, 2 when it ends.  They travel on different paths   *)
(* (progress through the outbox to the database, the terminal one through  *)
(* a queue), so they arrive late, twice or in any order.  A request whose  *)
(* meter died is closed provisionally by maintenance, and the real terminal*)
(* event may still correct it.  The rollup counts finished requests per    *)
(* bucket: hour, client, provider, credential, model and currency.         *)
(***************************************************************************)
EXTENDS Integers, FiniteSets

CONSTANTS Requests, Buckets, NoRow, NoBucket

ASSUME LedgerAssumption ==
    /\ IsFiniteSet(Requests) /\ NoBucket \notin Buckets
    /\ NoRow \notin [seq : 0..2, done : BOOLEAN, provisional : BOOLEAN, bucket : Buckets]

VARIABLES
    rows,      \* the requests table
    rollup,    \* usage_hourly.requests_count by bucket
    emitted,   \* the events each meter has produced so far
    transit,   \* the events that may still be delivered
    alive,     \* requests whose meter still runs
    purged     \* history: the bucket a row deleted by cleanup was counted in

vars == <<rows, rollup, emitted, transit, alive, purged>>

Event == [request : Requests, seq : 0..2, bucket : Buckets]
Row == [seq : 0..2, done : BOOLEAN, provisional : BOOLEAN, bucket : Buckets]

Init ==
    /\ rows = [r \in Requests |-> NoRow]
    /\ rollup = [b \in Buckets |-> 0]
    /\ emitted = {} /\ transit = {} /\ alive = Requests
    /\ purged = [r \in Requests |-> NoBucket]

-----------------------------------------------------------------------------
Seqs(r) == {e.seq : e \in {x \in emitted : x.request = r}}

\* The meter's events, in order; the start may be followed by the end directly.
\* What it reports of provider, model or currency may change on the way.
Emit(r, s, b) ==
    /\ r \in alive /\ \A q \in Seqs(r) : q < s
    /\ s > 0 => 0 \in Seqs(r)
    /\ LET e == [request |-> r, seq |-> s, bucket |-> b] IN
       emitted' = emitted \cup {e} /\ transit' = transit \cup {e}
    /\ alive' = IF s = 2 THEN alive \ {r} ELSE alive
    /\ UNCHANGED <<rows, rollup, purged>>

\* The isolate is gone before the request was finished.
Die(r) ==
    /\ r \in alive /\ alive' = alive \ {r}
    /\ UNCHANGED <<rows, rollup, emitted, transit, purged>>

-----------------------------------------------------------------------------
RowOf(e) == [seq |-> e.seq, done |-> e.seq = 2, provisional |-> FALSE, bucket |-> e.bucket]

\* Mutant: the last event to arrive wins.
SupersedesBlindly(e, old) == TRUE

\* The ON CONFLICT ... WHERE of the upsert.
Supersedes(e, old) == e.seq > old.seq \/ (e.seq = 2 /\ old.provisional)

\* The triggers: a finished insert and a row that becomes finished add one to
\* the row's bucket; a correction of a provisional row moves its contribution.
Plus(b) == [rollup EXCEPT ![b] = @ + 1]
Inserted(new) == IF new.done THEN Plus(new.bucket) ELSE rollup
\* Mutant: without requests_finish_correction.
UpdatedWithoutCorrection(old, new) ==
    IF ~old.done /\ new.done THEN Plus(new.bucket) ELSE rollup

Updated(old, new) ==
    CASE ~old.done /\ new.done -> Plus(new.bucket)
      [] old.done /\ new.done /\ old.provisional /\ ~new.provisional ->
             [[rollup EXCEPT ![old.bucket] = @ - 1] EXCEPT ![new.bucket] = @ + 1]
      [] OTHER -> rollup

\* ingestUsage(): one batch; the delivery may be repeated.
Ingest(e) ==
    /\ e \in transit
    /\ LET r == e.request
           old == rows[r] IN
       IF old = NoRow
       THEN rows' = [rows EXCEPT ![r] = RowOf(e)] /\ rollup' = Inserted(RowOf(e))
       ELSE IF Supersedes(e, old)
       THEN rows' = [rows EXCEPT ![r] = RowOf(e)] /\ rollup' = Updated(old, RowOf(e))
       ELSE UNCHANGED <<rows, rollup>>
    /\ transit' \in {transit, transit \ {e}}
    /\ UNCHANGED <<emitted, alive, purged>>

Closed(old) == [seq |-> 2, done |-> TRUE, provisional |-> TRUE, bucket |-> old.bucket]

\* Mutant: maintenance looks at rows that saw only their start event.
ExpireStartedOnly(r) ==
    /\ rows[r] # NoRow /\ ~rows[r].done /\ rows[r].seq = 0
    /\ rows' = [rows EXCEPT ![r] = Closed(rows[r])] /\ rollup' = Updated(rows[r], Closed(rows[r]))
    /\ UNCHANGED <<emitted, transit, alive, purged>>

\* expirePendingRequests(): a row that stayed open past PENDING_REQUEST_MAX_AGE
\* is closed in place, provisionally; its meter may in truth still be running.
Expire(r) ==
    /\ rows[r] # NoRow /\ ~rows[r].done
    /\ rows' = [rows EXCEPT ![r] = Closed(rows[r])] /\ rollup' = Updated(rows[r], Closed(rows[r]))
    /\ UNCHANGED <<emitted, transit, alive, purged>>

\* cleanupRequests(): the row goes, its contribution stays.  Retention is days,
\* so nothing of the request is under way any more.
Cleanup(r) ==
    /\ rows[r] # NoRow /\ r \notin alive
    /\ \A e \in transit : e.request # r
    /\ rows' = [rows EXCEPT ![r] = NoRow]
    /\ purged' = [purged EXCEPT ![r] = IF rows[r].done THEN rows[r].bucket ELSE NoBucket]
    /\ UNCHANGED <<rollup, emitted, transit, alive>>

Next ==
    \/ \E r \in Requests, s \in 0..2, b \in Buckets : Emit(r, s, b)
    \/ \E r \in Requests : Die(r) \/ Expire(r) \/ Cleanup(r)
    \/ \E e \in transit : Ingest(e)

Spec == Init /\ [][Next]_vars

-----------------------------------------------------------------------------
\* Rows, the rollup and the events in transit have their types; only events that
\* were emitted travel.
TypeOK ==
    /\ rows \in [Requests -> Row \cup {NoRow}]
    /\ rollup \in [Buckets -> Int]
    /\ emitted \subseteq Event /\ transit \subseteq emitted
    /\ alive \subseteq Requests
    /\ purged \in [Requests -> Buckets \cup {NoBucket}]

\* The requests a bucket should count: finished rows, and finished rows that
\* retention has since deleted.
Counted(b) == {r \in Requests : purged[r] = b \/ (rows[r] # NoRow /\ rows[r].done /\ rows[r].bucket = b)}

\* Every finished request is counted once, in the bucket its row shows, whatever
\* the order, repetition and correction of its events.
RollupIsExact == \A b \in Buckets : rollup[b] = Cardinality(Counted(b))

\* A late progress event, a repeated terminal one or maintenance never undoes a
\* genuine result: from then on the row changes only by being deleted.
GenuineIsFinal ==
    [][\A r \in Requests :
          rows[r] # NoRow /\ rows[r].done /\ ~rows[r].provisional
              => rows'[r] \in {rows[r], NoRow}]_vars

\* Once a terminal event can no longer arrive, the row tells what it said, even
\* if the request had been closed provisionally before.
TerminalWins ==
    \A e \in emitted : e.seq = 2 /\ e \notin transit /\ rows[e.request] # NoRow
                          => rows[e.request] = RowOf(e)

\* Deliveries, maintenance and retention keep running.
Fairness ==
    /\ \A r \in Requests : WF_vars(Expire(r))
    /\ WF_vars(\E e \in transit : Ingest(e) /\ transit' # transit)
FairSpec == Spec /\ Fairness

\* No request that was ever recorded stays pending for good.
AllSettled == \A r \in Requests : rows[r] = NoRow \/ rows[r].done
EverySettles == []<>AllSettled

\* The rows and the rollup of the database tell what was reported (store.ts).
LedgerIsExact == TypeOK /\ RollupIsExact /\ TerminalWins
=============================================================================
