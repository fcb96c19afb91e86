---------------------------- MODULE UsageOutbox ----------------------------
(***************************************************************************)
(* One shard of the durable usage journal (telemetry/outbox.ts).           *)
(*                                                                         *)
(* Records are accepted into a journal kept in the object's storage and    *)
(* leave it only once their destination took them: progress records go to  *)
(* the database ("d1"), terminal ones to the message queue ("queue").  One *)
(* flush runs at a time; it scans the journal in key order from a stored   *)
(* cursor, in bounded passes, and each destination backs off on its own.   *)
(* An alarm wakes the object when records are left over.                   *)
(*                                                                         *)
(* Time is modelled by countdowns: `alarm', the retry deadlines and the    *)
(* wake-up a flush has computed all lose one unit per Tick and stay at 0   *)
(* once they are in the past.                                              *)
(***************************************************************************)
EXTENDS Integers, FiniteSets, FiniteSetsExt

CONSTANTS
    N,            \* number of journal keys; keys are 1..N in storage order
    Finished,     \* records of phase "finished", which go to the queue
    Invalid,      \* records an older version stored that no longer parse
    Ignored,      \* stored records of another kind, which are dropped
    BatchSize,    \* BATCH_SIZE
    MaxBatches,   \* MAX_BATCHES
    RetryDelay,   \* RETRY_DELAY_MS
    Backoffs,     \* the delays nextDeliveryRetry can choose
    InspectDelay, \* MAX_RETRY_DELAY_MS, the wake-up for invalid records
    MaxFaults     \* bound on evictions and failed storage calls

ASSUME ConstantsAssumption ==
    /\ N \in Nat /\ BatchSize \in Nat \ {0} /\ MaxBatches \in Nat \ {0}
    /\ Finished \subseteq 1..N
    /\ Invalid \subseteq 1..N /\ Ignored \subseteq 1..N
    /\ Invalid \cap Ignored = {}
    /\ RetryDelay \in Nat \ {0} /\ Backoffs \subseteq Nat \ {0}
    /\ InspectDelay \in Nat \ {0} /\ MaxFaults \in Nat

Events == 1..N
Usable == Events \ (Invalid \cup Ignored)
Destinations == {"d1", "queue"}
NoKey == 0          \* an absent cursor: every key follows it
NoRetry == -1       \* no stored delivery-retry record
Never == -1         \* no alarm

VARIABLES
    \* the object's storage
    journal, alarm, retry, cursor,
    \* the platform: is an instance alive, is an alarm owed, is it being handled
    up, firing, handling, faults,
    \* the instance's fields and the locals of its running flush
    pc, retries, enqueuedDuringFlush, cur, pass, todo, sent, lane, deferred,
    invalid, nextAt,
    \* history: what callers were promised and what the destinations have
    accepted, delivered

storage == <<journal, alarm, retry, cursor>>
platform == <<up, firing, handling>>
scan == <<cur, pass, deferred, invalid>>
lanes == <<todo, sent, lane>>
history == <<accepted, delivered>>
vars == <<storage, platform, faults, pc, retries, enqueuedDuringFlush, scan, lanes,
          nextAt, history>>

Destination(e) == IF e \in Finished THEN "queue" ELSE "d1"
Ready(r) == r <= 0                    \* NoRetry, or a deadline in the past
Earlier(a, b) == IF a = Never THEN b ELSE IF a < b THEN a ELSE b
After(k) == {e \in journal : e > k}

NoLanes == /\ todo = [d \in Destinations |-> {}]
           /\ sent = [d \in Destinations |-> {}]
           /\ lane = [d \in Destinations |-> "done"]

\* A fresh deployment, or one that inherits records of an older version.
Init ==
    /\ journal \in SUBSET (Invalid \cup Ignored)
    /\ alarm = IF journal = {} THEN Never ELSE RetryDelay
    /\ retry = [d \in Destinations |-> NoRetry] /\ cursor = NoKey
    /\ up = FALSE /\ firing = FALSE /\ handling = FALSE /\ faults = 0
    /\ pc = "idle" /\ retries = [d \in Destinations |-> NoRetry]
    /\ enqueuedDuringFlush = FALSE /\ nextAt = 0
    /\ cur = NoKey /\ pass = 0 /\ deferred = {} /\ invalid = FALSE
    /\ NoLanes
    /\ accepted = {} /\ delivered = {}

Fault == faults < MaxFaults /\ faults' = faults + 1

-----------------------------------------------------------------------------
\* flush(): start a delivery unless one is running.
Flush ==
    IF pc = "idle"
    THEN /\ pc' = "load" /\ enqueuedDuringFlush' = FALSE /\ nextAt' = RetryDelay
         /\ UNCHANGED <<scan, lanes>>
    ELSE UNCHANGED <<pc, nextAt, enqueuedDuringFlush, scan, lanes>>

\* enqueue(): the journal entry and the wake-up commit together; a repeated
\* call keeps the first payload.  A record whose destination is backing off
\* waits for the alarm, any other starts (or marks) a flush.
Enqueue(e) ==
    /\ up /\ e \in Usable
    /\ journal' = journal \cup {e}
    /\ accepted' = accepted \cup {e}
    /\ LET r == retry[Destination(e)] IN
       /\ alarm' = Earlier(alarm, IF Ready(r) THEN RetryDelay ELSE r)
       /\ IF Ready(r)
          THEN IF pc = "idle" THEN Flush
               ELSE /\ enqueuedDuringFlush' = TRUE
                    /\ UNCHANGED <<pc, nextAt, scan, lanes>>
          ELSE UNCHANGED <<pc, nextAt, enqueuedDuringFlush, scan, lanes>>
    /\ UNCHANGED <<retry, cursor, platform, faults, retries, delivered>>

-----------------------------------------------------------------------------
\* deliver(), one step per await.

\* Read the stored back-offs and the cursor.
Load ==
    /\ pc = "load"
    /\ retries' = retry /\ cur' = cursor
    /\ pass' = 0 /\ deferred' = {} /\ invalid' = FALSE
    /\ pc' = "scan"
    /\ UNCHANGED <<storage, platform, faults, enqueuedDuringFlush, lanes, nextAt, history>>

\* The first BatchSize keys after k.
Page(k) == {e \in After(k) : Cardinality({x \in After(k) : x <= e}) <= BatchSize}
Lane(S, d) == {e \in S : Destination(e) = d}

\* Nothing is left after the cursor: forget it, and either end the scan or
\* start over from the first key.
Wrapped == Page(cur) = {} /\ cur # NoKey
Pending == IF Wrapped /\ pass = 0 THEN Page(NoKey) ELSE Page(cur)

Scan ==
    /\ pc = "scan" /\ pass < MaxBatches
    /\ cursor' = IF Wrapped THEN NoKey ELSE cursor
    /\ IF Pending = {}
       THEN pc' = "finish" /\ UNCHANGED <<journal, invalid, cur, lanes>>
       ELSE /\ pc' = "deliver"
            /\ cur' = Max(Pending)
            /\ journal' = journal \ (Pending \cap Ignored)
            /\ invalid' = (invalid \/ Pending \cap Invalid # {})
            /\ todo' = [d \in Destinations |-> Lane(Pending \cap Usable, d)]
            /\ lane' = [d \in Destinations |-> "ready"]
            /\ sent' = sent
    /\ UNCHANGED <<alarm, retry, platform, faults, retries, enqueuedDuringFlush, pass,
                   deferred, nextAt, history>>

ScanBounded ==
    /\ pc = "scan" /\ pass = MaxBatches
    /\ pc' = "finish"
    /\ UNCHANGED <<storage, platform, faults, retries, enqueuedDuringFlush, scan, lanes,
                   nextAt, history>>

\* deliverProgress / deliverFinished: the next entry, or the next batch of
\* entries that fits a queue message, unless the destination is backing off.
Batches(d) ==
    {b \in SUBSET todo[d] :
        /\ b # {}
        /\ d = "d1" => Cardinality(b) = 1
        /\ \A e \in b, f \in todo[d] \ b : e < f}

Send(d) ==
    /\ pc = "deliver" /\ lane[d] = "ready"
    /\ IF todo[d] = {} THEN lane' = [lane EXCEPT ![d] = "done"] /\ UNCHANGED <<todo, sent>>
       ELSE IF ~Ready(retries[d]) THEN lane' = [lane EXCEPT ![d] = "deferred"] /\ UNCHANGED <<todo, sent>>
       ELSE \E b \in Batches(d) :
               /\ sent' = [sent EXCEPT ![d] = b]
               /\ todo' = [todo EXCEPT ![d] = @ \ b]
               /\ lane' = [lane EXCEPT ![d] = "sending"]
    /\ UNCHANGED <<storage, platform, faults, pc, retries, enqueuedDuringFlush, scan,
                   nextAt, history>>

\* The destination takes the batch and answers.
Arrive(d) ==
    /\ pc = "deliver" /\ lane[d] = "sending"
    /\ delivered' = delivered \cup sent[d]
    /\ lane' = [lane EXCEPT ![d] = "acknowledge"]
    /\ UNCHANGED <<storage, platform, faults, pc, retries, enqueuedDuringFlush, scan,
                   todo, sent, nextAt, accepted>>

\* The call fails; some of the batch may have got through all the same.
SendFails(d) ==
    /\ pc = "deliver" /\ lane[d] = "sending"
    /\ \E got \in SUBSET sent[d] : delivered' = delivered \cup got
    /\ lane' = [lane EXCEPT ![d] = "failed"]
    /\ UNCHANGED <<storage, platform, faults, pc, retries, enqueuedDuringFlush, scan,
                   todo, sent, nextAt, accepted>>

\* failed(): store the destination's back-off, then give up for this pass.
Failed(d) ==
    /\ pc = "deliver" /\ lane[d] = "failed"
    /\ \E b \in Backoffs : /\ retry' = [retry EXCEPT ![d] = b]
                           /\ retries' = [retries EXCEPT ![d] = b]
    /\ lane' = [lane EXCEPT ![d] = "deferred"]
    /\ sent' = [sent EXCEPT ![d] = {}]
    /\ UNCHANGED <<journal, alarm, cursor, platform, faults, pc, enqueuedDuringFlush,
                   scan, todo, nextAt, history>>

\* Mutant: acknowledges the whole page, the other destination's records too.
AcknowledgePage(d) ==
    /\ pc = "deliver" /\ lane[d] = "acknowledge"
    /\ journal' = journal \ 1..cur
    /\ retry' = [retry EXCEPT ![d] = NoRetry]
    /\ retries' = [retries EXCEPT ![d] = NoRetry]
    /\ lane' = [lane EXCEPT ![d] = "ready"]
    /\ sent' = [sent EXCEPT ![d] = {}]
    /\ UNCHANGED <<alarm, cursor, platform, faults, pc, enqueuedDuringFlush, scan, todo,
                   nextAt, history>>

\* acknowledge(): delete the entries and the back-off in one transaction.
Acknowledge(d) ==
    /\ pc = "deliver" /\ lane[d] = "acknowledge"
    /\ journal' = journal \ sent[d]
    /\ retry' = [retry EXCEPT ![d] = NoRetry]
    /\ retries' = [retries EXCEPT ![d] = NoRetry]
    /\ lane' = [lane EXCEPT ![d] = "ready"]
    /\ sent' = [sent EXCEPT ![d] = {}]
    /\ UNCHANGED <<alarm, cursor, platform, faults, pc, enqueuedDuringFlush, scan, todo,
                   nextAt, history>>

\* The local write of Failed or Acknowledge is rejected: its lane rejects.
LocalWriteFails(d) ==
    /\ pc = "deliver" /\ lane[d] \in {"failed", "acknowledge"} /\ Fault
    /\ lane' = [lane EXCEPT ![d] = "rejected"]
    /\ sent' = [sent EXCEPT ![d] = {}]
    /\ UNCHANGED <<storage, platform, pc, retries, enqueuedDuringFlush, scan,
                   todo, nextAt, history>>

Settled == \A d \in Destinations : lane[d] \in {"done", "deferred", "rejected"}
Rejected == \E d \in Destinations : lane[d] = "rejected"

\* Both lanes have settled and neither rejected: store the cursor.
EndPass ==
    /\ pc = "deliver" /\ Settled /\ ~Rejected
    /\ deferred' = deferred \cup {d \in Destinations : lane[d] = "deferred"}
    /\ cursor' = cur /\ pass' = pass + 1
    /\ pc' = "scan"
    /\ todo' = [d \in Destinations |-> {}]
    /\ lane' = [d \in Destinations |-> "done"]
    /\ UNCHANGED <<journal, alarm, retry, platform, faults, retries, enqueuedDuringFlush,
                   cur, invalid, sent, nextAt, history>>

\* The catch of deliver() goes straight to schedule() with the wake-up chosen
\* at the start: a lane rejected, or a storage call of the scan itself failed.
Abandon ==
    /\ pc' = "schedule"
    /\ todo' = [d \in Destinations |-> {}]
    /\ lane' = [d \in Destinations |-> "done"]
    /\ UNCHANGED <<storage, platform, retries, enqueuedDuringFlush, scan, sent,
                   nextAt, history>>
LaneRejected == pc = "deliver" /\ Settled /\ Rejected /\ Abandon /\ faults' = faults
ScanFails ==
    /\ \/ pc \in {"load", "scan", "finish"}
       \/ pc = "deliver" /\ Settled /\ ~Rejected
    /\ Fault /\ Abandon

\* The wake-ups a finished scan asks for.
Deadlines ==
    {IF Ready(retries[d]) THEN RetryDelay ELSE retries[d] :
         d \in {x \in Destinations : retries[x] # NoRetry}}
    \cup {RetryDelay : d \in {x \in deferred : Ready(retries[x])}}
    \cup (IF invalid THEN {InspectDelay} ELSE {})

Finish ==
    /\ pc = "finish"
    /\ nextAt' = IF After(cur) = {} /\ Deadlines # {} THEN Min(Deadlines) ELSE nextAt
    /\ pc' = "schedule"
    /\ UNCHANGED <<storage, platform, faults, retries, enqueuedDuringFlush, scan, lanes,
                   history>>

-----------------------------------------------------------------------------
\* Mutant: an alarm that has fired is not set again.
ScheduleAsIs(wake) ==
    IF journal = {}
    THEN /\ cursor' = NoKey /\ alarm' = Never
         /\ retry' = [d \in Destinations |-> NoRetry]
    ELSE UNCHANGED <<alarm, cursor, retry>>

\* schedule(): with a wake-up after a scan, without one when constructed.
ScheduleStore(wake) ==
    IF journal = {}
    THEN /\ cursor' = NoKey /\ alarm' = Never
         /\ retry' = [d \in Destinations |-> NoRetry]
    ELSE /\ alarm' = IF wake # Never THEN wake
                     ELSE IF alarm <= 0 THEN RetryDelay ELSE alarm
         /\ UNCHANGED <<cursor, retry>>

\* The end of a flush; an alarm handler that waited for it returns.
Schedule ==
    /\ pc = "schedule"
    /\ ScheduleStore(IF enqueuedDuringFlush THEN Earlier(nextAt, RetryDelay) ELSE nextAt)
    /\ pc' = "idle"
    /\ firing' = (firing /\ ~handling) /\ handling' = FALSE
    /\ UNCHANGED <<journal, up, faults, retries, enqueuedDuringFlush, scan,
                   lanes, nextAt, history>>

\* schedule() itself is rejected: the flush rejects, and so does a waiting
\* alarm handler, which the platform runs again.
ScheduleFails ==
    /\ pc = "schedule" /\ Fault
    /\ pc' = "idle" /\ handling' = FALSE
    /\ UNCHANGED <<storage, up, firing, retries, enqueuedDuringFlush,
                   scan, lanes, nextAt, history>>

-----------------------------------------------------------------------------
\* The platform (external): alarms are taken out of storage when they fire and
\* their handler is run at least once, in an instance built for the purpose if
\* none is alive.
Fire ==
    /\ alarm = 0 /\ ~firing
    /\ alarm' = Never /\ firing' = TRUE
    /\ UNCHANGED <<journal, retry, cursor, up, handling, faults, pc, retries,
                   enqueuedDuringFlush, scan, lanes, nextAt, history>>

\* alarm(): run, or join, the flush.
Alarm ==
    /\ up /\ firing /\ ~handling
    /\ handling' = TRUE
    /\ Flush
    /\ UNCHANGED <<storage, up, firing, faults, retries, accepted, delivered>>

\* The constructor.
Boot ==
    /\ ~up
    /\ up' = TRUE
    /\ ScheduleStore(Never)
    /\ UNCHANGED <<journal, firing, handling, faults, pc, retries,
                   enqueuedDuringFlush, scan, lanes, nextAt, history>>

\* Eviction: the instance and everything it was doing is gone.
Crash ==
    /\ up /\ Fault
    /\ up' = FALSE /\ handling' = FALSE
    /\ pc' = "idle" /\ retries' = [d \in Destinations |-> NoRetry]
    /\ enqueuedDuringFlush' = FALSE /\ nextAt' = 0
    /\ cur' = NoKey /\ pass' = 0 /\ deferred' = {} /\ invalid' = FALSE
    /\ todo' = [d \in Destinations |-> {}]
    /\ sent' = [d \in Destinations |-> {}]
    /\ lane' = [d \in Destinations |-> "done"]
    /\ UNCHANGED <<storage, firing, history>>

Down(t) == IF t > 0 THEN t - 1 ELSE t
Tick ==
    /\ \/ alarm > 0 \/ nextAt > 0
       \/ \E d \in Destinations : retry[d] > 0 \/ retries[d] > 0
    /\ alarm' = Down(alarm) /\ nextAt' = Down(nextAt)
    /\ retry' = [d \in Destinations |-> Down(retry[d])]
    /\ retries' = [d \in Destinations |-> Down(retries[d])]
    /\ UNCHANGED <<journal, cursor, platform, faults, pc, enqueuedDuringFlush, scan,
                   lanes, history>>

Step(d) ==
    Send(d) \/ Arrive(d) \/ SendFails(d) \/ Failed(d) \/ Acknowledge(d) \/ LocalWriteFails(d)

Next ==
    \/ \E e \in Events : Enqueue(e)
    \/ \E d \in Destinations : Step(d)
    \/ Load \/ Scan \/ ScanBounded \/ EndPass \/ LaneRejected \/ ScanFails \/ Finish
    \/ Schedule \/ ScheduleFails
    \/ Fire \/ Alarm \/ Boot \/ Crash \/ Tick

Spec == Init /\ [][Next]_vars

-----------------------------------------------------------------------------
\* State has its type; in particular a flush stays within its number of passes and
\* a lane in its protocol.
TypeOK ==
    /\ journal \subseteq Events /\ accepted \subseteq Usable
    /\ delivered \subseteq Usable
    /\ alarm \in Int /\ alarm >= -1 /\ nextAt \in Nat
    /\ retry \in [Destinations -> Int] /\ retries \in [Destinations -> Int]
    /\ cursor \in 0..N /\ cur \in 0..N /\ pass \in 0..MaxBatches
    /\ up \in BOOLEAN /\ firing \in BOOLEAN /\ handling \in BOOLEAN
    /\ faults \in 0..MaxFaults
    /\ pc \in {"idle", "load", "scan", "deliver", "finish", "schedule"}
    /\ enqueuedDuringFlush \in BOOLEAN /\ invalid \in BOOLEAN
    /\ deferred \subseteq Destinations
    /\ todo \in [Destinations -> SUBSET Usable]
    /\ sent \in [Destinations -> SUBSET Usable]
    /\ lane \in [Destinations -> {"ready", "sending", "acknowledge", "failed",
                                  "deferred", "rejected", "done"}]

\* A record a caller was told is durable stays in the journal until its
\* destination has it, through failed calls, failed local writes and evictions.
NothingLost == accepted \subseteq journal \cup delivered

\* Pending records always have a wake-up: a stored alarm, or one the platform
\* still owes a successful handler run.
NeverStranded == journal # {} => alarm # Never \/ firing

\* No accepted record is lost, and none waits without an alarm.
RecordsAreKept == TypeOK /\ NothingLost /\ NeverStranded

-----------------------------------------------------------------------------
\* The object's own steps happen, time passes, the platform runs due alarms,
\* and a destination that is asked again and again eventually takes a batch.
Flushing ==
    \/ Load \/ Scan \/ ScanBounded \/ EndPass \/ LaneRejected \/ Finish \/ Schedule
    \/ Boot \/ Alarm
\* A record that its destination is offered again and again is accepted.
Accepts(d, e) == e \in sent[d] /\ Arrive(d)
Fairness ==
    /\ WF_vars(Flushing) /\ WF_vars(Fire) /\ WF_vars(Tick)
    /\ \A d \in Destinations :
           /\ WF_vars(Send(d) \/ Failed(d) \/ Acknowledge(d))
           /\ \A e \in Usable : Destination(e) = d => SF_vars(Accepts(d, e))
FairSpec == Spec /\ Fairness

\* Every accepted record reaches its destination (records are accepted once).
EventuallyDelivered == []<>(accepted \subseteq delivered)
=============================================================================
