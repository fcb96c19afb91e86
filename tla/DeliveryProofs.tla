--------------------------- MODULE DeliveryProofs ---------------------------
(***************************************************************************)
(* Proofs about what is stored to be done later.                           *)
(*                                                                         *)
(* UsageOutbox, for a journal of any size, any number of faults and any    *)
(* delays: an accepted record is in the journal or with its destination,   *)
(* and what is in the journal will be looked at again.  ObjectAlarms, for  *)
(* any objects, processes and jobs: an object that keeps a job has an      *)
(* alarm.                                                                  *)
(***************************************************************************)
EXTENDS UsageOutbox, ObjectAlarms, WellFoundedInduction, TLAPS

-----------------------------------------------------------------------------
(* The inductive invariant. *)

\* A lane acknowledges only what its destination has taken, ...
AcknowledgesDelivered ==
    \A d \in Destinations : lane[d] = "acknowledge" => sent[d] \subseteq delivered

\* ... and a page is only delivered by a pass that is due.
PassesAreBounded == pc = "deliver" => pass < MaxBatches

OutboxInv == RecordsAreKept /\ AcknowledgesDelivered /\ PassesAreBounded

-----------------------------------------------------------------------------
(* Minimum and maximum. *)

LEMMA Least ==
  ASSUME NEW S \in SUBSET Nat, S # {}
  PROVE  \E n \in S : \A m \in S : n <= m
<1> DEFINE R == OpToRel(<, Nat)
<1>1. \A m, n \in Nat : m < n => <<m, n>> \in R
  BY DEF OpToRel
<1>2. IsWellFoundedOn(R, Nat)
  BY NatLessThanWellFounded
<1> HIDE DEF R
<1>3. PICK n \in S : \A m \in S : ~ (<<m, n>> \in R)
  BY <1>2, WFMin
<1>4. \A m \in S : m \in Nat /\ n \in Nat /\ ~ (m < n)
  BY <1>1, <1>3
<1>5. \A m \in S : n <= m
  BY <1>4
<1> QED BY <1>5

LEMMA MinOfNaturals ==
  ASSUME NEW S \in SUBSET Nat, S # {}
  PROVE  Min(S) \in S
BY Least DEF Min

LEMMA MaxOfEvents ==
  ASSUME NEW S \in SUBSET Events, S # {}
  PROVE  Max(S) \in S
<1>1. N \in Nat
  BY ConstantsAssumption
<1> DEFINE T == {N - e : e \in S}
<1>2. T \in SUBSET Nat /\ T # {}
  <2>1. \A e \in S : e \in 1..N
    BY DEF Events
  <2>2. \A e \in 1..N : N - e \in Nat
    BY <1>1
  <2> QED BY <2>1, <2>2
<1>3. PICK n \in T : \A m \in T : n <= m
  BY <1>2, Least
<1>4. PICK e \in S : n = N - e
  BY <1>3
<1>5. \A x \in S : N - e <= N - x
  BY <1>3, <1>4
<1>6. \A x \in S : e >= x
  BY <1>1, <1>5 DEF Events
<1> QED BY <1>6 DEF Max

-----------------------------------------------------------------------------
\* A wake-up is never "never".
LEMMA WakeUp ==
  ASSUME NEW a \in Int, NEW b \in Nat, a >= -1
  PROVE  Earlier(a, b) \in Nat
BY DEF Earlier, Never

LEMMA OutboxInit ==
  ASSUME Init
  PROVE  OutboxInv
<1>1. /\ RetryDelay \in Nat \ {0} /\ Invalid \subseteq Events /\ Ignored \subseteq Events
      /\ MaxBatches \in Nat /\ MaxFaults \in Nat /\ N \in Nat
  BY ConstantsAssumption DEF Events
<1>2. TypeOK
  <2>1. journal \subseteq Events /\ alarm \in Int /\ alarm >= -1
    BY <1>1 DEF Init, Never
  <2>2. /\ retry \in [Destinations -> Int] /\ retries \in [Destinations -> Int]
        /\ todo \in [Destinations -> SUBSET Usable] /\ sent \in [Destinations -> SUBSET Usable]
        /\ lane \in [Destinations -> {"ready", "sending", "acknowledge", "failed",
                                      "deferred", "rejected", "done"}]
    BY DEF Init, NoLanes, NoRetry
  <2>3. cursor \in 0..N /\ cur \in 0..N /\ pass \in 0..MaxBatches /\ faults \in 0..MaxFaults
    BY <1>1 DEF Init, NoKey
  <2> QED BY <2>1, <2>2, <2>3 DEF Init, TypeOK
<1>3. NothingLost /\ NeverStranded /\ PassesAreBounded
  BY <1>1 DEF Init, NothingLost, NeverStranded, PassesAreBounded, Never
<1>4. AcknowledgesDelivered
  BY DEF Init, NoLanes, AcknowledgesDelivered
<1> QED BY <1>2, <1>3, <1>4 DEF OutboxInv, RecordsAreKept

\* Steps that neither accept, deliver nor remove a record and leave the alarm.
LEMMA QuietStep ==
  ASSUME OutboxInv, UNCHANGED <<journal, alarm, firing, accepted, delivered>>
  PROVE  NothingLost' /\ NeverStranded'
BY DEF OutboxInv, RecordsAreKept, NothingLost, NeverStranded

LEMMA FlushTypes ==
  ASSUME OutboxInv, Flush
  PROVE  /\ pc' \in {"idle", "load", "scan", "deliver", "finish", "schedule"}
         /\ nextAt' \in Nat /\ enqueuedDuringFlush' \in BOOLEAN
         /\ UNCHANGED <<scan, lanes>> /\ (pc' = "deliver" => pc = "deliver")
BY ConstantsAssumption DEF OutboxInv, RecordsAreKept, TypeOK, Flush

LEMMA EnqueueStep ==
  ASSUME OutboxInv, NEW e \in Events, Enqueue(e)
  PROVE  OutboxInv'
<1>1. /\ up /\ e \in Usable /\ journal' = journal \cup {e} /\ accepted' = accepted \cup {e}
      /\ UNCHANGED <<retry, cursor, platform, faults, retries, delivered>>
  BY DEF Enqueue
<1>2. alarm' = Earlier(alarm, IF Ready(retry[Destination(e)]) THEN RetryDelay
                              ELSE retry[Destination(e)])
  BY DEF Enqueue
<1>3. (IF Ready(retry[Destination(e)]) THEN RetryDelay ELSE retry[Destination(e)]) \in Nat
  BY ConstantsAssumption DEF OutboxInv, RecordsAreKept, TypeOK, Ready, Destination, Destinations
<1>4. alarm' \in Nat
  BY <1>2, <1>3, WakeUp DEF OutboxInv, RecordsAreKept, TypeOK
<1>5. /\ pc' \in {"idle", "load", "scan", "deliver", "finish", "schedule"}
      /\ nextAt' \in Nat /\ enqueuedDuringFlush' \in BOOLEAN
      /\ UNCHANGED <<scan, lanes>> /\ (pc' = "deliver" => pc = "deliver")
  <2>1. CASE Flush
    BY <2>1, FlushTypes
  <2>2. CASE ~Flush
    BY <2>2 DEF Enqueue, OutboxInv, RecordsAreKept, TypeOK
  <2> QED BY <2>1, <2>2
<1>6. TypeOK'
  BY <1>1, <1>4, <1>5 DEF OutboxInv, RecordsAreKept, TypeOK, platform, scan, lanes, Usable
<1>7. NothingLost' /\ NeverStranded'
  BY <1>1, <1>4 DEF OutboxInv, RecordsAreKept, NothingLost, NeverStranded, Never
<1>8. AcknowledgesDelivered' /\ PassesAreBounded'
  BY <1>1, <1>5 DEF OutboxInv, AcknowledgesDelivered, PassesAreBounded, scan, lanes
<1> QED BY <1>6, <1>7, <1>8 DEF OutboxInv, RecordsAreKept

LEMMA ScanStep ==
  ASSUME OutboxInv, Load \/ Scan \/ ScanBounded
  PROVE  OutboxInv'
<1>1. CASE Load
  <2>1. TypeOK'
    <3>1. pass' \in 0..MaxBatches
      BY <1>1, ConstantsAssumption DEF Load
    <3> QED BY <1>1, <3>1 DEF Load, OutboxInv, RecordsAreKept, TypeOK, storage, platform, lanes, history
  <2>2. AcknowledgesDelivered' /\ PassesAreBounded'
    BY <1>1 DEF Load, OutboxInv, AcknowledgesDelivered, PassesAreBounded, lanes, history
  <2> QED BY <1>1, <2>1, <2>2, QuietStep DEF OutboxInv, RecordsAreKept, Load, storage, platform, history
<1>2. CASE ScanBounded
  <2>1. TypeOK'
    BY <1>2 DEF ScanBounded, OutboxInv, RecordsAreKept, TypeOK, storage, platform, lanes, history, scan
  <2>2. AcknowledgesDelivered' /\ PassesAreBounded'
    BY <1>2 DEF ScanBounded, OutboxInv, AcknowledgesDelivered, PassesAreBounded, lanes, history
  <2> QED BY <1>2, <2>1, <2>2, QuietStep DEF OutboxInv, RecordsAreKept, ScanBounded, storage, platform, history
<1>3. CASE Scan
  <2>1. /\ pc = "scan" /\ pass < MaxBatches /\ cursor' \in {NoKey, cursor}
        /\ UNCHANGED <<alarm, retry, platform, faults, retries, enqueuedDuringFlush, pass,
                       deferred, nextAt, history>>
    BY <1>3 DEF Scan
  <2>2. Pending \subseteq journal
    BY DEF Pending, Page, After
  <2>3. CASE Pending = {}
    <3>1. pc' = "finish" /\ UNCHANGED <<journal, invalid, cur, lanes>>
      BY <1>3, <2>3 DEF Scan
    <3>2. TypeOK'
      BY <2>1, <3>1, ConstantsAssumption
         DEF OutboxInv, RecordsAreKept, TypeOK, platform, lanes, history, NoKey
    <3>3. AcknowledgesDelivered' /\ PassesAreBounded'
      BY <2>1, <3>1 DEF OutboxInv, AcknowledgesDelivered, PassesAreBounded, lanes, history
    <3> QED BY <2>1, <3>1, <3>2, <3>3, QuietStep DEF OutboxInv, RecordsAreKept, platform, history
  <2>4. CASE Pending # {}
    <3>1. /\ pc' = "deliver" /\ cur' = Max(Pending) /\ journal' = journal \ (Pending \cap Ignored)
          /\ invalid' = (invalid \/ Pending \cap Invalid # {})
          /\ todo' = [d \in Destinations |-> Lane(Pending \cap Usable, d)]
          /\ lane' = [d \in Destinations |-> "ready"] /\ sent' = sent
      BY <1>3, <2>4 DEF Scan
    <3>2. cur' \in 0..N
      <4>1. Pending \in SUBSET Events
        BY <2>2 DEF OutboxInv, RecordsAreKept, TypeOK
      <4>2. cur' \in Events
        BY <2>4, <3>1, <4>1, MaxOfEvents
      <4> QED BY <4>2, ConstantsAssumption DEF Events
    <3>3. \A d \in Destinations : Lane(Pending \cap Usable, d) \subseteq Usable
      BY DEF Lane
    <3>4. TypeOK'
      <4>1. /\ journal' \subseteq Events /\ accepted' \subseteq Usable /\ delivered' \subseteq Usable
            /\ cursor' \in 0..N /\ invalid' \in BOOLEAN /\ pc' = "deliver"
        BY <2>1, <3>1, ConstantsAssumption DEF OutboxInv, RecordsAreKept, TypeOK, history, NoKey
      <4>2. /\ todo' \in [Destinations -> SUBSET Usable]
            /\ lane' \in [Destinations -> {"ready", "sending", "acknowledge", "failed",
                                           "deferred", "rejected", "done"}]
        BY <3>1, <3>3
      <4> QED BY <2>1, <3>1, <3>2, <4>1, <4>2 DEF OutboxInv, RecordsAreKept, TypeOK, platform
    <3>5. AcknowledgesDelivered' /\ PassesAreBounded'
      BY <2>1, <3>1 DEF AcknowledgesDelivered, PassesAreBounded
    <3>6. NothingLost'
      BY <2>1, <3>1 DEF OutboxInv, RecordsAreKept, NothingLost, TypeOK, Usable, history
    <3>7. NeverStranded'
      BY <2>1, <3>1 DEF OutboxInv, RecordsAreKept, NeverStranded, platform
    <3> QED BY <3>4, <3>5, <3>6, <3>7 DEF OutboxInv, RecordsAreKept
  <2> QED BY <2>3, <2>4
<1> QED BY <1>1, <1>2, <1>3

LEMMA SendingStep ==
  ASSUME OutboxInv, NEW d \in Destinations, Send(d) \/ Arrive(d) \/ SendFails(d)
  PROVE  OutboxInv'
<1>1. /\ pc = "deliver" /\ UNCHANGED <<storage, platform, faults, pc, retries,
                                      enqueuedDuringFlush, scan, nextAt, accepted>>
  BY DEF Send, Arrive, SendFails, history
<1>2. TypeOK /\ NothingLost /\ NeverStranded /\ AcknowledgesDelivered /\ PassesAreBounded
  BY DEF OutboxInv, RecordsAreKept
<1>3. /\ todo' \in [Destinations -> SUBSET Usable] /\ sent' \in [Destinations -> SUBSET Usable]
      /\ lane' \in [Destinations -> {"ready", "sending", "acknowledge", "failed",
                                     "deferred", "rejected", "done"}]
      /\ delivered \subseteq delivered' /\ delivered' \subseteq Usable
      /\ AcknowledgesDelivered'
  <2>1. CASE Send(d)
    <3>1. /\ \/ UNCHANGED <<todo, sent>>
             \/ \E b \in SUBSET todo[d] : /\ sent' = [sent EXCEPT ![d] = b]
                                          /\ todo' = [todo EXCEPT ![d] = @ \ b]
          /\ \E l \in {"done", "deferred", "sending"} : lane' = [lane EXCEPT ![d] = l]
          /\ delivered' = delivered
      BY <2>1 DEF Send, Batches, history
    <3>2. todo' \in [Destinations -> SUBSET Usable] /\ sent' \in [Destinations -> SUBSET Usable]
      BY <1>2, <3>1 DEF TypeOK
    <3>3. lane' \in [Destinations -> {"ready", "sending", "acknowledge", "failed",
                                     "deferred", "rejected", "done"}]
      BY <1>2, <3>1 DEF TypeOK
    <3>4. \A x \in Destinations : lane'[x] = "acknowledge" =>
             lane[x] = "acknowledge" /\ sent'[x] = sent[x]
      BY <1>2, <3>1 DEF TypeOK
    <3> QED BY <1>2, <3>1, <3>2, <3>3, <3>4 DEF TypeOK, AcknowledgesDelivered
  <2>2. CASE Arrive(d)
    BY <1>2, <2>2 DEF Arrive, TypeOK, AcknowledgesDelivered
  <2>3. CASE SendFails(d)
    <3>1. /\ delivered \subseteq delivered' /\ delivered' \subseteq Usable
          /\ lane' = [lane EXCEPT ![d] = "failed"] /\ UNCHANGED <<todo, sent>>
      BY <1>2, <2>3 DEF SendFails, TypeOK
    <3> QED BY <1>2, <3>1 DEF TypeOK, AcknowledgesDelivered
  <2> QED BY <2>1, <2>2, <2>3
<1>4. TypeOK'
  BY <1>1, <1>2, <1>3 DEF TypeOK, storage, platform, scan
<1>5. NothingLost' /\ NeverStranded' /\ PassesAreBounded'
  BY <1>1, <1>2, <1>3
     DEF NothingLost, NeverStranded, PassesAreBounded, storage, platform, scan
<1> QED BY <1>3, <1>4, <1>5 DEF OutboxInv, RecordsAreKept

LEMMA SettlingStep ==
  ASSUME OutboxInv, NEW d \in Destinations, Failed(d) \/ Acknowledge(d) \/ LocalWriteFails(d)
  PROVE  OutboxInv'
<1>1. /\ pc = "deliver" /\ UNCHANGED <<alarm, cursor, platform, pc, enqueuedDuringFlush,
                                      scan, todo, nextAt, history>>
      /\ sent' = [sent EXCEPT ![d] = {}]
      /\ \E l \in {"deferred", "ready", "rejected"} : lane' = [lane EXCEPT ![d] = l]
  BY DEF Failed, Acknowledge, LocalWriteFails, storage, platform
<1>2. TypeOK /\ NothingLost /\ NeverStranded /\ AcknowledgesDelivered /\ PassesAreBounded
  BY DEF OutboxInv, RecordsAreKept
<1>3. /\ sent' \in [Destinations -> SUBSET Usable]
      /\ lane' \in [Destinations -> {"ready", "sending", "acknowledge", "failed",
                                     "deferred", "rejected", "done"}]
  BY <1>1, <1>2 DEF TypeOK
<1>4. AcknowledgesDelivered'
  <2>1. \A x \in Destinations : lane'[x] = "acknowledge" =>
           lane[x] = "acknowledge" /\ sent'[x] = sent[x]
    BY <1>1, <1>2 DEF TypeOK
  <2> QED BY <1>1, <1>2, <2>1 DEF AcknowledgesDelivered, history
<1>5. /\ journal' \subseteq journal /\ journal \subseteq journal' \cup delivered
      /\ retry' \in [Destinations -> Int] /\ retries' \in [Destinations -> Int]
      /\ faults' \in 0..MaxFaults
  <2>1. CASE Failed(d)
    <3>1. PICK b \in Backoffs : /\ retry' = [retry EXCEPT ![d] = b]
                               /\ retries' = [retries EXCEPT ![d] = b]
      BY <2>1 DEF Failed
    <3>2. b \in Int
      BY ConstantsAssumption
    <3>3. retry' \in [Destinations -> Int] /\ retries' \in [Destinations -> Int]
      BY <1>2, <3>1, <3>2 DEF TypeOK
    <3> QED BY <1>2, <2>1, <3>3 DEF Failed, TypeOK
  <2>2. CASE Acknowledge(d)
    <3>1. retry' \in [Destinations -> Int] /\ retries' \in [Destinations -> Int]
      BY <1>2, <2>2 DEF Acknowledge, TypeOK, NoRetry
    <3>2. journal' = journal \ sent[d] /\ sent[d] \subseteq delivered
      BY <1>2, <2>2 DEF Acknowledge, AcknowledgesDelivered
    <3> QED BY <1>2, <2>2, <3>1, <3>2 DEF Acknowledge, TypeOK
  <2>3. CASE LocalWriteFails(d)
    BY <1>2, <2>3, ConstantsAssumption DEF LocalWriteFails, TypeOK, Fault, storage
  <2> QED BY <2>1, <2>2, <2>3
<1>6. TypeOK'
  BY <1>1, <1>2, <1>3, <1>5 DEF TypeOK, platform, scan, history
<1>7. NothingLost' /\ NeverStranded' /\ PassesAreBounded'
  BY <1>1, <1>2, <1>5 DEF NothingLost, NeverStranded, PassesAreBounded, platform, scan, history
<1> QED BY <1>4, <1>6, <1>7 DEF OutboxInv, RecordsAreKept

LEMMA PassStep ==
  ASSUME OutboxInv, EndPass \/ LaneRejected \/ ScanFails \/ Finish
  PROVE  OutboxInv'
<1>1. TypeOK /\ PassesAreBounded /\ AcknowledgesDelivered
  BY DEF OutboxInv, RecordsAreKept
<1>2. /\ pc' \in {"scan", "schedule"} /\ UNCHANGED <<journal, alarm, retry, platform, retries, sent, history>>
      /\ UNCHANGED <<enqueuedDuringFlush, cur, invalid>>
  BY DEF EndPass, LaneRejected, ScanFails, Finish, Abandon, storage, scan, lanes, history
<1>3. NothingLost' /\ NeverStranded'
  BY <1>2, QuietStep DEF platform, history
<1>4. PassesAreBounded'
  BY <1>2 DEF PassesAreBounded
<1>5. /\ todo' \in [Destinations -> SUBSET Usable]
      /\ lane' \in [Destinations -> {"ready", "sending", "acknowledge", "failed",
                                     "deferred", "rejected", "done"}]
      /\ AcknowledgesDelivered'
  <2>1. CASE lane' = [d \in Destinations |-> "done"] /\ todo' = [d \in Destinations |-> {}]
    BY <2>1 DEF AcknowledgesDelivered
  <2>2. CASE Finish
    BY <1>1, <2>2 DEF Finish, lanes, history, TypeOK, AcknowledgesDelivered
  <2> QED BY <2>1, <2>2 DEF EndPass, LaneRejected, ScanFails, Abandon
<1>6. /\ cursor' \in 0..N /\ pass' \in 0..MaxBatches /\ faults' \in 0..MaxFaults
      /\ deferred' \subseteq Destinations
  <2>1. CASE EndPass
    BY <1>1, <2>1, ConstantsAssumption DEF EndPass, TypeOK, PassesAreBounded
  <2>2. CASE LaneRejected \/ ScanFails \/ Finish
    BY <1>1, <2>2, ConstantsAssumption
       DEF LaneRejected, ScanFails, Finish, Abandon, Fault, TypeOK, storage, scan
  <2> QED BY <2>1, <2>2
<1>7. nextAt' \in Nat
  <2>1. CASE ~Finish
    BY <1>1, <2>1 DEF EndPass, LaneRejected, ScanFails, Abandon, TypeOK
  <2>2. CASE Finish
    <3>1. Deadlines \in SUBSET Nat
      BY <1>1, ConstantsAssumption DEF Deadlines, Ready, TypeOK
    <3>2. Deadlines # {} => Min(Deadlines) \in Nat
      BY <3>1, MinOfNaturals
    <3> QED BY <1>1, <2>2, <3>2 DEF Finish, TypeOK
  <2> QED BY <2>1, <2>2
<1>8. TypeOK'
  BY <1>1, <1>2, <1>5, <1>6, <1>7 DEF TypeOK, platform, history
<1> QED BY <1>3, <1>4, <1>5, <1>8 DEF OutboxInv, RecordsAreKept

\* schedule() leaves an alarm behind whenever there is something in the journal.
LEMMA Scheduled ==
  ASSUME OutboxInv, NEW wake, wake \in Nat \cup {Never}, ScheduleStore(wake), UNCHANGED journal
  PROVE  /\ alarm' \in Int /\ alarm' >= -1 /\ (journal' # {} => alarm' # Never)
         /\ retry' \in [Destinations -> Int] /\ cursor' \in 0..N
<1>1. TypeOK
  BY DEF OutboxInv, RecordsAreKept
<1>2. CASE journal = {}
  BY <1>1, <1>2, ConstantsAssumption DEF ScheduleStore, TypeOK, NoKey, NoRetry, Never
<1>3. CASE journal # {}
  BY <1>1, <1>3, ConstantsAssumption DEF ScheduleStore, TypeOK, Never
<1> QED BY <1>2, <1>3

LEMMA ScheduleStep ==
  ASSUME OutboxInv, Schedule \/ ScheduleFails \/ Boot
  PROVE  OutboxInv'
<1>1. TypeOK /\ NothingLost /\ NeverStranded /\ AcknowledgesDelivered /\ PassesAreBounded
  BY DEF OutboxInv, RecordsAreKept
<1>2. /\ UNCHANGED <<journal, retries, enqueuedDuringFlush, scan, lanes, nextAt, history>>
      /\ pc' = "deliver" => pc = "deliver"
      /\ pc' \in {"idle", "load", "scan", "deliver", "finish", "schedule"}
      /\ up' \in BOOLEAN /\ firing' \in BOOLEAN /\ handling' \in BOOLEAN
      /\ faults' \in 0..MaxFaults
  <2>1. CASE Schedule \/ Boot
    BY <1>1, <2>1 DEF Schedule, Boot, TypeOK, platform
  <2>2. CASE ScheduleFails
    <3>1. faults' \in 0..MaxFaults
      BY <1>1, <2>2, ConstantsAssumption DEF ScheduleFails, Fault, TypeOK
    <3>2. UNCHANGED <<journal, retries, enqueuedDuringFlush, scan, lanes, nextAt, history>>
      BY <2>2 DEF ScheduleFails, storage
    <3>3. pc' = "idle" /\ up' \in BOOLEAN /\ firing' \in BOOLEAN /\ handling' \in BOOLEAN
      BY <1>1, <2>2 DEF ScheduleFails, TypeOK
    <3> QED BY <3>1, <3>2, <3>3
  <2> QED BY <2>1, <2>2
<1>3. /\ alarm' \in Int /\ alarm' >= -1 /\ (journal' # {} => alarm' # Never \/ firing')
      /\ retry' \in [Destinations -> Int] /\ cursor' \in 0..N
  <2>1. CASE Schedule
    <3> DEFINE wake == IF enqueuedDuringFlush THEN Earlier(nextAt, RetryDelay) ELSE nextAt
    <3>1. wake \in Nat
      BY <1>1, WakeUp, ConstantsAssumption DEF TypeOK
    <3>2. ScheduleStore(wake)
      BY <2>1 DEF Schedule
    <3> HIDE DEF wake
    <3> QED BY <1>2, <3>1, <3>2, Scheduled
  <2>2. CASE Boot
    BY <1>2, <2>2, Scheduled DEF Boot
  <2>3. CASE ScheduleFails
    BY <1>1, <2>3 DEF ScheduleFails, storage, TypeOK, NeverStranded
  <2> QED BY <2>1, <2>2, <2>3
<1>4. TypeOK'
  BY <1>1, <1>2, <1>3 DEF TypeOK, scan, lanes, history
<1>5. NothingLost' /\ NeverStranded' /\ AcknowledgesDelivered' /\ PassesAreBounded'
  BY <1>1, <1>2, <1>3
     DEF NothingLost, NeverStranded, AcknowledgesDelivered, PassesAreBounded, scan, lanes, history
<1> QED BY <1>4, <1>5 DEF OutboxInv, RecordsAreKept

LEMMA PlatformStep ==
  ASSUME OutboxInv, Fire \/ Alarm \/ Crash \/ Tick
  PROVE  OutboxInv'
<1>1. TypeOK /\ NothingLost /\ NeverStranded /\ AcknowledgesDelivered /\ PassesAreBounded
  BY DEF OutboxInv, RecordsAreKept
<1>2. CASE Fire
  <2>1. TypeOK'
    BY <1>1, <1>2 DEF Fire, TypeOK, Never, scan, lanes, history
  <2>2. NothingLost' /\ NeverStranded' /\ AcknowledgesDelivered' /\ PassesAreBounded'
    BY <1>1, <1>2 DEF Fire, NothingLost, NeverStranded, AcknowledgesDelivered, PassesAreBounded,
                      scan, lanes, history
  <2> QED BY <2>1, <2>2 DEF OutboxInv, RecordsAreKept
<1>3. CASE Alarm
  <2>1. /\ handling' = TRUE
        /\ UNCHANGED <<storage, up, firing, faults, retries, accepted, delivered>>
        /\ pc' \in {"idle", "load", "scan", "deliver", "finish", "schedule"}
        /\ nextAt' \in Nat /\ enqueuedDuringFlush' \in BOOLEAN
        /\ UNCHANGED <<scan, lanes>> /\ (pc' = "deliver" => pc = "deliver")
    BY <1>3, FlushTypes DEF Alarm
  <2>2. TypeOK'
    BY <1>1, <2>1 DEF TypeOK, storage, scan, lanes
  <2>3. NothingLost' /\ NeverStranded' /\ AcknowledgesDelivered' /\ PassesAreBounded'
    BY <1>1, <2>1 DEF NothingLost, NeverStranded, AcknowledgesDelivered, PassesAreBounded,
                      storage, scan, lanes
  <2> QED BY <2>2, <2>3 DEF OutboxInv, RecordsAreKept
<1>4. CASE Crash
  <2>1. /\ UNCHANGED <<storage, firing, history>> /\ faults' \in 0..MaxFaults
        /\ cur' \in 0..N /\ pass' \in 0..MaxBatches
    BY <1>1, <1>4, ConstantsAssumption DEF Crash, Fault, TypeOK, NoKey
  <2>2. /\ todo' \in [Destinations -> SUBSET Usable] /\ sent' \in [Destinations -> SUBSET Usable]
        /\ lane' = [d \in Destinations |-> "done"] /\ retries' \in [Destinations -> Int]
    BY <1>4 DEF Crash, NoRetry
  <2>3. TypeOK'
    BY <1>1, <1>4, <2>1, <2>2 DEF Crash, TypeOK, storage, history
  <2>4. NothingLost' /\ NeverStranded' /\ PassesAreBounded'
    BY <1>1, <1>4, <2>1 DEF Crash, NothingLost, NeverStranded, PassesAreBounded, storage, history
  <2>5. AcknowledgesDelivered'
    BY <2>2 DEF AcknowledgesDelivered
  <2> QED BY <2>3, <2>4, <2>5 DEF OutboxInv, RecordsAreKept
<1>5. CASE Tick
  <2>1. /\ alarm' = Down(alarm) /\ nextAt' = Down(nextAt)
        /\ retry' = [d \in Destinations |-> Down(retry[d])]
        /\ retries' = [d \in Destinations |-> Down(retries[d])]
        /\ UNCHANGED <<journal, cursor, platform, faults, pc, enqueuedDuringFlush, scan,
                       lanes, history>>
    BY <1>5 DEF Tick
  <2>2. \A t \in Int : Down(t) \in Int /\ (t >= 0 => Down(t) >= 0) /\ (t = -1 => Down(t) = -1)
    BY DEF Down
  <2>3. /\ alarm' \in Int /\ alarm' >= -1 /\ nextAt' \in Nat /\ (alarm # -1 => alarm' # -1)
    BY <1>1, <2>1, <2>2 DEF TypeOK
  <2>4. retry' \in [Destinations -> Int] /\ retries' \in [Destinations -> Int]
    BY <1>1, <2>1, <2>2 DEF TypeOK
  <2>5. TypeOK'
    BY <1>1, <2>1, <2>3, <2>4 DEF TypeOK, platform, scan, lanes, history
  <2>6. NothingLost' /\ NeverStranded' /\ AcknowledgesDelivered' /\ PassesAreBounded'
    BY <1>1, <2>1, <2>3 DEF NothingLost, NeverStranded, AcknowledgesDelivered, PassesAreBounded,
                            Never, platform, scan, lanes, history
  <2> QED BY <2>5, <2>6 DEF OutboxInv, RecordsAreKept
<1> QED BY <1>2, <1>3, <1>4, <1>5

LEMMA OutboxStep ==
  ASSUME OutboxInv, [Next]_vars
  PROVE  OutboxInv'
<1>1. CASE \E e \in Events : Enqueue(e)
  BY <1>1, EnqueueStep
<1>2. CASE \E d \in Destinations : Step(d)
  BY <1>2, SendingStep, SettlingStep DEF Step
<1>3. CASE Load \/ Scan \/ ScanBounded
  BY <1>3, ScanStep
<1>4. CASE EndPass \/ LaneRejected \/ ScanFails \/ Finish
  BY <1>4, PassStep
<1>5. CASE Schedule \/ ScheduleFails \/ Boot
  BY <1>5, ScheduleStep
<1>6. CASE Fire \/ Alarm \/ Crash \/ Tick
  BY <1>6, PlatformStep
<1>7. CASE UNCHANGED vars
  BY <1>7 DEF OutboxInv, RecordsAreKept, TypeOK, NothingLost, NeverStranded,
              AcknowledgesDelivered, PassesAreBounded, vars, storage, platform, scan, lanes, history
<1> QED BY <1>1, <1>2, <1>3, <1>4, <1>5, <1>6, <1>7 DEF Next

-----------------------------------------------------------------------------
\* The inductive invariant holds in every reachable state.
THEOREM OutboxInvariant == Spec => []OutboxInv
BY OutboxInit, OutboxStep, PTL DEF Spec

\* A record is in the journal until its destination has it, and a journal that
\* is not empty has an alarm, through failed calls, failed local writes and
\* evictions (UsageOutboxCore.enqueue, deliver, acknowledge, schedule).
THEOREM Kept == Spec => []RecordsAreKept
<1>1. OutboxInv => RecordsAreKept
  BY DEF OutboxInv
<1> QED BY <1>1, OutboxInvariant, PTL

-----------------------------------------------------------------------------
(* The objects' alarms.  A handler that has left no job is about to delete   *)
(* the alarm.  As long as it still has the fence nobody else has added one,  *)
(* and once it has lost the fence its write no longer counts.                *)

Times == {"due", "later", None}

\* A thread that is not idle and does not tick serves an invocation.
Serves(r) == r.pc \notin {"idle", "tick"}

ThreadOK(r) ==
    /\ "pc" \in DOMAIN r
    /\ Serves(r) => "object" \in DOMAIN r /\ r.object \in Objects
    /\ r.pc = "tick" => "todo" \in DOMAIN r
    /\ "todo" \in DOMAIN r => r.todo \subseteq Objects

\* What the thread t, in state r, relies on when it deletes an alarm.
RestsAssured(t, r, fences, kept) ==
    r.pc = "handled" /\ fences[r.object] = t => kept[r.object] = {}

AlarmsInv ==
    /\ wakeups \in [Objects -> Times]
    /\ jobs = [o \in Objects |-> jobs[o]] /\ fence = [o \in Objects |-> fence[o]]
    /\ threads = [t \in Threads |-> threads[t]]
    /\ \A t \in Threads : ThreadOK(threads[t]) /\ RestsAssured(t, threads[t], fence, jobs)
    /\ JobsAreArmed

LEMMA Going ==
    ASSUME NEW r, ThreadOK(r), Serves(r), NEW next, next \notin {"idle", "tick"}
    PROVE  LET moved == [r EXCEPT !.pc = next]
           IN  ThreadOK(moved) /\ moved.pc = next /\ moved.object = r.object
BY DEF ThreadOK, Serves

LEMMA IdleOK == ThreadOK(Idle) /\ Idle.pc = "idle"
BY DEF ThreadOK, Serves, Idle

\* A thread moves and nothing that is stored changes.
LEMMA ThreadMoves ==
    ASSUME AlarmsInv, UNCHANGED <<wakeups, jobs, fence>>,
           NEW t \in Threads, NEW r, threads' = [threads EXCEPT ![t] = r],
           ThreadOK(r), r.pc # "handled"
    PROVE  AlarmsInv'
<1>1. threads' = [u \in Threads |-> threads'[u]] /\ threads'[t] = r
      /\ \A u \in Threads : u # t => threads'[u] = threads[u]
  BY DEF AlarmsInv
<1>2. \A u \in Threads : ThreadOK(threads'[u]) /\ RestsAssured(u, threads'[u], fence, jobs)
  BY <1>1 DEF AlarmsInv, RestsAssured
<1> QED
  BY <1>1, <1>2 DEF AlarmsInv, JobsAreArmed

LEMMA ThreadGoes ==
    ASSUME AlarmsInv, UNCHANGED <<wakeups, jobs, fence>>,
           NEW t \in Threads, NEW next, Serves(threads[t]), next \notin {"idle", "tick", "handled"},
           Goto(t, next)
    PROVE  AlarmsInv'
<1> DEFINE r == [threads[t] EXCEPT !.pc = next]
<1>1. threads' = [threads EXCEPT ![t] = r]
  BY DEF Goto, AlarmsInv
<1>2. ThreadOK(r) /\ r.pc = next
  BY Going DEF AlarmsInv
<1> HIDE DEF r
<1> QED
  BY <1>1, <1>2, ThreadMoves

\* A thread that is refused only has to let the object go.
Refused(t) == [pc |-> "release", object |-> threads[t].object]

LEMMA RefusedMoves ==
    ASSUME AlarmsInv, NEW t \in Threads, Serves(threads[t]), Reject(t)
    PROVE  /\ threads' = [threads EXCEPT ![t] = Refused(t)]
           /\ ThreadOK(Refused(t)) /\ Refused(t).pc # "handled"
<1>1. threads' = [threads EXCEPT ![t] = Refused(t)]
  BY DEF Reject, Refused, AlarmsInv
<1>2. threads[t].object \in Objects
  BY DEF AlarmsInv, ThreadOK
<1>3. ThreadOK(Refused(t)) /\ Refused(t).pc # "handled"
  BY <1>2 DEF ThreadOK, Serves, Refused
<1> QED
  BY <1>1, <1>3

LEMMA RejectKeeps ==
    ASSUME AlarmsInv, UNCHANGED <<wakeups, jobs, fence>>,
           NEW t \in Threads, Serves(threads[t]), Reject(t)
    PROVE  AlarmsInv'
BY RefusedMoves, ThreadMoves

\* A fenced transaction: no other thread has the fence, so none relies on
\* what its object kept.
LEMMA CommitKeeps ==
    ASSUME AlarmsInv, NEW t \in Threads, Serves(threads[t]), Fenced(t), UNCHANGED fence,
           NEW kept, NEW time \in Times, Commit(t, kept, time), kept # {} => time # None,
           NEW next, next \notin {"idle", "tick"}, next = "handled" => kept = {}, Goto(t, next)
    PROVE  AlarmsInv'
<1> DEFINE r == [threads[t] EXCEPT !.pc = next]
           o == threads[t].object
<1>1. threads' = [threads EXCEPT ![t] = r]
  BY DEF Goto, AlarmsInv
<1>2. ThreadOK(r) /\ r.pc = next /\ r.object = o /\ o \in Objects
  <2>1. ThreadOK(threads[t])
    BY DEF AlarmsInv
  <2> QED
    BY <2>1, Going DEF ThreadOK
<1>3. /\ jobs' = [jobs EXCEPT ![o] = kept] /\ wakeups' = [wakeups EXCEPT ![o] = time]
      /\ fence[o] = t
  BY DEF Commit, Obj, Fenced
<1> HIDE DEF r, o
<1>4. /\ jobs' = [p \in Objects |-> jobs'[p]] /\ jobs'[o] = kept
      /\ \A p \in Objects : p # o => jobs'[p] = jobs[p]
  BY <1>2, <1>3 DEF AlarmsInv
<1>5. /\ wakeups' \in [Objects -> Times] /\ wakeups'[o] = time
      /\ \A p \in Objects : p # o => wakeups'[p] = wakeups[p]
  BY <1>2, <1>3 DEF AlarmsInv
<1>6. JobsAreArmed'
  BY <1>4, <1>5 DEF AlarmsInv, JobsAreArmed
<1>7. threads' = [u \in Threads |-> threads'[u]] /\ threads'[t] = r
      /\ \A u \in Threads : u # t => threads'[u] = threads[u]
  BY <1>1 DEF AlarmsInv
<1>8. ASSUME NEW u \in Threads
      PROVE  ThreadOK(threads'[u]) /\ RestsAssured(u, threads'[u], fence, jobs')
  <2>1. CASE u = t
    BY <1>2, <1>4, <1>7, <2>1 DEF RestsAssured
  <2>2. CASE u # t
    <3>1. threads'[u] = threads[u] /\ ThreadOK(threads[u]) /\ RestsAssured(u, threads[u], fence, jobs)
      BY <1>7, <2>2 DEF AlarmsInv
    <3>2. threads[u].pc = "handled" => threads[u].object \in Objects
      BY <3>1 DEF ThreadOK, Serves
    <3> QED
      BY <1>3, <1>4, <2>2, <3>1, <3>2 DEF RestsAssured
  <2> QED
    BY <2>1, <2>2
<1> QED
  BY <1>4, <1>5, <1>6, <1>7, <1>8 DEF AlarmsInv

LEMMA QueueKeeps ==
    ASSUME AlarmsInv, UNCHANGED <<wakeups, jobs, fence>>,
           NEW t \in Threads, NEW o, NEW r, Queue(t, o, r), ThreadOK(r), r.pc # "handled"
    PROVE  AlarmsInv'
BY ThreadMoves DEF Queue

LEMMA CallKeeps ==
    ASSUME AlarmsInv, NEW p \in Processes, Call(p)
    PROVE  AlarmsInv'
<1> DEFINE t == <<p, "call">>
           r(j) == [pc |-> "queued", object |-> ObjectOf[j], job |-> j]
<1>1. t \in Threads /\ UNCHANGED <<wakeups, jobs, fence>>
  BY DEF Threads, Call, Stored
<1>2. PICK j \in Jobs : Queue(t, ObjectOf[j], r(j))
  BY DEF Call
<1>3. ThreadOK(r(j)) /\ r(j).pc # "handled"
  BY AlarmsAssumption DEF ThreadOK, Serves
<1> HIDE DEF t, r
<1> QED
  BY <1>1, <1>2, <1>3, QueueKeeps

LEMMA StartTickKeeps ==
    ASSUME AlarmsInv, NEW p \in Processes, StartTick(p)
    PROVE  AlarmsInv'
<1> DEFINE t == <<p, "tick">>
           r == [pc |-> "tick", todo |-> Due]
<1>1. t \in Threads /\ UNCHANGED <<wakeups, jobs, fence>> /\ threads' = [threads EXCEPT ![t] = r]
  BY DEF Threads, StartTick, Stored, Opened
<1>2. ThreadOK(r) /\ r.pc # "handled"
  BY DEF ThreadOK, Serves, Due
<1> HIDE DEF t, r
<1> QED
  BY <1>1, <1>2, ThreadMoves

LEMMA RunNextKeeps ==
    ASSUME AlarmsInv, NEW t \in Threads, RunNext(t)
    PROVE  AlarmsInv'
<1> DEFINE r(o) == [pc |-> "queued", object |-> o, todo |-> threads[t].todo \ {o}]
<1>1. UNCHANGED <<wakeups, jobs, fence>>
  BY DEF RunNext, Stored
<1>2. CASE threads' = [threads EXCEPT ![t] = Idle]
  BY <1>1, <1>2, IdleOK, ThreadMoves
<1>3. ASSUME NEW o \in threads[t].todo, Queue(t, o, r(o))
      PROVE  AlarmsInv'
  <2>1. threads[t].pc = "tick" /\ ThreadOK(threads[t])
    BY DEF RunNext, Pc, AlarmsInv
  <2>2. ThreadOK(r(o)) /\ r(o).pc # "handled"
    BY <2>1 DEF ThreadOK, Serves
  <2> HIDE DEF r
  <2> QED
    BY <1>1, <1>3, <2>2, QueueKeeps
<1> QED
  BY <1>2, <1>3 DEF RunNext

\* The first steps of an invocation, and its answer.
LEMMA OpeningKeeps ==
    ASSUME AlarmsInv, NEW t \in Threads, Acquire(t) \/ Check(t) \/ Resolve(t)
    PROVE  AlarmsInv'
<1>1. UNCHANGED <<wakeups, jobs, fence>> /\ Serves(threads[t])
  BY DEF Acquire, Check, Resolve, Stored, Opened, Pc, Serves
<1>2. PICK next \in {"open", "lease", "operation", "resolve", "release"} : Goto(t, next) \/ Reject(t)
  BY DEF Acquire, Check, Resolve, Work
<1>3. next \notin {"idle", "tick", "handled"}
  BY <1>2
<1> QED
  BY <1>1, <1>2, <1>3, ThreadGoes, RejectKeeps

LEMMA OpenKeeps ==
    ASSUME AlarmsInv, NEW t \in Threads, Open(t)
    PROVE  AlarmsInv'
<1> DEFINE o == threads[t].object
           checking == [threads[t] EXCEPT !.pc = "check"]
<1>1. Serves(threads[t]) /\ UNCHANGED <<wakeups, jobs>>
  BY DEF Open, Pc, Serves, Stored
<1>2. \E r \in {checking, Refused(t)} :
        threads' = [threads EXCEPT ![t] = r] /\ ThreadOK(r) /\ r.pc # "handled"
  <2>1. ASSUME Goto(t, "check")
        PROVE  threads' = [threads EXCEPT ![t] = checking]
    BY <2>1 DEF Goto, AlarmsInv
  <2>2. ThreadOK(checking) /\ checking.pc = "check"
    BY <1>1, Going DEF AlarmsInv
  <2>3. Goto(t, "check") \/ Reject(t)
    BY DEF Open
  <2> HIDE DEF checking
  <2> QED
    BY <1>1, <2>1, <2>2, <2>3, RefusedMoves
<1>3. PICK r \in {checking, Refused(t)} :
        threads' = [threads EXCEPT ![t] = r] /\ ThreadOK(r) /\ r.pc # "handled"
  BY <1>2
<1>4. fence' \in {fence, [fence EXCEPT ![o] = t]}
  BY DEF Open, Obj
<1> HIDE DEF checking, o
<1>5. fence' = [p \in Objects |-> fence'[p]] /\ \A p \in Objects : fence'[p] \in {fence[p], t}
  BY <1>4 DEF AlarmsInv
<1>6. threads' = [u \in Threads |-> threads'[u]] /\ threads'[t] = r
      /\ \A u \in Threads : u # t => threads'[u] = threads[u]
  BY <1>3 DEF AlarmsInv
<1>7. ASSUME NEW u \in Threads
      PROVE  ThreadOK(threads'[u]) /\ RestsAssured(u, threads'[u], fence', jobs)
  <2>1. CASE u = t
    BY <1>3, <1>6, <2>1 DEF RestsAssured
  <2>2. CASE u # t
    BY <1>5, <1>6, <2>2 DEF AlarmsInv, RestsAssured, ThreadOK, Serves
  <2> QED
    BY <2>1, <2>2
<1> QED
  BY <1>1, <1>5, <1>6, <1>7 DEF AlarmsInv, JobsAreArmed

\* The steps of the alarm and of the operation are transactions, or are refused.
LEMMA AlarmStepKeeps ==
    ASSUME AlarmsInv, NEW t \in Threads,
           LeaseAlarm(t) \/ DeleteAlarm(t) \/ RetryAlarm(t) \/ Operation(t)
    PROVE  AlarmsInv'
<1> DEFINE o == Obj(t)
<1>1. Serves(threads[t]) /\ UNCHANGED fence /\ o \in Objects
  BY DEF LeaseAlarm, DeleteAlarm, RetryAlarm, Operation, Opened, Pc, Serves, Obj, AlarmsInv, ThreadOK
<1>2. CASE Reject(t) /\ UNCHANGED Stored
  BY <1>1, <1>2, RejectKeeps DEF Stored
<1>3. CASE Goto(t, "failed") /\ UNCHANGED Stored
  BY <1>1, <1>3, ThreadGoes DEF Stored
<1>4. CASE Fenced(t) /\ LeaseAlarm(t)
  <2>1. Commit(t, jobs[o], "later") /\ Goto(t, "handler")
    BY <1>4 DEF LeaseAlarm, LeaseTime
  <2> QED
    BY <1>1, <1>4, <2>1, AlarmsAssumption, CommitKeeps DEF Times
<1>5. CASE Fenced(t) /\ DeleteAlarm(t)
  <2>1. Commit(t, jobs[o], None) /\ Goto(t, Work(t))
    BY <1>5 DEF DeleteAlarm
  <2>2. jobs[o] = {}
    BY <1>5 DEF DeleteAlarm, Pc, Fenced, Obj, AlarmsInv, RestsAssured
  <2>3. Work(t) \in {"operation", "resolve"}
    BY DEF Work
  <2> QED
    BY <1>1, <1>5, <2>1, <2>2, <2>3, CommitKeeps DEF Times
<1>6. CASE Fenced(t) /\ RetryAlarm(t)
  <2>1. Commit(t, jobs[o], "later") /\ Goto(t, Work(t))
    BY <1>6 DEF RetryAlarm, RetryTime
  <2>2. Work(t) \in {"operation", "resolve"}
    BY DEF Work
  <2> QED
    BY <1>1, <1>6, <2>1, <2>2, AlarmsAssumption, CommitKeeps DEF Times
<1>7. CASE Fenced(t) /\ Operation(t)
  <2>1. Commit(t, jobs[o] \cup {threads[t].job}, Armed(o)) /\ Goto(t, "resolve")
    BY <1>7 DEF Operation
  <2>2. Armed(o) \in Times /\ Armed(o) # None
    BY <1>1, AlarmsAssumption DEF Armed, Times, AlarmsInv
  <2> QED
    BY <1>1, <1>7, <2>1, <2>2, CommitKeeps
<1> QED
  BY <1>2, <1>3, <1>4, <1>5, <1>6, <1>7 DEF LeaseAlarm, DeleteAlarm, RetryAlarm, Operation

LEMMA HandleKeeps ==
    ASSUME AlarmsInv, NEW t \in Threads, Pc(t, "handler"), NEW left, Handle(t, left), UNCHANGED fence
    PROVE  AlarmsInv'
<1>1. Serves(threads[t]) /\ Fenced(t) /\ Obj(t) \in Objects
  BY DEF Handle, Pc, Serves, Obj, AlarmsInv, ThreadOK
<1>2. CASE left = {}
  <2>1. Commit(t, left, wakeups[Obj(t)]) /\ Goto(t, "handled")
    BY <1>2 DEF Handle
  <2>2. wakeups[Obj(t)] \in Times
    BY <1>1 DEF AlarmsInv
  <2> QED
    BY <1>1, <1>2, <2>1, <2>2, CommitKeeps
<1>3. CASE left # {}
  <2>1. Commit(t, left, "later") /\ Goto(t, Work(t))
    BY <1>3 DEF Handle
  <2>2. Work(t) \in {"operation", "resolve"}
    BY DEF Work
  <2> QED
    BY <1>1, <1>3, <2>1, <2>2, AlarmsAssumption, CommitKeeps DEF Times
<1> QED
  BY <1>2, <1>3

LEMMA HandlerKeeps ==
    ASSUME AlarmsInv, NEW t \in Threads, Handler(t) \/ HandlerFails(t)
    PROVE  AlarmsInv'
<1>1. Pc(t, "handler") /\ Serves(threads[t]) /\ UNCHANGED fence
  BY DEF Handler, HandlerFails, Opened, Pc, Serves
<1>2. CASE Goto(t, "failed") /\ UNCHANGED Stored
  BY <1>1, <1>2, ThreadGoes DEF Stored
<1>3. CASE \E left \in SUBSET jobs[Obj(t)] : Handle(t, left)
  BY <1>1, <1>3, HandleKeeps
<1> QED
  BY <1>2, <1>3 DEF Handler, HandlerFails

LEMMA LeavingKeeps ==
    ASSUME AlarmsInv, NEW t \in Threads, Release(t) \/ AcquireTimeout(t)
    PROVE  AlarmsInv'
<1>1. UNCHANGED <<wakeups, jobs, fence>>
  BY DEF Release, AcquireTimeout, Stored
<1>2. threads' = [threads EXCEPT ![t] = NextOf(t)] \/ threads' = [threads EXCEPT ![t] = Idle]
  BY DEF Release, AcquireTimeout, Leave
<1>3. ThreadOK(NextOf(t)) /\ NextOf(t).pc # "handled"
  <2>1. ThreadOK(threads[t])
    BY DEF AlarmsInv
  <2> QED
    BY <2>1, IdleOK DEF NextOf, ThreadOK, Serves
<1> QED
  BY <1>1, <1>2, <1>3, IdleOK, ThreadMoves

LEMMA WorldKeeps ==
    ASSUME AlarmsInv,
           \/ \E p \in Processes : ProcessDies(p)
           \/ \E o \in Objects : TimePasses(o) \/ LeaseExpires(o)
    PROVE  AlarmsInv'
<1>1. ASSUME NEW p \in Processes, ProcessDies(p)
      PROVE  AlarmsInv'
  <2>1. threads' = [t \in Threads |-> IF t[1] = p THEN Idle ELSE threads[t]]
        /\ UNCHANGED <<wakeups, jobs, fence>>
    BY <1>1 DEF ProcessDies, Stored
  <2>2. threads' = [t \in Threads |-> threads'[t]]
        /\ \A t \in Threads : threads'[t] \in {Idle, threads[t]}
    BY <2>1
  <2>3. \A t \in Threads : ThreadOK(threads'[t]) /\ RestsAssured(t, threads'[t], fence, jobs)
    BY <2>2, IdleOK DEF AlarmsInv, RestsAssured
  <2> QED
    BY <2>1, <2>2, <2>3 DEF AlarmsInv, JobsAreArmed
<1>2. ASSUME NEW o \in Objects, TimePasses(o)
      PROVE  AlarmsInv'
  BY <1>2, AlarmsAssumption DEF TimePasses, Opened, AlarmsInv, JobsAreArmed, Times
<1>3. ASSUME NEW o \in Objects, LeaseExpires(o)
      PROVE  AlarmsInv'
  BY <1>3 DEF LeaseExpires, Stored, AlarmsInv, JobsAreArmed
<1> QED
  BY <1>1, <1>2, <1>3

LEMMA AlarmsBegin ==
    ASSUME AlarmsInit
    PROVE  AlarmsInv
BY IdleOK DEF AlarmsInit, AlarmsInv, RestsAssured, JobsAreArmed, Times

LEMMA AlarmsStep ==
    ASSUME AlarmsInv, [AlarmsNext]_alarmVars
    PROVE  AlarmsInv'
<1>1. CASE UNCHANGED alarmVars
  BY <1>1 DEF alarmVars, AlarmsInv, JobsAreArmed
<1>2. ASSUME NEW t \in Threads, Proceed(t) \/ HandlerFails(t) \/ AcquireTimeout(t)
      PROVE  AlarmsInv'
  BY <1>2, RunNextKeeps, OpeningKeeps, OpenKeeps, AlarmStepKeeps, HandlerKeeps, LeavingKeeps DEF Proceed
<1>3. ASSUME NEW p \in Processes, Call(p) \/ StartTick(p) \/ ProcessDies(p)
      PROVE  AlarmsInv'
  BY <1>3, CallKeeps, StartTickKeeps, WorldKeeps
<1>4. ASSUME NEW o \in Objects, TimePasses(o) \/ LeaseExpires(o)
      PROVE  AlarmsInv'
  BY <1>4, WorldKeeps
<1> QED
  BY <1>1, <1>2, <1>3, <1>4 DEF AlarmsNext

\* An object that keeps a job always has an alarm, whichever process dies, loses
\* its lease or sees its handler fail.
THEOREM JobsStayArmed == AlarmsSpec => []JobsAreArmed
<1>1. AlarmsInit => AlarmsInv
  BY AlarmsBegin
<1>2. AlarmsInv /\ [AlarmsNext]_alarmVars => AlarmsInv'
  BY AlarmsStep
<1>3. AlarmsInv => JobsAreArmed
  BY DEF AlarmsInv
<1> QED
  BY <1>1, <1>2, <1>3, PTL DEF AlarmsSpec
=============================================================================
