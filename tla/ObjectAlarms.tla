---------------------------- MODULE ObjectAlarms ----------------------------
(***************************************************************************)
(* Alarms of the standard runtime's objects                                *)
(* (src/src/platform/standard/objects.ts ObjectRuntime, runtime.ts tick).  *)
(*                                                                         *)
(* An object is opened by one invocation at a time: a process serves the   *)
(* invocations of an object in order, processes exclude each other by a    *)
(* lease, and an invocation whose lease was lost can no longer commit.     *)
(* An alarm is only a time in a table.  Every process asks for the due     *)
(* ones now and then, and every call first runs the alarm that is due.     *)
(*                                                                         *)
(* The objects are any that keep jobs and set an alarm for them: a call    *)
(* adds a job, the alarm handler does the jobs.  A time is "due" or        *)
(* "later".                                                                *)
(***************************************************************************)
EXTENDS Naturals, Sequences

CONSTANTS
    None,
    Objects,
    Processes,
    Jobs,          \* jobs that callers add, each once
    ObjectOf,      \* job -> its object
    MaxFailures    \* bound: crashes, lost leases and failures in a behaviour

ASSUME AlarmsAssumption ==
    /\ None \notin {"due", "later"}
    /\ ObjectOf \in [Jobs -> Objects]

VARIABLES
    wakeups,   \* alarms: object -> "due", "later" or None
    jobs,      \* object -> the jobs it keeps
    lease,     \* object -> the thread that holds its lease, or None
    fence,     \* object -> the thread that opened it last, or None
    queues,    \* process -> object -> the threads waiting to open it
    threads,   \* a process's tick and call -> what it does
    added,     \* jobs that a caller has sent
    failures

alarmVars == <<wakeups, jobs, lease, fence, queues, threads, added, failures>>

Threads == Processes \X {"tick", "call"}
Idle == [pc |-> "idle"]

AlarmsInit ==
    /\ wakeups = [o \in Objects |-> None] /\ jobs = [o \in Objects |-> {}]
    /\ lease = [o \in Objects |-> None] /\ fence = [o \in Objects |-> None]
    /\ queues = [p \in Processes |-> [o \in Objects |-> <<>>]]
    /\ threads = [t \in Threads |-> Idle]
    /\ added = {} /\ failures = 0

Pc(t, pc) == threads[t].pc = pc
Obj(t) == threads[t].object
Goto(t, pc) == threads' = [threads EXCEPT ![t].pc = pc]
Stored == <<wakeups, jobs>>
Opened == <<lease, fence, queues>>

\* A write of an invocation reaches the table only under its own fence.
Fenced(t) == fence[Obj(t)] = t

\* A transaction: what is kept and the alarm change in one commit.
Commit(t, kept, time) ==
    /\ jobs' = [jobs EXCEPT ![Obj(t)] = kept]
    /\ wakeups' = [wakeups EXCEPT ![Obj(t)] = time]

\* An invocation that throws rejects its caller, and with it the whole tick.
Reject(t) ==
    threads' = [threads EXCEPT ![t] = [pc |-> "release", object |-> @.object]]

\* dueAlarms
Due == {o \in Objects : wakeups[o] = "due"}

-----------------------------------------------------------------------------
(* Invocations. *)

Queue(t, o, state) ==
    /\ queues' = [queues EXCEPT ![t[1]][o] = Append(@, t)]
    /\ threads' = [threads EXCEPT ![t] = state]

\* An object stub is called: a job is to be added.
Call(p) ==
    LET t == <<p, "call">>
    IN  /\ Pc(t, "idle")
        /\ \E j \in Jobs \ added :
             /\ Queue(t, ObjectOf[j], [pc |-> "queued", object |-> ObjectOf[j], job |-> j])
             /\ added' = added \cup {j}
        /\ UNCHANGED <<Stored, lease, fence, failures>>

\* tick: the due objects are listed once, and opened one after the other.
StartTick(p) ==
    LET t == <<p, "tick">>
    IN  /\ Pc(t, "idle") /\ Due # {}
        /\ threads' = [threads EXCEPT ![t] = [pc |-> "tick", todo |-> Due]]
        /\ UNCHANGED <<Stored, Opened, added, failures>>

\* The order of the list is by time, which is not told apart here.
RunNext(t) ==
    /\ Pc(t, "tick")
    /\ IF threads[t].todo = {} THEN threads' = [threads EXCEPT ![t] = Idle] /\ UNCHANGED queues
       ELSE \E o \in threads[t].todo :
                Queue(t, o, [pc |-> "queued", object |-> o, todo |-> threads[t].todo \ {o}])
    /\ UNCHANGED <<Stored, lease, fence, added, failures>>

\* RedisObjectLocks.acquire
Acquire(t) ==
    /\ Pc(t, "queued") /\ Head(queues[t[1]][Obj(t)]) = t
    /\ lease[Obj(t)] = None
    /\ lease' = [lease EXCEPT ![Obj(t)] = t]
    /\ Goto(t, "open")
    /\ UNCHANGED <<Stored, fence, queues, added, failures>>

\* scope: the invocation takes the object's fence, and reads its state anew.
\* Plain SQL storage takes the fence before it is known that the lease is lost.
Open(t) ==
    /\ Pc(t, "open")
    /\ IF lease[Obj(t)] = t
       THEN fence' = [fence EXCEPT ![Obj(t)] = t] /\ Goto(t, "check")
       ELSE /\ \/ fence' = [fence EXCEPT ![Obj(t)] = t]
               \/ UNCHANGED fence
            /\ Reject(t)
    /\ UNCHANGED <<Stored, lease, queues, added, failures>>

Work(t) == IF t[2] = "call" THEN "operation" ELSE "resolve"

\* catchUpAlarm, or the recheck of an alarm that another process has run
Check(t) ==
    /\ Pc(t, "check")
    /\ Goto(t, IF wakeups[Obj(t)] = "due" THEN "lease" ELSE Work(t))
    /\ UNCHANGED <<Stored, Opened, added, failures>>

-----------------------------------------------------------------------------
(* The alarm: it is moved into the future before its handler runs, and      *)
(* deleted after it unless the handler has set a new one.                   *)

LeaseNothing == None
LeaseTime == "later"

LeaseAlarm(t) ==
    /\ Pc(t, "lease")
    /\ IF Fenced(t) THEN Commit(t, jobs[Obj(t)], LeaseTime) /\ Goto(t, "handler")
       ELSE Reject(t) /\ UNCHANGED Stored
    /\ UNCHANGED <<Opened, added, failures>>

\* The handler does some of the jobs; what it leaves gets a new alarm in the
\* same transaction.
Handle(t, left) ==
    /\ Fenced(t)
    /\ IF left = {} THEN Commit(t, left, wakeups[Obj(t)]) /\ Goto(t, "handled")
       ELSE Commit(t, left, "later") /\ Goto(t, Work(t))

Handler(t) ==
    /\ Pc(t, "handler")
    /\ \/ \E left \in SUBSET jobs[Obj(t)] : left # jobs[Obj(t)] /\ Handle(t, left)
       \/ jobs[Obj(t)] = {} /\ Handle(t, {})
       \/ ~Fenced(t) /\ Goto(t, "failed") /\ UNCHANGED Stored
    /\ UNCHANGED <<Opened, added, failures>>

HandlerFails(t) ==
    /\ Pc(t, "handler") /\ failures < MaxFailures
    /\ Goto(t, "failed") /\ failures' = failures + 1
    /\ UNCHANGED <<Stored, Opened, added>>

\* No alarm was set while the handler ran.
DeleteAlarm(t) ==
    /\ Pc(t, "handled")
    /\ IF Fenced(t) THEN Commit(t, jobs[Obj(t)], None) /\ Goto(t, Work(t))
       ELSE Goto(t, "failed") /\ UNCHANGED Stored
    /\ UNCHANGED <<Opened, added, failures>>

\* The handler threw: its alarm is set again for a retry.
RetryTime == "later"

RetryAlarm(t) ==
    /\ Pc(t, "failed")
    /\ IF Fenced(t) THEN Commit(t, jobs[Obj(t)], RetryTime) /\ Goto(t, Work(t))
       ELSE Reject(t) /\ UNCHANGED Stored
    /\ UNCHANGED <<Opened, added, failures>>

\* BackedTransaction: the job and the alarm that will do it in one commit
Armed(o) == IF wakeups[o] = None THEN "later" ELSE wakeups[o]

Operation(t) ==
    /\ Pc(t, "operation")
    /\ IF Fenced(t)
       THEN /\ Commit(t, jobs[Obj(t)] \cup {threads[t].job}, Armed(Obj(t)))
            /\ Goto(t, "resolve")
       ELSE Reject(t) /\ UNCHANGED Stored
    /\ UNCHANGED <<Opened, added, failures>>

\* The answer leaves only if the lease still stands.
Resolve(t) ==
    /\ Pc(t, "resolve")
    /\ IF lease[Obj(t)] = t THEN Goto(t, "release") ELSE Reject(t)
    /\ UNCHANGED <<Stored, Opened, added, failures>>

\* A tick goes on after an object that succeeded and ends with one that failed.
NextOf(t) ==
    IF "todo" \in DOMAIN threads[t] THEN [pc |-> "tick", todo |-> threads[t].todo] ELSE Idle

Leave(t) ==
    /\ queues' = [queues EXCEPT ![t[1]][Obj(t)] = Tail(@)]
    /\ threads' = [threads EXCEPT ![t] = NextOf(t)]

Release(t) ==
    /\ Pc(t, "release")
    /\ lease' = [lease EXCEPT ![Obj(t)] = IF @ = t THEN None ELSE @]
    /\ Leave(t)
    /\ UNCHANGED <<Stored, fence, added, failures>>

\* The lease was not free within its wait: the invocation is refused.
AcquireTimeout(t) ==
    /\ Pc(t, "queued") /\ Head(queues[t[1]][Obj(t)]) = t
    /\ lease[Obj(t)] # None /\ failures < MaxFailures
    /\ queues' = [queues EXCEPT ![t[1]][Obj(t)] = Tail(@)]
    /\ threads' = [threads EXCEPT ![t] = Idle]
    /\ failures' = failures + 1
    /\ UNCHANGED <<Stored, lease, fence, added>>

Proceed(t) ==
    \/ RunNext(t) \/ Acquire(t) \/ Open(t) \/ Check(t) \/ LeaseAlarm(t) \/ Handler(t)
    \/ DeleteAlarm(t) \/ RetryAlarm(t) \/ Operation(t) \/ Resolve(t) \/ Release(t)

-----------------------------------------------------------------------------
(* The world. *)

\* The time of an alarm comes.
TimePasses(o) ==
    /\ wakeups[o] = "later"
    /\ wakeups' = [wakeups EXCEPT ![o] = "due"]
    /\ UNCHANGED <<jobs, Opened, threads, added, failures>>

\* A lease runs out before its holder has renewed it.
LeaseExpires(o) ==
    /\ lease[o] # None /\ failures < MaxFailures
    /\ lease' = [lease EXCEPT ![o] = None] /\ failures' = failures + 1
    /\ UNCHANGED <<Stored, fence, queues, threads, added>>

\* A process dies; its leases run out.
ProcessDies(p) ==
    /\ failures < MaxFailures /\ \E t \in Threads : t[1] = p /\ ~Pc(t, "idle")
    /\ threads' = [t \in Threads |-> IF t[1] = p THEN Idle ELSE threads[t]]
    /\ queues' = [queues EXCEPT ![p] = [o \in Objects |-> <<>>]]
    /\ lease' = [o \in Objects |-> IF lease[o] # None /\ lease[o][1] = p THEN None ELSE lease[o]]
    /\ failures' = failures + 1
    /\ UNCHANGED <<Stored, fence, added>>

AlarmsNext ==
    \/ \E p \in Processes : Call(p) \/ StartTick(p) \/ ProcessDies(p)
    \/ \E t \in Threads : Proceed(t) \/ HandlerFails(t) \/ AcquireTimeout(t)
    \/ \E o \in Objects : TimePasses(o) \/ LeaseExpires(o)

\* Every process ticks, its threads run, and a lease that is free again and
\* again is taken.
AlarmsFairness ==
    /\ \A p \in Processes : WF_alarmVars(StartTick(p))
    /\ \A t \in Threads : WF_alarmVars(Proceed(t)) /\ SF_alarmVars(Acquire(t))
    /\ \A o \in Objects : WF_alarmVars(TimePasses(o))

AlarmsSpec == AlarmsInit /\ [][AlarmsNext]_alarmVars /\ AlarmsFairness

-----------------------------------------------------------------------------
(* Properties; a job is added once. *)

\* An object that keeps a job has an alarm, whoever died, failed or lost its
\* lease between the two (objects.ts leaseAlarm: "A crash while the handler runs
\* retries once the lease expires").
JobsAreArmed ==
    \A o \in Objects : jobs[o] # {} => wakeups[o] # None

\* Every job that is kept is done: no failure of one object, no lost tick and
\* no stale process stops the alarms (objects.ts runDueAlarms, catchUpAlarm).
NoJobs == \A o \in Objects : jobs[o] = {}
JobsAreDone == []<>NoJobs
=============================================================================
