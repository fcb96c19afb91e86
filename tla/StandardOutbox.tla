--------------------------- MODULE StandardOutbox ---------------------------
(***************************************************************************)
(* The usage journal on the standard runtime (platform/standard/objects.ts)*)
(*                                                                         *)
(* There, no instance outlives a call: every invocation takes the object's *)
(* lease, constructs a fresh UsageOutboxCore, waits for the constructor's  *)
(* schedule(), does its work, drains what it left running and releases the *)
(* lease.  Alarms are rows that runDueAlarms polls, and that a call also   *)
(* looks at on its way in.                                                 *)
(***************************************************************************)
EXTENDS UsageOutbox

VARIABLES job,     \* what the running invocation was made for
          stage    \* how far ObjectRuntime.invoke has come

stdVars == <<vars, job, stage>>

NoJob == 0          \* otherwise the record a caller enqueues, or:
AlarmJob == -1

StdInit == Init /\ job = NoJob /\ stage = "free"

\* invoke(): the constructor's schedule() completes before anything else.
Begin(j) ==
    /\ stage = "free" /\ stage' = "constructed" /\ job' = j
    /\ Boot

\* runDueAlarms() selects the objects whose stored alarm is due.
RunDueAlarms == alarm = 0 /\ Begin(AlarmJob)
Call(e) == e \in Usable \ accepted /\ Begin(e)

\* runAlarm() and catchUpAlarm() read the alarm again; a due one is run with
\* getAlarm() reading null, any other is left alone.
CheckAlarm ==
    /\ stage = "constructed"
    /\ stage' = IF job = AlarmJob THEN "drain" ELSE "operation"
    /\ IF alarm = 0
       THEN /\ alarm' = Never /\ firing' = TRUE /\ handling' = TRUE
            /\ Flush
            /\ UNCHANGED <<journal, retry, cursor, up, faults, retries, history>>
       ELSE UNCHANGED vars
    /\ UNCHANGED job

\* The handler, if one runs, is awaited before the operation.
Operation ==
    /\ stage = "operation" /\ ~handling
    /\ Enqueue(job) /\ stage' = "drain" /\ UNCHANGED job

\* drain(), then the lease is released and the instance is gone.
Release ==
    /\ stage = "drain" /\ pc = "idle"
    /\ stage' = "free" /\ job' = NoJob /\ up' = FALSE
    /\ UNCHANGED <<storage, firing, handling, faults, pc, retries,
                   enqueuedDuringFlush, scan, lanes, nextAt, history>>

\* The flush of the running invocation, as in UsageOutbox.
Delivery ==
    /\ \/ \E d \in Destinations : Step(d)
       \/ Load \/ Scan \/ ScanBounded \/ EndPass \/ LaneRejected \/ ScanFails
       \/ Finish \/ Schedule \/ Tick
    /\ UNCHANGED <<job, stage>>

StdNext == RunDueAlarms \/ (\E e \in Usable : Call(e)) \/ CheckAlarm
           \/ Operation \/ Release \/ Delivery

StdFairSpec ==
    /\ StdInit /\ [][StdNext]_stdVars
    /\ WF_stdVars(RunDueAlarms) /\ WF_stdVars(CheckAlarm)
    /\ WF_stdVars(Operation) /\ WF_stdVars(Release)
    /\ WF_stdVars(Flushing /\ UNCHANGED <<job, stage>>)
    /\ WF_stdVars(Tick /\ UNCHANGED <<job, stage>>)
    /\ \A d \in Destinations :
          /\ WF_stdVars((Send(d) \/ Failed(d) \/ Acknowledge(d)) /\ UNCHANGED <<job, stage>>)
          /\ SF_stdVars(Arrive(d) /\ UNCHANGED <<job, stage>>)

\* objects.ts says that objects with alarms are woken by runDueAlarms and on
\* access, outbox.ts that a delivery resumes on the next alarm: pending records
\* whose alarm is due lead to another flush.
DueAlarmResumes ==
    (journal # {} /\ alarm = 0) ~> (journal = {} \/ pc = "load")
=============================================================================
