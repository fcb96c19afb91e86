----------------------------- MODULE MCDelivery -----------------------------
(***************************************************************************)
(* What is stored to be done later: the records of the usage outbox, and   *)
(* the jobs of the standard runtime's objects, which its alarms wake.  One *)
(* of the two runs, the other stays as it began.                           *)
(***************************************************************************)
EXTENDS UsageOutbox, ObjectAlarms

VARIABLE part

\* Two objects with a job each, two processes that tick and call them.
MCObjectOf == [j1 |-> "a", j2 |-> "b"]

MCInit ==
    /\ part \in {"outbox", "objects"}
    /\ part # "outbox" => journal = {}
    /\ Init /\ AlarmsInit

MCNext ==
    \/ part = "outbox" /\ Next /\ UNCHANGED <<part, alarmVars>>
    \/ part = "objects" /\ AlarmsNext /\ UNCHANGED <<part, vars>>

MCSpec ==
    /\ MCInit /\ [][MCNext]_<<part, vars, alarmVars>>
    /\ \/ part = "outbox" /\ Fairness
       \/ part = "objects" /\ AlarmsFairness

\* What is stored to be done is done: records reach their destination
\* (EventuallyDelivered), jobs are done (ObjectAlarms).
WorkIsDone == []<>(accepted \subseteq delivered /\ NoJobs)
=============================================================================
