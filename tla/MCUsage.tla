------------------------------- MODULE MCUsage -------------------------------
(***************************************************************************)
(* What is stored and must become final: the ledger of requests in the     *)
(* database, the transfer of a deployment with that ledger, the search for *)
(* an account's project.  One of these parts runs, the others stay as they *)
(* began.                                                                  *)
(***************************************************************************)
EXTENDS UsageLedger, Sequences, TLC

VARIABLES part,
    via, src, dst, disk, cli, touched, fired, crashes,
    projTime, acct, projAlarm, run, flight, valid, forgotten, minted, projChanges, projCrashes

-----------------------------------------------------------------------------
(* A source whose tables need one or two pages, with three accounts of which *)
(* one has lost its provider.                                                *)

MCTables == <<"providers", "oauth_accounts", "requests", "usage_hourly", "config_meta">>
MCSource ==
    [providers |-> (1 :> 1), oauth_accounts |-> (1 :> 1 @@ 2 :> 1 @@ 3 :> 9),
     requests |-> (1 :> 5 @@ 2 :> 5), usage_hourly |-> (1 :> 6 @@ 2 :> 6 @@ 3 :> 6),
     config_meta |-> (1 :> 8)]
MCHourOf == (1 :> 1 @@ 2 :> 2)
MCObjects == (1 :> 10 @@ 2 :> 20 @@ 3 :> 30)
MCAlarms == (1 :> "soon" @@ 2 :> NoRow @@ 3 :> "soon")
MCSeeds == (7 :> 7)

Moving == INSTANCE Transfer
    WITH None <- NoRow, Tables <- MCTables, SourceTables <- MCSource, SourceObjects <- MCObjects,
         SourceAlarms <- MCAlarms, Seeds <- MCSeeds, HourOf <- MCHourOf, PageSize <- 2,
         Vias <- {"pages", "snapshot", "import"}, MaxCrashes <- 2, MaxFires <- 1

Project == INSTANCE AntigravityProject
    WITH Nil <- NoRow, ProjectTtl <- 1, MaxProjectTime <- 2, MaxTokens <- 3, MaxChanges <- 2, MaxCrashes <- 1

-----------------------------------------------------------------------------
ledger == vars
transfer == <<via, src, dst, disk, cli, touched, fired, crashes>>
project == <<projTime, acct, projAlarm, run, flight, valid, forgotten, minted, projChanges, projCrashes>>
AnyAccount == [generation |-> 1, auth |-> 1, status |-> "disconnected", tokens |-> NoRow, project |-> NoRow]

MCInit ==
    /\ part \in {"ledger", "transfer", "project"}
    /\ part # "transfer" => via = "pages"
    /\ part # "project" => acct = AnyAccount
    /\ Init /\ Moving!Init /\ Project!ProjectInit

MCNext ==
    \/ part = "ledger" /\ Next
       /\ UNCHANGED <<part, transfer, project>>
    \/ part = "transfer" /\ Moving!Next
       /\ UNCHANGED <<part, ledger, project>>
    \/ part = "project" /\ Project!ProjectNext
       /\ UNCHANGED <<part, ledger, transfer>>

MCFairness ==
    \/ part = "ledger" /\ Fairness
    \/ part = "transfer" /\ Moving!Fairness
    \/ part = "project" /\ Project!ProjectFairness

MCSpec ==
    /\ MCInit
    /\ [][MCNext]_<<part, ledger, transfer, project>>
    /\ MCFairness

\* The two deployments of a transfer never both act, and what is taken over is
\* whole (Transfer).
TransferIsSafe == part = "transfer" => Moving!TransferIsSafe

\* No token that still works is given up for one that does not
\* (AntigravityProject).
CredentialsSurvive == part = "project" => Project!CredentialsSurvive

\* What has begun ends: a recorded request settles, a transfer finishes, an
\* account's project is found or given up.
AtRest ==
    /\ part = "ledger" => AllSettled
    /\ part = "transfer" => Moving!Over
    /\ part = "project" => ~Project!PendingProject(acct)
TasksEnd == []<>AtRest
=============================================================================
