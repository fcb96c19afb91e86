------------------------- MODULE AntigravityProject -------------------------
(***************************************************************************)
(* The project of an Antigravity account (providers/antigravity/account.ts,*)
(* initialization.ts, verification.ts, api.ts; oauth/account.ts alarm).    *)
(*                                                                         *)
(* A login is finished before Google has assigned a project: the account   *)
(* keeps working with its old credentials while an alarm polls Google, for *)
(* ten minutes at most.  A grant that brought no refresh token of its own  *)
(* borrows the account's, which the requests of clients may rotate at any  *)
(* time.  A call of Google that rotates a token may answer after a crash.  *)
(*                                                                         *)
(* The session that starts all this is modelled in OAuthAccount; here a    *)
(* start, a finished login and a disconnect are one step each.             *)
(***************************************************************************)
EXTENDS Integers, FiniteSets

CONSTANTS Nil,
          ProjectTtl,     \* PROJECT_INITIALIZATION_TTL_MS
          MaxProjectTime, MaxTokens, MaxChanges, MaxCrashes

VARIABLES projTime,  \* Date.now()
          acct,      \* the stored account
          projAlarm, \* the object's alarm
          run,       \* initializeProject()
          flight,    \* a refresh of the account's own token
          valid,     \* the refresh tokens Google takes
          forgotten, \* tokens whose successor never arrived, or that were revoked
          minted, projChanges, projCrashes

projectVars == <<projTime, acct, projAlarm, run, flight, valid, forgotten, minted, projChanges,
                 projCrashes>>
environment == <<minted, projChanges, projCrashes>>

Idle == [at |-> "idle"]
\* The refresh token, and whether the access token is about to expire.
Tokens(refresh, due) == [refresh |-> refresh, due |-> due]

NewProject(tokens, inherit, now) ==
    [tokens |-> tokens, inherit |-> inherit, stage |-> "project", nextAt |-> now,
     deadline |-> now + ProjectTtl, error |-> FALSE]

PendingProject(a) == a.project # Nil /\ ~a.project.error
Earlier(a, b) == IF a < b THEN a ELSE b

\* nextAccountAlarm(): the project's part.
ProjectAlarm(a) ==
    IF PendingProject(a) THEN Earlier(a.project.nextAt, a.project.deadline) ELSE Nil

\* change(): the account and its alarm are written together.
Store(a) ==
    /\ acct' = a
    /\ projAlarm' = IF ProjectAlarm(a) = Nil THEN Nil
                    ELSE IF ProjectAlarm(a) > projTime THEN ProjectAlarm(a) ELSE projTime

\* An account that is connected or not, and one whose project was left
\* pending by a release that did not record whose refresh token it has.
ProjectInit ==
    /\ projTime = 0
    /\ \E connected \in BOOLEAN, legacy \in {Nil, 1, 2} :
          /\ connected = FALSE => legacy # 1
          /\ acct = [generation |-> 1, auth |-> 1,
                     status |-> IF connected THEN "ready" ELSE "disconnected",
                     tokens |-> IF connected THEN Tokens(1, FALSE) ELSE Nil,
                     project |-> IF legacy = Nil THEN Nil
                                 ELSE NewProject(Tokens(legacy, FALSE), "unknown", 0)]
          /\ projAlarm = ProjectAlarm(acct)
    /\ run = Idle /\ flight = Idle
    /\ valid = {1, 2} /\ forgotten = {} /\ minted = 2 /\ projChanges = 0 /\ projCrashes = 0

-----------------------------------------------------------------------------
ProjectTick ==
    /\ projTime < MaxProjectTime /\ projTime' = projTime + 1
    /\ UNCHANGED <<acct, projAlarm, run, flight, valid, forgotten, environment>>

\* The access tokens are about to expire.
ExpireAccess ==
    /\ acct' = [acct EXCEPT !.tokens = IF @ = Nil THEN @ ELSE [@ EXCEPT !.due = TRUE],
                            !.project = IF @ = Nil THEN @ ELSE [@ EXCEPT !.tokens.due = TRUE]]
    /\ acct' # acct
    /\ UNCHANGED <<projTime, projAlarm, run, flight, valid, forgotten, environment>>

Change == projChanges < MaxChanges /\ projChanges' = projChanges + 1

\* authorization.initialize(): a login is complete.  It brought a token of
\* its own, or it needs the account's.
LoginCompletes ==
    /\ Change /\ projTime + ProjectTtl <= MaxProjectTime
    /\ \/ /\ minted < MaxTokens /\ minted' = minted + 1
          /\ valid' = valid \cup {minted + 1}
          /\ Store([acct EXCEPT !.auth = @ + 1,
                       !.project = NewProject(Tokens(minted + 1, FALSE), "own", projTime)])
       \/ /\ acct.tokens # Nil
          /\ Store([acct EXCEPT !.auth = @ + 1,
                       !.project = NewProject(Tokens(Nil, FALSE), "inherit", projTime)])
          /\ UNCHANGED <<valid, minted>>
    /\ UNCHANGED <<projTime, run, flight, forgotten, projCrashes>>

\* start(): another authorization supersedes a project that is pending.
StartAgain ==
    /\ Change /\ Store([acct EXCEPT !.auth = @ + 1, !.project = Nil])
    /\ UNCHANGED <<projTime, run, flight, valid, forgotten, minted, projCrashes>>

\* retryProject()
RetryProject ==
    /\ Change /\ acct.project # Nil /\ projTime + ProjectTtl <= MaxProjectTime
    /\ acct.project.error
    /\ Store([acct EXCEPT !.auth = @ + 1,
                 !.project = [@ EXCEPT !.error = FALSE, !.stage = "project", !.nextAt = projTime,
                                       !.deadline = projTime + ProjectTtl]])
    /\ UNCHANGED <<projTime, run, flight, valid, forgotten, minted, projCrashes>>

\* disconnect()
Disconnect ==
    /\ Change /\ acct.tokens # Nil
    /\ Store([acct EXCEPT !.generation = @ + 1, !.auth = @ + 1, !.tokens = Nil, !.project = Nil,
                          !.status = "disconnected"])
    /\ UNCHANGED <<projTime, run, flight, valid, forgotten, minted, projCrashes>>

\* The owner takes a token's permission away.
Revoke ==
    /\ Change /\ acct.tokens # Nil /\ acct.tokens.refresh \in valid
    /\ valid' = valid \ {acct.tokens.refresh} /\ forgotten' = forgotten \cup {acct.tokens.refresh}
    /\ UNCHANGED <<projTime, acct, projAlarm, run, flight, minted, projCrashes>>

-----------------------------------------------------------------------------
\* Google refreshes a token, and may give another one for it.
Rotate(refresh, t) ==
    /\ refresh \in valid
    /\ \/ t = refresh /\ UNCHANGED <<valid, minted>>
       \/ /\ minted < MaxTokens /\ minted' = minted + 1 /\ t = minted'
          /\ valid' = (valid \ {refresh}) \cup {t}

\* resolve(): an access token that is about to expire is refreshed, once for
\* everyone who asks; a replacement that borrows the token waits in line with them.
RefreshStarts ==
    /\ flight = Idle /\ ~(run.at = "replace" /\ run.project.inherit = "inherit") /\ acct.status = "ready" /\ acct.tokens # Nil /\ acct.tokens.due
    /\ flight' = [at |-> "asked", generation |-> acct.generation, refresh |-> acct.tokens.refresh]
    /\ UNCHANGED <<projTime, acct, projAlarm, run, valid, forgotten, environment>>

GoogleRefreshes ==
    /\ flight.at = "asked"
    /\ \E t \in 1..MaxTokens :
          /\ Rotate(flight.refresh, t)
          /\ flight' = [flight EXCEPT !.at = "answered", !.refresh = t]
    /\ UNCHANGED <<projTime, acct, projAlarm, run, forgotten, projChanges, projCrashes>>

\* refresh(): the answer is stored under the generation that asked for it.
RefreshSettles ==
    /\ flight.at = "answered" /\ flight' = Idle
    /\ IF acct.generation = flight.generation
       THEN Store([acct EXCEPT !.tokens = Tokens(flight.refresh, FALSE)])
       ELSE UNCHANGED <<acct, projAlarm>>
    /\ UNCHANGED <<projTime, run, valid, forgotten, environment>>

\* A refresh that fails; one that Google rejects asks for another login.  A
\* replacement that waited for it fails with it, and its alarm is repeated.
RefreshFails(rejected) ==
    /\ flight.at = "asked" /\ flight' = Idle
    /\ rejected <=> flight.refresh \notin valid
    /\ LET fails == acct.generation = flight.generation
           a == IF rejected /\ fails THEN [acct EXCEPT !.status = "reauthorize"] ELSE acct
       IN  IF run.at = "replace" /\ run.waits
           THEN run' = Idle /\ acct' = a /\ projAlarm' = projTime
           ELSE /\ run' = run
                /\ IF fails THEN Store(a) ELSE UNCHANGED <<acct, projAlarm>>
    /\ UNCHANGED <<projTime, valid, forgotten, environment>>

-----------------------------------------------------------------------------
\* The alarm of an account with a pending project.
ProjectAlarmFires ==
    /\ run = Idle /\ projAlarm # Nil /\ projAlarm <= projTime
    /\ projAlarm' = Nil
    /\ run' = IF PendingProject(acct)
              THEN [at |-> "begin", auth |-> acct.auth, project |-> acct.project, waits |-> FALSE]
              ELSE Idle
    /\ UNCHANGED <<projTime, acct, flight, valid, forgotten, environment>>

\* updateAuthorization() of a run; a run that has been superseded ends.
FencedStore(a, next) ==
    IF acct.auth = run.auth THEN Store(a) /\ run' = next
    ELSE run' = Idle /\ UNCHANGED <<acct, projAlarm>>

\* projectFailure(): what may be retried is, until the deadline.
RetryLater(p) ==
    [p EXCEPT !.nextAt = Earlier(projTime + 1, p.deadline)]
ProjectFailure(retryable) ==
    LET p == acct.project
        failed == IF retryable /\ projTime < p.deadline THEN RetryLater(p) ELSE [p EXCEPT !.error = TRUE]
    IN  IF acct.auth = run.auth THEN Store([acct EXCEPT !.project = failed]) /\ run' = Idle
        ELSE run' = Idle /\ UNCHANGED <<acct, projAlarm>>

\* Whose token a project of an earlier release has: the account's, if they
\* are the same; its own, if the account has none; else nobody can tell.
LegacyProject(a) ==
    CASE a.tokens = Nil -> [a.project EXCEPT !.inherit = "own"]
      [] a.tokens # Nil /\ a.tokens.refresh = a.project.tokens.refresh ->
            [a.project EXCEPT !.inherit = "inherit", !.tokens.refresh = Nil]
      [] OTHER -> Nil

\* initializeProject(): whose token it is, the deadline, the connection.
RunBegins ==
    /\ run.at = "begin"
    /\ CASE run.project.inherit = "unknown" ->
              IF acct.auth = run.auth /\ LegacyProject(acct) = Nil THEN ProjectFailure(FALSE)
              ELSE FencedStore([acct EXCEPT !.project = LegacyProject(acct)],
                               [run EXCEPT !.project = LegacyProject(acct)])
         [] run.project.inherit # "unknown" /\ projTime >= run.project.deadline -> ProjectFailure(FALSE)
         [] OTHER -> run' = [run EXCEPT !.at = "tokens"] /\ UNCHANGED <<acct, projAlarm>>
    /\ UNCHANGED <<projTime, flight, valid, forgotten, environment>>

\* An access token that is about to expire: a borrowed refresh token is only
\* used by the account's own refresh.
RunHasTokens ==
    /\ run.at = "tokens" /\ ~run.project.tokens.due
    /\ run' = [run EXCEPT !.at = "poll"]
    /\ UNCHANGED <<projTime, acct, projAlarm, flight, valid, forgotten, environment>>

RunBorrows ==
    /\ run.at = "tokens" /\ run.project.tokens.due /\ run.project.inherit = "inherit"
    /\ IF acct.status = "ready" /\ acct.tokens # Nil
       THEN /\ ~acct.tokens.due /\ flight = Idle
            /\ FencedStore([acct EXCEPT !.project = IF @ = Nil THEN @ ELSE [@ EXCEPT !.tokens = Tokens(Nil, FALSE)]],
                           [run EXCEPT !.at = "poll", !.project.tokens = Tokens(Nil, FALSE)])
       ELSE ProjectFailure(FALSE)
    /\ UNCHANGED <<projTime, flight, valid, forgotten, environment>>

RunRefreshes ==
    /\ run.at = "tokens" /\ run.project.tokens.due /\ run.project.inherit = "own"
    /\ \E t \in 1..MaxTokens :
          /\ Rotate(run.project.tokens.refresh, t)
          /\ run' = [run EXCEPT !.at = "save", !.project.tokens = Tokens(t, FALSE)]
    /\ UNCHANGED <<projTime, acct, projAlarm, flight, forgotten, projChanges, projCrashes>>

\* The refreshed tokens are durable before anything else can fail.
RunSaves ==
    /\ run.at = "save"
    /\ FencedStore([acct EXCEPT !.project = IF @ = Nil THEN @ ELSE [@ EXCEPT !.tokens = run.project.tokens]],
                   [run EXCEPT !.at = "poll"])
    /\ UNCHANGED <<projTime, flight, valid, forgotten, environment>>

\* The connection, a refresh or a step of Google fails: for want of an answer
\* or with a status that may be retried, or for good (verification, a refused
\* grant, an answer without a project).
RunFails(retryable) ==
    /\ run.at \in {"tokens", "poll"} /\ ProjectFailure(retryable)
    /\ UNCHANGED <<projTime, flight, valid, forgotten, environment>>

\* pollProject(): no project yet.
StillPending ==
    /\ run.at = "poll"
    /\ FencedStore([acct EXCEPT !.project = RetryLater([run.project EXCEPT !.stage = "onboard"])], Idle)
    /\ UNCHANGED <<projTime, flight, valid, forgotten, environment>>

\* The mutant takes the credentials without looking for a refresh.
NothingUnderWay == FALSE
\* replaceCredentials(): a borrowed token may be in rotation.
RotationUnderWay == flight # Idle /\ flight.generation = acct.generation

ProjectReady ==
    /\ run.at = "poll"
    /\ run' = [run EXCEPT !.at = "replace", !.waits = run.project.inherit = "inherit" /\ RotationUnderWay]
    /\ UNCHANGED <<projTime, acct, projAlarm, flight, valid, forgotten, environment>>

\* The account as the finished project leaves it.
ReplacedAccount ==
    [acct EXCEPT !.tokens = IF run.project.inherit = "inherit" THEN Tokens(acct.tokens.refresh, FALSE)
                            ELSE run.project.tokens,
                 !.status = "ready", !.project = Nil, !.generation = @ + 1, !.auth = @ + 1]

\* A borrowed token that is no longer there fails the alarm, which repeats it.
Replace ==
    /\ run.at = "replace" /\ (run.waits => flight = Idle)
    /\ IF run.project.inherit = "inherit" /\ acct.auth = run.auth
          /\ (acct.status # "ready" \/ acct.tokens = Nil)
       THEN run' = Idle /\ projAlarm' = projTime /\ UNCHANGED acct
       ELSE FencedStore(ReplacedAccount, Idle)
    /\ UNCHANGED <<projTime, flight, valid, forgotten, environment>>

\* The process dies: an alarm that had not ended is repeated, and a token
\* whose rotation was not stored is gone.
Crash ==
    /\ projCrashes < MaxCrashes /\ projCrashes' = projCrashes + 1
    /\ projAlarm' = IF run = Idle THEN projAlarm
                    ELSE IF projAlarm = Nil THEN projTime ELSE projAlarm
    /\ forgotten' = forgotten
          \cup (IF flight.at = "answered" /\ acct.tokens # Nil THEN {acct.tokens.refresh} ELSE {})
          \cup (IF run.at = "save" /\ acct.project # Nil THEN {acct.project.tokens.refresh} ELSE {})
    /\ run' = Idle /\ flight' = Idle
    /\ UNCHANGED <<projTime, acct, valid, minted, projChanges>>

RunStep ==
    \/ RunBegins \/ RunHasTokens \/ RunBorrows \/ RunRefreshes \/ RunSaves \/ StillPending
    \/ ProjectReady \/ Replace
    \/ \E retryable \in BOOLEAN : RunFails(retryable)

FlightStep == GoogleRefreshes \/ RefreshSettles \/ \E rejected \in BOOLEAN : RefreshFails(rejected)

ProjectNext ==
    \/ ProjectTick \/ ExpireAccess \/ LoginCompletes \/ StartAgain \/ RetryProject \/ Disconnect
    \/ Revoke \/ RefreshStarts \/ FlightStep \/ ProjectAlarmFires \/ RunStep \/ Crash

\* Time passes, alarms fire, Google answers or its timeouts expire, and a run
\* that waits for the account's refresh asks for it.
ProjectFairness ==
    /\ WF_projectVars(ProjectTick) /\ WF_projectVars(ProjectAlarmFires)
    /\ WF_projectVars(RunStep) /\ WF_projectVars(FlightStep)
    /\ WF_projectVars(RefreshStarts /\ run.at = "tokens")

ProjectSpec == ProjectInit /\ [][ProjectNext]_projectVars /\ ProjectFairness

-----------------------------------------------------------------------------
(* The account's refresh token, when nobody is rotating it, is one Google     *)
(* takes, unless its successor was lost with a process or it was revoked; so  *)
(* is the token a project has of its own.  A borrowed token that a request is *)
(* rotating is neither used twice nor put back (replaceCredentials,           *)
(* initializeProject).                                                        *)
CredentialsSurvive ==
    /\ acct.status = "ready" /\ flight = Idle => acct.tokens.refresh \in valid \cup forgotten
    /\ acct.project # Nil /\ acct.project.inherit = "own" /\ run.at # "save" =>
          acct.project.tokens.refresh \in valid \cup forgotten

(* A project that is pending ends: it is assigned, fails, or is superseded,   *)
(* whatever Google answers and whenever the process dies (alarm,              *)
(* scheduleProjectRetry, projectTimeout).                                     *)
ProjectSettles == []<>~PendingProject(acct)
=============================================================================
