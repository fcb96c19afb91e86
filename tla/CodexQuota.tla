----------------------------- MODULE CodexQuota -----------------------------
(***************************************************************************)
(* What an account of Codex shows of its quota (providers/codex/quota.ts,  *)
(* observations.ts, inventory.ts, account.ts).                             *)
(*                                                                         *)
(* The quota comes from two sources that overtake each other: every answer *)
(* and every event of a socket carries some windows, which are sent to the *)
(* account in the background, and a full read of the usage endpoint        *)
(* replaces everything it does not know to be older than what is shown.    *)
(*                                                                         *)
(* A value is represented by the time it is known to be at least as recent *)
(* as: when it was received, or when the read that brought it started.     *)
(* Labels, the lengths of windows, the text of errors and the list of reset *)
(* credits, which no merge looks at, are left out.                         *)
(***************************************************************************)
EXTENDS Integers, Sequences, FiniteSets, SequencesExt

CONSTANTS Answers,    \* headers of answers: [limits, plan, credits]
          Events,     \* codex.rate_limits events: [main, review, extra, plan, credits]
          Usages,     \* answers of the usage endpoint: [known, main, review, extra, plan, credits]
          Reads,      \* the full reads that are made
          Ids,        \* names of limits, as the provider writes them
          MaxGroups,  \* MAX_CODEX_QUOTA_GROUPS
          MaxQuotaTime, MaxSent, MaxLogins

VARIABLES quotaTime,  \* Date.now()
          login,      \* the account's generation
          quota,      \* what the account shows, and its clocks
          sent,       \* observations on their way to the account
          sends,      \* how many observations there have been
          read        \* per full read, how far it is

quotaVars == <<quotaTime, login, quota, sent, sends, read>>

Buckets == {"primary", "secondary"}
\* A window that is not shown, and a time nothing is known of.
Unseen == -1
NoWindow == [since |-> Unseen, reset |-> Unseen]
NotReading == [at |-> "idle"]

\* codexLimitId()
CodexLimitId(id) == IF id = "codex_code_review" THEN "code_review" ELSE id
GroupIds == {CodexLimitId(id) : id \in Ids \cup {"codex", "code_review"}}

\* parseCodexWindow(): a limit names the windows it has, and of these the
\* ones it gives the time of reset of.
ParseCodexWindow(bucket, limit, at) ==
    IF bucket \notin limit.windows THEN NoWindow
    ELSE [since |-> at, reset |-> IF bucket \in limit.resets THEN at ELSE Unseen]

\* group() and parseCodexLimit()
Group(id, limit, at) ==
    [id |-> CodexLimitId(id), windows |-> [b \in Buckets |-> ParseCodexWindow(b, limit, at)]]

KnownLimits(id, limit) == IF limit.windows = {} THEN <<>> ELSE <<[id |-> id, limit |-> limit]>>

\* The first of the groups that share a name stays.
FirstOfEach(limits) ==
    FoldLeft(LAMBDA kept, l :
                 IF \E i \in DOMAIN kept : CodexLimitId(kept[i].id) = CodexLimitId(l.id)
                 THEN kept ELSE Append(kept, l), <<>>, limits)

Limit(limits, n) == SubSeq(limits, 1, IF Len(limits) < n THEN Len(limits) ELSE n)
Groups(limits, at) == [i \in DOMAIN limits |-> Group(limits[i].id, limits[i].limit, at)]

\* codexQuotaHeaders()
CodexQuotaHeaders(answer, at) ==
    [groups |-> Groups(SelectSeq(Limit(answer.limits, MaxGroups), LAMBDA l : l.limit.windows # {}), at),
     plan |-> answer.plan, credits |-> answer.credits]

\* codexQuotaEvent(): the event's own limit, the code review's, then the
\* additional ones that are not there yet.
CodexQuotaEvent(event, at) ==
    LET own == KnownLimits(event.main.id, event.main.limit) \o KnownLimits("code_review", event.review)
        extra == SelectSeq(Limit(event.extra, MaxGroups - Len(own)),
                           LAMBDA l : /\ l.limit.windows # {}
                                      /\ \A i \in DOMAIN own : CodexLimitId(own[i].id) # CodexLimitId(l.id))
    IN  [groups |-> Groups(own \o FirstOfEach(extra), at), plan |-> event.plan, credits |-> event.credits]

\* observation(): an observation that tells nothing is none.
Informative(observation) ==
    observation.groups # <<>> \/ observation.plan \/ observation.credits

\* parseUsage(): a limit without windows is a group all the same.
ParseUsage(usage, at) ==
    LET all == (IF usage.main.known THEN <<[id |-> "codex", limit |-> usage.main]>> ELSE <<>>)
               \o (IF usage.review.known THEN <<[id |-> "code_review", limit |-> usage.review]>> ELSE <<>>)
               \o Limit(usage.extra, MaxGroups)
    IN  [groups |-> Groups(Limit(FirstOfEach(all), MaxGroups), at),
         plan |-> usage.plan, credits |-> usage.credits]

-----------------------------------------------------------------------------
EmptyQuota == [groups |-> <<>>, fullAt |-> 0,
               clocks |-> [w \in GroupIds \X Buckets |-> Unseen],
               plan |-> Unseen, planAt |-> 0, credits |-> Unseen, creditsAt |-> 0]

\* The place of a group, 0 when it is not shown.
PlaceOf(groups, id) ==
    LET places == {i \in DOMAIN groups : groups[i].id = id}
    IN  IF places = {} THEN 0 ELSE CHOOSE i \in places : \A j \in places : i <= j

Shown(q, id, bucket) ==
    LET i == PlaceOf(q.groups, id) IN IF i = 0 THEN NoWindow ELSE q.groups[i].windows[bucket]

\* mergeWindow(): what is observed, with what it does not tell.
MergeWindow(previous, observed) ==
    IF observed.reset # Unseen THEN observed ELSE [observed EXCEPT !.reset = previous.reset]

\* One window of an observation.
MergeBucket(q, i, bucket, window, at) ==
    LET id == q.groups[i].id
    IN  IF window = NoWindow \/ at < q.clocks[<<id, bucket>>] THEN q
        ELSE [q EXCEPT !.clocks[<<id, bucket>>] = at,
                       !.groups[i].windows[bucket] = MergeWindow(@, window)]

\* One group of an observation; a new one only where there is room.
MergeGroup(q, group, at) ==
    LET i == PlaceOf(q.groups, group.id)
        room == Len(q.groups) < MaxGroups
        there == IF i # 0 THEN q
                 ELSE [q EXCEPT !.groups = Append(@, [id |-> group.id,
                                                      windows |-> [b \in Buckets |-> NoWindow]])]
        place == IF i # 0 THEN i ELSE Len(q.groups) + 1
    IN  IF i = 0 /\ ~room THEN q
        ELSE FoldLeft(LAMBDA r, b : MergeBucket(r, place, b, group.windows[b], at),
                      there, <<"primary", "secondary">>)

\* mergeCodexQuotaObservation()
MergeCodexQuotaObservation(q, observation, at) ==
    IF at < q.fullAt THEN q
    ELSE LET merged == FoldLeft(LAMBDA r, g : MergeGroup(r, g, at), q, observation.groups)
             plan == observation.plan /\ at >= q.planAt
             credits == observation.credits /\ at >= q.creditsAt
         IN  [merged EXCEPT !.plan = IF plan THEN at ELSE @, !.planAt = IF plan THEN at ELSE @,
                            !.credits = IF credits THEN at ELSE @, !.creditsAt = IF credits THEN at ELSE @]

\* A window that was observed since the read started outlasts the read.
Outlasts(clock, startedAt, completedAt) == clock >= startedAt

\* The windows of a group that outlast a read.
NewerBuckets(q, group, startedAt, completedAt) ==
    {b \in Buckets : group.windows[b] # NoWindow
                     /\ Outlasts(q.clocks[<<group.id, b>>], startedAt, completedAt)}

\* A group that was shown, put back into the groups of a read.
PutBack(groups, previous, newer) ==
    LET i == PlaceOf(groups, previous.id)
    IN  CASE newer = {} -> groups
          [] newer # {} /\ i # 0 ->
                [groups EXCEPT ![i].windows =
                    [b \in Buckets |-> IF b \in newer THEN MergeWindow(@[b], previous.windows[b]) ELSE @[b]]]
          [] newer # {} /\ i = 0 /\ Len(groups) < MaxGroups ->
                Append(groups, [previous EXCEPT !.windows =
                    [b \in Buckets |-> IF b \in newer THEN @[b] ELSE NoWindow]])
          [] OTHER -> groups

\* The groups after a read.
GroupsAfter(q, usage, startedAt, completedAt) ==
    FoldLeft(LAMBDA groups, g : PutBack(groups, g, NewerBuckets(q, g, startedAt, completedAt)),
             usage.groups, q.groups)

\* The clocks of windows that are still there and newer than the read.
ClocksAfter(clocks, groups, startedAt) ==
    [w \in DOMAIN clocks |->
        IF clocks[w] >= startedAt /\ Shown([groups |-> groups], w[1], w[2]) # NoWindow
        THEN clocks[w] ELSE Unseen]

\* mergeCodexQuotaRefresh()
MergeCodexQuotaRefresh(q, usage, startedAt, completedAt) ==
    IF startedAt < q.fullAt THEN q
    ELSE LET groups == GroupsAfter(q, usage, startedAt, completedAt)
         IN  [q EXCEPT !.groups = groups, !.fullAt = startedAt,
                       !.clocks = ClocksAfter(@, groups, startedAt),
                       !.plan = IF startedAt > q.planAt /\ usage.plan THEN startedAt ELSE @,
                       !.planAt = IF startedAt > @ THEN startedAt ELSE @,
                       !.credits = IF startedAt > q.creditsAt
                                   THEN IF usage.credits THEN startedAt ELSE Unseen ELSE @,
                       !.creditsAt = IF startedAt > @ THEN startedAt ELSE @]

-----------------------------------------------------------------------------
CodexQuotaInit ==
    /\ quotaTime = 0 /\ login = 1 /\ quota = EmptyQuota
    /\ sent = {} /\ sends = 0 /\ read = [r \in Reads |-> NotReading]

QuotaTick ==
    /\ quotaTime < MaxQuotaTime /\ quotaTime' = quotaTime + 1
    /\ UNCHANGED <<login, quota, sent, sends, read>>

\* observe() of codexAccountHooks: the observation is sent in the background,
\* with the generation of the credential that was used.
ObserveQuota(observation) ==
    /\ Informative(observation) /\ sends < MaxSent /\ sends' = sends + 1
    /\ sent' = sent \cup {[login |-> login, at |-> quotaTime, observation |-> observation]}
    /\ UNCHANGED <<quotaTime, login, quota, read>>

ObserveResponse == \E a \in Answers : ObserveQuota(CodexQuotaHeaders(a, quotaTime))
ObserveWebSocketEvent == \E e \in Events : ObserveQuota(CodexQuotaEvent(e, quotaTime))

\* The account takes an observation of its own generation; one of an earlier
\* generation, and one whose delivery fails, is gone.
DeliverObservation(m) ==
    /\ m \in sent /\ sent' = sent \ {m}
    /\ quota' = IF m.login # login THEN quota
                ELSE MergeCodexQuotaObservation(quota, m.observation, m.at)
    /\ UNCHANGED <<quotaTime, login, sends, read>>

DeliveryFails(m) ==
    /\ m \in sent /\ sent' = sent \ {m}
    /\ UNCHANGED <<quotaTime, login, quota, sends, read>>

\* quota(): a full read starts.
QuotaRead(r) ==
    /\ read[r].at = "idle"
    /\ read' = [read EXCEPT ![r] = [at |-> "usage", login |-> login, startedAt |-> quotaTime]]
    /\ UNCHANGED <<quotaTime, login, quota, sent, sends>>

\* The usage arrives, perhaps with a token refreshed in between, or does not.
AfterUsage(r, usage, failed) ==
    read' = [read EXCEPT ![r] = [at |-> "resets", login |-> @.login, startedAt |-> @.startedAt,
                                 completedAt |-> quotaTime, usage |-> usage, failed |-> failed]]

CodexRead(r) ==
    /\ read[r].at = "usage"
    /\ \E u \in Usages : AfterUsage(r, ParseUsage(u, read[r].startedAt), ~u.known)
    /\ UNCHANGED <<quotaTime, login, quota, sent, sends>>

\* The update of the account, after fetchResetCredits(): only of its own
\* generation, and only by a read that did not fail.
ReadSettles(r) ==
    /\ read[r].at = "resets"
    /\ quota' = IF login # read[r].login \/ read[r].failed THEN quota
                ELSE MergeCodexQuotaRefresh(quota, read[r].usage, read[r].startedAt, read[r].completedAt)
    /\ read' = [read EXCEPT ![r] = [at |-> "done"]]
    /\ UNCHANGED <<quotaTime, login, sent, sends>>

\* completeAuthorization(): another login starts with an empty quota.
Login ==
    /\ login < MaxLogins /\ login' = login + 1 /\ quota' = EmptyQuota
    /\ UNCHANGED <<quotaTime, sent, sends, read>>

CodexQuotaNext ==
    \/ QuotaTick \/ ObserveResponse \/ ObserveWebSocketEvent \/ Login
    \/ \E m \in sent : DeliverObservation(m) \/ DeliveryFails(m)
    \/ \E r \in Reads : QuotaRead(r) \/ CodexRead(r) \/ ReadSettles(r)

CodexQuotaSpec == CodexQuotaInit /\ [][CodexQuotaNext]_quotaVars

-----------------------------------------------------------------------------
\* Nothing that stays shown is replaced by something known to be older.
NothingGoesBack ==
    /\ \A id \in GroupIds, b \in Buckets :
          LET before == Shown(quota, id, b)
              after == Shown(quota', id, b)
          IN  before # NoWindow /\ after # NoWindow =>
                  after.since >= before.since /\ after.reset >= before.reset
    /\ quota'.plan >= quota.plan
    /\ quota.credits # Unseen /\ quota'.credits # Unseen => quota'.credits >= quota.credits

\* The list of clocks is bounded by what is shown: a clock without its window
\* would grow it past what the account's schema admits.
ClocksAreShown ==
    /\ Len(quota.groups) <= MaxGroups
    /\ \A w \in GroupIds \X Buckets :
          quota.clocks[w] # Unseen => Shown(quota, w[1], w[2]).since = quota.clocks[w]

(* However observations and full reads of one login overtake each other, what *)
(* is shown of a window, of the plan and of the credits is never replaced by  *)
(* something known to be older (mergeCodexQuotaObservation,                   *)
(* mergeCodexQuotaRefresh), and the clocks are those of windows shown.        *)
KeepsCurrent == (login' = login => NothingGoesBack) /\ ClocksAreShown'
QuotaIsCurrent == [][KeepsCurrent]_quotaVars
=============================================================================
