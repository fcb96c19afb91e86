---------------------------- MODULE OAuthAccount ----------------------------
(***************************************************************************)
(* The lifecycle of one OAuth account (providers/oauth/account.ts with the *)
(* Codex protocols of providers/codex/).                                   *)
(*                                                                         *)
(* One object owns the account: a committed record, changed by commits that*)
(* a mutation queue serialises, and read in between by operations that     *)
(* wait for the network.  Two fences keep late operations out: `gen' for   *)
(* the active credentials, `auth' for the pending authorization.  Token    *)
(* operations of one generation run one after the other.                   *)
(*                                                                         *)
(* The issuer (external) rotates refresh tokens: a token that has been     *)
(* used is dead.  An answer of its may be lost.                            *)
(***************************************************************************)
EXTENDS Integers, Sequences, FiniteSets, TLC

CONSTANTS
    Callers,      \* requests and administrators using the account
    Alarm,        \* the alarm handler, of which at most one runs
    Flows,        \* authorization flows: native "pkce", "device", or "siwc"
    Grants,       \* what the issuer may grant: "own", "none", "same"
    MaxAuth,      \* bound: authorization generations
    MaxTokens     \* bound: tokens the issuer hands out

ASSUME AccountAssumption ==
    /\ Alarm \notin Callers
    /\ Flows \subseteq {"pkce", "device", "siwc"}
    /\ Grants \subseteq {"own", "none", "same"}
    /\ MaxAuth \in Nat /\ MaxTokens \in Nat \ {0}

Actors == Callers \cup {Alarm}

\* Callers are interchangeable.
Symmetry == Permutations(Callers)

VARIABLES
    acct,      \* the committed account
    armed,     \* an alarm is scheduled
    op,        \* per actor: the operation it is in and what it has read
    flight,    \* refreshes.get("token"): its generation and owner
    queue,     \* tokenOperations: per generation, the waiting operations
    live,      \* issuer: refresh tokens that still work
    issued,    \* issuer: tokens handed out so far
    lost,      \* history: tokens whose rotation never reached the account
    shared,    \* history: repeated tokens that a session took for its own
    blamed     \* history: sessions failed by another session's operation

vars == <<acct, armed, op, flight, queue, live, issued, lost, shared, blamed>>

\* An access token `a' and the refresh token `r' it came with; 0 is absent.
NoTok == [a |-> 0, r |-> 0]
NoSession == [id |-> 0, status |-> "none", flow |-> "pkce", tok |-> NoTok,
              ready |-> FALSE, expired |-> FALSE]
Idle == [pc |-> "idle", gen |-> 0, auth |-> 0, sid |-> 0, tok |-> NoTok,
         new |-> NoTok, wait |-> Alarm, broken |-> FALSE]
NoFlight == [gen |-> 0, owner |-> Alarm]

Fresh == [gen |-> 0, auth |-> 0, status |-> "disconnected", tok |-> NoTok,
          session |-> NoSession, mode |-> "native"]
Connected == [gen |-> 1, auth |-> 0, status |-> "ready", tok |-> [a |-> 1, r |-> 1],
              session |-> NoSession, mode |-> "native"]

\* The sign-in mode, fixed when the account is created, and the flows it offers.
Siwc == acct.mode = "siwc"
ModeFlows == IF Siwc THEN Flows \cap {"siwc"} ELSE Flows \ {"siwc"}

Init ==
    /\ acct \in {[account EXCEPT !.mode = mode] :
                     account \in {Fresh, Connected}, mode \in {"native", "siwc"}}
    /\ ModeFlows # {} /\ armed = FALSE
    /\ op = [x \in Actors |-> Idle] /\ flight = NoFlight
    /\ queue = [g \in 0..MaxAuth + 1 |-> <<>>]
    /\ live = {acct.tok.r} \ {0} /\ issued = 1
    /\ lost = {} /\ shared = {} /\ blamed = {}

Terminal == {"complete", "cancelled", "expired"}
Open(s) == s.id # 0 /\ s.status \notin Terminal
DevicePending(s) == s.flow = "device" /\ s.status = "pending"
Overdue(s) == Open(s) /\ s.expired

\* Mutant: only sessions with work to do keep an alarm.
AlarmOfWork(account) ==
    account.session.status = "initializing" \/ DevicePending(account.session)

\* nextAccountAlarm: an open session has its expiry, if nothing earlier.
AlarmOf(account) == Open(account.session)
Due == Overdue(acct.session) \/ acct.session.status = "initializing"
           \/ (DevicePending(acct.session) /\ acct.session.ready)

\* change(): record and alarm in one storage transaction, then the memory copy.
Commit(account) == acct' = account /\ armed' = AlarmOf(account)

At(x, pc) == op[x].pc = pc
Goto(x, pc) == op' = [op EXCEPT ![x].pc = pc]
Done(x) == op' = [op EXCEPT ![x] = Idle]
Fenced(x) == acct.auth = op[x].auth

-----------------------------------------------------------------------------
\* Token operations.

\* Mutant: a token operation starts without waiting for the one before it.
TurnAtOnce(x) == TRUE

Turn(x) == queue[op[x].gen] # <<>> /\ Head(queue[op[x].gen]) = x

\* The operation leaves coordinateTokens; a flight of its own is over, and a
\* replacement that was waiting for a flight that failed fails too.
Leave(x, ok) ==
    /\ queue' = [queue EXCEPT ![op[x].gen] = Tail(@)]
    /\ flight' = IF flight.owner = x THEN NoFlight ELSE flight
    /\ op' = [y \in Actors |->
                 IF y = x THEN Idle
                 ELSE IF op[y].wait = x /\ x # Alarm /\ ~ok
                      THEN [op[y] EXCEPT !.broken = TRUE] ELSE op[y]]

Usable == acct.status = "ready" /\ acct.tok # NoTok

\* resolve(): the token is about to expire, or upstream has rejected it; in the
\* second case it is compared first, and the snapshot may be stale after that.
Resolve(x) ==
    /\ x \in Callers /\ At(x, "idle") /\ Usable /\ ~Overdue(acct.session)
    /\ op' = [op EXCEPT ![x] = [Idle EXCEPT !.pc = "share", !.gen = acct.gen, !.tok = acct.tok]]
    /\ UNCHANGED <<acct, armed, flight, queue, live, issued, lost, shared, blamed>>

\* shareRefresh: join the flight of this generation or start one.
Share(x) ==
    /\ At(x, "share")
    /\ IF flight.owner # Alarm /\ flight.gen = op[x].gen
       THEN Done(x) /\ UNCHANGED <<flight, queue>>
       ELSE /\ flight' = [gen |-> op[x].gen, owner |-> x]
            /\ queue' = [queue EXCEPT ![op[x].gen] = Append(@, x)]
            /\ Goto(x, "refresh")
    /\ UNCHANGED <<acct, armed, live, issued, lost, shared, blamed>>

\* Mutant: the token is not compared again once it is the flight's turn.
CurrentAlways(x) == acct.gen = op[x].gen

\* The snapshot still is the account's when the flight's turn comes.
Current(x) == acct.gen = op[x].gen /\ acct.tok.a = op[x].tok.a

Refresh(x) ==
    /\ At(x, "refresh") /\ Turn(x)
    /\ IF Usable /\ Current(x)
       THEN /\ Goto(x, IF op[x].tok.r = 0 THEN "denied" ELSE "send")
            /\ UNCHANGED <<flight, queue>>
       ELSE Leave(x, Usable /\ acct.gen = op[x].gen)
    /\ UNCHANGED <<acct, armed, live, issued, lost, shared, blamed>>

\* The issuer (external) answers: a live token is honoured, and rotated or not.
\* The answer may be about another workspace or subject than the account's.
Issue(x) ==
    /\ At(x, "send") /\ issued < MaxTokens
    /\ IF op[x].tok.r \notin live THEN Goto(x, "denied") /\ UNCHANGED <<live, issued>>
       ELSE \E rotate \in IF Siwc THEN {TRUE} ELSE BOOLEAN :
              /\ issued' = issued + 1
              /\ live' = IF rotate THEN (live \ {op[x].tok.r}) \cup {issued'} ELSE live
              /\ \E pc \in {"answered", "stranger"} :
                    op' = [op EXCEPT ![x].pc = pc,
                           ![x].new = [a |-> issued', r |-> IF rotate THEN issued' ELSE 0]]
    /\ UNCHANGED <<acct, armed, flight, queue, lost, shared, blamed>>

\* The provider's refresh commits the answer under the generation fence; an
\* omitted refresh token keeps the one that was used.
Renew(x) ==
    /\ At(x, "answered")
    /\ IF acct.gen = op[x].gen
       THEN Commit([acct EXCEPT !.tok = [a |-> op[x].new.a,
                        r |-> IF op[x].new.r = 0 THEN op[x].tok.r ELSE op[x].new.r]])
       ELSE UNCHANGED <<acct, armed>>
    /\ Leave(x, acct.gen = op[x].gen)
    /\ UNCHANGED <<live, issued, lost, shared, blamed>>

\* An answer with a new refresh token, which only the operation holds so far.
Rotated(x) == op[x].pc \in {"answered", "stranger"} /\ op[x].new.r # 0

\* The call or its answer is lost, or the commit fails.
RefreshFails(x) ==
    /\ op[x].pc \in {"send", "answered", "stranger"}
    /\ lost' = IF Rotated(x) THEN lost \cup {op[x].tok.r} ELSE lost
    /\ Leave(x, FALSE)
    /\ UNCHANGED <<acct, armed, live, issued, shared, blamed>>

\* invalid_grant, the issuer's word or the object's own about an answer for
\* another workspace, is recorded only for the generation it is about.
Refuses(x) == acct.gen = op[x].gen

Denied(x) ==
    /\ op[x].pc \in {"denied", "stranger"}
    /\ IF Refuses(x)
       THEN Commit([acct EXCEPT !.status = "needs_reauthorization",
                                !.tok = IF Siwc THEN NoTok ELSE @])
       ELSE UNCHANGED <<acct, armed>>
    /\ Leave(x, FALSE)
    /\ UNCHANGED <<live, issued, lost, shared, blamed>>

-----------------------------------------------------------------------------
\* Authorization sessions.

\* Nobody knows the session's id before start() has answered, and start() takes
\* less time than a session lives.
Known == \A x \in Callers : op[x].pc \in {"insert", "prepare", "abort"} => op[x].sid # acct.session.id

Begun(flow) ==
    [acct EXCEPT !.auth = @ + 1,
        !.session = [NoSession EXCEPT !.id = acct.auth + 1, !.status = "pending", !.flow = flow]]

\* start(): a new session supersedes the one before it.
Start(x, flow) ==
    /\ x \in Callers /\ At(x, "idle") /\ ~Overdue(acct.session) /\ acct.auth < MaxAuth
    /\ Commit(Begun(flow))
    /\ op' = [op EXCEPT ![x] = [Idle EXCEPT !.pc = "insert", !.sid = acct.auth + 1]]
    /\ UNCHANGED <<flight, queue, live, issued, lost, shared, blamed>>

\* The account's SQL row is in place.  The fence that prepare, or the request
\* for a device code, will use is read only now.
Inserted(x) ==
    /\ At(x, "insert")
    /\ IF \/ Siwc
          \/ acct.session.flow = "device" /\ acct.session.id = op[x].sid
       THEN op' = [op EXCEPT ![x].pc = "prepare", ![x].auth = acct.auth]
       ELSE Done(x)
    /\ UNCHANGED <<acct, armed, flight, queue, live, issued, lost, shared, blamed>>

\* prepare / device.request: the host identity or the device code is stored.
Prepare(x) ==
    /\ At(x, "prepare")
    /\ IF Fenced(x) /\ acct.session.id = op[x].sid
       THEN Commit([acct EXCEPT !.session.ready = TRUE]) /\ Done(x)
       ELSE Goto(x, "abort") /\ UNCHANGED <<acct, armed>>
    /\ UNCHANGED <<flight, queue, live, issued, lost, shared, blamed>>

\* failSession
FailSession(x) ==
    /\ op[x].pc \in {"fail", "abort"}
    /\ IF Fenced(x)
       THEN /\ Commit(IF acct.session.id = 0 THEN acct
                      ELSE [acct EXCEPT !.session.status = "error"])
            /\ blamed' = IF acct.session.id \in {0, op[x].sid} THEN blamed
                         ELSE blamed \cup {acct.session.id}
       ELSE UNCHANGED <<acct, armed, blamed>>
    /\ Done(x)
    /\ UNCHANGED <<flight, queue, live, issued, lost, shared>>

\* Any network call of an authorization fails.
CallFails(x) ==
    /\ op[x].pc \in {"prepare", "poll", "exchange", "granted", "initialize"}
    /\ Goto(x, IF At(x, "prepare") THEN "abort" ELSE "fail")
    /\ UNCHANGED <<acct, armed, flight, queue, live, issued, lost, shared, blamed>>

\* complete(): the callback is checked, then claimed by one operation.
Complete(x) ==
    /\ x \in Callers /\ At(x, "idle") /\ ~Overdue(acct.session) /\ Known
    /\ acct.session.status = "pending" /\ acct.session.flow # "device"
    /\ op' = [op EXCEPT ![x] = [Idle EXCEPT !.pc = "claim", !.auth = acct.auth,
                                   !.sid = acct.session.id, !.tok = acct.tok]]
    /\ UNCHANGED <<acct, armed, flight, queue, live, issued, lost, shared, blamed>>

ClaimCallback(x) ==
    /\ At(x, "claim")
    /\ IF Fenced(x) /\ acct.session.status = "pending" /\ ~acct.session.expired
       THEN Commit([acct EXCEPT !.session.status = "exchanging"]) /\ Goto(x, "exchange")
       ELSE UNCHANGED <<acct, armed>> /\ Done(x)
    /\ UNCHANGED <<flight, queue, live, issued, lost, shared, blamed>>

\* The issuer (external) grants tokens: with a refresh token of their own, with
\* none, or repeating the one that is active.
Active == {r \in live : r = acct.tok.r \/ \E y \in Actors :
              At(y, "answered") /\ op[y].gen = acct.gen /\ op[y].new.r = r}
Grant(x) ==
    /\ At(x, "exchange") /\ issued < MaxTokens
    /\ issued' = issued + 1
    /\ \E r \in (IF "own" \in Grants THEN {issued'} ELSE {})
               \cup (IF "none" \in Grants THEN {0} ELSE {})
               \cup (IF "same" \in Grants THEN Active ELSE {}) :
          /\ live' = IF r = issued' THEN live \cup {r} ELSE live
          /\ op' = [op EXCEPT ![x].pc = "granted", ![x].new = [a |-> issued', r |-> r]]
    /\ UNCHANGED <<acct, armed, flight, queue, lost, shared, blamed>>

\* authorizationTokens: a repeated refresh token is inherited, not owned.
Owned(tok, known) == IF tok.r \in known THEN [tok EXCEPT !.r = 0] ELSE tok

Exchanged(x) ==
    /\ At(x, "granted")
    /\ IF Fenced(x) /\ acct.session.status = "exchanging"
          /\ (~acct.session.expired \/ acct.session.flow = "device")
       THEN /\ Commit([acct EXCEPT !.session.status = "initializing",
                           !.session.tok = Owned(op[x].new, {op[x].tok.r, acct.tok.r})])
            /\ Done(x)
       ELSE UNCHANGED <<acct, armed>> /\ Goto(x, "fail")
    /\ UNCHANGED <<flight, queue, live, issued, lost, shared, blamed>>

\* Mutant: cancelling leaves the authorization fence alone.
CancelledInPlace == [acct EXCEPT !.session.status = "cancelled", !.session.tok = NoTok]

Cancelled == [acct EXCEPT !.auth = @ + 1, !.session.status = "cancelled", !.session.tok = NoTok]

Cancel(x) ==
    /\ x \in Callers /\ At(x, "idle") /\ ~Overdue(acct.session) /\ acct.auth < MaxAuth
    /\ acct.session.id # 0 /\ acct.session.status # "complete" /\ Known
    /\ Commit(Cancelled)
    /\ UNCHANGED <<op, flight, queue, live, issued, lost, shared, blamed>>

Retryable == acct.session.status = "error" /\ acct.session.tok # NoTok /\ ~acct.session.expired

Retry(x) ==
    /\ x \in Callers /\ At(x, "idle") /\ acct.auth < MaxAuth /\ Retryable
    /\ Commit([acct EXCEPT !.auth = @ + 1, !.session.status = "initializing"])
    /\ UNCHANGED <<op, flight, queue, live, issued, lost, shared, blamed>>

\* expireSession: the first thing every command and the alarm do.
Expired == [acct EXCEPT !.auth = @ + 1, !.session.status = "expired", !.session.tok = NoTok]
Expire ==
    /\ Overdue(acct.session) /\ Commit(Expired)
    /\ UNCHANGED <<op, flight, queue, live, issued, lost, shared, blamed>>

TimePasses ==
    /\ Open(acct.session) /\ ~acct.session.expired /\ Known
    /\ acct' = [acct EXCEPT !.session.expired = TRUE]
    /\ UNCHANGED <<armed, op, flight, queue, live, issued, lost, shared, blamed>>

-----------------------------------------------------------------------------
\* disconnect(): at once, or, for SIWC, in line with the token operations, the
\* tokens staying until they are revoked.

Disconnect(x) ==
    /\ x \in Callers /\ At(x, "idle") /\ ~Overdue(acct.session)
    /\ acct.auth < MaxAuth /\ acct.gen <= MaxAuth
    /\ IF Siwc
       THEN /\ queue' = [queue EXCEPT ![acct.gen] = Append(@, x)]
            /\ op' = [op EXCEPT ![x] = [Idle EXCEPT !.pc = "disconnect", !.gen = acct.gen]]
            /\ UNCHANGED <<acct, armed>>
       ELSE /\ Commit([acct EXCEPT !.gen = @ + 1, !.auth = @ + 1, !.tok = NoTok,
                                   !.session = NoSession, !.status = "disconnected"])
            /\ UNCHANGED <<op, queue>>
    /\ UNCHANGED <<flight, live, issued, lost, shared, blamed>>

Block(x) ==
    /\ At(x, "disconnect") /\ Turn(x)
    /\ IF acct.gen # op[x].gen THEN Leave(x, FALSE) /\ UNCHANGED <<acct, armed>>
       ELSE /\ acct.auth < MaxAuth /\ acct.gen <= MaxAuth
            /\ Commit([acct EXCEPT !.gen = @ + 1, !.auth = @ + 1,
                                   !.session = NoSession, !.status = "disconnected"])
            /\ op' = [op EXCEPT ![x].pc = "revoke", ![x].tok = acct.tok]
            /\ UNCHANGED <<flight, queue>>
    /\ UNCHANGED <<live, issued, lost, shared, blamed>>

\* Revocation is confirmed or not; the tokens go unless new ones have come.
Revoke(x) ==
    /\ At(x, "revoke")
    /\ \E confirmed \in BOOLEAN : live' = IF confirmed THEN live \ {op[x].tok.r} ELSE live
    /\ IF acct.gen = op[x].gen + 1 THEN Commit([acct EXCEPT !.tok = NoTok])
       ELSE UNCHANGED <<acct, armed>>
    /\ Leave(x, TRUE)
    /\ UNCHANGED <<issued, lost, shared, blamed>>

-----------------------------------------------------------------------------
\* The alarm: expire, poll the device authorization, or initialize.

Fire ==
    /\ armed /\ Due /\ At(Alarm, "idle") /\ armed' = FALSE
    /\ op' = [op EXCEPT ![Alarm] = [Idle EXCEPT !.pc = "alarm"]]
    /\ UNCHANGED <<acct, flight, queue, live, issued, lost, shared, blamed>>

AlarmRuns ==
    /\ At(Alarm, "alarm") /\ ~Overdue(acct.session)
    /\ LET read(pc) == [Idle EXCEPT !.pc = pc, !.auth = acct.auth, !.sid = acct.session.id,
                                    !.tok = acct.tok, !.new = acct.session.tok] IN
       op' = [op EXCEPT ![Alarm] =
                 CASE DevicePending(acct.session) /\ acct.session.ready -> read("poll")
                   [] acct.session.status = "initializing" -> read("initialize")
                   [] OTHER -> Idle]
    /\ UNCHANGED <<acct, armed, flight, queue, live, issued, lost, shared, blamed>>

\* Not yet approved, or the network failed: poll again later.
PollAgain ==
    /\ At(Alarm, "poll")
    /\ IF Fenced(Alarm) THEN Commit(acct) /\ Done(Alarm)
       ELSE Goto(Alarm, "fail") /\ UNCHANGED <<acct, armed>>
    /\ UNCHANGED <<flight, queue, live, issued, lost, shared, blamed>>

Approved ==
    /\ At(Alarm, "poll")
    /\ IF Fenced(Alarm) /\ DevicePending(acct.session)
       THEN Commit([acct EXCEPT !.session.status = "exchanging"]) /\ Goto(Alarm, "exchange")
       ELSE Goto(Alarm, "fail") /\ UNCHANGED <<acct, armed>>
    /\ UNCHANGED <<flight, queue, live, issued, lost, shared, blamed>>

\* completeAuthorization: both fences advance.
Installed(tok) ==
    [acct EXCEPT !.gen = @ + 1, !.auth = @ + 1, !.status = "ready", !.tok = tok,
                 !.session.status = "complete", !.session.tok = NoTok]

Installable(x) == Fenced(x) /\ acct.session.status = "initializing" /\ ~acct.session.expired

\* replaceCredentials: tokens with a refresh token of their own replace the old
\* ones at once; the others join the token operations, remembering the flight.
Initialize ==
    /\ At(Alarm, "initialize") /\ acct.auth < MaxAuth /\ acct.gen <= MaxAuth
    /\ LET tok == IF Siwc THEN op[Alarm].new
                  ELSE Owned(op[Alarm].new, {op[Alarm].tok.r}) IN
       IF tok.r # 0 \/ (Siwc /\ op[Alarm].tok.r = 0)
       THEN /\ IF Installable(Alarm)
               THEN /\ Commit(Installed(IF tok.r # 0 THEN tok ELSE [tok EXCEPT !.r = acct.tok.r]))
                    /\ Done(Alarm)
                    /\ shared' = IF tok.r \in {0, tok.a} THEN shared ELSE shared \cup {tok.r}
               ELSE Goto(Alarm, "fail") /\ UNCHANGED <<acct, armed, shared>>
            /\ UNCHANGED queue
       ELSE /\ queue' = [queue EXCEPT ![acct.gen] = Append(@, Alarm)]
            /\ op' = [op EXCEPT ![Alarm].pc = "inherit", ![Alarm].gen = acct.gen, ![Alarm].new = tok,
                         ![Alarm].wait = IF flight.gen = acct.gen THEN flight.owner ELSE Alarm]
            /\ UNCHANGED <<acct, armed, shared>>
    /\ UNCHANGED <<flight, live, issued, lost, blamed>>

Inherit ==
    /\ At(Alarm, "inherit") /\ Turn(Alarm) /\ acct.auth < MaxAuth /\ acct.gen <= MaxAuth
    /\ queue' = [queue EXCEPT ![op[Alarm].gen] = Tail(@)]
    /\ IF ~op[Alarm].broken /\ Installable(Alarm) /\ acct.status = "ready" /\ acct.tok.r # 0
       THEN Commit(Installed([a |-> op[Alarm].new.a, r |-> acct.tok.r])) /\ Done(Alarm)
       ELSE Goto(Alarm, "fail") /\ UNCHANGED <<acct, armed>>
    /\ UNCHANGED <<flight, live, issued, lost, shared, blamed>>

\* The object is evicted: what it was doing is gone, a running alarm is
\* delivered again, and the issuer may have rotated tokens in vain.
Evict ==
    /\ \E x \in Actors : ~At(x, "idle")
    /\ armed' = (armed \/ ~At(Alarm, "idle"))
    /\ lost' = lost \cup {op[x].tok.r : x \in {y \in Actors : Rotated(y)}}
    /\ op' = [x \in Actors |-> Idle] /\ flight' = NoFlight
    /\ queue' = [g \in DOMAIN queue |-> <<>>]
    /\ UNCHANGED <<acct, live, issued, shared, blamed>>

Next ==
    \/ \E x \in Actors :
          \/ Resolve(x) \/ Share(x) \/ Refresh(x) \/ Issue(x) \/ Renew(x)
          \/ RefreshFails(x) \/ Denied(x)
          \/ (\E flow \in ModeFlows : Start(x, flow)) \/ Inserted(x) \/ Prepare(x)
          \/ FailSession(x) \/ CallFails(x)
          \/ Complete(x) \/ ClaimCallback(x) \/ Grant(x) \/ Exchanged(x)
          \/ Cancel(x) \/ Retry(x) \/ Disconnect(x) \/ Block(x) \/ Revoke(x)
    \/ Expire \/ TimePasses
    \/ Fire \/ AlarmRuns \/ PollAgain \/ Approved \/ Initialize \/ Inherit \/ Evict

Spec == Init /\ [][Next]_vars

-----------------------------------------------------------------------------
Tok == [a : 0..MaxTokens, r : 0..MaxTokens]
Session == [id : 0..MaxAuth, status : {"none", "pending", "exchanging", "initializing",
                "error", "complete", "cancelled", "expired"},
            flow : Flows \cup {"pkce"}, tok : Tok, ready : BOOLEAN, expired : BOOLEAN]

\* State has its type; an account is ready, and a sign-in initialising, only with
\* the tokens that takes.
TypeOK ==
    /\ acct \in [gen : 0..MaxAuth + 1, auth : Nat, tok : Tok, session : Session,
                 mode : {"native", "siwc"},
                 status : {"disconnected", "ready", "needs_reauthorization"}]
    /\ \A x \in Actors : op[x].tok \in Tok /\ op[x].new \in Tok
    /\ armed \in BOOLEAN /\ issued \in 1..MaxTokens
    /\ acct.session.status = "initializing" => acct.session.tok # NoTok
    /\ acct.status = "ready" => acct.tok.a # 0 /\ (Siwc \/ acct.tok.r # 0)

\* No two calls present the same refresh token to the issuer at the same time:
\* rotation would kill whichever answer comes second.  The exception, here and
\* below, are tokens that a grant repeated and that the session took for its own,
\* because they were not the account's when it compared them: two generations hold
\* such a token, and neither knows of the other.
SingleUse ==
    \A x, y \in Actors :
        At(x, "send") /\ At(y, "send") /\ x # y => op[x].tok.r # op[y].tok.r \/ op[x].tok.r \in shared

\* A ready account holds a refresh token that works, unless an answer was lost
\* or is about to be committed, or refused as another workspace's, for its very
\* generation: authorizations that start, fail, are cancelled or complete never
\* cost it the rotated token.
LatestToken ==
    acct.status = "ready" =>
        \/ acct.tok.r \in live \cup lost \cup shared \cup {0}
        \/ \E x \in Actors : /\ op[x].pc \in {"answered", "stranger"} /\ op[x].gen = acct.gen
                             /\ op[x].tok.r = acct.tok.r

\* Reauthorization is demanded only of credentials that no longer work, or whose
\* refresh the issuer has answered for another workspace: a late refusal of
\* replaced ones changes nothing, and no account takes a stranger's tokens.
Strange == \E x \in Actors : At(x, "stranger") /\ op[x].tok = acct.tok

DemandsAreDue ==
    [][/\ acct.status = "ready" /\ acct'.status = "needs_reauthorization"
              => acct.tok.r \notin live \/ Strange
       /\ \A x \in Actors : At(x, "stranger") => acct'.tok.a # op[x].new.a]_vars

\* A finished session stays as it ended, whatever operations it left behind;
\* OwnFailure below is about the one exception.
FinishedIsFinal ==
    [][acct.session.status \in Terminal /\ acct'.session.id \in {acct.session.id} \ blamed'
          => acct'.session.status = acct.session.status \/ acct'.session.status = "cancelled"]_vars

\* An open session always has an alarm ahead or running: none is left behind by
\* an eviction, a failed poll or a superseded operation.
OpenHasAlarm == Open(acct.session) => armed \/ ~At(Alarm, "idle")

\* Tokens are used once and the last one is kept.
TokensAreSound == SingleUse /\ LatestToken

\* Sessions and accounts are of their type, and what is open is woken.
SessionsAreSound == TypeOK /\ OpenHasAlarm

\* docs/agents/providers.md:10: "Providers retain the operation's original
\* generation even if execution is deferred."  An operation fails no session
\* but its own.
OwnFailure == blamed = {}
=============================================================================
