------------------------- MODULE OAuthAccountProofs -------------------------
(***************************************************************************)
(* Proofs about the OAuth account, for any number of callers and any       *)
(* bounds.  The inductive invariant IInv has one part per idea: types, how *)
(* far operations lag behind the account, where the numbers of tokens are, *)
(* who may present which token, the sessions operations work for, and the  *)
(* alarm that wakes them.  Two frame lemmas carry the parts an action does *)
(* not touch.                                                              *)
(***************************************************************************)
EXTENDS OAuthAccount, SequenceTheorems, TLAPS

-----------------------------------------------------------------------------
(* The inductive invariant. *)

\* Where an operation can be: presenting a token in its turn, starting an
\* authorization, or working for one it has read.
Presenting == {"send", "answered", "stranger"}
Sending == Presenting \cup {"denied"}
Starting == {"insert", "prepare", "abort"}
Signing == {"claim", "poll", "exchange", "granted", "initialize", "inherit", "fail"}
AlarmSteps == {"idle", "alarm", "poll", "exchange", "granted", "initialize", "inherit", "fail"}
Steps == {"idle", "alarm", "share", "refresh", "disconnect", "revoke"}
            \cup Sending \cup Starting \cup Signing

Account == [gen : 0..MaxAuth + 1, auth : Nat, tok : Tok, session : Session,
            mode : {"native", "siwc"},
            status : {"disconnected", "ready", "needs_reauthorization"}]
Operation == [pc : Steps, gen : 0..MaxAuth + 1, auth : Nat, sid : Nat, tok : Tok,
              new : Tok, wait : Actors, broken : BOOLEAN]

TypesOK ==
    /\ acct \in Account /\ armed \in BOOLEAN /\ issued \in 1..MaxTokens
    /\ op \in [Actors -> Operation] /\ op[Alarm].pc \in AlarmSteps
    /\ flight \in [gen : 0..MaxAuth + 1, owner : Actors]
    /\ queue \in [0..MaxAuth + 1 -> Seq(Actors)]
    /\ live \in SUBSET (1..issued)

\* What an operation has read is not newer than the account.
AgesOK ==
    /\ acct.session.id <= acct.auth
    /\ \A x \in Actors : op[x].gen <= acct.gen /\ op[x].auth <= acct.auth /\ op[x].sid <= acct.auth

\* Sessions and accounts have the tokens their status takes.
StatusOK ==
    /\ acct.session.id = 0 => acct.session.status = "none"
    /\ acct.session.tok # NoTok => acct.session.tok.a # 0
    /\ acct.session.status = "initializing" => acct.session.tok # NoTok
    /\ acct.status = "ready" => acct.tok.a # 0 /\ (Siwc \/ acct.tok.r # 0)

\* A number the issuer has handed out and nobody has committed or read yet.
Unread(n) ==
    /\ n \notin {acct.tok.a, acct.tok.r}
    /\ \A y \in Actors : n \notin {op[y].tok.a, op[y].tok.r}
Drawn(x) == op[x].pc \in {"answered", "stranger", "granted"}

\* A token that came with a refresh token of its own or with none, or one whose
\* refresh token repeats a number that was not drawn by a grant.
Repeatable(n) ==
    /\ n <= issued /\ n # acct.session.tok.a
    /\ \A y \in Actors : op[y].pc \in {"stranger", "granted"} => op[y].new.a # n
Whole(t) == t.r \in {0, t.a} \/ Repeatable(t.r)

\* A number on its way to the account is new to everybody else; one that was
\* repeated and taken for a session's own is of an earlier generation.
OnItsWay(x) ==
    \/ Unread(op[x].new.a) /\ op[x].new.a \notin shared
    \/ At(x, "answered") /\ op[x].gen # acct.gen /\ op[x].new.a \in shared

\* Tokens on their way to the account are new to everybody else, and a token
\* that was read is whole: its access token tells its refresh token.
NumbersOK ==
    /\ acct.tok.a <= issued /\ acct.tok.r <= issued /\ acct.session.tok.a <= issued
    /\ \A x \in Actors : op[x].tok.a <= issued /\ op[x].tok.r <= issued
    /\ \A n \in shared : n \in 1..issued
    /\ acct.session.tok.a # 0 => Unread(acct.session.tok.a) /\ acct.session.tok.a \notin shared
    /\ Whole(acct.session.tok)
    /\ \A x \in Actors : Drawn(x) =>
          /\ op[x].new.a \in 1..issued /\ OnItsWay(x) /\ op[x].new.a # acct.session.tok.a
          /\ Whole(op[x].new) /\ (op[x].pc # "granted" => op[x].new.r \in {0, op[x].new.a})
    /\ \A x, y \in Actors : Drawn(x) /\ Drawn(y) /\ x # y => op[x].new.a # op[y].new.a
    /\ \A x \in Actors : op[x].tok.a = acct.tok.a /\ acct.tok.a # 0 => op[x].tok.r = acct.tok.r

\* Who presents a token is first in line; what it presents is the account's
\* token, or one that is neither the account's nor another operation's, unless
\* the token is shared.
TurnsOK ==
    \A x \in Actors :
        /\ op[x].pc \in Sending \cup {"revoke"} => Turn(x)
        /\ op[x].pc \in Presenting => op[x].tok.r # 0
        /\ op[x].pc \in Sending /\ op[x].gen = acct.gen => acct.status = "ready" /\ op[x].tok = acct.tok
        /\ op[x].pc \in Sending /\ op[x].gen # acct.gen =>
              acct.tok.r = 0 \/ op[x].tok.r # acct.tok.r \/ acct.tok.r \in shared
        /\ \A y \in Actors \ {x} :
              op[x].pc \in Presenting /\ op[y].pc \in Presenting
                  => op[x].tok.r # op[y].tok.r \/ op[x].tok.r \in shared

\* A revocation is of tokens that no ready account holds.
RevocationsOK ==
    \A x \in Actors :
        /\ op[x].pc = "disconnect" => Siwc
        /\ op[x].pc = "revoke" =>
              /\ Siwc /\ op[x].gen < acct.gen
              /\ acct.status = "ready" =>
                    /\ acct.gen # op[x].gen + 1
                    /\ acct.tok.r = 0 \/ acct.tok.r # op[x].tok.r \/ acct.tok.r \in shared

\* What is on its way works, and what was denied does not.
IssuerOK ==
    /\ \A x \in Actors :
          /\ Drawn(x) /\ op[x].new.r = op[x].new.a /\ op[x].new.r \notin shared => op[x].new.r \in live
          /\ op[x].pc \in {"answered", "stranger"} /\ op[x].new.r = 0 =>
                op[x].tok.r \in live \cup shared /\ ~Siwc
          /\ op[x].pc = "denied" => op[x].tok.r \notin live
    /\ acct.session.tok.r # 0 /\ acct.session.tok.r = acct.session.tok.a => acct.session.tok.r \in live

\* What the alarm holds is what the session holds, as long as its fence stands.
ReplacementOK ==
    op[Alarm].pc \in {"initialize", "inherit"} /\ Fenced(Alarm) =>
        /\ acct.session.status \in {"initializing", "error"}
        /\ acct.session.status = "initializing" =>
              /\ op[Alarm].new.a = acct.session.tok.a
              /\ op[Alarm].pc = "initialize" => op[Alarm].new = acct.session.tok
        /\ op[Alarm].pc = "inherit" => op[Alarm].gen = acct.gen
        /\ Siwc /\ op[Alarm].pc = "initialize" /\ op[Alarm].tok.r = 0 => acct.tok.r = 0

\* A fence that stands is that of the operation's own, unfinished session.
FencesOK ==
    \A x \in Actors : op[x].pc \in Signing /\ Fenced(x) =>
        acct.session.id = op[x].sid /\ acct.session.status \notin Terminal

\* Nobody else works for a session that is being started.
StartsOK ==
    \A x \in Actors : op[x].pc \in Starting =>
        /\ op[x].sid # 0
        /\ acct.session.id = op[x].sid =>
              /\ acct.session.status \in {"pending", "error"} /\ acct.session.tok = NoTok
              /\ ~acct.session.expired /\ ~acct.session.ready
        /\ \A y \in Actors \ {x} : op[y].pc \in Starting \cup Signing => op[y].sid # op[x].sid

\* The alarm sleeps, wakes or has been overtaken: an open session has another.
AlarmOK ==
    Open(acct.session) =>
        /\ At(Alarm, "idle") => armed
        /\ At(Alarm, "alarm") => armed \/ Due
        /\ op[Alarm].pc \notin {"idle", "alarm"} /\ ~Fenced(Alarm) => armed

IInv ==
    /\ TypesOK /\ AgesOK /\ StatusOK /\ NumbersOK /\ TurnsOK /\ RevocationsOK /\ IssuerOK
    /\ LatestToken /\ ReplacementOK /\ FencesOK /\ StartsOK /\ AlarmOK

-----------------------------------------------------------------------------
(* Types, and what an update of a record leaves alone. *)

LEMMA Constants ==
    /\ NoTok \in Tok /\ NoSession \in Session /\ Idle \in Operation /\ Alarm \in Actors
    /\ NoTok.a = 0 /\ NoTok.r = 0 /\ \A t \in Tok : t.a = 0 /\ t.r = 0 => t = NoTok
<1>1. NoTok \in Tok
  BY AccountAssumption DEF NoTok, Tok
<1>2. NoSession \in Session
  BY AccountAssumption, <1>1 DEF NoSession, Session
<1>3. Idle \in Operation /\ Alarm \in Actors
  BY AccountAssumption, <1>1 DEF Idle, Operation, Steps, Actors
<1> QED
  BY <1>1, <1>2, <1>3 DEF NoTok, Tok

LEMMA SessionUpdates ==
    ASSUME NEW s \in Session
    PROVE  /\ \A v \in 0..MaxAuth : [s EXCEPT !.id = v] \in Session
           /\ \A v \in Flows : [s EXCEPT !.flow = v] \in Session
           /\ \A v \in Tok : [s EXCEPT !.tok = v] \in Session
           /\ \A v \in BOOLEAN : [s EXCEPT !.ready = v] \in Session /\ [s EXCEPT !.expired = v] \in Session
           /\ \A v \in {"pending", "exchanging", "initializing", "error", "complete", "cancelled", "expired"} :
                 [s EXCEPT !.status = v] \in Session
<1>1. \A v \in 0..MaxAuth : [s EXCEPT !.id = v] \in Session
  BY DEF Session
<1>2. \A v \in Flows : [s EXCEPT !.flow = v] \in Session
  BY DEF Session
<1>3. \A v \in Tok : [s EXCEPT !.tok = v] \in Session
  BY DEF Session
<1>4. \A v \in BOOLEAN : [s EXCEPT !.ready = v] \in Session
  BY DEF Session
<1>5. \A v \in BOOLEAN : [s EXCEPT !.expired = v] \in Session
  BY DEF Session
<1>6. ASSUME NEW v \in {"pending", "exchanging", "initializing", "error", "complete", "cancelled", "expired"}
      PROVE  [s EXCEPT !.status = v] \in Session
  BY DEF Session
<1> QED
  BY <1>1, <1>2, <1>3, <1>4, <1>5, <1>6

LEMMA AccountUpdates ==
    ASSUME NEW s \in Account
    PROVE  /\ \A v \in 0..MaxAuth + 1 : [s EXCEPT !.gen = v] \in Account
           /\ \A v \in Nat : [s EXCEPT !.auth = v] \in Account
           /\ \A v \in Tok : [s EXCEPT !.tok = v] \in Account
           /\ \A v \in Session : [s EXCEPT !.session = v] \in Account
           /\ \A v \in {"disconnected", "ready", "needs_reauthorization"} :
                 [s EXCEPT !.status = v] \in Account
<1>1. \A v \in 0..MaxAuth + 1 : [s EXCEPT !.gen = v] \in Account
  BY DEF Account
<1>2. \A v \in Nat : [s EXCEPT !.auth = v] \in Account
  BY DEF Account
<1>3. \A v \in Tok : [s EXCEPT !.tok = v] \in Account
  BY DEF Account
<1>4. \A v \in Session : [s EXCEPT !.session = v] \in Account
  BY DEF Account
<1>5. \A v \in {"disconnected", "ready", "needs_reauthorization"} : [s EXCEPT !.status = v] \in Account
  BY DEF Account
<1> QED
  BY <1>1, <1>2, <1>3, <1>4, <1>5

LEMMA OperationUpdates ==
    ASSUME NEW s \in Operation
    PROVE  /\ \A v \in Steps : [s EXCEPT !.pc = v] \in Operation
           /\ \A v \in 0..MaxAuth + 1 : [s EXCEPT !.gen = v] \in Operation
           /\ \A v \in Nat : [s EXCEPT !.auth = v] \in Operation /\ [s EXCEPT !.sid = v] \in Operation
           /\ \A v \in Tok : [s EXCEPT !.tok = v] \in Operation /\ [s EXCEPT !.new = v] \in Operation
           /\ \A v \in Actors : [s EXCEPT !.wait = v] \in Operation
           /\ [s EXCEPT !.broken = TRUE] \in Operation
<1>1. \A v \in Steps : [s EXCEPT !.pc = v] \in Operation
  BY DEF Operation
<1>2. \A v \in 0..MaxAuth + 1 : [s EXCEPT !.gen = v] \in Operation
  BY DEF Operation
<1>3. \A v \in Nat : [s EXCEPT !.auth = v] \in Operation
  BY DEF Operation
<1>4. \A v \in Nat : [s EXCEPT !.sid = v] \in Operation
  BY DEF Operation
<1>5. \A v \in Tok : [s EXCEPT !.tok = v] \in Operation
  BY DEF Operation
<1>6. \A v \in Tok : [s EXCEPT !.new = v] \in Operation
  BY DEF Operation
<1>7. \A v \in Actors : [s EXCEPT !.wait = v] \in Operation
  BY DEF Operation
<1>8. [s EXCEPT !.broken = TRUE] \in Operation
  BY DEF Operation
<1> QED
  BY <1>1, <1>2, <1>3, <1>4, <1>5, <1>6, <1>7, <1>8

\* One operation becomes r.
LEMMA Becomes ==
    ASSUME op \in [Actors -> Operation], NEW x \in Actors, NEW r \in Operation,
           op' = [op EXCEPT ![x] = r]
    PROVE  op' \in [Actors -> Operation] /\ op'[x] = r /\ \A y \in Actors \ {x} : op'[y] = op[y]
  OBVIOUS

\* One operation moves on.
LEMMA GoesTo ==
    ASSUME op \in [Actors -> Operation], NEW x \in Actors, NEW pc \in Steps, Goto(x, pc)
    PROVE  /\ op' \in [Actors -> Operation] /\ \A y \in Actors \ {x} : op'[y] = op[y]
           /\ op'[x].pc = pc /\ op'[x].gen = op[x].gen /\ op'[x].auth = op[x].auth
           /\ op'[x].sid = op[x].sid /\ op'[x].tok = op[x].tok /\ op'[x].new = op[x].new
<1>1. op' = [op EXCEPT ![x] = [op[x] EXCEPT !.pc = pc]]
  BY DEF Goto
<1>2. op[x] \in Operation /\ [op[x] EXCEPT !.pc = pc] \in Operation
  BY OperationUpdates
<1>3. op' \in [Actors -> Operation] /\ op'[x] = [op[x] EXCEPT !.pc = pc] /\ \A y \in Actors \ {x} : op'[y] = op[y]
  BY <1>1, <1>2, Becomes
<1> QED
  BY <1>2, <1>3 DEF Operation

\* One operation is over.
LEMMA IsDone ==
    ASSUME op \in [Actors -> Operation], NEW x \in Actors, Done(x)
    PROVE  op' \in [Actors -> Operation] /\ op'[x] = Idle /\ \A y \in Actors \ {x} : op'[y] = op[y]
  BY Constants, Becomes DEF Done

LEMMA IdleFields ==
    /\ Idle.pc = "idle" /\ Idle.gen = 0 /\ Idle.auth = 0 /\ Idle.sid = 0 /\ Idle.tok = NoTok
    /\ Idle.new = NoTok
  BY DEF Idle

\* One more operation in a line, and one less.
LEMMA QueueGrows ==
    ASSUME queue \in [0..MaxAuth + 1 -> Seq(Actors)], NEW g \in 0..MaxAuth + 1, NEW x \in Actors,
           queue' = [queue EXCEPT ![g] = Append(@, x)]
    PROVE  /\ queue' \in [0..MaxAuth + 1 -> Seq(Actors)]
           /\ \A h \in 0..MaxAuth + 1 : queue[h] # <<>> =>
                 queue'[h] # <<>> /\ Head(queue'[h]) = Head(queue[h])
<1>1. Append(queue[g], x) \in Seq(Actors) /\ Append(queue[g], x) # <<>>
      /\ (queue[g] # <<>> => Head(Append(queue[g], x)) = Head(queue[g]))
  BY AppendProperties, HeadTailProperties
<1> QED
  BY <1>1

LEMMA QueueShrinks ==
    ASSUME queue \in [0..MaxAuth + 1 -> Seq(Actors)], NEW g \in 0..MaxAuth + 1, queue[g] # <<>>,
           queue' = [queue EXCEPT ![g] = Tail(@)]
    PROVE  /\ queue' \in [0..MaxAuth + 1 -> Seq(Actors)]
           /\ \A h \in 0..MaxAuth + 1 : h # g => queue'[h] = queue[h]
<1>1. Tail(queue[g]) \in Seq(Actors)
  BY HeadTailProperties
<1> QED
  BY <1>1

-----------------------------------------------------------------------------
(* What each commit writes. *)

LEMMA BegunIs ==
    ASSUME acct \in Account, acct.auth < MaxAuth, NEW flow \in ModeFlows
    PROVE  /\ Begun(flow) \in Account
           /\ Begun(flow).gen = acct.gen /\ Begun(flow).auth = acct.auth + 1
           /\ Begun(flow).tok = acct.tok /\ Begun(flow).status = acct.status /\ Begun(flow).mode = acct.mode
           /\ Begun(flow).session.id = acct.auth + 1 /\ Begun(flow).session.status = "pending"
           /\ Begun(flow).session.tok = NoTok
           /\ ~Begun(flow).session.ready /\ ~Begun(flow).session.expired
<1> DEFINE s == [NoSession EXCEPT !.id = acct.auth + 1, !.status = "pending", !.flow = flow]
<1>1. s = [[[NoSession EXCEPT !.id = acct.auth + 1] EXCEPT !.status = "pending"] EXCEPT !.flow = flow]
  BY Constants DEF Session
<1>2. acct.auth + 1 \in 0..MaxAuth /\ acct.auth + 1 \in Nat /\ flow \in Flows
  BY AccountAssumption DEF Account, ModeFlows
<1>3. s \in Session
  BY <1>1, <1>2, Constants, SessionUpdates
<1>4. /\ s.id = acct.auth + 1 /\ s.status = "pending" /\ s.tok = NoTok
      /\ ~s.ready /\ ~s.expired
  BY DEF NoSession
<1> HIDE DEF s
<1>5. Begun(flow) = [acct EXCEPT !.auth = acct.auth + 1, !.session = s]
  BY DEF Begun, Account, s
<1>6. Begun(flow) = [[acct EXCEPT !.auth = acct.auth + 1] EXCEPT !.session = s]
  BY <1>5 DEF Account
<1>7. Begun(flow) \in Account
  <2>1. ASSUME NEW a \in Account
        PROVE  [a EXCEPT !.auth = acct.auth + 1] \in Account /\ [a EXCEPT !.session = s] \in Account
    BY <1>2, <1>3, AccountUpdates
  <2> QED
    BY <1>6, <2>1
<1>8. /\ Begun(flow).gen = acct.gen /\ Begun(flow).auth = acct.auth + 1 /\ Begun(flow).session = s
      /\ Begun(flow).tok = acct.tok /\ Begun(flow).status = acct.status /\ Begun(flow).mode = acct.mode
  BY <1>5 DEF Account
<1> QED
  BY <1>4, <1>7, <1>8

\* Only the session's status changes, or only what it waits for.
LEMMA SessionIs ==
    ASSUME acct \in Account, NEW status \in {"exchanging", "error"}
    PROVE  /\ LET a == [acct EXCEPT !.session.status = status] IN
              /\ a \in Account /\ a.gen = acct.gen /\ a.auth = acct.auth /\ a.tok = acct.tok
              /\ a.status = acct.status /\ a.mode = acct.mode
              /\ a.session.id = acct.session.id /\ a.session.status = status
              /\ a.session.tok = acct.session.tok /\ a.session.ready = acct.session.ready
              /\ a.session.expired = acct.session.expired /\ a.session.flow = acct.session.flow
           /\ LET a == [acct EXCEPT !.session.ready = TRUE] IN
              /\ a \in Account /\ a.gen = acct.gen /\ a.auth = acct.auth /\ a.tok = acct.tok
              /\ a.status = acct.status /\ a.mode = acct.mode
              /\ a.session.id = acct.session.id /\ a.session.status = acct.session.status
              /\ a.session.tok = acct.session.tok /\ a.session.expired = acct.session.expired
              /\ a.session.flow = acct.session.flow
           /\ LET a == [acct EXCEPT !.session.expired = TRUE] IN
              /\ a \in Account /\ a.gen = acct.gen /\ a.auth = acct.auth /\ a.tok = acct.tok
              /\ a.status = acct.status /\ a.mode = acct.mode
              /\ a.session.id = acct.session.id /\ a.session.status = acct.session.status
              /\ a.session.tok = acct.session.tok /\ a.session.expired
              /\ a.session.ready = acct.session.ready /\ a.session.flow = acct.session.flow
<1>1. acct.session \in Session
  BY DEF Account
<1>2. ASSUME NEW s \in Session
      PROVE  LET a == [acct EXCEPT !.session = s] IN
             /\ a \in Account /\ a.gen = acct.gen /\ a.auth = acct.auth /\ a.tok = acct.tok
             /\ a.status = acct.status /\ a.mode = acct.mode /\ a.session = s
  BY DEF Account
<1>3. /\ [acct EXCEPT !.session.status = status] = [acct EXCEPT !.session = [acct.session EXCEPT !.status = status]]
      /\ [acct EXCEPT !.session.ready = TRUE] = [acct EXCEPT !.session = [acct.session EXCEPT !.ready = TRUE]]
      /\ [acct EXCEPT !.session.expired = TRUE] = [acct EXCEPT !.session = [acct.session EXCEPT !.expired = TRUE]]
  BY DEF Account
<1>4. /\ [acct.session EXCEPT !.status = status] \in Session
      /\ [acct.session EXCEPT !.ready = TRUE] \in Session
      /\ [acct.session EXCEPT !.expired = TRUE] \in Session
  BY <1>1, SessionUpdates
<1>5. LET s == [acct.session EXCEPT !.status = status] IN
      /\ s.id = acct.session.id /\ s.status = status /\ s.tok = acct.session.tok
      /\ s.ready = acct.session.ready /\ s.expired = acct.session.expired /\ s.flow = acct.session.flow
  BY <1>1 DEF Session
<1>6. LET s == [acct.session EXCEPT !.ready = TRUE] IN
      /\ s.id = acct.session.id /\ s.status = acct.session.status /\ s.tok = acct.session.tok
      /\ s.expired = acct.session.expired /\ s.flow = acct.session.flow
  BY <1>1 DEF Session
<1>7. LET s == [acct.session EXCEPT !.expired = TRUE] IN
      /\ s.id = acct.session.id /\ s.status = acct.session.status /\ s.tok = acct.session.tok
      /\ s.ready = acct.session.ready /\ s.expired /\ s.flow = acct.session.flow
  BY <1>1 DEF Session
<1>8. LET a == [acct EXCEPT !.session.status = status] IN
      /\ a \in Account /\ a.gen = acct.gen /\ a.auth = acct.auth /\ a.tok = acct.tok
      /\ a.status = acct.status /\ a.mode = acct.mode
      /\ a.session = [acct.session EXCEPT !.status = status]
  BY <1>2, <1>3, <1>4
<1>9. LET a == [acct EXCEPT !.session.ready = TRUE] IN
      /\ a \in Account /\ a.gen = acct.gen /\ a.auth = acct.auth /\ a.tok = acct.tok
      /\ a.status = acct.status /\ a.mode = acct.mode
      /\ a.session = [acct.session EXCEPT !.ready = TRUE]
  BY <1>2, <1>3, <1>4
<1>10. LET a == [acct EXCEPT !.session.expired = TRUE] IN
      /\ a \in Account /\ a.gen = acct.gen /\ a.auth = acct.auth /\ a.tok = acct.tok
      /\ a.status = acct.status /\ a.mode = acct.mode
      /\ a.session = [acct.session EXCEPT !.expired = TRUE]
  BY <1>2, <1>3, <1>4
<1> QED
  BY <1>5, <1>6, <1>7, <1>8, <1>9, <1>10

\* A session's status and tokens.
LEMMA SignedIs ==
    ASSUME NEW s \in Session, NEW t \in Tok,
           NEW status \in {"initializing", "complete", "cancelled", "expired"}
    PROVE  LET r == [s EXCEPT !.status = status, !.tok = t] IN
           /\ r \in Session /\ r.id = s.id /\ r.status = status /\ r.tok = t
           /\ r.ready = s.ready /\ r.expired = s.expired /\ r.flow = s.flow
<1>1. [s EXCEPT !.status = status, !.tok = t] = [[s EXCEPT !.status = status] EXCEPT !.tok = t]
  BY DEF Session
<1>2. [s EXCEPT !.status = status, !.tok = t] \in Session
  BY <1>1, SessionUpdates
<1> QED
  BY <1>2 DEF Session

LEMMA ExchangedIs ==
    ASSUME acct \in Account, NEW t \in Tok
    PROVE  LET a == [acct EXCEPT !.session.status = "initializing", !.session.tok = t] IN
           /\ a \in Account /\ a.gen = acct.gen /\ a.auth = acct.auth /\ a.tok = acct.tok
           /\ a.status = acct.status /\ a.mode = acct.mode
           /\ a.session.id = acct.session.id /\ a.session.status = "initializing" /\ a.session.tok = t
<1> DEFINE s == [acct.session EXCEPT !.status = "initializing", !.tok = t]
<1>0. acct.session \in Session
  BY DEF Account
<1>1. s \in Session /\ s.id = acct.session.id /\ s.status = "initializing" /\ s.tok = t
  BY <1>0, SignedIs
<1>2. [acct EXCEPT !.session.status = "initializing", !.session.tok = t] = [acct EXCEPT !.session = s]
  BY DEF Account
<1> HIDE DEF s
<1>3. LET a == [acct EXCEPT !.session = s] IN
      /\ a \in Account /\ a.gen = acct.gen /\ a.auth = acct.auth /\ a.tok = acct.tok
      /\ a.status = acct.status /\ a.mode = acct.mode /\ a.session = s
  BY <1>1 DEF Account
<1> QED
  BY <1>1, <1>2, <1>3

\* The authorization is over, or begins anew.
Over(a, status) ==
    /\ a \in Account /\ a.gen = acct.gen /\ a.auth = acct.auth + 1 /\ a.tok = acct.tok
    /\ a.status = acct.status /\ a.mode = acct.mode
    /\ a.session.id = acct.session.id /\ a.session.status = status
LEMMA OverIs ==
    ASSUME acct \in Account
    PROVE  /\ Over(Cancelled, "cancelled") /\ Cancelled.session.tok = NoTok
           /\ Over(Expired, "expired") /\ Expired.session.tok = NoTok
           /\ LET a == [acct EXCEPT !.auth = @ + 1, !.session.status = "initializing"] IN
              Over(a, "initializing") /\ a.session.tok = acct.session.tok
<1>0. acct.session \in Session /\ NoTok \in Tok
  BY Constants DEF Account
<1>1. ASSUME NEW s \in Session
      PROVE  LET a == [acct EXCEPT !.auth = acct.auth + 1, !.session = s] IN
             /\ a \in Account /\ a.gen = acct.gen /\ a.auth = acct.auth + 1 /\ a.tok = acct.tok
             /\ a.status = acct.status /\ a.mode = acct.mode /\ a.session = s
  <2>1. [acct EXCEPT !.auth = acct.auth + 1, !.session = s] = [[acct EXCEPT !.auth = acct.auth + 1] EXCEPT !.session = s]
    BY DEF Account
  <2>2. [acct EXCEPT !.auth = acct.auth + 1, !.session = s] \in Account
    <3>1. acct.auth + 1 \in Nat
      BY DEF Account
    <3> QED
      BY <2>1, <3>1, AccountUpdates
  <2> QED
    BY <2>2 DEF Account
<1>2. /\ Cancelled = [acct EXCEPT !.auth = acct.auth + 1,
                          !.session = [acct.session EXCEPT !.status = "cancelled", !.tok = NoTok]]
      /\ Expired = [acct EXCEPT !.auth = acct.auth + 1,
                          !.session = [acct.session EXCEPT !.status = "expired", !.tok = NoTok]]
      /\ [acct EXCEPT !.auth = @ + 1, !.session.status = "initializing"]
            = [acct EXCEPT !.auth = acct.auth + 1,
                          !.session = [acct.session EXCEPT !.status = "initializing"]]
  BY DEF Account, Cancelled, Expired
<1>3. LET s == [acct.session EXCEPT !.status = "cancelled", !.tok = NoTok] IN
      s \in Session /\ s.id = acct.session.id /\ s.status = "cancelled" /\ s.tok = NoTok
  BY <1>0, SignedIs
<1>4. LET s == [acct.session EXCEPT !.status = "expired", !.tok = NoTok] IN
      s \in Session /\ s.id = acct.session.id /\ s.status = "expired" /\ s.tok = NoTok
  BY <1>0, SignedIs
<1>5. LET s == [acct.session EXCEPT !.status = "initializing"] IN
      s \in Session /\ s.id = acct.session.id /\ s.status = "initializing" /\ s.tok = acct.session.tok
  <2>1. acct.session \in Session
    BY DEF Account
  <2>2. [acct.session EXCEPT !.status = "initializing"] \in Session
    BY <2>1, SessionUpdates
  <2> QED
    BY <2>1, <2>2 DEF Session
<1>6. Over(Cancelled, "cancelled") /\ Cancelled.session.tok = NoTok
  BY <1>1, <1>2, <1>3 DEF Over
<1>7. Over(Expired, "expired") /\ Expired.session.tok = NoTok
  BY <1>1, <1>2, <1>4 DEF Over
<1>8. LET a == [acct EXCEPT !.auth = @ + 1, !.session.status = "initializing"] IN
      Over(a, "initializing") /\ a.session.tok = acct.session.tok
  BY <1>1, <1>2, <1>5 DEF Over
<1> QED
  BY <1>6, <1>7, <1>8

\* Both generations advance.
LEMMA InstalledIs ==
    ASSUME acct \in Account, acct.gen <= MaxAuth, NEW t \in Tok
    PROVE  LET a == Installed(t) IN
           /\ a \in Account /\ a.gen = acct.gen + 1 /\ a.auth = acct.auth + 1 /\ a.tok = t
           /\ a.status = "ready" /\ a.mode = acct.mode
           /\ a.session.id = acct.session.id /\ a.session.status = "complete" /\ a.session.tok = NoTok
<1> DEFINE s == [acct.session EXCEPT !.status = "complete", !.tok = NoTok]
<1>0. acct.session \in Session /\ NoTok \in Tok
  BY Constants DEF Account
<1>1. s \in Session /\ s.id = acct.session.id /\ s.status = "complete" /\ s.tok = NoTok
  BY <1>0, SignedIs
<1>2. Installed(t) = [acct EXCEPT !.gen = acct.gen + 1, !.auth = acct.auth + 1, !.status = "ready", !.tok = t,
                                  !.session = s]
  BY DEF Account, Installed
<1> HIDE DEF s
<1>3. Installed(t) = [[[[[acct EXCEPT !.gen = acct.gen + 1] EXCEPT !.auth = acct.auth + 1]
                            EXCEPT !.status = "ready"] EXCEPT !.tok = t] EXCEPT !.session = s]
  BY <1>2 DEF Account
<1>4. acct.gen + 1 \in 0..MaxAuth + 1 /\ acct.auth + 1 \in Nat
  BY AccountAssumption DEF Account
<1>5. Installed(t) \in Account
  <2>1. ASSUME NEW a \in Account
        PROVE  /\ [a EXCEPT !.gen = acct.gen + 1] \in Account /\ [a EXCEPT !.auth = acct.auth + 1] \in Account
               /\ [a EXCEPT !.status = "ready"] \in Account /\ [a EXCEPT !.tok = t] \in Account
               /\ [a EXCEPT !.session = s] \in Account
    BY <1>1, <1>4, AccountUpdates
  <2> QED
    BY <1>3, <2>1
<1>6. /\ Installed(t).gen = acct.gen + 1 /\ Installed(t).auth = acct.auth + 1 /\ Installed(t).tok = t
      /\ Installed(t).status = "ready" /\ Installed(t).mode = acct.mode /\ Installed(t).session = s
  BY <1>2 DEF Account
<1> QED
  BY <1>1, <1>5, <1>6

LEMMA DisconnectedIs ==
    ASSUME acct \in Account, acct.gen <= MaxAuth, NEW t \in Tok
    PROVE  LET a == [acct EXCEPT !.gen = @ + 1, !.auth = @ + 1, !.tok = t,
                                 !.session = NoSession, !.status = "disconnected"] IN
           /\ a \in Account /\ a.gen = acct.gen + 1 /\ a.auth = acct.auth + 1 /\ a.tok = t
           /\ a.status = "disconnected" /\ a.mode = acct.mode /\ a.session = NoSession
<1> DEFINE a == [acct EXCEPT !.gen = acct.gen + 1, !.auth = acct.auth + 1, !.tok = t,
                             !.session = NoSession, !.status = "disconnected"]
<1>1. a = [[[[[acct EXCEPT !.gen = acct.gen + 1] EXCEPT !.auth = acct.auth + 1]
                  EXCEPT !.tok = t] EXCEPT !.session = NoSession] EXCEPT !.status = "disconnected"]
  BY DEF Account
<1>2. acct.gen + 1 \in 0..MaxAuth + 1 /\ acct.auth + 1 \in Nat
  BY AccountAssumption DEF Account
<1>3. a \in Account
  <2>1. ASSUME NEW b \in Account
        PROVE  /\ [b EXCEPT !.gen = acct.gen + 1] \in Account /\ [b EXCEPT !.auth = acct.auth + 1] \in Account
               /\ [b EXCEPT !.status = "disconnected"] \in Account /\ [b EXCEPT !.tok = t] \in Account
               /\ [b EXCEPT !.session = NoSession] \in Account
    BY <1>2, Constants, AccountUpdates
  <2> QED
    BY <1>1, <2>1
<1>4. /\ a.gen = acct.gen + 1 /\ a.auth = acct.auth + 1 /\ a.tok = t
      /\ a.status = "disconnected" /\ a.mode = acct.mode /\ a.session = NoSession
  BY DEF Account
<1> QED
  BY <1>3, <1>4

LEMMA BlockedIs ==
    ASSUME acct \in Account
    PROVE  [acct EXCEPT !.gen = @ + 1, !.auth = @ + 1, !.session = NoSession, !.status = "disconnected"]
              = [acct EXCEPT !.gen = @ + 1, !.auth = @ + 1, !.tok = acct.tok,
                             !.session = NoSession, !.status = "disconnected"]
  BY DEF Account

\* Only the tokens change, or they and the status.
LEMMA TokensAre ==
    ASSUME acct \in Account, NEW t \in Tok
    PROVE  /\ LET a == [acct EXCEPT !.tok = t] IN
              /\ a \in Account /\ a.gen = acct.gen /\ a.auth = acct.auth /\ a.tok = t
              /\ a.status = acct.status /\ a.mode = acct.mode /\ a.session = acct.session
           /\ LET a == [acct EXCEPT !.status = "needs_reauthorization", !.tok = t] IN
              /\ a \in Account /\ a.gen = acct.gen /\ a.auth = acct.auth /\ a.tok = t
              /\ a.status = "needs_reauthorization" /\ a.mode = acct.mode /\ a.session = acct.session
<1>1. [acct EXCEPT !.tok = t] \in Account
  BY AccountUpdates
<1>2. [acct EXCEPT !.status = "needs_reauthorization", !.tok = t] \in Account
  <2>1. [acct EXCEPT !.status = "needs_reauthorization", !.tok = t]
           = [[acct EXCEPT !.status = "needs_reauthorization"] EXCEPT !.tok = t]
    BY DEF Account
  <2> QED
    BY <2>1, AccountUpdates
<1> QED
  BY <1>1, <1>2 DEF Account

-----------------------------------------------------------------------------
(* Frames. *)

\* An operation stays as it is, except that a flight it waits for may fail.
Same(y) ==
    /\ op'[y].pc = op[y].pc /\ op'[y].gen = op[y].gen /\ op'[y].auth = op[y].auth
    /\ op'[y].sid = op[y].sid /\ op'[y].tok = op[y].tok /\ op'[y].new = op[y].new

\* Nobody's turn ends and nobody's token changes hands.
LineStays ==
    \A g \in 0..MaxAuth + 1 : queue[g] # <<>> => queue'[g] # <<>> /\ Head(queue'[g]) = Head(queue[g])
Bystander(y) ==
    /\ op'[y].pc \in Sending \cup {"revoke", "granted"} => Same(y) /\ (Turn(y) => Turn(y)')
    /\ op[y].pc \in {"answered", "stranger"} => Same(y)
    /\ op'[y].tok \in {op[y].tok, acct.tok, NoTok}
    /\ op'[y].pc = "disconnect" => acct.mode = "siwc"
TokensStay ==
    /\ acct'.gen = acct.gen /\ acct'.status = acct.status /\ acct'.mode = acct.mode /\ acct'.tok = acct.tok
    /\ acct'.session.tok \in {acct.session.tok, NoTok}
    /\ live' = live /\ issued' = issued /\ lost' = lost /\ shared' = shared
    /\ \A y \in Actors : Bystander(y)

\* The numbers stay where they are as long as nobody draws, commits or reads one
\* that is not the account's.
NumbersStay ==
    /\ issued' = issued /\ shared' = shared
    /\ acct'.tok \in {acct.tok, NoTok} /\ acct'.session.tok \in {acct.session.tok, NoTok}
    /\ \A y \in Actors :
          /\ op'[y].tok \in {op[y].tok, acct.tok, NoTok}
          /\ op[y].gen # acct.gen => op[y].gen # acct'.gen
          /\ Drawn(y)' => op'[y].pc = op[y].pc /\ op'[y].new = op[y].new /\ op'[y].gen = op[y].gen

LEMMA NumbersFrame ==
    ASSUME TypesOK, NumbersOK, NumbersStay
    PROVE  NumbersOK'
<1> USE DEF NumbersStay
<1>1. \A n : Unread(n) => n = 0 \/ Unread(n)'
  BY Constants DEF Unread
<1>2. acct'.session.tok.a \in {0, acct.session.tok.a} /\ issued \in Nat
  BY Constants DEF TypesOK
<1>3. /\ acct'.tok.a <= issued' /\ acct'.tok.r <= issued' /\ acct'.session.tok.a <= issued'
      /\ acct'.session.tok.a # 0 => Unread(acct.session.tok.a)' /\ acct'.session.tok.a \notin shared'
  BY <1>1, <1>2, Constants DEF NumbersOK
<1>4. \A x \in Actors : op'[x].tok.a <= issued' /\ op'[x].tok.r <= issued'
  BY <1>2, Constants DEF NumbersOK
<1>5. ASSUME NEW t \in Tok, Whole(t)
      PROVE  Whole(t)'
  <2>1. t.r # 0 => t.r # acct'.session.tok.a \/ t.r = acct.session.tok.a
    BY <1>2
  <2>2. \A y \in Actors : op'[y].pc \in {"stranger", "granted"} => op'[y].pc = op[y].pc /\ op'[y].new = op[y].new
    BY DEF Drawn
  <2> QED
    BY <1>5, <2>1, <2>2 DEF Whole, Repeatable
<1>6. ASSUME NEW x \in Actors, Drawn(x)'
      PROVE  /\ op'[x].new.a \in 1..issued' /\ OnItsWay(x)' /\ op'[x].new.a # acct'.session.tok.a
             /\ Whole(op[x].new)' /\ (op'[x].pc # "granted" => op'[x].new.r \in {0, op'[x].new.a})
  <2>1. /\ Drawn(x) /\ op[x].new \in Tok
        /\ op'[x].pc = op[x].pc /\ op'[x].new = op[x].new /\ op'[x].gen = op[x].gen
    BY <1>6 DEF Drawn, TypesOK, Operation
  <2>2. /\ op[x].new.a \in 1..issued /\ OnItsWay(x) /\ op[x].new.a # acct.session.tok.a
        /\ Whole(op[x].new) /\ (op[x].pc # "granted" => op[x].new.r \in {0, op[x].new.a})
    BY <2>1 DEF NumbersOK
  <2>3. Whole(op[x].new)'
    <3>1. PICK t \in Tok : t = op[x].new
      BY <2>1
    <3>2. Whole(t)' /\ op'[x].new = t
      BY <1>5, <2>1, <2>2, <3>1
    <3> QED
      BY <3>2 DEF Whole
  <2>4. OnItsWay(x)'
    BY <1>1, <2>1, <2>2 DEF OnItsWay, At
  <2> QED
    BY <1>2, <2>1, <2>2, <2>3, <2>4
<1>7. \A x, y \in Actors : Drawn(x)' /\ Drawn(y)' /\ x # y => op'[x].new.a # op'[y].new.a
  BY DEF NumbersOK, Drawn
<1>8. \A x \in Actors : op'[x].tok.a = acct'.tok.a /\ acct'.tok.a # 0 => op'[x].tok.r = acct'.tok.r
  BY Constants DEF NumbersOK
<1>9. Whole(acct.session.tok)' /\ \A n \in shared' : n \in 1..issued'
  <2>1. acct.session.tok \in Tok /\ NoTok.r = 0
    BY Constants DEF TypesOK, Account, Session
  <2>2. CASE acct'.session.tok = NoTok
    BY <2>1, <2>2 DEF Whole, NumbersOK
  <2>3. CASE acct'.session.tok = acct.session.tok
    <3>1. PICK t \in Tok : t = acct.session.tok
      BY <2>1
    <3>2. Whole(t)'
      BY <1>5, <3>1 DEF NumbersOK
    <3> QED
      BY <2>3, <3>1, <3>2 DEF Whole, NumbersOK
  <2> QED
    BY <2>2, <2>3
<1> QED
  BY <1>3, <1>4, <1>6, <1>7, <1>8, <1>9 DEF NumbersOK

LEMMA TokensFrame ==
    ASSUME TypesOK, TypesOK', NumbersOK, TurnsOK, RevocationsOK, IssuerOK, LatestToken, TokensStay
    PROVE  NumbersOK' /\ TurnsOK' /\ RevocationsOK' /\ IssuerOK' /\ LatestToken'
<1> USE DEF TokensStay, Bystander, Same
<1>1. NumbersOK'
  <2>1. NumbersStay
    BY DEF NumbersStay, Drawn, Sending, Presenting
  <2> QED
    BY <2>1, NumbersFrame
<1>2. TurnsOK'
  <2>1. \A x \in Actors : op[x].gen \in 0..MaxAuth + 1
    BY DEF TypesOK, Operation
  <2> QED
    BY <2>1 DEF TurnsOK, Sending, Presenting
<1>3. RevocationsOK'
  BY DEF RevocationsOK, Siwc
<1>4. IssuerOK'
  BY Constants DEF IssuerOK, Drawn, Sending, Presenting, Siwc
<1>5. LatestToken'
  BY DEF LatestToken, At
<1> QED
  BY <1>1, <1>2, <1>3, <1>4, <1>5

\* The session stays, and so does everybody who works for one.
SessionStays ==
    /\ acct'.auth = acct.auth /\ acct'.session = acct.session /\ acct'.gen = acct.gen
    /\ acct'.mode = acct.mode /\ (acct.tok.r = 0 => acct'.tok.r = 0)
    /\ armed' = armed \/ armed' = Open(acct.session)
    /\ \A y \in Actors : op'[y].pc \in Starting \cup Signing => Same(y)
    /\ Same(Alarm)

LEMMA SessionFrame ==
    ASSUME TypesOK, TypesOK', ReplacementOK, FencesOK, StartsOK, AlarmOK, SessionStays
    PROVE  ReplacementOK' /\ FencesOK' /\ StartsOK' /\ AlarmOK'
<1> USE DEF SessionStays, Same
<1>1. ReplacementOK'
  BY DEF ReplacementOK, Fenced, Siwc
<1>2. FencesOK'
  BY DEF FencesOK, Fenced
<1>3. StartsOK'
  BY DEF StartsOK
<1>4. AlarmOK'
  <2>1. Open(acct.session)' = Open(acct.session) /\ (Due <=> Due') /\ (Fenced(Alarm) <=> Fenced(Alarm)')
    BY DEF Open, Due, Fenced, Overdue, DevicePending
  <2> QED
    BY <2>1 DEF AlarmOK, At, Open, TypesOK
<1> QED
  BY <1>1, <1>2, <1>3, <1>4

\* A new authorization generation: whoever works for the session is overtaken.
Supersedes ==
    /\ acct'.auth = acct.auth + 1 /\ armed' = Open(acct'.session)
    /\ acct'.session.id = 0 \/ acct'.session.id = acct.session.id
    /\ acct'.session.id # 0 =>
          \A y \in Actors : op[y].pc \in Starting => op[y].sid # acct.session.id
    /\ \A y \in Actors :
          /\ op'[y].auth <= acct.auth
          /\ op'[y].pc \in Starting \cup Signing => op'[y].sid = op[y].sid
          /\ op'[y].pc \in Starting => op[y].pc \in Starting
          /\ op'[y].pc \in Signing => op[y].pc \in Signing

LEMMA Superseded ==
    ASSUME TypesOK, TypesOK', StartsOK, Supersedes
    PROVE  ReplacementOK' /\ FencesOK' /\ StartsOK' /\ AlarmOK'
<1> USE DEF Supersedes
<1>1. ASSUME NEW x \in Actors
      PROVE  ~Fenced(x)'
  <2>1. acct.auth \in Nat /\ op'[x].auth \in Nat
    BY DEF TypesOK, Account, Operation
  <2> QED
    BY <2>1 DEF Fenced
<1>2. ReplacementOK'
  BY <1>1, Constants DEF ReplacementOK
<1>3. FencesOK'
  BY <1>1 DEF FencesOK
<1>4. StartsOK'
  BY DEF StartsOK
<1>5. AlarmOK'
  BY DEF AlarmOK, TypesOK
<1> QED
  BY <1>2, <1>3, <1>4, <1>5

LEMMA LineHolds ==
    ASSUME queue' = queue
    PROVE  LineStays
  BY DEF LineStays

\* An actor that does nothing is a bystander.
LEMMA Bystanders ==
    ASSUME TypesOK, RevocationsOK, LineStays, NEW y \in Actors, op'[y] = op[y]
    PROVE  Bystander(y)
<1>1. Same(y) /\ (Turn(y) => Turn(y)')
  BY DEF Same, Turn, LineStays, TypesOK, Operation
<1> QED
  BY <1>1 DEF RevocationsOK, Bystander, Same, Siwc

\* One actor takes a step for the session, whose fence stays where it was.
OneWorks(x) ==
    /\ acct'.auth = acct.auth /\ acct'.session.id = acct.session.id
    /\ acct'.session.status \notin Terminal \/ acct'.session.status = acct.session.status
    /\ \A y \in Actors \ {x} : op'[y] = op[y]
    /\ op'[x].pc \in Signing /\ op'[x].auth = acct.auth =>
          acct.session.id = op'[x].sid /\ acct'.session.status \notin Terminal
    /\ \/ op'[x].pc \notin Starting \cup Signing
       \/ /\ op'[x].pc \in Starting => op[x].pc \in Starting
          /\ op[x].pc \in Starting \cup Signing /\ op'[x].sid = op[x].sid
       \/ /\ op'[x].pc \in Signing
          /\ \A y \in Actors : op[y].pc \in Starting => op[y].sid # op'[x].sid
    /\ \A y \in Actors : op'[y].pc \in Starting /\ op'[y].sid = acct.session.id =>
          /\ acct'.session.status \in {acct.session.status, "error"}
          /\ acct'.session.tok = acct.session.tok
          /\ acct'.session.expired = acct.session.expired /\ acct'.session.ready = acct.session.ready

LEMMA OneWorker ==
    ASSUME TypesOK, TypesOK', FencesOK, StartsOK, NEW x \in Actors, OneWorks(x)
    PROVE  FencesOK' /\ StartsOK'
<1> USE DEF OneWorks
<1>1. FencesOK'
  <2> SUFFICES ASSUME NEW y \in Actors, op'[y].pc \in Signing, op'[y].auth = acct.auth
               PROVE  acct'.session.id = op'[y].sid /\ acct'.session.status \notin Terminal
    BY DEF FencesOK, Fenced
  <2>1. CASE y = x
    BY <2>1
  <2>2. CASE y # x
    BY <2>2 DEF FencesOK, Fenced
  <2> QED
    BY <2>1, <2>2
<1>2. StartsOK'
  <2> SUFFICES ASSUME NEW y \in Actors, op'[y].pc \in Starting
               PROVE  /\ op'[y].sid # 0
                      /\ acct'.session.id = op'[y].sid =>
                            /\ acct'.session.status \in {"pending", "error"} /\ acct'.session.tok = NoTok
                            /\ ~acct'.session.expired /\ ~acct'.session.ready
                      /\ \A z \in Actors \ {y} : op'[z].pc \in Starting \cup Signing => op'[z].sid # op'[y].sid
    BY DEF StartsOK
  <2>1. op[y].pc \in Starting /\ op'[y].sid = op[y].sid
    BY DEF Starting, Signing
  <2>2. /\ op'[y].sid # 0
        /\ acct'.session.id = op'[y].sid =>
              /\ acct'.session.status \in {"pending", "error"} /\ acct'.session.tok = NoTok
              /\ ~acct'.session.expired /\ ~acct'.session.ready
    BY <2>1 DEF StartsOK
  <2>3. ASSUME NEW z \in Actors \ {y}, op'[z].pc \in Starting \cup Signing
        PROVE  op'[z].sid # op'[y].sid
    BY <2>1, <2>3 DEF StartsOK
  <2> QED
    BY <2>2, <2>3
<1> QED
  BY <1>1, <1>2

-----------------------------------------------------------------------------
(* Every step preserves the invariant. *)

\* An operation record that was made from Idle is one.
LEMMA MadeOperations ==
    ASSUME NEW pc \in Steps, NEW g \in 0..MaxAuth + 1, NEW a \in Nat, NEW n \in Nat,
           NEW t \in Tok, NEW u \in Tok
    PROVE  /\ [Idle EXCEPT !.pc = pc] \in Operation
           /\ [Idle EXCEPT !.pc = pc, !.gen = g] \in Operation
           /\ [Idle EXCEPT !.pc = pc, !.sid = n] \in Operation
           /\ [Idle EXCEPT !.pc = pc, !.gen = g, !.tok = t] \in Operation
           /\ [Idle EXCEPT !.pc = pc, !.auth = a, !.sid = n, !.tok = t] \in Operation
           /\ [Idle EXCEPT !.pc = pc, !.auth = a, !.sid = n, !.tok = t, !.new = u] \in Operation
<1>1. Idle \in Operation
  BY Constants
<1>2. ASSUME NEW r \in Operation
      PROVE  /\ [r EXCEPT !.pc = pc] \in Operation /\ [r EXCEPT !.gen = g] \in Operation
             /\ [r EXCEPT !.auth = a] \in Operation /\ [r EXCEPT !.sid = n] \in Operation
             /\ [r EXCEPT !.tok = t] \in Operation /\ [r EXCEPT !.new = u] \in Operation
  BY OperationUpdates
<1>3. /\ [Idle EXCEPT !.pc = pc, !.gen = g] = [[Idle EXCEPT !.pc = pc] EXCEPT !.gen = g]
      /\ [Idle EXCEPT !.pc = pc, !.sid = n] = [[Idle EXCEPT !.pc = pc] EXCEPT !.sid = n]
      /\ [Idle EXCEPT !.pc = pc, !.gen = g, !.tok = t] = [[[Idle EXCEPT !.pc = pc] EXCEPT !.gen = g] EXCEPT !.tok = t]
  BY <1>1 DEF Operation
<1>4. [Idle EXCEPT !.pc = pc, !.auth = a, !.sid = n, !.tok = t]
         = [[[[Idle EXCEPT !.pc = pc] EXCEPT !.auth = a] EXCEPT !.sid = n] EXCEPT !.tok = t]
  BY <1>1 DEF Operation
<1>5. [Idle EXCEPT !.pc = pc, !.auth = a, !.sid = n, !.tok = t, !.new = u]
         = [[[[[Idle EXCEPT !.pc = pc] EXCEPT !.auth = a] EXCEPT !.sid = n] EXCEPT !.tok = t] EXCEPT !.new = u]
  BY <1>1 DEF Operation
<1>6. /\ [Idle EXCEPT !.pc = pc] \in Operation
      /\ [Idle EXCEPT !.pc = pc, !.gen = g] \in Operation
      /\ [Idle EXCEPT !.pc = pc, !.sid = n] \in Operation
      /\ [Idle EXCEPT !.pc = pc, !.gen = g, !.tok = t] \in Operation
  BY <1>1, <1>2, <1>3
<1>7. [Idle EXCEPT !.pc = pc, !.auth = a, !.sid = n, !.tok = t] \in Operation
  BY <1>1, <1>2, <1>4
<1>8. [Idle EXCEPT !.pc = pc, !.auth = a, !.sid = n, !.tok = t, !.new = u] \in Operation
  BY <1>1, <1>2, <1>5
<1> QED
  BY <1>6, <1>7, <1>8

LEMMA ResolveKeeps ==
    ASSUME IInv, NEW x \in Actors, Resolve(x)
    PROVE  IInv'
<1> USE DEF IInv
<1>1. /\ acct \in Account /\ op \in [Actors -> Operation] /\ x # Alarm
      /\ op[x].pc = "idle"
  BY AccountAssumption DEF TypesOK, Resolve, At
<1> DEFINE r == [Idle EXCEPT !.pc = "share", !.gen = acct.gen, !.tok = acct.tok]
<1>2. r \in Operation
  <2>1. "share" \in Steps /\ acct.gen \in 0..MaxAuth + 1 /\ acct.tok \in Tok /\ 0 \in Nat
    BY <1>1 DEF Steps, Account
  <2> QED
    BY <2>1, MadeOperations
<1>3. r.pc = "share" /\ r.gen = acct.gen /\ r.auth = 0 /\ r.sid = 0 /\ r.tok = acct.tok
  BY DEF Idle
<1> HIDE DEF r
<1>4. op' \in [Actors -> Operation] /\ op'[x] = r /\ \A y \in Actors \ {x} : op'[y] = op[y]
  BY <1>1, <1>2, Becomes DEF Resolve, r
<1>5. UNCHANGED <<acct, armed, flight, queue, live, issued, lost, shared, blamed>>
  BY DEF Resolve
<1>6. TypesOK'
  BY <1>1, <1>4, <1>5, AccountAssumption DEF TypesOK, Actors
<1>7. AgesOK'
  BY <1>1, <1>3, <1>4, <1>5 DEF AgesOK, Account
<1>8. StatusOK'
  BY <1>5 DEF StatusOK, Siwc
<1>9. NumbersOK' /\ TurnsOK' /\ RevocationsOK' /\ IssuerOK' /\ LatestToken'
  <2>1. Bystander(x)
    BY <1>1, <1>3, <1>4 DEF Bystander, Sending, Presenting
  <2>2. TokensStay
    BY <1>4, <1>5, <2>1, LineHolds, Bystanders DEF TokensStay
  <2> QED
    BY <1>6, <2>2, TokensFrame
<1>10. ReplacementOK' /\ FencesOK' /\ StartsOK' /\ AlarmOK'
  <2>1. SessionStays
    BY <1>1, <1>3, <1>4, <1>5, Constants DEF SessionStays, Same, Starting, Signing
  <2> QED
    BY <1>6, <2>1, SessionFrame
<1> QED
  BY <1>6, <1>7, <1>8, <1>9, <1>10

LEMMA ShareKeeps ==
    ASSUME IInv, NEW x \in Actors, Share(x)
    PROVE  IInv'
<1> USE DEF IInv
<1>1. /\ acct \in Account /\ op \in [Actors -> Operation] /\ x # Alarm /\ op[x].pc = "share"
      /\ op[x].gen \in 0..MaxAuth + 1 /\ queue \in [0..MaxAuth + 1 -> Seq(Actors)]
  BY DEF TypesOK, Share, At, AlarmSteps, Operation
<1>2. UNCHANGED <<acct, armed, live, issued, lost, shared, blamed>>
  BY DEF Share
<1>3. /\ op' \in [Actors -> Operation] /\ \A y \in Actors \ {x} : op'[y] = op[y]
      /\ op'[x].pc \in {"idle", "refresh"} /\ op'[x].gen <= acct.gen /\ op'[x].auth <= acct.auth
      /\ op'[x].sid <= acct.auth /\ op'[x].tok \in {op[x].tok, NoTok}
  <2>1. CASE Done(x)
    <3>1. 0 <= acct.gen /\ 0 <= acct.auth
      BY <1>1 DEF Account
    <3> QED
      BY <1>1, <2>1, <3>1, IsDone, IdleFields
  <2>2. CASE Goto(x, "refresh")
    <3>1. "refresh" \in Steps
      BY DEF Steps
    <3> QED
      BY <1>1, <2>2, <3>1, GoesTo DEF AgesOK
  <2> QED
    BY <2>1, <2>2 DEF Share
<1>4. /\ queue' \in [0..MaxAuth + 1 -> Seq(Actors)] /\ LineStays
      /\ flight' \in [gen : 0..MaxAuth + 1, owner : Actors]
  <2>1. CASE UNCHANGED <<flight, queue>>
    BY <2>1 DEF LineStays, TypesOK
  <2>2. CASE /\ flight' = [gen |-> op[x].gen, owner |-> x]
             /\ queue' = [queue EXCEPT ![op[x].gen] = Append(@, x)]
    <3>1. queue' \in [0..MaxAuth + 1 -> Seq(Actors)] /\ LineStays
      BY <1>1, <2>2, QueueGrows DEF LineStays
    <3> QED
      BY <1>1, <2>2, <3>1
  <2> QED
    BY <2>1, <2>2 DEF Share
<1>5. TypesOK'
  BY <1>1, <1>2, <1>3, <1>4, Constants DEF TypesOK
<1>6. AgesOK' /\ StatusOK'
  BY <1>2, <1>3 DEF AgesOK, StatusOK, Siwc
<1>7. NumbersOK' /\ TurnsOK' /\ RevocationsOK' /\ IssuerOK' /\ LatestToken'
  <2>1. Bystander(x)
    BY <1>1, <1>3 DEF Bystander, Sending, Presenting
  <2>2. TokensStay
    BY <1>2, <1>3, <1>4, <2>1, Bystanders DEF TokensStay
  <2> QED
    BY <1>5, <2>2, TokensFrame
<1>8. ReplacementOK' /\ FencesOK' /\ StartsOK' /\ AlarmOK'
  <2>1. SessionStays
    BY <1>1, <1>2, <1>3, Constants DEF SessionStays, Same, Starting, Signing
  <2> QED
    BY <1>5, <2>1, SessionFrame
<1> QED
  BY <1>5, <1>6, <1>7, <1>8

\* The part of a step that the tokens take no notice of.
LEMMA TokensUntouched ==
    ASSUME IInv, TypesOK', NEW x \in Actors, \A y \in Actors \ {x} : op'[y] = op[y],
           acct'.gen = acct.gen, acct'.status = acct.status, acct'.mode = acct.mode, acct'.tok = acct.tok,
           acct'.session.tok \in {acct.session.tok, NoTok},
           UNCHANGED <<queue, live, issued, lost, shared>>,
           op'[x].pc \notin Sending \cup {"revoke", "granted", "disconnect"}, op[x].pc \notin {"answered", "stranger"},
           op'[x].tok \in {op[x].tok, acct.tok, NoTok}
    PROVE  NumbersOK' /\ TurnsOK' /\ RevocationsOK' /\ IssuerOK' /\ LatestToken'
<1>1. Bystander(x)
  BY DEF Bystander
<1>2. TokensStay
  BY <1>1, LineHolds, Bystanders DEF TokensStay, IInv
<1> QED
  BY <1>2, TokensFrame DEF IInv

LEMMA InsertedKeeps ==
    ASSUME IInv, NEW x \in Actors, Inserted(x)
    PROVE  IInv'
<1> USE DEF IInv
<1>1. /\ acct \in Account /\ op \in [Actors -> Operation] /\ x # Alarm /\ op[x].pc = "insert"
      /\ acct.auth \in Nat /\ 0 <= acct.gen
  BY DEF TypesOK, Inserted, At, AlarmSteps, Account
<1>2. UNCHANGED <<acct, armed, flight, queue, live, issued, lost, shared, blamed>>
  BY DEF Inserted
<1>3. /\ op' \in [Actors -> Operation] /\ \A y \in Actors \ {x} : op'[y] = op[y]
      /\ op'[x].pc \in {"idle", "prepare"} /\ op'[x].gen <= acct.gen /\ op'[x].auth <= acct.auth
      /\ op'[x].sid <= acct.auth /\ op'[x].tok \in {op[x].tok, NoTok}
      /\ op'[x].pc = "prepare" => op'[x].sid = op[x].sid
  <2>1. CASE Done(x)
    BY <1>1, <2>1, IsDone, IdleFields
  <2>2. CASE op' = [op EXCEPT ![x].pc = "prepare", ![x].auth = acct.auth]
    <3> DEFINE r == [op[x] EXCEPT !.pc = "prepare", !.auth = acct.auth]
    <3>1. op[x] \in Operation
      BY <1>1
    <3>2. r \in Operation
      <4>1. ASSUME NEW s \in Operation
            PROVE  [s EXCEPT !.pc = "prepare"] \in Operation /\ [s EXCEPT !.auth = acct.auth] \in Operation
        <5>1. "prepare" \in Steps
          BY DEF Steps, Starting
        <5> QED
          BY <1>1, <5>1, OperationUpdates
      <4>2. r = [[op[x] EXCEPT !.pc = "prepare"] EXCEPT !.auth = acct.auth]
        BY <3>1 DEF Operation
      <4> QED
        BY <3>1, <4>1, <4>2
    <3>3. r.pc = "prepare" /\ r.auth = acct.auth /\ r.gen = op[x].gen /\ r.sid = op[x].sid /\ r.tok = op[x].tok
      BY <3>1 DEF Operation
    <3>4. op' = [op EXCEPT ![x] = r]
      BY <1>1, <2>2
    <3> HIDE DEF r
    <3>5. op' \in [Actors -> Operation] /\ op'[x] = r /\ \A y \in Actors \ {x} : op'[y] = op[y]
      BY <1>1, <3>2, <3>4, Becomes
    <3> QED
      BY <1>1, <3>3, <3>5 DEF AgesOK
  <2> QED
    BY <2>1, <2>2 DEF Inserted
<1>4. TypesOK'
  BY <1>1, <1>2, <1>3, Constants DEF TypesOK
<1>5. AgesOK' /\ StatusOK'
  BY <1>2, <1>3 DEF AgesOK, StatusOK, Siwc
<1>6. NumbersOK' /\ TurnsOK' /\ RevocationsOK' /\ IssuerOK' /\ LatestToken'
  BY <1>1, <1>2, <1>3, <1>4, TokensUntouched DEF Sending, Presenting
<1>7. FencesOK' /\ StartsOK'
  <2>1. OneWorks(x)
    BY <1>1, <1>2, <1>3 DEF OneWorks, Starting, Signing
  <2> QED
    BY <1>4, <2>1, OneWorker
<1>8. ReplacementOK' /\ AlarmOK'
  BY <1>1, <1>2, <1>3, Constants
     DEF ReplacementOK, AlarmOK, Open, Due, At, Fenced, Overdue, DevicePending, Siwc
<1> QED
  BY <1>4, <1>5, <1>6, <1>7, <1>8

LEMMA CompleteKeeps ==
    ASSUME IInv, NEW x \in Actors, Complete(x)
    PROVE  IInv'
<1> USE DEF IInv
<1>1. /\ acct \in Account /\ op \in [Actors -> Operation] /\ x # Alarm /\ op[x].pc = "idle"
      /\ acct.auth \in Nat /\ 0 <= acct.gen /\ acct.tok \in Tok /\ acct.session.id \in Nat
      /\ acct.session.status = "pending"
  BY AccountAssumption DEF TypesOK, Complete, At, Account, Session
<1>2. UNCHANGED <<acct, armed, flight, queue, live, issued, lost, shared, blamed>>
  BY DEF Complete
<1> DEFINE r == [Idle EXCEPT !.pc = "claim", !.auth = acct.auth, !.sid = acct.session.id, !.tok = acct.tok]
<1>3. r \in Operation
  <2>1. "claim" \in Steps /\ 0 \in 0..MaxAuth + 1
    BY AccountAssumption DEF Steps, Signing
  <2> QED
    BY <1>1, <2>1, MadeOperations
<1>4. r.pc = "claim" /\ r.gen = 0 /\ r.auth = acct.auth /\ r.sid = acct.session.id /\ r.tok = acct.tok
  BY DEF Idle
<1>5. op' = [op EXCEPT ![x] = r]
  BY DEF Complete
<1> HIDE DEF r
<1>6. op' \in [Actors -> Operation] /\ op'[x] = r /\ \A y \in Actors \ {x} : op'[y] = op[y]
  BY <1>1, <1>3, <1>5, Becomes
<1>7. TypesOK'
  BY <1>1, <1>2, <1>6, Constants DEF TypesOK
<1>8. AgesOK' /\ StatusOK'
  BY <1>1, <1>2, <1>4, <1>6 DEF AgesOK, StatusOK, Siwc
<1>9. NumbersOK' /\ TurnsOK' /\ RevocationsOK' /\ IssuerOK' /\ LatestToken'
  BY <1>1, <1>2, <1>4, <1>6, <1>7, TokensUntouched DEF Sending, Presenting
<1>10. FencesOK' /\ StartsOK'
  <2>1. \A y \in Actors : op[y].pc \in Starting => op[y].sid # acct.session.id
    BY DEF Complete, Known, Starting, TypesOK, AlarmSteps, Actors
  <2>2. OneWorks(x)
    BY <1>1, <1>2, <1>4, <1>6, <2>1 DEF OneWorks, Starting, Signing, Terminal
  <2> QED
    BY <1>7, <2>2, OneWorker
<1>11. ReplacementOK' /\ AlarmOK'
  BY <1>1, <1>2, <1>6, Constants
     DEF ReplacementOK, AlarmOK, Open, Due, At, Fenced, Overdue, DevicePending, Siwc
<1> QED
  BY <1>7, <1>8, <1>9, <1>10, <1>11

LEMMA CallFailsKeeps ==
    ASSUME IInv, NEW x \in Actors, CallFails(x)
    PROVE  IInv'
<1> USE DEF IInv
<1>1. /\ acct \in Account /\ op \in [Actors -> Operation]
      /\ op[x].pc \in {"prepare", "poll", "exchange", "granted", "initialize"}
      /\ x = Alarm => op[x].pc # "prepare"
  BY DEF TypesOK, CallFails, AlarmSteps
<1>2. UNCHANGED <<acct, armed, flight, queue, live, issued, lost, shared, blamed>>
  BY DEF CallFails
<1>3. /\ op' \in [Actors -> Operation] /\ \A y \in Actors \ {x} : op'[y] = op[y]
      /\ op'[x].pc = (IF op[x].pc = "prepare" THEN "abort" ELSE "fail")
      /\ op'[x].gen = op[x].gen /\ op'[x].auth = op[x].auth /\ op'[x].sid = op[x].sid
      /\ op'[x].tok = op[x].tok
  <2>1. "abort" \in Steps /\ "fail" \in Steps
    BY DEF Steps, Starting, Signing
  <2> QED
    BY <1>1, <2>1, GoesTo DEF CallFails, At
<1>4. TypesOK'
  <2>1. op'[Alarm].pc \in AlarmSteps
    BY <1>1, <1>3, Constants DEF TypesOK, AlarmSteps
  <2> QED
    BY <1>2, <1>3, <2>1 DEF TypesOK
<1>5. AgesOK' /\ StatusOK'
  BY <1>2, <1>3 DEF AgesOK, StatusOK, Siwc
<1>6. NumbersOK' /\ TurnsOK' /\ RevocationsOK' /\ IssuerOK' /\ LatestToken'
  BY <1>1, <1>2, <1>3, <1>4, TokensUntouched DEF Sending, Presenting
<1>7. FencesOK' /\ StartsOK'
  <2>1. OneWorks(x)
    BY <1>1, <1>2, <1>3 DEF OneWorks, Starting, Signing, FencesOK, Fenced
  <2> QED
    BY <1>4, <2>1, OneWorker
<1>8. ReplacementOK' /\ AlarmOK'
  BY <1>1, <1>2, <1>3, Constants
     DEF ReplacementOK, AlarmOK, Open, Due, At, Fenced, Overdue, DevicePending, Siwc
<1> QED
  BY <1>4, <1>5, <1>6, <1>7, <1>8

LEMMA FireKeeps ==
    ASSUME IInv, Fire
    PROVE  IInv'
<1> USE DEF IInv
<1>1. /\ acct \in Account /\ op \in [Actors -> Operation] /\ Alarm \in Actors
      /\ op[Alarm].pc = "idle" /\ 0 <= acct.gen /\ 0 <= acct.auth
  BY Constants DEF TypesOK, Fire, At, Account
<1>2. UNCHANGED <<acct, flight, queue, live, issued, lost, shared, blamed>> /\ armed' = FALSE
  BY DEF Fire
<1> DEFINE r == [Idle EXCEPT !.pc = "alarm"]
<1>3. r \in Operation
  <2>1. "alarm" \in Steps
    BY DEF Steps
  <2> QED
    BY <2>1, Constants, OperationUpdates
<1>4. r.pc = "alarm" /\ r.gen = 0 /\ r.auth = 0 /\ r.sid = 0 /\ r.tok = NoTok
  BY DEF Idle
<1>5. op' = [op EXCEPT ![Alarm] = r]
  BY DEF Fire
<1> HIDE DEF r
<1>6. op' \in [Actors -> Operation] /\ op'[Alarm] = r /\ \A y \in Actors \ {Alarm} : op'[y] = op[y]
  BY <1>1, <1>3, <1>5, Becomes
<1>7. TypesOK'
  BY <1>2, <1>4, <1>6 DEF TypesOK, AlarmSteps
<1>8. AgesOK' /\ StatusOK'
  BY <1>1, <1>2, <1>4, <1>6 DEF AgesOK, StatusOK, Siwc
<1>9. NumbersOK' /\ TurnsOK' /\ RevocationsOK' /\ IssuerOK' /\ LatestToken'
  BY <1>1, <1>2, <1>4, <1>6, <1>7, TokensUntouched DEF Sending, Presenting
<1>10. FencesOK' /\ StartsOK'
  <2>1. OneWorks(Alarm)
    BY <1>1, <1>2, <1>4, <1>6 DEF OneWorks, Starting, Signing
  <2> QED
    BY <1>1, <1>7, <2>1, OneWorker
<1>11. ReplacementOK'
  BY <1>4, <1>6 DEF ReplacementOK
<1>12. AlarmOK'
  <2>1. Due'
    BY <1>2 DEF Fire, Due, Overdue, DevicePending, Open
  <2> QED
    BY <1>4, <1>6, <2>1 DEF AlarmOK, At
<1> QED
  BY <1>7, <1>8, <1>9, <1>10, <1>11, <1>12

LEMMA AlarmRunsKeeps ==
    ASSUME IInv, AlarmRuns
    PROVE  IInv'
<1> USE DEF IInv
<1>1. /\ acct \in Account /\ op \in [Actors -> Operation] /\ Alarm \in Actors
      /\ op[Alarm].pc = "alarm" /\ 0 <= acct.gen /\ acct.auth \in Nat
      /\ acct.tok \in Tok /\ acct.session.id \in Nat /\ acct.session.tok \in Tok
  BY AccountAssumption, Constants DEF TypesOK, AlarmRuns, At, Account, Session
<1>2. UNCHANGED <<acct, armed, flight, queue, live, issued, lost, shared, blamed>>
  BY DEF AlarmRuns
<1> DEFINE read(pc) == [Idle EXCEPT !.pc = pc, !.auth = acct.auth, !.sid = acct.session.id,
                                    !.tok = acct.tok, !.new = acct.session.tok]
<1>3. /\ read("poll") \in Operation /\ read("initialize") \in Operation
  <2>1. "poll" \in Steps /\ "initialize" \in Steps /\ 0 \in 0..MaxAuth + 1
    BY AccountAssumption DEF Steps, Signing
  <2>2. read("poll") \in Operation
    BY <1>1, <2>1, MadeOperations
  <2>3. read("initialize") \in Operation
    BY <1>1, <2>1, MadeOperations
  <2> QED
    BY <2>2, <2>3
<1>4. ASSUME NEW pc
      PROVE  /\ read(pc).pc = pc /\ read(pc).gen = 0 /\ read(pc).auth = acct.auth
             /\ read(pc).sid = acct.session.id /\ read(pc).tok = acct.tok
             /\ read(pc).new = acct.session.tok
  BY DEF Idle
<1> DEFINE polls == DevicePending(acct.session) /\ acct.session.ready
<1> DEFINE r == CASE polls -> read("poll")
                  [] acct.session.status = "initializing" -> read("initialize")
                  [] OTHER -> Idle
<1>r. op' = [op EXCEPT ![Alarm] = r]
  BY DEF AlarmRuns
<1> HIDE DEF read
<1>5. \/ polls /\ r = read("poll")
      \/ acct.session.status = "initializing" /\ r = read("initialize")
      \/ ~polls /\ acct.session.status # "initializing" /\ r = Idle
  <2>1. polls => acct.session.status # "initializing"
    BY DEF DevicePending
  <2> HIDE DEF polls
  <2> QED
    BY <2>1
<1> HIDE DEF r
<1>6. /\ r \in Operation /\ r.pc \in {"idle", "poll", "initialize"}
      /\ r.gen = 0 /\ r.auth \in {0, acct.auth} /\ r.sid \in {0, acct.session.id}
      /\ r.tok \in {NoTok, acct.tok}
  BY <1>3, <1>4, <1>5, Constants, IdleFields
<1>7. r.pc # "idle" =>
        /\ r.auth = acct.auth /\ r.sid = acct.session.id /\ r.tok = acct.tok
        /\ acct.session.status \in {"pending", "initializing"}
        /\ acct.session.ready \/ acct.session.status = "initializing"
        /\ r.pc = "initialize" => r.new = acct.session.tok /\ acct.session.status = "initializing"
  BY <1>4, <1>5, IdleFields DEF DevicePending
<1>8. op' \in [Actors -> Operation] /\ op'[Alarm] = r /\ \A y \in Actors \ {Alarm} : op'[y] = op[y]
  BY <1>1, <1>r, <1>6, Becomes
<1>9. TypesOK'
  BY <1>2, <1>6, <1>8 DEF TypesOK, AlarmSteps
<1>10. AgesOK' /\ StatusOK'
  BY <1>1, <1>2, <1>6, <1>8 DEF AgesOK, StatusOK, Siwc
<1>11. NumbersOK' /\ TurnsOK' /\ RevocationsOK' /\ IssuerOK' /\ LatestToken'
  BY <1>1, <1>2, <1>6, <1>8, <1>9, TokensUntouched DEF Sending, Presenting
<1>12. FencesOK' /\ StartsOK'
  <2>1. r.pc # "idle" => \A y \in Actors : op[y].pc \in Starting => op[y].sid # r.sid
    BY <1>7 DEF StartsOK
  <2>2. OneWorks(Alarm)
    BY <1>1, <1>2, <1>6, <1>7, <1>8, <2>1 DEF OneWorks, Starting, Signing, Terminal
  <2> QED
    BY <1>1, <1>9, <2>2, OneWorker
<1>13. ReplacementOK'
  BY <1>2, <1>6, <1>7, <1>8 DEF ReplacementOK, Fenced, Siwc
<1>14. AlarmOK'
  <2>1. r.pc = "idle" => ~Due
    <3>1. r.pc = "idle" => ~(DevicePending(acct.session) /\ acct.session.ready) /\ acct.session.status # "initializing"
      BY <1>4, <1>5
    <3> QED
      BY <3>1 DEF Due, AlarmRuns
  <2> QED
    BY <1>1, <1>2, <1>6, <1>7, <1>8, <2>1 DEF AlarmOK, At, Fenced, Open
<1> QED
  BY <1>9, <1>10, <1>11, <1>12, <1>13, <1>14

LEMMA TimePassesKeeps ==
    ASSUME IInv, TimePasses
    PROVE  IInv'
<1> USE DEF IInv
<1>1. /\ acct' \in Account /\ acct'.gen = acct.gen /\ acct'.auth = acct.auth /\ acct'.tok = acct.tok
      /\ acct'.status = acct.status /\ acct'.mode = acct.mode
      /\ acct'.session.id = acct.session.id /\ acct'.session.status = acct.session.status
      /\ acct'.session.tok = acct.session.tok /\ acct'.session.expired
      /\ acct'.session.ready = acct.session.ready /\ acct'.session.flow = acct.session.flow
  BY SessionIs DEF TimePasses, TypesOK
<1>2. UNCHANGED <<armed, op, flight, queue, live, issued, lost, shared, blamed>> /\ Alarm \in Actors
  BY Constants DEF TimePasses
<1>3. TypesOK'
  BY <1>1, <1>2 DEF TypesOK
<1>4. AgesOK' /\ StatusOK'
  BY <1>1, <1>2 DEF AgesOK, StatusOK, Siwc
<1>5. NumbersOK' /\ TurnsOK' /\ RevocationsOK' /\ IssuerOK' /\ LatestToken'
  <2>1. TokensStay
    BY <1>1, <1>2, LineHolds, Bystanders DEF TokensStay
  <2> QED
    BY <1>3, <2>1, TokensFrame
<1>6. ReplacementOK'
  BY <1>1, <1>2 DEF ReplacementOK, Fenced, Siwc
<1>7. FencesOK'
  BY <1>1, <1>2 DEF FencesOK, Fenced
<1>8. StartsOK'
  <2>1. \A y \in Actors : op[y].pc \in Starting => op[y].sid # acct.session.id
    BY DEF TimePasses, Known, Starting, TypesOK, AlarmSteps, Actors
  <2> QED
    BY <1>1, <1>2, <2>1 DEF StartsOK
<1>9. AlarmOK'
  <2>1. Open(acct.session)' = Open(acct.session) /\ (Due => Due')
    BY <1>1 DEF Open, Due, Overdue, DevicePending
  <2> QED
    BY <1>1, <1>2, <2>1 DEF AlarmOK, At, Fenced
<1> QED
  BY <1>3, <1>4, <1>5, <1>6, <1>7, <1>8, <1>9

\* Cancelling, retrying and expiring: the session goes on under a new fence.
LEMMA OverKeeps ==
    ASSUME IInv, NEW status \in {"cancelled", "expired", "initializing"},
           Over(acct', status), armed' = Open(acct'.session),
           UNCHANGED <<op, flight, queue, live, issued, lost, shared>>, acct.session.id # 0,
           acct'.session.tok = IF status = "initializing" THEN acct.session.tok ELSE NoTok,
           status = "initializing" => acct.session.tok # NoTok,
           \A y \in Actors : op[y].pc \in Starting => op[y].sid # acct.session.id
    PROVE  IInv'
<1> USE DEF IInv, Over
<1>1. TypesOK'
  BY DEF TypesOK, Open
<1>2. AgesOK'
  <2>1. /\ acct.auth \in Nat /\ acct.session.id \in Int
        /\ \A x \in Actors : op[x].auth \in Nat /\ op[x].sid \in Nat
    BY DEF TypesOK, Account, Operation, Session
  <2> QED
    BY <2>1 DEF AgesOK
<1>3. StatusOK'
  BY Constants DEF StatusOK, Siwc
<1>4. NumbersOK' /\ TurnsOK' /\ RevocationsOK' /\ IssuerOK' /\ LatestToken'
  <2>1. TokensStay
    BY LineHolds, Bystanders DEF TokensStay
  <2> QED
    BY <1>1, <2>1, TokensFrame
<1>5. ReplacementOK' /\ FencesOK' /\ StartsOK' /\ AlarmOK'
  <2>1. Supersedes
    BY DEF Supersedes, AgesOK
  <2> QED
    BY <1>1, <2>1, Superseded
<1> QED
  BY <1>1, <1>2, <1>3, <1>4, <1>5

LEMMA NobodyStarts ==
    ASSUME TypesOK, Known, NEW y \in Actors, op[y].pc \in Starting
    PROVE  op[y].sid # acct.session.id
  BY DEF Known, Starting, TypesOK, AlarmSteps, Actors

LEMMA CancelKeeps ==
    ASSUME IInv, NEW x \in Actors, Cancel(x)
    PROVE  IInv'
<1>1. Over(Cancelled, "cancelled") /\ Cancelled.session.tok = NoTok
  BY OverIs DEF IInv, TypesOK
<1>2. \A y \in Actors : op[y].pc \in Starting => op[y].sid # acct.session.id
  BY NobodyStarts DEF Cancel, IInv
<1>3. acct' = Cancelled /\ armed' = Open(acct'.session) /\ acct.session.id # 0
      /\ UNCHANGED <<op, flight, queue, live, issued, lost, shared>>
  BY DEF Cancel, Commit, AlarmOf
<1>4. Over(acct', "cancelled") /\ acct'.session.tok = NoTok
  BY <1>1, <1>3
<1> QED
  BY <1>2, <1>3, <1>4, OverKeeps

LEMMA ExpireKeeps ==
    ASSUME IInv, Expire
    PROVE  IInv'
<1>1. Over(Expired, "expired") /\ Expired.session.tok = NoTok
  BY OverIs DEF IInv, TypesOK
<1>2. \A y \in Actors : op[y].pc \in Starting => op[y].sid # acct.session.id
  BY DEF Expire, Overdue, IInv, StartsOK
<1>3. acct' = Expired /\ armed' = Open(acct'.session) /\ acct.session.id # 0
      /\ UNCHANGED <<op, flight, queue, live, issued, lost, shared>>
  BY DEF Expire, Commit, AlarmOf, Overdue, Open
<1>4. Over(acct', "expired") /\ acct'.session.tok = NoTok
  BY <1>1, <1>3
<1> QED
  BY <1>2, <1>3, <1>4, OverKeeps

LEMMA RetryKeeps ==
    ASSUME IInv, NEW x \in Actors, Retry(x)
    PROVE  IInv'
<1> DEFINE a == [acct EXCEPT !.auth = @ + 1, !.session.status = "initializing"]
<1>1. Over(a, "initializing") /\ a.session.tok = acct.session.tok
  BY OverIs DEF IInv, TypesOK
<1>2. \A y \in Actors : op[y].pc \in Starting => op[y].sid # acct.session.id
  BY DEF Retry, Retryable, IInv, StartsOK
<1>3. acct' = a /\ armed' = Open(acct'.session) /\ acct.session.tok # NoTok
      /\ UNCHANGED <<op, flight, queue, live, issued, lost, shared>>
  BY DEF Retry, Commit, AlarmOf, Retryable
<1>4. acct.session.id # 0
  BY DEF Retry, Retryable, IInv, StatusOK
<1>5. Over(acct', "initializing") /\ acct'.session.tok = acct.session.tok
  BY <1>1, <1>3
<1> QED
  BY <1>2, <1>3, <1>4, <1>5, OverKeeps

LEMMA StartKeeps ==
    ASSUME IInv, NEW x \in Actors, NEW flow \in ModeFlows, Start(x, flow)
    PROVE  IInv'
<1> USE DEF IInv
<1>1. /\ acct \in Account /\ op \in [Actors -> Operation] /\ x # Alarm /\ op[x].pc = "idle"
      /\ acct.auth \in Nat /\ acct.auth + 1 \in Nat /\ 0 <= acct.gen /\ acct.auth < MaxAuth
      /\ acct.session.id \in Int
      /\ \A y \in Actors : op[y].auth \in Nat /\ op[y].sid \in Nat
  <2>1. acct \in Account /\ op \in [Actors -> Operation] /\ x # Alarm /\ op[x].pc = "idle"
        /\ acct.auth < MaxAuth
    BY AccountAssumption DEF TypesOK, Start, At
  <2>2. acct.auth \in Nat /\ acct.auth + 1 \in Nat /\ 0 <= acct.gen /\ acct.session \in Session
    BY <2>1, AccountAssumption DEF Account
  <2>3. acct.session.id \in Int
    BY <2>2, AccountAssumption DEF Session
  <2>4. \A y \in Actors : op[y].auth \in Nat /\ op[y].sid \in Nat
    BY <2>1 DEF Operation
  <2> QED
    BY <2>1, <2>2, <2>3, <2>4
<1>2. UNCHANGED <<flight, queue, live, issued, lost, shared, blamed>>
      /\ acct' = Begun(flow) /\ armed' = Open(acct'.session)
  BY DEF Start, Commit, AlarmOf
<1>3. /\ acct' \in Account /\ acct'.gen = acct.gen /\ acct'.auth = acct.auth + 1
      /\ acct'.tok = acct.tok /\ acct'.status = acct.status /\ acct'.mode = acct.mode
      /\ acct'.session.id = acct.auth + 1 /\ acct'.session.status = "pending"
      /\ acct'.session.tok = NoTok /\ ~acct'.session.ready /\ ~acct'.session.expired
  BY <1>1, <1>2, BegunIs
<1> DEFINE r == [Idle EXCEPT !.pc = "insert", !.sid = acct.auth + 1]
<1>4. r \in Operation
  <2>1. "insert" \in Steps /\ 0 \in 0..MaxAuth + 1 /\ 0 \in Nat
    BY AccountAssumption DEF Steps, Starting
  <2> QED
    BY <1>1, <2>1, Constants, MadeOperations
<1>5. r.pc = "insert" /\ r.gen = 0 /\ r.auth = 0 /\ r.sid = acct.auth + 1 /\ r.tok = NoTok
  BY DEF Idle
<1>6. op' = [op EXCEPT ![x] = r]
  BY DEF Start
<1> HIDE DEF r
<1>7. op' \in [Actors -> Operation] /\ op'[x] = r /\ \A y \in Actors \ {x} : op'[y] = op[y]
  BY <1>1, <1>4, <1>6, Becomes
<1>8. TypesOK'
  BY <1>1, <1>2, <1>3, <1>7, Constants DEF TypesOK, Open
<1>9. AgesOK'
  BY <1>1, <1>3, <1>5, <1>7 DEF AgesOK
<1>10. StatusOK'
  BY <1>1, <1>3, Constants DEF StatusOK, Siwc
<1>11. NumbersOK' /\ TurnsOK' /\ RevocationsOK' /\ IssuerOK' /\ LatestToken'
  BY <1>1, <1>2, <1>3, <1>5, <1>7, <1>8, TokensUntouched DEF Sending, Presenting
<1>12. \A y \in Actors : op[y].sid < acct.auth + 1 /\ op[y].auth # acct.auth + 1
  BY <1>1 DEF AgesOK
<1>13. \A y \in Actors : op'[y].pc \in Signing => ~Fenced(y)'
  BY <1>1, <1>3, <1>5, <1>7, <1>12 DEF Fenced, Signing
<1>14. ReplacementOK' /\ FencesOK'
  BY <1>13, Constants DEF ReplacementOK, FencesOK, Signing
<1>15. StartsOK'
  <2> SUFFICES ASSUME NEW y \in Actors, op'[y].pc \in Starting
               PROVE  /\ op'[y].sid # 0
                      /\ acct'.session.id = op'[y].sid =>
                            /\ acct'.session.status \in {"pending", "error"} /\ acct'.session.tok = NoTok
                            /\ ~acct'.session.expired /\ ~acct'.session.ready
                      /\ \A z \in Actors \ {y} : op'[z].pc \in Starting \cup Signing => op'[z].sid # op'[y].sid
    BY DEF StartsOK
  <2>1. op'[y].sid # 0
    BY <1>1, <1>5, <1>7 DEF StartsOK
  <2>2. \A z \in Actors \ {y} : op'[z].pc \in Starting \cup Signing => op'[z].sid # op'[y].sid
    BY <1>1, <1>5, <1>7, <1>12 DEF StartsOK
  <2> QED
    BY <1>3, <2>1, <2>2
<1>16. AlarmOK'
  BY <1>2 DEF AlarmOK
<1> QED
  BY <1>8, <1>9, <1>10, <1>11, <1>14, <1>15, <1>16

\* A step for the session that leaves the account's own tokens alone.
LEMMA SessionStep ==
    ASSUME IInv, NEW x \in Actors, OneWorks(x), op' \in [Actors -> Operation],
           acct' \in Account, acct'.gen = acct.gen, acct'.tok = acct.tok,
           acct'.status = acct.status, acct'.mode = acct.mode,
           acct'.session.tok = acct.session.tok,
           acct'.session.status \in {acct.session.status, "exchanging", "error"},
           acct'.session.status = "exchanging" => acct.session.status \in {"pending", "exchanging"},
           acct.session.id = 0 => acct'.session.status = "none",
           UNCHANGED <<flight, queue, live, issued, lost, shared>>,
           \/ armed' = Open(acct'.session)
           \/ armed' = armed /\ acct' = acct /\ x # Alarm
           \/ armed' = armed /\ acct' = acct /\ ~Fenced(Alarm) /\ op[Alarm].pc \notin {"idle", "alarm"}
           \/ /\ armed' = armed /\ acct' = acct /\ op'[Alarm].auth = op[Alarm].auth
              /\ {op[Alarm].pc, op'[Alarm].pc} \cap {"idle", "alarm"} = {},
           op'[x].gen \in {op[x].gen, 0}, op'[x].auth \in {op[x].auth, 0}, op'[x].sid \in {op[x].sid, 0},
           op'[x].tok \in {op[x].tok, NoTok},
           op'[x].pc \in {"idle", "abort", "fail", "exchange"},
           x = Alarm => op'[x].pc # "abort",
           op[x].pc \notin {"answered", "stranger"}
    PROVE  IInv'
<1> USE DEF IInv
<1>1. \A y \in Actors \ {x} : op'[y] = op[y]
  BY DEF OneWorks
<1>2. TypesOK'
  <2>1. op'[Alarm].pc \in AlarmSteps
    BY <1>1, Constants DEF TypesOK, AlarmSteps
  <2>2. armed' \in BOOLEAN
    BY DEF TypesOK, Open
  <2> QED
    BY <2>1, <2>2 DEF TypesOK
<1>3. AgesOK'
  <2>1. 0 <= acct.gen /\ 0 <= acct.auth
    BY DEF TypesOK, Account
  <2> QED
    BY <1>1, <2>1 DEF AgesOK, OneWorks
<1>4. StatusOK'
  BY DEF StatusOK, Siwc, OneWorks
<1>5. NumbersOK' /\ TurnsOK' /\ RevocationsOK' /\ IssuerOK' /\ LatestToken'
  BY <1>1, <1>2, TokensUntouched DEF Sending, Presenting
<1>6. FencesOK' /\ StartsOK'
  BY <1>2, OneWorker
<1>7. ReplacementOK'
  BY <1>1, Constants DEF ReplacementOK, Fenced, Siwc, OneWorks
<1>8. AlarmOK'
  <2>1. CASE armed' = Open(acct'.session)
    BY <2>1 DEF AlarmOK
  <2>2. CASE armed' = armed /\ acct' = acct /\ x # Alarm
    BY <1>1, <2>2, Constants DEF AlarmOK, At, Fenced, Due, Overdue, DevicePending, Open
  <2>3. CASE armed' = armed /\ acct' = acct /\ ~Fenced(Alarm) /\ op[Alarm].pc \notin {"idle", "alarm"}
    BY <2>3 DEF AlarmOK, Open
  <2>4. CASE /\ armed' = armed /\ acct' = acct /\ op'[Alarm].auth = op[Alarm].auth
             /\ {op[Alarm].pc, op'[Alarm].pc} \cap {"idle", "alarm"} = {}
    BY <2>4 DEF AlarmOK, At, Fenced, Open
  <2> QED
    BY <2>1, <2>2, <2>3, <2>4
<1> QED
  BY <1>2, <1>3, <1>4, <1>5, <1>6, <1>7, <1>8

LEMMA PrepareKeeps ==
    ASSUME IInv, NEW x \in Actors, Prepare(x)
    PROVE  IInv'
<1>1. /\ acct \in Account /\ op \in [Actors -> Operation] /\ x # Alarm /\ op[x].pc = "prepare"
      /\ UNCHANGED <<flight, queue, live, issued, lost, shared>>
  BY DEF IInv, TypesOK, Prepare, At, AlarmSteps
<1>2. CASE Fenced(x) /\ acct.session.id = op[x].sid
  <2>1. acct' = [acct EXCEPT !.session.ready = TRUE] /\ armed' = Open(acct'.session) /\ Done(x)
    BY <1>2 DEF Prepare, Commit, AlarmOf
  <2>2. /\ acct' \in Account /\ acct'.gen = acct.gen /\ acct'.auth = acct.auth /\ acct'.tok = acct.tok
        /\ acct'.status = acct.status /\ acct'.mode = acct.mode
        /\ acct'.session.id = acct.session.id /\ acct'.session.status = acct.session.status
        /\ acct'.session.tok = acct.session.tok
    BY <1>1, <2>1, SessionIs
  <2>3. op' \in [Actors -> Operation] /\ op'[x] = Idle /\ \A y \in Actors \ {x} : op'[y] = op[y]
    BY <1>1, <2>1, IsDone
  <2>4. \A y \in Actors \ {x} : op[y].pc \in Starting => op[y].sid # acct.session.id
    BY <1>1, <1>2 DEF IInv, StartsOK, Starting
  <2>5. OneWorks(x)
    BY <1>1, <2>2, <2>3, <2>4, IdleFields DEF OneWorks, Starting, Signing
  <2> QED
    BY <1>1, <2>1, <2>2, <2>3, <2>5, IdleFields, SessionStep DEF IInv, StatusOK
<1>3. CASE ~(Fenced(x) /\ acct.session.id = op[x].sid)
  <2>1. Goto(x, "abort") /\ UNCHANGED <<acct, armed>> /\ "abort" \in Steps
    BY <1>3 DEF Prepare, Steps, Starting
  <2>2. /\ op' \in [Actors -> Operation] /\ \A y \in Actors \ {x} : op'[y] = op[y]
        /\ op'[x].pc = "abort" /\ op'[x].gen = op[x].gen /\ op'[x].auth = op[x].auth
        /\ op'[x].sid = op[x].sid /\ op'[x].tok = op[x].tok
    BY <1>1, <2>1, GoesTo
  <2>3. OneWorks(x)
    BY <1>1, <2>1, <2>2 DEF OneWorks, Starting, Signing
  <2> QED
    BY <1>1, <2>1, <2>2, <2>3, SessionStep DEF IInv, StatusOK
<1> QED
  BY <1>2, <1>3

\* An operation that finds nothing to do, or is told that it failed.
LEMMA GivesUp ==
    ASSUME IInv, NEW x \in Actors, UNCHANGED <<acct, flight, queue, live, issued, lost, shared>>,
           op[x].pc \notin {"answered", "stranger"},
           \/ Done(x)
           \/ Goto(x, "fail") /\ op[x].pc \in Signing,
           \/ armed' = Open(acct.session)
           \/ armed' = armed /\ x # Alarm
           \/ armed' = armed /\ ~Fenced(Alarm) /\ op[Alarm].pc \notin {"idle", "alarm"}
           \/ armed' = armed /\ x = Alarm /\ Goto(x, "fail") /\ op[x].pc \in Signing
    PROVE  IInv'
<1>1. /\ acct \in Account /\ op \in [Actors -> Operation]
  BY DEF IInv, TypesOK
<1>2. /\ op' \in [Actors -> Operation] /\ \A y \in Actors \ {x} : op'[y] = op[y]
      /\ op'[x].gen \in {op[x].gen, 0} /\ op'[x].auth \in {op[x].auth, 0} /\ op'[x].sid \in {op[x].sid, 0}
      /\ op'[x].tok \in {op[x].tok, NoTok}
      /\ \/ op'[x].pc = "idle"
         \/ op'[x].pc = "fail" /\ op[x].pc \in Signing /\ op'[x].sid = op[x].sid /\ op'[x].auth = op[x].auth
      /\ Goto(x, "fail") => op'[x].pc = "fail" /\ op'[x].auth = op[x].auth
  <2>g. "fail" \in Steps
    BY DEF Steps, Signing
  <2>1. CASE Done(x)
    BY <1>1, <2>1, <2>g, IsDone, IdleFields, GoesTo
  <2>2. CASE Goto(x, "fail") /\ op[x].pc \in Signing
    BY <1>1, <2>2, <2>g, GoesTo
  <2> QED
    BY <2>1, <2>2
<1>3. OneWorks(x)
  BY <1>1, <1>2 DEF OneWorks, Starting, Signing, IInv, FencesOK, Fenced
<1>4. \/ armed' = Open(acct.session)
      \/ armed' = armed /\ x # Alarm
      \/ armed' = armed /\ ~Fenced(Alarm) /\ op[Alarm].pc \notin {"idle", "alarm"}
      \/ /\ armed' = armed /\ op'[Alarm].auth = op[Alarm].auth
         /\ {op[Alarm].pc, op'[Alarm].pc} \cap {"idle", "alarm"} = {}
  BY <1>2 DEF Signing
<1> QED
  BY <1>1, <1>2, <1>3, <1>4, SessionStep DEF IInv, StatusOK

LEMMA FailSessionKeeps ==
    ASSUME IInv, NEW x \in Actors, FailSession(x)
    PROVE  IInv'
<1>1. /\ acct \in Account /\ op \in [Actors -> Operation] /\ op[x].pc \in {"fail", "abort"}
      /\ Done(x) /\ UNCHANGED <<flight, queue, live, issued, lost, shared>>
  BY DEF IInv, TypesOK, FailSession
<1>2. CASE Fenced(x) /\ acct.session.id = 0
  <2>1. acct' = acct /\ armed' = Open(acct.session)
    BY <1>2 DEF FailSession, Commit, AlarmOf
  <2> QED
    BY <1>1, <2>1, GivesUp
<1>3. CASE Fenced(x) /\ acct.session.id # 0
  <2>1. acct' = [acct EXCEPT !.session.status = "error"] /\ armed' = Open(acct'.session)
    BY <1>3 DEF FailSession, Commit, AlarmOf
  <2>2. /\ acct' \in Account /\ acct'.gen = acct.gen /\ acct'.auth = acct.auth /\ acct'.tok = acct.tok
        /\ acct'.status = acct.status /\ acct'.mode = acct.mode
        /\ acct'.session.id = acct.session.id /\ acct'.session.status = "error"
        /\ acct'.session.tok = acct.session.tok /\ acct'.session.ready = acct.session.ready
        /\ acct'.session.expired = acct.session.expired
    BY <1>1, <2>1, SessionIs
  <2>3. op' \in [Actors -> Operation] /\ op'[x] = Idle /\ \A y \in Actors \ {x} : op'[y] = op[y]
    BY <1>1, IsDone
  <2>4. OneWorks(x)
    BY <1>1, <2>2, <2>3, IdleFields DEF OneWorks, Starting, Signing, Terminal
  <2> QED
    BY <1>1, <1>3, <2>1, <2>2, <2>3, <2>4, IdleFields, SessionStep
<1>4. CASE ~Fenced(x)
  <2>1. UNCHANGED <<acct, armed>>
    BY <1>4 DEF FailSession
  <2> QED
    BY <1>1, <1>4, <2>1, GivesUp
<1> QED
  BY <1>2, <1>3, <1>4

\* The exchange is claimed: by the first callback, or by the approved device.
LEMMA ClaimKeeps ==
    ASSUME IInv, NEW x \in Actors, op[x].pc \in {"claim", "poll"}, Fenced(x),
           acct.session.status = "pending", Goto(x, "exchange"),
           Commit([acct EXCEPT !.session.status = "exchanging"]),
           UNCHANGED <<flight, queue, live, issued, lost, shared>>
    PROVE  IInv'
<1>1. acct \in Account /\ op \in [Actors -> Operation]
  BY DEF IInv, TypesOK
<1>2. acct' = [acct EXCEPT !.session.status = "exchanging"] /\ armed' = Open(acct'.session)
  BY DEF Commit, AlarmOf
<1>3. /\ acct' \in Account /\ acct'.gen = acct.gen /\ acct'.auth = acct.auth /\ acct'.tok = acct.tok
      /\ acct'.status = acct.status /\ acct'.mode = acct.mode
      /\ acct'.session.id = acct.session.id /\ acct'.session.status = "exchanging"
      /\ acct'.session.tok = acct.session.tok
  BY <1>1, <1>2, SessionIs
<1>4. /\ op' \in [Actors -> Operation] /\ \A y \in Actors \ {x} : op'[y] = op[y]
      /\ op'[x].pc = "exchange" /\ op'[x].gen = op[x].gen /\ op'[x].auth = op[x].auth
      /\ op'[x].sid = op[x].sid /\ op'[x].tok = op[x].tok
  <2>1. "exchange" \in Steps
    BY DEF Steps, Signing
  <2> QED
    BY <1>1, <2>1, GoesTo
<1>5. acct.session.id = op[x].sid
  BY DEF IInv, FencesOK, Signing
<1>6. \A y \in Actors : op'[y].pc \in Starting => op'[y].sid # acct.session.id
  BY <1>4, <1>5 DEF IInv, StartsOK, Starting, Signing
<1>7. OneWorks(x)
  BY <1>3, <1>4, <1>5, <1>6 DEF OneWorks, Starting, Signing, Terminal
<1>8. acct.session.id # 0
  BY DEF IInv, StatusOK
<1> QED
  BY <1>2, <1>3, <1>4, <1>7, <1>8, SessionStep

LEMMA ClaimCallbackKeeps ==
    ASSUME IInv, NEW x \in Actors, ClaimCallback(x)
    PROVE  IInv'
<1>1. op[x].pc = "claim" /\ x # Alarm /\ UNCHANGED <<flight, queue, live, issued, lost, shared>>
  BY DEF IInv, TypesOK, ClaimCallback, At, AlarmSteps
<1>2. CASE Fenced(x) /\ acct.session.status = "pending" /\ ~acct.session.expired
  BY <1>1, <1>2, ClaimKeeps DEF ClaimCallback
<1>3. CASE ~(Fenced(x) /\ acct.session.status = "pending" /\ ~acct.session.expired)
  BY <1>1, <1>3, GivesUp DEF ClaimCallback
<1> QED
  BY <1>2, <1>3

LEMMA ApprovedKeeps ==
    ASSUME IInv, Approved
    PROVE  IInv'
<1>1. op[Alarm].pc = "poll" /\ Alarm \in Actors /\ UNCHANGED <<flight, queue, live, issued, lost, shared>>
  BY Constants DEF Approved, At
<1>2. CASE Fenced(Alarm) /\ DevicePending(acct.session)
  BY <1>1, <1>2, ClaimKeeps DEF Approved, DevicePending
<1>3. CASE ~(Fenced(Alarm) /\ DevicePending(acct.session))
  <2>1. Goto(Alarm, "fail") /\ UNCHANGED <<acct, armed>> /\ "poll" \in Signing
    BY <1>3 DEF Approved, Signing
  <2> QED
    BY <1>1, <2>1, GivesUp
<1> QED
  BY <1>2, <1>3

LEMMA PollAgainKeeps ==
    ASSUME IInv, PollAgain
    PROVE  IInv'
<1>1. op[Alarm].pc = "poll" /\ Alarm \in Actors /\ "poll" \in Signing
      /\ UNCHANGED <<flight, queue, live, issued, lost, shared>>
  BY Constants DEF PollAgain, At, Signing
<1>2. CASE Fenced(Alarm)
  <2>1. acct' = acct /\ armed' = Open(acct.session) /\ Done(Alarm)
    BY <1>2 DEF PollAgain, Commit, AlarmOf
  <2> QED
    BY <1>1, <2>1, GivesUp
<1>3. CASE ~Fenced(Alarm)
  BY <1>1, <1>3, GivesUp DEF PollAgain
<1> QED
  BY <1>2, <1>3

-----------------------------------------------------------------------------
(* Steps of the token operations. *)

\* Two operations of one generation do not have their turn at once.
LEMMA OneInLine ==
    ASSUME NEW x \in Actors, NEW y \in Actors, Turn(x), Turn(y), op[x].gen = op[y].gen
    PROVE  x = y
  BY DEF Turn

\* The first in line is gone; everybody else is where they were.
Left(x) ==
    /\ op' \in [Actors -> Operation] /\ op'[x] = Idle
    /\ \A y \in Actors \ {x} : Same(y) /\ (Turn(y) => Turn(y)')
    /\ queue' \in [0..MaxAuth + 1 -> Seq(Actors)]
    /\ flight' \in [gen : 0..MaxAuth + 1, owner : Actors]

LEMMA Leaves ==
    ASSUME TypesOK, NEW x \in Actors, NEW ok, Leave(x, ok), Turn(x)
    PROVE  Left(x)
<1>1. /\ op \in [Actors -> Operation] /\ queue \in [0..MaxAuth + 1 -> Seq(Actors)]
      /\ op[x].gen \in 0..MaxAuth + 1 /\ queue[op[x].gen] # <<>>
  BY DEF TypesOK, Operation, Turn
<1>2. /\ queue' \in [0..MaxAuth + 1 -> Seq(Actors)]
      /\ \A h \in 0..MaxAuth + 1 : h # op[x].gen => queue'[h] = queue[h]
  BY <1>1, QueueShrinks DEF Leave
<1>3. flight' \in [gen : 0..MaxAuth + 1, owner : Actors]
  <2>1. NoFlight \in [gen : 0..MaxAuth + 1, owner : Actors]
    BY AccountAssumption DEF NoFlight, Actors
  <2> QED
    BY <2>1 DEF Leave, TypesOK
<1>4. op'[x] = Idle
  BY DEF Leave
<1>5. ASSUME NEW y \in Actors \ {x}
      PROVE  op'[y] \in {op[y], [op[y] EXCEPT !.broken = TRUE]}
  BY DEF Leave
<1>6. \A y \in Actors : [op[y] EXCEPT !.broken = TRUE] \in Operation
  BY <1>1, OperationUpdates
<1>7. \A y \in Actors : op'[y] \in Operation
  BY <1>1, <1>4, <1>5, <1>6, Constants
<1>8. op' \in [Actors -> Operation]
  <2>1. DOMAIN op' = Actors /\ op' = [y \in Actors |-> op'[y]]
    BY DEF Leave
  <2> QED
    BY <1>7, <2>1
<1>9. ASSUME NEW y \in Actors \ {x}
      PROVE  Same(y)
  <2>1. op[y] \in Operation
    BY <1>1
  <2>2. CASE op'[y] = op[y]
    BY <2>2 DEF Same
  <2>3. CASE op'[y] = [op[y] EXCEPT !.broken = TRUE]
    BY <2>1, <2>3 DEF Same, Operation
  <2> QED
    BY <1>5, <2>2, <2>3
<1>10. ASSUME NEW y \in Actors \ {x}, Turn(y)
       PROVE  Turn(y)'
  <2>1. op[y].gen \in 0..MaxAuth + 1
    BY <1>1 DEF Operation
  <2>2. op[y].gen # op[x].gen
    BY <1>10, OneInLine
  <2> QED
    BY <1>2, <1>9, <1>10, <2>1, <2>2 DEF Turn, Same
<1> QED
  BY <1>2, <1>3, <1>4, <1>8, <1>9, <1>10 DEF Left

\* What leaving has nothing to do with.
LEMMA LeaverFrame ==
    ASSUME IInv, NEW x \in Actors, x # Alarm, Left(x), acct' \in Account, acct'.auth = acct.auth,
           acct'.session = acct.session, acct'.gen = acct.gen, acct'.mode = acct.mode,
           acct.tok.r = 0 => acct'.tok.r = 0, issued' = issued, live' \in SUBSET live,
           armed' = armed \/ armed' = Open(acct.session)
    PROVE  TypesOK' /\ AgesOK' /\ ReplacementOK' /\ FencesOK' /\ StartsOK' /\ AlarmOK'
<1> USE DEF IInv, Left
<1>1. Same(Alarm)
  BY Constants
<1>2. TypesOK'
  <2>1. armed' \in BOOLEAN
    BY DEF TypesOK, Open
  <2> QED
    BY <1>1, <2>1 DEF TypesOK, Same
<1>3. AgesOK'
  <2>1. 0 <= acct.gen /\ 0 <= acct.auth
    BY DEF TypesOK, Account
  <2> QED
    BY <2>1, IdleFields DEF AgesOK, Same
<1>4. SessionStays
  <2>1. op'[x].pc \notin Starting \cup Signing
    BY IdleFields DEF Starting, Signing
  <2> QED
    BY <1>1, <2>1 DEF SessionStays
<1> QED
  BY <1>2, <1>3, <1>4, SessionFrame

\* Nothing but what one operation was about is lost when it leaves: its token,
\* if that was revoked, or the account's, if it is not ready any more.
NothingNew(x) ==
    /\ acct'.gen = acct.gen /\ acct'.mode = acct.mode /\ acct'.session = acct.session
    /\ issued' = issued /\ shared' = shared /\ acct'.tok \in {acct.tok, NoTok}
    /\ live' = live \/ (live' = live \ {op[x].tok.r} /\ op[x].pc = "revoke")
    /\ \/ acct'.tok = acct.tok /\ acct'.status = acct.status
       \/ /\ acct'.status # "ready"
          /\ \A y \in Actors \ {x} : op[y].pc \in Sending => op[y].gen # acct.gen

LEMMA LeaverTokens ==
    ASSUME IInv, NEW x \in Actors, Left(x), TypesOK', NothingNew(x)
    PROVE  NumbersOK' /\ TurnsOK' /\ RevocationsOK' /\ IssuerOK'
<1> USE DEF IInv, Left, Same, NothingNew
<1>1. NumbersOK'
  <2>1. NumbersStay
    BY IdleFields DEF NumbersStay, Drawn
  <2> QED
    BY <2>1, NumbersFrame
<1>2. TurnsOK'
  <2>1. ~(op'[x].pc \in Sending \cup {"revoke"})
    BY IdleFields DEF Sending, Presenting
  <2> QED
    BY <2>1, Constants DEF TurnsOK, Sending, Presenting
<1>3. RevocationsOK'
  BY IdleFields, Constants DEF RevocationsOK, Siwc
<1>4. IssuerOK'
  <2>1. CASE live' = live
    BY <2>1, IdleFields DEF IssuerOK, Drawn, Siwc
  <2>2. CASE live' = live \ {op[x].tok.r} /\ op[x].pc = "revoke"
    <3>1. Siwc
      BY <2>2 DEF RevocationsOK
    <3>2. \A y \in Actors : Drawn(y) /\ op[y].new.r = op[y].new.a /\ op[y].new.r \notin shared
                               => op[y].new.r # op[x].tok.r
      BY DEF NumbersOK, OnItsWay, Unread
    <3>3. acct.session.tok.r # 0 /\ acct.session.tok.r = acct.session.tok.a => acct.session.tok.r # op[x].tok.r
      BY DEF NumbersOK, Unread
    <3> QED
      BY <2>2, <3>1, <3>2, <3>3, IdleFields DEF IssuerOK, Drawn, Siwc
  <2> QED
    BY <2>1, <2>2
<1> QED
  BY <1>1, <1>2, <1>3, <1>4

\* The operation leaves, and nothing is committed.
LEMMA LeaverKeeps ==
    ASSUME IInv, NEW x \in Actors, x # Alarm, Left(x), UNCHANGED <<acct, armed, live, issued, shared>>,
           op[x].pc \in {"answered", "stranger"} /\ op[x].gen = acct.gen =>
               op[x].tok.r \in lost' \/ op[x].new.r = 0,
           lost \in SUBSET lost'
    PROVE  IInv'
<1>1. acct' \in Account /\ live' \in SUBSET live
  BY DEF IInv, TypesOK
<1>2. TypesOK' /\ AgesOK' /\ ReplacementOK' /\ FencesOK' /\ StartsOK' /\ AlarmOK'
  BY <1>1, LeaverFrame
<1>3. NumbersOK' /\ TurnsOK' /\ RevocationsOK' /\ IssuerOK'
  <2>1. NothingNew(x)
    BY DEF NothingNew
  <2> QED
    BY <1>2, <2>1, LeaverTokens
<1>4. StatusOK'
  BY DEF IInv, StatusOK, Siwc
<1>5. LatestToken'
  <2> SUFFICES ASSUME acct.status = "ready", acct.tok.r \notin live \cup lost \cup shared \cup {0},
                      acct.tok.r \notin lost'
               PROVE  \E y \in Actors : op'[y].pc \in {"answered", "stranger"} /\ op'[y].gen = acct.gen
                                           /\ op'[y].tok.r = acct.tok.r
    BY DEF LatestToken, At, IInv
  <2>1. PICK y \in Actors : /\ op[y].pc \in {"answered", "stranger"} /\ op[y].gen = acct.gen
                             /\ op[y].tok.r = acct.tok.r
    BY DEF IInv, LatestToken
  <2>2. y # x
    BY <2>1 DEF IInv, IssuerOK
  <2> QED
    BY <2>1, <2>2 DEF Left, Same
<1> QED
  BY <1>2, <1>3, <1>4, <1>5 DEF IInv

LEMMA RefreshKeeps ==
    ASSUME IInv, NEW x \in Actors, Refresh(x)
    PROVE  IInv'
<1> USE DEF IInv
<1>1. /\ acct \in Account /\ op \in [Actors -> Operation] /\ x # Alarm /\ op[x].pc = "refresh" /\ Turn(x)
      /\ UNCHANGED <<acct, armed, live, issued, lost, shared, blamed>>
      /\ op[x].tok \in Tok /\ acct.tok \in Tok /\ 0 \notin live
  <2>1. /\ x # Alarm /\ op[x].pc = "refresh" /\ Turn(x)
        /\ UNCHANGED <<acct, armed, live, issued, lost, shared, blamed>>
    BY DEF TypesOK, Refresh, At, AlarmSteps
  <2>2. acct \in Account /\ op \in [Actors -> Operation] /\ 0 \notin live
    BY DEF TypesOK
  <2>3. op[x].tok \in Tok /\ acct.tok \in Tok
    BY <2>2 DEF Account, Operation
  <2> QED
    BY <2>1, <2>2, <2>3
<1>2. CASE Usable /\ Current(x)
  <2> DEFINE pc == IF op[x].tok.r = 0 THEN "denied" ELSE "send"
  <2>1. Goto(x, pc) /\ UNCHANGED <<flight, queue>> /\ pc \in Steps
    BY <1>2 DEF Refresh, Steps, Sending, Presenting
  <2>2. op[x].gen = acct.gen /\ op[x].tok.a = acct.tok.a /\ acct.status = "ready" /\ acct.tok.a # 0
    BY <1>2 DEF Usable, Current, StatusOK
  <2>3. op[x].tok = acct.tok
    <3>1. op[x].tok.r = acct.tok.r
      BY <2>2 DEF NumbersOK
    <3> QED
      BY <1>1, <2>2, <3>1 DEF Tok
  <2>4. /\ op' \in [Actors -> Operation] /\ \A y \in Actors \ {x} : op'[y] = op[y]
        /\ op'[x].pc = pc /\ op'[x].gen = op[x].gen /\ op'[x].auth = op[x].auth
        /\ op'[x].sid = op[x].sid /\ op'[x].tok = op[x].tok /\ op'[x].new = op[x].new
    <3> HIDE DEF pc
    <3> QED
      BY <1>1, <2>1, GoesTo
  <2>5. TypesOK' /\ AgesOK' /\ StatusOK'
    BY <1>1, <2>1, <2>4, Constants DEF TypesOK, AgesOK, StatusOK, Siwc
  <2>6. NumbersOK'
    <3>1. NumbersStay
      BY <1>1, <2>1, <2>4 DEF NumbersStay, Drawn
    <3> QED
      BY <3>1, NumbersFrame
  <2>7. \A y \in Actors : Turn(y)' = Turn(y)
    BY <2>1, <2>4 DEF Turn
  <2>8. ASSUME NEW y \in Actors \ {x}, op[y].pc \in Presenting, op[x].tok.r # 0
        PROVE  op[y].tok.r # op[x].tok.r \/ op[x].tok.r \in shared
    <3>1. op[y].gen # acct.gen
      BY <1>1, <2>2, <2>8, OneInLine DEF TurnsOK, Sending, Presenting
    <3> QED
      BY <2>3, <2>8, <3>1 DEF TurnsOK, Sending, Presenting
  <2>9. TurnsOK'
    <3> SUFFICES ASSUME NEW y \in Actors
                 PROVE  /\ op'[y].pc \in Sending \cup {"revoke"} => Turn(y)
                        /\ op'[y].pc \in Presenting => op'[y].tok.r # 0
                        /\ op'[y].pc \in Sending /\ op'[y].gen = acct.gen
                              => acct.status = "ready" /\ op'[y].tok = acct.tok
                        /\ op'[y].pc \in Sending /\ op'[y].gen # acct.gen
                              => acct.tok.r = 0 \/ op'[y].tok.r # acct.tok.r \/ acct.tok.r \in shared
                        /\ \A z \in Actors \ {y} :
                              op'[y].pc \in Presenting /\ op'[z].pc \in Presenting
                                  => op'[y].tok.r # op'[z].tok.r \/ op'[y].tok.r \in shared
      BY <1>1, <2>7 DEF TurnsOK
    <3>1. CASE y = x
      BY <1>1, <2>2, <2>3, <2>4, <2>8, <3>1 DEF Presenting
    <3>2. CASE y # x
      BY <1>1, <2>4, <2>8, <3>2 DEF TurnsOK
    <3> QED
      BY <3>1, <3>2
  <2>10. RevocationsOK' /\ IssuerOK' /\ LatestToken'
    BY <1>1, <2>1, <2>4 DEF RevocationsOK, IssuerOK, LatestToken, Drawn, At, Siwc
  <2>11. ReplacementOK' /\ FencesOK' /\ StartsOK' /\ AlarmOK'
    <3>1. SessionStays
      BY <1>1, <2>4, Constants DEF SessionStays, Same, Starting, Signing
    <3> QED
      BY <2>5, <3>1, SessionFrame
  <2> QED
    BY <2>5, <2>6, <2>9, <2>10, <2>11
<1>3. CASE ~(Usable /\ Current(x))
  <2>1. Left(x)
    BY <1>1, <1>3, Leaves DEF Refresh
  <2> QED
    BY <1>1, <2>1, LeaverKeeps
<1> QED
  BY <1>2, <1>3

LEMMA RefreshFailsKeeps ==
    ASSUME IInv, NEW x \in Actors, RefreshFails(x)
    PROVE  IInv'
<1>1. x # Alarm /\ op[x].pc \in Presenting /\ Turn(x)
  BY DEF IInv, TypesOK, RefreshFails, AlarmSteps, TurnsOK, Sending, Presenting
<1>2. Left(x)
  BY <1>1, Leaves DEF RefreshFails, IInv
<1> QED
  BY <1>1, <1>2, LeaverKeeps DEF RefreshFails, Rotated, Presenting

LEMMA RevokeKeeps ==
    ASSUME IInv, NEW x \in Actors, Revoke(x)
    PROVE  IInv'
<1> USE DEF IInv
<1>1. x # Alarm /\ op[x].pc = "revoke" /\ Turn(x) /\ acct \in Account
      /\ live' \in {live, live \ {op[x].tok.r}} /\ UNCHANGED <<issued, lost, shared, blamed>>
  BY DEF TypesOK, Revoke, At, AlarmSteps, TurnsOK
<1>2. Left(x)
  BY <1>1, Leaves DEF Revoke
<1>3. /\ acct' \in Account /\ acct'.gen = acct.gen /\ acct'.auth = acct.auth /\ acct'.mode = acct.mode
      /\ acct'.session = acct.session /\ acct'.status = acct.status
      /\ acct'.tok = acct.tok \/ (acct'.tok = NoTok /\ acct.status # "ready")
      /\ armed' = armed \/ armed' = Open(acct.session)
  <2>1. CASE acct.gen = op[x].gen + 1
    <3>1. acct' = [acct EXCEPT !.tok = NoTok] /\ armed' = Open(acct'.session)
      BY <2>1 DEF Revoke, Commit, AlarmOf
    <3>2. acct.status # "ready"
      BY <1>1, <2>1 DEF RevocationsOK
    <3> QED
      BY <1>1, <3>1, <3>2, TokensAre, Constants
  <2>2. CASE acct.gen # op[x].gen + 1
    BY <1>1, <2>2 DEF Revoke
  <2> QED
    BY <2>1, <2>2
<1>4. TypesOK' /\ AgesOK' /\ ReplacementOK' /\ FencesOK' /\ StartsOK' /\ AlarmOK'
  <2>1. acct.tok.r = 0 => acct'.tok.r = 0
    BY <1>3, Constants
  <2>2. live' \in SUBSET live
    BY <1>1
  <2> QED
    BY <1>1, <1>2, <1>3, <2>1, <2>2, LeaverFrame
<1>5. NumbersOK' /\ TurnsOK' /\ RevocationsOK' /\ IssuerOK'
  <2>1. acct'.tok # acct.tok => \A y \in Actors \ {x} : op[y].pc \in Sending => op[y].gen # acct.gen
    BY <1>3 DEF TurnsOK
  <2>2. NothingNew(x)
    BY <1>1, <1>3, <2>1 DEF NothingNew
  <2> QED
    BY <1>2, <1>4, <2>2, LeaverTokens
<1>6. StatusOK'
  BY <1>3 DEF StatusOK, Siwc
<1>7. LatestToken'
  <2> SUFFICES ASSUME acct.status = "ready", acct.tok.r \notin live' \cup lost \cup shared \cup {0}
               PROVE  \E y \in Actors : /\ op'[y].pc \in {"answered", "stranger"} /\ op'[y].gen = acct.gen
                                         /\ op'[y].tok.r = acct.tok.r
    BY <1>1, <1>3 DEF LatestToken, At
  <2>1. acct.tok.r \notin live
    BY <1>1 DEF RevocationsOK
  <2>2. PICK y \in Actors : /\ op[y].pc \in {"answered", "stranger"} /\ op[y].gen = acct.gen
                             /\ op[y].tok.r = acct.tok.r
    BY <2>1 DEF LatestToken, At
  <2> QED
    BY <1>1, <1>2, <2>2 DEF Left, Same
<1> QED
  BY <1>4, <1>5, <1>6, <1>7

LEMMA DeniedKeeps ==
    ASSUME IInv, NEW x \in Actors, Denied(x)
    PROVE  IInv'
<1> USE DEF IInv
<1>1. x # Alarm /\ op[x].pc \in {"denied", "stranger"} /\ Turn(x) /\ acct \in Account
      /\ UNCHANGED <<live, issued, lost, shared, blamed>>
  BY DEF TypesOK, Denied, At, AlarmSteps, TurnsOK, Sending, Presenting
<1>2. Left(x)
  BY <1>1, Leaves DEF Denied
<1>3. CASE acct.gen # op[x].gen
  BY <1>1, <1>2, <1>3, LeaverKeeps DEF Denied, Refuses
<1>4. CASE acct.gen = op[x].gen
  <2> DEFINE t == IF Siwc THEN NoTok ELSE acct.tok
  <2>1. acct' = [acct EXCEPT !.status = "needs_reauthorization", !.tok = t] /\ armed' = Open(acct'.session)
    BY <1>4 DEF Denied, Refuses, Commit, AlarmOf
  <2>2. t \in Tok /\ t \in {NoTok, acct.tok}
    BY <1>1, Constants DEF Account
  <2> HIDE DEF t
  <2>3. /\ acct' \in Account /\ acct'.gen = acct.gen /\ acct'.auth = acct.auth /\ acct'.tok = t
        /\ acct'.status = "needs_reauthorization" /\ acct'.mode = acct.mode /\ acct'.session = acct.session
    BY <1>1, <2>1, <2>2, TokensAre
  <2>4. TypesOK' /\ AgesOK' /\ ReplacementOK' /\ FencesOK' /\ StartsOK' /\ AlarmOK'
    <3>1. acct.tok.r = 0 => acct'.tok.r = 0
      BY <2>2, <2>3, Constants
    <3>2. live' \in SUBSET live
      BY <1>1
    <3> QED
      BY <1>1, <1>2, <2>1, <2>3, <3>1, <3>2, LeaverFrame
  <2>5. \A y \in Actors \ {x} : op[y].pc \in Sending => op[y].gen # acct.gen
    BY <1>1, <1>4, OneInLine DEF TurnsOK, Sending, Presenting
  <2>6. NumbersOK' /\ TurnsOK' /\ RevocationsOK' /\ IssuerOK'
    <3>1. NothingNew(x)
      BY <1>1, <2>2, <2>3, <2>5 DEF NothingNew
    <3> QED
      BY <1>2, <2>4, <3>1, LeaverTokens
  <2>7. StatusOK' /\ LatestToken'
    BY <2>3 DEF StatusOK, LatestToken, Siwc
  <2> QED
    BY <2>4, <2>6, <2>7
<1> QED
  BY <1>3, <1>4

\* A number is drawn: it is new to everybody.
LEMMA NumbersDrawn ==
    ASSUME TypesOK, TypesOK', NumbersOK, NEW x \in Actors, UNCHANGED <<acct, shared>>,
           issued' = issued + 1, \A y \in Actors \ {x} : op'[y] = op[y], op'[x].tok = op[x].tok,
           op'[x].pc \in {"answered", "stranger", "granted"}, op'[x].new.a = issued + 1,
           \/ op'[x].new.r \in {0, issued + 1}
           \/ op'[x].pc = "granted" /\ Repeatable(op'[x].new.r)
    PROVE  NumbersOK' /\ Unread(issued + 1) /\ issued + 1 \notin shared
<1>0. issued \in Nat
  BY AccountAssumption DEF TypesOK
<1>1. \A n : Unread(n)' = Unread(n)
  BY DEF Unread
<1>2. Unread(issued + 1) /\ issued + 1 \notin shared
  BY <1>0 DEF NumbersOK, Unread
<1>3. /\ acct.tok.a \in Int /\ acct.tok.r \in Int /\ acct.session.tok.a \in Int
      /\ \A y \in Actors : op[y].tok.a \in Int /\ op[y].tok.r \in Int /\ op[y].new \in Tok /\ op'[y].tok = op[y].tok
      /\ acct.session.tok \in Tok /\ op'[x].new \in Tok
  <2>1. acct.tok \in Tok /\ acct.session.tok \in Tok
    BY DEF TypesOK, Account, Session
  <2>2. ASSUME NEW y \in Actors PROVE op[y].tok \in Tok /\ op[y].new \in Tok /\ op'[y].tok = op[y].tok
    BY DEF TypesOK, Operation
  <2>3. op'[x].new \in Tok
    BY DEF TypesOK, Operation
  <2> QED
    BY <2>1, <2>2, <2>3 DEF Tok
<1>4. /\ acct'.tok.a <= issued' /\ acct'.tok.r <= issued' /\ acct'.session.tok.a <= issued'
      /\ acct.session.tok.a <= issued
      /\ acct'.session.tok.a # 0 => Unread(acct.session.tok.a)' /\ acct'.session.tok.a \notin shared'
  BY <1>0, <1>1, <1>3 DEF NumbersOK
<1>5. \A y \in Actors : op'[y].tok.a <= issued' /\ op'[y].tok.r <= issued'
  BY <1>0, <1>3 DEF NumbersOK
<1>6. ASSUME NEW t \in Tok, Whole(t)
      PROVE  Whole(t)'
  <2>1. t.r \in Nat
    BY AccountAssumption DEF Tok
  <2> QED
    BY <1>0, <1>6, <2>1 DEF Whole, Repeatable
<1>7. ASSUME NEW y \in Actors, Drawn(y)'
      PROVE  /\ op'[y].new.a \in 1..issued' /\ OnItsWay(y)' /\ op'[y].new.a # acct'.session.tok.a
             /\ Whole(op[y].new)' /\ (op'[y].pc # "granted" => op'[y].new.r \in {0, op'[y].new.a})
  <2>1. CASE y = x
    <3>1. OnItsWay(x)'
      BY <1>1, <1>2 DEF OnItsWay
    <3>2. Whole(op[x].new)'
      <4>1. CASE op'[x].new.r \in {0, issued + 1}
        BY <4>1 DEF Whole
      <4>2. CASE op'[x].pc = "granted" /\ Repeatable(op'[x].new.r)
        <5>1. PICK n \in 0..MaxTokens : n = op'[x].new.r
          BY <1>3 DEF Tok
        <5>2. Repeatable(n)
          BY <4>2, <5>1 DEF Repeatable
        <5>3. Repeatable(n)'
          BY <1>0, <5>2, AccountAssumption DEF Repeatable
        <5> QED
          BY <5>1, <5>3 DEF Whole, Repeatable
      <4> QED
        BY <4>1, <4>2
    <3>3. op'[x].pc # "granted" => op'[x].new.r \in {0, op'[x].new.a}
      OBVIOUS
    <3> QED
      BY <1>0, <1>3, <1>4, <2>1, <3>1, <3>2, <3>3
  <2>2. CASE y # x
    <3>1. Drawn(y) /\ op'[y] = op[y]
      BY <1>7, <2>2 DEF Drawn
    <3>2. /\ op[y].new.a \in 1..issued /\ OnItsWay(y) /\ op[y].new.a # acct.session.tok.a
          /\ Whole(op[y].new) /\ (op[y].pc # "granted" => op[y].new.r \in {0, op[y].new.a})
      BY <3>1 DEF NumbersOK
    <3>3. OnItsWay(y)'
      BY <1>1, <3>1, <3>2 DEF OnItsWay, At
    <3>4. Whole(op[y].new)'
      <4>1. PICK t \in Tok : t = op[y].new
        BY <1>3
      <4>2. Whole(t)' /\ op'[y].new = t
        BY <1>6, <3>1, <3>2, <4>1
      <4> QED
        BY <4>2 DEF Whole
    <3> QED
      BY <1>0, <3>1, <3>2, <3>3, <3>4
  <2> QED
    BY <2>1, <2>2
<1>8. \A y, z \in Actors : Drawn(y)' /\ Drawn(z)' /\ y # z => op'[y].new.a # op'[z].new.a
  <2>1. \A y \in Actors \ {x} : Drawn(y)' => Drawn(y) /\ op'[y].new = op[y].new /\ op[y].new.a # issued + 1
    BY <1>0 DEF NumbersOK, Drawn
  <2> QED
    BY <2>1 DEF NumbersOK
<1>9. \A y \in Actors : op'[y].tok.a = acct'.tok.a /\ acct'.tok.a # 0 => op'[y].tok.r = acct'.tok.r
  BY <1>3 DEF NumbersOK
<1>10. Whole(acct.session.tok)' /\ \A n \in shared' : n \in 1..issued'
  <2>1. PICK t \in Tok : t = acct.session.tok
    BY <1>3
  <2>2. Whole(t)' /\ acct'.session.tok = t
    BY <1>6, <2>1 DEF NumbersOK
  <2> QED
    BY <1>0, <2>2 DEF Whole, NumbersOK
<1> QED
  BY <1>2, <1>4, <1>5, <1>7, <1>8, <1>9, <1>10 DEF NumbersOK

LEMMA RenewKeeps ==
    ASSUME IInv, NEW x \in Actors, Renew(x)
    PROVE  IInv'
<1> USE DEF IInv
<1>1. /\ x # Alarm /\ op[x].pc = "answered" /\ Turn(x) /\ acct \in Account
      /\ UNCHANGED <<live, issued, lost, shared, blamed>>
  BY DEF TypesOK, Renew, At, AlarmSteps, TurnsOK, Sending, Presenting
<1>2. Left(x)
  BY <1>1, Leaves DEF Renew
<1>3. CASE acct.gen # op[x].gen
  BY <1>1, <1>2, <1>3, LeaverKeeps DEF Renew
<1>4. CASE acct.gen = op[x].gen
  <2> DEFINE a == op[x].new.a
  <2> DEFINE r == IF op[x].new.r = 0 THEN op[x].tok.r ELSE op[x].new.r
  <2>1. acct' = [acct EXCEPT !.tok = [a |-> a, r |-> r]] /\ armed' = Open(acct'.session)
    BY <1>4 DEF Renew, Commit, AlarmOf
  <2>2. /\ a \in 1..issued /\ op[x].new.r \in {0, a} /\ Unread(a) /\ a # acct.session.tok.a
        /\ acct.status = "ready" /\ op[x].tok = acct.tok /\ acct.tok.r # 0
        /\ r \in {a, acct.tok.r} /\ r # 0 /\ r \in live \cup shared
    <3>1. /\ a \in 1..issued /\ op[x].new.r \in {0, a} /\ Unread(a) /\ a # acct.session.tok.a
          /\ a \notin shared
      BY <1>1, <1>4 DEF NumbersOK, Drawn, OnItsWay
    <3>2. acct.status = "ready" /\ op[x].tok = acct.tok /\ acct.tok.r # 0
      BY <1>1, <1>4 DEF TurnsOK, Sending, Presenting
    <3>3. r \in live \cup shared
      BY <1>1, <3>1 DEF IssuerOK, Drawn
    <3>4. 0 \notin live \cup shared
      BY DEF TypesOK, NumbersOK
    <3> QED
      BY <3>1, <3>2, <3>3, <3>4
  <2>3. [a |-> a, r |-> r] \in Tok
    <3>1. acct.tok \in Tok /\ issued \in 1..MaxTokens
      BY <1>1 DEF Account, TypesOK
    <3>2. a \in 0..MaxTokens
      BY <2>2, <3>1, AccountAssumption
    <3>3. acct.tok.r \in 0..MaxTokens
      BY <3>1 DEF Tok
    <3>4. r \in 0..MaxTokens
      BY <2>2, <3>2, <3>3
    <3> HIDE DEF a, r
    <3> QED
      BY <3>2, <3>4 DEF Tok
  <2> DEFINE t == [a |-> a, r |-> r]
  <2>4. t.a = a /\ t.r = r
    OBVIOUS
  <2> HIDE DEF t, r
  <2>5. /\ acct' \in Account /\ acct'.gen = acct.gen /\ acct'.auth = acct.auth /\ acct'.tok = t
        /\ acct'.status = acct.status /\ acct'.mode = acct.mode /\ acct'.session = acct.session
    BY <1>1, <2>1, <2>3, TokensAre DEF t
  <2>6. TypesOK' /\ AgesOK' /\ ReplacementOK' /\ FencesOK' /\ StartsOK' /\ AlarmOK'
    <3>1. live' \in SUBSET live
      BY <1>1
    <3> QED
      BY <1>1, <1>2, <2>1, <2>2, <2>5, <3>1, LeaverFrame
  <2>7. StatusOK'
    BY <2>2, <2>4, <2>5 DEF StatusOK, Siwc
  <2>8. \A y \in Actors \ {x} : op[y].pc \in Sending => op[y].gen # acct.gen
    BY <1>1, <1>4, OneInLine DEF TurnsOK, Sending, Presenting
  <2>9. NumbersOK'
    <3>1. ASSUME NEW n, Unread(n), n # a
          PROVE  n = 0 \/ Unread(n)'
      BY <1>1, <1>2, <2>2, <2>4, <2>5, <3>1, Constants, IdleFields DEF Unread, Left, Same
    <3>2. \A y \in Actors : Drawn(y)' => /\ y # x /\ Drawn(y) /\ op'[y].new = op[y].new
                                          /\ op'[y].pc = op[y].pc /\ op'[y].gen = op[y].gen
      BY <1>2, IdleFields DEF Drawn, Left, Same
    <3>3. issued \in Nat /\ issued' = issued /\ a \in 1..issued
      BY <1>1, <2>2 DEF TypesOK
    <3>4. acct'.session.tok.a # 0 => Unread(acct.session.tok.a)' /\ acct'.session.tok.a \notin shared'
      <4>1. acct.session.tok.a # 0 => /\ Unread(acct.session.tok.a) /\ acct.session.tok.a # a
                                      /\ acct.session.tok.a \notin shared
        BY <2>2 DEF NumbersOK
      <4> QED
        BY <1>1, <2>5, <3>1, <4>1
    <3>5. acct'.tok.a <= issued' /\ acct'.tok.r <= issued' /\ acct'.session.tok.a <= issued'
      BY <2>2, <2>4, <2>5, <3>3 DEF NumbersOK
    <3>6. \A y \in Actors : op'[y].tok.a <= issued' /\ op'[y].tok.r <= issued'
      BY <1>2, <3>3, Constants, IdleFields DEF NumbersOK, Left, Same
    <3>w. ASSUME NEW u \in Tok, Whole(u)
          PROVE  Whole(u)'
      <4>1. \A y \in Actors : op'[y].pc \in {"stranger", "granted"} => op'[y].pc = op[y].pc /\ op'[y].new = op[y].new
        BY <3>2 DEF Drawn
      <4> QED
        BY <2>5, <3>3, <3>w, <4>1 DEF Whole, Repeatable
    <3>7. ASSUME NEW y \in Actors, Drawn(y)'
          PROVE  /\ op'[y].new.a \in 1..issued' /\ OnItsWay(y)' /\ op'[y].new.a # acct'.session.tok.a
                 /\ Whole(op[y].new)' /\ (op'[y].pc # "granted" => op'[y].new.r \in {0, op'[y].new.a})
      <4>1. /\ y # x /\ Drawn(y) /\ op'[y].new = op[y].new /\ op'[y].pc = op[y].pc /\ op'[y].gen = op[y].gen
            /\ op[y].new \in Tok
        BY <3>2, <3>7 DEF TypesOK, Operation
      <4>2. /\ op[y].new.a # a /\ OnItsWay(y) /\ op[y].new.a \in 1..issued /\ Whole(op[y].new)
            /\ op[y].new.a # acct.session.tok.a /\ (op[y].pc # "granted" => op[y].new.r \in {0, op[y].new.a})
        BY <1>1, <4>1 DEF NumbersOK, Drawn
      <4>3. OnItsWay(y)'
        BY <1>1, <2>5, <3>1, <4>1, <4>2 DEF OnItsWay, At
      <4>4. Whole(op[y].new)'
        <5>1. PICK u \in Tok : u = op[y].new
          BY <4>1
        <5>2. Whole(u)' /\ op'[y].new = u
          BY <3>w, <4>1, <4>2, <5>1
        <5> QED
          BY <5>2 DEF Whole
      <4> QED
        BY <2>5, <3>3, <4>1, <4>2, <4>3, <4>4
    <3>8. \A y, z \in Actors : Drawn(y)' /\ Drawn(z)' /\ y # z => op'[y].new.a # op'[z].new.a
      BY <3>2 DEF NumbersOK
    <3>9. \A y \in Actors : op'[y].tok.a = acct'.tok.a /\ acct'.tok.a # 0 => op'[y].tok.r = acct'.tok.r
      BY <1>2, <2>2, <2>4, <2>5, Constants, IdleFields DEF Left, Same, Unread
    <3>10. Whole(acct.session.tok)' /\ \A n \in shared' : n \in 1..issued'
      <4>1. PICK u \in Tok : u = acct.session.tok
        BY DEF TypesOK, Account, Session
      <4>2. Whole(u)' /\ acct'.session.tok = u
        BY <2>5, <3>w, <4>1 DEF NumbersOK
      <4> QED
        BY <1>1, <3>3, <4>2 DEF Whole, NumbersOK
    <3> QED
      BY <3>4, <3>5, <3>6, <3>7, <3>8, <3>9, <3>10 DEF NumbersOK
  <2>10. TurnsOK'
    <3>1. ~(op'[x].pc \in Sending \cup {"revoke"})
      BY <1>2, IdleFields DEF Left, Sending, Presenting
    <3>2. \A y \in Actors \ {x} : op[y].pc \in Sending =>
             op[y].gen # acct.gen /\ (op[y].tok.r # r \/ r \in shared)
      BY <2>2, <2>8 DEF TurnsOK, Unread
    <3> QED
      BY <1>1, <1>2, <2>4, <2>5, <3>1, <3>2 DEF TurnsOK, Left, Same, Sending, Presenting
  <2>11. RevocationsOK' /\ IssuerOK'
    <3>1. \A y \in Actors : op'[y].pc \in {"revoke", "disconnect", "answered", "stranger", "denied", "granted"}
             => y # x /\ Same(y)
      BY <1>2, IdleFields DEF Left
    <3>2. \A y \in Actors : op[y].tok.r # a
      BY <2>2 DEF Unread
    <3>3. RevocationsOK'
      BY <1>1, <2>2, <2>4, <2>5, <3>1, <3>2 DEF RevocationsOK, Siwc, Same
    <3>4. IssuerOK'
      BY <1>1, <2>5, <3>1 DEF IssuerOK, Siwc, Same, Drawn
    <3> QED
      BY <3>3, <3>4
  <2>12. LatestToken'
    BY <1>1, <2>2, <2>4, <2>5 DEF LatestToken
  <2> QED
    BY <2>6, <2>7, <2>9, <2>10, <2>11, <2>12
<1> QED
  BY <1>3, <1>4

LEMMA IssueKeeps ==
    ASSUME IInv, NEW x \in Actors, Issue(x)
    PROVE  IInv'
<1> USE DEF IInv
<1>1. /\ x # Alarm /\ op[x].pc = "send" /\ Turn(x) /\ acct \in Account /\ op \in [Actors -> Operation]
      /\ op[x].tok.r # 0 /\ UNCHANGED <<acct, armed, flight, queue, lost, shared, blamed>>
      /\ issued \in Nat /\ issued < MaxTokens /\ op[x] \in Operation
  BY AccountAssumption DEF TypesOK, Issue, At, AlarmSteps, TurnsOK, Sending, Presenting
<1>2. CASE op[x].tok.r \notin live
  <2>1. /\ op' \in [Actors -> Operation] /\ \A y \in Actors \ {x} : op'[y] = op[y]
        /\ op'[x].pc = "denied" /\ op'[x].gen = op[x].gen /\ op'[x].auth = op[x].auth
        /\ op'[x].sid = op[x].sid /\ op'[x].tok = op[x].tok /\ op'[x].new = op[x].new
        /\ UNCHANGED <<live, issued>>
    <3>1. "denied" \in Steps /\ Goto(x, "denied") /\ UNCHANGED <<live, issued>>
      BY <1>2 DEF Issue, Steps, Sending, Presenting
    <3> QED
      BY <1>1, <3>1, GoesTo
  <2>2. TypesOK' /\ AgesOK' /\ StatusOK'
    BY <1>1, <2>1, Constants DEF TypesOK, AgesOK, StatusOK, Siwc
  <2>3. NumbersOK'
    <3>1. NumbersStay
      BY <1>1, <2>1 DEF NumbersStay, Drawn
    <3> QED
      BY <3>1, NumbersFrame
  <2>4. \A y \in Actors : Turn(y)' = Turn(y)
    BY <1>1, <2>1 DEF Turn
  <2>5. TurnsOK' /\ RevocationsOK'
    BY <1>1, <2>1, <2>4 DEF TurnsOK, RevocationsOK, Sending, Presenting, Siwc
  <2>6. IssuerOK' /\ LatestToken'
    BY <1>1, <1>2, <2>1 DEF IssuerOK, LatestToken, Drawn, At, Siwc
  <2>7. ReplacementOK' /\ FencesOK' /\ StartsOK' /\ AlarmOK'
    <3>1. SessionStays
      BY <1>1, <2>1, Constants DEF SessionStays, Same, Starting, Signing
    <3> QED
      BY <2>2, <3>1, SessionFrame
  <2> QED
    BY <2>2, <2>3, <2>5, <2>6, <2>7
<1>3. CASE op[x].tok.r \in live
  <2>1. PICK rotate \in BOOLEAN, pc \in {"answered", "stranger"} :
          /\ Siwc => rotate
          /\ issued' = issued + 1
          /\ live' = IF rotate THEN (live \ {op[x].tok.r}) \cup {issued'} ELSE live
          /\ op' = [op EXCEPT ![x].pc = pc,
                       ![x].new = [a |-> issued', r |-> IF rotate THEN issued' ELSE 0]]
    BY <1>3 DEF Issue
  <2> DEFINE new == [a |-> issued', r |-> IF rotate THEN issued' ELSE 0]
  <2>2. new \in Tok /\ new.a = issued + 1 /\ new.r = IF rotate THEN issued + 1 ELSE 0
    <3>1. issued' \in 0..MaxTokens /\ 0 \in 0..MaxTokens
      BY <1>1, <2>1, AccountAssumption
    <3> QED
      BY <2>1, <3>1 DEF Tok
  <2>3. op' = [op EXCEPT ![x] = [op[x] EXCEPT !.pc = pc, !.new = new]]
    BY <1>1, <2>1
  <2> HIDE DEF new
  <2> DEFINE o == [op[x] EXCEPT !.pc = pc, !.new = new]
  <2>4. /\ o \in Operation /\ o.pc = pc /\ o.gen = op[x].gen /\ o.auth = op[x].auth
        /\ o.sid = op[x].sid /\ o.tok = op[x].tok /\ o.new = new
    <3>1. o = [[op[x] EXCEPT !.pc = pc] EXCEPT !.new = new]
      BY <1>1 DEF Operation
    <3>2. pc \in Steps
      BY DEF Steps, Sending, Presenting
    <3>3. ASSUME NEW s \in Operation
          PROVE  [s EXCEPT !.pc = pc] \in Operation /\ [s EXCEPT !.new = new] \in Operation
      BY <2>2, <3>2, OperationUpdates
    <3>4. o \in Operation
      BY <1>1, <3>1, <3>3
    <3> QED
      BY <1>1, <3>4 DEF Operation
  <2> HIDE DEF o
  <2>5. /\ op' \in [Actors -> Operation] /\ \A y \in Actors \ {x} : op'[y] = op[y]
        /\ op'[x].pc = pc /\ op'[x].gen = op[x].gen /\ op'[x].auth = op[x].auth
        /\ op'[x].sid = op[x].sid /\ op'[x].tok = op[x].tok /\ op'[x].new = new
    BY <1>1, <2>3, <2>4, Becomes DEF o
  <2>6. TypesOK'
    <3>1. issued' \in 1..MaxTokens /\ live' \in SUBSET (1..issued')
      BY <1>1, <2>1, AccountAssumption DEF TypesOK
    <3>2. op'[Alarm].pc \in AlarmSteps
      BY <1>1, <2>5, Constants DEF TypesOK
    <3> QED
      BY <1>1, <2>5, <3>1, <3>2 DEF TypesOK
  <2>7. AgesOK' /\ StatusOK'
    BY <1>1, <2>5 DEF AgesOK, StatusOK, Siwc
  <2>10. NumbersOK' /\ Unread(issued + 1) /\ issued + 1 \notin shared
    BY <1>1, <2>1, <2>2, <2>5, <2>6, NumbersDrawn
  <2>11. \A y \in Actors : Turn(y)' = Turn(y)
    BY <1>1, <2>5 DEF Turn
  <2>12. TurnsOK' /\ RevocationsOK'
    BY <1>1, <2>5, <2>11 DEF TurnsOK, RevocationsOK, Sending, Presenting, Siwc
  <2>13. ASSUME NEW n \in live, n # op[x].tok.r
         PROVE  n \in live'
    BY <2>1, <2>13
  <2>14. IssuerOK'
    <3>1. ASSUME NEW y \in Actors, Drawn(y)', op'[y].new.r = op'[y].new.a, op'[y].new.r \notin shared
          PROVE  op'[y].new.r \in live'
      <4>1. CASE y = x
        BY <1>1, <2>1, <2>2, <2>5, <3>1, <4>1
      <4>2. CASE y # x
        <5>1. Drawn(y) /\ op'[y] = op[y]
          BY <2>5, <3>1, <4>2 DEF Drawn
        <5>2. op[y].new.r \in live /\ op[y].new.r # op[x].tok.r
          BY <3>1, <5>1 DEF IssuerOK, NumbersOK, OnItsWay, Unread
        <5> QED
          BY <2>13, <5>1, <5>2
      <4> QED
        BY <4>1, <4>2
    <3>2. ASSUME NEW y \in Actors, op'[y].pc \in {"answered", "stranger"}, op'[y].new.r = 0
          PROVE  op'[y].tok.r \in live' \cup shared /\ ~Siwc'
      <4>1. CASE y = x
        BY <1>1, <1>3, <2>1, <2>2, <2>5, <3>2, <4>1 DEF Siwc
      <4>2. CASE y # x
        <5>1. op[y].tok.r # op[x].tok.r \/ op[y].tok.r \in shared
          BY <1>1, <2>5, <3>2, <4>2 DEF TurnsOK, Presenting
        <5> QED
          BY <1>1, <2>5, <2>13, <3>2, <4>2, <5>1 DEF IssuerOK, Siwc
      <4> QED
        BY <4>1, <4>2
    <3>3. ASSUME NEW y \in Actors, op'[y].pc = "denied"
          PROVE  op'[y].tok.r \notin live'
      <4>1. y # x /\ op'[y] = op[y] /\ op[y].tok.r \notin live /\ op[y].tok.r <= issued
        BY <2>5, <3>3 DEF IssuerOK, NumbersOK
      <4>2. op[y].tok.r # issued + 1
        BY <1>1, <4>1
      <4> QED
        BY <2>1, <4>1, <4>2
    <3>4. acct'.session.tok.r # 0 /\ acct'.session.tok.r = acct'.session.tok.a => acct'.session.tok.r \in live'
      BY <1>1, <2>13 DEF IssuerOK, NumbersOK, Unread
    <3> QED
      BY <1>1, <3>1, <3>2, <3>3, <3>4 DEF IssuerOK
  <2>15. LatestToken'
    <3>1. CASE acct.tok.r = op[x].tok.r
      <4>1. op[x].gen = acct.gen \/ acct.tok.r \in shared
        BY <1>1, <3>1 DEF TurnsOK, Sending, Presenting
      <4> QED
        BY <1>1, <2>5, <3>1, <4>1 DEF LatestToken, At
    <3>2. CASE acct.tok.r # op[x].tok.r
      BY <1>1, <2>5, <2>13, <3>2 DEF LatestToken, At
    <3> QED
      BY <3>1, <3>2
  <2>16. ReplacementOK' /\ FencesOK' /\ StartsOK' /\ AlarmOK'
    <3>1. SessionStays
      BY <1>1, <2>5, Constants DEF SessionStays, Same, Starting, Signing
    <3> QED
      BY <2>6, <3>1, SessionFrame
  <2> QED
    BY <2>6, <2>7, <2>10, <2>12, <2>14, <2>15, <2>16
<1> QED
  BY <1>2, <1>3

-----------------------------------------------------------------------------
(* New generations. *)

\* The account is disconnected; an operation may go on to revoke its tokens.
LEMMA GenerationEnds ==
    ASSUME IInv, NEW x \in Actors, x # Alarm, op' \in [Actors -> Operation],
           \A y \in Actors \ {x} : op'[y] = op[y],
           acct' \in Account, acct'.gen = acct.gen + 1, acct'.auth = acct.auth + 1,
           acct'.status = "disconnected", acct'.mode = acct.mode, acct'.session = NoSession,
           acct'.tok \in {acct.tok, NoTok}, armed' = Open(acct'.session),
           UNCHANGED <<flight, queue, live, issued, lost, shared>>,
           op'[x].gen = op[x].gen, op'[x].auth = op[x].auth, op'[x].sid = op[x].sid,
           op'[x].tok \in {op[x].tok, acct.tok},
           \/ op'[x].pc = op[x].pc /\ op[x].pc = "idle"
           \/ op'[x].pc = "revoke" /\ Turn(x) /\ Siwc,
           acct'.tok.r = 0 \/ \A y \in Actors : op[y].pc \in Sending => op[y].gen # acct.gen
    PROVE  IInv'
<1> USE DEF IInv
<1>1. /\ acct.gen \in Nat /\ acct.auth \in Nat /\ NoSession.id = 0 /\ NoSession.tok = NoTok
      /\ NoSession.status = "none"
  BY AccountAssumption DEF TypesOK, Account, NoSession
<1>2. TypesOK'
  BY Constants DEF TypesOK, Open
<1>3. \A y \in Actors : op[y].gen \in Nat /\ op[y].auth \in Nat /\ op[y].sid \in Nat
  BY AccountAssumption DEF TypesOK, Operation
<1>4. AgesOK'
  BY <1>1, <1>3 DEF AgesOK
<1>5. StatusOK'
  BY <1>1, Constants DEF StatusOK
<1>6. NumbersOK'
  <2>1. \A y \in Actors : op[y].gen # acct'.gen
    BY <1>1, <1>3 DEF AgesOK
  <2>2. NumbersStay
    BY <1>1, <2>1 DEF NumbersStay, Drawn
  <2> QED
    BY <2>2, NumbersFrame
<1>7. TurnsOK'
  <2>1. \A y \in Actors : Turn(y)' = Turn(y)
    BY DEF Turn
  <2>2. \A y \in Actors : op'[y].pc \in Sending => op'[y] = op[y] /\ op[y].pc \in Sending
    BY DEF Sending, Presenting
  <2>3. \A y \in Actors : op[y].gen # acct'.gen
    BY <1>1, <1>3 DEF AgesOK
  <2>4. \A y \in Actors : op[y].pc \in Sending =>
           acct'.tok.r = 0 \/ op[y].tok.r # acct'.tok.r \/ acct'.tok.r \in shared'
    BY Constants DEF TurnsOK
  <2>5. \A y \in Actors : op'[y].pc \in Sending \cup {"revoke"} => Turn(y)'
    BY <2>1 DEF TurnsOK, Sending, Presenting
  <2>6. \A y, z \in Actors : /\ op'[y].pc \in Presenting => op'[y].tok.r # 0
                             /\ z # y /\ op'[y].pc \in Presenting /\ op'[z].pc \in Presenting
                                   => op'[y].tok.r # op'[z].tok.r \/ op'[y].tok.r \in shared'
    BY <2>2 DEF TurnsOK, Sending, Presenting
  <2> QED
    BY <2>2, <2>3, <2>4, <2>5, <2>6 DEF TurnsOK
<1>8. RevocationsOK'
  BY <1>1, <1>3 DEF RevocationsOK, AgesOK, Siwc
<1>9. IssuerOK' /\ LatestToken'
  BY <1>1, Constants DEF IssuerOK, LatestToken, Drawn, Siwc
<1>10. ReplacementOK' /\ FencesOK' /\ StartsOK' /\ AlarmOK'
  <2>1. \A y \in Actors : /\ op'[y].auth = op[y].auth /\ op'[y].sid = op[y].sid
                          /\ op'[y].pc \in Starting \cup Signing => op'[y] = op[y]
    BY DEF Starting, Signing
  <2>2. Supersedes
    BY <1>1, <2>1 DEF Supersedes, AgesOK
  <2> QED
    BY <1>2, <2>2, Superseded
<1> QED
  BY <1>2, <1>4, <1>5, <1>6, <1>7, <1>8, <1>9, <1>10

LEMMA DisconnectKeeps ==
    ASSUME IInv, NEW x \in Actors, Disconnect(x)
    PROVE  IInv'
<1>1. /\ x # Alarm /\ op[x].pc = "idle" /\ acct \in Account /\ op \in [Actors -> Operation]
      /\ acct.gen <= MaxAuth /\ UNCHANGED <<flight, live, issued, lost, shared, blamed>>
  BY AccountAssumption DEF IInv, TypesOK, Disconnect, At
<1>2. CASE Siwc
  <2> DEFINE r == [Idle EXCEPT !.pc = "disconnect", !.gen = acct.gen]
  <2>1. /\ queue' = [queue EXCEPT ![acct.gen] = Append(@, x)] /\ op' = [op EXCEPT ![x] = r]
        /\ UNCHANGED <<acct, armed>>
    BY <1>2 DEF Disconnect
  <2>2. r \in Operation
    <3>1. "disconnect" \in Steps /\ acct.gen \in 0..MaxAuth + 1 /\ 0 \in Nat
      BY <1>1 DEF Steps, Account
    <3> QED
      BY <3>1, Constants, MadeOperations
  <2>3. r.pc = "disconnect" /\ r.gen = acct.gen /\ r.auth = 0 /\ r.sid = 0 /\ r.tok = NoTok
    BY DEF Idle
  <2> HIDE DEF r
  <2>4. op' \in [Actors -> Operation] /\ op'[x] = r /\ \A y \in Actors \ {x} : op'[y] = op[y]
    BY <1>1, <2>1, <2>2, Becomes
  <2>5. queue' \in [0..MaxAuth + 1 -> Seq(Actors)] /\ LineStays
    <3>1. acct.gen \in 0..MaxAuth + 1 /\ queue \in [0..MaxAuth + 1 -> Seq(Actors)]
      BY <1>1 DEF Account, IInv, TypesOK
    <3> QED
      BY <2>1, <3>1, QueueGrows DEF LineStays
  <2>6. TypesOK'
    BY <1>1, <2>1, <2>4, <2>5, Constants DEF IInv, TypesOK
  <2>7. AgesOK' /\ StatusOK'
    <3>1. acct.gen <= acct.gen /\ 0 <= acct.auth
      BY <1>1, AccountAssumption DEF Account
    <3> QED
      BY <2>1, <2>3, <2>4, <3>1 DEF IInv, AgesOK, StatusOK, Siwc
  <2>8. NumbersOK' /\ TurnsOK' /\ RevocationsOK' /\ IssuerOK' /\ LatestToken'
    <3>1. Bystander(x)
      BY <1>1, <1>2, <2>3, <2>4 DEF Bystander, Sending, Presenting, Siwc
    <3>2. TokensStay
      BY <1>1, <2>1, <2>4, <2>5, <3>1, Bystanders DEF TokensStay, IInv
    <3> QED
      BY <2>6, <3>2, TokensFrame DEF IInv
  <2>9. ReplacementOK' /\ FencesOK' /\ StartsOK' /\ AlarmOK'
    <3>1. SessionStays
      BY <1>1, <2>1, <2>3, <2>4, Constants DEF SessionStays, Same, Starting, Signing
    <3> QED
      BY <2>6, <3>1, SessionFrame DEF IInv
  <2> QED
    BY <2>6, <2>7, <2>8, <2>9 DEF IInv
<1>3. CASE ~Siwc
  <2>1. /\ acct' = [acct EXCEPT !.gen = @ + 1, !.auth = @ + 1, !.tok = NoTok,
                                !.session = NoSession, !.status = "disconnected"]
        /\ armed' = Open(acct'.session) /\ UNCHANGED <<op, queue>>
    BY <1>3 DEF Disconnect, Commit, AlarmOf
  <2>2. /\ acct' \in Account /\ acct'.gen = acct.gen + 1 /\ acct'.auth = acct.auth + 1 /\ acct'.tok = NoTok
        /\ acct'.status = "disconnected" /\ acct'.mode = acct.mode /\ acct'.session = NoSession
    BY <1>1, <2>1, Constants, DisconnectedIs
  <2> QED
    BY <1>1, <2>1, <2>2, Constants, GenerationEnds
<1> QED
  BY <1>2, <1>3

LEMMA BlockKeeps ==
    ASSUME IInv, NEW x \in Actors, Block(x)
    PROVE  IInv'
<1>1. /\ x # Alarm /\ op[x].pc = "disconnect" /\ Turn(x) /\ acct \in Account /\ op \in [Actors -> Operation]
      /\ Siwc /\ UNCHANGED <<live, issued, lost, shared, blamed>>
  BY DEF IInv, TypesOK, Block, At, AlarmSteps, RevocationsOK
<1>2. CASE acct.gen # op[x].gen
  <2>1. Left(x)
    BY <1>1, <1>2, Leaves DEF Block, IInv
  <2> QED
    BY <1>1, <1>2, <2>1, LeaverKeeps DEF Block
<1>3. CASE acct.gen = op[x].gen
  <2>1. /\ acct' = [acct EXCEPT !.gen = @ + 1, !.auth = @ + 1, !.session = NoSession, !.status = "disconnected"]
        /\ armed' = Open(acct'.session) /\ acct.gen <= MaxAuth /\ UNCHANGED <<flight, queue>>
        /\ op' = [op EXCEPT ![x].pc = "revoke", ![x].tok = acct.tok]
    BY <1>3 DEF Block, Commit, AlarmOf
  <2>2. /\ acct' \in Account /\ acct'.gen = acct.gen + 1 /\ acct'.auth = acct.auth + 1 /\ acct'.tok = acct.tok
        /\ acct'.status = "disconnected" /\ acct'.mode = acct.mode /\ acct'.session = NoSession
    <3>1. acct.tok \in Tok
      BY <1>1 DEF Account
    <3>2. acct' = [acct EXCEPT !.gen = @ + 1, !.auth = @ + 1, !.tok = acct.tok,
                               !.session = NoSession, !.status = "disconnected"]
      BY <1>1, <2>1, BlockedIs
    <3>3. acct \in Account /\ acct.gen <= MaxAuth
      BY <1>1, <2>1
    <3> QED
      BY <3>1, <3>2, <3>3, DisconnectedIs
  <2> DEFINE r == [op[x] EXCEPT !.pc = "revoke", !.tok = acct.tok]
  <2>3. op[x] \in Operation /\ acct.tok \in Tok /\ "revoke" \in Steps
    BY <1>1 DEF Account, Steps
  <2>4. r \in Operation
    <3>1. r = [[op[x] EXCEPT !.pc = "revoke"] EXCEPT !.tok = acct.tok]
      BY <2>3 DEF Operation
    <3>2. ASSUME NEW s \in Operation
          PROVE  [s EXCEPT !.pc = "revoke"] \in Operation /\ [s EXCEPT !.tok = acct.tok] \in Operation
      BY <2>3, OperationUpdates
    <3> QED
      BY <2>3, <3>1, <3>2
  <2>5. /\ r.pc = "revoke" /\ r.tok = acct.tok /\ r.gen = op[x].gen /\ r.auth = op[x].auth
        /\ r.sid = op[x].sid
    BY <2>3 DEF Operation
  <2>6. op' = [op EXCEPT ![x] = r]
    BY <1>1, <2>1
  <2> HIDE DEF r
  <2>7. op' \in [Actors -> Operation] /\ op'[x] = r /\ \A y \in Actors \ {x} : op'[y] = op[y]
    BY <1>1, <2>4, <2>6, Becomes
  <2>8. \A y \in Actors : op[y].pc \in Sending => op[y].gen # acct.gen
    BY <1>1, <1>3, OneInLine DEF IInv, TurnsOK, Sending, Presenting
  <2> QED
    BY <1>1, <2>1, <2>2, <2>5, <2>7, <2>8, GenerationEnds
<1> QED
  BY <1>2, <1>3

\* The authorization is complete: its tokens become the account's, with the
\* refresh token they came with or the one that they inherit.  A repeated one
\* that they came with is shared from now on.
LEMMA InstallKeeps ==
    ASSUME IInv, NEW t \in Tok, acct.session.status = "initializing", acct.gen <= MaxAuth,
           Commit(Installed(t)), Done(Alarm), UNCHANGED <<flight, live, issued, lost>>,
           queue' \in [0..MaxAuth + 1 -> Seq(Actors)],
           \A y \in Actors \ {Alarm} : op'[y] = op[y] => (Turn(y) => Turn(y)'),
           t.a = acct.session.tok.a, Siwc \/ t.r # 0,
           \/ /\ t = acct.session.tok
              /\ shared' = IF t.r \in {0, t.a} THEN shared ELSE shared \cup {t.r}
           \/ /\ t.r = acct.tok.r /\ acct.status = "ready" /\ shared' = shared
              /\ \A y \in Actors : op[y].pc \in Sending => op[y].gen # acct.gen
    PROVE  IInv'
<1> USE DEF IInv
<1>1. /\ acct \in Account /\ op \in [Actors -> Operation] /\ Alarm \in Actors
      /\ acct.gen \in Nat /\ acct.auth \in Nat
  BY Constants, AccountAssumption DEF TypesOK, Account
<1>2. /\ acct' \in Account /\ acct'.gen = acct.gen + 1 /\ acct'.auth = acct.auth + 1 /\ acct'.tok = t
      /\ acct'.status = "ready" /\ acct'.mode = acct.mode /\ armed' = Open(acct'.session)
      /\ acct'.session.id = acct.session.id /\ acct'.session.status = "complete"
      /\ acct'.session.tok = NoTok
  <2>1. acct' = Installed(t) /\ armed' = Open(acct'.session)
    BY DEF Commit, AlarmOf
  <2> QED
    BY <1>1, <2>1, InstalledIs
<1>3. op' \in [Actors -> Operation] /\ op'[Alarm] = Idle /\ \A y \in Actors \ {Alarm} : op'[y] = op[y]
  BY <1>1, IsDone
<1>4. \A y \in Actors \ {Alarm} : Turn(y) => Turn(y)'
  BY <1>3
<1>5. /\ t.a # 0 /\ Unread(t.a) /\ t.a \notin shared /\ t.a <= issued /\ t.r <= issued /\ t.r \in Nat
      /\ issued \in Nat /\ issued' = issued /\ shared \in SUBSET shared'
      /\ \A n \in shared' : n \in 1..issued
  <2>1. t.a # 0 /\ Unread(t.a) /\ t.a \notin shared /\ t.a <= issued /\ t.r \in Nat /\ issued \in Nat
    BY AccountAssumption DEF TypesOK, StatusOK, NumbersOK, Tok
  <2>2. t.r <= issued
    BY <2>1 DEF NumbersOK, Whole, Repeatable
  <2> QED
    BY <2>1, <2>2 DEF NumbersOK
\* Whose number the refresh token is.
<1>r. \/ t.r = 0 \/ t.r = t.a
      \/ /\ t.r \in shared'
         /\ \A y \in Actors : op[y].pc \in {"stranger", "granted"} => op[y].new.a # t.r
      \/ t.r = acct.tok.r /\ acct.status = "ready" /\ \A y \in Actors : op[y].pc \in Sending => op[y].gen # acct.gen
  BY DEF NumbersOK, Whole, Repeatable
<1>6. TypesOK'
  BY <1>2, <1>3, IdleFields DEF TypesOK, AlarmSteps, Open
<1>7. \A y \in Actors : op[y].gen \in Nat /\ op[y].auth \in Nat /\ op[y].sid \in Nat
  BY <1>1, AccountAssumption DEF Operation
<1>8. AgesOK'
  <2>1. acct.session.id \in Nat
    BY <1>1, AccountAssumption DEF Account, Session
  <2> QED
    BY <1>1, <1>2, <1>3, <1>7, <2>1, IdleFields DEF AgesOK
<1>9. StatusOK'
  BY <1>2, <1>5, Constants DEF StatusOK, Siwc
<1>10. NumbersOK'
  <2>1. ASSUME NEW n, Unread(n), n \notin {t.a, t.r}
        PROVE  n = 0 \/ Unread(n)'
    BY <1>2, <1>3, <2>1, Constants, IdleFields DEF Unread
  <2>2. \A y \in Actors : Drawn(y)' => y # Alarm /\ op'[y] = op[y] /\ Drawn(y)
    BY <1>3, IdleFields DEF Drawn
  <2>3. acct'.tok.a <= issued' /\ acct'.tok.r <= issued' /\ acct'.session.tok.a <= issued'
        /\ acct'.session.tok.a = 0 /\ acct'.session.tok.r = 0
    BY <1>2, <1>5, Constants DEF NumbersOK
  <2>4. \A y \in Actors : op'[y].tok.a <= issued' /\ op'[y].tok.r <= issued'
    BY <1>3, <1>5, IdleFields, Constants DEF NumbersOK
  <2>5. ASSUME NEW u \in Tok, Whole(u)
        PROVE  Whole(u)'
    BY <1>5, <2>2, <2>3, <2>5 DEF Whole, Repeatable, Drawn
  <2>6. ASSUME NEW y \in Actors, Drawn(y)'
        PROVE  /\ op'[y].new.a \in 1..issued' /\ OnItsWay(y)' /\ op'[y].new.a # acct'.session.tok.a
               /\ Whole(op[y].new)' /\ (op'[y].pc # "granted" => op'[y].new.r \in {0, op'[y].new.a})
    <3>1. /\ Drawn(y) /\ op'[y] = op[y] /\ op[y].new.a \in 1..issued /\ OnItsWay(y) /\ Whole(op[y].new)
          /\ op[y].new.a # t.a /\ (op[y].pc # "granted" => op[y].new.r \in {0, op[y].new.a})
          /\ op[y].new \in Tok /\ op[y].gen # acct'.gen
      <4>1. Drawn(y) /\ op'[y] = op[y]
        BY <2>2, <2>6
      <4>2. /\ op[y].new.a \in 1..issued /\ OnItsWay(y) /\ Whole(op[y].new)
            /\ op[y].new.a # t.a /\ (op[y].pc # "granted" => op[y].new.r \in {0, op[y].new.a})
        BY <4>1 DEF NumbersOK
      <4>3. op[y].new \in Tok
        BY <1>1 DEF Operation
      <4>4. op[y].gen # acct'.gen
        BY <1>1, <1>2, <1>7 DEF AgesOK
      <4> QED
        BY <4>1, <4>2, <4>3, <4>4
    <3>2. OnItsWay(y)'
      <4>1. CASE At(y, "answered") /\ op[y].new.a \in shared
        BY <1>5, <3>1, <4>1 DEF OnItsWay, At
      <4>2. CASE Unread(op[y].new.a) /\ op[y].new.a \notin shared
        <5>1. CASE op[y].new.a = t.r
          <6>1. t.r \in shared' /\ op[y].pc = "answered"
            BY <1>r, <3>1, <4>2, <5>1 DEF Unread, Drawn
          <6> QED
            BY <3>1, <5>1, <6>1 DEF OnItsWay, At
        <5>2. CASE op[y].new.a # t.r
          <6>1. Unread(op[y].new.a)'
            BY <2>1, <3>1, <4>2, <5>2
          <6>2. op[y].new.a \notin shared'
            BY <4>2, <5>2
          <6> QED
            BY <3>1, <6>1, <6>2 DEF OnItsWay
        <5> QED
          BY <5>1, <5>2
      <4> QED
        BY <3>1, <4>1, <4>2 DEF OnItsWay
    <3>3. Whole(op[y].new)'
      <4>1. PICK u \in Tok : u = op[y].new
        BY <3>1
      <4>2. Whole(u)' /\ op'[y].new = u
        BY <2>5, <3>1, <4>1
      <4> QED
        BY <4>2 DEF Whole
    <3> QED
      BY <1>5, <2>3, <3>1, <3>2, <3>3
  <2>7. \A y, z \in Actors : Drawn(y)' /\ Drawn(z)' /\ y # z => op'[y].new.a # op'[z].new.a
    BY <2>2 DEF NumbersOK
  <2>8. \A y \in Actors : op'[y].tok.a # acct'.tok.a
    BY <1>2, <1>3, <1>5, Constants, IdleFields DEF Unread
  <2>9. Whole(acct.session.tok)' /\ \A n \in shared' : n \in 1..issued'
    BY <1>5, <2>3 DEF Whole
  <2> QED
    BY <2>3, <2>4, <2>6, <2>7, <2>8, <2>9 DEF NumbersOK
<1>11. TurnsOK'
  <2>1. \A y \in Actors : op'[y].pc \in Sending \cup {"revoke"} => y # Alarm /\ op'[y] = op[y]
    BY <1>3, IdleFields DEF Sending, Presenting
  <2>2. \A y \in Actors : op'[y].pc \in Sending \cup {"revoke"} => Turn(y)'
    BY <1>4, <2>1 DEF TurnsOK
  <2>3. \A y \in Actors : op[y].gen # acct'.gen
    BY <1>1, <1>2, <1>7 DEF AgesOK
  <2>4. \A y \in Actors : op[y].pc \in Sending =>
           acct'.tok.r = 0 \/ op[y].tok.r # acct'.tok.r \/ acct'.tok.r \in shared'
    BY <1>2, <1>5, <1>r DEF TurnsOK, Unread
  <2>5. \A y, z \in Actors : /\ op'[y].pc \in Presenting => op'[y].tok.r # 0
                             /\ z # y /\ op'[y].pc \in Presenting /\ op'[z].pc \in Presenting
                                   => op'[y].tok.r # op'[z].tok.r \/ op'[y].tok.r \in shared'
    BY <1>5, <2>1 DEF TurnsOK, Sending, Presenting
  <2> QED
    BY <2>1, <2>2, <2>3, <2>4, <2>5 DEF TurnsOK
<1>12. RevocationsOK'
  <2>1. ASSUME NEW y \in Actors, op'[y].pc = "revoke"
        PROVE  /\ op'[y] = op[y] /\ Siwc /\ op[y].gen < acct.gen
               /\ acct'.tok.r = 0 \/ acct'.tok.r # op[y].tok.r \/ acct'.tok.r \in shared'
    BY <1>2, <1>3, <1>5, <1>r, <2>1, IdleFields DEF RevocationsOK, Unread
  <2>2. \A y \in Actors : op'[y].pc = "disconnect" => Siwc
    BY <1>3, IdleFields DEF RevocationsOK
  <2> QED
    BY <1>1, <1>2, <1>7, <2>1, <2>2 DEF RevocationsOK, Siwc
<1>13. IssuerOK'
  BY <1>2, <1>3, <1>5, Constants, IdleFields DEF IssuerOK, Drawn, Siwc
<1>14. LatestToken'
  <2>1. acct'.tok.r \in live' \cup lost' \cup shared' \cup {0}
    <3>1. CASE t = acct.session.tok /\ t.r = t.a
      BY <1>2, <3>1 DEF IssuerOK
    <3>2. CASE /\ t.r = acct.tok.r /\ acct.status = "ready"
               /\ \A y \in Actors : op[y].pc \in Sending => op[y].gen # acct.gen
      BY <1>2, <1>5, <3>2 DEF LatestToken, At, Sending, Presenting
    <3>3. CASE t.r \in shared' \/ t.r = 0
      BY <1>2, <3>3
    <3> QED
      BY <3>1, <3>2, <3>3
  <2> QED
    BY <2>1 DEF LatestToken
<1>15. ReplacementOK' /\ FencesOK' /\ StartsOK' /\ AlarmOK'
  <2>1. \A y \in Actors : op[y].pc \in Starting => op[y].sid # acct.session.id
    BY DEF StartsOK
  <2>2. Supersedes
    BY <1>1, <1>2, <1>3, <2>1, IdleFields DEF Supersedes, AgesOK, Starting, Signing
  <2> QED
    BY <1>6, <2>2, Superseded
<1> QED
  BY <1>6, <1>8, <1>9, <1>10, <1>11, <1>12, <1>13, <1>14, <1>15

\* What the alarm took from the session, checked against what it has read.
Inherited == IF Siwc THEN op[Alarm].new ELSE Owned(op[Alarm].new, {op[Alarm].tok.r})

LEMMA InheritedIs ==
    ASSUME TypesOK
    PROVE  /\ Inherited \in Tok /\ Inherited.a = op[Alarm].new.a
           /\ Siwc \/ Inherited.r # 0 => Inherited = op[Alarm].new
<1>1. op[Alarm].new \in Tok
  BY Constants DEF TypesOK, Operation
<1>2. LET o == [op[Alarm].new EXCEPT !.r = 0] IN
      o \in Tok /\ o.a = op[Alarm].new.a /\ o.r = 0
  BY <1>1, AccountAssumption DEF Tok
<1> QED
  BY <1>1, <1>2 DEF Inherited, Owned

LEMMA InitializeKeeps ==
    ASSUME IInv, Initialize
    PROVE  IInv'
<1>1. /\ acct \in Account /\ op \in [Actors -> Operation] /\ Alarm \in Actors
      /\ op[Alarm].pc = "initialize" /\ acct.gen <= MaxAuth
      /\ UNCHANGED <<flight, live, issued, lost, blamed>> /\ op[Alarm] \in Operation
  BY Constants DEF IInv, TypesOK, Initialize, At
<1>2. Inherited \in Tok /\ Inherited.a = op[Alarm].new.a
  BY InheritedIs DEF IInv
<1>3. CASE Inherited.r # 0 \/ (Siwc /\ op[Alarm].tok.r = 0)
  <2>1. UNCHANGED queue
    BY <1>3 DEF Initialize, Inherited
  <2>2. CASE Installable(Alarm)
    <3> DEFINE t == IF Inherited.r # 0 THEN Inherited ELSE [Inherited EXCEPT !.r = acct.tok.r]
    <3>1. /\ Commit(Installed(t)) /\ Done(Alarm)
          /\ shared' = IF Inherited.r \in {0, Inherited.a} THEN shared ELSE shared \cup {Inherited.r}
      BY <1>3, <2>2 DEF Initialize, Inherited
    <3>2. acct.session.status = "initializing" /\ op[Alarm].new = acct.session.tok
          /\ (Siwc /\ op[Alarm].tok.r = 0 => acct.tok.r = 0)
      BY <1>1, <2>2 DEF Installable, IInv, ReplacementOK
    <3>3. Inherited = acct.session.tok
      BY <1>3, <3>2, InheritedIs DEF IInv
    <3>4. t = acct.session.tok /\ (Siwc \/ t.r # 0)
      <4>1. CASE Inherited.r # 0
        BY <3>3, <4>1
      <4>2. CASE Inherited.r = 0
        <5>1. acct.tok.r = 0 /\ Siwc
          BY <1>3, <3>2, <4>2
        <5>2. [Inherited EXCEPT !.r = 0] = Inherited
          BY <1>2, <4>2 DEF Tok
        <5> QED
          BY <3>3, <4>2, <5>1, <5>2
      <4> QED
        BY <4>1, <4>2
    <3> HIDE DEF t
    <3>5. /\ t \in Tok /\ t.a = acct.session.tok.a
          /\ shared' = IF t.r \in {0, t.a} THEN shared ELSE shared \cup {t.r}
      BY <1>2, <3>1, <3>3, <3>4
    <3>6. /\ queue' \in [0..MaxAuth + 1 -> Seq(Actors)]
          /\ \A y \in Actors \ {Alarm} : op'[y] = op[y] => (Turn(y) => Turn(y)')
      BY <2>1 DEF IInv, TypesOK, Turn
    <3> QED
      BY <1>1, <3>1, <3>2, <3>4, <3>5, <3>6, InstallKeeps
  <2>3. CASE ~Installable(Alarm)
    <3>1. Goto(Alarm, "fail") /\ UNCHANGED <<acct, armed, shared>> /\ "initialize" \in Signing
      BY <1>3, <2>3 DEF Initialize, Inherited, Signing
    <3> QED
      BY <1>1, <2>1, <3>1, GivesUp
  <2> QED
    BY <2>2, <2>3
<1>4. CASE ~(Inherited.r # 0 \/ (Siwc /\ op[Alarm].tok.r = 0))
  <2> DEFINE w == IF flight.gen = acct.gen THEN flight.owner ELSE Alarm
  <2> DEFINE o == [op[Alarm] EXCEPT !.pc = "inherit", !.gen = acct.gen, !.new = Inherited, !.wait = w]
  <2>1. /\ queue' = [queue EXCEPT ![acct.gen] = Append(@, Alarm)] /\ UNCHANGED <<acct, armed, shared>>
        /\ op' = [op EXCEPT ![Alarm].pc = "inherit", ![Alarm].gen = acct.gen, ![Alarm].new = Inherited,
                            ![Alarm].wait = w]
    BY <1>4 DEF Initialize, Inherited
  <2>2. op' = [op EXCEPT ![Alarm] = o]
    BY <1>1, <2>1
  <2>3. w \in Actors /\ "inherit" \in Steps /\ acct.gen \in 0..MaxAuth + 1
    BY <1>1 DEF IInv, TypesOK, Steps, Signing, Account
  <2> HIDE DEF w
  <2>4. o \in Operation
    <3>1. o = [[[[op[Alarm] EXCEPT !.pc = "inherit"] EXCEPT !.gen = acct.gen] EXCEPT !.new = Inherited]
                  EXCEPT !.wait = w]
      BY <1>1 DEF Operation
    <3>2. ASSUME NEW s \in Operation
          PROVE  /\ [s EXCEPT !.pc = "inherit"] \in Operation /\ [s EXCEPT !.gen = acct.gen] \in Operation
                 /\ [s EXCEPT !.new = Inherited] \in Operation /\ [s EXCEPT !.wait = w] \in Operation
      BY <1>2, <2>3, OperationUpdates
    <3> QED
      BY <1>1, <3>1, <3>2
  <2>5. /\ o.pc = "inherit" /\ o.gen = acct.gen /\ o.new = Inherited /\ o.auth = op[Alarm].auth
        /\ o.sid = op[Alarm].sid /\ o.tok = op[Alarm].tok
    BY <1>1 DEF Operation
  <2> HIDE DEF o
  <2>6. op' \in [Actors -> Operation] /\ op'[Alarm] = o /\ \A y \in Actors \ {Alarm} : op'[y] = op[y]
    BY <1>1, <2>2, <2>4, Becomes
  <2>7. queue' \in [0..MaxAuth + 1 -> Seq(Actors)] /\ LineStays
    <3>1. queue \in [0..MaxAuth + 1 -> Seq(Actors)]
      BY DEF IInv, TypesOK
    <3> QED
      BY <1>1, <2>1, <2>3, <3>1, QueueGrows DEF LineStays
  <2>8. TypesOK'
    BY <1>1, <2>1, <2>5, <2>6, <2>7 DEF IInv, TypesOK, AlarmSteps
  <2>9. AgesOK' /\ StatusOK'
    <3>1. acct.gen <= acct.gen
      BY <1>1, AccountAssumption DEF Account
    <3> QED
      BY <2>1, <2>5, <2>6, <3>1 DEF IInv, AgesOK, StatusOK, Siwc
  <2>10. NumbersOK' /\ TurnsOK' /\ RevocationsOK' /\ IssuerOK' /\ LatestToken'
    <3>1. Bystander(Alarm)
      BY <1>1, <2>5, <2>6 DEF Bystander, Sending, Presenting
    <3>2. TokensStay
      BY <1>1, <2>1, <2>6, <2>7, <3>1, Bystanders DEF TokensStay, IInv
    <3> QED
      BY <2>8, <3>2, TokensFrame DEF IInv
  <2>11. FencesOK' /\ StartsOK'
    <3>1. OneWorks(Alarm)
      BY <1>1, <2>1, <2>5, <2>6 DEF OneWorks, Starting, Signing, IInv, FencesOK, Fenced
    <3> QED
      BY <1>1, <2>8, <3>1, OneWorker DEF IInv
  <2>12. ReplacementOK'
    BY <1>1, <1>2, <2>1, <2>5, <2>6 DEF IInv, ReplacementOK, Fenced
  <2>13. AlarmOK'
    BY <1>1, <2>1, <2>5, <2>6 DEF IInv, AlarmOK, At, Fenced, Open
  <2> QED
    BY <2>8, <2>9, <2>10, <2>11, <2>12, <2>13 DEF IInv
<1> QED
  BY <1>3, <1>4

LEMMA InheritKeeps ==
    ASSUME IInv, Inherit
    PROVE  IInv'
<1>1. /\ acct \in Account /\ op \in [Actors -> Operation] /\ Alarm \in Actors
      /\ op[Alarm].pc = "inherit" /\ Turn(Alarm) /\ acct.gen <= MaxAuth
      /\ UNCHANGED <<flight, live, issued, lost, shared, blamed>> /\ op[Alarm] \in Operation
  BY Constants DEF IInv, TypesOK, Inherit, At
<1>2. queue' \in [0..MaxAuth + 1 -> Seq(Actors)]
      /\ \A h \in 0..MaxAuth + 1 : h # op[Alarm].gen => queue'[h] = queue[h]
  <2>1. op[Alarm].gen \in 0..MaxAuth + 1 /\ queue[op[Alarm].gen] # <<>>
        /\ queue \in [0..MaxAuth + 1 -> Seq(Actors)]
    BY <1>1 DEF Operation, Turn, IInv, TypesOK
  <2> QED
    BY <2>1, QueueShrinks DEF Inherit
<1>3. ASSUME NEW y \in Actors \ {Alarm}, op'[y] = op[y], Turn(y)
      PROVE  Turn(y)'
  <2>1. op[y].gen \in 0..MaxAuth + 1 /\ op[y].gen # op[Alarm].gen
    BY <1>1, <1>3, OneInLine DEF Operation
  <2> QED
    BY <1>2, <1>3, <2>1 DEF Turn
<1>4. CASE ~op[Alarm].broken /\ Installable(Alarm) /\ acct.status = "ready" /\ acct.tok.r # 0
  <2> DEFINE t == [a |-> op[Alarm].new.a, r |-> acct.tok.r]
  <2>1. Commit(Installed(t)) /\ Done(Alarm)
    BY <1>4 DEF Inherit
  <2>2. /\ acct.session.status = "initializing" /\ op[Alarm].new.a = acct.session.tok.a
        /\ op[Alarm].gen = acct.gen
    BY <1>1, <1>4 DEF Installable, IInv, ReplacementOK
  <2>3. t \in Tok /\ t.a = acct.session.tok.a /\ t.r = acct.tok.r
    <3>1. op[Alarm].new \in Tok /\ acct.tok \in Tok
      BY <1>1 DEF Operation, Account
    <3> QED
      BY <2>2, <3>1 DEF Tok
  <2> HIDE DEF t
  <2>4. \A y \in Actors : op[y].pc \in Sending => op[y].gen # acct.gen
    BY <1>1, <2>2, OneInLine DEF IInv, TurnsOK, Sending, Presenting
  <2>5. \A y \in Actors \ {Alarm} : op'[y] = op[y] => (Turn(y) => Turn(y)')
    BY <1>3
  <2> QED
    BY <1>1, <1>2, <1>4, <2>1, <2>2, <2>3, <2>4, <2>5, InstallKeeps
<1>5. CASE ~(~op[Alarm].broken /\ Installable(Alarm) /\ acct.status = "ready" /\ acct.tok.r # 0)
  <2>1. Goto(Alarm, "fail") /\ UNCHANGED <<acct, armed>> /\ "fail" \in Steps
    BY <1>5 DEF Inherit, Steps, Signing
  <2>2. /\ op' \in [Actors -> Operation] /\ \A y \in Actors \ {Alarm} : op'[y] = op[y]
        /\ op'[Alarm].pc = "fail" /\ op'[Alarm].gen = op[Alarm].gen /\ op'[Alarm].auth = op[Alarm].auth
        /\ op'[Alarm].sid = op[Alarm].sid /\ op'[Alarm].tok = op[Alarm].tok
    BY <1>1, <2>1, GoesTo
  <2>3. TypesOK'
    BY <1>1, <1>2, <2>1, <2>2 DEF IInv, TypesOK, AlarmSteps
  <2>4. AgesOK' /\ StatusOK'
    BY <2>1, <2>2 DEF IInv, AgesOK, StatusOK, Siwc
  <2>5. NumbersOK' /\ TurnsOK' /\ RevocationsOK' /\ IssuerOK' /\ LatestToken'
    <3>1. Bystander(Alarm)
      BY <1>1, <2>2 DEF Bystander, Sending, Presenting
    <3>2. ASSUME NEW y \in Actors \ {Alarm}
          PROVE  Bystander(y)
      BY <1>3, <2>2 DEF Bystander, Same, IInv, RevocationsOK, Siwc
    <3>3. TokensStay
      BY <1>1, <2>1, <3>1, <3>2 DEF TokensStay
    <3> QED
      BY <2>3, <3>3, TokensFrame DEF IInv
  <2>6. FencesOK' /\ StartsOK'
    <3>1. OneWorks(Alarm)
      BY <1>1, <2>1, <2>2 DEF OneWorks, Starting, Signing, IInv, FencesOK, Fenced
    <3> QED
      BY <1>1, <2>3, <3>1, OneWorker DEF IInv
  <2>7. ReplacementOK' /\ AlarmOK'
    BY <1>1, <2>1, <2>2 DEF IInv, ReplacementOK, AlarmOK, At, Fenced, Open
  <2> QED
    BY <2>3, <2>4, <2>5, <2>6, <2>7 DEF IInv
<1> QED
  BY <1>4, <1>5

LEMMA ExchangedKeeps ==
    ASSUME IInv, NEW x \in Actors, Exchanged(x)
    PROVE  IInv'
<1> DEFINE installs == /\ Fenced(x) /\ acct.session.status = "exchanging"
                       /\ ~acct.session.expired \/ acct.session.flow = "device"
<1>1. /\ acct \in Account /\ op \in [Actors -> Operation] /\ op[x].pc = "granted"
      /\ op[x].new \in Tok /\ UNCHANGED <<flight, queue, live, issued, lost, shared, blamed>>
  <2>1. acct \in Account /\ op \in [Actors -> Operation] /\ op[x].pc = "granted"
        /\ UNCHANGED <<flight, queue, live, issued, lost, shared, blamed>>
    BY DEF IInv, TypesOK, Exchanged, At
  <2> QED
    BY <2>1 DEF Operation
<1>2. CASE installs
  <2> DEFINE t == Owned(op[x].new, {op[x].tok.r, acct.tok.r})
  <2>1. /\ op[x].new.a \in 1..issued /\ Unread(op[x].new.a) /\ op[x].new.a # acct.session.tok.a
        /\ op[x].new.a \notin shared /\ Whole(op[x].new)
    BY <1>1 DEF IInv, NumbersOK, Drawn, OnItsWay, At
  <2>2. t \in Tok /\ t.a = op[x].new.a /\ t.r \in {0, op[x].new.r}
    BY <1>1, AccountAssumption DEF Owned, Tok
  <2>3. /\ acct' = [acct EXCEPT !.session.status = "initializing", !.session.tok = t]
        /\ armed' = Open(acct'.session) /\ Done(x)
    BY <1>2 DEF Exchanged, Commit, AlarmOf
  <2> HIDE DEF t
  <2>4. /\ acct' \in Account /\ acct'.gen = acct.gen /\ acct'.auth = acct.auth /\ acct'.tok = acct.tok
        /\ acct'.status = acct.status /\ acct'.mode = acct.mode
        /\ acct'.session.id = acct.session.id /\ acct'.session.status = "initializing"
        /\ acct'.session.tok = t
    BY <1>1, <2>2, <2>3, ExchangedIs
  <2>5. op' \in [Actors -> Operation] /\ op'[x] = Idle /\ \A y \in Actors \ {x} : op'[y] = op[y]
    BY <1>1, <2>3, IsDone
  <2>6. TypesOK'
    <3>1. op'[Alarm].pc \in AlarmSteps
      BY <2>5, Constants, IdleFields DEF IInv, TypesOK, AlarmSteps
    <3>2. armed' \in BOOLEAN
      BY <2>3 DEF Open
    <3> QED
      BY <1>1, <2>4, <2>5, <3>1, <3>2 DEF IInv, TypesOK
  <2>7. AgesOK'
    <3>1. 0 <= acct.gen /\ 0 <= acct.auth
      BY <1>1 DEF Account
    <3> QED
      BY <2>4, <2>5, <3>1, IdleFields DEF IInv, AgesOK
  <2>8. issued \in Nat /\ t.a # 0 /\ t # NoTok
    <3>1. issued \in Nat
      BY DEF IInv, TypesOK
    <3> QED
      BY <2>1, <2>2, <3>1, Constants
  <2>9. StatusOK'
    <3>1. acct.session.id # 0
      BY <1>2 DEF IInv, StatusOK
    <3> QED
      BY <2>1, <2>4, <2>8, <3>1 DEF IInv, StatusOK, Siwc
  <2>10. NumbersOK'
    <3>1. \A n : Unread(n) => n = 0 \/ Unread(n)'
      BY <2>4, <2>5, Constants, IdleFields DEF Unread
    <3>2. \A y \in Actors : Drawn(y)' => y # x /\ Drawn(y) /\ op'[y] = op[y]
      BY <2>5, IdleFields DEF Drawn
    <3>3. acct'.tok.a <= issued' /\ acct'.tok.r <= issued' /\ acct'.session.tok.a <= issued'
      BY <1>1, <2>1, <2>2, <2>4, <2>8 DEF IInv, NumbersOK
    <3>4. \A y \in Actors : op'[y].tok.a <= issued' /\ op'[y].tok.r <= issued'
      BY <1>1, <2>5, <2>8, Constants, IdleFields DEF IInv, NumbersOK
    <3>5. Unread(acct.session.tok.a)' /\ acct'.session.tok.a \notin shared'
      BY <1>1, <2>1, <2>2, <2>4, <2>8, <3>1
    <3>w. ASSUME NEW u \in Tok, Whole(u)
          PROVE  Whole(u)'
      <4>1. Repeatable(u.r) => u.r # t.a
        BY <1>1, <2>2 DEF Repeatable
      <4> QED
        BY <1>1, <2>4, <3>2, <3>w, <4>1 DEF Whole, Repeatable, Drawn
    <3>6. ASSUME NEW y \in Actors, Drawn(y)'
          PROVE  /\ op'[y].new.a \in 1..issued' /\ OnItsWay(y)' /\ op'[y].new.a # acct'.session.tok.a
                 /\ Whole(op[y].new)' /\ (op'[y].pc # "granted" => op'[y].new.r \in {0, op'[y].new.a})
      <4>1. /\ y # x /\ Drawn(y) /\ op'[y] = op[y] /\ op[y].new.a \in 1..issued /\ op[y].new \in Tok
            /\ OnItsWay(y) /\ Whole(op[y].new) /\ (op[y].pc # "granted" => op[y].new.r \in {0, op[y].new.a})
        BY <3>2, <3>6 DEF IInv, NumbersOK, TypesOK, Operation
      <4>2. op[y].new.a # t.a
        BY <1>1, <2>2, <4>1 DEF IInv, NumbersOK, Drawn
      <4>3. OnItsWay(y)'
        BY <1>1, <2>4, <3>1, <4>1 DEF OnItsWay, At
      <4>4. Whole(op[y].new)'
        <5>1. PICK u \in Tok : u = op[y].new
          BY <4>1
        <5>2. Whole(u)' /\ op'[y].new = u
          BY <3>w, <4>1, <5>1
        <5> QED
          BY <5>2 DEF Whole
      <4> QED
        BY <1>1, <2>4, <4>1, <4>2, <4>3, <4>4
    <3>7. \A y, z \in Actors : Drawn(y)' /\ Drawn(z)' /\ y # z => op'[y].new.a # op'[z].new.a
      BY <3>2 DEF IInv, NumbersOK
    <3>8. \A y \in Actors : op'[y].tok.a = acct'.tok.a /\ acct'.tok.a # 0 => op'[y].tok.r = acct'.tok.r
      BY <2>4, <2>5, Constants, IdleFields DEF IInv, NumbersOK
    <3>9. Whole(acct.session.tok)' /\ \A n \in shared' : n \in 1..issued'
      <4>1. PICK u, v \in Tok : u = op[x].new /\ v = t
        BY <1>1, <2>2
      <4>2. Whole(u)'
        BY <2>1, <3>w, <4>1
      <4>3. v.a = u.a /\ v.r \in {0, u.r}
        BY <2>2, <4>1
      <4>4. Whole(v)' /\ acct'.session.tok = v
        BY <2>4, <4>1, <4>2, <4>3 DEF Whole
      <4> QED
        BY <1>1, <4>4 DEF Whole, IInv, NumbersOK
    <3> QED
      BY <3>3, <3>4, <3>5, <3>6, <3>7, <3>8, <3>9 DEF NumbersOK
  <2>11. TurnsOK' /\ RevocationsOK'
    <3>1. \A y \in Actors \ {x} : Turn(y)' = Turn(y)
      BY <1>1, <2>5 DEF Turn
    <3>2. TurnsOK'
      BY <1>1, <2>4, <2>5, <3>1, IdleFields DEF IInv, TurnsOK, Sending, Presenting
    <3>3. RevocationsOK'
      BY <1>1, <2>4, <2>5, IdleFields DEF IInv, RevocationsOK, Siwc
    <3> QED
      BY <3>2, <3>3
  <2>12. IssuerOK'
    <3>1. t.r # 0 /\ t.r = t.a => t.r \in live
      BY <1>1, <2>1, <2>2 DEF IInv, IssuerOK, Drawn
    <3> QED
      BY <1>1, <2>4, <2>5, <3>1, IdleFields DEF IInv, IssuerOK, Drawn, Siwc
  <2>13. LatestToken'
    BY <1>1, <2>4, <2>5 DEF IInv, LatestToken, At
  <2>14. ReplacementOK'
    BY <1>2, <2>4, <2>5, IdleFields, Constants DEF IInv, ReplacementOK, Fenced
  <2>15. FencesOK' /\ StartsOK'
    <3>1. acct.session.id = op[x].sid
      BY <1>1, <1>2 DEF IInv, FencesOK, Signing
    <3>2. \A y \in Actors : op'[y].pc \in Starting => op'[y].sid # acct.session.id
      BY <1>1, <2>5, <3>1, IdleFields DEF IInv, StartsOK, Starting, Signing
    <3>3. OneWorks(x)
      BY <2>4, <2>5, <3>2, IdleFields DEF OneWorks, Starting, Signing, Terminal
    <3> QED
      BY <2>6, <3>3, OneWorker DEF IInv
  <2>16. AlarmOK'
    BY <2>3 DEF AlarmOK
  <2> QED
    BY <2>6, <2>7, <2>9, <2>10, <2>11, <2>12, <2>13, <2>14, <2>15, <2>16 DEF IInv
<1>3. CASE ~installs
  <2>1. UNCHANGED <<acct, armed>> /\ Goto(x, "fail") /\ "granted" \in Signing
    BY <1>3 DEF Exchanged, Signing
  <2> QED
    BY <1>1, <2>1, GivesUp
<1> QED
  BY <1>2, <1>3

\* A grant repeats a number that no other grant has drawn, or draws one.
LEMMA GrantKeeps ==
    ASSUME IInv, NEW x \in Actors, Grant(x)
    PROVE  IInv'
<1> USE DEF IInv
<1>1. /\ acct \in Account /\ op \in [Actors -> Operation] /\ op[x].pc = "exchange"
      /\ UNCHANGED <<acct, armed, flight, queue, lost, shared, blamed>> /\ issued' = issued + 1
      /\ issued \in Nat /\ issued < MaxTokens /\ op[x] \in Operation
  BY AccountAssumption DEF TypesOK, Grant, At
<1>2. PICK r \in {0, issued'} \cup Active :
        /\ live' = IF r = issued' THEN live \cup {r} ELSE live
        /\ op' = [op EXCEPT ![x].pc = "granted", ![x].new = [a |-> issued', r |-> r]]
  BY DEF Grant
<1> DEFINE new == [a |-> issued', r |-> r]
<1>3. new \in Tok /\ new.a = issued + 1 /\ new.r = r
  <2>1. issued' \in 0..MaxTokens /\ r \in 0..MaxTokens
    BY <1>1, <1>2, AccountAssumption DEF Active, TypesOK
  <2> QED
    BY <1>1, <1>2, <2>1 DEF Tok
<1>4. op' = [op EXCEPT ![x] = [op[x] EXCEPT !.pc = "granted", !.new = new]]
  BY <1>1, <1>2
<1> HIDE DEF new
<1> DEFINE o == [op[x] EXCEPT !.pc = "granted", !.new = new]
<1>5. /\ o \in Operation /\ o.pc = "granted" /\ o.gen = op[x].gen /\ o.auth = op[x].auth
      /\ o.sid = op[x].sid /\ o.tok = op[x].tok /\ o.new = new
  <2>1. o = [[op[x] EXCEPT !.pc = "granted"] EXCEPT !.new = new]
    BY <1>1 DEF Operation
  <2>2. "granted" \in Steps
    BY DEF Steps, Signing
  <2>3. ASSUME NEW s \in Operation
        PROVE  [s EXCEPT !.pc = "granted"] \in Operation /\ [s EXCEPT !.new = new] \in Operation
    BY <1>3, <2>2, OperationUpdates
  <2>4. o \in Operation
    BY <1>1, <2>1, <2>3
  <2> QED
    BY <1>1, <2>4 DEF Operation
<1> HIDE DEF o
<1>6. /\ op' \in [Actors -> Operation] /\ \A y \in Actors \ {x} : op'[y] = op[y]
      /\ op'[x].pc = "granted" /\ op'[x].gen = op[x].gen /\ op'[x].auth = op[x].auth
      /\ op'[x].sid = op[x].sid /\ op'[x].tok = op[x].tok /\ op'[x].new = new
  BY <1>1, <1>4, <1>5, Becomes DEF o
<1>7. TypesOK'
  <2>1. issued' \in 1..MaxTokens /\ live' \in SUBSET (1..issued')
    BY <1>1, <1>2, AccountAssumption DEF TypesOK
  <2>2. op'[Alarm].pc \in AlarmSteps
    BY <1>1, <1>6, Constants DEF TypesOK, AlarmSteps
  <2> QED
    BY <1>1, <1>6, <2>1, <2>2 DEF TypesOK
<1>8. AgesOK' /\ StatusOK'
  BY <1>1, <1>6 DEF AgesOK, StatusOK, Siwc
<1>10. /\ acct.tok.a \in Int /\ acct.tok.r \in Int /\ acct.session.tok.a \in Int
       /\ \A y \in Actors : op[y].tok.a \in Int /\ op[y].tok.r \in Int /\ op'[y].tok = op[y].tok
  <2>1. acct.tok \in Tok /\ acct.session.tok \in Tok
    BY <1>1 DEF Account, Session
  <2>2. \A y \in Actors : op[y].tok \in Tok /\ op'[y].tok = op[y].tok
    BY <1>1, <1>6 DEF Operation
  <2> QED
    BY <2>1, <2>2 DEF Tok
<1>11. r \notin {0, issued + 1} => r <= issued /\ Repeatable(r)
  <2> SUFFICES ASSUME r \in Active
               PROVE  r <= issued /\ Repeatable(r)
    BY <1>1, <1>2
  <2>1. r \in 1..issued /\ r # 0
    BY <1>1 DEF Active, TypesOK
  <2>2. CASE r = acct.tok.r
    <3>1. r # acct.session.tok.a
      BY <2>1, <2>2 DEF NumbersOK, Unread
    <3>2. \A y \in Actors : op[y].pc \in {"stranger", "granted"} => op[y].new.a # r
      BY <2>2 DEF NumbersOK, OnItsWay, Unread, Drawn, At
    <3> QED
      BY <1>1, <2>1, <3>1, <3>2 DEF Repeatable
  <2>3. CASE \E y \in Actors : At(y, "answered") /\ op[y].gen = acct.gen /\ op[y].new.r = r
    <3>1. PICK y \in Actors : op[y].pc = "answered" /\ op[y].new.r = r
      BY <2>3 DEF At
    <3>2. op[y].new.a = r /\ r # acct.session.tok.a
      BY <2>1, <3>1 DEF NumbersOK, Drawn
    <3>3. \A z \in Actors : op[z].pc \in {"stranger", "granted"} => op[z].new.a # r
      BY <3>1, <3>2 DEF NumbersOK, Drawn
    <3> QED
      BY <1>1, <2>1, <3>2, <3>3 DEF Repeatable
  <2> QED
    BY <2>2, <2>3 DEF Active
<1>12. NumbersOK'
  <2>1. Repeatable(op'[x].new.r) \/ r \in {0, issued + 1}
    BY <1>3, <1>6, <1>11
  <2> QED
    BY <1>1, <1>3, <1>6, <1>7, <2>1, NumbersDrawn
<1>13. TurnsOK' /\ RevocationsOK'
  <2>1. \A y \in Actors : Turn(y)' = Turn(y)
    BY <1>1, <1>6 DEF Turn
  <2> QED
    BY <1>1, <1>6, <2>1 DEF TurnsOK, RevocationsOK, Sending, Presenting, Siwc
<1>14. IssuerOK'
  <2>1. ASSUME NEW y \in Actors, Drawn(y)', op'[y].new.r = op'[y].new.a, op'[y].new.r \notin shared
        PROVE  op'[y].new.r \in live'
    <3>1. CASE y = x
      BY <1>1, <1>2, <1>3, <1>6, <2>1, <3>1
    <3>2. CASE y # x
      BY <1>2, <1>6, <2>1, <3>2 DEF IssuerOK, Drawn
    <3> QED
      BY <3>1, <3>2
  <2>2. ASSUME NEW y \in Actors, op'[y].pc = "denied"
        PROVE  op'[y].tok.r \notin live'
    <3>1. y # x /\ op'[y] = op[y] /\ op[y].tok.r \notin live /\ op[y].tok.r <= issued /\ op[y].tok.r \in Int
      BY <1>6, <1>10, <2>2 DEF IssuerOK, NumbersOK
    <3>2. op[y].tok.r # issued'
      BY <1>1, <3>1
    <3> QED
      BY <1>2, <3>1, <3>2
  <2>3. ASSUME NEW y \in Actors, op'[y].pc \in {"answered", "stranger"}, op'[y].new.r = 0
        PROVE  op'[y].tok.r \in live' \cup shared /\ ~Siwc'
    BY <1>1, <1>2, <1>6, <2>3 DEF IssuerOK, Siwc
  <2>4. acct'.session.tok.r # 0 /\ acct'.session.tok.r = acct'.session.tok.a => acct'.session.tok.r \in live'
    BY <1>1, <1>2 DEF IssuerOK
  <2> QED
    BY <1>1, <2>1, <2>2, <2>3, <2>4 DEF IssuerOK
<1>15. LatestToken'
  BY <1>1, <1>2, <1>6 DEF LatestToken, At
<1>16. FencesOK' /\ StartsOK'
  <2>1. OneWorks(x)
    BY <1>1, <1>6 DEF OneWorks, Starting, Signing, FencesOK, Fenced
  <2> QED
    BY <1>7, <2>1, OneWorker
<1>17. ReplacementOK' /\ AlarmOK'
  BY <1>1, <1>6, Constants
     DEF ReplacementOK, AlarmOK, Open, Due, At, Fenced, Overdue, DevicePending, Siwc
<1> QED
  BY <1>7, <1>8, <1>12, <1>13, <1>14, <1>15, <1>16, <1>17

LEMMA EvictKeeps ==
    ASSUME IInv, Evict
    PROVE  IInv'
<1> USE DEF IInv
<1>1. /\ acct \in Account /\ acct.gen \in Nat /\ acct.auth \in Nat /\ issued \in Nat
      /\ UNCHANGED <<acct, live, issued, shared, blamed>>
      /\ \A y \in Actors : op'[y] = Idle
      /\ armed' = (armed \/ ~At(Alarm, "idle"))
  BY AccountAssumption DEF TypesOK, Account, Evict
<1>2. TypesOK'
  <2>1. op' \in [Actors -> Operation] /\ op'[Alarm].pc \in AlarmSteps
    BY Constants, IdleFields DEF Evict, AlarmSteps
  <2>2. flight' \in [gen : 0..MaxAuth + 1, owner : Actors]
    BY AccountAssumption, Constants DEF Evict, NoFlight
  <2>3. queue' \in [0..MaxAuth + 1 -> Seq(Actors)]
    BY DEF Evict, TypesOK
  <2>4. armed' \in BOOLEAN
    BY <1>1
  <2> QED
    BY <1>1, <2>1, <2>2, <2>3, <2>4 DEF TypesOK
<1>3. AgesOK' /\ StatusOK'
  BY <1>1, IdleFields DEF AgesOK, StatusOK, Siwc
<1>4. NumbersOK' /\ TurnsOK' /\ RevocationsOK' /\ IssuerOK'
  <2>1. NumbersOK'
    <3>1. NumbersStay
      BY <1>1, IdleFields DEF NumbersStay, Drawn
    <3> QED
      BY <3>1, NumbersFrame
  <2>2. TurnsOK' /\ RevocationsOK'
    BY <1>1, IdleFields DEF TurnsOK, RevocationsOK, Sending, Presenting
  <2>3. IssuerOK'
    BY <1>1, IdleFields DEF IssuerOK, Drawn
  <2> QED
    BY <2>1, <2>2, <2>3
<1>5. LatestToken'
  <2> SUFFICES ASSUME acct.status = "ready", acct.tok.r \notin live \cup lost \cup shared \cup {0}
               PROVE  acct.tok.r \in lost'
    BY <1>1 DEF LatestToken, Evict
  <2>1. PICK y \in Actors : /\ op[y].pc \in {"answered", "stranger"} /\ op[y].gen = acct.gen
                             /\ op[y].tok.r = acct.tok.r
    BY DEF LatestToken, At
  <2>2. op[y].new.r # 0
    BY <2>1 DEF IssuerOK
  <2> QED
    BY <2>1, <2>2 DEF Evict, Rotated
<1>6. ReplacementOK' /\ FencesOK' /\ StartsOK'
  BY <1>1, IdleFields, Constants DEF ReplacementOK, FencesOK, StartsOK, Starting, Signing
<1>7. AlarmOK'
  BY <1>1, IdleFields, Constants DEF AlarmOK, At, Open
<1> QED
  BY <1>2, <1>3, <1>4, <1>5, <1>6, <1>7

-----------------------------------------------------------------------------
(* The invariant holds. *)

LEMMA InitHolds ==
    ASSUME Init
    PROVE  IInv
<1>1. NoTok \in Tok /\ NoSession \in Session /\ Alarm \in Actors
  BY Constants
<1>2. [a |-> 1, r |-> 1] \in Tok /\ 1 \in 1..MaxTokens
  BY AccountAssumption DEF Tok
<1>3. \/ acct.gen = 0 /\ acct.tok = NoTok /\ acct.status = "disconnected"
      \/ acct.gen = 1 /\ acct.tok = [a |-> 1, r |-> 1] /\ acct.status = "ready"
  BY DEF Init, Fresh, Connected
<1>4. /\ acct.auth = 0 /\ acct.session = NoSession
      /\ acct = [gen |-> acct.gen, auth |-> 0, status |-> acct.status, tok |-> acct.tok,
                 session |-> NoSession, mode |-> acct.mode]
      /\ acct.mode \in {"native", "siwc"}
  BY DEF Init, Fresh, Connected
<1>5. acct.gen \in 0..MaxAuth + 1 /\ acct.tok \in Tok
      /\ acct.status \in {"disconnected", "ready", "needs_reauthorization"}
  BY <1>1, <1>2, <1>3, AccountAssumption
<1>6. acct \in Account
  BY <1>1, <1>4, <1>5 DEF Account
<1>7. /\ \A y \in Actors : op[y] = Idle
      /\ issued = 1 /\ live = {acct.tok.r} \ {0} /\ armed = FALSE /\ lost = {} /\ shared = {}
  BY DEF Init
<1>8. /\ NoSession.id = 0 /\ NoSession.status = "none" /\ NoSession.tok = NoTok /\ ~Open(acct.session)
      /\ NoTok.a = 0 /\ NoTok.r = 0
  BY <1>4 DEF NoSession, Open, NoTok
<1>9. TypesOK
  <2>1. op \in [Actors -> Operation] /\ op[Alarm].pc \in AlarmSteps
    BY <1>7, Constants, IdleFields DEF Init, AlarmSteps
  <2>2. flight \in [gen : 0..MaxAuth + 1, owner : Actors]
    BY <1>1, AccountAssumption DEF Init, NoFlight
  <2>3. queue \in [0..MaxAuth + 1 -> Seq(Actors)]
    BY DEF Init
  <2>4. live \in SUBSET (1..issued)
    BY <1>3, <1>7, <1>8
  <2> QED
    BY <1>2, <1>6, <1>7, <2>1, <2>2, <2>3, <2>4 DEF TypesOK
<1>10. AgesOK
  BY <1>3, <1>4, <1>7, <1>8, IdleFields DEF AgesOK
<1>11. StatusOK
  BY <1>3, <1>4, <1>8 DEF StatusOK
<1>12. NumbersOK
  BY <1>3, <1>4, <1>7, <1>8, IdleFields DEF NumbersOK, Drawn, Whole
<1>13. TurnsOK /\ RevocationsOK
  BY <1>7, IdleFields DEF TurnsOK, RevocationsOK, Sending, Presenting
<1>14. IssuerOK
  BY <1>4, <1>7, <1>8, IdleFields DEF IssuerOK, Drawn
<1>15. LatestToken
  BY <1>3, <1>7, <1>8 DEF LatestToken
<1>16. ReplacementOK /\ FencesOK /\ StartsOK
  BY <1>1, <1>7, IdleFields DEF ReplacementOK, FencesOK, StartsOK, Starting, Signing
<1>17. AlarmOK
  BY <1>8 DEF AlarmOK
<1> QED
  BY <1>9, <1>10, <1>11, <1>12, <1>13, <1>14, <1>15, <1>16, <1>17 DEF IInv

LEMMA NothingHappens ==
    ASSUME IInv, UNCHANGED vars
    PROVE  IInv'
<1> USE DEF IInv, vars
<1>1. TypesOK' /\ AgesOK' /\ StatusOK'
  BY DEF TypesOK, AgesOK, StatusOK, Siwc
<1>2. NumbersOK' /\ TurnsOK' /\ RevocationsOK' /\ IssuerOK' /\ LatestToken'
  <2>1. \A y \in Actors : Bystander(y)
    BY LineHolds, Bystanders
  <2>2. TokensStay
    BY <2>1 DEF TokensStay
  <2> QED
    BY <1>1, <2>2, TokensFrame
<1>3. ReplacementOK' /\ FencesOK' /\ StartsOK' /\ AlarmOK'
  <2>1. SessionStays
    BY DEF SessionStays, Same
  <2> QED
    BY <1>1, <2>1, SessionFrame
<1> QED
  BY <1>1, <1>2, <1>3

LEMMA NextKeeps ==
    ASSUME IInv, Next
    PROVE  IInv'
<1>1. ASSUME NEW x \in Actors,
             \/ Resolve(x) \/ Share(x) \/ Refresh(x) \/ Issue(x) \/ Renew(x)
             \/ RefreshFails(x) \/ Denied(x)
      PROVE  IInv'
  BY <1>1, ResolveKeeps, ShareKeeps, RefreshKeeps, IssueKeeps, RenewKeeps, RefreshFailsKeeps, DeniedKeeps
<1>2. ASSUME NEW x \in Actors,
             \/ (\E flow \in ModeFlows : Start(x, flow)) \/ Inserted(x) \/ Prepare(x)
             \/ FailSession(x) \/ CallFails(x)
      PROVE  IInv'
  BY <1>2, StartKeeps, InsertedKeeps, PrepareKeeps, FailSessionKeeps, CallFailsKeeps
<1>3. ASSUME NEW x \in Actors,
             \/ Complete(x) \/ ClaimCallback(x) \/ Grant(x) \/ Exchanged(x)
             \/ Cancel(x) \/ Retry(x) \/ Disconnect(x) \/ Block(x) \/ Revoke(x)
      PROVE  IInv'
  BY <1>3, CompleteKeeps, ClaimCallbackKeeps, GrantKeeps, ExchangedKeeps, CancelKeeps, RetryKeeps,
     DisconnectKeeps, BlockKeeps, RevokeKeeps
<1>4. ASSUME \/ Expire \/ TimePasses \/ Fire \/ AlarmRuns \/ PollAgain \/ Approved
             \/ Initialize \/ Inherit \/ Evict
      PROVE  IInv'
  BY <1>4, ExpireKeeps, TimePassesKeeps, FireKeeps, AlarmRunsKeeps, PollAgainKeeps, ApprovedKeeps,
     InitializeKeeps, InheritKeeps, EvictKeeps
<1> QED
  BY <1>1, <1>2, <1>3, <1>4 DEF Next

\* The parts of the invariant hold in every state: for every kind of grant, and
\* whatever the issuer answers a refresh with.
THEOREM AccountInvariant == Spec => []IInv
<1>1. Init => IInv
  BY InitHolds
<1>2. IInv /\ [Next]_vars => IInv'
  BY NextKeeps, NothingHappens
<1> QED
  BY <1>1, <1>2, PTL DEF Spec

\* No two calls present one refresh token to the issuer, and a ready account
\* never loses its last one to an authorization: the turns of shareRefresh and
\* coordinateTokens and the fences of the commits are enough, for any number of
\* callers.  Only a repeated token that authorizationTokens took for a session's
\* own is held by two generations.
THEOREM TokensKept == Spec => []TokensAreSound
<1>1. IInv => TokensAreSound
  BY DEF IInv, TokensAreSound, SingleUse, TurnsOK, Presenting, At
<1> QED
  BY <1>1, AccountInvariant, PTL

\* Records keep their types, a sign-in initialises only with tokens, and an open
\* session always has an alarm ahead or running (change, the alarm handler).
THEOREM SessionsKept == Spec => []SessionsAreSound
<1>1. ASSUME IInv
      PROVE  SessionsAreSound
  <2>1. \A y \in Actors : op[y].tok \in Tok /\ op[y].new \in Tok
    BY <1>1 DEF IInv, TypesOK, Operation
  <2>2. TypeOK
    BY <1>1, <2>1 DEF IInv, TypesOK, StatusOK, TypeOK, Account
  <2>3. OpenHasAlarm
    BY <1>1 DEF IInv, AlarmOK, OpenHasAlarm, At
  <2> QED
    BY <2>2, <2>3 DEF SessionsAreSound
<1> QED
  BY <1>1, AccountInvariant, PTL

-----------------------------------------------------------------------------
(* What a step may do to the account's and the session's status. *)

Steady ==
    /\ acct'.status = acct.status
    /\ acct'.session.id = acct.session.id /\ acct'.session.status = acct.session.status
DemandDue ==
    acct.status = "ready" /\ acct'.status = "needs_reauthorization" => acct.tok.r \notin live \/ Strange
\* The account keeps its access token, loses it, or takes one of its own: the
\* session's, or the one an operation was answered with.
Familiar ==
    \/ acct'.tok.a \in {0, acct.tok.a}
    \/ acct.session.tok.a # 0 /\ acct'.tok.a = acct.session.tok.a
    \/ \E y \in Actors : At(y, "answered") /\ acct'.tok.a = op[y].new.a
Final ==
    acct.session.status \in Terminal /\ acct'.session.id \in {acct.session.id} \ blamed'
        => acct'.session.status = acct.session.status \/ acct'.session.status = "cancelled"

LEMMA TokenSteps ==
    ASSUME IInv, NEW x \in Actors,
           \/ Resolve(x) \/ Share(x) \/ Refresh(x) \/ Issue(x) \/ Renew(x)
           \/ RefreshFails(x) \/ Denied(x) \/ Revoke(x)
    PROVE  Steady \/ (Final /\ DemandDue)
<1>1. acct \in Account
  BY DEF IInv, TypesOK
<1>2. CASE Resolve(x) \/ Share(x) \/ Refresh(x) \/ Issue(x) \/ RefreshFails(x)
  BY <1>2 DEF Resolve, Share, Refresh, Issue, RefreshFails, Steady
<1>3. CASE Renew(x) \/ Revoke(x)
  <2>1. acct' = acct \/ \E t : acct' = [acct EXCEPT !.tok = t]
    BY <1>3 DEF Renew, Revoke, Commit
  <2> QED
    BY <1>1, <2>1 DEF Steady, Account
<1>4. CASE Denied(x)
  <2>1. CASE acct.gen # op[x].gen
    BY <1>4, <2>1 DEF Denied, Refuses, Steady
  <2>2. CASE acct.gen = op[x].gen
    <3>1. acct'.session = acct.session
      <4>1. \E t : acct' = [acct EXCEPT !.status = "needs_reauthorization", !.tok = t]
        BY <1>4, <2>2 DEF Denied, Refuses, Commit
      <4> QED
        BY <1>1, <4>1 DEF Account
    <3>2. op[x].tok = acct.tok /\ op[x].pc \in {"denied", "stranger"}
      BY <1>4, <2>2 DEF Denied, IInv, TurnsOK, Sending, Presenting
    <3>3. acct.tok.r \notin live \/ Strange
      BY <3>2 DEF IInv, IssuerOK, Strange, At
    <3> QED
      BY <3>1, <3>3 DEF Final, DemandDue
  <2> QED
    BY <2>1, <2>2
<1> QED
  BY <1>2, <1>3, <1>4

LEMMA SessionSteps ==
    ASSUME IInv, NEW x \in Actors,
           \/ (\E flow \in ModeFlows : Start(x, flow)) \/ Inserted(x) \/ Prepare(x)
           \/ FailSession(x) \/ CallFails(x)
           \/ Complete(x) \/ ClaimCallback(x) \/ Grant(x) \/ Exchanged(x)
    PROVE  Steady \/ (Final /\ DemandDue)
<1>1. acct \in Account /\ acct.session \in Session
  BY DEF IInv, TypesOK, Account
<1>2. CASE Inserted(x) \/ CallFails(x) \/ Complete(x) \/ Grant(x)
  BY <1>2 DEF Inserted, CallFails, Complete, Grant, Steady
<1>3. CASE Prepare(x)
  <2>1. acct' = acct \/ acct' = [acct EXCEPT !.session.ready = TRUE]
    BY <1>3 DEF Prepare, Commit
  <2> QED
    BY <1>1, <2>1, SessionIs DEF Steady
<1>4. CASE ClaimCallback(x)
  <2>1. \/ acct' = acct
        \/ acct.session.status = "pending" /\ acct' = [acct EXCEPT !.session.status = "exchanging"]
    BY <1>4 DEF ClaimCallback, Commit
  <2> QED
    BY <1>1, <2>1, SessionIs DEF Steady, Final, DemandDue, Terminal
<1>5. CASE Exchanged(x)
  <2>1. \/ acct' = acct
        \/ /\ acct.session.status = "exchanging"
           /\ \E t : acct' = [acct EXCEPT !.session.status = "initializing", !.session.tok = t]
    BY <1>5 DEF Exchanged, Commit
  <2>2. ASSUME NEW t
        PROVE  [acct EXCEPT !.session.status = "initializing", !.session.tok = t].status = acct.status
    BY <1>1 DEF Account
  <2> QED
    BY <2>1, <2>2 DEF Steady, Final, DemandDue, Terminal
<1>6. CASE \E flow \in ModeFlows : Start(x, flow)
  <2>1. PICK flow \in ModeFlows : Start(x, flow)
    BY <1>6
  <2>2. acct' = Begun(flow) /\ acct.auth < MaxAuth
    BY <2>1 DEF Start, Commit
  <2>3. acct'.status = acct.status /\ acct'.session.id = acct.auth + 1
    BY <1>1, <2>2, BegunIs
  <2>4. acct.session.id # acct.auth + 1
    <3>1. acct.session.id <= acct.auth
      BY DEF IInv, AgesOK
    <3>2. acct.auth \in Nat /\ acct.session.id \in Int
      BY <1>1, AccountAssumption DEF Account, Session
    <3> QED
      BY <3>1, <3>2
  <2> QED
    BY <2>3, <2>4 DEF Final, DemandDue
<1>7. CASE FailSession(x)
  <2>1. CASE ~Fenced(x) \/ acct.session.id = 0
    BY <1>7, <2>1 DEF FailSession, Commit, Steady
  <2>2. CASE Fenced(x) /\ acct.session.id # 0
    <3>1. acct' = [acct EXCEPT !.session.status = "error"] /\ op[x].pc \in {"fail", "abort"}
          /\ blamed' = IF acct.session.id \in {0, op[x].sid} THEN blamed ELSE blamed \cup {acct.session.id}
      BY <1>7, <2>2 DEF FailSession, Commit
    <3>2. acct'.status = acct.status /\ acct'.session.id = acct.session.id
      BY <1>1, <3>1, SessionIs
    <3>3. CASE acct.session.id = op[x].sid
      <4>1. acct.session.status \notin Terminal
        BY <2>2, <3>1, <3>3 DEF IInv, FencesOK, StartsOK, Signing, Starting, Terminal
      <4> QED
        BY <3>2, <4>1 DEF Final, DemandDue
    <3>4. CASE acct.session.id # op[x].sid
      BY <2>2, <3>1, <3>2, <3>4 DEF Final, DemandDue
    <3> QED
      BY <3>3, <3>4
  <2> QED
    BY <2>1, <2>2
<1> QED
  BY <1>2, <1>3, <1>4, <1>5, <1>6, <1>7

LEMMA AccountSteps ==
    ASSUME IInv, NEW x \in Actors, Cancel(x) \/ Retry(x) \/ Disconnect(x) \/ Block(x) \/ Expire
    PROVE  Steady \/ (Final /\ DemandDue)
<1>1. acct \in Account /\ acct.session \in Session
  BY DEF IInv, TypesOK, Account
<1>2. CASE Cancel(x)
  <2>1. acct' = Cancelled
    BY <1>2 DEF Cancel, Commit
  <2> QED
    BY <1>1, <2>1, OverIs DEF Over, Final, DemandDue
<1>3. CASE Retry(x)
  <2>1. acct' = [acct EXCEPT !.auth = @ + 1, !.session.status = "initializing"] /\ acct.session.status = "error"
    BY <1>3 DEF Retry, Retryable, Commit
  <2>2. acct'.status = acct.status
    BY <1>1, <2>1 DEF Account
  <2> QED
    BY <2>1, <2>2 DEF Final, DemandDue, Terminal
<1>4. CASE Expire
  <2>1. acct' = Expired /\ acct.session.status \notin Terminal
    BY <1>4 DEF Expire, Commit, Overdue, Open
  <2> QED
    BY <1>1, <2>1, OverIs DEF Over, Final, DemandDue
<1>5. ASSUME NEW a, acct' = a, a.session = NoSession, a.status = "disconnected"
      PROVE  Final /\ DemandDue
  <2>1. NoSession.id = 0
    BY DEF NoSession
  <2>2. acct.session.id = 0 => acct.session.status \notin Terminal
    BY DEF IInv, StatusOK, Terminal
  <2> QED
    BY <1>5, <2>1, <2>2 DEF Final, DemandDue
<1>6. CASE Disconnect(x)
  <2>1. \/ acct' = acct
        \/ acct' = [acct EXCEPT !.gen = @ + 1, !.auth = @ + 1, !.tok = NoTok,
                                !.session = NoSession, !.status = "disconnected"]
    BY <1>6 DEF Disconnect, Commit
  <2>2. LET a == [acct EXCEPT !.gen = @ + 1, !.auth = @ + 1, !.tok = NoTok,
                              !.session = NoSession, !.status = "disconnected"] IN
        a.session = NoSession /\ a.status = "disconnected"
    BY <1>1 DEF Account
  <2> QED
    BY <1>5, <2>1, <2>2 DEF Steady
<1>7. CASE Block(x)
  <2>1. \/ acct' = acct
        \/ acct' = [acct EXCEPT !.gen = @ + 1, !.auth = @ + 1, !.session = NoSession, !.status = "disconnected"]
    BY <1>7 DEF Block, Commit
  <2>2. LET a == [acct EXCEPT !.gen = @ + 1, !.auth = @ + 1, !.session = NoSession, !.status = "disconnected"] IN
        a.session = NoSession /\ a.status = "disconnected"
    BY <1>1 DEF Account
  <2> QED
    BY <1>5, <2>1, <2>2 DEF Steady
<1> QED
  BY <1>2, <1>3, <1>4, <1>6, <1>7

LEMMA AlarmsSteps ==
    ASSUME IInv, TimePasses \/ Fire \/ AlarmRuns \/ PollAgain \/ Approved \/ Initialize \/ Inherit \/ Evict
    PROVE  Steady \/ (Final /\ DemandDue)
<1>1. acct \in Account /\ acct.session \in Session
  BY DEF IInv, TypesOK, Account
<1>2. CASE Fire \/ AlarmRuns \/ PollAgain \/ Evict
  BY <1>2 DEF Fire, AlarmRuns, PollAgain, Commit, Evict, Steady
<1>3. CASE TimePasses
  BY <1>1, <1>3, SessionIs DEF TimePasses, Steady
<1>4. CASE Approved
  <2>1. \/ acct' = acct
        \/ acct.session.status = "pending" /\ acct' = [acct EXCEPT !.session.status = "exchanging"]
    BY <1>4 DEF Approved, Commit, DevicePending
  <2> QED
    BY <1>1, <2>1, SessionIs DEF Steady, Final, DemandDue, Terminal
<1>5. CASE Initialize \/ Inherit
  <2>1. \/ acct' = acct
        \/ acct.session.status = "initializing" /\ \E t : acct' = Installed(t)
    BY <1>5 DEF Initialize, Inherit, Commit, Installable
  <2>2. ASSUME NEW t
        PROVE  Installed(t).status = "ready"
    BY <1>1 DEF Installed, Account
  <2> QED
    BY <2>1, <2>2 DEF Steady, Final, DemandDue, Terminal
<1> QED
  BY <1>2, <1>3, <1>4, <1>5

LEMMA EveryStep ==
    ASSUME IInv, [Next]_vars
    PROVE  Final /\ DemandDue
<1>1. Steady => Final /\ DemandDue
  BY DEF Steady, Final, DemandDue
<1>2. CASE UNCHANGED vars
  BY <1>1, <1>2 DEF vars, Steady
<1>3. CASE Next
  BY <1>1, <1>3, Constants, TokenSteps, SessionSteps, AccountSteps, AlarmsSteps DEF Next
<1> QED
  BY <1>2, <1>3

LEMMA OwnTokens ==
    ASSUME IInv, [Next]_vars
    PROVE  Familiar
<1>1. acct \in Account /\ acct.session \in Session /\ NoTok.a = 0
  BY Constants DEF IInv, TypesOK, Account
<1>2. ASSUME acct'.tok = acct.tok
      PROVE  Familiar
  BY <1>2 DEF Familiar
<1>3. ASSUME NEW x \in Actors,
             \/ Resolve(x) \/ Share(x) \/ Refresh(x) \/ Issue(x) \/ RefreshFails(x)
             \/ Inserted(x) \/ CallFails(x) \/ Complete(x) \/ Grant(x)
      PROVE  Familiar
  BY <1>2, <1>3 DEF Resolve, Share, Refresh, Issue, RefreshFails, Inserted, CallFails, Complete, Grant
<1>4. ASSUME NEW x \in Actors, Renew(x)
      PROVE  Familiar
  <2>1. acct' = acct \/ \E r : acct' = [acct EXCEPT !.tok = [a |-> op[x].new.a, r |-> r]]
    BY <1>4 DEF Renew, Commit
  <2>2. acct' = acct \/ acct'.tok.a = op[x].new.a
    BY <1>1, <2>1 DEF Account
  <2> QED
    BY <1>4, <2>2 DEF Renew, Familiar
<1>5. ASSUME NEW x \in Actors, Denied(x) \/ Revoke(x) \/ Disconnect(x) \/ Block(x)
      PROVE  Familiar
  <2>1. CASE Denied(x)
    <3>1. \/ acct' = acct
          \/ \E t \in {acct.tok, NoTok} : acct' = [acct EXCEPT !.status = "needs_reauthorization", !.tok = t]
      BY <2>1 DEF Denied, Commit
    <3> QED
      BY <1>1, <3>1 DEF Familiar, Account
  <2>2. CASE Revoke(x)
    <3>1. acct' = acct \/ acct' = [acct EXCEPT !.tok = NoTok]
      BY <2>2 DEF Revoke, Commit
    <3> QED
      BY <1>1, <3>1 DEF Familiar, Account
  <2>3. CASE Disconnect(x)
    <3>1. \/ acct' = acct
          \/ acct' = [acct EXCEPT !.gen = @ + 1, !.auth = @ + 1, !.tok = NoTok,
                                  !.session = NoSession, !.status = "disconnected"]
      BY <2>3 DEF Disconnect, Commit
    <3> QED
      BY <1>1, <3>1 DEF Familiar, Account
  <2>4. CASE Block(x)
    <3>1. \/ acct' = acct
          \/ acct' = [acct EXCEPT !.gen = @ + 1, !.auth = @ + 1, !.session = NoSession, !.status = "disconnected"]
      BY <2>4 DEF Block, Commit
    <3> QED
      BY <1>1, <3>1 DEF Familiar, Account
  <2> QED
    BY <1>5, <2>1, <2>2, <2>3, <2>4
<1>6. ASSUME NEW x \in Actors,
             \/ (\E flow \in ModeFlows : Start(x, flow)) \/ Prepare(x) \/ FailSession(x)
             \/ ClaimCallback(x) \/ Exchanged(x) \/ Cancel(x) \/ Retry(x)
      PROVE  Familiar
  <2>1. CASE \E flow \in ModeFlows : Start(x, flow)
    <3>1. \E flow \in ModeFlows : acct' = Begun(flow) /\ acct.auth < MaxAuth
      BY <2>1 DEF Start, Commit
    <3> QED
      BY <1>1, <1>2, <3>1, BegunIs
  <2>2. CASE Prepare(x) \/ FailSession(x) \/ ClaimCallback(x)
    <3>1. \/ acct' = acct \/ acct' = [acct EXCEPT !.session.ready = TRUE]
          \/ \E status \in {"exchanging", "error"} : acct' = [acct EXCEPT !.session.status = status]
      BY <2>2 DEF Prepare, FailSession, ClaimCallback, Commit
    <3> QED
      BY <1>1, <1>2, <3>1, SessionIs
  <2>3. CASE Exchanged(x)
    <3>1. acct' = acct \/ \E t : acct' = [acct EXCEPT !.session.status = "initializing", !.session.tok = t]
      BY <2>3 DEF Exchanged, Commit
    <3> QED
      BY <1>1, <1>2, <3>1 DEF Account
  <2>4. CASE Cancel(x) \/ Retry(x)
    <3>1. acct' = Cancelled \/ acct' = [acct EXCEPT !.auth = @ + 1, !.session.status = "initializing"]
      BY <2>4 DEF Cancel, Retry, Commit
    <3> QED
      BY <1>1, <1>2, <3>1, OverIs DEF Over
  <2> QED
    BY <1>6, <2>1, <2>2, <2>3, <2>4
<1>7. ASSUME Expire \/ TimePasses \/ Fire \/ AlarmRuns \/ PollAgain \/ Approved \/ Evict
      PROVE  Familiar
  <2>1. \/ acct' = acct \/ acct' = Expired \/ acct' = [acct EXCEPT !.session.expired = TRUE]
        \/ acct' = [acct EXCEPT !.session.status = "exchanging"]
    BY <1>7 DEF Expire, TimePasses, Fire, AlarmRuns, PollAgain, Approved, Evict, Commit
  <2> QED
    BY <1>1, <1>2, <2>1, OverIs, SessionIs DEF Over
<1>8. ASSUME Initialize \/ Inherit
      PROVE  Familiar
  <2>1. \/ acct' = acct
        \/ /\ Installable(Alarm) /\ op[Alarm].pc \in {"initialize", "inherit"} /\ acct.gen <= MaxAuth
           /\ \E t \in Tok : t.a = op[Alarm].new.a /\ acct' = Installed(t)
    <3>1. Inherited \in Tok /\ Inherited.a = op[Alarm].new.a
      BY InheritedIs DEF IInv
    <3>2. [Inherited EXCEPT !.r = acct.tok.r] \in Tok /\ [Inherited EXCEPT !.r = acct.tok.r].a = Inherited.a
          /\ [a |-> op[Alarm].new.a, r |-> acct.tok.r] \in Tok
      BY <1>1, <3>1 DEF Tok, Account
    <3>3. CASE Initialize
      BY <3>1, <3>2, <3>3 DEF Initialize, Inherited, Commit, At
    <3>4. CASE Inherit
      BY <3>2, <3>4 DEF Inherit, Commit, At
    <3> QED
      BY <1>8, <3>3, <3>4
  <2>2. CASE Installable(Alarm) /\ op[Alarm].pc \in {"initialize", "inherit"}
    BY <1>1, <2>1, <2>2, InstalledIs DEF Familiar, Installable, IInv, ReplacementOK, StatusOK
  <2> QED
    BY <1>2, <2>1, <2>2
<1>9. CASE UNCHANGED vars
  BY <1>2, <1>9 DEF vars
<1> QED
  BY <1>3, <1>4, <1>5, <1>6, <1>7, <1>8, <1>9, Constants DEF Next

LEMMA NoStrangersTokens ==
    ASSUME IInv, Familiar
    PROVE  \A x \in Actors : At(x, "stranger") => acct'.tok.a # op[x].new.a
<1> SUFFICES ASSUME NEW x \in Actors, At(x, "stranger")
             PROVE  acct'.tok.a # op[x].new.a
  OBVIOUS
<1>1. Drawn(x) /\ op[x].new.a \in 1..issued /\ Unread(op[x].new.a) /\ op[x].new.a # acct.session.tok.a
  BY DEF IInv, NumbersOK, Drawn, OnItsWay, At
<1>2. op[x].new.a # 0 /\ op[x].new.a # acct.tok.a
  BY <1>1 DEF Unread, IInv, TypesOK
<1>3. \A y \in Actors : At(y, "answered") => op[y].new.a # op[x].new.a
  BY <1>1 DEF IInv, NumbersOK, Drawn, At
<1> QED
  BY <1>1, <1>2, <1>3 DEF Familiar

\* Reauthorization is demanded only of credentials that no longer work, or whose
\* refresh was answered for another workspace, and no such answer is taken: a
\* refusal is recorded for the generation, and so the token, that it is about.
THEOREM OnlyDueDemands == Spec => DemandsAreDue
<1>1. IInv /\ [Next]_vars
         => DemandDue /\ \A x \in Actors : At(x, "stranger") => acct'.tok.a # op[x].new.a
  BY EveryStep, OwnTokens, NoStrangersTokens
<1>2. Spec => []IInv
  BY AccountInvariant
<1>3. (DemandDue /\ \A x \in Actors : At(x, "stranger") => acct'.tok.a # op[x].new.a)
         => [/\ acct.status = "ready" /\ acct'.status = "needs_reauthorization"
                   => acct.tok.r \notin live \/ Strange
             /\ \A x \in Actors : At(x, "stranger") => acct'.tok.a # op[x].new.a]_vars
  BY DEF DemandDue
<1> QED
  BY <1>1, <1>2, <1>3, PTL DEF Spec, DemandsAreDue

\* A finished session stays as it ended: the authorization fence, the session's
\* id and its status keep out whatever its operations still do.
THEOREM FinishedStays == Spec => FinishedIsFinal
<1>1. IInv /\ [Next]_vars => Final
  BY EveryStep
<1>2. Spec => []IInv
  BY AccountInvariant
<1>3. Final => [acct.session.status \in Terminal /\ acct'.session.id \in {acct.session.id} \ blamed'
                  => acct'.session.status = acct.session.status \/ acct'.session.status = "cancelled"]_vars
  BY DEF Final
<1> QED
  BY <1>1, <1>2, <1>3, PTL DEF Spec, FinishedIsFinal

=============================================================================
