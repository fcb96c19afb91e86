--------------------------- MODULE WebSocketProxy ---------------------------
(***************************************************************************)
(* One Responses WebSocket (gateway/websocket/): a client socket and an    *)
(* upstream socket, each with a bounded queue and one drain task, joined   *)
(* by a stored session.  The first frame of the connection may move to     *)
(* another account while nothing has been heard from the first one.  Any   *)
(* handler may close the session; the one that moves it to Closed does.    *)
(*                                                                         *)
(* A task runs without interruption between two waits for something        *)
(* outside the object: the configuration, a selection, a handshake, a      *)
(* health write, the usage sink.  The object can crash between any two.    *)
(***************************************************************************)
EXTENDS Naturals, Sequences, FiniteSets, SequencesExt

CONSTANTS
    Provider,        \* the provider of every account of the route
    Codex,           \* the providers whose accounts report usage limits
    MaxBytes,        \* MAX_WEBSOCKET_BUFFER_BYTES
    MaxMessages,     \* MAX_WEBSOCKET_BUFFER_MESSAGES
    Scenarios        \* [metered, accounts], and bounds: [frames, sizes, kinds, events,
                     \* crashes, sockets] and whether peers leave by themselves

VARIABLES
    scenario,
    sess,        \* the stored session: [phase, active, recorded, account]
    late,        \* the deadline of the first frame has passed
    alarm,       \* "none", "deadline" or "retry"; none while its handler runs
    box,         \* the client queue: [queue, cur, shut, received]
    up,          \* the upstream socket: [conn, events, cur, listening]
    client,      \* whether the client socket can be written to
    pc,          \* where the drain tasks and the alarm handler are
    turn,        \* [kind, sequence, replayable]
    attempt,     \* [live, target, excluded, locked, reset, exhausted, continues]
    switching,   \* the first frame is moving to another account
    replay,      \* the turn an observed event may still be replayed for, or 0
    closing,     \* handlers that are about to close the session
    ending,      \* the outcome of the close in progress, or "no"
    usage,       \* [meter, check, outbox]: the generations of the connection
    delivered,   \* terminal records the sink has accepted
    env,         \* bounds used up: [sent, said, crashes, sockets], and the responses
                 \* the connected account has ended
    wrote,       \* history: [socket, sequence, gen] of every frame sent upstream
    heard,       \* history: the socket of every event forwarded to the client
    blames,      \* history: provider outcomes since a response was last started
    replays      \* history: [alone, last, fresh] of every full replay asked for

memory == <<box, up, pc, turn, attempt, switching, replay, closing, ending>>
history == <<wrote, heard, blames, replays>>
vars == <<scenario, sess, late, alarm, client, usage, delivered, env, memory, history>>

Null == "none"
NoMessage == [kind |-> Null, size |-> 0, sequence |-> 0, gen |-> 0]
NoEvent == [kind |-> Null, size |-> 0, socket |-> 0, gen |-> 0]
Generations == 1..scenario.frames
IsCodex(account) == account # Null /\ Provider[account] \in Codex

NoTurn == [kind |-> "untracked", sequence |-> 0, replayable |-> FALSE]
NoAttempt == [live |-> FALSE, target |-> Null, excluded |-> {}, locked |-> Null,
              reset |-> FALSE, exhausted |-> FALSE, continues |-> FALSE]
NoBox == [queue |-> <<>>, cur |-> NoMessage, shut |-> FALSE, received |-> 0]
NoUpstream == [conn |-> 0, events |-> <<>>, cur |-> NoEvent, listening |-> FALSE]
NoSession == [phase |-> Null, active |-> FALSE, recorded |-> FALSE, account |-> Null]
Live == {"awaiting", "routing", "connecting", "open"}

Init ==
    /\ scenario \in Scenarios
    /\ sess = NoSession /\ late = FALSE /\ alarm = Null /\ client = FALSE
    /\ box = NoBox /\ up = NoUpstream
    /\ pc = [client |-> "idle", upstream |-> "idle", alarm |-> "idle"]
    /\ turn = NoTurn /\ attempt = NoAttempt /\ switching = FALSE /\ replay = 0
    /\ closing = {} /\ ending = "no"
    /\ usage = [meter |-> [g \in 1..scenario.frames |-> Null], check |-> {}, outbox |-> {}]
    /\ delivered = {}
    /\ env = [sent |-> 0, said |-> 0, crashes |-> 0, sockets |-> 0, ended |-> {}]
    /\ wrote = <<>> /\ heard = <<>> /\ blames = 0 /\ replays = {}

-----------------------------------------------------------------------------

\* WebSocketStorage.updateAlarm(), run in every transaction that needs it.
UpdateAlarm(s, u) ==
    alarm' = CASE u.outbox # {} -> IF alarm = Null THEN "retry" ELSE alarm
               [] u.outbox = {} /\ s.phase = "awaiting" -> "deadline"
               [] OTHER -> Null

\* What the sockets and queues become when the session is closed.
Emptied(b) == [b EXCEPT !.queue = <<>>, !.shut = TRUE]
Disconnected(u) == [u EXCEPT !.conn = 0, !.events = <<>>, !.listening = FALSE]

\* A task that is done with its message or event takes the next one at once.
Done(t) == pc' = [pc EXCEPT ![t] = "idle"]
TakeMessage(b) ==
    IF b.queue = <<>> THEN [b EXCEPT !.cur = NoMessage]
    ELSE [b EXCEPT !.cur = Head(b.queue), !.queue = Tail(@)]
TakeEvent(u) ==
    IF u.events = <<>> THEN [u EXCEPT !.cur = NoEvent]
    ELSE [u EXCEPT !.cur = Head(u.events), !.events = Tail(@)]
Rest(t, b) == IF t = "client" THEN TakeMessage(b) ELSE b
Drained(t, u) == IF t = "upstream" THEN TakeEvent(u) ELSE u
Released(t) == switching' = IF t = "upstream" THEN FALSE ELSE switching

\* closeAll(): only the caller that moves the session to Closed goes on.
CloseFrom(t, s, expected, outcome) ==
    IF s.phase \in expected
    THEN /\ sess' = [s EXCEPT !.phase = "closed"]
         /\ box' = Rest(t, Emptied(box)) /\ up' = Drained(t, Disconnected(up))
         /\ client' = FALSE /\ ending' = outcome
         /\ UpdateAlarm(sess', usage')
    ELSE /\ sess' = s /\ box' = Rest(t, box) /\ up' = Drained(t, up) /\ UNCHANGED <<client, ending>>
         /\ IF s # sess \/ usage'.outbox # usage.outbox THEN UpdateAlarm(s, usage')
            ELSE UNCHANGED alarm

\* A step that does not close.
Continue(s, b, u) ==
    /\ sess' = s /\ box' = b /\ up' = u /\ UNCHANGED <<client, ending>>
    /\ IF s # sess THEN UpdateAlarm(s, usage') ELSE UNCHANGED alarm

\* Mutant: the checkpoint is dropped before the terminal record is stored.
FinishedEarly(u, gs, outcome) ==
    [u EXCEPT !.check = @ \ gs, !.meter = [g \in DOMAIN u.meter |->
        IF g \in gs /\ u.meter[g] = "live"
        THEN IF scenario.metered THEN outcome ELSE "done"
        ELSE u.meter[g]]]

\* The rest of closeAll(): the first frame's account is metered, what is still
\* running is finished, and the session is removed.
Checkpointed(u, g) ==
    IF scenario.metered /\ u.meter[g] = "live" THEN [u EXCEPT !.check = @ \union {g}] ELSE u
Settled(u) == IF attempt.live /\ IsCodex(attempt.target) THEN Checkpointed(u, 1) ELSE u
Finished(u, gs, outcome) ==
    [u EXCEPT !.meter = [g \in DOMAIN u.meter |->
        IF g \in gs /\ u.meter[g] = "live"
        THEN IF scenario.metered THEN outcome ELSE "done"
        ELSE u.meter[g]]]
End ==
    /\ ending # "no" /\ ending' = "no"
    /\ usage' = Finished(Settled(usage), Generations, ending)
    /\ attempt' = [attempt EXCEPT !.live = FALSE]
    /\ sess' = NoSession /\ UpdateAlarm(NoSession, usage)
    /\ UNCHANGED <<scenario, late, client, delivered, env, box, up, pc, turn,
                   switching, replay, closing, history>>

\* WebSocketHealth.fail() and complete(): a provider is judged once for every
\* response that was started.
Blamed(s) == IF s.phase \in {"connecting", "open"} THEN [s EXCEPT !.recorded = TRUE] ELSE s
Judged(s) == IF s.phase \in {"connecting", "open"} /\ ~s.recorded THEN 1 ELSE 0
Completed(s) ==
    IF s.phase = "open" THEN [s EXCEPT !.active = FALSE, !.recorded = TRUE] ELSE s
Inactive(s) == IF s.phase = "open" THEN [s EXCEPT !.active = FALSE] ELSE s
ShouldRecord(s) ==
    /\ ~s.recorded
    /\ s.phase = "connecting" \/ (s.phase = "open" /\ s.active)

-----------------------------------------------------------------------------
\* fetch(): the session of a new connection.
Connect ==
    /\ sess.phase = Null /\ env.sent = 0 /\ env.crashes = 0 /\ ~client
    /\ closing = {} /\ ~box.shut
    /\ sess' = [NoSession EXCEPT !.phase = "awaiting"] /\ client' = TRUE
    /\ UpdateAlarm(sess', usage)
    /\ UNCHANGED <<scenario, late, usage, delivered, env, memory, history>>

Bytes(queue) == FoldSeq(LAMBDA m, sum : m.size + sum, 0, queue)
Active(m) == IF m.kind = Null THEN 0 ELSE 1
\* enqueueClientMessage(): the budget counts the message being processed.
Fits(queue, cur, size) ==
    /\ Bytes(queue) + cur.size + size <= MaxBytes
    /\ Len(queue) + Active(cur) < MaxMessages

ClientSends ==
    /\ client /\ env.sent < scenario.frames
    /\ env' = [env EXCEPT !.sent = @ + 1]
    /\ \E kind \in scenario.kinds, size \in scenario.sizes :
         LET message == [kind |-> kind, size |-> size, sequence |-> box.received + 1, gen |-> 0]
             more == [box EXCEPT !.received = @ + 1, !.queue = Append(@, message)] IN
         IF box.shut THEN UNCHANGED <<box, closing>>
         ELSE IF Fits(box.queue, box.cur, size)
         THEN box' = (IF box.cur = NoMessage THEN TakeMessage(more) ELSE more) /\ UNCHANGED closing
         ELSE box' = Emptied(box) /\ closing' = closing \union {"failed"}
    /\ UNCHANGED <<scenario, sess, late, alarm, client, usage, delivered, up, pc, turn,
                   attempt, switching, replay, ending, history>>

\* webSocketClose() and webSocketError() of the client socket.
ClientLeaves ==
    /\ client /\ scenario.leaves /\ client' = FALSE
    /\ box' = Emptied(box) /\ closing' = closing \union {"cancelled"}
    /\ UNCHANGED <<scenario, sess, late, alarm, usage, delivered, env, up, pc, turn,
                   attempt, switching, replay, ending, history>>

CloseRequested ==
    /\ \E outcome \in closing :
          /\ closing' = closing \ {outcome}
          /\ usage' = usage /\ CloseFrom("none", sess, Live, outcome)
    /\ UNCHANGED <<scenario, late, delivered, env, pc, turn, attempt, switching,
                   replay, history>>

-----------------------------------------------------------------------------
\* processClientMessage(): a message that comes too late is dropped.
SkipClient ==
    /\ pc.client = "idle" /\ box.cur # NoMessage /\ ~switching
    /\ box.shut \/ sess.phase \notin {"awaiting", "open"}
    /\ box' = TakeMessage(box)
    /\ UNCHANGED <<scenario, sess, late, alarm, client, usage, delivered, env, up, pc,
                   turn, attempt, switching, replay, closing, ending, history>>

Ready == pc.client = "idle" /\ box.cur # NoMessage /\ ~switching /\ ~box.shut
NextGeneration == Cardinality({g \in Generations : usage.meter[g] # Null}) + 1
\* WebSocketUsage.start()
Started == Checkpointed([usage EXCEPT !.meter[NextGeneration] = "live"], NextGeneration)

\* processFirstFrame(), up to the configuration.
FirstFrame ==
    /\ Ready /\ sess.phase = "awaiting"
    /\ IF box.cur.kind \in {"create", "continue"}
       THEN /\ usage' = Started
            /\ Continue([sess EXCEPT !.phase = "routing"],
                        [box EXCEPT !.cur.gen = NextGeneration], up)
            /\ pc' = [pc EXCEPT !.client = "context"] /\ late' = FALSE
       ELSE /\ usage' = usage /\ Done("client") /\ UNCHANGED late
            /\ CloseFrom("client", sess, Live, "failed")
    /\ UNCHANGED <<scenario, delivered, env, turn, attempt, switching, replay,
                   closing, history>>

\* The configuration, the client's key and the route of the first frame.
Context ==
    /\ pc.client = "context" /\ usage' = usage
    /\ \/ /\ Done("client") /\ UNCHANGED attempt
          /\ \/ turn' = [kind |-> "active", sequence |-> 1, replayable |-> TRUE]
             \/ UNCHANGED turn
          /\ CloseFrom("client", sess, Live, "failed")
       \/ /\ sess.phase = "routing"
          /\ turn' = [kind |-> "active", sequence |-> 1, replayable |-> TRUE]
          /\ attempt' = [NoAttempt EXCEPT !.live = TRUE,
                            !.continues = (box.cur.kind = "continue")]
          /\ pc' = [pc EXCEPT !.client = "select"]
          /\ Continue(sess, box, up)
       \/ /\ sess.phase # "routing" /\ Done("client")
          /\ Continue(sess, Rest("client", box), up) /\ UNCHANGED <<turn, attempt>>
    /\ UNCHANGED <<scenario, late, delivered, env, switching, replay, closing, history>>

-----------------------------------------------------------------------------
\* routeFirstFrame(): an account for the first frame, by either task.
Selectable ==
    {a \in scenario.accounts \ attempt.excluded : attempt.locked \in {Null, Provider[a]}}

\* requireFullReplay(): what else the connection was doing then, and whether it
\* had sent anything.
AskReplay(gen, sequence) ==
    replays' = replays \union
        {[alone |-> \A g \in Generations \ {gen} : usage.meter[g] # "live",
          last |-> box.queue = <<>> /\ box.cur.sequence \in {0, sequence},
          fresh |-> wrote = <<>>]}

Choose(t) ==
    /\ pc[t] = "select" /\ usage' = usage
    /\ \E a \in Selectable :
         /\ attempt' = [attempt EXCEPT !.target = a]
         /\ \/ /\ attempt.continues /\ IsCodex(a)
               /\ Done(t) /\ Released(t)
               /\ CloseFrom(t, sess, Live, "failed") /\ AskReplay(1, 1)
            \/ /\ ~(attempt.continues /\ IsCodex(a)) /\ sess.phase = "routing"
               /\ pc' = [pc EXCEPT ![t] = "handshake"] /\ UNCHANGED <<switching, replays>>
               /\ Continue([sess EXCEPT !.phase = "connecting", !.account = a], box, up)
            \/ /\ ~(attempt.continues /\ IsCodex(a)) /\ sess.phase # "routing"
               /\ Done(t) /\ Released(t) /\ UNCHANGED replays
               /\ Continue(sess, Rest(t, box), Drained(t, up))
    /\ UNCHANGED <<scenario, late, delivered, env, turn, replay, closing, wrote, heard, blames>>

\* Nobody is free: one reset is asked for, then the frame is refused.
Unroutable(t) ==
    /\ pc[t] = "select" /\ usage' = usage
    /\ \/ /\ ~attempt.reset
          /\ attempt' = [attempt EXCEPT !.reset = TRUE, !.excluded = {}]
          /\ Continue(sess, box, up) /\ UNCHANGED <<pc, switching>>
       \/ /\ Done(t) /\ Released(t) /\ UNCHANGED attempt
          /\ CloseFrom(t, sess, Live, "failed")
    /\ UNCHANGED <<scenario, late, delivered, env, turn, replay, closing, history>>

\* connectUpstream(): the handshake ends.
Handshake(t) ==
    /\ pc[t] = "handshake" /\ usage' = usage
    /\ \/ /\ sess.phase # "connecting" /\ Done(t) /\ Released(t)    \* a late upgrade
          /\ Continue(sess, Rest(t, box), Drained(t, up)) /\ UNCHANGED <<env, blames>>
       \/ /\ sess.phase = "connecting" /\ Done(t) /\ Released(t)    \* no upgrade
          /\ \E blame \in BOOLEAN :
                /\ CloseFrom(t, IF blame THEN Blamed(sess) ELSE sess, Live, "failed")
                /\ blames' = IF blame THEN blames + Judged(sess) ELSE blames
          /\ UNCHANGED env
       \/ /\ sess.phase = "connecting" /\ IsCodex(sess.account)     \* its limit is reached
          /\ Continue([sess EXCEPT !.phase = "routing"], box, up)
          /\ pc' = [pc EXCEPT ![t] = "exclude"] /\ UNCHANGED <<switching, env, blames>>
       \/ /\ sess.phase = "connecting" /\ env.sockets < scenario.sockets
          /\ env' = [env EXCEPT !.sockets = @ + 1, !.ended = {}]
          /\ Continue(sess, box, [up EXCEPT !.conn = env'.sockets, !.events = <<>>,
                                            !.listening = TRUE])
          /\ pc' = [pc EXCEPT ![t] = "open"] /\ UNCHANGED <<switching, blames>>
    /\ UNCHANGED <<scenario, late, delivered, turn, attempt, replay, closing, wrote,
                   heard, replays>>

\* The session opens and the first frame is sent, or the socket is discarded.
Open(t) ==
    /\ pc[t] = "open" /\ usage' = usage /\ Done(t) /\ Released(t)
    /\ IF sess.phase = "connecting"
       THEN /\ Continue([sess EXCEPT !.phase = "open", !.active = TRUE, !.recorded = FALSE],
                        Rest(t, box), Drained(t, up))
            /\ wrote' = Append(wrote, [socket |-> up.conn, sequence |-> 1, gen |-> 1])
            /\ blames' = 0
       ELSE /\ Continue(sess, Rest(t, box), Disconnected(Drained(t, up)))
            /\ UNCHANGED <<wrote, blames>>
    /\ UNCHANGED <<scenario, late, delivered, env, turn, attempt, replay, closing, heard,
                   replays>>

\* excludeAccount(): only a limit that was stored lets the frame move on.
Exclude(t) ==
    /\ pc[t] = "exclude"
    /\ \/ /\ usage' = usage /\ Continue(sess, box, up)
          /\ attempt' = [attempt EXCEPT !.locked = Provider[attempt.target], !.target = Null,
                            !.excluded = @ \union {attempt.target}, !.exhausted = TRUE]
          /\ pc' = [pc EXCEPT ![t] = "select"] /\ UNCHANGED switching
       \/ /\ usage' = Settled(usage) /\ attempt' = [attempt EXCEPT !.live = FALSE]
          /\ Done(t) /\ Released(t)
          /\ CloseFrom(t, sess, Live, "failed")
    /\ UNCHANGED <<scenario, late, delivered, env, turn, replay, closing, history>>

-----------------------------------------------------------------------------
Sent == Append(wrote, [socket |-> up.conn, sequence |-> box.cur.sequence, gen |-> box.cur.gen])
FrameGone == CloseFrom("client", Blamed(sess), Live, "failed")

\* processOpenMessage(): a frame that starts no response, or an invalid one.
OtherFrame ==
    /\ Ready /\ sess.phase = "open" /\ box.cur.kind \in {"other", "bad"} /\ usage' = usage
    /\ CASE box.cur.kind = "bad" ->
              CloseFrom("client", sess, Live, "failed") /\ UNCHANGED <<wrote, blames>>
         [] box.cur.kind = "other" /\ up.conn = 0 ->
              FrameGone /\ blames' = blames + Judged(sess) /\ UNCHANGED wrote
         [] OTHER ->
              /\ Continue(sess, Rest("client", box), up)
              /\ wrote' = Sent /\ UNCHANGED blames
    /\ UNCHANGED <<scenario, late, delivered, env, pc, turn, attempt, switching, replay,
                   closing, heard, replays>>

\* Overlapping turns make it unknown which response an event belongs to.
NextTurn ==
    IF turn.kind = "idle"
    THEN [kind |-> "active", sequence |-> box.cur.sequence, replayable |-> TRUE] ELSE NoTurn

\* A later response.create, up to its configuration.
NextFrame ==
    /\ Ready /\ sess.phase = "open" /\ box.cur.kind \in {"create", "continue"}
    /\ turn' = NextTurn /\ usage' = Started
    /\ Continue(sess, [box EXCEPT !.cur.gen = NextGeneration], up)
    /\ pc' = [pc EXCEPT !.client = "recheck"]
    /\ UNCHANGED <<scenario, late, delivered, env, attempt, switching, replay, closing,
                   history>>

IsCurrentTurn(sequence) ==
    turn.kind = "active" /\ turn.sequence = sequence /\ box.received = sequence

\* The account is looked up again for every frame: it must be the connected one.
Recheck ==
    /\ pc.client = "recheck" /\ usage' = usage
    /\ \/ /\ sess.phase = "open" /\ pc' = [pc EXCEPT !.client = "activate"]
          /\ Continue(sess, box, up) /\ UNCHANGED replays
       \/ /\ sess.phase # "open" /\ Done("client")
          /\ Continue(sess, Rest("client", box), up) /\ UNCHANGED replays
       \/ /\ Done("client")                              \* it is not, or cannot be known
          /\ CloseFrom("client", sess, Live, "failed")
          /\ IF /\ sess.phase = "open" /\ IsCodex(sess.account) /\ turn.replayable
                /\ IsCurrentTurn(box.cur.sequence)
             THEN AskReplay(box.cur.gen, box.cur.sequence) ELSE UNCHANGED replays
    /\ UNCHANGED <<scenario, late, delivered, env, turn, attempt, switching, replay,
                   closing, wrote, heard, blames>>

\* The frame is metered for its account, the response starts, the frame is sent.
Activate ==
    /\ pc.client = "activate" /\ Done("client")
    /\ usage' = Checkpointed(usage, box.cur.gen)
    /\ CASE sess.phase # "open" ->
              Continue(sess, Rest("client", box), up) /\ UNCHANGED <<wrote, blames>>
         [] sess.phase = "open" /\ up.conn = 0 ->
              FrameGone /\ blames' = 1 /\ UNCHANGED wrote
         [] OTHER ->
              /\ Continue([sess EXCEPT !.active = TRUE, !.recorded = FALSE],
                          Rest("client", box), up)
              /\ wrote' = Sent /\ blames' = 0
    /\ UNCHANGED <<scenario, late, delivered, env, turn, attempt, switching, replay,
                   closing, heard, replays>>

-----------------------------------------------------------------------------
\* The upstream answers a frame it was sent, or says something on its own, and
\* UpstreamWebSocket.enqueue() takes it.
Answerable(socket) ==
    {0} \union ({w.gen : w \in {x \in ToSet(wrote) : x.socket = socket}} \ env.ended)
Kept(u) == IF u.cur = NoEvent THEN TakeEvent(u) ELSE u
Enqueued(event) ==
    IF Fits(up.events, up.cur, event.size)
    THEN Kept([up EXCEPT !.events = Append(@, event)])
    ELSE [up EXCEPT !.listening = FALSE,
             !.events = <<[event EXCEPT !.kind = "failure", !.size = 0]>>]
UpstreamSays ==
    /\ up.conn # 0 /\ up.listening /\ env.said < scenario.events
    /\ \E gen \in Answerable(up.conn), size \in scenario.sizes :
       \E kind \in IF gen = 0 THEN {"delta"} ELSE {"delta", "completed", "failed", "error", "limit"} :
          /\ up' = Enqueued([kind |-> kind, size |-> size, socket |-> up.conn, gen |-> gen])
          /\ env' = [env EXCEPT !.said = @ + 1,
                        !.ended = IF kind = "delta" THEN @ ELSE @ \union {gen}]
    /\ UNCHANGED <<scenario, sess, late, alarm, client, usage, delivered, box, pc, turn,
                   attempt, switching, replay, closing, ending, history>>

\* A close or an error: always accepted, and nothing after it.
UpstreamEnds ==
    /\ up.conn # 0 /\ up.listening /\ scenario.leaves
    /\ up' = Kept([up EXCEPT !.listening = FALSE, !.events =
                 Append(@, [kind |-> "close", size |-> 0, socket |-> up.conn, gen |-> 0])])
    /\ UNCHANGED <<scenario, sess, late, alarm, client, usage, delivered, env, box, pc, turn,
                   attempt, switching, replay, closing, ending, history>>

\* drain(): the event in hand is the connected socket's, or it is skipped.
Stale == pc.upstream = "idle" /\ up.cur # NoEvent /\ up.cur.socket # up.conn
Skip ==
    /\ Stale /\ up' = TakeEvent(up)
    /\ UNCHANGED <<scenario, sess, late, alarm, client, usage, delivered, env, box, pc, turn,
                   attempt, switching, replay, closing, ending, history>>
Current == pc.upstream = "idle" /\ up.cur # NoEvent /\ up.cur.socket = up.conn

\* handleUpstreamClose(), handleUpstreamError() and the failure handler.
Control ==
    /\ Current /\ up.cur.kind \in {"close", "failure"} /\ usage' = usage
    /\ LET blame == up.cur.kind = "close" /\ ShouldRecord(sess) IN
       /\ CloseFrom("upstream", IF blame THEN Blamed(sess) ELSE sess, Live, "failed")
       /\ blames' = IF blame THEN blames + Judged(sess) ELSE blames
    /\ UNCHANGED <<scenario, late, delivered, env, pc, turn, attempt, switching, replay, closing,
                   wrote, heard, replays>>

IsLimit == up.cur.kind = "limit" /\ IsCodex(sess.account)
\* Mutant: frames the client sent since do not matter.
MaySwitchAnyway == IsLimit /\ attempt.live

\* The first frame may move: only this error was heard, and only it was sent.
MaySwitch == IsLimit /\ attempt.live /\ box.received <= 1

\* processUpstreamMessage(), up to its first wait.
Observe ==
    /\ Current /\ up.cur.kind \notin {"close", "failure"}
    /\ replay' = IF turn.kind = "active" /\ turn.replayable THEN turn.sequence ELSE 0
    /\ turn' = [turn EXCEPT !.replayable = FALSE]
    /\ CASE sess.phase # "open" ->
              /\ Done("upstream") /\ usage' = usage
              /\ Continue(sess, box, Drained("upstream", up)) /\ UNCHANGED <<attempt, switching>>
         [] sess.phase = "open" /\ MaySwitch ->
              /\ switching' = TRUE /\ pc' = [pc EXCEPT !.upstream = "exclude"] /\ usage' = usage
              /\ Continue([sess EXCEPT !.phase = "routing", !.active = FALSE,
                              !.recorded = FALSE], box, Disconnected(up))
              /\ UNCHANGED attempt
         [] OTHER ->
              /\ usage' = Settled(usage) /\ attempt' = [attempt EXCEPT !.live = FALSE]
              /\ Continue(sess, box, up) /\ UNCHANGED switching
              /\ pc' = [pc EXCEPT !.upstream = IF IsLimit THEN "cool" ELSE "forward"]
    /\ UNCHANGED <<scenario, late, delivered, env, closing, history>>

\* The limit of an account is stored.  Where the turn is still the only thing
\* going on, the client is asked for its full input; else the error is passed on.
Cool ==
    /\ pc.upstream = "cool"
    /\ \E cooled \in BOOLEAN :
         IF cooled /\ replay # 0 /\ IsCurrentTurn(replay)
         THEN /\ usage' = Finished(usage, {up.cur.gen}, "failed") /\ Done("upstream")
              /\ CloseFrom("upstream", sess, Live, "failed")
              /\ AskReplay(up.cur.gen, replay)
         ELSE /\ usage' = usage /\ pc' = [pc EXCEPT !.upstream = "forward"]
              /\ Continue(sess, box, up) /\ UNCHANGED replays
    /\ UNCHANGED <<scenario, late, delivered, env, turn, attempt, switching, replay, closing,
                   wrote, heard, blames>>

\* A response that ends leaves the turn, if there is one to leave.
TurnAfter == IF turn.kind = "active" THEN [NoTurn EXCEPT !.kind = "idle"] ELSE turn

\* The rest of processUpstreamMessage(): health, the client, the usage record.
Forward ==
    /\ pc.upstream = "forward" /\ Done("upstream")
    /\ turn' = IF up.cur.kind \in {"completed", "failed"} THEN TurnAfter ELSE turn
    /\ heard' = IF client THEN Append(heard, up.cur.socket) ELSE heard
    /\ \E blame \in IF up.cur.kind \in {"failed", "error", "limit"} THEN BOOLEAN ELSE {FALSE} :
       LET judged == IF blame THEN Blamed(sess) ELSE sess
           u == Drained("upstream", up)
           by(outcome) == Finished(usage, {up.cur.gen}, outcome)
           done == up.cur.kind = "completed" /\ client /\ judged.phase = "open" IN
       /\ blames' = blames + (IF blame THEN Judged(sess) ELSE 0)
                           + (IF done THEN Judged(judged) ELSE 0)
       /\ CASE ~client -> usage' = usage /\ CloseFrom("upstream", judged, Live, "failed")
            [] client /\ up.cur.kind = "delta" -> usage' = usage /\ Continue(judged, box, u)
            [] client /\ up.cur.kind = "completed" ->
                 usage' = by("success") /\ Continue(Completed(judged), box, u)
            [] client /\ up.cur.kind = "failed" ->
                 usage' = by("failed") /\ Continue(Inactive(judged), box, u)
            [] OTHER ->
                 usage' = by("failed") /\ CloseFrom("upstream", Inactive(judged), Live, "failed")
    /\ UNCHANGED <<scenario, late, delivered, env, attempt, switching, replay, closing, wrote,
                   replays>>

-----------------------------------------------------------------------------
Terminal == {"success", "failed", "cancelled", "incomplete"}
Record(g, outcome) == [gen |-> g, outcome |-> outcome]

\* WebSocketStorage.finish(): the terminal record and its wake-up together.
StoreTerminal ==
    /\ \E g \in Generations :
         /\ usage.meter[g] \in Terminal
         /\ usage' = [usage EXCEPT !.meter[g] = "sending", !.check = @ \ {g},
                         !.outbox = @ \union {Record(g, usage.meter[g])}]
         /\ UpdateAlarm(sess, usage')
    /\ UNCHANGED <<scenario, sess, late, client, delivered, env, memory, history>>

\* The record reaches the sink and is acknowledged, or waits for the alarm.
Settle ==
    /\ \E g \in Generations :
         LET mine == {r \in usage.outbox : r.gen = g} IN
         /\ usage.meter[g] = "sending"
         /\ \E sent \in {{}, mine} :
              /\ delivered' = delivered \union sent
              /\ usage' = [usage EXCEPT !.meter[g] = "done", !.outbox = @ \ sent]
         /\ UpdateAlarm(sess, usage')
    /\ UNCHANGED <<scenario, sess, late, client, env, memory, history>>

\* alarm(): what is pending is delivered, then the deadline is looked at.
Fire ==
    /\ pc.alarm = "idle" /\ alarm' = Null
    /\ alarm = "retry" \/ (alarm = "deadline" /\ late)
    /\ pc' = [pc EXCEPT !.alarm = "flush"]
    /\ UNCHANGED <<scenario, sess, late, client, usage, delivered, env, box, up, turn,
                   attempt, switching, replay, closing, ending, history>>
Flush ==
    /\ pc.alarm = "flush"
    /\ \E sent \in SUBSET usage.outbox :
         /\ delivered' = delivered \union sent
         /\ usage' = [usage EXCEPT !.outbox = @ \ sent]
    /\ pc' = [pc EXCEPT !.alarm = "check"]
    /\ UpdateAlarm(sess, usage')
    /\ UNCHANGED <<scenario, sess, late, client, env, box, up, turn, attempt, switching,
                   replay, closing, ending, history>>
\* Mutant: the handler delivers usage and leaves the deadline alone.
AlarmCheckUsageOnly ==
    /\ pc.alarm = "check" /\ Done("alarm")
    /\ UNCHANGED <<scenario, sess, late, alarm, client, usage, delivered, env, box, up, turn,
                   attempt, switching, replay, closing, ending, history>>

AlarmCheck ==
    /\ pc.alarm = "check" /\ Done("alarm") /\ usage' = usage
    /\ IF sess.phase = "awaiting" /\ late
       THEN CloseFrom("none", sess, {"awaiting"}, "failed")
       ELSE /\ UNCHANGED <<sess, box, up, client, ending>>
            /\ UpdateAlarm(sess, usage)
    /\ UNCHANGED <<scenario, late, delivered, env, turn, attempt, switching, replay, closing,
                   history>>

DeadlinePasses ==
    /\ sess.phase = "awaiting" /\ ~late /\ late' = TRUE
    /\ UNCHANGED <<scenario, sess, alarm, client, usage, delivered, env, memory, history>>

\* recoverUsage(): generations that were running when the object died.
Recovered ==
    [meter |-> [g \in Generations |-> IF usage.meter[g] = Null THEN Null ELSE "done"],
     check |-> {},
     outbox |-> usage.outbox \union {Record(g, "incomplete") : g \in usage.check}]

\* The object is lost with everything but its storage, and built again by its
\* alarm or by the client's socket, if that survived.
Crash ==
    /\ env.crashes < scenario.crashes /\ env' = [env EXCEPT !.crashes = @ + 1]
    /\ box' = NoBox /\ up' = NoUpstream /\ client' \in {FALSE, client}
    /\ pc' = [client |-> "idle", upstream |-> "idle", alarm |-> "idle"]
    /\ turn' = NoTurn /\ attempt' = NoAttempt /\ switching' = FALSE /\ replay' = 0
    /\ closing' \in {{}, IF client' THEN {} ELSE {"cancelled"}} /\ ending' = "no"
    /\ usage' = Recovered
    /\ IF pc.alarm = "idle" THEN UpdateAlarm(sess, Recovered) ELSE alarm' = "retry"
    /\ UNCHANGED <<scenario, sess, late, delivered, history>>

Step ==
    \/ CloseRequested \/ End \/ SkipClient \/ FirstFrame \/ Context
    \/ \E t \in {"client", "upstream"} :
          Choose(t) \/ Unroutable(t) \/ Handshake(t) \/ Open(t) \/ Exclude(t)
    \/ OtherFrame \/ NextFrame \/ Recheck \/ Activate \/ Skip \/ Control \/ Observe
    \/ Cool \/ Forward \/ StoreTerminal \/ Settle \/ Fire \/ Flush \/ AlarmCheck
Next ==
    \/ Step \/ DeadlinePasses
    \/ Connect \/ ClientSends \/ ClientLeaves \/ UpstreamSays \/ UpstreamEnds \/ Crash

Fairness == WF_vars(Step) /\ WF_vars(DeadlinePasses)

Spec == Init /\ [][Next]_vars /\ Fairness

-----------------------------------------------------------------------------
\* The session, and what the tasks hold while they are at work.
TypeOK ==
    /\ sess.phase \in Live \union {Null, "closed"}
    /\ sess.account \in DOMAIN Provider \union {Null}
    /\ pc.client # "idle" => box.cur # NoMessage
    /\ pc.upstream # "idle" => up.cur # NoEvent
    /\ \A g \in Generations : usage.meter[g] \in Terminal \union {Null, "live", "sending", "done"}

\* Neither direction ever holds more than its budget, the message being
\* processed included; only a final control event is kept beyond it.
BufferBudget ==
    LET said == SelectSeq(up.events, LAMBDA e : e.kind \notin {"close", "failure"}) IN
    /\ Bytes(box.queue) + box.cur.size <= MaxBytes
    /\ Len(box.queue) + Active(box.cur) <= MaxMessages
    /\ Bytes(said) + up.cur.size <= MaxBytes
    /\ Len(said) + Active(up.cur) <= MaxMessages

\* The client hears one account: an account that was given up was sent the
\* first frame and nothing else, and nothing it said reached the client.
OneVoice ==
    \A i, j \in DOMAIN wrote : wrote[i].socket < wrote[j].socket =>
        /\ wrote[i].sequence = 1
        /\ \A k \in DOMAIN heard : heard[k] # wrote[i].socket

\* A provider is judged at most once for a response.
OutcomeOnce == blames <= 1

\* A client is asked to send its full input again only when the turn that
\* failed was all the connection was doing: no other response is running, and
\* no later frame is waiting unless nothing was sent upstream yet.
FullReplayIsSafe == \A r \in replays : r.alone /\ (r.last \/ r.fresh)

\* Every generation that was started is on record, exactly once: in its
\* checkpoint, or with one outcome in the outbox or in the sink.
UsageIsExact == scenario.metered =>
    LET ended == usage.outbox \union delivered IN
    /\ \A g \in Generations : usage.meter[g] # Null =>
          (g \in usage.check) # (\E r \in ended : r.gen = g)
    /\ \A r, q \in ended : r.gen = q.gen => r = q

\* What waits for the alarm has one: a record to deliver, a frame to expect.
WakeUpSurvives ==
    usage.outbox # {} \/ sess.phase = "awaiting" => alarm # Null \/ pc.alarm # "idle"

\* A connection that never sends its first frame does not stay: a session
\* awaits a frame once, and not for ever.
AwaitingEnds == []<>(sess.phase # "awaiting")
=============================================================================
