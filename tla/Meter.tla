--------------------------------- MODULE Meter ---------------------------------
(***************************************************************************)
(* The meter of one inference request (telemetry/meter.ts) and the         *)
(* observers that read the response on its way to the client (stream.ts,   *)
(* response-observer.ts, generation.ts, inference-metadata.ts, retry.ts).  *)
(*                                                                         *)
(* A response is a sequence of pieces, of which the client asks for one    *)
(* after the other, until the body ends or breaks or the client leaves.    *)
(* A piece is a line of an event stream ("data", a whole line; "part" and  *)
(* "rest", its text and its end; "end", the blank line), a JSON body       *)
(* ("json"), or bytes that tell no format ("prefix", "junk").              *)
(*                                                                         *)
(* Times are numbers of pieces that the client has been handed.  Costs are *)
(* Pricing's; usage is the last counters that were seen.                   *)
(***************************************************************************)
EXTENDS Naturals, Sequences

CONSTANTS
    Nothing,     \* null
    Metered,     \* requests: the responses that were discarded, and the last one
    Selectable   \* accounts that may be selected

VARIABLES
    request,     \* responses that are discarded for a retry, and the last one
    handed,      \* pieces handed to the client
    reader,      \* "waiting", "idle", "reading" or "closed"
    closing,     \* how the body ended: "end", "error" or "cancel"
    observer,    \* the state of the observer
    meter,       \* the fields of the meter
    records      \* what was sent to the sink

meterVars == <<request, handed, reader, closing, observer, meter, records>>

-----------------------------------------------------------------------------
(* Events, as far as they differ to a meter: their type (the head of the     *)
(* data), the model content they carry, and what they tell of the response.  *)
(* Content is a sequence of parts: text, reasoning ("thinking"), or nothing  *)
(* yet ("empty").                                                            *)

PlainEvent == [type |-> "plain", content |-> <<>>, usage |-> Nothing, model |-> Nothing,
               outcome |-> "none", terminal |-> FALSE, streamEnd |-> FALSE, large |-> FALSE]

Delta(type, content) == [PlainEvent EXCEPT !.type = type, !.content = content]
Mark == [PlainEvent EXCEPT !.type = "[DONE]"]
Broken == [PlainEvent EXCEPT !.type = "invalid"]
Large == [PlainEvent EXCEPT !.large = TRUE]
Terminal(outcome, usage, model) ==
    [PlainEvent EXCEPT !.outcome = outcome, !.usage = usage, !.model = model,
                       !.terminal = TRUE, !.streamEnd = TRUE]

handled == request.last

Now == Len(handed)
Parts(e) == {e.content[i] : i \in DOMAIN e.content}

\* deltaSignal: what a delta can carry at most.  A block delta may be text.
DeltaSignal(type) ==
    CASE type \in {"text", "block"} -> "text" [] type = "generation" -> "generation" [] OTHER -> "none"

\* contentSignal
ContentSignal(part) ==
    CASE part = "text" -> "text" [] part = "thinking" -> "generation" [] OTHER -> "none"

\* combine and collect: text counts most.
Collect(signals) ==
    CASE "text" \in signals -> "text" [] "generation" \in signals -> "generation" [] OTHER -> "none"

\* outputSignal: an item of reasoning or a tool call is no text, and what
\* others said is no generation.
OutputSignal(e) ==
    LET signals == Collect({ContentSignal(p) : p \in Parts(e)})
    IN  CASE e.type = "message" -> signals
          [] e.type = "call" /\ signals # "none" -> "generation"
          [] OTHER -> "none"

\* generationSignal
GenerationSignal(e) ==
    CASE e.type = "generation" -> IF Parts(e) \ {"empty"} = {} THEN "none" ELSE "generation"
      [] e.type = "text" -> IF Parts(e) \ {"empty"} = {} THEN "none" ELSE "text"
      [] e.type \in {"message", "call", "input"} -> OutputSignal(e)
      [] OTHER -> Collect({ContentSignal(p) : p \in Parts(e)})

\* Deltas matter until the first times are known.
NeedsEvent(m, e) ==
    CASE DeltaSignal(e.type) = "text" -> m.firstText = Nothing
      [] DeltaSignal(e.type) = "generation" -> m.ttft = Nothing
      [] OTHER -> TRUE

-----------------------------------------------------------------------------
(* ResponseObserver and SseObserver.  A step gives the next state and what   *)
(* it tells the meter: an event, an issue, [DONE], the first data.  Only a   *)
(* meter skips events.                                                       *)

Quiet == [event |-> Nothing, issue |-> Nothing, done |-> FALSE, first |-> FALSE]
Parser(format) ==
    [kind |-> format, data |-> Nothing, half |-> Nothing, dropping |-> FALSE, seen |-> FALSE, skips |-> TRUE]
Closed(o) == [o EXCEPT !.kind = "closed"]
Step(o, out) == [observer |-> o, out |-> out]
Fail(o, issue) == Step(Closed(o), [Quiet EXCEPT !.issue = issue])

\* A blank line delivers the event.
Dispatch(o) ==
    LET next == [o EXCEPT !.data = Nothing, !.dropping = FALSE]
    IN  CASE o.dropping \/ o.data = Nothing -> Step(next, Quiet)
          [] o.data = Mark -> Step(next, [Quiet EXCEPT !.done = TRUE])
          [] o.skips /\ ~NeedsEvent(meter, o.data) -> Step(next, Quiet)
          [] o.data = Broken -> Step(next, [Quiet EXCEPT !.issue = "invalid_sse_json"])
          [] OTHER -> Step(next, [Quiet EXCEPT !.event = o.data])

\* A data line is complete.  What is too large is dropped with its event, once.
DataLine(o, e) ==
    LET first == ~o.seen /\ e # Mark
        dropped == e.large /\ ~o.dropping
    IN  Step([o EXCEPT !.half = Nothing, !.seen = @ \/ first, !.dropping = @ \/ e.large,
                       !.data = IF e.large \/ o.dropping THEN Nothing ELSE e],
             [Quiet EXCEPT !.first = first,
                           !.issue = IF dropped THEN "sse_event_too_large" ELSE Nothing])

\* Half a line is kept, unless it is too large already.
Part(o, e) ==
    IF e.large THEN Step([o EXCEPT !.half = e, !.dropping = TRUE, !.data = Nothing],
                         [Quiet EXCEPT !.issue = IF o.dropping THEN Nothing ELSE "sse_event_too_large"])
    ELSE Step([o EXCEPT !.half = e], Quiet)

PushSse(o, p) ==
    CASE p.k = "part" -> Part(o, p.e)
      [] p.k \in {"data", "rest"} -> DataLine(o, p.e)
      [] OTHER -> Dispatch(o)

PushJson(o, p) ==
    IF p.e.large THEN Fail(o, "json_body_too_large") ELSE Step([o EXCEPT !.data = p.e], Quiet)

\* The format of a response without a content type shows in its first bytes.
Detect(o, p) ==
    CASE p.k = "prefix" -> Step(o, Quiet)
      [] p.k = "junk" -> Fail(o, "unsupported_response_format")
      [] p.k = "json" -> PushJson([o EXCEPT !.kind = "json"], p)
      [] OTHER -> PushSse([o EXCEPT !.kind = "sse"], p)

Push(o, p) ==
    CASE o.kind = "auto" -> Detect(o, p)
      [] o.kind = "sse" -> PushSse(o, p)
      [] o.kind = "json" -> PushJson(o, p)
      [] OTHER -> Step(o, Quiet)

\* The body ended: a last event needs no blank line, nor its line an end.
EndSse(o) ==
    IF o.half = Nothing THEN Dispatch(o)
    ELSE LET line == DataLine(o, o.half)
             last == Dispatch(line.observer)
         IN  Step(last.observer, [last.out EXCEPT !.first = line.out.first])

End(o) ==
    CASE o.kind = "auto" -> Fail(o, "unsupported_response_format")
      [] o.kind = "sse" -> EndSse(o)
      [] o.kind = "json" /\ o.data = Broken -> Fail(o, "invalid_response_json")
      [] o.kind = "json" -> Step(Closed(o), [Quiet EXCEPT !.event = o.data])
      [] OTHER -> Step(o, Quiet)

-----------------------------------------------------------------------------
(* RequestMeter. *)

NewMeter ==
    [sequence |-> 0, target |-> Nothing, outcome |-> "pending", usage |-> Nothing,
     model |-> Nothing, terminalModel |-> FALSE, issue |-> Nothing, stream |-> Nothing,
     firstResponse |-> Nothing, ttft |-> Nothing, firstText |-> Nothing, attempts |-> <<>>, finished |-> FALSE]

OrElse(value, other) == IF value = Nothing THEN other ELSE value
Finished(m) == m.finished

Issue(m, issue) == [m EXCEPT !.issue = OrElse(@, issue)]

\* observeUpstream: what a terminal event says of the model is final.
ObserveUpstream(m, model, terminal) ==
    IF model = Nothing \/ (m.terminalModel /\ ~terminal) THEN m
    ELSE [m EXCEPT !.model = model, !.terminalModel = @ \/ terminal]

Times(m, e, at) ==
    [m EXCEPT !.firstResponse = OrElse(@, at),
              !.ttft = IF GenerationSignal(e) = "none" THEN @ ELSE OrElse(@, at),
              !.firstText = IF GenerationSignal(e) = "text" THEN OrElse(@, at) ELSE @]

Judge(m, e) ==
    CASE e.outcome = "failed" -> [m EXCEPT !.outcome = "failed"]
      [] e.outcome = "incomplete" /\ m.outcome # "failed" -> [m EXCEPT !.outcome = "incomplete"]
      [] OTHER -> m

\* observePayload.  A JSON body has no times.
Observe(m, e, at) ==
    LET upstream == IF handled.passthrough
                    THEN ObserveUpstream(m, e.model, at = Nothing \/ e.terminal) ELSE m
        counted == [upstream EXCEPT !.usage = OrElse(e.usage, @)]
    IN  IF Finished(m) THEN m
        ELSE Judge(IF at = Nothing THEN counted ELSE Times(counted, e, at), e)

HttpOutcome == IF handled.ok THEN "success" ELSE "failed"

\* What a stream has come to, once the client was handed enough of it.
StreamOutcome(m, e) ==
    IF m.outcome \in {"failed", "incomplete"} THEN IF handled.ok THEN m.outcome ELSE HttpOutcome
    ELSE IF e.streamEnd THEN HttpOutcome ELSE m.stream

OnEvent(m, e, format) ==
    IF format # "sse" THEN Observe(m, e, Nothing)
    ELSE LET seen == Observe(m, e, Now') IN [seen EXCEPT !.stream = StreamOutcome(seen, e)]

Heard(m, out, format) ==
    LET first == IF out.first THEN [m EXCEPT !.firstResponse = OrElse(@, Now')] ELSE m
        told == IF out.issue = Nothing THEN first ELSE Issue(first, out.issue)
        done == IF out.done THEN [told EXCEPT !.stream = OrElse(@, HttpOutcome)] ELSE told
    IN  IF out.event = Nothing THEN done ELSE OnEvent(done, out.event, format)

\* finish: a cancelled or failed end overrides what the payload said.
Finish(m, outcome) ==
    IF Finished(m) THEN m
    ELSE [m EXCEPT !.finished = TRUE, !.sequence = 2,
                   !.outcome = IF @ = "pending" \/ outcome \in {"cancelled", "failed"}
                               THEN outcome ELSE @]

Send(m) == records' = Append(records, m)
FinishAndSend(m, outcome) ==
    /\ meter' = Finish(m, outcome)
    /\ IF Finished(m) THEN UNCHANGED records ELSE Send(meter')

\* Only bytes of a known format are observed.
FormatOf(r) == IF r.format # Nothing THEN r.format
               ELSE IF r.passthrough /\ r.detect THEN "auto" ELSE "closed"

-----------------------------------------------------------------------------
(* The life of a request. *)

Unread ==
    /\ handed = <<>> /\ reader = "waiting" /\ closing = Nothing
    /\ observer = Closed(Parser("sse"))
    /\ meter = NewMeter /\ records = <<NewMeter>>

MeterInit == request \in Metered /\ Unread

Waiting == reader = "waiting"

\* select: the first account counts, and is announced.
Select(target) ==
    /\ Waiting
    /\ IF Finished(meter) \/ meter.sequence # 0 THEN UNCHANGED <<meter, records>>
       ELSE /\ meter' = [meter EXCEPT !.target = target, !.sequence = 1]
            /\ Send(meter')
    /\ UNCHANGED <<request, handed, reader, closing, observer>>

-----------------------------------------------------------------------------
(* retryResponseUsage: a response that is discarded for a retry is read for  *)
(* its usage, until it says that it is complete, for a short time.           *)

Completes(e) == e.streamEnd \/ e.outcome = "failed"

Probe(format) ==
    [observer |-> [Parser(format) EXCEPT !.skips = FALSE], usage |-> Nothing,
     complete |-> FALSE, interrupted |-> FALSE]

Probed(s, step) ==
    LET e == step.out.event
    IN  [observer |-> step.observer,
         usage |-> IF e = Nothing THEN s.usage ELSE OrElse(e.usage, s.usage),
         complete |-> s.complete \/ step.out.done \/ (e # Nothing /\ Completes(e)),
         interrupted |-> s.interrupted \/ step.out.issue # Nothing]

ReadForUsage(a) ==
    LET read[n \in 0..Len(a.pieces)] ==
          IF n = 0 THEN Probe(FormatOf(a))
          ELSE LET s == read[n - 1]
               IN  IF s.complete \/ s.interrupted THEN s
                   ELSE Probed(s, Push(s.observer, a.pieces[n]))
    IN  read[Len(a.pieces)]

RetryUsage(a, late) ==
    IF ~a.body \/ FormatOf(a) = "closed" \/ late THEN Nothing
    ELSE LET s == ReadForUsage(a)
             last == Probed(s, End(s.observer))
         IN  IF s.interrupted \/ (a.close = "error" /\ ~s.complete) \/ last.interrupted
             THEN Nothing ELSE last.usage

\* recordAttempts: the response is not good enough; the request is sent again.
Retry(late) ==
    /\ Waiting /\ Len(meter.attempts) < Len(request.discarded)
    /\ meter' = [meter EXCEPT !.attempts =
                   Append(@, RetryUsage(request.discarded[Len(meter.attempts) + 1], late))]
    /\ UNCHANGED <<request, handed, reader, closing, observer, records>>

\* The client left before there was a response: the request is finished, and
\* the response that nobody reads changes nothing.
Leave ==
    /\ Waiting
    /\ FinishAndSend(meter, "cancelled")
    /\ reader' = "closed" /\ closing' = "left"
    /\ UNCHANGED <<request, handed, observer>>

Format == FormatOf(handled)

Respond ==
    /\ Waiting /\ Len(meter.attempts) = Len(request.discarded)
    /\ IF handled.body
       THEN /\ reader' = "idle" /\ observer' = Parser(Format)
            /\ UNCHANGED <<meter, records, closing>>
       ELSE /\ FinishAndSend(meter, HttpOutcome)
            /\ reader' = "closed" /\ closing' = "end" /\ UNCHANGED observer
    /\ UNCHANGED <<request, handed>>

\* The client asks for more.
Pull ==
    /\ reader = "idle" /\ reader' = "reading"
    /\ UNCHANGED <<request, handed, closing, observer, meter, records>>

More == Len(handed) < Len(handled.pieces)

Arrive ==
    /\ reader = "reading" /\ More
    /\ LET piece == handled.pieces[Len(handed) + 1]
       IN  /\ handed' = Append(handed, piece)
           /\ LET step == Push(observer, piece)
              IN  /\ observer' = step.observer
                  /\ meter' = Heard(meter, step.out, step.observer.kind)
    /\ reader' = "idle"
    /\ UNCHANGED <<request, closing, records>>

Streamed(o) == o.kind = "sse"

EndOutcome(m, o) ==
    IF Streamed(o) /\ handled.ok /\ m.stream = Nothing THEN "incomplete" ELSE OrElse(m.stream, HttpOutcome)

\* The body is complete.
Close ==
    /\ reader = "reading" /\ ~More /\ handled.close = "end"
    /\ UNCHANGED handed
    /\ LET step == End(observer)
           heard == Heard(meter, step.out, observer.kind)
           last == IF Streamed(observer) /\ handled.ok /\ heard.stream = Nothing
                   THEN Issue(heard, "stream_ended_without_completion") ELSE heard
       IN  /\ observer' = Closed(step.observer)
           /\ FinishAndSend(last, EndOutcome(heard, observer))
    /\ reader' = "closed" /\ closing' = "end"
    /\ UNCHANGED request

\* The body breaks off.
Break ==
    /\ reader = "reading" /\ ~More /\ handled.close = "error"
    /\ observer' = Closed(observer)
    /\ FinishAndSend(IF meter.stream = Nothing THEN Issue(meter, "upstream_stream_read_failed") ELSE meter,
                     OrElse(meter.stream, "failed"))
    /\ reader' = "closed" /\ closing' = "error"
    /\ UNCHANGED <<request, handed>>

\* Mutant: whoever stops reading has cancelled.
CancelAlways ==
    /\ reader \in {"idle", "reading"}
    /\ observer' = Closed(observer)
    /\ FinishAndSend(meter, "cancelled")
    /\ reader' = "closed" /\ closing' = "cancel"
    /\ UNCHANGED <<request, handed>>

\* The client stops reading, also while a read is on its way.
Cancel ==
    /\ reader \in {"idle", "reading"}
    /\ observer' = Closed(observer)
    /\ FinishAndSend(meter, OrElse(meter.stream, "cancelled"))
    /\ reader' = "closed" /\ closing' = "cancel"
    /\ UNCHANGED <<request, handed>>

MeterNext ==
    \/ \E t \in Selectable : Select(t)
    \/ \E late \in BOOLEAN : Retry(late)
    \/ Leave \/ Respond \/ Pull \/ Arrive \/ Close \/ Break \/ Cancel

MeterSpec == MeterInit /\ [][MeterNext]_meterVars

-----------------------------------------------------------------------------
(* The record a request should have, told from the bytes that the client was *)
(* handed and from how it ended.                                             *)

Sse ==
    /\ handled.body
    /\ \/ Format = "sse"
       \/ Format = "auto" /\ \E i \in DOMAIN handed : handed[i].k \in {"data", "part"}
Line(i) == handed[i].k \in {"data", "rest"}
Ended(i) == \E j \in DOMAIN handed : j > i /\ handed[j].k = "end"

\* The events that were handed over as a whole, and when.
Whole ==
    IF closing = "end"
    THEN {i \in DOMAIN handed : Line(i) \/ (handed[i].k = "part" /\ i = Len(handed))}
    ELSE {i \in DOMAIN handed : Line(i) /\ Ended(i)}
At(i) == IF Ended(i) THEN CHOOSE j \in DOMAIN handed :
                            j > i /\ handed[j].k = "end" /\ \A n \in i..(j - 1) : handed[n].k # "end"
         ELSE Len(handed)
Readable(i) == ~handed[i].e.large /\ handed[i].e # Broken
Events == {i \in Whole : Readable(i)}
Earliest(S) == IF S = {} THEN Nothing ELSE CHOOSE i \in S : \A j \in S : i <= j
Latest(S) == IF S = {} THEN Nothing ELSE CHOOSE i \in S : \A j \in S : j <= i
TimeOf(i) == IF i = Nothing THEN Nothing ELSE At(i)

\* What a reader of the events would call text, and generation.
Speaks(e) == "text" \in Parts(e) /\ e.type \notin {"call", "input", "generation"}
Generates(e) == Parts(e) \cap {"text", "thinking"} # {} /\ e.type # "input"

StreamShouldBe ==
    LET outcomes == {handed[i].e.outcome : i \in Events}
    IN  CASE ~handled.ok /\ (closing # "cancel" \/ \E i \in Events : handed[i].e.streamEnd \/ handed[i].e = Mark)
               -> "failed"
          [] "failed" \in outcomes -> "failed"
          [] "incomplete" \in outcomes -> "incomplete"
          [] \E i \in Events : handed[i].e.streamEnd \/ handed[i].e = Mark -> "success"
          [] closing = "cancel" -> "cancelled"
          [] closing = "error" -> "failed"
          [] OTHER -> "incomplete"

-----------------------------------------------------------------------------
(* Properties. *)

\* A finished request is recorded once, last and after its selection, and a
\* response that streamed is recorded as what the client was handed: a success
\* only if its completion reached the client, whoever closed it afterwards
\* (meter.ts: "Observe only bytes handed to the consumer").
OutcomeIsWhatWasHanded ==
    reader = "closed" =>
      /\ \A i \in DOMAIN records : i > 1 => records[i - 1].sequence < records[i].sequence
      /\ records[Len(records)] = meter /\ meter.sequence = 2
      /\ closing = "left" => meter.outcome = "cancelled"
      /\ Sse /\ closing # "left" => meter.outcome = StreamShouldBe

\* The times of a stream are those of its first generation and first text, and
\* its usage and its model are the last that were told, although most deltas
\* are never parsed (meter.ts needsEvent).
TimesAreThoseOfTheStream ==
    reader = "closed" /\ Sse =>
      LET told(f) == Latest({i \in Events : handed[i].e[f] # Nothing})
          final == Latest({i \in Events : handed[i].e.model # Nothing /\ handed[i].e.terminal})
          model == OrElse(final, told("model"))
      IN  /\ meter.ttft = TimeOf(Earliest({i \in Events : Generates(handed[i].e)}))
          /\ meter.firstText = TimeOf(Earliest({i \in Events : Speaks(handed[i].e)}))
          /\ meter.usage = IF told("usage") = Nothing THEN Nothing ELSE handed[told("usage")].e.usage
          /\ meter.model = IF ~handled.passthrough \/ model = Nothing THEN Nothing
                           ELSE handed[model].e.model

\* The usage of a discarded response is what it told up to its completion, and
\* unknown when some of it was lost (retry.ts: "Inspect only a discarded retry
\* response").
DiscardedUsageIsTold ==
    \A n \in DOMAIN meter.attempts :
      LET ps == request.discarded[n].pieces
          events == {i \in DOMAIN ps : \/ ps[i].k \in {"data", "rest", "json"}
                                       \/ ps[i].k = "part" /\ i = Len(ps)}
          ends == {i \in events : Completes(ps[i].e) \/ ps[i].e = Mark}
          upTo == {i \in events : \A j \in ends : i <= j}
          told == {i \in upTo : ps[i].e.usage # Nothing}
      IN  meter.attempts[n] # Nothing =>
            /\ told # {} /\ meter.attempts[n] = ps[Latest(told)].e.usage
            /\ \A i \in upTo : ~ps[i].e.large /\ ps[i].e # Broken

\* What a meter records of a response is what the response was and what the
\* client was handed of it (meter.ts, response-observer.ts).
RecordsAreTrue == OutcomeIsWhatWasHanded /\ TimesAreThoseOfTheStream /\ DiscardedUsageIsTold
=============================================================================
