----------------------------- MODULE MCGateway ------------------------------
(***************************************************************************)
(* Requests of every provider type against every kind of response, each    *)
(* provider with two accounts; the health objects on their own; the meter  *)
(* of a response and the price of a request.  A behaviour is about one of  *)
(* them (focus), the others stay as they began.                            *)
(***************************************************************************)
EXTENDS HealthRecord, Meter, Pricing, SequencesExt, TLC

CONSTANTS Quotas, Resets, Budget, Delay, MaxUntimed

VARIABLES focus, provider, credential, run,
    cfg, health, view, pc, target, chain, attempt, left, total, response, answer, others,
    sends, recorded, dropped, spent

-----------------------------------------------------------------------------
None2 == <<>>
Plain ==
    [order |-> <<"p", "q">>, type |-> [p |-> "plain", q |-> "plain"],
     prio |-> [p |-> 1, q |-> 1], creds |-> [p |-> <<"a", "b">>, q |-> <<"z">>],
     cprio |-> [a |-> 1, b |-> 1, z |-> 1], off |-> {}, allowed |-> {"p", "q"},
     models |-> [p |-> {"m"}, q |-> {"m"}], variants |-> [p |-> {"m"}, q |-> {"m"}],
     own |-> [p |-> None2, q |-> None2], client |-> None2, global |-> None2,
     rr |-> [p |-> FALSE, q |-> FALSE], auto |-> [p |-> FALSE, q |-> FALSE],
     extra |-> [p |-> FALSE, q |-> FALSE],
     retry |-> [r \in {"p", "q"} |-> [statuses |-> {503}, codes |-> {"overloaded"}, retries |-> 1]],
     view |-> [c \in {"a", "b", "z"} |-> "subscription"],
     ready |-> [c \in {"a", "b", "z"} |-> TRUE], mode |-> [c \in {"a", "b", "z"} |-> "native"],
     paid |-> [c \in {"a", "b", "z"} |-> c = "a"],
     siwcOk |-> FALSE, session |-> FALSE, counting |-> FALSE, timed |-> TRUE,
     anthropic |-> FALSE, model |-> "m", others |-> 0]

\* A model alias of the client's layer that only q may serve, under p's own name.
Aliased ==
    [Plain EXCEPT !.model = "x", !.anthropic = TRUE, !.rr.p = TRUE,
        !.client = [x |-> [model |-> "m", providers |-> {"q"}]],
        !.own.p = [x |-> [model |-> "m", providers |-> {"p", "q"}]]]
Native1(type) ==
    [Plain EXCEPT !.type.p = type, !.prio.p = 2, !.session = TRUE, !.extra.p = TRUE,
        !.anthropic = (type = "claude"), !.others = IF type = "claude" THEN 1 ELSE 0]
Codex == [Native1("codex") EXCEPT !.auto.p = TRUE]
Shared == [Codex EXCEPT !.others = 1, !.timed = FALSE, !.retry.p.retries = 0]
Mixed == [Codex EXCEPT !.mode.b = "siwc", !.siwcOk = TRUE, !.timed = FALSE, !.ready.a = FALSE]
Refused == [Codex EXCEPT !.mode.a = "siwc", !.mode.b = "siwc", !.allowed = {"p"}]
Counting == [Native1("xai") EXCEPT !.counting = TRUE, !.session = FALSE, !.off = {"b"}]
Unserved == [Native1("antigravity") EXCEPT !.variants.p = {}, !.off = {"q"}]

Requests ==
    {Plain, Aliased, Codex, Shared, Mixed, Refused, Counting, Unserved,
     Native1("antigravity"), Native1("xai"), Native1("claude")}

Base == [valid |-> TRUE, output |-> FALSE, agrees |-> TRUE, kind |-> "created",
         pending |-> TRUE, failed |-> FALSE, code |-> "none"]
Spoken == [Base EXCEPT !.output = TRUE]
Error(code) == [Base EXCEPT !.kind = "other", !.pending = FALSE, !.failed = TRUE, !.code = code]
Answered(events) == [status |-> 200, sse |-> TRUE, events |-> events, limit |-> FALSE]
Refusal(status, code) ==
    [status |-> status, sse |-> FALSE, events |-> <<Error(code)>>, limit |-> status = 429]
Answers ==
    {Answered(<<Base, Error("overloaded")>>), Answered(<<Spoken, Error("overloaded")>>),
     Answered(<<Base, Error("usage_limit_reached")>>), Answered(<<Error("usage_limit_reached")>>),
     Answered(<<Spoken, Error("usage_limit_reached")>>),
     Refusal(401, "none"), Refusal(403, "none"), Refusal(503, "none"),
     Refusal(429, "usage_limit_reached")}

-----------------------------------------------------------------------------
(* Responses: streams of two events (three of the fewest), cut anywhere in   *)
(* the last one, JSON bodies, bodies that tell no format, refusals.          *)

Piece(k, e) == [k |-> k, e |-> e]
Blank == Piece("end", PlainEvent)

Started == [PlainEvent EXCEPT !.usage = 1, !.model = "small"]
Usage == [PlainEvent EXCEPT !.usage = 2, !.model = "other", !.terminal = TRUE]
StreamEvents ==
    {Started, Usage, Delta("text", <<"text">>), Delta("block", <<"empty">>),
     Delta("block", <<"thinking">>), Delta("block", <<"text">>),
     Delta("generation", <<"thinking">>), Delta("message", <<"thinking", "text">>),
     Delta("call", <<"empty", "text">>), Delta("input", <<"text">>), Mark, Broken, Large,
     Terminal("none", 3, "large"), Terminal("failed", Nothing, Nothing),
     Terminal("incomplete", 4, Nothing), [PlainEvent EXCEPT !.outcome = "failed"]}

FewEvents ==
    {Started, Delta("block", <<"thinking">>), Delta("block", <<"text">>), Mark,
     Terminal("none", 3, "large"), Terminal("incomplete", 4, Nothing)}

EventStreams(n) == UNION {[1..m -> StreamEvents] : m \in 0..n} \cup [1..(n + 1) -> FewEvents]

Lines(e) == <<Piece("data", e), Blank>>
Halves(e) == <<Piece("part", e), Piece("rest", e), Blank>>
Pieces(es) == FlattenSeq([i \in DOMAIN es |-> IF i = 1 THEN Halves(es[i]) ELSE Lines(es[i])])
\* A stream may lack its last blank line or half of its last line.
Cut(es) ==
    LET all == Pieces(es)
    IN  {all} \cup IF es = <<>> THEN {} ELSE {Front(all), Front(Front(all))}
           
Proper == [body |-> TRUE, ok |-> TRUE, close |-> "end", format |-> "sse", passthrough |-> TRUE,
         detect |-> FALSE, pieces |-> <<>>]

Streams(n) == {[Proper EXCEPT !.pieces = ps, !.close = c] :
                ps \in UNION {Cut(es) : es \in EventStreams(n)}, c \in {"end", "error"}}

Jsons == {[Proper EXCEPT !.format = f, !.detect = TRUE, !.pieces = ps, !.ok = ok] :
            f \in {"json", Nothing}, ok \in BOOLEAN,
            ps \in {<<Piece("json", e)>> : e \in {Usage, Broken, Large, Terminal("failed", 1, Nothing)}}
                   \cup {<<>>, <<Piece("prefix", PlainEvent), Piece("json", Usage)>>}}
Others == {[Proper EXCEPT !.format = Nothing, !.detect = d, !.pieces = ps, !.passthrough = p] :
             d, p \in BOOLEAN,
             ps \in {<<Piece("junk", PlainEvent)>>, <<Piece("prefix", PlainEvent)>>,
                     <<Piece("prefix", PlainEvent)>> \o Lines(Started) \o Lines(Terminal("none", 3, "large")),
                     Halves(Delta("text", <<"text">>)) \o Lines(Mark)}}
Denied == {[r EXCEPT !.ok = FALSE] : r \in Streams(1)} \cup {[Proper EXCEPT !.body = FALSE, !.ok = ok] : ok \in BOOLEAN}
Translated == {[r EXCEPT !.passthrough = FALSE] : r \in Streams(1)}

MCResponses == Streams(2) \cup Jsons \cup Others \cup Denied \cup Translated
Discarded == Streams(2) \cup Jsons \cup Others

MCMetered ==
    {[discarded |-> <<>>, last |-> r] : r \in MCResponses}
      \cup {[discarded |-> <<a>>, last |-> [Proper EXCEPT !.body = FALSE]] : a \in Discarded}

-----------------------------------------------------------------------------
(* Prices: every kind of token at once and without some of them, reported    *)
(* with up to four gaps, charged by tiers that inherit in different ways.    *)

Weight(c) == (IF c[1] = "text" THEN 7 ELSE 3) *
    (CASE c[2] = "uncached" -> 10 [] c[2] = "read" -> 3 [] c[2] = "out" -> 4
       [] c[2] \in {"m30", "m5"} -> 1 [] OTHER -> 2)

UsedOf(S) == [c \in Cells |-> IF c \in S THEN Weight(c) ELSE 0]

CellsOf(kinds, group) == kinds \X ({"uncached", "read", "out"} \cup Groups[group])

\* All kinds of tokens at once, and without some of them.
Lacking(group) ==
    {{}} \cup {{c} : c \in CellsOf({"text", "image"}, group)}
      \cup {Both \X {d} : d \in Groups[group]} \cup {Both \X {"read"}, Both \X {"out"}}
      \cup {Both \X Groups[group], {"image"} \X Uses, Both \X (Groups[group] \cup {"read"})}
MCUsed(kinds, group) == {UsedOf(CellsOf(kinds, group) \ l) : l \in Lacking(group)}

Counters(used, protocol) ==
    LET t == Truth(used)
    IN  [f \in Wire |->
           CASE f = "textRead" -> t.read - t.imageRead
             [] f = "textWrite" -> t.write - t.imageWrite
             [] f = "input" /\ protocol = "anthropic" -> t.uncached
             [] OTHER -> t[f]]

Foreign(protocol) ==
    IF protocol = "openai" THEN Groups.anthropic
    ELSE Groups.openai \cup ImageFields \cup {"textRead", "textWrite"}

Report(used, protocol, hidden) ==
    LET all == Counters(used, protocol)
    IN  [f \in Wire |-> IF f \in hidden \cup Foreign(protocol) THEN Absent ELSE all[f]]

\* A provider that counts no writes has none.
Honest(used, hidden) ==
    "write" \in hidden /\ {"imageWrite", "textWrite", "m30", "h12"} \subseteq hidden
       => Truth(used).write = 0

Bundles == {{"read"}, {"write"}, {"imageInput"}, {"imageOutput"}, {"imageRead"}, {"imageWrite"},
            {"textRead"}, {"textWrite"}, {"m30", "h12"}}
AnthropicBundles == {{"read"}, {"write"}, {"m5"}, {"h1"}, {"output"}}

Flat == [upTo |-> Unknown, input |-> 10000, output |-> 30500, read |-> 1200, write |-> 20000,
         imageInput |-> Unknown, imageOutput |-> Unknown, imageRead |-> Unknown,
         imageWrite |-> Unknown, m5 |-> Unknown, h1 |-> Unknown, m30 |-> Unknown, h12 |-> Unknown]
Free == [Flat EXCEPT !.write = 0]
ByTime == [Flat EXCEPT !.m30 = 21300, !.h12 = 44000, !.m5 = 21300]
ByImage == [Flat EXCEPT !.imageInput = 15000, !.imageOutput = 90000, !.imageRead = 1700]
ByAll == [ByTime EXCEPT !.imageInput = 15000, !.imageOutput = 90000, !.imageWrite = 27000]
Tiers == {<<Flat>>, <<Free>>, <<ByTime>>, <<ByImage>>, <<ByAll>>,
          <<[ByImage EXCEPT !.upTo = 120], ByAll>>}

Hidden(bundles, n) == {UNION b : b \in {b \in SUBSET bundles : Cardinality(b) <= n}}

Attempts(kinds, protocol, bundles, n) ==
    {[report |-> Report(u[1], protocol, u[2]), used |-> u[1]] :
        u \in {u \in MCUsed(kinds, protocol) \X Hidden(bundles, n) : Honest(u[1], u[2])}}

Once(protocol, endpoint, attempts, tiers) ==
    {[protocol |-> protocol, endpoint |-> endpoint, tiers |-> t, attempts |-> <<a>>] :
        a \in attempts, t \in tiers}

\* A request that was tried twice; the first answer may not have been read.
Twice(first, second, tiers) ==
    {[protocol |-> "openai", endpoint |-> "text", tiers |-> t, attempts |-> <<a, b>>] :
        a \in first \cup {[report |-> NoReport, used |-> b.used] : b \in first}, b \in second, t \in tiers}

Images == Attempts({"image"}, "openai", {{"imageOutput"}, {"read"}, {"imageRead"}}, 3)
Mingled == Attempts({"text", "image"}, "openai", Bundles, 3)
Fewer == Attempts({"text", "image"}, "openai", {{"write"}, {"imageInput"}}, 1)

MCPriced ==
    Once("openai", "text", Mingled, Tiers)
      \cup Once("openai", "images", Images, {<<ByImage>>, <<ByAll>>})
      \cup Once("anthropic", "text", Attempts({"text"}, "anthropic", AnthropicBundles, 4),
                {<<Flat>>, <<ByTime>>, <<Free>>})
      \cup Twice(Fewer, Fewer, {<<ByAll>>})

-----------------------------------------------------------------------------
H == INSTANCE Health
G == INSTANCE Gateway WITH Configurations <- Requests, Responses <- Answers

gateway ==
    <<cfg, health, view, pc, target, chain, attempt, left, total, response, answer, others, sends,
      recorded, dropped, spent>>
objects == <<provider, credential, run>>
AnyRequest == [discarded |-> <<>>, last |-> Proper]
AnyPriced == [protocol |-> "openai", endpoint |-> "text", tiers |-> <<Flat>>, attempts |-> <<>>]

MCInit ==
    /\ focus \in {"request", "health", "meter", "price"}
    /\ focus # "request" => cfg = Plain
    /\ G!Init /\ H!Init /\ Unread /\ bill = Unpriced
    /\ IF focus = "meter" THEN request \in Metered ELSE request = AnyRequest
    /\ IF focus = "price" THEN priced \in PricedRequests ELSE priced = AnyPriced

MCNext ==
    \/ focus = "request" /\ G!Next /\ UNCHANGED <<focus, objects, meterVars, pricingVars>>
    \/ focus = "health" /\ H!Next /\ UNCHANGED <<focus, gateway, meterVars, pricingVars>>
    \/ focus = "meter" /\ MeterNext /\ UNCHANGED <<focus, gateway, objects, pricingVars>>
    \/ focus = "price" /\ Price /\ UNCHANGED <<focus, gateway, objects, meterVars>>

MCSpec ==
    /\ MCInit /\ [][MCNext]_<<gateway, focus, objects, meterVars, pricingVars>>
    /\ focus = "request" => G!Fairness

\* An answer that has begun is never followed by another attempt, a switch of
\* account is recorded first, all attempts share one budget (Gateway); health
\* records stay well-formed (Health).
RequestsAreSound ==
    /\ focus = "request" =>
          G!TypeOK /\ G!NoReplayAfterOutput /\ G!SwitchIsRecorded /\ G!BudgetIsShared
    /\ focus = "health" => H!TypeOK

\* Cooldowns are earned by failures and end only by time or by hand (Health).
CooldownsAreJust == H!CooldownIsEarned /\ H!CooldownHolds

\* A request whose upstream keeps to its time is answered (Gateway).
EveryTimedRequestAnswers == focus = "request" => G!EveryRequestAnswers

=============================================================================
