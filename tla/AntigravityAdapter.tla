------------------------- MODULE AntigravityAdapter -------------------------
(***************************************************************************)
(* Antigravity's side of a conversation, in either dialect of the client.  *)
(*                                                                         *)
(* The response (providers/antigravity/response.ts).  The provider sends   *)
(* parts: pieces of text or of thinking, tool calls, each possibly with    *)
(* the signature that seals what the model wrote, and signatures that come *)
(* alone.  Consecutive pieces of a kind form one part of the client's      *)
(* output.  A signature must come back with exactly the content it was     *)
(* made for: a thinking part carries its own, any other part is followed   *)
(* by an empty thinking part that carries it.                              *)
(*                                                                         *)
(* The request (request.ts, replay.ts, reasoning.ts).  The output of an    *)
(* earlier response comes back with the signatures that were sealed for    *)
(* it, and the client asks for tools and for an amount of thinking.  It    *)
(* may return the output as it was, or forget, change, reorder or unseal   *)
(* an item, or continue on another account.  The names of the tools are    *)
(* taken to differ in every namespace, and a custom tool to be called with *)
(* nothing but its input.                                                  *)
(***************************************************************************)
EXTENDS ClientStream, FiniteSets, SequencesExt

CONSTANTS Parts, MaxParts, MaxItems

VARIABLES anthropic, \* the dialect of the client
          whole,     \* the response is one body, its parts are complete
          native,    \* the parts received
          coder,     \* the encoder
          shown,     \* the events given to the client
          state      \* "running", "finished", "failed"

antigravityVars == <<anthropic, whole, native, coder, shown, state>>

Inactive == [kind |-> ""]
NewCoder == [active |-> Inactive, output |-> <<>>, last |-> Inactive, started |-> FALSE, finish |-> ""]

\* An item of the output: its pieces, and the signature sealed with it.
OutputItem(kind, first, parts, sig) == [kind |-> kind, first |-> first, parts |-> parts, sig |-> sig]

\* A step of the encoder; what it had written before it throws is kept.
Coded(x, events) == [x |-> x, events |-> events, fail |-> FALSE]
Fails(r) == [r EXCEPT !.fail = TRUE]
Bind(r, next) == IF r.fail THEN r ELSE [next EXCEPT !.events = r.events \o @]

Begun(x) ==
    IF x.started THEN Coded(x, <<>>)
    ELSE Coded([x EXCEPT !.started = TRUE], <<StreamEvent("start", -1, 0)>>)

\* begin(): `n' is the number of the native part, and of its signature.
Begin(x, part, n) ==
    LET index == Len(x.output) IN
    IF index >= MaxItems THEN Fails(Coded(x, <<>>))
    ELSE Coded([x EXCEPT !.active = [kind |-> part.kind, index |-> index, first |-> n, parts |-> {},
                                     sig |-> 0, valid |-> part.valid],
                         !.output = Append(@, OutputItem(part.kind, n, {}, 0))],
               <<StreamEvent("open", index, n)>>
               \o (IF anthropic \/ part.kind = "tool" THEN <<>> ELSE <<StreamEvent("part", index, n)>>))

\* carrier(): an item of its own for the signature of `p'.
Carrier(x, p) ==
    LET index == Len(x.output) IN
    IF index >= MaxItems THEN Fails(Coded(x, <<>>))
    ELSE Coded([x EXCEPT !.output = Append(@, OutputItem("carrier", p.first, p.parts, p.sig))],
               <<StreamEvent("open", index, p.first)>>
               \o (IF anthropic THEN <<StreamEvent("delta", index, p.first)>> ELSE <<>>)
               \o <<StreamEvent("close", index, p.first)>>)

\* close(): the active part is completed and its signature passed on.
Close(x) ==
    LET p == x.active
        content == IF p.kind = "tool" \/ (p.kind = "thinking" /\ anthropic)
                   THEN <<StreamEvent("delta", p.index, p.first)>> ELSE <<>>
        own == IF p.kind = "thinking" THEN p.sig ELSE 0
        closed == Coded([x EXCEPT !.active = Inactive, !.last = p,
                                  !.output[p.index + 1] = OutputItem(p.kind, p.first, p.parts, own)],
                        content \o <<StreamEvent("close", p.index, p.first)>>)
    IN  CASE p = Inactive -> Coded(x, <<>>)
          [] p # Inactive /\ ~p.valid -> Fails(Coded(x, <<>>))
          [] p # Inactive /\ p.valid /\ p.kind # "thinking" /\ p.sig # 0 ->
                Bind(closed, Carrier(closed.x, p))
          [] OTHER -> closed

\* A signature, an image or nothing, without text or a call.
AcceptBare(x, part, n) ==
    LET signed == [x EXCEPT !.active.sig = n]
        late == [x EXCEPT !.last.sig = n]
    IN  CASE part.signed /\ x.active # Inactive -> Close(signed)
          [] part.signed /\ x.active = Inactive /\ x.last # Inactive -> Carrier(late, late.last)
          [] part.signed /\ x.active = Inactive /\ x.last = Inactive -> Fails(Coded(x, <<>>))
          [] OTHER -> IF part.kind = "media" THEN Fails(Coded(x, <<>>)) ELSE Coded(x, <<>>)

EndsPart(part, complete) == complete \/ part.signed

\* A part with content continues the active one or begins another.
Extend(x, part, n) ==
    LET active == [x.active EXCEPT !.parts = @ \cup {n}, !.sig = IF part.signed THEN n ELSE @,
                                   !.valid = part.valid]
    IN  Coded([x EXCEPT !.active = active],
              IF part.kind = "tool" THEN <<>> ELSE <<StreamEvent("delta", active.index, active.first)>>)

AcceptContent(x, part, n, complete) ==
    LET again == x.active # Inactive /\ (part.kind = "tool" \/ x.active.kind # part.kind)
        closed == IF again THEN Close(x) ELSE Coded(x, <<>>)
        begun == IF closed.x.active = Inactive
                 THEN Bind(closed, Begin(closed.x, part, n)) ELSE closed
        extended == IF begun.fail THEN begun ELSE Bind(begun, Extend(begun.x, part, n))
    IN  IF ~extended.fail /\ EndsPart(part, complete)
        THEN Bind(extended, Close(extended.x)) ELSE extended

AcceptPart(x, part, n, complete) ==
    IF part.kind \in {"bare", "media"} THEN AcceptBare(x, part, n)
    ELSE AcceptContent(x, part, n, complete)

-----------------------------------------------------------------------------
AntigravityInit ==
    /\ anthropic \in BOOLEAN /\ whole \in BOOLEAN
    /\ native = <<>> /\ coder = NewCoder /\ shown = <<>> /\ state = "running"

\* fail(): the error is the last event.
Emit(r) ==
    /\ coder' = r.x
    /\ shown' = shown \o r.events
                \o (IF r.fail THEN Begun(r.x).events \o <<StreamEvent("error", -1, 0)>> ELSE <<>>)

\* accept(): one frame with one part; a body that is not a stream comes whole.
Accept ==
    /\ state = "running" /\ Len(native) < MaxParts
    /\ \E part \in Parts :
          LET r == Bind(Begun(coder), AcceptPart(Begun(coder).x, part, Len(native) + 1, whole)) IN
          /\ native' = Append(native, part)
          /\ Emit(r)
          /\ state' = IF r.fail THEN "failed" ELSE "running"
    /\ UNCHANGED <<anthropic, whole>>

\* A frame that tells why the model stopped.
Stopped ==
    /\ state = "running" /\ coder.finish = ""
    /\ \E reason \in {"STOP", "SAFETY"} :
          Emit([Begun(coder) EXCEPT !.x.finish = reason])
    /\ UNCHANGED <<anthropic, whole, native, state>>

\* finish(): the stream has ended.
Finish ==
    /\ state = "running"
    /\ LET r == IF coder.started /\ coder.finish = "STOP" THEN Close(coder) ELSE Fails(Coded(coder, <<>>))
       IN  /\ Emit(IF r.fail THEN r ELSE [r EXCEPT !.events = Append(@, StreamEvent("end", -1, 0))])
           /\ state' = IF r.fail THEN "failed" ELSE "finished"
    /\ UNCHANGED <<anthropic, whole, native>>

\* The provider reports an error, blocks the request, exceeds the limit, or
\* the stream breaks off.
Interrupt ==
    /\ state = "running"
    /\ Emit(Fails(Coded(coder, <<>>)))
    /\ state' = "failed"
    /\ UNCHANGED <<anthropic, whole, native>>

AntigravityNext ==
    \/ Accept
    \/ Stopped
    \/ Finish
    \/ Interrupt

AntigravitySpec == AntigravityInit /\ [][AntigravityNext]_antigravityVars

-----------------------------------------------------------------------------
\* No later piece belongs to what was sealed here.
Boundary(n) ==
    \/ native[n].signed
    \/ native[n].kind = "tool"

\* The client reads a well-formed stream.  When it ends well, every piece and
\* every call was given to it, every signature was passed on, and none covers a
\* piece that came after it or one that an earlier signature had already sealed
\* (ResponseEncoder.accept, close and carrier).
AntigravityStreamIsWellFormed ==
    /\ WellFormed(shown)
    /\ \A i \in DOMAIN coder.output : \A n, m \in coder.output[i].parts :
          /\ coder.output[i].sig # 0 => m <= coder.output[i].sig
          /\ n < m => native[n].kind = native[m].kind /\ ~Boundary(n)
    /\ state = "finished" =>
          \A n \in DOMAIN native : native[n].signed => \E i \in DOMAIN coder.output : coder.output[i].sig = n

-----------------------------------------------------------------------------
(* The request.                                                            *)

\* What requests ask for: a sequence of declared tools [type, space, name], a
\* choice among them [type, mode, tools], what is said of thinking [type,
\* effort, budget], the family of the model [claude, level, pro, thinking] and
\* the limit of the output (0: none).
CONSTANT Asks

VARIABLE asked        \* the request that was translated

requestVars == <<antigravityVars, asked>>

-----------------------------------------------------------------------------
(* The history.                                                            *)

NoSeal == [attachment |-> "none"]

\* sealPart(): the part as the provider gave it, for one place in the history.
\* The identifier of a call may be made up here: the provider then has none.
Seal(attachment, item) ==
    [attachment |-> attachment, kind |-> native[item.first].kind, content |-> item.parts, sig |-> item.sig,
     named |-> native[item.first].named, call |-> item.first, own |-> TRUE]

\* What the client holds of an item of the output.
HeldItem(item) ==
    CASE item.kind = "carrier" ->
            [type |-> "thinking", content |-> {}, call |-> 0, seal |-> Seal("previous", item)]
      [] item.kind = "thinking" ->
            [type |-> "thinking", content |-> item.parts, call |-> 0, seal |-> Seal("self", item)]
      [] OTHER -> [type |-> item.kind, content |-> item.parts, call |-> item.first, seal |-> NoSeal]

Held == [i \in DOMAIN coder.output |-> HeldItem(coder.output[i])]
Result(call) == [type |-> "result", content |-> {}, call |-> call, seal |-> NoSeal]
Results == LET calls == SelectSeq(Held, LAMBDA item : item.type = "tool")
           IN  [i \in DOMAIN calls |-> Result(calls[i].call)]

\* The histories a client may send after it has received the output.
Changed(held, i) == [held EXCEPT ![i].content = {0}]
Swapped(held, i) == [held EXCEPT ![i] = held[i + 1], ![i + 1] = held[i]]
Unsealed(held, i) == [held EXCEPT ![i].seal = NoSeal]
Elsewhere(held, i) == [held EXCEPT ![i].seal.own = FALSE]
Histories ==
    {Held} \cup {RemoveAt(Held, i) : i \in DOMAIN Held} \cup {Changed(Held, i) : i \in DOMAIN Held}
    \cup {Swapped(Held, i) : i \in 1..Len(Held) - 1}
    \cup {Unsealed(Held, i) : i \in DOMAIN Held}
    \cup {Elsewhere(Held, i) : i \in {j \in DOMAIN Held : Held[j].seal # NoSeal}}

\* A translation under way: the parts so far, and the identifier the provider
\* knows each call by (0: none).
Part(role, kind, content, id, sig) == [role |-> role, kind |-> kind, content |-> content, id |-> id, sig |-> sig]
NewTranslation == [contents |-> <<>>, calls |-> <<>>, fail |-> FALSE]
Refused(t) == [t EXCEPT !.fail = TRUE]
Put(t, part) == [t EXCEPT !.contents = Append(@, part)]
KnownBy(t, call, id) == [t EXCEPT !.calls = [c \in DOMAIN @ \cup {call} |-> IF c = call THEN id ELSE @[c]]]

NativeId(seal) == IF seal.named THEN seal.call ELSE 0
NativeOf(seal) ==
    Part("model", seal.kind, seal.content, IF seal.kind = "tool" THEN NativeId(seal) ELSE 0, seal.sig)

\* The mutant does not look at the content.
SameKindOfPart(seal, part) == part.kind = seal.kind
SameVisiblePart(seal, part) == part.kind = seal.kind /\ part.content = seal.content

\* replay() of a signature for the part before it, which it replaces.
ReplayPrevious(t, item) ==
    LET seal == item.seal
        n == Len(t.contents)
        renamed == IF seal.kind = "tool" /\ t.contents[n].id # 0
                   THEN KnownBy(t, t.contents[n].id, NativeId(seal)) ELSE t
    IN  IF n = 0 \/ item.content # {} \/ t.contents[n].role # "model"
           \/ ~SameVisiblePart(seal, t.contents[n])
           \/ (seal.kind = "tool" /\ t.contents[n].id # seal.call)
        THEN Refused(t)
        ELSE [renamed EXCEPT !.contents[n] = NativeOf(seal)]

\* replay() of a thinking part with its own signature.
ReplaySelf(t, item) ==
    IF item.content # item.seal.content THEN Refused(t) ELSE Put(t, NativeOf(item.seal))

\* Thinking: openPart() refuses what was sealed for another account; without
\* its seal it is left out, which Messages allow only when it is empty.
TranslateThinking(t, item) ==
    CASE item.seal = NoSeal -> IF anthropic /\ item.content # {} THEN Refused(t) ELSE t
      [] item.seal # NoSeal /\ ~item.seal.own -> Refused(t)
      [] item.seal # NoSeal /\ item.seal.own /\ item.seal.attachment = "previous" -> ReplayPrevious(t, item)
      [] OTHER -> ReplaySelf(t, item)

\* One item of the history: blocks() and the loop over the input.
TranslateItem(t, item) ==
    CASE t.fail -> t
      [] ~t.fail /\ item.type = "thinking" -> TranslateThinking(t, item)
      [] ~t.fail /\ item.type = "text" -> Put(t, Part("model", "text", item.content, 0, 0))
      [] ~t.fail /\ item.type = "tool" ->
            KnownBy(Put(t, Part("model", "tool", item.content, item.call, 0)), item.call, item.call)
      [] ~t.fail /\ item.type = "result" ->
            IF item.call \notin DOMAIN t.calls THEN Refused(t)
            ELSE Put(t, Part("user", "result", {item.call}, t.calls[item.call], 0))

TranslateHistory(history) == FoldLeft(TranslateItem, NewTranslation, history \o Results)

-----------------------------------------------------------------------------
(* The tools.                                                              *)

\* toolsFor(): searches are left out, each name is declared once.
Declared(tools) == SelectSeq(tools, LAMBDA tool : tool.type # "search")
ToolsAreLegal(tools) ==
    /\ \A i \in DOMAIN tools : tools[i].type \in {"function", "custom", "search"}
    /\ \A i, j \in DOMAIN Declared(tools) :
          i # j => <<Declared(tools)[i].space, Declared(tools)[i].name>>
                   # <<Declared(tools)[j].space, Declared(tools)[j].name>>

Selection(tools, mode, names) == [fail |-> FALSE, tools |-> tools, mode |-> mode, names |-> names]
NoSelection == [fail |-> TRUE, tools |-> {}, mode |-> "", names |-> {}]

\* selectTools() over the tools `all' that are declared.
Available(all, choice) ==
    IF choice.type = "allowed_tools" THEN all \cap choice.tools ELSE all

SelectTools(all, choice, claude) ==
    LET mode == IF choice.type = "allowed_tools" THEN choice.mode ELSE choice.type
        available == Available(all, choice)
        named == {tool \in choice.tools : tool.type # "search"}
    IN  CASE choice.type = "allowed_tools" /\ (mode \notin {"auto", "required"} \/ ~(named \subseteq all)) ->
                NoSelection
          [] mode = "none" -> Selection(all, "NONE", {})
          [] mode = "auto" ->
                Selection(available,
                          CASE choice.type = "allowed_tools" /\ available = {} -> "NONE"
                            [] OTHER -> IF claude THEN "VALIDATED" ELSE "AUTO", {})
          [] mode \in {"required", "any"} ->
                IF available = {} THEN NoSelection ELSE Selection(available, "ANY", {})
          [] OTHER -> IF named = {} \/ ~(named \subseteq all) THEN NoSelection
                      ELSE Selection(all, "ANY", named)

-----------------------------------------------------------------------------
(* The thinking.                                                           *)

\* The level and the budget of an effort, and the least budget Claude accepts.
MinBudget == 1024
Effort(level, budget) == [level |-> level, budget |-> budget]
Efforts == [minimal |-> Effort("low", 1024), low |-> Effort("low", 2048), medium |-> Effort("medium", 8192),
            high |-> Effort("high", 16384), xhigh |-> Effort("high", 24576), max |-> Effort("high", 24576)]

\* antigravityReasoning(): the mode, and the level or the budget it names.
Configuration(thinking) ==
    CASE thinking.type = "disabled" \/ thinking.effort = "none" -> [mode |-> "disabled", level |-> "low", budget |-> 0]
      [] OTHER ->
            IF thinking.budget >= 0 THEN [mode |-> "budget", level |-> "", budget |-> thinking.budget]
            ELSE CASE thinking.effort = "auto" -> [mode |-> "auto", level |-> "high", budget |-> -1]
                   [] thinking.effort \in DOMAIN Efforts ->
                         [mode |-> "level", level |-> Efforts[thinking.effort].level,
                          budget |-> Efforts[thinking.effort].budget]
                   [] OTHER -> CASE thinking.type \in {"adaptive", "auto"} -> [mode |-> "auto", level |-> "high", budget |-> -1]
                                 [] thinking.type = "enabled" -> [mode |-> "enabled", level |-> "high", budget |-> 8192]
                                 [] OTHER -> [mode |-> "unspecified", level |-> "high", budget |-> 0]

Interleaved(thinking) == thinking.type # "" /\ Configuration(thinking).mode # "disabled"

\* antigravityThinkingConfig(): `shown' tells whether the thoughts are asked
\* for, `given' whether the request says anything of thinking.
NoThinking == [given |-> FALSE, level |-> "", budget |-> 0, shown |-> FALSE]
Bounded(budget, claude, limit) == IF claude /\ limit # 0 /\ budget >= limit THEN limit - 1 ELSE budget
ThinkingConfig(c, model, limit) ==
    LET wanted == IF c.mode = "enabled" /\ model.level THEN -1 ELSE c.budget
        budget == Bounded(wanted, model.claude, limit)
    IN  CASE c.mode = "unspecified" -> NoThinking
          [] c.mode = "disabled" -> [NoThinking EXCEPT !.given = ~model.claude]
          [] c.mode = "level" /\ model.level ->
                [given |-> TRUE, level |-> IF model.pro /\ c.level = "medium" THEN "high" ELSE c.level,
                 budget |-> -1, shown |-> TRUE]
          [] OTHER -> IF model.claude /\ budget # -1 /\ budget < MinBudget THEN NoThinking
                      ELSE [given |-> TRUE, level |-> "", budget |-> budget, shown |-> TRUE]

\* antigravitySystemParts(): whether the model is told that it may think
\* between its calls.
Hinted(selection, model, thinking) ==
    anthropic /\ model.claude /\ model.thinking /\ selection.tools # {}
    /\ selection.mode # "NONE" /\ Interleaved(thinking)

\* translateRequest(), without the history.
TranslateOptions(request) ==
    LET tools == Declared(request.tools)
        selection == IF ToolsAreLegal(request.tools)
                     THEN SelectTools({tools[i] : i \in DOMAIN tools}, request.choice, request.model.claude)
                     ELSE NoSelection
    IN  [selection |-> selection,
         config |-> ThinkingConfig(Configuration(request.thinking), request.model, request.limit),
         hint |-> Hinted(selection, request.model, request.thinking)]

-----------------------------------------------------------------------------
Unasked == [what |-> "nothing"]

RequestInit == AntigravityInit /\ asked = Unasked

\* The first request of a conversation: what it asks for.
AskFirst ==
    /\ native = <<>> /\ coder = NewCoder /\ state = "running" /\ ~whole
    /\ \E request \in Asks :
          asked' = [what |-> "options", request |-> request, result |-> TranslateOptions(request)]
    /\ state' = "asked"
    /\ UNCHANGED <<anthropic, whole, native, coder, shown>>

\* A later request: the output of the response comes back.
AskAgain ==
    /\ state = "finished"
    /\ \E history \in Histories :
          asked' = [what |-> "history", history |-> history, result |-> TranslateHistory(history)]
    /\ state' = "asked"
    /\ UNCHANGED <<anthropic, whole, native, coder, shown>>

Respond == AntigravityNext /\ UNCHANGED asked

RequestNext ==
    \/ Respond
    \/ AskFirst
    \/ AskAgain

RequestSpec == RequestInit /\ [][RequestNext]_requestVars

-----------------------------------------------------------------------------
\* The signature a part was left with: that of the last item that carries one.
LastSeal(first) ==
    Max({0} \cup {coder.output[i].sig : i \in {j \in DOMAIN coder.output : coder.output[j].first = first}})

Sent(parts) == SelectSeq(parts, LAMBDA part : part.type \in {"text", "tool"}
                                              \/ (part.type = "thinking" /\ part.content # {}))

\* A call the provider gave no identifier, sealed a second time: the first seal
\* takes the identifier away that the second one looks for.
SealedTwice ==
    \E i, j \in DOMAIN coder.output :
       /\ i < j /\ coder.output[i].kind = "carrier" /\ coder.output[j].kind = "carrier"
       /\ coder.output[i].first = coder.output[j].first
       /\ native[coder.output[i].first].kind = "tool" /\ ~native[coder.output[i].first].named

\* A client that returns the output as it was is answered, but for what
\* SealedTwice tells: every part goes back to the provider as it came, with the
\* last signature it was given.  Whatever the client does, the provider is
\* given what the client sent, nothing it had changed; and a tool's result
\* bears the identifier under which the provider is given the call
\* (translateRequest: replay, calls).
HistoryComesBack ==
    asked.what = "history" =>
        LET contents == asked.result.contents
            model == SelectSeq(contents, LAMBDA part : part.role = "model")
            sent == Sent(asked.history)
            own == SelectSeq(coder.output, LAMBDA item : item.kind # "carrier")
        IN  /\ asked.history = Held /\ ~SealedTwice =>
                  /\ ~asked.result.fail /\ Len(model) = Len(own)
                  /\ \A i \in DOMAIN own : model[i].sig = LastSeal(own[i].first)
            /\ ~asked.result.fail =>
                  /\ \A i \in DOMAIN model : \E j \in DOMAIN sent : sent[j].content = model[i].content
                  /\ \A i \in DOMAIN sent :
                        \/ sent[i].seal = NoSeal /\ sent[i].type = "thinking"
                        \/ \E j \in DOMAIN model : sent[i].content = model[j].content
                  /\ \A i, j \in DOMAIN contents :
                        contents[i].kind = "result" /\ contents[j].kind = "tool" /\ contents[i].content = contents[j].content
                        => (j < i /\ contents[i].id = contents[j].id)

\* What a request lets the model do is what its client asked for: the tools it
\* may call, whether it must, and whether it thinks; the budget leaves room
\* under the client's limit, and Claude is given one it accepts
\* (selectTools, antigravityThinkingConfig, antigravitySystemParts).
Callable(selection) ==
    CASE selection.mode = "NONE" -> {}
      [] OTHER -> IF selection.names = {} THEN selection.tools ELSE selection.names
Wanted(tools, choice) ==
    CASE choice.type = "none" -> {}
      [] choice.type \in {"auto", "required", "any"} -> tools
      [] OTHER -> tools \cap choice.tools
OptionsAreHonoured ==
    asked.what = "options" =>
        LET request == asked.request
            result == asked.result
            selection == result.selection
            config == result.config
            must == request.choice.type \notin {"none", "auto"}
                    /\ (request.choice.type = "allowed_tools" => request.choice.mode = "required")
            searchless == {tool \in {request.tools[i] : i \in DOMAIN request.tools} : tool.type # "search"}
        IN  /\ ~selection.fail =>
                  /\ Callable(selection) = Wanted(searchless, request.choice)
                  /\ (selection.mode = "ANY") = must
                  /\ must => Callable(selection) # {}
                  /\ result.hint => Callable(selection) # {}
            /\ (request.thinking.type = "disabled" \/ request.thinking.effort = "none") =>
                  ~config.shown /\ ~result.hint
            /\ config.shown /\ request.model.claude =>
                  /\ config.budget = -1 \/ config.budget >= MinBudget
                  /\ request.limit # 0 => config.budget < request.limit

AntigravityRequestsAreSound == HistoryComesBack /\ OptionsAreHonoured
=============================================================================
