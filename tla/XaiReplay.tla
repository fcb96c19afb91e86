----------------------------- MODULE XaiReplay ------------------------------
(***************************************************************************)
(* The turns of one conversation with xAI (providers/xai/request.ts,       *)
(* tools.ts, history.ts, replay.ts, replay-store.ts).                      *)
(*                                                                         *)
(* A client sends its whole history with every turn, but some leave out    *)
(* the reasoning and the calls of the last answer.  What it left out is    *)
(* kept by an object per session, in chunks, for an hour: a turn begins by *)
(* reading it under a version of its own and ends by replacing it, unless  *)
(* another turn has begun since.  Turns overlap, an attempt on another     *)
(* account is a turn of its own, and logins change in between.             *)
(*                                                                         *)
(* The version of a turn is the turn; a chunk holds one item; `begun' is a *)
(* history variable.                                                       *)
(***************************************************************************)
EXTENDS Integers, Sequences, FiniteSets, SequencesExt

CONSTANTS Nil, Turns, AccountRefs,
          TurnRequests, \* [tools, reserved, choice, items, pool, account, session]
          MaxTools,     \* the definitions xAI takes, 200
          MaxReplayTime, HistoryTtl, MaxLogins

VARIABLES replayTime, \* Date.now()
          generation, \* per account, its login
          meta,       \* "xai_replay": [version, expires, chunks]
          chunk,      \* "xai_replay:i"
          replayAlarm, \* the alarm of the object
          begun,      \* the turn that began last
          turn        \* per turn, how far it is and what it has seen

replayVars == <<replayTime, generation, meta, chunk, replayAlarm, begun, turn>>

-----------------------------------------------------------------------------
(* The tools of a request (tools.ts): flattened into definitions of the    *)
(* provider's own naming, found again for the calls of the history, and    *)
(* restored for the calls the provider makes.                              *)
(*                                                                         *)
(* A declared tool is [type, name, tools, sound]; `tools' are the children *)
(* of a namespace and `sound' tells whether its schema, its format and its *)
(* strictness are ones that can be sent.  A wire name is a pair of its     *)
(* prefix and its number.  An operator that can refuse returns Invalid.    *)

Invalid == [invalid |-> TRUE]
NoNamespace == "none"
IsInvalid(v) == v = Invalid

SearchTools == {"x_search", "web_search"}
Count(tools) ==
    FoldLeft(LAMBDA n, t : n + IF t.type = "namespace" THEN Len(t.tools) ELSE 1, 0, tools)

\* add(): one tool of the list or of a namespace; a dispatcher is the wire
\* name of the namespace it is folded into.
AddTool(done, tool, namespace, dispatcher) ==
    LET named == \E i \in DOMAIN done.mappings :
                    done.mappings[i].name = tool.name /\ done.mappings[i].namespace = namespace
        wire == IF dispatcher = <<>> THEN <<"cody_tool", Len(done.mappings)>> ELSE dispatcher
    IN  IF done.invalid \/ tool.type \notin {"function", "custom"} \/ tool.name = "" \/ named \/ ~tool.sound
        THEN [done EXCEPT !.invalid = TRUE]
        ELSE [done EXCEPT !.mappings = Append(@, [name |-> tool.name, wireName |-> wire,
                                                  namespace |-> namespace, custom |-> tool.type = "custom",
                                                  dispatcher |-> dispatcher # <<>>]),
                          !.definitions = IF dispatcher = <<>> THEN Append(@, wire) ELSE @]

AddNamespace(done, tool, fold) ==
    LET wire == <<"cody_namespace", Len(done.definitions)>>
        added == FoldLeft(LAMBDA d, child : AddTool(d, child, tool.name, IF fold THEN wire ELSE <<>>),
                          [done EXCEPT !.namespaces = @ \cup {tool.name}], tool.tools)
    IN  IF tool.name \in {""} \cup done.namespaces \/ tool.tools = <<>> THEN [done EXCEPT !.invalid = TRUE]
        ELSE IF fold THEN [added EXCEPT !.definitions = Append(@, wire)] ELSE added

\* translateTools()
TranslateTools(tools, reserved) ==
    LET fold == Count(tools) + reserved > MaxTools
        none == [definitions |-> <<>>, mappings |-> <<>>, namespaces |-> {}, invalid |-> FALSE]
        all == FoldLeft(LAMBDA done, t :
                            CASE t.type \in SearchTools -> [done EXCEPT !.definitions = Append(@, <<t.type, 0>>)]
                              [] t.type = "namespace" -> AddNamespace(done, t, fold)
                              [] OTHER -> AddTool(done, t, NoNamespace, <<>>),
                        none, tools)
    IN  IF all.invalid \/ Len(all.definitions) + reserved > MaxTools THEN Invalid
        ELSE [definitions |-> all.definitions, mappings |-> all.mappings]

\* The tools of a name; those of exactly the namespace come first.
Named(mappings, name, namespace) ==
    SelectSeq(mappings, LAMBDA m : m.name = name
                                   /\ (namespace = NoNamespace \/ m.namespace = namespace))
Candidates(mappings, name, namespace) ==
    LET named == Named(mappings, name, namespace)
        exact == SelectSeq(named, LAMBDA m : m.namespace = namespace)
    IN  IF exact # <<>> THEN exact ELSE named

\* findTool()
FindTool(mappings, name, namespace) ==
    LET candidates == Candidates(mappings, name, namespace)
    IN  IF Len(candidates) = 1 THEN candidates[1] ELSE Invalid

\* translateToolCall(): a call of the history, as the provider knows it.
TranslateToolCall(item, mappings) ==
    LET tool == FindTool(mappings, item.name, item.namespace)
    IN  IF IsInvalid(tool) THEN Invalid
        ELSE [type |-> "call", call |-> item.call, wireName |-> tool.wireName,
              child |-> IF tool.dispatcher THEN tool.name ELSE ""]

\* restoreTool(): a call of the provider, as the client knows it.
RestoreTool(item, mappings) ==
    LET tools == SelectSeq(mappings, LAMBDA m : m.wireName = item.wireName
                                                /\ (item.child # "" => m.name = item.child))
    IN  IF tools = <<>> \/ (tools[1].dispatcher /\ item.child = "") THEN Invalid
        ELSE [type |-> IF tools[1].custom THEN "custom_tool_call" ELSE "function_call",
              call |-> item.call, name |-> tools[1].name,
              namespace |-> tools[1].namespace]

\* A forced tool of the request: a search tool that is declared, or a tool
\* that is not a child of a folded namespace.
ForcedTool(choice, translated) ==
    LET tool == FindTool(translated.mappings, choice.name, choice.namespace)
    IN  CASE choice.type \in {"auto", "none", "required"} -> translated.definitions
          [] choice.type \in SearchTools ->
                LET chosen == SelectSeq(translated.definitions, LAMBDA d : d[1] = choice.type)
                IN  IF chosen = <<>> THEN Invalid ELSE chosen
          [] choice.type = "function" /\ ~IsInvalid(tool) ->
                IF tool.dispatcher THEN Invalid ELSE translated.definitions
          [] OTHER -> Invalid

-----------------------------------------------------------------------------
(* The history of a request. *)

NotYet == [at |-> "idle"]
Calls == {"function_call", "custom_tool_call"}
Select(items, types) == SelectSeq(items, LAMBDA i : i.type \in types)
CallIds(items, types) == {items[i].call : i \in {j \in DOMAIN items : items[j].type \in types}}

-----------------------------------------------------------------------------
\* openReasoning(): the seal of a reasoning names the account it came from.
OpenReasoning(item, request) ==
    IF {item.account, request.account} \subseteq request.pool /\ item.visible
    THEN [type |-> "reasoning", by |-> item.by] ELSE Invalid

\* One item of the request's history.
TranslateItem(item, request, mappings) ==
    CASE item.type = "reasoning" -> OpenReasoning(item, request)
      [] item.type \in Calls -> TranslateToolCall(item, mappings)
      [] item.type \in {"message", "output"} -> item
      [] OTHER -> Invalid

TranslateItems(items, request, mappings) ==
    [i \in DOMAIN items |-> TranslateItem(items[i], request, mappings)]

Sendable(items) == \A i \in DOMAIN items : ~IsInvalid(items[i])

\* translateRequest()
TranslateRequest(request) ==
    LET tools == TranslateTools(request.tools, request.reserved)
        items == TranslateItems(request.items, request, tools.mappings)
    IN  IF IsInvalid(tools) THEN Invalid
        ELSE IF ~Sendable(items) \/ IsInvalid(ForcedTool(request.choice, tools)) THEN Invalid
        ELSE [tools |-> tools, items |-> items]

\* The items of an earlier answer that may be missing, as the provider knows
\* them: all but calls this request does not answer.
Native(output, request, mappings) ==
    TranslateItems(SelectSeq(output, LAMBDA i : /\ i.type \in {"reasoning", "message"} \cup Calls
                                                /\ i.type \in Calls =>
                                                   i.call \in CallIds(request.items, {"output"})),
                   request, mappings)

LastOf(items) == IF items = <<>> THEN Nil ELSE items[Len(items)]
Assistant(items) == SelectSeq(items, LAMBDA i : i.type = "message" /\ i.role = "assistant")

\* The items of the last answer that the history does not have.
Additions(input, cached) ==
    SelectSeq(cached, LAMBDA c :
        CASE c.type = "reasoning" -> \A i \in DOMAIN input : input[i] # c
          [] c.type = "message" -> Assistant(input) = <<>>
          [] c.type = "call" -> c.call \in CallIds(input, {"output"}) \ CallIds(input, {"call"}))

FirstPlace(input, places) ==
    IF places = {} THEN Len(input) + 1 ELSE CHOOSE i \in places : \A j \in places : i <= j

\* Where they go: before the first answer to one of their calls, before the
\* last answer of the assistant, or after the instructions.
InsertionPlace(input, additions) ==
    LET answers == {i \in DOMAIN input : input[i].type = "output"
                                         /\ input[i].call \in CallIds(additions, {"call"})}
        assistants == {i \in DOMAIN input : input[i] = LastOf(Assistant(input))}
        others == {i \in DOMAIN input : input[i].type # "message" \/ input[i].role # "system"}
    IN  IF answers # {} THEN FirstPlace(input, answers)
        ELSE IF assistants # {} THEN FirstPlace(input, assistants) ELSE FirstPlace(input, others)

\* mergeHistory(): only into a history that goes on from the kept answer.
MergeHistory(input, cached) ==
    LET additions == Additions(input, cached)
        place == InsertionPlace(input, additions)
        mine == LastOf(Assistant(input))
        other == Assistant(cached) # <<>> /\ mine # Nil /\ Assistant(cached)[1] # mine
    IN  IF other \/ additions = <<>> THEN input
        ELSE SubSeq(input, 1, place - 1) \o additions \o SubSeq(input, place, Len(input))

-----------------------------------------------------------------------------
XaiReplayInit ==
    /\ replayTime = 0 /\ generation = [a \in AccountRefs |-> 1]
    /\ meta = Nil /\ chunk = <<>> /\ replayAlarm = Nil /\ begun = Nil
    /\ turn = [t \in Turns |-> NotYet]

ReplayTick ==
    /\ replayTime < MaxReplayTime /\ replayTime' = replayTime + 1
    /\ UNCHANGED <<generation, meta, chunk, replayAlarm, begun, turn>>

NewLogin(a) ==
    /\ generation[a] < MaxLogins /\ generation' = [generation EXCEPT ![a] = @ + 1]
    /\ UNCHANGED <<replayTime, meta, chunk, replayAlarm, begun, turn>>

\* xaiAdapter.prepare(): a request that cannot be translated is refused, one
\* without a session keeps no history.
Prepare(t, request) ==
    /\ turn[t].at = "idle"
    /\ LET translated == TranslateRequest(request)
       IN  turn' = [turn EXCEPT ![t] =
              IF IsInvalid(translated) THEN [at |-> "refused"]
              ELSE [at |-> IF request.session THEN "begin" ELSE "sent", request |-> request,
                    login |-> generation[request.account], tools |-> translated.tools,
                    items |-> translated.items, seen |-> Nil, wrote |-> Nil, fenced |-> FALSE]]
    /\ UNCHANGED <<replayTime, generation, meta, chunk, replayAlarm, begun>>

Alive == meta # Nil /\ meta.expires > replayTime

\* XaiReplayStore.begin(): one transaction.
Begin(t) ==
    /\ turn[t].at = "begin"
    /\ chunk' = IF Alive THEN chunk ELSE <<>>
    /\ meta' = [version |-> t, expires |-> replayTime + HistoryTtl,
                chunks |-> IF Alive THEN meta.chunks ELSE 0]
    /\ replayAlarm' = replayTime + HistoryTtl /\ begun' = t
    /\ turn' = [turn EXCEPT ![t].at = "view", ![t].fenced = TRUE,
                            ![t].seen = IF Alive /\ meta.chunks > 0 THEN SubSeq(chunk, 1, meta.chunks)
                                        ELSE Nil]
    /\ UNCHANGED <<replayTime, generation>>

\* The object does not answer: the turn goes on without a history.
BeginFails(t) ==
    /\ turn[t].at = "begin" /\ turn' = [turn EXCEPT ![t].at = "sent"]
    /\ UNCHANGED <<replayTime, generation, meta, chunk, replayAlarm, begun>>

\* The chunks, joined and opened.
Opened(chunks) == [account |-> chunks[1].account, login |-> chunks[1].login,
                   output |-> [i \in DOMAIN chunks |-> chunks[i].item]]

\* prepareHistory(): the history of an account of the pool whose login is
\* still the one it came from.  What cannot be opened leaves the turn without
\* a history, and without a write at its end.
View(t) ==
    /\ turn[t].at = "view"
    /\ LET old == Opened(turn[t].seen)
           request == turn[t].request
           usable == turn[t].seen # Nil /\ old.account \in request.pool
                     /\ generation[old.account] = old.login
           native == Native(old.output, request, turn[t].tools.mappings)
       IN  turn' = [turn EXCEPT ![t] =
              IF ~usable THEN [@ EXCEPT !.at = "sent"]
              ELSE IF Sendable(native)
                   THEN [@ EXCEPT !.at = "sent", !.items = MergeHistory(@, native)]
                   ELSE [@ EXCEPT !.at = "sent", !.fenced = FALSE]]
    /\ UNCHANGED <<replayTime, generation, meta, chunk, replayAlarm, begun>>

\* The answer: some reasoning, a message, and calls of the tools the request
\* declared, as ResponseEncoder restores them for the client.
AnswerOf(t, reasons, calls) ==
    LET tools == turn[t].tools.mappings
        reasoning == [type |-> "reasoning", by |-> t, account |-> turn[t].request.account, visible |-> TRUE]
        call(i) == [type |-> "call", call |-> t, wireName |-> tools[i].wireName,
                    child |-> IF tools[i].dispatcher THEN tools[i].name ELSE ""]
    IN  (IF reasons THEN <<reasoning>> ELSE <<>>)
        \o (IF calls = 0 THEN <<[type |-> "message", role |-> "assistant", text |-> t]>>
            ELSE <<RestoreTool(call(calls), tools)>>)

\* What is left of a turn when it is over.
Over(t, wrote) == [at |-> "done", seen |-> turn[t].seen, wrote |-> wrote]

\* The mutant compares no version.
UnfencedCommit(t) == Alive
\* commit() takes effect when no other turn has begun and the hour is not over.
FencedCommit(t) == Alive /\ meta.version = t

\* onCompleted(): what can be replayed is kept, anything else clears it.
Complete(t, output) ==
    LET replayable == Select(output, {"reasoning"} \cup Calls) # <<>>
        value == IF ~replayable THEN <<>>
                 ELSE [i \in DOMAIN output |-> [account |-> turn[t].request.account,
                                                login |-> turn[t].login, item |-> output[i]]]
    IN  IF turn[t].fenced /\ FencedCommit(t)
        THEN /\ chunk' = value
             /\ meta' = [version |-> t, expires |-> replayTime + HistoryTtl, chunks |-> Len(value)]
             /\ replayAlarm' = replayTime + HistoryTtl
             /\ turn' = [turn EXCEPT ![t] = Over(t, value)]
        ELSE /\ turn' = [turn EXCEPT ![t] = Over(t, Nil)]
             /\ UNCHANGED <<meta, chunk, replayAlarm>>

TurnCompletes(t) ==
    /\ turn[t].at = "sent"
    /\ \E reasons \in BOOLEAN, calls \in 0..Len(turn[t].tools.mappings) :
          Complete(t, AnswerOf(t, reasons, calls))
    /\ UNCHANGED <<replayTime, generation, begun>>

\* The answer fails, is abandoned, or its write does.
TurnFails(t) ==
    /\ turn[t].at = "sent" /\ turn' = [turn EXCEPT ![t] = Over(t, Nil)]
    /\ UNCHANGED <<replayTime, generation, meta, chunk, replayAlarm, begun>>

\* XaiReplayStore.alarm()
ReplayAlarmFires ==
    /\ replayAlarm # Nil /\ replayAlarm <= replayTime
    /\ meta # Nil
    /\ IF Alive THEN replayAlarm' = meta.expires /\ UNCHANGED <<meta, chunk>>
       ELSE meta' = Nil /\ chunk' = <<>> /\ replayAlarm' = Nil
    /\ UNCHANGED <<replayTime, generation, begun, turn>>

XaiReplayNext ==
    \/ ReplayTick \/ ReplayAlarmFires
    \/ \E a \in AccountRefs : NewLogin(a)
    \/ \E t \in Turns :
          \/ \E request \in TurnRequests : Prepare(t, request)
          \/ Begin(t) \/ BeginFails(t) \/ View(t) \/ TurnCompletes(t) \/ TurnFails(t)

XaiReplaySpec == XaiReplayInit /\ [][XaiReplayNext]_replayVars

-----------------------------------------------------------------------------
\* The object holds what the last turn to begin has written, or what that
\* turn has found: never an answer that comes after a newer turn began.
HistoryIsOfTheLatestTurn ==
    IF meta = Nil THEN chunk = <<>> /\ replayAlarm = Nil
    ELSE /\ Len(chunk) = meta.chunks /\ replayAlarm = meta.expires
         /\ LET latest == turn[begun]
            IN  chunk = IF latest.wrote # Nil THEN latest.wrote
                        ELSE IF latest.seen # Nil THEN latest.seen ELSE <<>>

\* What is sent has every call once, before its answer, under a name the
\* request defines.
SentIsWhole ==
    \A t \in Turns :
       turn[t].at = "sent" =>
          LET items == turn[t].items
              calls == {i \in DOMAIN items : items[i].type = "call"}
          IN  /\ \A i, j \in calls : items[i].call = items[j].call => i = j
              /\ \A i \in calls, j \in DOMAIN items :
                    items[j].type = "output" /\ items[j].call = items[i].call => i < j
              /\ \A i \in calls : \E k \in DOMAIN turn[t].tools.definitions :
                    turn[t].tools.definitions[k] = items[i].wireName

\* A tool that the provider calls is the tool it finds again in the history.
ToolsComeBack ==
    \A t \in Turns :
       turn[t].at \in {"begin", "view", "sent"} =>
          LET tools == turn[t].tools.mappings
          IN  \A i \in DOMAIN tools : FindTool(tools, tools[i].name, tools[i].namespace) = tools[i]

(* However turns of a session overlap, the history kept is that of the turn   *)
(* that began last (XaiReplayStore.commit); what is sent after a history was  *)
(* merged into it has every call once and before its answer (mergeHistory),   *)
(* and a tool the provider called is found again under its name (findTool).   *)
XaiHistoryIsSound == HistoryIsOfTheLatestTurn /\ SentIsWhole /\ ToolsComeBack
=============================================================================
