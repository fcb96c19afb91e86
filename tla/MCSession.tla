----------------------------- MODULE MCSession ------------------------------
(***************************************************************************)
(* What surrounds a session with the models: the account it stays with,    *)
(* the history that is replayed for it, the streams that are translated,   *)
(* the catalog of models and the web search.  One of these parts runs, the *)
(* others stay as they began.                                              *)
(***************************************************************************)
EXTENDS SessionAffinity, SequencesExt, TLC

VARIABLES part,
    replayTime, generation, meta, chunk, replayAlarm, begun, turn,
    stream, up, enc, out, over,
    anthropic, whole, native, coder, shown, state, asked,
    world, catTime, local, shared, asking, answered, reports,
    search, phase, nextIndex, workers, responses, consumed, firstError, gone, calls, causes, result

replay == <<replayTime, generation, meta, chunk, replayAlarm, begun, turn>>
xai == <<stream, up, enc, out, over>>
antigravity == <<anthropic, whole, native, coder, shown, state, asked>>
catalog == <<world, catTime, local, shared, asking, answered, reports>>
searching ==
    <<search, phase, nextIndex, workers, responses, consumed, firstError, gone, calls, causes, result>>

-----------------------------------------------------------------------------
(* Session affinity. *)

\* A provider with two accounts, and another that may outrank it.

Account(id, priority) == [id |-> id, priority |-> priority]
Pool(credentials, rotates) ==
    [id |-> "pool", priority |-> 1, credentials |-> credentials, retain |-> rotates, rotates |-> rotates]
Other(priority) ==
    [id |-> "other", priority |-> priority, credentials |-> <<Account("x", 0)>>,
     retain |-> FALSE, rotates |-> FALSE]

Lists == {<<Pool(<<Account("a", 1), Account("b", 1)>>, TRUE), Other(0)>>,
          <<Pool(<<Account("a", 0), Account("b", 1)>>, FALSE)>>,
          <<Pool(<<Account("a", 0), Account("b", 1)>>, TRUE), Other(2)>>}

Symmetry == Permutations(Tasks) \cup Permutations(Models) \cup Permutations(Managers)

-----------------------------------------------------------------------------
(* Streams of xAI and Antigravity. *)

XaiKinds == {"message", "reasoning", "tool", "custom", "search", "hidden", "undeclared", "media"}
Item(k, n) == [kind |-> k, name |-> n]
\* Two items of every pair of kinds; items that are not named after they were
\* announced come one after another, and none of them waits for the end.
MCStreams ==
    {[items |-> <<Item(k, n), Item(l, m)>>, anthropic |-> a, search |-> TRUE] :
        k \in XaiKinds, l \in {"message", "tool", "reasoning"}, n \in {"both", "id", "index"},
        m \in {"id", "index"}, a \in BOOLEAN}
    \cup
    {[items |-> <<Item(k, "lean"), Item(l, "lean")>>, anthropic |-> a, search |-> FALSE] :
        k \in XaiKinds \ {"hidden", "reasoning"}, l \in {"message", "tool", "custom"}, a \in BOOLEAN}

Xai == INSTANCE XaiEncoder WITH Streams <- MCStreams, MaxPieces <- 1

MCParts ==
    [kind : {"text", "thinking", "bare"}, signed : BOOLEAN, valid : {TRUE}, named : {TRUE}]
    \cup [kind : {"tool"}, signed : BOOLEAN, valid : {TRUE}, named : BOOLEAN]
    \cup [kind : {"tool"}, signed : BOOLEAN, valid : {FALSE}, named : {TRUE}]
    \cup [kind : {"media"}, signed : {FALSE}, valid : {TRUE}, named : {TRUE}]

Tool(type, space, name) == [type |-> type, space |-> space, name |-> name]
Read == Tool("function", "", "read")
Edit == Tool("custom", "files", "edit")
Web == Tool("search", "", "web_search")
ToolLists == {<<>>, <<Web>>, <<Read>>, <<Read, Web>>, <<Edit, Read>>, <<Read, Edit, Read>>,
            <<Tool("computer", "", "screen")>>}
ToolChoices ==
    [type : {"none", "auto", "required", "any"}, mode : {""}, tools : {{}}]
    \cup [type : {"allowed_tools"}, mode : {"auto", "required", "none"}, tools : SUBSET {Read, Edit, Web}]
    \cup [type : {"function"}, mode : {""}, tools : {{Read}, {Edit}, {Web}}]
Thinkings ==
    [type : {"", "disabled", "enabled", "adaptive"}, effort : {"", "none", "auto", "low", "medium", "max"},
     budget : {-1, 0, 1024, 9000}]
Model(claude, level, thinking) == [claude |-> claude, level |-> level, pro |-> level, thinking |-> thinking]
Adaptive == [type |-> "adaptive", effort |-> "", budget |-> -1]
Auto == [type |-> "auto", mode |-> "", tools |-> {}]
MCAsks ==
    [tools : ToolLists, choice : ToolChoices, thinking : {Adaptive}, model : {Model(TRUE, FALSE, TRUE)}, limit : {0}]
    \cup [tools : {<<Read>>}, choice : {Auto}, thinking : Thinkings,
          model : {Model(TRUE, FALSE, TRUE), Model(FALSE, TRUE, FALSE), Model(FALSE, FALSE, FALSE)},
          limit : {0, 1024, 1025, 4000}]

Antigravity == INSTANCE AntigravityAdapter
    WITH Parts <- MCParts, Asks <- MCAsks, MaxParts <- 3, MaxItems <- 4

-----------------------------------------------------------------------------
(* Conversations with xAI. *)

Fn(name) == [type |-> "function", name |-> name, tools |-> <<>>, sound |-> TRUE]
Space(name, tools) == [type |-> "namespace", name |-> name, tools |-> tools, sound |-> TRUE]
Message(role, of) == [type |-> "message", role |-> role, text |-> of]
Answer(of) == [type |-> "output", call |-> of]
CallOf(of, name, namespace) == [type |-> "function_call", call |-> of, name |-> name, namespace |-> namespace]
AnyTool == [type |-> "auto", name |-> "", namespace |-> "none"]

Shadowed == <<Fn("a"), Space("n", <<Fn("a")>>)>>
Folded == <<Space("n", <<Fn("a"), Fn("b")>>), [Fn("c") EXCEPT !.type = "custom"],
            [Fn("") EXCEPT !.type = "x_search"]>>
Conversation == [tools |-> Shadowed, reserved |-> 0, choice |-> AnyTool, items |-> <<Message("user", "u")>>,
            pool |-> {"a1", "a2"}, account |-> "a1", session |-> TRUE]

\* First turns, turns that answer a call of the first one and have or have
\* not kept it, turns that have only its message, and refused ones.
MCTurnRequests ==
    {Conversation, [Conversation EXCEPT !.session = FALSE, !.tools = Folded, !.reserved = 1],
     [Conversation EXCEPT !.account = "a2", !.items = <<Message("system", "s"), Message("user", "u"), Answer("t1")>>],
     [Conversation EXCEPT !.items = <<Message("user", "u"), CallOf("t1", "a", "none"), Answer("t1")>>],
     [Conversation EXCEPT !.tools = Folded, !.items = <<Message("user", "u"), Answer("t1")>>],
     [Conversation EXCEPT !.items = <<Message("user", "u"), Message("assistant", "t1"), Message("user", "v")>>],
     [Conversation EXCEPT !.tools = Append(Folded, Fn("c"))],
     [Conversation EXCEPT !.pool = {"a2"}, !.account = "a2"]}

Replay == INSTANCE XaiReplay
    WITH Nil <- None, Turns <- {"t1", "t2"}, AccountRefs <- {"a1", "a2"}, TurnRequests <- MCTurnRequests,
         MaxTools <- 4, MaxReplayTime <- 1, HistoryTtl <- 1, MaxLogins <- 2

-----------------------------------------------------------------------------
(* The catalog of models. *)

MCFamily == ("g-low" :> "g") @@ ("g-high" :> "g")
MCPublished == ("g-low" :> 2) @@ ("g-high" :> 1) @@ ("m" :> 2) @@ ("n" :> None) @@ ("g" :> 3)
               @@ ("codex-auto-review" :> 1)

To(model, providers) == [model |-> model, providers |-> providers]

\* Two clients: one whose routes rename models, hide one behind another and
\* keep a route to one provider, and one without routes.
Routed1 ==
    [order |-> <<"p", "q", "d">>, type |-> ("p" :> "antigravity") @@ ("q" :> "codex") @@ ("d" :> "openai"),
     prio |-> ("p" :> 0) @@ ("q" :> 1) @@ ("d" :> 2),
     creds |-> ("p" :> <<"c1">>) @@ ("q" :> <<"c2">>) @@ ("d" :> <<"c3">>),
     off |-> {"d"}, allowed |-> {"p", "q", "d"},
     models |-> ("p" :> {"g-low", "g-high", "n"}) @@ ("q" :> {"m", "n", "codex-auto-review"})
                @@ ("d" :> {"m"}),
     own |-> ("p" :> ("x" :> To("g-high", {"p"}))) @@ ("q" :> <<>>) @@ ("d" :> <<>>),
     client |-> ("x" :> To("m", {"p", "q"})) @@ ("n" :> To("m", {"q"})),
     global |-> ("y" :> To("n", {"q"})) @@ ("m" :> To("g", {"p"}))]
Plain1 ==
    [Routed1 EXCEPT !.own = ("p" :> <<>>) @@ ("q" :> <<>>) @@ ("d" :> <<>>), !.client = <<>>, !.global = <<>>,
                    !.allowed = {"p", "q"}, !.models["p"] = {"g", "g-low", "m"}]
MCSetups == ("a" :> Routed1) @@ ("b" :> Plain1) @@ ("c" :> [Plain1 EXCEPT !.allowed = {"q"}])

AllOutcomes == {"whole", "part", "local", "provider", "credential", "other", "invalid",
                "failed", "unprepared", "oauth", "proxy", "cancelled"}
ListAsk(setup, format) == [setup |-> setup, format |-> format]
ListAsks == {ListAsk(s, f) : s \in {"a", "b", "c"}, f \in {"openai", "codex", "anthropic"}}

\* Every request alone with every outcome; three formats and a cache that is
\* too small for them; two processes that share a cache while time passes.
MCWorlds ==
    {[nodes |-> {"n1"}, requests |-> {r}, outcomes |-> AllOutcomes, time |-> 1] : r \in ListAsks}
    \cup {[nodes |-> {"n1"}, requests |-> {r \in ListAsks : r.setup = "c"},
           outcomes |-> {"whole"}, time |-> 2],
          [nodes |-> {"n1", "n2"}, requests |-> {ListAsk("c", "openai")}, outcomes |-> {"whole"}, time |-> 4]}

Listing == INSTANCE Catalog
    WITH Nil <- None, Worlds <- MCWorlds, Setups <- MCSetups, Family <- MCFamily,
         Published <- MCPublished, CodexCatalog <- {"m", "y", "codex-auto-review"},
         Ttl <- 2, MaxTtl <- 3, MaxEntries <- 2, DefaultLimit <- 9

-----------------------------------------------------------------------------
(* Web search. *)

AnyDomain == {"none"}
Query(domains) == [fields |-> {"q"}, blank |-> FALSE, recency |-> 0, domains |-> domains]
Base == [bytes |-> 1, form |-> TRUE, commands |-> {"search_query"}, settings |-> {},
         queries |-> <<Query(AnyDomain)>>, metadata |-> TRUE, filters |-> {},
         allowed |-> AnyDomain, blocked |-> AnyDomain, model |-> TRUE]

\* A search that fails each check, and batches of up to three queries under
\* filters that admit, narrow and refuse their domains.
MCSearches ==
    {[Base EXCEPT !.bytes = 4], [Base EXCEPT !.form = FALSE], [Base EXCEPT !.commands = @ \cup {"open"}],
     [Base EXCEPT !.settings = {"location"}], [Base EXCEPT !.queries = <<>>],
     [Base EXCEPT !.queries = <<Query(AnyDomain), [Query(AnyDomain) EXCEPT !.fields = {"q", "site"}]>>],
     [Base EXCEPT !.queries[1].recency = 3], [Base EXCEPT !.queries[1].blank = TRUE],
     [Base EXCEPT !.queries = [i \in 1..4 |-> Query(AnyDomain)]],
     [Base EXCEPT !.metadata = FALSE], [Base EXCEPT !.model = FALSE],
     [Base EXCEPT !.filters = {"country"}], [Base EXCEPT !.blocked = {"d1", "d2"}],
     [Base EXCEPT !.filters = {"allowed_domains"}, !.allowed = {}]}
    \cup {[Base EXCEPT !.allowed = allowed,
               !.queries = [i \in DOMAIN domains |-> Query(domains[i])]] :
             allowed \in {AnyDomain, {"d1"}, {"d1", "d2"}},
             domains \in {<<AnyDomain>>, <<{"d1"}, AnyDomain>>, <<{}, {"d1"}>>,
                          <<{"d1"}, {"d1", "d3"}, AnyDomain>>}}

Searching == INSTANCE Search
    WITH Nil <- None, Searches <- MCSearches, Workers <- {"w1", "w2"}, MaxQueries <- 3,
         MaxRecency <- 2, MaxInclude <- 1, MaxExclude <- 1, MaxBody <- 3, MaxBatch <- 4,
         Replies <- {"http", "network", "timeout", "json", "shape", "done"}, task <- workers

-----------------------------------------------------------------------------

AnyStream == CHOOSE s \in MCStreams : TRUE
AnyWorld == CHOOSE w \in MCWorlds : TRUE

MCInit ==
    /\ part \in {"affinity", "replay", "xai", "antigravity", "catalog", "search"}
    /\ part # "xai" => stream = AnyStream
    /\ part # "antigravity" => anthropic = FALSE /\ whole = FALSE
    /\ part # "catalog" => world = AnyWorld
    /\ part # "search" => search = Base
    /\ Init /\ Replay!XaiReplayInit /\ Xai!XaiInit /\ Antigravity!RequestInit
    /\ Listing!CatalogInit /\ Searching!SearchInit

MCNext ==
    \/ part = "affinity" /\ Next
       /\ UNCHANGED <<part, replay, xai, antigravity, catalog, searching>>
    \/ part = "replay" /\ Replay!XaiReplayNext
       /\ UNCHANGED <<part, vars, xai, antigravity, catalog, searching>>
    \/ part = "xai" /\ Xai!XaiNext
       /\ UNCHANGED <<part, vars, replay, antigravity, catalog, searching>>
    \/ part = "antigravity" /\ Antigravity!RequestNext
       /\ UNCHANGED <<part, vars, replay, xai, catalog, searching>>
    \/ part = "catalog" /\ Listing!CatalogNext
       /\ UNCHANGED <<part, vars, replay, xai, antigravity, searching>>
    \/ part = "search" /\ Searching!SearchNext
       /\ UNCHANGED <<part, vars, replay, xai, antigravity, catalog>>

MCSpec == MCInit /\ [][MCNext]_<<part, vars, replay, xai, antigravity, catalog, searching>>

\* A turn continues what the last turn has written, with the tools it had
\* (XaiReplay).
XaiHistoryIsSound == part = "replay" => Replay!XaiHistoryIsSound

\* The client reads a well-formed stream that holds what the provider wrote
\* (XaiEncoder).
XaiStreamIsWellFormed == part = "xai" => Xai!XaiStreamIsWellFormed

\* The same of Antigravity and, of its requests, that the
\* history comes back as it was given and the options are honoured
\* (AntigravityAdapter).
AntigravityIsSound == part = "antigravity" =>
    Antigravity!AntigravityStreamIsWellFormed /\ Antigravity!AntigravityRequestsAreSound

\* The catalog is the client's own and current, and what it lists is served
\* (Catalog); a search that succeeds is whole, and one that fails says why
\* (Search).
AnswersAreComplete ==
    /\ part = "catalog" => Listing!AnswersAreCurrent /\ Listing!ListedIsServed
    /\ part = "search" => Searching!SearchIsWhole
=============================================================================
