----------------------------- MODULE XaiEncoder -----------------------------
(***************************************************************************)
(* The translation of xAI's stream into either dialect                     *)
(* (providers/xai/response-encoder.ts, response.ts, search.ts).            *)
(*                                                                         *)
(* `Streams' are the upstream streams: for each of their items its kind,   *)
(* and how the events about it name it: by the place of the item, by its   *)
(* id, by both, or ("lean") not at all once it was announced.  Events of   *)
(* different items come interleaved, unless they are lean.  A text is the number of its pieces.  *)
(* Kinds: "message", "reasoning", "tool"; "custom", a tool whose arguments *)
(* are rewritten as a whole; "search", a trace shown to the client;        *)
(* "hidden", a trace that is not; "undeclared" and "media", which are      *)
(* refused.                                                                *)
(***************************************************************************)
EXTENDS ClientStream, FiniteSets, SequencesExt

CONSTANTS Streams, MaxPieces

VARIABLES stream,  \* the upstream stream, and the dialect of the client
          up,      \* per upstream item, how far its events have come
          enc,     \* the encoder
          out,     \* the events given to the client
          over     \* the stream has ended

xaiVars == <<stream, up, enc, out, over>>

Fresh == [kind |-> "", id |-> 0, pieces |-> 0, from |-> 0, closed |-> FALSE, opened |-> FALSE,
          part |-> FALSE, sealed |-> FALSE, block |-> -1]
NewEncoder == [items |-> <<>>, places |-> <<>>, started |-> FALSE, block |-> 0]
Textual == {"message", "reasoning"}

\* The result of a step of the encoder; what it had written is lost with it
\* when it throws.
Ok(x, events) == [x |-> x, events |-> events, fail |-> FALSE]
Throw(x) == [x |-> x, events |-> <<>>, fail |-> TRUE]
Then(r, events) == [r EXCEPT !.events = @ \o events]

Start(x) ==
    IF x.started THEN Ok(x, <<>>)
    ELSE Ok([x EXCEPT !.started = TRUE], <<StreamEvent("start", -1, 0)>>)

-----------------------------------------------------------------------------
\* outputIndex(): the item an event is about, by id, by place, or because it
\* is the only one open.  A new item takes the next index.
Named(e) == e.name \in {"id", "both"} \/ e.type \in {"added", "done", "final"}
Placed(e) == e.name \in {"index", "both"} \/ e.type = "final"
ItemEvent(e) == e.type \in {"added", "done", "final"}

IndexOf(x, e) ==
    LET byId == {i \in DOMAIN x.items : Named(e) /\ x.items[i].id = e.item}
        byPlace == IF Placed(e) /\ e.place \in DOMAIN x.places THEN {x.places[e.place]} ELSE {}
        open == {i \in DOMAIN x.items : ~x.items[i].closed}
    IN  CASE byId # {} -> CHOOSE i \in byId : TRUE
          [] byId = {} /\ byPlace # {} -> CHOOSE i \in byPlace : TRUE
          [] byId = {} /\ byPlace = {} /\ ~ItemEvent(e) /\ Cardinality(open) = 1 ->
                CHOOSE i \in open : TRUE
          [] OTHER -> Len(x.items) + 1

\* The mutant does not remember which item a place stands for.
PlacesForgotten(x, e, i) == x.places
PlacesOf(x, e, i) == IF Placed(e) THEN (e.place :> i) @@ x.places ELSE x.places

\* ensure(): what the event tells is merged into the item.
Ensure(x, e, i) ==
    LET old == IF i \in DOMAIN x.items THEN x.items[i] ELSE Fresh
        item == [old EXCEPT !.id = IF Named(e) THEN e.item ELSE @,
                            !.kind = IF ItemEvent(e) THEN e.kind ELSE @,
                            !.from = IF @ = 0 THEN e.item ELSE @,
                            !.sealed = @ \/ (ItemEvent(e) /\ e.sealed)]
    IN  [x EXCEPT !.places = PlacesOf(x, e, i),
                  !.items = IF i \in DOMAIN x.items THEN [@ EXCEPT ![i] = item] ELSE Append(@, item)]

\* openItem() and openPart() of the Responses dialect: a tool that is rewritten
\* is not announced before it is complete.
OpenItem(x, i) ==
    IF x.items[i].opened \/ x.items[i].kind \in {"custom", "undeclared"} THEN Ok(x, <<>>)
    ELSE Ok([x EXCEPT !.items[i].opened = TRUE], <<StreamEvent("open", i - 1, x.items[i].from)>>)

OpenPart(x, i) ==
    LET r == OpenItem(x, i) IN
    IF x.items[i].part THEN r
    ELSE Then([r EXCEPT !.x.items[i].part = TRUE], <<StreamEvent("part", i - 1, x.items[i].from)>>)

\* The first delta of a text opens its block in the Messages dialect.
OpenBlock(x, i) ==
    IF x.items[i].block >= 0 THEN Ok(x, <<>>)
    ELSE Ok([x EXCEPT !.items[i].block = x.block, !.block = @ + 1],
            <<StreamEvent("open", x.block, x.items[i].from)>>)

-----------------------------------------------------------------------------
\* finishItem(): what is left of the text, and the item is closed.  `text'
\* says how the final text relates to what was streamed.
Extra(text, index, from) == IF text = "more" THEN <<StreamEvent("delta", index, from)>> ELSE <<>>

FinishResponses(x, i, text) ==
    LET item == x.items[i]
        r == IF item.kind \in Textual THEN OpenPart(x, i) ELSE OpenItem(x, i)
        whole == <<StreamEvent("open", i - 1, item.from), StreamEvent("delta", i - 1, item.from)>>
    IN  CASE text = "changed" /\ item.kind \in Textual \cup {"tool"} -> Throw(x)
          [] item.kind = "custom" -> Ok(x, Append(whole, StreamEvent("close", i - 1, item.from)))
          [] OTHER -> Then(r, Extra(text, i - 1, item.from)
                              \o <<StreamEvent("close", i - 1, item.from)>>)

FinishMessages(x, i, text) ==
    LET item == x.items[i]
        r == OpenBlock(x, i)
        block == r.x.items[i].block
        signature == IF item.kind = "reasoning" /\ item.sealed
                     THEN <<StreamEvent("delta", block, item.from)>> ELSE <<>>
    IN  CASE item.kind \in {"tool", "custom"} ->
                 Then(r, <<StreamEvent("delta", block, item.from), StreamEvent("close", block, item.from)>>)
          [] item.kind \notin {"tool", "custom"} /\ text = "changed" -> Throw(x)
          [] OTHER -> Then(r, Extra(text, block, item.from) \o signature
                              \o <<StreamEvent("close", block, item.from)>>)

\* A reasoning item waits for its encrypted content until the response ends.
FinishItem(x, i, text, terminal) ==
    LET item == x.items[i]
        y == [x EXCEPT !.items[i].closed = TRUE]
    IN  CASE item.closed \/ (~terminal /\ item.kind = "reasoning" /\ ~item.sealed) -> Ok(x, <<>>)
          [] ~item.closed /\ item.kind \in {"", "undeclared", "media"} -> Throw(x)
          [] ~item.closed /\ terminal /\ item.kind = "reasoning" /\ ~item.sealed
                /\ (item.pieces > 0 \/ text = "more") -> Throw(x)
          [] OTHER -> IF stream.anthropic THEN FinishMessages(y, i, text) ELSE FinishResponses(y, i, text)

-----------------------------------------------------------------------------
\* XaiSearchFilter: the traces that are the provider's own work.
Hidden(kind) == kind = "hidden" \/ (stream.anthropic /\ stream.search /\ kind = "search")

\* accept(), the events of one item.
AcceptItem(x, e) ==
    LET i == IndexOf(x, e)
        s == Start(Ensure(x, e, i))
        open == IF stream.anthropic THEN OpenBlock(s.x, i) ELSE OpenPart(s.x, i)
        index == IF stream.anthropic THEN open.x.items[i].block ELSE i - 1
        then(r) == IF r.fail THEN r ELSE [r EXCEPT !.events = s.events \o @]
    IN  CASE e.type = "added" /\ stream.anthropic -> s
          [] e.type = "added" /\ ~stream.anthropic ->
                IF e.kind = "undeclared" THEN Throw(x) ELSE then(OpenItem(s.x, i))
          [] e.type = "done" -> then(FinishItem(s.x, i, e.text, FALSE))
          [] e.type = "delta" /\ e.kind \in Textual ->
                then(Then([open EXCEPT !.x.items[i].pieces = @ + 1],
                          <<StreamEvent("delta", index, e.item)>>))
          [] e.type = "delta" /\ e.kind \notin Textual ->
                then(Ok([s.x EXCEPT !.items[i].pieces = @ + 1],
                        IF stream.anthropic \/ s.x.items[i].kind = "custom" THEN <<>>
                        ELSE <<StreamEvent("delta", i - 1, e.item)>>))

\* accept() of the last event: the items it lists are merged first, then every
\* item that is still open is finished in the order of the indexes.
Final(x, listed) ==
    LET merge(y, e) == Ensure(y, e, IndexOf(y, e)) IN FoldLeft(merge, x, listed)

FinishAll(x) ==
    LET finish(r, i) ==
            IF r.fail THEN r
            ELSE LET f == FinishItem(r.x, i, "same", TRUE) IN
                 IF f.fail THEN f ELSE [f EXCEPT !.events = r.events \o @]
    IN  FoldLeft(finish, Start(x), [i \in DOMAIN x.items |-> i])

AcceptTerminal(x, listed) ==
    LET r == FinishAll(Final(x, listed)) IN
    IF r.fail THEN r ELSE Then(r, <<StreamEvent("end", -1, 0)>>)

-----------------------------------------------------------------------------
XaiInit ==
    /\ stream \in Streams
    /\ up = [u \in DOMAIN stream.items |-> [at |-> "new", pieces |-> 0]]
    /\ enc = NewEncoder /\ out = <<>> /\ over = FALSE

\* convertResponse(): an exception ends the stream with an error event.
Give(r) ==
    /\ enc' = r.x
    /\ out' = out \o (IF r.fail THEN <<StreamEvent("error", -1, 0)>> ELSE r.events)
    /\ over' = (r.fail \/ (r.events # <<>> /\ Last(r.events).type \in {"end", "error"}))

About(u, type, text, sealed) ==
    [type |-> type, item |-> u, place |-> u - 1, name |-> stream.items[u].name,
     kind |-> stream.items[u].kind, text |-> text, sealed |-> sealed]

\* An event about an item.  The provider announces an item before it writes to
\* it: the encoder takes a piece of an item it does not know for a piece of the
\* only open one.  An item may also come complete, without an announcement.
Announce(u) ==
    /\ ~over /\ up[u].at = "new"
    /\ stream.items[u].name = "lean" => \A v \in DOMAIN up : up[v].at # "open"
    /\ up' = [up EXCEPT ![u].at = "open"]
    /\ IF stream.search /\ Hidden(stream.items[u].kind) THEN UNCHANGED <<enc, out, over>>
       ELSE Give(AcceptItem(enc, About(u, "added", "", FALSE)))
    /\ UNCHANGED stream

Write(u) ==
    /\ ~over /\ up[u].at = "open" /\ up[u].pieces < MaxPieces
    /\ stream.items[u].kind \notin {"search", "media"}
    /\ up' = [up EXCEPT ![u].pieces = @ + 1]
    /\ IF stream.search /\ Hidden(stream.items[u].kind) THEN UNCHANGED <<enc, out, over>>
       ELSE Give(AcceptItem(enc, About(u, "delta", "", FALSE)))
    /\ UNCHANGED stream

Complete(u) ==
    /\ ~over /\ up[u].at \in {"new", "open"}
    /\ \E text \in {"same", "more", "changed"}, sealed \in BOOLEAN :
          /\ sealed => stream.items[u].kind = "reasoning"
          /\ text = "more" => stream.items[u].kind # "search"
          /\ up' = [up EXCEPT ![u].at = "done"]
          /\ IF stream.search /\ Hidden(stream.items[u].kind) THEN UNCHANGED <<enc, out, over>>
             ELSE Give(AcceptItem(enc, About(u, "done", text, sealed)))
    /\ UNCHANGED stream

\* response.completed or response.incomplete, which lists every item or none;
\* hidden ones are taken out of the list, so that the places shift.
Terminal ==
    /\ ~over /\ \A u \in DOMAIN up : up[u].at # "new"
    /\ \E whole \in BOOLEAN, sealed \in BOOLEAN :
          LET shown == SelectSeq([u \in DOMAIN up |-> u],
                                 LAMBDA u : ~(stream.search /\ Hidden(stream.items[u].kind)))
              listed == [k \in DOMAIN shown |->
                            [About(shown[k], "final", "same", sealed) EXCEPT !.place = k - 1]]
          IN  Give(AcceptTerminal(enc, IF whole THEN listed ELSE <<>>))
    /\ UNCHANGED <<stream, up>>

\* The provider reports a failure.
Failed ==
    /\ ~over
    /\ Give(Then(Start(enc), <<StreamEvent("error", -1, 0)>>))
    /\ UNCHANGED <<stream, up>>

\* The stream breaks off, is malformed or exceeds a limit.
Broken ==
    /\ ~over
    /\ Give(Throw(enc))
    /\ UNCHANGED <<stream, up>>

XaiNext ==
    \/ \E u \in DOMAIN up : Announce(u) \/ Write(u) \/ Complete(u)
    \/ Terminal
    \/ Failed
    \/ Broken

XaiSpec == XaiInit /\ [][XaiNext]_xaiVars

-----------------------------------------------------------------------------
\* Whatever the order of the provider's events and however they name their
\* items, the client reads a well-formed stream; and when it ends well, every
\* piece of a text was given to the client, under the item it belongs to, and
\* no item twice (ResponseEncoder.accept).
XaiStreamIsWellFormed ==
    /\ WellFormed(out)
    /\ out # <<>> /\ Last(out).type = "end" =>
          \A u \in DOMAIN up :
             LET opens == {k \in DOMAIN out : out[k].type = "open" /\ out[k].from = u} IN
             IF stream.search /\ Hidden(stream.items[u].kind) THEN opens = {}
             ELSE /\ Cardinality(opens) = 1
                  /\ stream.items[u].kind \in Textual => Written(out, u) >= up[u].pieces
=============================================================================
