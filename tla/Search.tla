------------------------------- MODULE Search -------------------------------
(***************************************************************************)
(* A web search served by a configured provider (gateway/search).          *)
(*                                                                         *)
(* A request carries a batch of queries.  Two workers take them in turn,   *)
(* each query is one call to the search provider, all of them share one    *)
(* budget of bytes, and the first failure aborts the batch.  A body that   *)
(* is parsed is a record of what its checks tell apart; a domain is a      *)
(* model value.                                                            *)
(***************************************************************************)
EXTENDS Integers, Sequences, FiniteSets, SequencesExt

CONSTANTS Nil, Searches, Workers, MaxQueries, MaxRecency, MaxInclude, MaxExclude,
          MaxBody, MaxBatch, Replies

VARIABLES search,    \* the request
          phase,     \* "body", "batch", "answered"
          nextIndex, \* the query the next free worker takes
          task,      \* per worker, the query it works on and the bytes it has read
          responses, \* per query, its results
          consumed,  \* the bytes the batch has used
          firstError, \* the error the batch fails with
          gone,      \* the client has cancelled the request
          calls,     \* per query, the domains its call was restricted to
          causes,    \* what went wrong, in the order of time
          result     \* the answer

searchVars == <<search, phase, nextIndex, task, responses, consumed, firstError, gone,
                calls, causes, result>>

Free == [at |-> "free"]
Ended == [at |-> "ended"]
\* "none" is an absent list; an empty one is a restriction to nothing.
NoList == {"none"}
SupportedCommands == {"search_query", "response_length"}
SupportedSettings == {"filters", "allowed_callers", "external_web_access"}
SupportedFilters == {"allowed_domains", "blocked_domains"}
QueryFields == {"q", "recency", "domains"}

\* intersectDomains()
Intersect(query, allowed) ==
    CASE query = NoList -> allowed
      [] allowed = NoList -> query
      [] OTHER -> query \cap allowed

Disjoint(query, allowed) ==
    query # NoList /\ allowed # NoList /\ Intersect(query, allowed) = {}

\* parseQueries(): one entry.
QueryError(q) ==
    CASE ~(q.fields \subseteq QueryFields) -> "unsupported_search_command"
      [] q.blank \/ q.recency \notin 0..MaxRecency -> "invalid_search_request"
      [] OTHER -> ""

FirstNonEmpty(errors) ==
    LET found == SelectSeq(errors, LAMBDA e : e # "") IN IF found = <<>> THEN "" ELSE found[1]

ParseQueries(s) ==
    IF Len(s.queries) \notin 1..MaxQueries THEN "invalid_search_request"
    ELSE FirstNonEmpty([i \in DOMAIN s.queries |-> QueryError(s.queries[i])])

ParseFilters(s) ==
    CASE ~(s.filters \subseteq SupportedFilters) -> "unsupported_search_setting"
      [] s.allowed = {} -> "invalid_search_request"
      [] OTHER -> ""

\* parseSearchRequest(): the checks in their order.  `form' tells whether the
\* body is an object with a model and objects for its parts, `metadata' whether
\* response length, callers and web access have values that are known.
ParseSearchRequest(s) ==
    FirstNonEmpty(<<
        IF s.form THEN "" ELSE "invalid_search_request",
        IF s.commands \subseteq SupportedCommands THEN "" ELSE "unsupported_search_command",
        IF s.settings \subseteq SupportedSettings THEN "" ELSE "unsupported_search_setting",
        ParseQueries(s),
        IF s.metadata THEN "" ELSE "invalid_search_request",
        ParseFilters(s),
        IF \E i \in DOMAIN s.queries : Disjoint(s.queries[i].domains, s.allowed)
        THEN "invalid_search_request" ELSE "">>)

-----------------------------------------------------------------------------
SearchInit ==
    /\ search \in Searches
    /\ phase = "body" /\ nextIndex = 1 /\ consumed = 0
    /\ task = [w \in Workers |-> Ended]
    /\ responses = <<>> /\ calls = <<>> /\ causes = <<>>
    /\ firstError = Nil /\ gone = FALSE /\ result = Nil

Respond(status, code) ==
    /\ phase' = "answered"
    /\ result' = [status |-> status, code |-> code, results |-> <<>>]

\* handleConfiguredWebSearch(): read, parse, check the model, start.
ReadRequest ==
    /\ phase = "body"
    /\ LET error == ParseSearchRequest(search) IN
       CASE search.bytes > MaxBody -> Respond(413, "request_too_large") /\ UNCHANGED task
         [] search.bytes <= MaxBody /\ error # "" -> Respond(400, error) /\ UNCHANGED task
         [] search.bytes <= MaxBody /\ error = "" /\ ~search.model ->
               Respond(400, "model_not_found") /\ UNCHANGED task
         [] OTHER ->
               /\ phase' = "batch"
               /\ \E ws \in SUBSET Workers :
                     /\ Cardinality(ws) = IF Len(search.queries) < Cardinality(Workers)
                                          THEN Len(search.queries) ELSE Cardinality(Workers)
                     /\ task' = [w \in Workers |-> IF w \in ws THEN Free ELSE Ended]
               /\ UNCHANGED result
    /\ UNCHANGED <<search, nextIndex, responses, consumed, firstError, gone, calls, causes>>

FirstErrorOr(error) == IF firstError = Nil THEN error ELSE firstError

\* A worker's catch: it ends, and the first error aborts the batch.
WorkerFails(w, error, own) ==
    /\ task' = [task EXCEPT ![w] = Ended]
    /\ firstError' = FirstErrorOr(error)
    /\ causes' = IF own THEN Append(causes, error) ELSE causes

Aborted == gone \/ firstError # Nil

\* The head of a worker's loop and the checks before the call.
TakeQuery(w) ==
    /\ phase = "batch" /\ task[w] = Free
    /\ IF Aborted \/ nextIndex > Len(search.queries)
       THEN /\ task' = [task EXCEPT ![w] = Ended]
            /\ nextIndex' = IF Aborted THEN nextIndex ELSE nextIndex + 1
            /\ UNCHANGED <<firstError, calls, causes>>
       ELSE LET include == Intersect(search.queries[nextIndex].domains, search.allowed) IN
            /\ nextIndex' = nextIndex + 1
            /\ IF \/ include # NoList /\ Cardinality(include) > MaxInclude
                  \/ search.blocked # NoList /\ Cardinality(search.blocked) > MaxExclude
               THEN WorkerFails(w, "input", TRUE) /\ UNCHANGED calls
               ELSE /\ task' = [task EXCEPT ![w] = [at |-> "sent", query |-> nextIndex, read |-> 0]]
                    /\ calls' = Append(calls, [query |-> nextIndex, include |-> include])
                    /\ UNCHANGED <<firstError, causes>>
    /\ UNCHANGED <<search, phase, responses, consumed, gone, result>>

\* fetchProvider(): what the provider does with the call.
\*   "http" an error status, "network" no answer, "timeout" none in time,
\*   "json" or "shape" a body that cannot be used, "done" a body that can
Reply(w) ==
    /\ phase = "batch" /\ task[w].at \in {"sent", "reading"} /\ ~Aborted
    /\ \E reply \in Replies :
          /\ reply \in {"http"} => task[w].at = "sent"
          /\ reply \in {"json", "shape", "done"} => task[w].at = "reading"
          /\ CASE reply = "done" ->
                    /\ responses' = Append(responses, task[w].query)
                    /\ task' = [task EXCEPT ![w] = Free]
                    /\ UNCHANGED <<firstError, causes>>
               [] reply \in {"json", "shape"} -> WorkerFails(w, "protocol", TRUE) /\ UNCHANGED responses
               [] reply = "timeout" -> WorkerFails(w, "network", TRUE) /\ UNCHANGED responses
               [] OTHER -> WorkerFails(w, reply, TRUE) /\ UNCHANGED responses
    /\ UNCHANGED <<search, phase, nextIndex, consumed, gone, calls, result>>

\* readBodyWithinLimit() with SearchBatchBudget.consume(): the batch's budget
\* is charged before the chunk is taken.
Chunk(w) ==
    /\ phase = "batch" /\ task[w].at \in {"sent", "reading"} /\ ~Aborted
    /\ \E bytes \in 1..2 :
          IF consumed + bytes > MaxBatch \/ task[w].read + bytes > MaxBody
          THEN WorkerFails(w, "protocol", TRUE) /\ UNCHANGED consumed
          ELSE /\ consumed' = consumed + bytes
               /\ task' = [task EXCEPT ![w] = [@ EXCEPT !.at = "reading", !.read = @ + bytes]]
               /\ UNCHANGED <<firstError, causes>>
    /\ UNCHANGED <<search, phase, nextIndex, responses, gone, calls, result>>

\* A call that is under way ends when the batch is aborted; a reply that had
\* already come is still taken.
Interrupted(w) ==
    /\ phase = "batch" /\ task[w].at \in {"sent", "reading"} /\ Aborted
    /\ \/ WorkerFails(w, "network", FALSE) /\ UNCHANGED responses
       \/ /\ task[w].at = "reading"
          /\ responses' = Append(responses, task[w].query)
          /\ task' = [task EXCEPT ![w] = Free]
          /\ UNCHANGED <<firstError, causes>>
    /\ UNCHANGED <<search, phase, nextIndex, consumed, gone, calls, result>>

Cancel ==
    /\ phase = "batch" /\ ~gone /\ gone' = TRUE
    /\ UNCHANGED <<search, phase, nextIndex, task, responses, consumed, firstError, calls,
                   causes, result>>

\* The status a batch's error is answered with.
ErrorAnswer(error) ==
    CASE error = "input" -> <<400, "invalid_search_request">>
      [] error = "http" -> <<429, "web_search_upstream_error">>
      [] error = "protocol" -> <<502, "web_search_invalid_response">>
      [] OTHER -> <<502, "web_search_unavailable">>

\* executeSearchBatch() returns; codexResults() numbers the results in the
\* order of the queries.
Finished ==
    /\ phase = "batch" /\ \A w \in Workers : task[w] = Ended
    /\ CASE firstError # Nil -> Respond(ErrorAnswer(firstError)[1], ErrorAnswer(firstError)[2])
         [] firstError = Nil /\ gone -> Respond(502, "web_search_unavailable")
         [] OTHER -> /\ phase' = "answered"
                     /\ result' = [status |-> 200, code |-> "",
                                   results |-> SetToSortSeq(ToSet(responses), LAMBDA i, j : i < j)]
    /\ UNCHANGED <<search, nextIndex, task, responses, consumed, firstError, gone, calls, causes>>

SearchNext ==
    \/ ReadRequest
    \/ \E w \in Workers : TakeQuery(w) \/ Reply(w) \/ Chunk(w) \/ Interrupted(w)
    \/ Cancel
    \/ Finished

SearchSpec == SearchInit /\ [][SearchNext]_searchVars

-----------------------------------------------------------------------------
\* A search that succeeds holds the results of every query, each called once
\* and within both its own domains and the filter's; one that fails tells what
\* went wrong first, not what the abort of the batch then caused in the other
\* worker; and the batch never takes more bytes than its budget
\* (executeSearchBatch, fetchProvider).
SearchIsWhole ==
    /\ consumed <= MaxBatch
    /\ \A i \in DOMAIN calls :
          LET q == search.queries[calls[i].query].domains IN
          /\ \A j \in DOMAIN calls : calls[i].query = calls[j].query => i = j
          /\ q # NoList => calls[i].include \subseteq q
          /\ search.allowed # NoList => calls[i].include \subseteq search.allowed
    /\ phase = "answered" /\ result.status = 200 =>
          result.results = [i \in DOMAIN search.queries |-> i]
    /\ phase = "answered" /\ causes # <<>> =>
          /\ result.status # 200
          /\ ~gone => <<result.status, result.code>> = ErrorAnswer(causes[1])
=============================================================================
