------------------------------- MODULE MCControl ------------------------------
(***************************************************************************)
(* The control plane, and the WebSocket of a client: one of the two runs,  *)
(* the other stays as it began.                                            *)
(*                                                                         *)
(* Two administrators work on a small configuration in which every kind of *)
(* reference occurs: restricted and open routes, an Antigravity family     *)
(* with a price, a provider behind a proxy group, a search key.            *)
(***************************************************************************)
EXTENDS ControlPlane

VARIABLES part,
    scenario, sess, late, alarm, client, usage, delivered, env, box, up, pc, turn, attempt,
    switching, replay, closing, ending, wrote, heard, blames, replays

MCVariant == [lo |-> "fam", hi |-> "fam"]

P1 == <<0, "p1">>   P2 == <<0, "p2">>   AG == <<0, "ag">>
K1 == <<0, "k1">>   K2 == <<0, "k2">>   KA == <<0, "ka">>
C1 == <<0, "c1">>   G1 == <<0, "g1">>   N1 == <<0, "n1">>
R1 == <<0, "r1">>   R2 == <<0, "r2">>   R3 == <<0, "r3">>
S(o) == <<0, "secret", o>>

MCAccounts == [acct |-> AG]

ServedBy(type, position, group) ==
    [type |-> type, disabled |-> FALSE, group |-> group, position |-> position, live |-> TRUE]
Key(p, n, secret) ==
    [provider |-> p, position |-> n, type |-> "api_key", secret |-> secret,
     account |-> None, group |-> None, live |-> TRUE]
Account(p, n) ==
    [provider |-> p, position |-> n, type |-> "oauth", secret |-> None,
     account |-> "acct", group |-> None, live |-> TRUE]
Alive == [live |-> TRUE]
Route(scope, owner, name, model, restrict) ==
    [scope |-> scope, owner |-> owner, name |-> name, model |-> model,
     restrict |-> restrict, live |-> TRUE]

MCRows ==
    [providers |-> (P1 :> ServedBy("ai_gateway", 1, G1)) @@
                   (P2 :> ServedBy("ai_gateway", 2, None)) @@
                   (AG :> ServedBy("antigravity", 3, None)),
     credentials |-> (K1 :> Key(P1, 1, S(K1))) @@ (K2 :> Key(P2, 1, S(K2))) @@
                     (KA :> Account(AG, 1)),
     models |-> [k \in {<<P1, "m">>, <<P1, "n">>, <<P2, "m">>, <<AG, "lo">>} |->
                    [context |-> IF k[2] = "lo" THEN 1 ELSE None, live |-> TRUE]],
     prices |-> (<<AG, "lo">> :> [pricing |-> 1, live |-> TRUE]),
     routes |-> (R1 :> Route("global", None, "x", "m", TRUE)) @@
                (R2 :> Route("global", None, "y", "fam", FALSE)) @@
                (R3 :> Route("client", C1, "z", "n", TRUE)),
     targets |-> (<<R1, P2>> :> Alive) @@ (<<R3, P1>> :> Alive),
     clients |-> (C1 :> [secret |-> S(C1), live |-> TRUE]),
     clientProviders |-> (<<C1, P1>> :> Alive),
     groups |-> (G1 :> Alive),
     nodes |-> (N1 :> [group |-> G1, secret |-> S(N1), live |-> TRUE]),
     reporting |-> 1,
     search |-> [mode |-> "tavily", secret |-> S(SearchOwner)]]

MCSecrets ==
    (S(K1) :> "t1") @@ (S(K2) :> "t2") @@ (S(C1) :> "t1") @@ (S(N1) :> "t1") @@
    (S(SearchOwner) :> "t1")

-----------------------------------------------------------------------------
(* The requests. *)

ApiKey(id, text) == [id |-> id, auth |-> [type |-> "api_key", api_key |-> text], group |-> None]
Input(type, models, credentials, disabled, group) ==
    [type |-> type, models |-> models, contexts |-> <<>>, routes |-> {}, group |-> group,
     disabled |-> disabled, credentials |-> credentials]
NewRoute(id, name, model, providers) ==
    [id |-> id, name |-> name, model |-> model, providers |-> providers]

Catalog == {
    [kind |-> "removeProvider", id |-> P2],
    [kind |-> "removeProvider", id |-> P1],
    [kind |-> "createProvider", input |->
        Input("ai_gateway", {"m", "fam"}, <<ApiKey(None, "t3")>>, FALSE, None)],
    \* n is no longer served: the client's route loses its model
    [kind |-> "updateProvider", id |-> P1, input |->
        Input("ai_gateway", {"m"}, <<ApiKey(K1, Keep), ApiKey(None, "t4")>>, FALSE, G1)],
    [kind |-> "updateProvider", id |-> P2, input |->
        Input("ai_gateway", {"n"}, <<ApiKey(None, "t2")>>, FALSE, None)],
    \* another thinking level, which inherits; and none, which is refused
    [kind |-> "saveNative", input |-> Input("antigravity", {"lo", "hi"}, <<>>, FALSE, None)],
    [kind |-> "saveNative", input |-> Input("antigravity", {}, <<>>, TRUE, None)],
    [kind |-> "saveGlobalRoutes", routes |->
        {NewRoute(R1, "y", "m", {P1, P2}), NewRoute(R2, "x", "fam", None)}],
    [kind |-> "saveProviderRoutes", id |-> P1, routes |-> {NewRoute(None, "q", "n", None)}],
    [kind |-> "savePrice", scope |-> "family", key |-> <<AG, "lo">>, pricing |-> 2],
    [kind |-> "savePrice", scope |-> "model", key |-> <<AG, "lo">>, pricing |-> None],
    [kind |-> "saveModelFamily", key |-> <<AG, "hi">>, context |-> 2],
    [kind |-> "saveModel", key |-> <<AG, "lo">>, context |-> 2],
    [kind |-> "orderProviders", order |-> <<AG, P2, P1>>]}

Secrets == {
    [kind |-> "saveClient", id |-> None, api_key |-> "t2", providers |-> {P1}, routes |-> {}],
    [kind |-> "saveClient", id |-> None, api_key |-> "t1", providers |-> {}, routes |-> {}],
    [kind |-> "saveClient", id |-> C1, api_key |-> "t2", providers |-> {P2}, routes |-> {}],
    [kind |-> "saveClientRoutes", id |-> C1, routes |-> {NewRoute(None, "z", "m", {P2})}],
    [kind |-> "removeClient", id |-> C1],
    [kind |-> "createCredential", id |-> P2, input |-> ApiKey(None, "t1")],
    [kind |-> "updateCredential", id |-> P1, credential |-> K1, input |-> ApiKey(K1, "t2")],
    [kind |-> "removeCredential", id |-> AG, credential |-> KA],
    [kind |-> "orderCredentials", id |-> P1, order |-> <<K1>>],
    [kind |-> "saveGroup", id |-> G1, nodes |-> <<[id |-> N1, password |-> "t2"],
                                                  [id |-> None, password |-> None]>>],
    [kind |-> "removeGroup", id |-> G1],
    [kind |-> "saveNode", id |-> G1, node |-> N1, input |-> [id |-> N1, password |-> "t2"]],
    [kind |-> "removeNode", id |-> G1, node |-> N1],
    [kind |-> "saveSearch", mode |-> "exa", api_key |-> "t2"],
    [kind |-> "saveSearch", mode |-> "proxy", api_key |-> Keep],
    [kind |-> "restore", source |-> 1]}

Rotation ==
    [kind |-> "updateCredential", id |-> P1, credential |-> K1, input |-> ApiKey(K1, "t2")]
Races == {Rotation, [kind |-> "restore", source |-> 1]}

Reporting == {[kind |-> "saveReporting", reporting |-> 2]}

\* One administrator tries every sequence of requests; two of them, with a
\* process each, race a rotation against a restore, or rotations that are sent
\* again against each other; the gateway reads along.
Alone(requests) ==
    [requests |-> requests, operations |-> Operations, actors |-> {"a1"},
     workers |-> {1}, calls |-> 2, loads |-> {}]
MCSuites ==
    [catalog |-> Alone(Catalog),
     secrets |-> Alone(Secrets),
     races |-> [Alone(Races) EXCEPT !.actors = Actors, !.workers = Workers],
     repeats |-> [Alone({Rotation}) EXCEPT !.actors = Actors, !.workers = Workers, !.calls = 3],
     gateway |-> [Alone(Reporting) EXCEPT !.calls = 3, !.loads = Loads]]

-----------------------------------------------------------------------------
(* The connection: accounts a and b of one provider, c of another. *)

Small == [frames |-> 2, sizes |-> {1}, kinds |-> {"create"}, events |-> 2, crashes |-> 0,
          sockets |-> 2, metered |-> FALSE, accounts |-> {"a", "b"}, leaves |-> FALSE]
MCScenarios ==
    {Small,
     [Small EXCEPT !.events = 1, !.leaves = TRUE],
     [Small EXCEPT !.frames = 3, !.accounts = {"a"}, !.sockets = 1],
     [Small EXCEPT !.kinds = {"create", "continue", "bad"}, !.sizes = {1, 2},
         !.events = 1, !.accounts = {"a", "c"}, !.sockets = 1],
     [Small EXCEPT !.frames = 1, !.kinds = {"create", "other"}, !.events = 1,
         !.leaves = TRUE, !.metered = TRUE, !.crashes = 1]}

Socket == INSTANCE WebSocketProxy
    WITH Provider <- [a |-> "p", b |-> "p", c |-> "q"], Codex <- {"p"}, MaxBytes <- 3, MaxMessages <- 2,
         Scenarios <- MCScenarios

-----------------------------------------------------------------------------
control == vars
socket == <<scenario, sess, late, alarm, client, usage, delivered, env, box, up, pc, turn, attempt,
            switching, replay, closing, ending, wrote, heard, blames, replays>>

MCInit ==
    /\ part \in {"control", "socket"}
    /\ part # "control" => suite = "races"
    /\ part # "socket" => scenario = Small
    /\ Init /\ Socket!Init

MCNext ==
    \/ part = "control" /\ Next
       /\ UNCHANGED <<part, socket>>
    \/ part = "socket" /\ Socket!Next
       /\ UNCHANGED <<part, control>>

MCFairness ==
    \/ part = "control"
    \/ part = "socket" /\ Socket!Fairness

MCSpec ==
    /\ MCInit
    /\ [][MCNext]_<<part, control, socket>>
    /\ MCFairness

\* What a connection says and hears stays within its buffers, comes from one
\* account and is judged once (WebSocketProxy).
TurnsAreSound == part = "socket" =>
    Socket!TypeOK /\ Socket!BufferBudget /\ Socket!OneVoice /\ Socket!OutcomeOnce /\ Socket!FullReplayIsSafe

\* What a connection used is on record once, and what waits has an alarm
\* (WebSocketProxy).
UsageIsKept == part = "socket" => Socket!UsageIsExact /\ Socket!WakeUpSurvives

\* A connection whose first frame never comes is ended (WebSocketProxy).
AwaitingEnds == Socket!AwaitingEnds

\* What is committed keeps the schema, the secrets of the day and the
\* restrictions of routes (ControlPlane).
CommitsAreJust ==
    [][part = "control" => CommitIsSound /\ RestoreKeepsSecrets /\ RestrictionsSurvive]_<<part, control, socket>>
=============================================================================
