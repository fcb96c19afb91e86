-------------------------- MODULE MCAdministration ---------------------------
(***************************************************************************)
(* What administrators set up and see, and who is let in: proxy groups,    *)
(* sign-in to the console, its requests about accounts, the quotas it      *)
(* shows of Codex accounts, and the keys of clients.  One of these parts   *)
(* runs, the others stay as they began.                                    *)
(***************************************************************************)
EXTENDS ProxyGroup, Access, CodexQuota, TLC

CONSTANTS n1, n2, o1, o2, q1, q2

VARIABLE part

-----------------------------------------------------------------------------
(* Three revisions of a group: as first set up; an owner gone; one node     *)
(* switched off, the other at a new address, the owner back, by priority.   *)
(* And one of a single node and owner, for longer histories of outcomes.    *)

Plain == [fingerprint |-> 1, priority |-> 1, disabled |-> FALSE]
First == [strategy |-> "sticky", nodes |-> n1 :> Plain @@ n2 :> Plain, owners |-> {o1, o2}]
Third == [strategy |-> "priority", owners |-> {o1, o2},
          nodes |-> n1 :> [Plain EXCEPT !.disabled = TRUE] @@ n2 :> [Plain EXCEPT !.fingerprint = 2]]
Solo == [strategy |-> "sticky", nodes |-> n1 :> Plain, owners |-> {o1}]
Revised == <<First, [First EXCEPT !.owners = {o1}], Third, Solo>>
Bounds == {[revs |-> 1..3, reqs |-> {q1}, dials |-> 1, time |-> 0],
           [revs |-> {1, 3}, reqs |-> {q1}, dials |-> 1, time |-> 1],
           [revs |-> {4}, reqs |-> {q1}, dials |-> 3, time |-> 1],
           [revs |-> {2, 3}, reqs |-> {q1, q2}, dials |-> 0, time |-> 0]}

-----------------------------------------------------------------------------
(* Sign-in. *)

User(sub, email, verified) == [sub |-> sub, email |-> email, verified |-> verified]
Env(mode, issuer, client, allowed, secret) ==
    [mode |-> mode, issuer |-> issuer, client |-> client, allowed |-> allowed, secret |-> secret, ttl |-> 1]

MCUsers == {User("u1", "ada", TRUE), User("u2", "bob", FALSE)}
MCSettings == {Env("oidc", "i1", "c1", {"ada"}, "k1"), Env("oidc", "i2", "c1", {}, "k1"),
               Env("token", "i1", "c2", {}, "k2")}

-----------------------------------------------------------------------------
(* Configurations that are committed while requests about accounts run. *)

Revision(types, groups, credentials) ==
    [types |-> types, groups |-> groups, credentials |-> credentials]
MCConfigurations ==
    {Revision("p1" :> "codex", {"g"}, "x1" :> "r1" @@ "x2" :> "r1"),
     Revision("p1" :> "xai" @@ "p2" :> "codex", {}, "x1" :> "r2" @@ "x2" :> "r1"),
     Revision("p2" :> "codex", {"g"}, "x1" :> "r1")}

-----------------------------------------------------------------------------
(* Keys of clients, in lists that differ in order, keys and clients. *)

ClientEntry(id, key) == [id |-> id, key |-> key]
MCEntryLists ==
    {<<ClientEntry("c1", "k1"), ClientEntry("c2", "k2")>>, <<ClientEntry("c2", "k2"), ClientEntry("c1", "k1")>>,
     <<ClientEntry("c2", "k1")>>}

-----------------------------------------------------------------------------
(* What answers, WebSocket events and usage reports tell of the quotas of a  *)
(* Codex account.                                                            *)

Of(windows, resets) == [windows |-> windows, resets |-> resets, known |-> TRUE]
Unreported == [windows |-> {}, resets |-> {}, known |-> FALSE]
Named(id, windows) == [id |-> id, limit |-> windows]
Primary == Of({"primary"}, {"primary"})
Both == Of({"primary", "secondary"}, {"primary"})

MCAnswers == {[limits |-> <<Named("codex_code_review", Primary), Named("codex", Of({"primary"}, {}))>>,
               plan |-> TRUE, credits |-> FALSE]}
MCEvents == {[main |-> Named("extra", Primary), review |-> Unreported, extra |-> <<Named("codex", Primary)>>,
              plan |-> FALSE, credits |-> TRUE]}
MCUsages == {[known |-> TRUE, main |-> Both, review |-> Unreported, extra |-> <<>>, plan |-> TRUE, credits |-> TRUE],
             [known |-> TRUE, main |-> Unreported, review |-> Of({}, {}), extra |-> <<Named("extra", Primary)>>,
              plan |-> FALSE, credits |-> FALSE]}

-----------------------------------------------------------------------------
MCInit ==
    /\ part \in {"proxies", "sign-in", "routes", "keys", "quota"}
    /\ part # "proxies" => limit = [revs |-> {4}, reqs |-> {q1}, dials |-> 3, time |-> 1]
    /\ part # "sign-in" => env = Env("oidc", "i1", "c1", {"ada"}, "k1")
    /\ part # "routes" => commits = <<Revision("p2" :> "codex", {"g"}, "x1" :> "r1")>>
    /\ part # "keys" => entries = <<ClientEntry("c2", "k1")>>
    /\ Init /\ SignInInit /\ RoutesInit /\ KeysInit /\ CodexQuotaInit

MCNext ==
    \/ part = "proxies" /\ Next /\ UNCHANGED <<part, signInVars, routeVars, keyVars, quotaVars>>
    \/ part = "sign-in" /\ SignInNext /\ UNCHANGED <<part, vars, routeVars, keyVars, quotaVars>>
    \/ part = "routes" /\ RoutesNext /\ UNCHANGED <<part, vars, signInVars, keyVars, quotaVars>>
    \/ part = "keys" /\ KeysNext /\ UNCHANGED <<part, vars, signInVars, routeVars, quotaVars>>
    \/ part = "quota" /\ CodexQuotaNext /\ UNCHANGED <<part, vars, signInVars, routeVars, keyVars>>

all == <<part, vars, signInVars, routeVars, keyVars, quotaVars>>
MCSpec == MCInit /\ [][MCNext]_all

\* A request becomes the client whose key it carries, as configured at that
\* moment (Access); what is shown of a quota is never replaced by something
\* older (CodexQuota).
NothingIsStale ==
    [][(part = "keys" => AnswerIsCurrent) /\ (part = "quota" => KeepsCurrent)]_all
=============================================================================
