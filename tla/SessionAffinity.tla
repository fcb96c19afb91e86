--------------------------- MODULE SessionAffinity ---------------------------
(***************************************************************************)
(* Session affinity: which account a client's session stays with.          *)
(*                                                                         *)
(* One object per client and session holds a binding for each model        *)
(* (gateway/sessions/session-affinity.ts); a second object lists the       *)
(* bindings of a client (session-affinity-index.ts), and the management    *)
(* endpoints (session-bindings.ts) work from that list.  The two stores    *)
(* are kept together by background tasks that may be cut short, and by     *)
(* conditional deletes: a binding is known by its id and generation.       *)
(***************************************************************************)
EXTENDS Integers, Sequences, FiniteSets, FiniteSetsExt

CONSTANTS
    Models,          \* requested models; each has a binding of its own
    CandidateLists,  \* what routing may offer: sequences of provider candidates
    Tasks,           \* bound: index tasks running at a time
    Managers,        \* management requests
    Alarm,           \* the alarm handler
    TTL,             \* SESSION_AFFINITY_TTL_MS
    MaxTime,         \* bound: the clock
    MaxBindings,     \* bound: binding ids drawn
    MaxGeneration,   \* Number.MAX_SAFE_INTEGER
    None

(* A list has one candidate for each of its providers, and a provider offers  *)
(* each credential once; of finitely many, one has the highest priority.      *)
Rankable(list) ==
    /\ DOMAIN list \subseteq Nat
    /\ \A i, j \in DOMAIN list : list[i].id = list[j].id => i = j
    /\ \A i \in DOMAIN list : list[i].priority \in Int
    /\ \E i \in DOMAIN list : \A j \in DOMAIN list : list[j].priority <= list[i].priority

ASSUME AffinityAssumption ==
    /\ TTL \in Nat \ {0} /\ MaxTime \in Nat /\ MaxBindings \in Nat
    /\ MaxGeneration \in Nat \ {0} /\ Alarm \notin Managers
    /\ None \notin Nat /\ None \notin [id : Nat, gen : Nat]
    /\ \A list \in CandidateLists :
          Rankable(list) /\ \A i \in DOMAIN list : Rankable(list[i].credentials)

Attempts == 4

VARIABLES
    rec,    \* per model: the binding in the session's object, or None
    row,    \* per model: the entry in the client's index, or None
    alarm,  \* when the object is woken, or None
    task,   \* background synchronisation of the index
    mgr,    \* management requests, the alarm handler, and what they have read
    ids,    \* binding ids drawn so far
    now,
    overrun \* history: bindings whose row a deleted binding's late task took

vars == <<rec, row, alarm, task, mgr, ids, now, overrun>>

Entry(r) == [id |-> r.id, gen |-> r.gen]
Deadline(r) == r.updated + TTL
Active(r) == r # None /\ Deadline(r) > now
Bound == {m \in Models : rec[m] # None}

NoTask == [pc |-> "idle"]
Rest == [op |-> "none", stage |-> [m \in Models |-> "done"],
         bind |-> [m \in Models |-> None], seen |-> [m \in Models |-> None], from |-> 0]

Init ==
    /\ rec = [m \in Models |-> None] /\ row = [m \in Models |-> None]
    /\ alarm = None
    /\ task = [t \in Tasks |-> NoTask] /\ mgr = [g \in Managers \cup {Alarm} |-> Rest]
    /\ ids = 0 /\ now = 0 /\ overrun = {}

-----------------------------------------------------------------------------
(* Choosing an account (gateway/routing/affinity.ts).  A candidate list is *)
(* in configuration order; routing leaves out providers with no available  *)
(* credential.                                                             *)

Items(list) == {list[i] : i \in DOMAIN list}
Top(list) == Max({c.priority : c \in Items(list)})
First(list) == list[Min({i \in DOMAIN list : list[i].priority = Top(list)})]
Choice(p, c) == [provider |-> p.id, credential |-> c.id]

\* The first credential of the highest priority of one provider.
BestOf(p) == Choice(p, First(p.credentials))

\* The provider the list puts first, and its best credential.
ChooseAffinityCandidate(list) == BestOf(First(list))

\* A selection the list offers with both priorities the highest.
HighestPriority(choice, list) ==
    \E p \in Items(list) : \E c \in Items(p.credentials) :
        /\ choice = Choice(p, c)
        /\ p.priority = Top(list) /\ c.priority = Top(p.credentials)

ChoosePreferredCandidate(list, preferred) ==
    IF HighestPriority(preferred, list) THEN preferred ELSE ChooseAffinityCandidate(list)

ChoosePreferredCredential(p, preferred) ==
    IF \E c \in Items(p.credentials) : preferred = Choice(p, c) /\ c.priority = Top(p.credentials)
    THEN preferred ELSE BestOf(p)

\* resolveStoredAffinity(): keep the account, or choose another.
ResolveStored(choice, list, preferred) ==
    LET offering == {p \in Items(list) : \E c \in Items(p.credentials) : choice = Choice(p, c)}
        elsewhere == [status |-> "rebound", choice |-> ChoosePreferredCandidate(list, preferred)]
    IN  IF offering = {} THEN elsewhere
        ELSE LET p == CHOOSE x \in offering : TRUE
                 c == CHOOSE x \in Items(p.credentials) : choice = Choice(p, x)
             IN  IF p.priority < Top(list) THEN elsewhere
                 ELSE IF ~p.retain /\ c.priority < Top(p.credentials)
                      THEN [status |-> "rebound", choice |-> ChoosePreferredCredential(p, preferred)]
                      ELSE [status |-> "hit", choice |-> choice]

\* What resolve() may prefer: the first choice, or, unless the binding is kept,
\* whichever account the provider's rotation (shared with other sessions) is at.
Preferences(old, list) ==
    LET first == ChooseAffinityCandidate(list)
        p == First(list)
    IN  IF ~p.rotates \/ (old # None /\ ResolveStored(old, list, first).status = "hit")
        THEN {first}
        ELSE {Choice(p, c) : c \in {x \in Items(p.credentials) : x.priority = Top(p.credentials)}}

\* What resolve() may decide, for every list and account bound before.
Offered == UNION {{Choice(p, c) : c \in Items(p.credentials)} :
                  p \in UNION {Items(list) : list \in CandidateLists}}
Decisions == [list \in CandidateLists |-> [old \in Offered \cup {None} |->
    {IF old = None THEN [status |-> "created", choice |-> ChoosePreferredCandidate(list, preferred)]
     ELSE ResolveStored(old, list, preferred) : preferred \in Preferences(old, list)}]]

\* None stands for no binding, and is none itself.
ASSUME NoneAssumption ==
    None \notin [choice : Offered, updated : Nat, id : Nat, gen : Nat, indexed : BOOLEAN]

-----------------------------------------------------------------------------
(* The session's object.                                                   *)

\* scheduleExpiry(): wake up when the first of the bindings expires, ...
Schedule(bindings) ==
    LET bound == {m \in Models : bindings[m] # None}
    IN  IF bound = {} THEN None ELSE Min({Deadline(bindings[m]) : m \in bound})

\* ... without looking at the others if the write cannot have changed that.
Reschedule(bindings, previous, next) ==
    IF alarm # None /\ alarm \notin {Deadline(r) : r \in previous}
    THEN Min({alarm, next})
    ELSE Schedule(bindings)

\* Mutant: a new account keeps the mark that the old one is listed.
IndexedAsBefore(stored, changed) == stored # None /\ stored.indexed

\* A binding stays listed only while it stays the same binding.
StillIndexed(stored, changed) == stored # None /\ ~changed /\ stored.indexed

\* resolve(): one transaction keeps, replaces or creates the model's binding,
\* and a background task brings the index up to date.
Resolve(m, list) ==
    LET current == rec[m]
        stored == IF Active(current) THEN current ELSE None
    IN  \E decision \in Decisions[list][IF stored = None THEN None ELSE stored.choice] :
        LET changed == decision.status # "hit"
            next == [choice |-> decision.choice, updated |-> now,
                     id |-> IF changed THEN ids + 1 ELSE stored.id,
                     gen |-> IF ~changed THEN stored.gen
                             ELSE IF current = None THEN 1 ELSE current.gen + 1,
                     indexed |-> StillIndexed(stored, changed)]
            obsolete == IF changed /\ current # None THEN Entry(current) ELSE None
        IN  /\ next.id <= MaxBindings /\ next.gen <= MaxGeneration
            /\ rec' = [rec EXCEPT ![m] = next]
            /\ alarm' = Reschedule(rec', {current} \ {None}, Deadline(next))
            /\ ids' = IF changed THEN ids + 1 ELSE ids
            /\ IF obsolete = None /\ next.indexed THEN UNCHANGED task
               ELSE \E t \in Tasks :
                      /\ task[t].pc = "idle"
                      /\ task' = [task EXCEPT ![t] =
                            [pc |-> IF obsolete = None THEN "register" ELSE "unregister", m |-> m,
                             obsolete |-> obsolete, cand |-> Entry(next), seen |-> None, tries |-> 0]]
            /\ UNCHANGED <<row, mgr, now, overrun>>

\* Time passes.
Tick == now < MaxTime /\ now' = now + 1 /\ UNCHANGED <<rec, row, alarm, task, mgr, ids, overrun>>

-----------------------------------------------------------------------------
(* The index, and the tasks that keep it.                                  *)

\* register(): a newer generation, or the same binding again, replaces a row.
Registered(entry, old) ==
    IF old = None \/ entry.gen > old.gen \/ entry = old THEN entry ELSE old

\* remove(): only the very binding and generation.
Removed(entry, old) == IF entry = old THEN None ELSE old

Idle(t) == task' = [task EXCEPT ![t] = NoTask]

\* unregister(): the obsolete row goes, or the call fails.
Unregister(t) ==
    /\ task[t].pc = "unregister" /\ task' = [task EXCEPT ![t].pc = "register", ![t].obsolete = None]
    /\ row' \in {row, [row EXCEPT ![task[t].m] = Removed(task[t].obsolete, @)]}
    /\ UNCHANGED <<rec, alarm, mgr, ids, now, overrun>>

\* ensureIndexed(): the call to the index ...
Register(t) ==
    /\ task[t].pc = "register"
    /\ row' = [row EXCEPT ![task[t].m] = Registered(task[t].cand, @)]
    /\ task' = [task EXCEPT ![t].pc = "settle", ![t].seen = row'[task[t].m]]
    /\ overrun' = overrun \cup {rec[m].id : m \in {n \in Bound : /\ row[n] # None /\ row'[n] # row[n]
                                                               /\ row[n].id = rec[n].id /\ row'[n].id # rec[n].id}}
    /\ UNCHANGED <<rec, alarm, mgr, ids, now>>

\* ... whose answer confirms the binding if it is still the same one ...
Confirm(t) ==
    LET m == task[t].m
    IN  /\ task[t].pc = "settle" /\ task[t].seen = task[t].cand
        /\ IF rec[m] # None /\ Entry(rec[m]) = task[t].cand
           THEN rec' = [rec EXCEPT ![m].indexed = TRUE] /\ Idle(t)
           ELSE task' = [task EXCEPT ![t].pc = "drop", ![t].seen = None] /\ UNCHANGED rec
        /\ UNCHANGED <<row, alarm, mgr, ids, now, overrun>>

\* No generation is left to overtake with.
Exhausted(gen) == gen >= MaxGeneration

\* ... or shows a row of another binding: overtake its generation and retry.
Overtake(t) ==
    LET m == task[t].m
        gen == Max({rec[m].gen, task[t].seen.gen})
    IN  /\ task[t].pc = "settle" /\ task[t].seen # task[t].cand
        /\ IF rec[m] = None \/ rec[m].id # task[t].cand.id \/ Exhausted(gen)
           THEN task' = [task EXCEPT ![t].pc = "drop", ![t].seen = None] /\ UNCHANGED rec
           ELSE /\ rec' = [rec EXCEPT ![m].gen = gen + 1, ![m].indexed = FALSE]
                /\ IF task[t].tries + 1 = Attempts THEN Idle(t)
                   ELSE task' = [task EXCEPT ![t].pc = "register", ![t].tries = @ + 1, ![t].seen = None,
                                             ![t].cand = [id |-> rec[m].id, gen |-> gen + 1]]
        /\ UNCHANGED <<row, alarm, mgr, ids, now, overrun>>

\* The row of a binding that is gone is withdrawn.
Withdraw(t) ==
    /\ task[t].pc = "drop" /\ Idle(t)
    /\ row' = [row EXCEPT ![task[t].m] = Removed(task[t].cand, @)]
    /\ UNCHANGED <<rec, alarm, mgr, ids, now, overrun>>

\* A failed call or transaction ends the task, and so does an eviction.
Abandon(t) == task[t].pc # "idle" /\ Idle(t) /\ UNCHANGED <<rec, row, alarm, mgr, ids, now, overrun>>

-----------------------------------------------------------------------------
(* Managing bindings, and the alarm.                                       *)

\* Request g reads the index and will look at every entry it found.
ReadIndex(g, op) ==
    /\ mgr[g].op = "none"
    /\ mgr' = [mgr EXCEPT ![g] =
          [Rest EXCEPT !.op = op, !.seen = row, !.from = IF op = "list" THEN 0 ELSE ids,
                       !.stage = [m \in Models |-> IF row[m] = None THEN "done" ELSE "check"]]]
    /\ UNCHANGED <<rec, row, alarm, task, ids, now, overrun>>

\* Request g is through with model m.
Stage(g, m, stage) ==
    mgr' = [mgr EXCEPT ![g] = IF stage = "done" /\ \A n \in Models \ {m} : @.stage[n] = "done"
                              THEN Rest ELSE [@ EXCEPT !.stage[m] = stage]]

\* handleSessionList(): an entry without its binding is removed.
List(g) == ReadIndex(g, "list") /\ row # [m \in Models |-> None]

ListStatus(g, m) ==
    /\ mgr[g].op = "list" /\ mgr[g].stage[m] = "check"
    /\ Stage(g, m, IF Active(rec[m]) /\ Entry(rec[m]) = mgr[g].seen[m] THEN "done" ELSE "remove")
    /\ UNCHANGED <<rec, row, alarm, task, ids, now, overrun>>

\* handleSessionClearAll(): each listed binding is deleted on condition.
ClearAll(g) == ReadIndex(g, "clearAll") /\ row # [m \in Models |-> None]

\* Mutant: any binding of the session will do.
ClearedAnyway(r, expected) == None

\* A binding that is not the expected one survives, to be listed anew.
Cleared(r, expected) ==
    IF r = None \/ Entry(r) = expected THEN None ELSE [r EXCEPT !.indexed = FALSE]

ClearIfBindingId(g, m) ==
    /\ mgr[g].op = "clearAll" /\ mgr[g].stage[m] = "check"
    /\ rec' = [rec EXCEPT ![m] = Cleared(@, mgr[g].seen[m])]
    /\ alarm' = IF rec[m] # None /\ rec'[m] = None THEN Schedule(rec') ELSE alarm
    /\ Stage(g, m, "remove")
    /\ UNCHANGED <<row, task, ids, now, overrun>>

\* clearManaged(): read the bindings, of one model or of all, ...
ClearManaged(g, models) ==
    /\ mgr[g].op = "none" /\ models \cap Bound # {}
    /\ mgr' = [mgr EXCEPT ![g] =
          [Rest EXCEPT !.op = "clearOne", !.from = ids,
                       !.bind = [m \in Models |-> IF m \in models \cap Bound THEN Entry(rec[m]) ELSE None],
                       !.stage = [m \in Models |-> IF m \in models \cap Bound THEN "get" ELSE "done"]]]
    /\ UNCHANGED <<rec, row, alarm, task, ids, now, overrun>>

\* ... then what the index has of them, ...
GetIndexed(g, m) ==
    /\ mgr[g].op = "clearOne" /\ mgr[g].stage[m] = "get"
    /\ mgr' = [mgr EXCEPT ![g].stage[m] = "got", ![g].bind[m] = None, ![g].from = ids,
                          ![g].seen[m] = IF row[m] = None THEN mgr[g].bind[m] ELSE row[m]]
    /\ UNCHANGED <<rec, row, alarm, task, ids, now, overrun>>

\* ... and delete those that still are what the index or the first read said.
CommitClear(g) ==
    /\ mgr[g].op = "clearOne" /\ \A m \in Models : mgr[g].stage[m] # "get"
    /\ rec' = [m \in Models |-> IF mgr[g].stage[m] = "got" THEN Cleared(rec[m], mgr[g].seen[m]) ELSE rec[m]]
    /\ alarm' = Schedule(rec')
    /\ mgr' = [mgr EXCEPT ![g].op = "remove",
                          ![g].stage = [m \in Models |-> IF @[m] = "got" THEN "remove" ELSE "done"]]
    /\ UNCHANGED <<row, task, ids, now, overrun>>

\* The alarm is taken out of storage when its handler starts ...
Fire ==
    /\ alarm # None /\ alarm <= now /\ mgr[Alarm].op = "none"
    /\ alarm' = None /\ mgr' = [mgr EXCEPT ![Alarm].op = "alarm"]
    /\ UNCHANGED <<rec, row, task, ids, now, overrun>>

\* ... and alarm() deletes what has expired.
Expire ==
    LET expired == {m \in Bound : ~Active(rec[m])}
    IN  /\ mgr[Alarm].op = "alarm"
        /\ rec' = [m \in Models |-> IF m \in expired THEN None ELSE rec[m]]
        /\ alarm' = Schedule(rec')
        /\ mgr' = [mgr EXCEPT ![Alarm] = IF expired = {} THEN Rest ELSE
              [Rest EXCEPT !.op = "unregister",
                           !.seen = [m \in Models |-> IF m \in expired THEN Entry(rec[m]) ELSE None],
                           !.stage = [m \in Models |-> IF m \in expired THEN "remove" ELSE "done"]]]
        /\ UNCHANGED <<row, task, ids, now, overrun>>

\* The row goes; unregister(), unlike the endpoints, shrugs off a failed call.
RemoveRow(g, m) ==
    /\ mgr[g].stage[m] = "remove" /\ Stage(g, m, "done")
    /\ \/ row' = [row EXCEPT ![m] = Removed(mgr[g].seen[m], @)]
       \/ mgr[g].op = "unregister" /\ UNCHANGED row
    /\ UNCHANGED <<rec, alarm, task, ids, now, overrun>>

\* A request dies on the way; an alarm that does is delivered again.
Die(g) ==
    /\ mgr[g].op # "none" /\ mgr' = [mgr EXCEPT ![g] = Rest]
    /\ alarm' = IF g = Alarm /\ alarm = None THEN now ELSE alarm
    /\ UNCHANGED <<rec, row, task, ids, now, overrun>>

Next ==
    \/ \E m \in Models, list \in CandidateLists : Resolve(m, list)
    \/ \E t \in Tasks : \/ Unregister(t) \/ Register(t) \/ Confirm(t) \/ Overtake(t)
                         \/ Withdraw(t) \/ Abandon(t)
    \/ \E g \in Managers : \/ List(g) \/ ClearAll(g) \/ CommitClear(g)
                            \/ (\E models \in {{m} : m \in Models} \cup {Models} : ClearManaged(g, models))
    \/ \E g \in Managers, m \in Models : ListStatus(g, m) \/ ClearIfBindingId(g, m) \/ GetIndexed(g, m)
    \/ \E g \in Managers \cup {Alarm} : Die(g) \/ \E m \in Models : RemoveRow(g, m)
    \/ Fire \/ Expire \/ Tick

Spec == Init /\ [][Next]_vars

-----------------------------------------------------------------------------
EntryType == [id : 1..MaxBindings, gen : 1..MaxGeneration] \cup {None}

\* Every stored value has its type.
TypeOK ==
    /\ \A m \in Models : rec[m] # None =>
          /\ Entry(rec[m]) \in EntryType /\ rec[m].choice \in Offered
          /\ rec[m].updated \in 0..MaxTime /\ rec[m].indexed \in BOOLEAN
    /\ row \in [Models -> EntryType] /\ alarm \in 0..MaxTime + TTL \cup {None}
    /\ ids \in 0..MaxBindings /\ now \in 0..MaxTime
    /\ \A t \in Tasks : task[t].pc # "idle" =>
          task[t].cand \in EntryType /\ task[t].obsolete \in EntryType /\ task[t].tries < Attempts

\* A live binding marked as listed is listed, with its present generation: no
\* late task, listing, clear or expiry takes its row away without leaving the
\* mark that makes the next resolve() list it again; RepairIsPossible is about
\* the one exception.
MarkedIsListed ==
    \A m \in Models : Active(rec[m]) /\ rec[m].indexed =>
        row[m] = Entry(rec[m]) \/ rec[m].id \in overrun

\* invalidateIndex(): "Let the next resolve repair the surviving binding": one
\* that is not listed must not be marked as listed.
RepairIsPossible ==
    \A m \in Models : Active(rec[m]) /\ rec[m].indexed => row[m] = Entry(rec[m])

\* Every binding has a wake-up no later than its expiry, although a write
\* only looks at the bindings it touches.
ExpiryIsScheduled ==
    \A m \in Bound : \/ mgr[Alarm].op = "alarm"
                     \/ alarm # None /\ alarm <= Max({Deadline(rec[m]), now})

\* A conditional clear deletes no live binding that is younger than what it
\* read (from: the ids drawn by then).
ClearsOnlyWhatItSaw ==
    [][\A m \in Models : Active(rec[m]) /\ rec'[m] = None =>
          \E g \in Managers : mgr[g].op # "none" /\ rec[m].id <= mgr[g].from]_vars

\* What an account must become under any candidate list: itself, if the list
\* offers it and puts no provider first, nor unless retained an account; and
\* otherwise one ranked highest, of the same provider if that still is.
Offers(list) == UNION {{[p |-> p, c |-> c] : c \in Items(p.credentials)} : p \in Items(list)}
Ranked(list) == {x \in Offers(list) : /\ \A q \in Items(list) : q.priority <= x.p.priority
                                     /\ \A c \in Items(x.p.credentials) : c.priority <= x.c.priority}
Picks(set) == {Choice(x.p, x.c) : x \in set}
Wanted(old, list) ==
    LET kept == {x \in Offers(list) : /\ old = Choice(x.p, x.c) /\ x.p.priority = Top(list)
                                     /\ (x.p.retain \/ x \in Ranked(list))}
        near == {x \in Ranked(list) : \E y \in Offers(list) : x.p = y.p /\ old = Choice(y.p, y.c)}
    IN  IF kept # {} THEN {old} ELSE IF near # {} THEN Picks(near) ELSE Picks(Ranked(list))
Sound == {old \in Offered : \A list \in CandidateLists :
             ResolveStored(old, list, ChooseAffinityCandidate(list)).choice \in Wanted(old, list)}

\* docs/agents/providers.md:14: "An available existing binding stays with its
\* account": whatever routing offers next, a binding gives way only to a
\* higher rank, and then to the highest.
StaysUnlessOutranked == \A m \in Bound : rec[m].choice \in Sound

\* Bindings and their list agree, expire, and stay unless outranked.
BindingsAreSound == TypeOK /\ MarkedIsListed /\ ExpiryIsScheduled /\ StaysUnlessOutranked
=============================================================================
