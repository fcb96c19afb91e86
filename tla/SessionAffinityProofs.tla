------------------------ MODULE SessionAffinityProofs ------------------------
(***************************************************************************)
(* Proofs about SessionAffinity, for any models, candidate lists, tasks,   *)
(* managers and times: an account stays unless it is outranked, a clear    *)
(* deletes nothing it has not seen, a binding expires, and one that is     *)
(* marked as listed is listed.                                             *)
(***************************************************************************)
EXTENDS SessionAffinity, WellFoundedInduction, TLAPS

-----------------------------------------------------------------------------
(* Least and greatest numbers.                                               *)

LEMMA LeastNumber ==
    ASSUME NEW S \in SUBSET Nat, S # {}
    PROVE  Min(S) \in S /\ \A j \in S : Min(S) <= j
<1> DEFINE R == OpToRel(<, Nat)
<1>1. IsWellFoundedOn(R, Nat)
  BY NatLessThanWellFounded
<1>2. R = {ss \in Nat \X Nat : ss[1] < ss[2]}
  BY DEF OpToRel
<1> HIDE DEF R
<1>3. PICK i \in S : \A j \in S : ~ (<<j, i>> \in R)
  BY <1>1, WFMin
<1>4. \A j \in S : ~ (j < i)
  BY <1>2, <1>3
<1>5. i \in S /\ \A j \in S : i <= j
  BY <1>4
<1> QED
  BY <1>5 DEF Min

LEMMA GreatestNumber ==
    ASSUME NEW S \in SUBSET Int, NEW x \in S, \A y \in S : y <= x
    PROVE  Max(S) = x
<1>1. Max(S) \in S /\ \A y \in S : y <= Max(S)
  <2>1. \A y \in S : x >= y
    OBVIOUS
  <2>2. Max(S) \in S /\ \A y \in S : Max(S) >= y
    BY <2>1 DEF Max
  <2> QED
    BY <2>2
<1>2. Max(S) \in Int /\ x \in Int /\ x <= Max(S) /\ Max(S) <= x
  BY <1>1
<1> QED
  BY <1>2

LEMMA MaxOfTwo ==
    ASSUME NEW a \in Int, NEW b \in Int
    PROVE  Max({a, b}) = IF a < b THEN b ELSE a
<1>1. CASE a < b
  BY <1>1, GreatestNumber
<1>2. CASE ~(a < b)
  BY <1>2, GreatestNumber
<1> QED
  BY <1>1, <1>2

LEMMA MinOfTwo ==
    ASSUME NEW a \in Nat, NEW b \in Nat
    PROVE  Min({a, b}) \in {a, b} /\ Min({a, b}) <= a /\ Min({a, b}) <= b
<1>1. {a, b} \in SUBSET Nat /\ {a, b} # {}
  OBVIOUS
<1> QED
  BY <1>1, LeastNumber

-----------------------------------------------------------------------------
(* Choosing an account.                                                      *)

LEMMA Topmost ==
    ASSUME NEW list, Rankable(list)
    PROVE  /\ Top(list) \in Int
           /\ \A x \in Items(list) : x.priority \in Int /\ x.priority <= Top(list)
           /\ First(list) \in Items(list) /\ First(list).priority = Top(list)
           /\ \A x, y \in Items(list) : x.id = y.id => x = y
<1> DEFINE S == {x.priority : x \in Items(list)}
           T == {i \in DOMAIN list : list[i].priority = Top(list)}
<1>1. S \in SUBSET Int
  BY DEF Rankable, Items
<1>2. PICK i \in DOMAIN list : \A j \in DOMAIN list : list[j].priority <= list[i].priority
  BY DEF Rankable
<1>3. list[i].priority \in S /\ \A y \in S : y <= list[i].priority
  BY <1>2 DEF Items
<1>4. Top(list) = list[i].priority
  BY <1>1, <1>3, GreatestNumber DEF Top
<1>5. T \in SUBSET Nat /\ T # {}
  BY <1>4 DEF Rankable
<1>6. Min(T) \in T
  BY <1>5, LeastNumber
<1>7. First(list) \in Items(list) /\ First(list).priority = Top(list)
  BY <1>6 DEF First, Items
<1>8. Top(list) \in Int /\ \A x \in Items(list) : x.priority \in Int /\ x.priority <= Top(list)
  BY <1>2, <1>4 DEF Items, Rankable
<1>9. \A x, y \in Items(list) : x.id = y.id => x = y
  BY DEF Items, Rankable
<1> QED
  BY <1>7, <1>8, <1>9

LEMMA Providers ==
    ASSUME NEW list \in CandidateLists
    PROVE  Rankable(list) /\ \A p \in Items(list) : Rankable(p.credentials)
BY AffinityAssumption DEF Items

LEMMA SameChoice ==
    ASSUME NEW p, NEW q, NEW c, NEW d, Choice(p, c) = Choice(q, d)
    PROVE  p.id = q.id /\ c.id = d.id
BY DEF Choice

\* The best account of a provider that comes first is ranked highest.
LEMMA BestIsRanked ==
    ASSUME NEW list \in CandidateLists, NEW p \in Items(list), p.priority = Top(list),
           NEW c \in Items(p.credentials), c.priority = Top(p.credentials)
    PROVE  [p |-> p, c |-> c] \in Ranked(list)
<1>1. [p |-> p, c |-> c] \in Offers(list)
  BY DEF Offers
<1>2. \A q \in Items(list) : q.priority <= p.priority
  BY Providers, Topmost
<1>3. \A d \in Items(p.credentials) : d.priority <= c.priority
  BY Providers, Topmost
<1> QED
  BY <1>1, <1>2, <1>3 DEF Ranked

LEMMA RankedAreTop ==
    ASSUME NEW list \in CandidateLists, NEW x \in Ranked(list)
    PROVE  /\ x.p \in Items(list) /\ x.p.priority = Top(list)
           /\ x.c \in Items(x.p.credentials) /\ x.c.priority = Top(x.p.credentials)
<1>1. x.p \in Items(list) /\ x.c \in Items(x.p.credentials)
  BY DEF Ranked, Offers
<1>2. x.p.priority = Top(list)
  <2>1. First(list).priority <= x.p.priority
    BY Providers, Topmost DEF Ranked
  <2> QED
    BY <1>1, <2>1, Providers, Topmost
<1>3. x.c.priority = Top(x.p.credentials)
  <2>1. Rankable(x.p.credentials)
    BY <1>1, Providers
  <2>2. First(x.p.credentials).priority <= x.c.priority
    BY <2>1, Topmost DEF Ranked
  <2> QED
    BY <1>1, <2>1, <2>2, Topmost
<1> QED
  BY <1>1, <1>2, <1>3

\* The candidate that is chosen without a binding.
LEMMA FirstChoice ==
    ASSUME NEW list \in CandidateLists
    PROVE  /\ ChooseAffinityCandidate(list) \in Picks(Ranked(list))
           /\ ChoosePreferredCandidate(list, ChooseAffinityCandidate(list)) = ChooseAffinityCandidate(list)
<1> DEFINE p == First(list)
           c == First(p.credentials)
<1>1. p \in Items(list) /\ p.priority = Top(list)
  BY Providers, Topmost
<1>2. c \in Items(p.credentials) /\ c.priority = Top(p.credentials)
  BY <1>1, Providers, Topmost
<1>3. ChooseAffinityCandidate(list) = Choice(p, c)
  BY DEF ChooseAffinityCandidate, BestOf
<1> HIDE DEF p, c
<1>4. [p |-> p, c |-> c] \in Ranked(list)
  BY <1>1, <1>2, BestIsRanked
<1> QED
  BY <1>3, <1>4 DEF Picks, ChoosePreferredCandidate

\* What an account becomes is what it must become, for every list: an account
\* that is offered first stays, and any other gives way to one of the highest
\* rank, of the same provider if that still ranks highest.
LEMMA StoredIsWanted ==
    ASSUME NEW old, NEW list \in CandidateLists
    PROVE  ResolveStored(old, list, ChooseAffinityCandidate(list)).choice \in Wanted(old, list)
<1> DEFINE first == ChooseAffinityCandidate(list)
           offering == {p \in Items(list) : \E c \in Items(p.credentials) : old = Choice(p, c)}
           elsewhere == [status |-> "rebound", choice |-> ChoosePreferredCandidate(list, first)]
           kept == {x \in Offers(list) : /\ old = Choice(x.p, x.c) /\ x.p.priority = Top(list)
                                         /\ (x.p.retain \/ x \in Ranked(list))}
           near == {x \in Ranked(list) : \E y \in Offers(list) : x.p = y.p /\ old = Choice(y.p, y.c)}
           answer == ResolveStored(old, list, first)
<1> SUFFICES answer.choice \in Wanted(old, list)
  OBVIOUS
<1>1. Wanted(old, list) = IF kept # {} THEN {old} ELSE IF near # {} THEN Picks(near)
                          ELSE Picks(Ranked(list))
  BY DEF Wanted
<1>2. elsewhere.choice = first /\ first \in Picks(Ranked(list))
  BY FirstChoice
<1> HIDE DEF first
<1>3. \A x \in Offers(list) : x.p \in Items(list) /\ x.c \in Items(x.p.credentials)
  BY DEF Offers
<1>4. CASE offering = {}
  <2>1. answer = elsewhere
    BY <1>4 DEF ResolveStored
  <2>2. \A x \in Offers(list) : old # Choice(x.p, x.c)
    BY <1>3, <1>4
  <2>3. kept = {} /\ near = {}
    BY <2>2
  <2>4. answer.choice \in Picks(Ranked(list))
    BY <1>2, <2>1
  <2> HIDE DEF kept, near, answer
  <2> QED
    BY <1>1, <2>3, <2>4
<1>5. CASE offering # {}
  <2> DEFINE p == CHOOSE x \in offering : TRUE
             c == CHOOSE x \in Items(p.credentials) : old = Choice(p, x)
             within == [status |-> "rebound", choice |-> ChoosePreferredCredential(p, first)]
             hit == [status |-> "hit", choice |-> old]
  <2>1. p \in Items(list) /\ c \in Items(p.credentials) /\ old = Choice(p, c)
    BY <1>5
  <2>2. answer = IF p.priority < Top(list) THEN elsewhere
                 ELSE IF ~p.retain /\ c.priority < Top(p.credentials) THEN within ELSE hit
    BY <1>5 DEF ResolveStored
  <2> HIDE DEF p, c, offering, answer
  <2>3. Rankable(list) /\ Rankable(p.credentials)
    BY <2>1, Providers
  \* The ids tell who offers the account.
  <2>4. \A x \in Offers(list) : old = Choice(x.p, x.c) => x.p = p /\ x.c = c
    <3> SUFFICES ASSUME NEW x \in Offers(list), old = Choice(x.p, x.c)
                 PROVE  x.p = p /\ x.c = c
      OBVIOUS
    <3>1. x.p.id = p.id /\ x.c.id = c.id
      <4>1. Choice(x.p, x.c) = Choice(p, c)
        BY <2>1
      <4> QED
        BY <4>1, SameChoice
    <3>2. x.p = p
      BY <1>3, <2>1, <2>3, <3>1, Topmost
    <3> QED
      BY <1>3, <2>1, <2>3, <3>1, <3>2, Topmost
  <2>5. p.priority \in Int /\ p.priority <= Top(list) /\ Top(list) \in Int
        /\ c.priority \in Int /\ c.priority <= Top(p.credentials) /\ Top(p.credentials) \in Int
    BY <2>1, <2>3, Topmost
  <2>6. CASE p.priority < Top(list)
    <3>1. answer.choice = first
      BY <1>2, <2>2, <2>6
    <3>2. kept = {}
      BY <2>4, <2>5, <2>6
    <3>3. near = {}
      BY <2>4, <2>5, <2>6, RankedAreTop
    <3>4. answer.choice \in Picks(Ranked(list))
      BY <1>2, <3>1
    <3> HIDE DEF kept, near, answer
    <3> QED
      BY <1>1, <3>2, <3>3, <3>4
  <2>7. CASE p.priority = Top(list) /\ ~p.retain /\ c.priority < Top(p.credentials)
    <3>1. answer = within
      BY <2>2, <2>5, <2>7
    <3>2. kept = {}
      BY <2>4, <2>5, <2>7, RankedAreTop
    <3>3. \A d \in Items(p.credentials) :
            d.priority = Top(p.credentials) => [p |-> p, c |-> d] \in near
      <4> SUFFICES ASSUME NEW d \in Items(p.credentials), d.priority = Top(p.credentials)
                   PROVE  [p |-> p, c |-> d] \in near
        OBVIOUS
      <4>1. [p |-> p, c |-> d] \in Ranked(list)
        BY <2>1, <2>7, BestIsRanked
      <4>2. [p |-> p, c |-> c] \in Offers(list)
        BY <2>1 DEF Offers
      <4> QED
        BY <2>1, <4>1, <4>2
    <3>4. \A d \in Items(p.credentials) :
            d.priority = Top(p.credentials) => Choice(p, d) \in Picks(near)
      <4> SUFFICES ASSUME NEW d \in Items(p.credentials), d.priority = Top(p.credentials)
                   PROVE  Choice(p, d) \in Picks(near)
        OBVIOUS
      <4> DEFINE x == [p |-> p, c |-> d]
      <4>1. x \in near /\ Choice(x.p, x.c) = Choice(p, d)
        BY <3>3
      <4> HIDE DEF near, x
      <4> QED
        BY <4>1 DEF Picks
    <3>5. First(p.credentials) \in Items(p.credentials)
          /\ First(p.credentials).priority = Top(p.credentials)
      BY <2>3, Topmost
    <3>6. near # {}
      BY <3>3, <3>5
    <3>7. ChoosePreferredCredential(p, first) \in Picks(near)
      <4> HIDE DEF near
      <4> QED
        BY <3>4, <3>5 DEF ChoosePreferredCredential, BestOf
    <3>8. answer.choice \in Picks(near)
      BY <3>1, <3>7
    <3> HIDE DEF near, kept, answer
    <3> QED
      BY <1>1, <3>2, <3>6, <3>8
  <2>8. CASE p.priority = Top(list) /\ (p.retain \/ c.priority = Top(p.credentials))
    <3>1. answer = hit
      BY <2>2, <2>5, <2>8
    <3>2. [p |-> p, c |-> c] \in Offers(list)
      BY <2>1 DEF Offers
    <3>3. c.priority = Top(p.credentials) => [p |-> p, c |-> c] \in Ranked(list)
      BY <2>1, <2>8, BestIsRanked
    <3>4. [p |-> p, c |-> c] \in kept
      BY <2>1, <2>8, <3>2, <3>3
    <3>5. answer.choice = old
      BY <3>1
    <3> HIDE DEF kept, answer
    <3> QED
      BY <1>1, <3>4, <3>5
  <2>9. p.priority = Top(list) \/ p.priority < Top(list)
    BY <2>5
  <2>10. p.retain \/ ~p.retain
    OBVIOUS
  <2>11. c.priority = Top(p.credentials) \/ c.priority < Top(p.credentials)
    BY <2>5
  <2> QED
    BY <2>6, <2>7, <2>8, <2>9, <2>10, <2>11
<1> QED
  BY <1>4, <1>5

\* Whatever is chosen is offered by some list.
LEMMA OfferedChoice ==
    ASSUME NEW list \in CandidateLists, NEW p \in Items(list), NEW c \in Items(p.credentials)
    PROVE  Choice(p, c) \in Offered
BY DEF Offered

LEMMA BestIsOffered ==
    ASSUME NEW list \in CandidateLists, NEW p \in Items(list)
    PROVE  BestOf(p) \in Offered
<1>1. First(p.credentials) \in Items(p.credentials)
  BY Providers, Topmost
<1> QED
  BY <1>1, OfferedChoice DEF BestOf

LEMMA FirstIsOffered ==
    ASSUME NEW list \in CandidateLists
    PROVE  ChooseAffinityCandidate(list) \in Offered
<1>1. First(list) \in Items(list)
  BY Providers, Topmost
<1> QED
  BY <1>1, BestIsOffered DEF ChooseAffinityCandidate

LEMMA StoredIsOffered ==
    ASSUME NEW list \in CandidateLists, NEW old \in Offered, NEW preferred \in Offered
    PROVE  ResolveStored(old, list, preferred).choice \in Offered
<1> DEFINE offering == {p \in Items(list) : \E c \in Items(p.credentials) : old = Choice(p, c)}
           elsewhere == [status |-> "rebound", choice |-> ChoosePreferredCandidate(list, preferred)]
           p == CHOOSE x \in offering : TRUE
           c == CHOOSE x \in Items(p.credentials) : old = Choice(p, x)
           within == [status |-> "rebound", choice |-> ChoosePreferredCredential(p, preferred)]
           hit == [status |-> "hit", choice |-> old]
<1>1. elsewhere.choice \in Offered
  BY FirstIsOffered DEF ChoosePreferredCandidate
<1>2. offering # {} => within.choice \in Offered
  <2> SUFFICES ASSUME offering # {}
               PROVE  ChoosePreferredCredential(p, preferred) \in Offered
    OBVIOUS
  <2>1. p \in Items(list)
    OBVIOUS
  <2> HIDE DEF p
  <2> QED
    BY <2>1, BestIsOffered DEF ChoosePreferredCredential
<1>3. hit.choice \in Offered
  OBVIOUS
<1>4. ResolveStored(old, list, preferred) \in {elsewhere, hit}
      \/ (offering # {} /\ ResolveStored(old, list, preferred) = within)
  BY DEF ResolveStored
<1> HIDE DEF elsewhere, within, hit
<1> QED
  BY <1>1, <1>2, <1>3, <1>4

LEMMA DecisionOffered ==
    ASSUME NEW list \in CandidateLists, NEW old \in Offered \cup {None},
           NEW decision \in Decisions[list][old]
    PROVE  decision.choice \in Offered /\ (decision.status = "hit" => old # None)
<1>1. Preferences(old, list) \subseteq Offered
  <2>1. First(list) \in Items(list)
    BY Providers, Topmost
  <2> QED
    BY <2>1, FirstIsOffered, OfferedChoice DEF Preferences
<1>2. PICK preferred \in Preferences(old, list) :
        decision = IF old = None
                   THEN [status |-> "created", choice |-> ChoosePreferredCandidate(list, preferred)]
                   ELSE ResolveStored(old, list, preferred)
  BY DEF Decisions
<1>3. preferred \in Offered
  BY <1>1
<1>4. CASE old = None
  BY <1>2, <1>3, <1>4, FirstIsOffered DEF ChoosePreferredCandidate
<1>5. CASE old # None
  BY <1>2, <1>3, <1>5, StoredIsOffered
<1> QED
  BY <1>4, <1>5

-----------------------------------------------------------------------------
(* What is known of bindings.  Ids are drawn once and generations only grow, *)
(* so an entry that is no longer a live binding's never will be again; and a *)
(* row that was a live binding's stays, unless a late task overruns it.      *)

Entries == [id : 1..MaxBindings, gen : 1..MaxGeneration]

Bindings == [choice : Offered, updated : 0..MaxTime, id : 1..MaxBindings,
             gen : 1..MaxGeneration, indexed : BOOLEAN]

TaskRecords == [pc : {"register", "unregister", "settle", "drop"}, m : Models,
                obsolete : EntryType, cand : Entries, seen : EntryType, tries : 0..3]

Operations == {"none", "list", "clearAll", "clearOne", "remove", "alarm", "unregister"}

ManagerRecords == [op : Operations, stage : [Models -> {"done", "check", "remove", "get", "got"}],
                   bind : [Models -> EntryType], seen : [Models -> EntryType], from : Nat]

\* In the predicates below, r is the binding of a model, w its row, n the ids
\* drawn, t the time, and o the bindings whose row was overrun.

\* Of a binding, an entry shows a generation it has had.
Known(e, r, n) ==
    e # None => e.id <= n /\ (r # None /\ r.id = e.id => e.gen <= r.gen)

\* The entry is not a live binding's.
Gone(e, r, t) == e # None /\ r # None /\ Deadline(r) > t => Entry(r) # e

\* A live binding is listed.
Listed(w, r, t, o) == r # None /\ Deadline(r) > t => w = Entry(r) \/ r.id \in o

TaskKnows(k, r, w, n, t, o) ==
    /\ Known(k.cand, r, n) /\ Known(k.obsolete, r, n)
    /\ k.pc = "unregister" => Gone(k.obsolete, r, t)
    /\ k.pc = "drop" => Gone(k.cand, r, t)
    /\ k.pc = "settle" => k.seen # None /\ ~Exhausted(k.seen.gen)
    /\ k.pc = "settle" /\ k.seen = k.cand /\ r # None /\ Entry(r) = k.cand => Listed(w, r, t, o)

\* What a request that clears has read is no younger than it says.
ReadBy(e, from) == e # None => e.id <= from

ManagerKnows(q, m, r, n, t) ==
    /\ Known(q.seen[m], r, n) /\ Known(q.bind[m], r, n)
    /\ q.stage[m] = "remove" => Gone(q.seen[m], r, t)
    /\ q.op \in {"none", "alarm"} => q.stage[m] = "done"
    /\ q.op \in {"clearAll", "clearOne"} => ReadBy(q.seen[m], q.from) /\ ReadBy(q.bind[m], q.from)
    /\ q.from <= n

ModelKnows(r, w, n, t, o) ==
    /\ r # None => r.id <= n
    /\ Known(w, r, n)
    /\ r # None /\ r.indexed => Listed(w, r, t, o)

\* The object is woken in time for every binding, or is awake.
AlarmKnows(a, awake, r, t) ==
    /\ a # None /\ r # None => a <= Max({Deadline(r), t})
    /\ a = None => r = None \/ awake

Typed ==
    /\ rec \in [Models -> Bindings \cup {None}] /\ row \in [Models -> EntryType]
    /\ alarm \in 0..MaxTime + TTL \cup {None}
    /\ task \in [Tasks -> TaskRecords \cup {NoTask}]
    /\ mgr \in [Managers \cup {Alarm} -> ManagerRecords]
    /\ ids \in 0..MaxBindings /\ now \in 0..MaxTime

TaskSafe(i) == task[i] \in TaskRecords =>
    TaskKnows(task[i], rec[task[i].m], row[task[i].m], ids, now, overrun)

ManagerSafe(g) == \A m \in Models : ManagerKnows(mgr[g], m, rec[m], ids, now)

ModelSafe(m) == ModelKnows(rec[m], row[m], ids, now, overrun)

AlarmSafe == \A m \in Models : AlarmKnows(alarm, mgr[Alarm].op = "alarm", rec[m], now)

AffinityInv ==
    /\ Typed
    /\ \A m \in Models : ModelSafe(m)
    /\ \A i \in Tasks : TaskSafe(i)
    /\ \A g \in Managers \cup {Alarm} : ManagerSafe(g)
    /\ AlarmSafe

-----------------------------------------------------------------------------
(* How a binding may change: it goes, it grows older or is overtaken, or a   *)
(* new one takes its place.                                                  *)

Evolves(r, s, n, t, u) ==
    s # None => \/ s.id > n
                \/ /\ r # None /\ s.id = r.id /\ r.gen <= s.gen
                   /\ Deadline(s) > u => Deadline(r) > t

LEMMA EntryOf ==
    ASSUME NEW r \in Bindings
    PROVE  /\ Entry(r) \in Entries /\ Entry(r).id = r.id /\ Entry(r).gen = r.gen
           /\ Deadline(r) \in 0..MaxTime + TTL
BY AffinityAssumption DEF Entry, Entries, Bindings, Deadline

LEMMA NoneIsNoEntry == None \notin Entries /\ NoTask \notin TaskRecords
<1>1. Entries \subseteq [id : Nat, gen : Nat]
  BY AffinityAssumption DEF Entries
<1> QED
  BY <1>1, AffinityAssumption DEF NoTask, TaskRecords

LEMMA KnownStays ==
    ASSUME NEW e \in EntryType, NEW r \in Bindings \cup {None}, NEW s \in Bindings \cup {None},
           NEW n \in Nat, NEW p \in Nat, n <= p, NEW t, NEW u, Evolves(r, s, n, t, u), Known(e, r, n)
    PROVE  Known(e, s, p)
BY AffinityAssumption DEF Known, Evolves, EntryType, Bindings

LEMMA GoneStays ==
    ASSUME NEW e \in EntryType, NEW r \in Bindings \cup {None}, NEW s \in Bindings \cup {None},
           NEW n \in Nat, NEW t, NEW u, Evolves(r, s, n, t, u), Known(e, r, n), Gone(e, r, t)
    PROVE  Gone(e, s, u)
<1> SUFFICES ASSUME e # None, s # None, Deadline(s) > u, Entry(s) = e
             PROVE  FALSE
  BY DEF Gone
<1>1. s \in Bindings /\ e.id = s.id /\ e.gen = s.gen
  BY EntryOf
<1>2. e.id <= n /\ s.id \in Nat /\ s.gen \in Nat
  BY <1>1, AffinityAssumption DEF Known, Bindings
<1>3. r # None /\ r \in Bindings /\ s.id = r.id /\ r.gen <= s.gen /\ Deadline(r) > t
  BY <1>1, <1>2 DEF Evolves
<1>4. e.gen <= r.gen
  BY <1>1, <1>3 DEF Known
<1>5. r.gen = s.gen
  BY <1>1, <1>2, <1>3, <1>4, AffinityAssumption DEF Bindings
<1>6. Entry(r) = e
  BY <1>1, <1>3, <1>5 DEF Entry
<1> QED
  BY <1>3, <1>6 DEF Gone

\* A row of a model changes so that what was listed stays listed.
Stays(r, s, w, x, t, u, o, p) ==
    s # None /\ r # None /\ Entry(r) = Entry(s) /\ Listed(w, r, t, o) => Listed(x, s, u, p)

LEMMA UntouchedStays ==
    ASSUME NEW r \in Bindings \cup {None}, NEW s \in Bindings \cup {None}, NEW w, NEW n \in Nat,
           NEW t, NEW u, NEW o, Evolves(r, s, n, t, u), r # None => r.id <= n
    PROVE  Stays(r, s, w, w, t, u, o, o)
<1> SUFFICES ASSUME s # None, r # None, Entry(r) = Entry(s), Listed(w, r, t, o), Deadline(s) > u
             PROVE  w = Entry(s) \/ s.id \in o
  BY DEF Stays, Listed
<1>1. r.id = s.id /\ r.id \in Nat
  BY EntryOf, AffinityAssumption DEF Bindings
<1>2. Deadline(r) > t
  BY <1>1 DEF Evolves
<1> QED
  BY <1>1, <1>2 DEF Listed

LEMMA SettledStays ==
    ASSUME NEW r \in Bindings \cup {None}, NEW s \in Bindings \cup {None}, NEW c \in Entries,
           NEW n \in Nat, NEW t, NEW u, NEW w, NEW x, NEW o, NEW p,
           Evolves(r, s, n, t, u), Stays(r, s, w, x, t, u, o, p), Known(c, r, n),
           s # None, Entry(s) = c,
           r # None /\ Entry(r) = c => Listed(w, r, t, o)
    PROVE  Listed(x, s, u, p)
<1>1. s \in Bindings /\ c.id = s.id /\ c.gen = s.gen /\ c # None
  BY EntryOf, NoneIsNoEntry
<1>2. c.id <= n /\ s.id \in Nat /\ s.gen \in Nat
  BY <1>1, AffinityAssumption DEF Known, Bindings
<1>3. r # None /\ r \in Bindings /\ s.id = r.id /\ r.gen <= s.gen
  BY <1>1, <1>2 DEF Evolves
<1>4. c.gen <= r.gen
  BY <1>1, <1>3 DEF Known
<1>5. r.gen = s.gen
  BY <1>1, <1>2, <1>3, <1>4, AffinityAssumption DEF Bindings
<1>6. Entry(r) = c
  BY <1>1, <1>3, <1>5 DEF Entry
<1> QED
  BY <1>3, <1>6 DEF Stays

-----------------------------------------------------------------------------
(* What a step leaves alone stays known.                                     *)

Advances ==
    /\ Typed' /\ ids <= ids'
    /\ \A m \in Models :
          /\ Evolves(rec[m], rec'[m], ids, now, now')
          /\ Stays(rec[m], rec'[m], row[m], row'[m], now, now', overrun, overrun')

LEMMA Numbers ==
    ASSUME Typed
    PROVE  /\ ids \in Nat /\ now \in Nat
           /\ \A m \in Models : rec[m] \in Bindings \cup {None} /\ row[m] \in EntryType
BY AffinityAssumption DEF Typed

LEMMA TaskStays ==
    ASSUME AffinityInv, Advances, NEW i \in Tasks, task'[i] = task[i]
    PROVE  TaskSafe(i)'
<1> SUFFICES ASSUME task[i] \in TaskRecords
             PROVE  TaskKnows(task[i], rec'[task[i].m], row'[task[i].m], ids', now', overrun')
  BY DEF TaskSafe
<1> DEFINE k == task[i]
           r == rec[k.m]
           s == rec'[k.m]
<1>1. k.m \in Models /\ k.cand \in Entries /\ k.obsolete \in EntryType
  BY DEF TaskRecords
<1>2. r \in Bindings \cup {None} /\ s \in Bindings \cup {None} /\ ids \in Nat /\ ids' \in Nat /\ ids <= ids'
  BY <1>1, AffinityAssumption DEF Advances, AffinityInv, Typed
<1>3. Evolves(r, s, ids, now, now')
      /\ Stays(r, s, row[k.m], row'[k.m], now, now', overrun, overrun')
  BY <1>1 DEF Advances
<1>4. TaskKnows(k, r, row[k.m], ids, now, overrun)
  BY DEF AffinityInv, TaskSafe
<1> HIDE DEF k, r, s
<1>5. k.cand \in EntryType
  BY <1>1 DEF Entries, EntryType
<1>6. Known(k.cand, s, ids') /\ Known(k.obsolete, s, ids')
  BY <1>1, <1>2, <1>3, <1>4, <1>5, KnownStays DEF TaskKnows
<1>7. k.pc = "unregister" => Gone(k.obsolete, s, now')
  BY <1>1, <1>2, <1>3, <1>4, GoneStays DEF TaskKnows
<1>8. k.pc = "drop" => Gone(k.cand, s, now')
  BY <1>2, <1>3, <1>4, <1>5, GoneStays DEF TaskKnows
<1>9. k.pc = "settle" /\ k.seen = k.cand /\ s # None /\ Entry(s) = k.cand =>
        Listed(row'[k.m], s, now', overrun')
  BY <1>1, <1>2, <1>3, <1>4, SettledStays DEF TaskKnows
<1>10. TaskKnows(k, s, row'[k.m], ids', now', overrun')
  BY <1>4, <1>6, <1>7, <1>8, <1>9 DEF TaskKnows
<1> QED
  BY <1>10 DEF k, s

LEMMA RequestStays ==
    ASSUME AffinityInv, Advances, NEW g \in Managers \cup {Alarm}, NEW m \in Models
    PROVE  ManagerKnows(mgr[g], m, rec'[m], ids', now')
<1>1. rec[m] \in Bindings \cup {None} /\ rec'[m] \in Bindings \cup {None}
      /\ ids \in Nat /\ ids' \in Nat /\ ids <= ids'
  BY AffinityAssumption DEF Advances, AffinityInv, Typed
<1>2. Evolves(rec[m], rec'[m], ids, now, now')
  BY DEF Advances
<1>3. ManagerKnows(mgr[g], m, rec[m], ids, now)
  BY DEF AffinityInv, ManagerSafe
<1>4. mgr[g].seen[m] \in EntryType /\ mgr[g].bind[m] \in EntryType /\ mgr[g].from \in Nat
  BY DEF AffinityInv, Typed, ManagerRecords
<1>5. Known(mgr[g].seen[m], rec'[m], ids') /\ Known(mgr[g].bind[m], rec'[m], ids')
  BY <1>1, <1>2, <1>3, <1>4, KnownStays DEF ManagerKnows
<1>6. mgr[g].stage[m] = "remove" => Gone(mgr[g].seen[m], rec'[m], now')
  BY <1>1, <1>2, <1>3, <1>4, GoneStays DEF ManagerKnows
<1> QED
  BY <1>1, <1>3, <1>4, <1>5, <1>6 DEF ManagerKnows

LEMMA ManagerStays ==
    ASSUME AffinityInv, Advances, NEW g \in Managers \cup {Alarm}, mgr'[g] = mgr[g]
    PROVE  ManagerSafe(g)'
BY RequestStays DEF ManagerSafe

\* A binding that is marked as listed was listed under the same entry.
LEMMA ModelStays ==
    ASSUME AffinityInv, Advances, NEW m \in Models,
           Known(row'[m], rec[m], ids), rec'[m] # None => rec'[m].id <= ids',
           rec'[m] # None /\ rec'[m].indexed =>
              /\ rec[m] # None /\ Entry(rec[m]) = Entry(rec'[m])
              /\ Listed(row[m], rec[m], now, overrun)
    PROVE  ModelSafe(m)'
<1>1. rec[m] \in Bindings \cup {None} /\ rec'[m] \in Bindings \cup {None} /\ row'[m] \in EntryType
      /\ ids \in Nat /\ ids' \in Nat /\ ids <= ids'
  BY AffinityAssumption DEF Advances, AffinityInv, Typed
<1>2. Evolves(rec[m], rec'[m], ids, now, now')
      /\ Stays(rec[m], rec'[m], row[m], row'[m], now, now', overrun, overrun')
  BY DEF Advances
<1>3. Known(row'[m], rec'[m], ids')
  BY <1>1, <1>2, KnownStays
<1> QED
  BY <1>2, <1>3 DEF ModelSafe, ModelKnows, Stays

LEMMA ModelUntouched ==
    ASSUME AffinityInv, Advances, NEW m \in Models, rec'[m] = rec[m], row'[m] = row[m]
    PROVE  ModelSafe(m)'
<1>1. ModelKnows(rec[m], row[m], ids, now, overrun)
  BY DEF AffinityInv, ModelSafe
<1>2. rec[m] # None => rec[m].id \in Nat
  BY Numbers, AffinityAssumption DEF AffinityInv, Bindings
<1>3. ids \in Nat /\ ids' \in Nat /\ ids <= ids'
  BY AffinityAssumption DEF Advances, AffinityInv, Typed
<1> QED
  BY <1>1, <1>2, <1>3, ModelStays DEF ModelKnows

-----------------------------------------------------------------------------
(* The alarm.                                                                *)

LEMMA AlarmUnmoved ==
    ASSUME AffinityInv, Typed', alarm' = alarm, now <= now',
           mgr[Alarm].op = "alarm" => mgr'[Alarm].op = "alarm",
           \A m \in Models : rec'[m] # None => rec[m] # None /\ Deadline(rec'[m]) = Deadline(rec[m])
    PROVE  AlarmSafe'
<1> SUFFICES ASSUME NEW m \in Models
             PROVE  AlarmKnows(alarm, mgr'[Alarm].op = "alarm", rec'[m], now')
  BY DEF AlarmSafe
<1>1. AlarmKnows(alarm, mgr[Alarm].op = "alarm", rec[m], now)
  BY DEF AffinityInv, AlarmSafe
<1>2. CASE rec'[m] = None
  BY <1>2 DEF AlarmKnows
<1>3. CASE rec'[m] # None
  <2> DEFINE d == Deadline(rec[m])
  <2>1. rec[m] \in Bindings /\ rec[m] # None /\ Deadline(rec'[m]) = d
    BY <1>3 DEF AffinityInv, Typed
  <2>2. d \in Int /\ now \in Int /\ now' \in Int /\ (alarm # None => alarm \in Int)
    BY <2>1, EntryOf, AffinityAssumption DEF AffinityInv, Typed
  <2> HIDE DEF d
  <2>3. alarm # None => alarm <= Max({d, now'})
    BY <1>1, <2>1, <2>2, MaxOfTwo DEF AlarmKnows, d
  <2> QED
    BY <1>1, <2>1, <2>3 DEF AlarmKnows
<1> QED
  BY <1>2, <1>3

LEMMA ScheduleIsEarly ==
    ASSUME NEW bindings \in [Models -> Bindings \cup {None}]
    PROVE  /\ \A m \in Models : bindings[m] # None =>
                 Schedule(bindings) # None /\ Schedule(bindings) <= Deadline(bindings[m])
           /\ Schedule(bindings) \in 0..MaxTime + TTL \cup {None}
<1> DEFINE bound == {m \in Models : bindings[m] # None}
           S == {Deadline(bindings[m]) : m \in bound}
<1>1. Schedule(bindings) = IF bound = {} THEN None ELSE Min(S)
  BY DEF Schedule
<1>2. S \subseteq 0..MaxTime + TTL
  BY EntryOf
<1>3. bound # {} => Min(S) \in S /\ \A d \in S : Min(S) <= d
  <2>1. bound # {} => S # {}
    OBVIOUS
  <2>2. S \in SUBSET Nat
    BY <1>2
  <2> HIDE DEF S, bound
  <2> QED
    BY <2>1, <2>2, LeastNumber
<1>4. \A m \in Models : bindings[m] # None => m \in bound /\ Deadline(bindings[m]) \in S
  OBVIOUS
<1> HIDE DEF S, bound
<1>5. bound # {} => Schedule(bindings) \in 0..MaxTime + TTL
  BY <1>1, <1>2, <1>3
<1>6. bound # {} => Schedule(bindings) # None
  BY <1>5, AffinityAssumption
<1> QED
  BY <1>1, <1>3, <1>4, <1>5, <1>6

LEMMA AlarmScheduled ==
    ASSUME Typed', alarm' = Schedule(rec')
    PROVE  AlarmSafe'
<1> SUFFICES ASSUME NEW m \in Models
             PROVE  AlarmKnows(alarm', mgr'[Alarm].op = "alarm", rec'[m], now')
  BY DEF AlarmSafe
<1>1. rec' \in [Models -> Bindings \cup {None}]
  BY DEF Typed
<1>2. CASE rec'[m] = None
  BY <1>2 DEF AlarmKnows
<1>3. CASE rec'[m] # None
  <2> DEFINE d == Deadline(rec'[m])
  <2>1. alarm' # None /\ alarm' <= d
    BY <1>1, <1>3, ScheduleIsEarly
  <2>2. d \in Int /\ now' \in Int /\ alarm' \in Int
    BY <1>1, <1>3, <2>1, EntryOf, AffinityAssumption DEF Typed
  <2> HIDE DEF d
  <2>3. alarm' <= Max({d, now'})
    BY <2>1, <2>2, MaxOfTwo
  <2> QED
    BY <2>1, <2>3 DEF AlarmKnows, d
<1> QED
  BY <1>2, <1>3

-----------------------------------------------------------------------------
(* The steps.                                                                *)

LEMMA Closes ==
    ASSUME AffinityInv, Advances, \A m \in Models : ModelSafe(m)',
           \A i \in Tasks : task'[i] # task[i] => TaskSafe(i)',
           \A g \in Managers \cup {Alarm} : mgr'[g] # mgr[g] => ManagerSafe(g)',
           AlarmSafe'
    PROVE  AffinityInv'
<1>1. \A i \in Tasks : TaskSafe(i)'
  BY TaskStays
<1>2. \A g \in Managers \cup {Alarm} : ManagerSafe(g)'
  BY ManagerStays
<1> QED
  BY <1>1, <1>2 DEF AffinityInv, Advances

LEMMA SameEvolves ==
    ASSUME NEW r \in Bindings \cup {None}, NEW n \in Nat, NEW t \in Nat, NEW u \in Nat, t <= u
    PROVE  Evolves(r, r, n, t, u)
<1> SUFFICES ASSUME r # None
             PROVE  r.gen <= r.gen /\ (Deadline(r) > u => Deadline(r) > t)
  BY DEF Evolves
<1> QED
  BY EntryOf DEF Bindings

\* A step that leaves bindings and rows alone.
LEMMA Quiet ==
    ASSUME AffinityInv, Typed', UNCHANGED <<rec, row, ids, overrun>>, now <= now'
    PROVE  Advances /\ \A m \in Models : ModelSafe(m)'
<1>1. ids \in Nat /\ now \in Nat /\ now' \in Nat
  BY AffinityAssumption DEF AffinityInv, Typed
<1>2. Advances
  <2> SUFFICES ASSUME NEW m \in Models
               PROVE  /\ Evolves(rec[m], rec[m], ids, now, now')
                      /\ Stays(rec[m], rec[m], row[m], row[m], now, now', overrun, overrun)
    BY <1>1 DEF Advances
  <2>1. rec[m] \in Bindings \cup {None} /\ (rec[m] # None => rec[m].id <= ids)
    BY Numbers DEF AffinityInv, ModelSafe, ModelKnows
  <2>2. Evolves(rec[m], rec[m], ids, now, now')
    BY <1>1, <2>1, SameEvolves
  <2> QED
    BY <1>1, <2>1, <2>2, UntouchedStays
<1> QED
  BY <1>2, ModelUntouched

\* A step that takes out a row nobody needs.
LEMMA Removes ==
    ASSUME AffinityInv, Typed', UNCHANGED <<rec, ids, now, overrun>>, NEW n \in Models,
           NEW e \in EntryType, row' = [row EXCEPT ![n] = Removed(e, @)], Gone(e, rec[n], now)
    PROVE  Advances /\ \A m \in Models : ModelSafe(m)'
<1>1. ids \in Nat /\ now \in Nat
  BY AffinityAssumption DEF AffinityInv, Typed
<1>2. \A m \in Models : ModelKnows(rec[m], row[m], ids, now, overrun)
  BY DEF AffinityInv, ModelSafe
<1>3. \A m \in Models : row'[m] = row[m] \/ (m = n /\ row[m] = e /\ row'[m] = None)
  BY DEF AffinityInv, Typed, Removed
<1>4. \A m \in Models : Stays(rec[m], rec[m], row[m], row'[m], now, now, overrun, overrun)
  <2> SUFFICES ASSUME NEW m \in Models, rec[m] # None, Listed(row[m], rec[m], now, overrun),
                      Deadline(rec[m]) > now
               PROVE  row'[m] = Entry(rec[m]) \/ rec[m].id \in overrun
    BY DEF Stays, Listed
  <2>1. row[m] = Entry(rec[m]) \/ rec[m].id \in overrun
    BY DEF Listed
  <2>2. m = n /\ row[m] = Entry(rec[m]) => e # Entry(rec[m])
    <3>1. Entry(rec[m]) # None
      BY EntryOf, NoneIsNoEntry DEF AffinityInv, Typed
    <3> QED
      BY <3>1 DEF Gone
  <2> QED
    BY <1>3, <2>1, <2>2
<1>5. Advances
  <2>1. \A m \in Models : Evolves(rec[m], rec[m], ids, now, now)
    BY <1>1, SameEvolves DEF AffinityInv, Typed
  <2> QED
    BY <1>1, <1>4, <2>1 DEF Advances
<1> SUFFICES ASSUME NEW m \in Models
             PROVE  ModelSafe(m)'
  BY <1>5
<1>6. Known(row'[m], rec[m], ids)
  BY <1>2, <1>3 DEF ModelKnows, Known
<1> QED
  BY <1>2, <1>5, <1>6, ModelStays DEF ModelKnows

\* A task that runs has a record of its own.
LEMMA TaskAt ==
    ASSUME AffinityInv, NEW i \in Tasks, task[i].pc # "idle"
    PROVE  /\ task[i] \in TaskRecords /\ task[i].m \in Models
           /\ TaskKnows(task[i], rec[task[i].m], row[task[i].m], ids, now, overrun)
<1>1. task[i] \in TaskRecords
  BY DEF AffinityInv, Typed, NoTask
<1> QED
  BY <1>1 DEF TaskRecords, AffinityInv, TaskSafe

\* One that has ended knows nothing.
LEMMA IdleSafe ==
    ASSUME Typed, NEW i \in Tasks, Idle(i)
    PROVE  /\ task' \in [Tasks -> TaskRecords \cup {NoTask}]
           /\ \A j \in Tasks : task'[j] # task[j] => TaskSafe(j)'
BY NoneIsNoEntry DEF Idle, Typed, TaskSafe

LEMMA RestKnows ==
    /\ Rest \in ManagerRecords
    /\ \A m \in Models, n \in Nat : \A r, t : ManagerKnows(Rest, m, r, n, t)
<1>1. Rest \in ManagerRecords
  BY DEF Rest, ManagerRecords, EntryType, Operations
<1>2. \A m \in Models, n \in Nat : \A r, t : ManagerKnows(Rest, m, r, n, t)
  BY DEF Rest, ManagerKnows, Known
<1> QED
  BY <1>1, <1>2

\* A request that changed knows what its record says.
LEMMA OneManager ==
    ASSUME Typed, NEW g \in Managers \cup {Alarm}, NEW q \in ManagerRecords,
           mgr' = [mgr EXCEPT ![g] = q], \A m \in Models : ManagerKnows(q, m, rec'[m], ids', now')
    PROVE  /\ mgr' \in [Managers \cup {Alarm} -> ManagerRecords] /\ mgr'[g] = q
           /\ \A h \in Managers \cup {Alarm} : mgr'[h] # mgr[h] => ManagerSafe(h)'
BY DEF Typed, ManagerSafe

LEMMA TickIsSafe ==
    ASSUME AffinityInv, Tick
    PROVE  AffinityInv'
<1>1. Typed' /\ now <= now'
  BY AffinityAssumption DEF Tick, AffinityInv, Typed
<1>2. Advances /\ \A m \in Models : ModelSafe(m)'
  BY <1>1, Quiet DEF Tick
<1>3. AlarmSafe'
  BY <1>1, AlarmUnmoved DEF Tick
<1> QED
  BY <1>2, <1>3, Closes DEF Tick

LEMMA AbandonIsSafe ==
    ASSUME AffinityInv, NEW i \in Tasks, Abandon(i)
    PROVE  AffinityInv'
<1>1. now <= now /\ Typed
  BY Numbers DEF AffinityInv
<1>2. Typed' /\ \A j \in Tasks : task'[j] # task[j] => TaskSafe(j)'
  BY <1>1, IdleSafe DEF Abandon, Typed
<1>3. Advances /\ \A m \in Models : ModelSafe(m)'
  BY <1>1, <1>2, Quiet DEF Abandon
<1>4. AlarmSafe'
  BY <1>1, <1>2, AlarmUnmoved DEF Abandon
<1> QED
  BY <1>2, <1>3, <1>4, Closes DEF Abandon

LEMMA RemovedIsEntry ==
    ASSUME Typed, NEW e, NEW m \in Models
    PROVE  [row EXCEPT ![m] = Removed(e, @)] \in [Models -> EntryType]
BY DEF Typed, Removed, EntryType

LEMMA WithdrawIsSafe ==
    ASSUME AffinityInv, NEW i \in Tasks, Withdraw(i)
    PROVE  AffinityInv'
<1>1. now <= now /\ Typed
  BY Numbers DEF AffinityInv
<1>2. task[i].m \in Models /\ task[i].cand \in EntryType /\ Gone(task[i].cand, rec[task[i].m], now)
  BY TaskAt DEF Withdraw, TaskKnows, TaskRecords, Entries, EntryType
<1>3. Typed' /\ \A j \in Tasks : task'[j] # task[j] => TaskSafe(j)'
  <2>1. /\ task' \in [Tasks -> TaskRecords \cup {NoTask}]
        /\ \A j \in Tasks : task'[j] # task[j] => TaskSafe(j)'
    BY <1>1, IdleSafe DEF Withdraw
  <2>2. row' \in [Models -> EntryType]
    BY <1>1, <1>2, RemovedIsEntry DEF Withdraw
  <2> QED
    BY <1>1, <2>1, <2>2 DEF Withdraw, Typed
<1>4. Advances /\ \A m \in Models : ModelSafe(m)'
  BY <1>2, <1>3, Removes DEF Withdraw
<1>5. AlarmSafe'
  BY <1>1, <1>3, AlarmUnmoved DEF Withdraw
<1> QED
  BY <1>3, <1>4, <1>5, Closes DEF Withdraw

LEMMA UnregisterIsSafe ==
    ASSUME AffinityInv, NEW i \in Tasks, Unregister(i)
    PROVE  AffinityInv'
<1> DEFINE k == task[i]
           l == [k EXCEPT !.pc = "register"]
           q == [l EXCEPT !.obsolete = None]
<1>1. now <= now /\ Typed
  BY Numbers DEF AffinityInv
<1>2. k \in TaskRecords /\ k.m \in Models /\ k.pc = "unregister"
      /\ TaskKnows(k, rec[k.m], row[k.m], ids, now, overrun)
  BY TaskAt DEF Unregister
<1>3. task' = [task EXCEPT ![i] = q]
  BY DEF Unregister
<1>4. q \in TaskRecords
  BY <1>2 DEF TaskRecords, EntryType
<1>5. q.pc = "register" /\ q.m = k.m /\ q.cand = k.cand /\ q.obsolete = None
  BY <1>2 DEF TaskRecords
<1> HIDE DEF q, l
<1>6. k.obsolete \in EntryType /\ Gone(k.obsolete, rec[k.m], now)
  BY <1>2 DEF TaskRecords, TaskKnows
<1>7. Typed'
  <2>1. task' \in [Tasks -> TaskRecords \cup {NoTask}]
    BY <1>1, <1>3, <1>4 DEF Typed
  <2>2. row' \in [Models -> EntryType]
    BY <1>1, <1>2, RemovedIsEntry DEF Unregister, Typed
  <2> QED
    BY <1>1, <2>1, <2>2 DEF Unregister, Typed
<1>8. Advances /\ \A m \in Models : ModelSafe(m)'
  <2>1. CASE row' = row
    BY <1>1, <1>7, <2>1, Quiet DEF Unregister
  <2>2. CASE row' = [row EXCEPT ![k.m] = Removed(k.obsolete, @)]
    BY <1>2, <1>6, <1>7, <2>2, Removes DEF Unregister
  <2> QED
    BY <2>1, <2>2 DEF Unregister
<1>9. \A j \in Tasks : task'[j] # task[j] => TaskSafe(j)'
  <2>1. task'[i] = q /\ \A j \in Tasks : j # i => task'[j] = task[j]
    BY <1>1, <1>3 DEF Typed
  <2>2. Known(k.cand, rec[k.m], ids)
    BY <1>2 DEF TaskKnows
  <2>3. TaskKnows(q, rec[k.m], row'[k.m], ids, now, overrun)
    BY <1>5, <2>2 DEF TaskKnows, Known
  <2> QED
    BY <1>5, <2>1, <2>3 DEF TaskSafe, Unregister
<1>10. AlarmSafe'
  BY <1>1, <1>7, AlarmUnmoved DEF Unregister
<1> QED
  BY <1>7, <1>8, <1>9, <1>10, Closes DEF Unregister

\* A step of one management request, on its own record.
LEMMA ManagerOnly ==
    ASSUME AffinityInv, UNCHANGED <<rec, row, alarm, task, ids, now, overrun>>,
           NEW g \in Managers, NEW q \in ManagerRecords, mgr' = [mgr EXCEPT ![g] = q],
           \A m \in Models : ManagerKnows(q, m, rec[m], ids, now)
    PROVE  AffinityInv'
<1>1. now <= now /\ Typed
  BY Numbers DEF AffinityInv
<1>2. /\ mgr' \in [Managers \cup {Alarm} -> ManagerRecords]
      /\ \A h \in Managers \cup {Alarm} : mgr'[h] # mgr[h] => ManagerSafe(h)'
  BY <1>1, OneManager
<1>3. Typed'
  BY <1>1, <1>2 DEF Typed
<1>4. Advances /\ \A m \in Models : ModelSafe(m)'
  BY <1>1, <1>3, Quiet
<1>5. AlarmSafe'
  <2>1. mgr'[Alarm] = mgr[Alarm]
    BY <1>1, AffinityAssumption DEF Typed
  <2> QED
    BY <1>1, <1>3, <2>1, AlarmUnmoved
<1> QED
  BY <1>2, <1>4, <1>5, Closes

LEMMA ReadIndexIsSafe ==
    ASSUME AffinityInv, NEW g \in Managers, NEW op \in {"list", "clearAll"}, ReadIndex(g, op)
    PROVE  AffinityInv'
<1> DEFINE from == IF op = "list" THEN 0 ELSE ids
           stage == [m \in Models |-> IF row[m] = None THEN "done" ELSE "check"]
           q == [op |-> op, stage |-> stage, bind |-> [m \in Models |-> None],
                 seen |-> row, from |-> from]
<1>1. mgr' = [mgr EXCEPT ![g] = q]
  <2> DEFINE l1 == [Rest EXCEPT !.op = op]
             l2 == [l1 EXCEPT !.seen = row]
             l3 == [l2 EXCEPT !.from = from]
             l4 == [l3 EXCEPT !.stage = stage]
  <2>1. mgr' = [mgr EXCEPT ![g] = l4]
    BY DEF ReadIndex
  <2>2. l1 = [op |-> op, stage |-> Rest.stage, bind |-> Rest.bind, seen |-> Rest.seen, from |-> 0]
    BY DEF Rest
  <2> HIDE DEF l1
  <2>3. l2 = [op |-> op, stage |-> Rest.stage, bind |-> Rest.bind, seen |-> row, from |-> 0]
    BY <2>2
  <2> HIDE DEF l2
  <2>4. l3 = [op |-> op, stage |-> Rest.stage, bind |-> Rest.bind, seen |-> row, from |-> from]
    BY <2>3
  <2> HIDE DEF l3, from, stage
  <2>5. l4 = [op |-> op, stage |-> stage, bind |-> Rest.bind, seen |-> row, from |-> from]
    BY <2>4
  <2>6. Rest.bind = [m \in Models |-> None]
    BY DEF Rest
  <2> HIDE DEF l4
  <2> QED
    BY <2>1, <2>5, <2>6
<1>2. ids \in Nat /\ row \in [Models -> EntryType]
  BY AffinityAssumption DEF AffinityInv, Typed
<1>3. q \in ManagerRecords
  <2>1. stage \in [Models -> {"done", "check", "remove", "get", "got"}]
    OBVIOUS
  <2>2. [m \in Models |-> None] \in [Models -> EntryType]
    BY DEF EntryType
  <2> HIDE DEF stage
  <2> QED
    BY <1>2, <2>1, <2>2 DEF ManagerRecords, Operations
<1>4. \A m \in Models : ManagerKnows(q, m, rec[m], ids, now)
  <2> SUFFICES ASSUME NEW m \in Models
               PROVE  ManagerKnows(q, m, rec[m], ids, now)
    OBVIOUS
  <2>1. Known(row[m], rec[m], ids)
    BY DEF AffinityInv, ModelSafe, ModelKnows
  <2>2. q.stage[m] # "remove" /\ q.bind[m] = None /\ q.seen[m] = row[m] /\ q.op = op /\ q.from = from
    OBVIOUS
  <2> HIDE DEF q
  <2> QED
    BY <1>2, <2>1, <2>2 DEF ManagerKnows, Known, ReadBy
<1> HIDE DEF q
<1> QED
  BY <1>1, <1>3, <1>4, ManagerOnly DEF ReadIndex

LEMMA ClearManagedIsSafe ==
    ASSUME AffinityInv, NEW g \in Managers, NEW models \in SUBSET Models, ClearManaged(g, models)
    PROVE  AffinityInv'
<1> DEFINE bind == [m \in Models |-> IF m \in models \cap Bound THEN Entry(rec[m]) ELSE None]
           stage == [m \in Models |-> IF m \in models \cap Bound THEN "get" ELSE "done"]
           q == [op |-> "clearOne", stage |-> stage, bind |-> bind,
                 seen |-> [m \in Models |-> None], from |-> ids]
<1>1. mgr' = [mgr EXCEPT ![g] = q]
  <2> DEFINE l1 == [Rest EXCEPT !.op = "clearOne"]
             l2 == [l1 EXCEPT !.from = ids]
             l3 == [l2 EXCEPT !.bind = bind]
             l4 == [l3 EXCEPT !.stage = stage]
  <2>1. mgr' = [mgr EXCEPT ![g] = l4]
    BY DEF ClearManaged
  <2>2. l1 = [op |-> "clearOne", stage |-> Rest.stage, bind |-> Rest.bind, seen |-> Rest.seen, from |-> 0]
    BY DEF Rest
  <2> HIDE DEF l1
  <2>3. l2 = [op |-> "clearOne", stage |-> Rest.stage, bind |-> Rest.bind, seen |-> Rest.seen, from |-> ids]
    BY <2>2
  <2> HIDE DEF l2, bind, stage
  <2>4. l3 = [op |-> "clearOne", stage |-> Rest.stage, bind |-> bind, seen |-> Rest.seen, from |-> ids]
    BY <2>3
  <2> HIDE DEF l3
  <2>5. l4 = [op |-> "clearOne", stage |-> stage, bind |-> bind, seen |-> Rest.seen, from |-> ids]
    BY <2>4
  <2>6. Rest.seen = [m \in Models |-> None]
    BY DEF Rest
  <2> HIDE DEF l4
  <2> QED
    BY <2>1, <2>5, <2>6
<1>2. ids \in Nat /\ \A m \in Models : rec[m] # None =>
          rec[m] \in Bindings /\ Entry(rec[m]) \in Entries /\ rec[m].id <= ids
                              /\ Entry(rec[m]).id = rec[m].id /\ Entry(rec[m]).gen = rec[m].gen
  BY Numbers, EntryOf DEF AffinityInv, ModelSafe, ModelKnows
<1>3. q \in ManagerRecords
  <2>1. stage \in [Models -> {"done", "check", "remove", "get", "got"}]
    OBVIOUS
  <2>2. [m \in Models |-> None] \in [Models -> EntryType]
    BY DEF EntryType
  <2>3. bind \in [Models -> EntryType]
    BY <1>2 DEF Bound, EntryType, Entries
  <2> HIDE DEF stage, bind
  <2> QED
    BY <1>2, <2>1, <2>2, <2>3 DEF ManagerRecords, Operations
<1>4. \A m \in Models : ManagerKnows(q, m, rec[m], ids, now)
  <2> SUFFICES ASSUME NEW m \in Models
               PROVE  ManagerKnows(q, m, rec[m], ids, now)
    OBVIOUS
  <2>1. bind[m] = None \/ (rec[m] # None /\ bind[m] = Entry(rec[m]))
    BY DEF Bound
  <2>2. q.stage[m] # "remove" /\ q.bind[m] = bind[m] /\ q.seen[m] = None /\ q.op = "clearOne" /\ q.from = ids
    OBVIOUS
  <2> HIDE DEF q, bind
  <2>3. Known(bind[m], rec[m], ids) /\ ReadBy(bind[m], ids)
    BY <1>2, <2>1 DEF Known, ReadBy, Bindings
  <2> QED
    BY <1>2, <2>2, <2>3 DEF ManagerKnows, Known, ReadBy
<1> HIDE DEF q
<1> QED
  BY <1>1, <1>3, <1>4, ManagerOnly DEF ClearManaged

LEMMA GetIndexedIsSafe ==
    ASSUME AffinityInv, NEW g \in Managers, NEW m \in Models, GetIndexed(g, m)
    PROVE  AffinityInv'
<1> DEFINE k == mgr[g]
           read == IF row[m] = None THEN k.bind[m] ELSE row[m]
           q == [op |-> k.op, stage |-> [k.stage EXCEPT ![m] = "got"],
                 bind |-> [k.bind EXCEPT ![m] = None],
                 seen |-> [k.seen EXCEPT ![m] = read], from |-> ids]
<1>1. k \in ManagerRecords /\ ids \in Nat /\ row[m] \in EntryType
  BY AffinityAssumption DEF AffinityInv, Typed
<1>2. mgr' = [mgr EXCEPT ![g] = q]
  <2> DEFINE l1 == [k EXCEPT !.stage[m] = "got"]
             l2 == [l1 EXCEPT !.bind[m] = None]
             l3 == [l2 EXCEPT !.from = ids]
             l4 == [l3 EXCEPT !.seen[m] = read]
  <2>1. mgr' = [mgr EXCEPT ![g] = l4]
    BY DEF GetIndexed
  <2>2. k = [op |-> k.op, stage |-> k.stage, bind |-> k.bind, seen |-> k.seen, from |-> k.from]
    BY <1>1 DEF ManagerRecords
  <2> HIDE DEF k
  <2>3. l1 = [op |-> k.op, stage |-> [k.stage EXCEPT ![m] = "got"], bind |-> k.bind,
              seen |-> k.seen, from |-> k.from]
    BY <2>2
  <2> HIDE DEF l1
  <2>4. l2 = [op |-> k.op, stage |-> [k.stage EXCEPT ![m] = "got"], bind |-> [k.bind EXCEPT ![m] = None],
              seen |-> k.seen, from |-> k.from]
    BY <2>3
  <2> HIDE DEF l2
  <2>5. l3 = [op |-> k.op, stage |-> [k.stage EXCEPT ![m] = "got"], bind |-> [k.bind EXCEPT ![m] = None],
              seen |-> k.seen, from |-> ids]
    BY <2>4
  <2> HIDE DEF l3, read
  <2>6. l4 = q
    BY <2>5
  <2> HIDE DEF l4, q
  <2> QED
    BY <2>1, <2>6
<1>3. q \in ManagerRecords
  BY <1>1 DEF ManagerRecords, EntryType
<1>4. \A n \in Models : ManagerKnows(k, n, rec[n], ids, now)
  BY DEF AffinityInv, ManagerSafe
<1>5. \A n \in Models : ManagerKnows(q, n, rec[n], ids, now)
  <2> SUFFICES ASSUME NEW n \in Models
               PROVE  ManagerKnows(q, n, rec[n], ids, now)
    OBVIOUS
  <2>1. k.op = "clearOne" /\ q.op = "clearOne" /\ q.from = ids
    BY DEF GetIndexed
  <2>2. ManagerKnows(k, n, rec[n], ids, now) /\ k.seen[n] \in EntryType /\ k.bind[n] \in EntryType
        /\ k.from \in Nat /\ k.from <= ids
    BY <1>1, <1>4, <2>1 DEF ManagerKnows, ManagerRecords
  <2>3. Known(row[n], rec[n], ids) /\ row[n] \in EntryType
    BY DEF AffinityInv, ModelSafe, ModelKnows, Typed
  <2>4. CASE n # m
    <3>1. q.stage[n] = k.stage[n] /\ q.seen[n] = k.seen[n] /\ q.bind[n] = k.bind[n]
      BY <1>1, <2>4 DEF ManagerRecords
    <3> HIDE DEF q, k
    <3>2. ReadBy(k.seen[n], ids) /\ ReadBy(k.bind[n], ids)
      BY <1>1, <2>1, <2>2, AffinityAssumption DEF ManagerKnows, ReadBy, EntryType
    <3> QED
      BY <1>1, <2>1, <2>2, <3>1, <3>2 DEF ManagerKnows
  <2>5. CASE n = m
    <3>1. q.stage[n] = "got" /\ q.seen[n] = read /\ q.bind[n] = None
      BY <1>1, <2>5 DEF ManagerRecords
    <3>2. Known(read, rec[n], ids)
      BY <2>2, <2>3, <2>5 DEF ManagerKnows
    <3> HIDE DEF q, k, read
    <3>3. Known(None, rec[n], ids) /\ ReadBy(None, ids) /\ ReadBy(read, ids)
      BY <3>2 DEF Known, ReadBy
    <3> QED
      BY <1>1, <2>1, <3>1, <3>2, <3>3 DEF ManagerKnows
  <2> QED
    BY <2>4, <2>5
<1> HIDE DEF q
<1> QED
  BY <1>2, <1>3, <1>5, ManagerOnly DEF GetIndexed

\* stage() either ends a request or moves one model on.
StagedAs(q, g, m, next) ==
    \/ q = Rest
    \/ /\ q.op = mgr[g].op /\ q.seen = mgr[g].seen /\ q.bind = mgr[g].bind
       /\ q.from = mgr[g].from /\ q.stage = [mgr[g].stage EXCEPT ![m] = next]

LEMMA Staged ==
    ASSUME Typed, NEW g \in Managers \cup {Alarm}, NEW m \in Models,
           NEW next \in {"done", "remove"}, Stage(g, m, next)
    PROVE  \E q \in ManagerRecords : mgr' = [mgr EXCEPT ![g] = q] /\ StagedAs(q, g, m, next)
<1> DEFINE k == mgr[g]
           l == [k EXCEPT !.stage[m] = next]
           q == IF next = "done" /\ \A n \in Models \ {m} : k.stage[n] = "done" THEN Rest ELSE l
<1>1. mgr' = [mgr EXCEPT ![g] = q]
  BY DEF Stage, Typed
<1>2. k \in ManagerRecords
  BY DEF Typed
<1>3. /\ l.op = k.op /\ l.seen = k.seen /\ l.bind = k.bind /\ l.from = k.from
      /\ l.stage = [k.stage EXCEPT ![m] = next]
  BY <1>2 DEF ManagerRecords
<1>4. l \in ManagerRecords
  BY <1>2 DEF ManagerRecords
<1>5. q \in ManagerRecords /\ (q = Rest \/ q = l)
  BY <1>4, RestKnows
<1> HIDE DEF q, l
<1> QED
  BY <1>1, <1>3, <1>5 DEF StagedAs

LEMMA StagedStays ==
    ASSUME AffinityInv, Advances, NEW g \in Managers \cup {Alarm}, NEW m \in Models,
           NEW next \in {"done", "remove"}, NEW q \in ManagerRecords,
           mgr' = [mgr EXCEPT ![g] = q],
           StagedAs(q, g, m, next),
           mgr[g].op \notin {"none", "alarm"},
           next = "remove" => Gone(mgr[g].seen[m], rec'[m], now')
    PROVE  \A h \in Managers \cup {Alarm} : mgr'[h] # mgr[h] => ManagerSafe(h)'
<1> DEFINE k == mgr[g]
<1>1. k \in ManagerRecords /\ Typed
  BY DEF AffinityInv, Typed
<1>2. \A n \in Models : ManagerKnows(q, n, rec'[n], ids', now')
  <2>1. CASE q = Rest
    <3>1. ids' \in Nat
      BY AffinityAssumption DEF Advances, Typed
    <3> QED
      BY <2>1, <3>1, RestKnows
  <2>2. CASE q # Rest
    <3> SUFFICES ASSUME NEW n \in Models
                 PROVE  ManagerKnows(q, n, rec'[n], ids', now')
      OBVIOUS
    <3>1. ManagerKnows(k, n, rec'[n], ids', now')
      BY RequestStays
    <3>2. q.stage[n] = IF n = m THEN next ELSE k.stage[n]
      BY <1>1, <2>2 DEF ManagerRecords, StagedAs
    <3>3. q.op = k.op /\ q.seen[n] = k.seen[n] /\ q.bind[n] = k.bind[n] /\ q.from = k.from
      BY <2>2 DEF StagedAs
    <3>4. q.stage[n] = "remove" => Gone(k.seen[n], rec'[n], now')
      BY <3>1, <3>2 DEF ManagerKnows
    <3>5. k.op \notin {"none", "alarm"}
      OBVIOUS
    <3> HIDE DEF k
    <3> QED
      BY <3>1, <3>3, <3>4, <3>5 DEF ManagerKnows
  <2> QED
    BY <2>1, <2>2
<1> QED
  BY <1>1, <1>2, OneManager

LEMMA ListStatusIsSafe ==
    ASSUME AffinityInv, NEW g \in Managers, NEW m \in Models, ListStatus(g, m)
    PROVE  AffinityInv'
<1>1. now <= now /\ Typed
  BY Numbers DEF AffinityInv
<1>2. PICK next \in {"done", "remove"} :
        Stage(g, m, next) /\ (next = "remove" => Gone(mgr[g].seen[m], rec[m], now))
  <2>1. CASE Active(rec[m]) /\ Entry(rec[m]) = mgr[g].seen[m]
    BY <2>1 DEF ListStatus
  <2>2. CASE ~(Active(rec[m]) /\ Entry(rec[m]) = mgr[g].seen[m])
    BY <2>2 DEF ListStatus, Gone, Active
  <2> QED
    BY <2>1, <2>2
<1>3. PICK q \in ManagerRecords : mgr' = [mgr EXCEPT ![g] = q] /\ StagedAs(q, g, m, next)
  <2>1. g \in Managers \cup {Alarm}
    OBVIOUS
  <2>2. Stage(g, m, next)
    BY <1>2
  <2>3. Typed
    BY <1>1
  <2>4. next \in {"done", "remove"}
    OBVIOUS
  <2> QED
    BY ONLY <2>1, <2>2, <2>3, <2>4, Staged
<1>4. Typed'
  BY <1>1, <1>3 DEF Typed, ListStatus
<1>5. Advances /\ \A n \in Models : ModelSafe(n)'
  BY <1>1, <1>4, Quiet DEF ListStatus
<1>6. \A h \in Managers \cup {Alarm} : mgr'[h] # mgr[h] => ManagerSafe(h)'
  BY <1>2, <1>3, <1>5, StagedStays DEF ListStatus
<1>7. AlarmSafe'
  <2>1. mgr'[Alarm] = mgr[Alarm]
    BY <1>1, <1>3, AffinityAssumption DEF Typed
  <2> QED
    BY <1>1, <1>4, <2>1, AlarmUnmoved DEF ListStatus
<1> QED
  BY <1>5, <1>6, <1>7, Closes DEF ListStatus

LEMMA RemoveRowIsSafe ==
    ASSUME AffinityInv, NEW g \in Managers \cup {Alarm}, NEW m \in Models, RemoveRow(g, m)
    PROVE  AffinityInv'
<1>1. now <= now /\ Typed
  BY Numbers DEF AffinityInv
<1>2. ManagerKnows(mgr[g], m, rec[m], ids, now) /\ mgr[g].stage[m] = "remove"
  BY DEF AffinityInv, ManagerSafe, RemoveRow
<1>3. mgr[g].op \notin {"none", "alarm"} /\ Gone(mgr[g].seen[m], rec[m], now)
  BY <1>2 DEF ManagerKnows
<1>4. mgr[g].seen[m] \in EntryType
  BY <1>1 DEF Typed, ManagerRecords
<1>5. PICK q \in ManagerRecords : mgr' = [mgr EXCEPT ![g] = q] /\ StagedAs(q, g, m, "done")
  BY <1>1, Staged DEF RemoveRow
<1>6. row' = row \/ row' = [row EXCEPT ![m] = Removed(mgr[g].seen[m], @)]
  BY DEF RemoveRow
<1>7. Typed'
  <2>1. row' \in [Models -> EntryType]
    BY <1>1, <1>6, RemovedIsEntry DEF Typed
  <2>2. mgr' \in [Managers \cup {Alarm} -> ManagerRecords]
    BY <1>1, <1>5 DEF Typed
  <2> QED
    BY <1>1, <2>1, <2>2 DEF Typed, RemoveRow
<1>8. Advances /\ \A n \in Models : ModelSafe(n)'
  <2>1. CASE row' = row
    BY <1>1, <1>7, <2>1, Quiet DEF RemoveRow
  <2>2. CASE row' = [row EXCEPT ![m] = Removed(mgr[g].seen[m], @)]
    BY <1>3, <1>4, <1>7, <2>2, Removes DEF RemoveRow
  <2> QED
    BY <1>6, <2>1, <2>2
<1>9. \A h \in Managers \cup {Alarm} : mgr'[h] # mgr[h] => ManagerSafe(h)'
  BY <1>3, <1>5, <1>8, StagedStays
<1>10. AlarmSafe'
  <2>1. mgr[Alarm].op = "alarm" => mgr'[Alarm].op = "alarm"
    BY <1>1, <1>3, <1>5 DEF Typed, StagedAs, Rest
  <2> QED
    BY <1>1, <1>7, <2>1, AlarmUnmoved DEF RemoveRow
<1> QED
  BY <1>8, <1>9, <1>10, Closes DEF RemoveRow

LEMMA FireIsSafe ==
    ASSUME AffinityInv, Fire
    PROVE  AffinityInv'
<1> DEFINE k == mgr[Alarm]
           q == [k EXCEPT !.op = "alarm"]
<1>1. now <= now /\ Typed /\ k \in ManagerRecords
  BY Numbers DEF AffinityInv, Typed
<1>2. q \in ManagerRecords /\ q.op = "alarm" /\ q.stage = k.stage /\ q.seen = k.seen
      /\ q.bind = k.bind /\ q.from = k.from
  BY <1>1 DEF ManagerRecords, Operations
<1>3. mgr' = [mgr EXCEPT ![Alarm] = q]
  BY DEF Fire
<1> HIDE DEF q
<1>4. \A m \in Models : ManagerKnows(q, m, rec[m], ids, now)
  <2> SUFFICES ASSUME NEW m \in Models
               PROVE  ManagerKnows(q, m, rec[m], ids, now)
    OBVIOUS
  <2>1. ManagerKnows(k, m, rec[m], ids, now) /\ k.op = "none"
    BY DEF AffinityInv, ManagerSafe, Fire
  <2> QED
    BY <1>2, <2>1 DEF ManagerKnows
<1>5. /\ mgr' \in [Managers \cup {Alarm} -> ManagerRecords]
      /\ \A h \in Managers \cup {Alarm} : mgr'[h] # mgr[h] => ManagerSafe(h)'
  BY <1>1, <1>2, <1>3, <1>4, OneManager DEF Fire
<1>6. Typed'
  BY <1>1, <1>5 DEF Typed, Fire
<1>7. Advances /\ \A m \in Models : ModelSafe(m)'
  BY <1>1, <1>6, Quiet DEF Fire
<1>8. AlarmSafe'
  <2>1. alarm' = None /\ mgr'[Alarm].op = "alarm"
    BY <1>1, <1>2, <1>3 DEF Fire, Typed
  <2> QED
    BY <2>1 DEF AlarmSafe, AlarmKnows
<1> QED
  BY <1>5, <1>7, <1>8, Closes DEF Fire

LEMMA DieIsSafe ==
    ASSUME AffinityInv, NEW g \in Managers \cup {Alarm}, Die(g)
    PROVE  AffinityInv'
<1>1. now <= now /\ Typed /\ now \in 0..MaxTime + TTL
  BY Numbers, AffinityAssumption DEF AffinityInv, Typed
<1>2. /\ mgr' \in [Managers \cup {Alarm} -> ManagerRecords]
      /\ \A h \in Managers \cup {Alarm} : mgr'[h] # mgr[h] => ManagerSafe(h)'
  <2>1. ids' \in Nat
    BY AffinityAssumption DEF AffinityInv, Typed, Die
  <2> QED
    BY <1>1, <2>1, RestKnows, OneManager DEF Die
<1>3. Typed'
  BY <1>1, <1>2 DEF Typed, Die
<1>4. Advances /\ \A m \in Models : ModelSafe(m)'
  BY <1>1, <1>3, Quiet DEF Die
<1>5. AlarmSafe'
  <2> SUFFICES ASSUME NEW m \in Models
               PROVE  AlarmKnows(alarm', mgr'[Alarm].op = "alarm", rec[m], now)
    BY DEF AlarmSafe, Die
  <2>1. AlarmKnows(alarm, mgr[Alarm].op = "alarm", rec[m], now)
    BY DEF AffinityInv, AlarmSafe
  <2>2. CASE g = Alarm /\ alarm = None
    <3>1. alarm' = now /\ now # None
      BY <1>1, <2>2, AffinityAssumption DEF Die
    <3>2. rec[m] # None => now <= Max({Deadline(rec[m]), now})
      <4> DEFINE d == Deadline(rec[m])
      <4>1. rec[m] # None => d \in Int
        BY <1>1, EntryOf DEF Typed
      <4>2. now \in Int
        BY <1>1
      <4> HIDE DEF d
      <4>3. rec[m] # None => now <= Max({d, now})
        BY <4>1, <4>2, MaxOfTwo
      <4> QED
        BY <4>3 DEF d
    <3> QED
      BY <3>1, <3>2 DEF AlarmKnows
  <2>3. CASE ~(g = Alarm /\ alarm = None)
    <3>1. alarm' = alarm
      BY <2>3 DEF Die
    <3>2. alarm = None => mgr'[Alarm] = mgr[Alarm]
      BY <1>1, <2>3 DEF Die, Typed
    <3> QED
      BY <2>1, <3>1, <3>2 DEF AlarmKnows
  <2> QED
    BY <2>2, <2>3
<1> QED
  BY <1>2, <1>4, <1>5, Closes DEF Die

LEMMA BindingIsSomething == None \notin Bindings
BY NoneAssumption, AffinityAssumption DEF Bindings

\* No binding is deleted.
Keeps == \A m \in Models : rec[m] # None => rec'[m] # None

\* A step that changes bindings only.
LEMMA Rewrites ==
    ASSUME AffinityInv, Typed', UNCHANGED <<row, now, overrun>>, ids <= ids',
           \A m \in Models :
              /\ Evolves(rec[m], rec'[m], ids, now, now)
              /\ rec'[m] # None => rec'[m].id <= ids'
              /\ rec'[m] # None /\ rec'[m].indexed =>
                    /\ rec[m] # None /\ Entry(rec[m]) = Entry(rec'[m])
                    /\ Listed(row[m], rec[m], now, overrun)
    PROVE  Advances /\ \A m \in Models : ModelSafe(m)'
<1>1. ids \in Nat /\ \A m \in Models :
         /\ rec[m] \in Bindings \cup {None} /\ rec'[m] \in Bindings \cup {None}
         /\ ModelKnows(rec[m], row[m], ids, now, overrun)
  BY AffinityAssumption DEF AffinityInv, Typed, ModelSafe
<1>2. \A m \in Models : Stays(rec[m], rec'[m], row[m], row[m], now, now, overrun, overrun)
  BY <1>1, UntouchedStays DEF ModelKnows
<1>3. Advances
  BY <1>2 DEF Advances
<1> QED
  BY <1>1, <1>3, ModelStays DEF ModelKnows

\* A step of one task, on its own record.
LEMMA OneTask ==
    ASSUME Typed, NEW i \in Tasks, NEW q \in TaskRecords, task' = [task EXCEPT ![i] = q],
           TaskKnows(q, rec'[q.m], row'[q.m], ids', now', overrun')
    PROVE  /\ task' \in [Tasks -> TaskRecords \cup {NoTask}]
           /\ \A j \in Tasks : task'[j] # task[j] => TaskSafe(j)'
BY DEF Typed, TaskSafe

LEMMA DropIsSafe ==
    ASSUME AffinityInv, NEW i \in Tasks, task[i].pc # "idle",
           Gone(task[i].cand, rec[task[i].m], now),
           task' = [task EXCEPT ![i].pc = "drop", ![i].seen = None],
           UNCHANGED <<rec, row, alarm, mgr, ids, now, overrun>>
    PROVE  AffinityInv'
<1> DEFINE k == task[i]
           l == [k EXCEPT !.pc = "drop"]
           q == [l EXCEPT !.seen = None]
<1>1. now <= now /\ Typed
  BY Numbers DEF AffinityInv
<1>2. k \in TaskRecords /\ k.m \in Models /\ TaskKnows(k, rec[k.m], row[k.m], ids, now, overrun)
  BY TaskAt
<1>3. task' = [task EXCEPT ![i] = q]
  OBVIOUS
<1>4. q \in TaskRecords
  BY <1>2 DEF TaskRecords, EntryType
<1>5. q.pc = "drop" /\ q.m = k.m /\ q.cand = k.cand /\ q.obsolete = k.obsolete
  BY <1>2 DEF TaskRecords
<1>6. Gone(k.cand, rec[k.m], now)
  OBVIOUS
<1> HIDE DEF q, l, k
<1>7. TaskKnows(q, rec[q.m], row[q.m], ids, now, overrun)
  BY <1>2, <1>5, <1>6 DEF TaskKnows
<1>8. /\ task' \in [Tasks -> TaskRecords \cup {NoTask}]
      /\ \A j \in Tasks : task'[j] # task[j] => TaskSafe(j)'
  BY <1>1, <1>3, <1>4, <1>7, OneTask
<1>9. Typed'
  BY <1>1, <1>8 DEF Typed
<1>10. Advances /\ \A m \in Models : ModelSafe(m)'
  BY <1>1, <1>9, Quiet
<1>11. AlarmSafe'
  BY <1>1, <1>9, AlarmUnmoved
<1> QED
  BY <1>8, <1>10, <1>11, Closes

\* A binding of which only its mark or generation changes.
LEMMA Marked ==
    ASSUME Typed, NEW m \in Models, rec[m] # None, NEW gen \in 1..MaxGeneration,
           NEW indexed \in BOOLEAN, rec' = [rec EXCEPT ![m].gen = gen, ![m].indexed = indexed]
    PROVE  /\ rec' \in [Models -> Bindings \cup {None}] /\ rec'[m] \in Bindings
           /\ rec'[m].id = rec[m].id /\ rec'[m].gen = gen /\ rec'[m].indexed = indexed
           /\ Deadline(rec'[m]) = Deadline(rec[m])
           /\ \A n \in Models : n # m => rec'[n] = rec[n]
<1> DEFINE r == rec[m]
           l == [r EXCEPT !.gen = gen]
           s == [l EXCEPT !.indexed = indexed]
<1>1. r \in Bindings
  BY DEF Typed
<1>2. s \in Bindings /\ s.id = r.id /\ s.gen = gen /\ s.indexed = indexed /\ s.updated = r.updated
  BY <1>1 DEF Bindings
<1>3. rec' = [rec EXCEPT ![m] = s]
  OBVIOUS
<1> HIDE DEF s, l
<1> QED
  BY <1>1, <1>2, <1>3 DEF Typed, Deadline

LEMMA ConfirmIsSafe ==
    ASSUME AffinityInv, NEW i \in Tasks, Confirm(i)
    PROVE  AffinityInv' /\ Keeps
<1> DEFINE k == task[i]
           m == task[i].m
<1>1. now <= now /\ Typed /\ ids \in Nat /\ now \in Nat /\ ids <= ids
  BY Numbers DEF AffinityInv
<1>2. k \in TaskRecords /\ m \in Models /\ TaskKnows(k, rec[m], row[m], ids, now, overrun)
      /\ k.pc = "settle" /\ k.seen = k.cand
  BY TaskAt DEF Confirm
<1>3. CASE ~(rec[m] # None /\ Entry(rec[m]) = k.cand)
  <2>1. Gone(k.cand, rec[m], now)
    BY <1>3 DEF Gone
  <2> QED
    BY <1>2, <1>3, <2>1, DropIsSafe DEF Confirm, Keeps
<1>4. CASE rec[m] # None /\ Entry(rec[m]) = k.cand
  <2>1. rec' = [rec EXCEPT ![m].indexed = TRUE] /\ Idle(i) /\ UNCHANGED <<row, alarm, mgr, ids, now, overrun>>
    BY <1>4 DEF Confirm
  <2> HIDE DEF k, m
  <2> DEFINE r == rec[m]
             s == [r EXCEPT !.indexed = TRUE]
  <2>2. r \in Bindings
    BY <1>1, <1>2, <1>4 DEF Typed
  <2>3. s \in Bindings /\ s.id = r.id /\ s.gen = r.gen /\ s.updated = r.updated
    BY <2>2 DEF Bindings
  <2>4. rec' = [rec EXCEPT ![m] = s]
    BY <2>1
  <2> HIDE DEF s
  <2>5. /\ rec' \in [Models -> Bindings \cup {None}] /\ rec'[m] = s
        /\ \A n \in Models : n # m => rec'[n] = rec[n]
    BY <1>1, <1>2, <2>3, <2>4 DEF Typed
  <2>6. Entry(s) = Entry(r) /\ Deadline(s) = Deadline(r)
    BY <2>3 DEF Entry, Deadline
  <2>7. Typed' /\ \A j \in Tasks : task'[j] # task[j] => TaskSafe(j)'
    BY <1>1, <2>1, <2>5, IdleSafe DEF Typed
  <2>8. Listed(row[m], r, now, overrun)
    BY <1>2, <1>4 DEF TaskKnows
  <2>9. \A n \in Models :
           /\ Evolves(rec[n], rec'[n], ids, now, now)
           /\ rec'[n] # None => rec'[n].id <= ids
           /\ rec'[n] # None /\ rec'[n].indexed =>
                 /\ rec[n] # None /\ Entry(rec[n]) = Entry(rec'[n])
                 /\ Listed(row[n], rec[n], now, overrun)
    <3> SUFFICES ASSUME NEW n \in Models
                 PROVE  /\ Evolves(rec[n], rec'[n], ids, now, now)
                        /\ rec'[n] # None => rec'[n].id <= ids
                        /\ rec'[n] # None /\ rec'[n].indexed =>
                              /\ rec[n] # None /\ Entry(rec[n]) = Entry(rec'[n])
                              /\ Listed(row[n], rec[n], now, overrun)
      OBVIOUS
    <3>1. ModelKnows(rec[n], row[n], ids, now, overrun)
      BY DEF AffinityInv, ModelSafe
    <3>2. CASE n # m
      <4>1. Evolves(rec[n], rec[n], ids, now, now)
        BY <1>1, SameEvolves DEF Typed
      <4> QED
        BY <2>5, <3>1, <3>2, <4>1 DEF ModelKnows
    <3>3. CASE n = m
      <4>1. r.gen <= s.gen /\ r.id <= ids
        BY <2>2, <2>3, <3>1, <3>3, <1>4 DEF Bindings, ModelKnows
      <4>2. Evolves(r, s, ids, now, now)
        BY <1>4, <2>3, <2>6, <4>1 DEF Evolves
      <4> QED
        BY <1>4, <2>3, <2>5, <2>6, <2>8, <3>3, <4>1, <4>2
    <3> QED
      BY <3>2, <3>3
  <2>10. Advances /\ \A n \in Models : ModelSafe(n)'
    BY <1>1, <2>1, <2>7, <2>9, Rewrites
  <2>11. AlarmSafe'
    BY <1>1, <1>4, <2>1, <2>5, <2>6, <2>7, AlarmUnmoved
  <2>12. Keeps
    BY <2>3, <2>5, BindingIsSomething DEF Keeps
  <2> QED
    BY <2>1, <2>7, <2>10, <2>11, <2>12, Closes
<1> QED
  BY <1>3, <1>4

\* No binding, nor row, has come to the last generation there is.
GenerationsLast ==
    \A m \in Models : \A e \in {rec[m], row[m]} : e # None => ~Exhausted(e.gen)

LEMMA OvertakeIsSafe ==
    ASSUME AffinityInv, GenerationsLast, NEW i \in Tasks, Overtake(i)
    PROVE  AffinityInv' /\ Keeps
<1> DEFINE k == task[i]
           m == task[i].m
           gen == Max({rec[m].gen, task[i].seen.gen})
<1>1. now <= now /\ Typed /\ ids \in Nat /\ now \in Nat /\ ids <= ids
  BY Numbers DEF AffinityInv
<1>2. k \in TaskRecords /\ m \in Models /\ TaskKnows(k, rec[m], row[m], ids, now, overrun)
      /\ k.pc = "settle" /\ k.seen # None /\ ~Exhausted(k.seen.gen)
  BY TaskAt DEF Overtake, TaskKnows
<1>3. CASE rec[m] = None \/ rec[m].id # k.cand.id
  <2>1. Gone(k.cand, rec[m], now)
    BY <1>3 DEF Gone, Entry
  <2> QED
    BY <1>2, <1>3, <2>1, DropIsSafe DEF Overtake, Keeps
<1>4. CASE rec[m] # None /\ rec[m].id = k.cand.id
  <2>1. rec[m] \in Bindings
    BY <1>1, <1>2, <1>4 DEF Typed
  <2>2. rec[m].gen \in 1..MaxGeneration /\ k.seen.gen \in 1..MaxGeneration
        /\ rec[m].id \in 1..MaxBindings
    BY <1>2, <2>1 DEF Bindings, TaskRecords, EntryType
  <2>3. rec[m].gen < MaxGeneration /\ k.seen.gen < MaxGeneration
    <3>1. ~Exhausted(rec[m].gen)
      BY <1>2, <1>4 DEF GenerationsLast
    <3> QED
      BY <1>2, <2>2, <3>1, AffinityAssumption DEF Exhausted
  <2>4. gen \in Nat /\ rec[m].gen <= gen /\ gen < MaxGeneration
    <3> DEFINE a == rec[m].gen
               b == k.seen.gen
    <3>1. a \in Int /\ b \in Int /\ a \in Nat /\ b \in Nat /\ a < MaxGeneration /\ b < MaxGeneration
      BY <2>2, <2>3, AffinityAssumption
    <3> HIDE DEF a, b
    <3>2. Max({a, b}) = IF a < b THEN b ELSE a
      BY <3>1, MaxOfTwo
    <3>3. Max({a, b}) \in Nat /\ a <= Max({a, b}) /\ Max({a, b}) < MaxGeneration
      BY <3>1, <3>2, AffinityAssumption
    <3> QED
      BY <3>3 DEF a, b
  <2>5. ~(rec[m] = None \/ rec[m].id # k.cand.id \/ Exhausted(gen))
    BY <1>4, <2>4, AffinityAssumption DEF Exhausted
  <2>6. /\ rec' = [rec EXCEPT ![m].gen = gen + 1, ![m].indexed = FALSE]
        /\ IF k.tries + 1 = Attempts THEN Idle(i)
           ELSE task' = [task EXCEPT ![i].pc = "register", ![i].tries = @ + 1, ![i].seen = None,
                                     ![i].cand = [id |-> rec[m].id, gen |-> gen + 1]]
        /\ UNCHANGED <<row, alarm, mgr, ids, now, overrun>>
    BY <2>5 DEF Overtake
  <2> DEFINE next == gen + 1
  <2>7. next \in 1..MaxGeneration /\ rec[m].gen <= next
    BY <2>2, <2>4, AffinityAssumption
  <2>8. /\ rec' \in [Models -> Bindings \cup {None}] /\ rec'[m] \in Bindings
        /\ rec'[m].id = rec[m].id /\ rec'[m].gen = next /\ rec'[m].indexed = FALSE
        /\ Deadline(rec'[m]) = Deadline(rec[m])
        /\ \A n \in Models : n # m => rec'[n] = rec[n]
    BY <1>1, <1>2, <1>4, <2>6, <2>7, Marked
  <2> HIDE DEF gen, next
  <2>9. rec[m].id <= ids
    BY <1>2, <1>4 DEF AffinityInv, ModelSafe, ModelKnows
  <2>10. \A n \in Models :
           /\ Evolves(rec[n], rec'[n], ids, now, now)
           /\ rec'[n] # None => rec'[n].id <= ids
           /\ rec'[n] # None /\ rec'[n].indexed =>
                 /\ rec[n] # None /\ Entry(rec[n]) = Entry(rec'[n])
                 /\ Listed(row[n], rec[n], now, overrun)
    <3> SUFFICES ASSUME NEW n \in Models
                 PROVE  /\ Evolves(rec[n], rec'[n], ids, now, now)
                        /\ rec'[n] # None => rec'[n].id <= ids
                        /\ rec'[n] # None /\ rec'[n].indexed =>
                              /\ rec[n] # None /\ Entry(rec[n]) = Entry(rec'[n])
                              /\ Listed(row[n], rec[n], now, overrun)
      OBVIOUS
    <3>1. CASE n # m
      <4>1. Evolves(rec[n], rec[n], ids, now, now)
        BY <1>1, SameEvolves DEF Typed
      <4>2. ModelKnows(rec[n], row[n], ids, now, overrun)
        BY DEF AffinityInv, ModelSafe
      <4> QED
        BY <2>8, <3>1, <4>1, <4>2 DEF ModelKnows
    <3>2. CASE n = m
      BY <1>4, <2>7, <2>8, <2>9, <3>2 DEF Evolves
    <3> QED
      BY <3>1, <3>2
  <2>11. ASSUME k.tries + 1 = Attempts
         PROVE  AffinityInv'
    <3>1. Idle(i)
      BY <2>6, <2>11
    <3>2. Typed' /\ \A j \in Tasks : task'[j] # task[j] => TaskSafe(j)'
      BY <1>1, <2>6, <2>8, <3>1, IdleSafe DEF Typed
    <3>3. Advances /\ \A n \in Models : ModelSafe(n)'
      BY <1>1, <2>6, <2>10, <3>2, Rewrites
    <3>4. AlarmSafe'
      BY <1>1, <1>4, <2>6, <2>8, <3>2, AlarmUnmoved
    <3> QED
      BY <2>6, <3>2, <3>3, <3>4, Closes
  <2>12. ASSUME k.tries + 1 # Attempts
         PROVE  AffinityInv'
    <3> DEFINE cand == [id |-> rec[m].id, gen |-> next]
               l1 == [k EXCEPT !.pc = "register"]
               l2 == [l1 EXCEPT !.tries = @ + 1]
               l3 == [l2 EXCEPT !.seen = None]
               q == [l3 EXCEPT !.cand = cand]
    <3>1. task' = [task EXCEPT ![i] = q]
      <4>1. task' = [task EXCEPT ![i].pc = "register", ![i].tries = @ + 1, ![i].seen = None,
                                 ![i].cand = cand]
        BY <2>6, <2>12 DEF next
      <4> HIDE DEF cand
      <4> QED
        BY <4>1
    <3>2. cand \in Entries /\ cand.id = rec[m].id /\ cand.gen = next
      BY <2>2, <2>7 DEF Entries
    <3>3. k.tries + 1 \in 0..3
      BY <1>2, <2>12 DEF TaskRecords, Attempts
    <3> HIDE DEF cand
    <3>4. l1 \in TaskRecords /\ l1.pc = "register" /\ l1.m = m /\ l1.obsolete = k.obsolete
          /\ l1.tries = k.tries
      BY <1>2 DEF TaskRecords
    <3> HIDE DEF l1
    <3>5. l2 \in TaskRecords /\ l2.pc = "register" /\ l2.m = m /\ l2.obsolete = k.obsolete
      BY <3>3, <3>4 DEF TaskRecords
    <3> HIDE DEF l2
    <3>6. l3 \in TaskRecords /\ l3.pc = "register" /\ l3.m = m /\ l3.obsolete = k.obsolete
      BY <3>5 DEF TaskRecords, EntryType
    <3> HIDE DEF l3
    <3>7. q \in TaskRecords /\ q.pc = "register" /\ q.m = m /\ q.obsolete = k.obsolete /\ q.cand = cand
      BY <3>2, <3>6 DEF TaskRecords
    <3> HIDE DEF q
    <3>8. Known(k.obsolete, rec'[m], ids)
      <4>1. k.obsolete \in EntryType /\ Known(k.obsolete, rec[m], ids)
        BY <1>2 DEF TaskRecords, TaskKnows
      <4> QED
        <5>1. rec[m] \in Bindings \cup {None} /\ rec'[m] \in Bindings \cup {None}
              /\ Evolves(rec[m], rec'[m], ids, now, now)
          BY <1>1, <1>2, <2>8, <2>10 DEF Typed
        <5> QED
          BY <1>1, <4>1, <5>1, KnownStays
    <3>9. Known(cand, rec'[m], ids)
      BY <2>7, <2>8, <2>9, <3>2 DEF Known
    <3>10. TaskKnows(q, rec'[q.m], row'[q.m], ids', now', overrun')
      BY <2>6, <3>7, <3>8, <3>9 DEF TaskKnows
    <3>11. /\ task' \in [Tasks -> TaskRecords \cup {NoTask}]
           /\ \A j \in Tasks : task'[j] # task[j] => TaskSafe(j)'
      BY <1>1, <3>1, <3>7, <3>10, OneTask
    <3>12. Typed'
      BY <1>1, <2>6, <2>8, <3>11 DEF Typed
    <3>13. Advances /\ \A n \in Models : ModelSafe(n)'
      BY <1>1, <2>6, <2>10, <3>12, Rewrites
    <3>14. AlarmSafe'
      BY <1>1, <1>4, <2>6, <2>8, <3>12, AlarmUnmoved
    <3> QED
      BY <2>6, <3>11, <3>13, <3>14, Closes
  <2>13. Keeps
    BY <2>8, BindingIsSomething DEF Keeps
  <2> QED
    BY <2>11, <2>12, <2>13
<1> QED
  BY <1>3, <1>4

LEMMA RegisterIsSafe ==
    ASSUME AffinityInv, GenerationsLast', NEW i \in Tasks, Register(i)
    PROVE  AffinityInv'
<1> DEFINE k == task[i]
           m == task[i].m
           new == Registered(task[i].cand, row[m])
           l == [k EXCEPT !.pc = "settle"]
           q == [l EXCEPT !.seen = new]
<1>1. now <= now /\ Typed /\ ids \in Nat /\ now \in Nat /\ ids <= ids
  BY Numbers DEF AffinityInv
<1>2. k \in TaskRecords /\ m \in Models /\ TaskKnows(k, rec[m], row[m], ids, now, overrun)
  BY TaskAt DEF Register
<1>3. k.cand \in Entries /\ k.cand \in EntryType /\ k.cand # None /\ row[m] \in EntryType
  BY <1>1, <1>2, NoneIsNoEntry DEF TaskRecords, Entries, EntryType, Typed
<1>4. /\ new \in {k.cand, row[m]} /\ new \in EntryType /\ new # None
      /\ new # row[m] /\ row[m] # None => k.cand.gen > row[m].gen /\ new = k.cand
  BY <1>3 DEF Registered
<1>5. /\ row' \in [Models -> EntryType] /\ row'[m] = new
      /\ \A n \in Models : n # m => row'[n] = row[n]
  BY <1>1, <1>2, <1>4 DEF Register, Typed
<1>6. task' = [task EXCEPT ![i] = q]
  BY <1>5 DEF Register
<1>7. q \in TaskRecords /\ q.pc = "settle" /\ q.m = m /\ q.cand = k.cand /\ q.obsolete = k.obsolete
      /\ q.seen = new
  BY <1>2, <1>4 DEF TaskRecords
<1>8. UNCHANGED <<rec, alarm, mgr, ids, now>>
  BY DEF Register
<1>9. overrun \subseteq overrun'
  BY DEF Register
<1>10. ASSUME rec[m] # None, row[m] # None, new # row[m], row[m].id = rec[m].id, new.id # rec[m].id
       PROVE  rec[m].id \in overrun'
  BY <1>2, <1>5, <1>10 DEF Register, Bound
<1> HIDE DEF new, q, l, k, m
<1>11. ~Exhausted(new.gen)
  BY <1>2, <1>4, <1>5 DEF GenerationsLast
<1>12. TaskKnows(q, rec'[q.m], row'[q.m], ids', now', overrun')
  <2>1. new = k.cand /\ rec[m] # None /\ Entry(rec[m]) = k.cand => Listed(new, rec[m], now, overrun')
    BY DEF Listed
  <2>2. Known(k.cand, rec[m], ids) /\ Known(k.obsolete, rec[m], ids)
    BY <1>2 DEF TaskKnows
  <2> QED
    BY <1>4, <1>5, <1>7, <1>8, <1>11, <2>1, <2>2 DEF TaskKnows
<1>13. /\ task' \in [Tasks -> TaskRecords \cup {NoTask}]
       /\ \A j \in Tasks : task'[j] # task[j] => TaskSafe(j)'
  BY <1>1, <1>6, <1>7, <1>12, OneTask
<1>14. Typed'
  BY <1>1, <1>5, <1>8, <1>13 DEF Typed
<1>15. \A n \in Models : Stays(rec[n], rec[n], row[n], row'[n], now, now, overrun, overrun')
  <2> SUFFICES ASSUME NEW n \in Models, rec[n] # None, Listed(row[n], rec[n], now, overrun),
                      Deadline(rec[n]) > now, rec[n].id \notin overrun'
               PROVE  row'[n] = Entry(rec[n])
    BY DEF Stays, Listed
  <2>1. row[n] = Entry(rec[n])
    BY <1>9 DEF Listed
  <2>2. rec[n] \in Bindings
    BY <1>1 DEF Typed
  <2>3. CASE n # m \/ new = row[m]
    BY <1>5, <2>1, <2>3
  <2>4. CASE n = m /\ new # row[m]
    <3>1. row[m] # None /\ row[m].id = rec[m].id /\ row[m].gen = rec[m].gen
          /\ rec[m].gen \in Nat
      BY <2>1, <2>2, <2>4, EntryOf, NoneIsNoEntry, AffinityAssumption DEF Bindings
    <3>2. new = k.cand /\ k.cand.gen > rec[m].gen
      BY <1>4, <2>4, <3>1
    <3>3. k.cand.gen \in Nat
      BY <1>3, AffinityAssumption DEF Entries
    <3>4. new.id # rec[m].id
      BY <1>2, <1>3, <2>4, <3>1, <3>2, <3>3 DEF TaskKnows, Known
    <3> QED
      BY <1>10, <2>4, <3>1, <3>4
  <2> QED
    BY <2>3, <2>4
<1>16. Advances
  <2>1. \A n \in Models : Evolves(rec[n], rec[n], ids, now, now)
    BY <1>1, SameEvolves DEF Typed
  <2> QED
    BY <1>1, <1>8, <1>14, <1>15, <2>1 DEF Advances
<1>17. \A n \in Models : ModelSafe(n)'
  <2> SUFFICES ASSUME NEW n \in Models
               PROVE  ModelSafe(n)'
    OBVIOUS
  <2>1. ModelKnows(rec[n], row[n], ids, now, overrun)
    BY DEF AffinityInv, ModelSafe
  <2>2. Known(row'[n], rec[n], ids)
    BY <1>2, <1>4, <1>5, <2>1 DEF ModelKnows, TaskKnows
  <2> QED
    BY <1>8, <1>16, <2>1, <2>2, ModelStays DEF ModelKnows
<1>18. AlarmSafe'
  BY <1>1, <1>8, <1>14, AlarmUnmoved
<1> QED
  BY <1>8, <1>13, <1>16, <1>17, <1>18, Closes

-----------------------------------------------------------------------------
(* The steps that clear.                                                     *)

LEMMA ClearedIs ==
    ASSUME NEW r \in Bindings \cup {None}, NEW e
    PROVE  LET s == Cleared(r, e) IN
           /\ s \in Bindings \cup {None}
           /\ s # None => /\ r # None /\ Entry(r) # e /\ Entry(s) = Entry(r) /\ s.id = r.id
                          /\ s.gen = r.gen /\ Deadline(s) = Deadline(r) /\ s.indexed = FALSE
<1> DEFINE s == Cleared(r, e)
           u == [r EXCEPT !.indexed = FALSE]
<1>1. CASE r = None \/ Entry(r) = e
  BY <1>1 DEF Cleared
<1>2. CASE ~(r = None \/ Entry(r) = e)
  <2>1. s = u /\ r \in Bindings
    BY <1>2 DEF Cleared
  <2>2. u \in Bindings /\ u.id = r.id /\ u.gen = r.gen /\ u.updated = r.updated /\ u.indexed = FALSE
    BY <2>1 DEF Bindings
  <2> HIDE DEF u, s
  <2>3. Entry(u) = Entry(r) /\ Deadline(u) = Deadline(r)
    BY <2>2 DEF Entry, Deadline
  <2> QED
    BY <1>2, <2>1, <2>2, <2>3 DEF s
<1> QED
  BY <1>1, <1>2

\* A step that only deletes bindings, or takes their mark.
LEMMA Clears ==
    ASSUME AffinityInv, Typed', UNCHANGED <<row, ids, now, overrun>>,
           \A m \in Models : rec'[m] # None =>
              \/ rec'[m] = rec[m]
              \/ /\ rec[m] # None /\ rec'[m].id = rec[m].id /\ rec'[m].gen = rec[m].gen
                 /\ Deadline(rec'[m]) = Deadline(rec[m]) /\ rec'[m].indexed = FALSE
    PROVE  Advances /\ \A m \in Models : ModelSafe(m)'
<1>1. ids \in Nat /\ now \in Nat /\ ids <= ids /\ Typed
  BY Numbers DEF AffinityInv
<1>2. \A m \in Models :
         /\ Evolves(rec[m], rec'[m], ids, now, now)
         /\ rec'[m] # None => rec'[m].id <= ids
         /\ rec'[m] # None /\ rec'[m].indexed =>
               /\ rec[m] # None /\ Entry(rec[m]) = Entry(rec'[m])
               /\ Listed(row[m], rec[m], now, overrun)
  <2> SUFFICES ASSUME NEW m \in Models, rec'[m] # None
               PROVE  /\ Evolves(rec[m], rec'[m], ids, now, now)
                      /\ rec'[m].id <= ids
                      /\ rec'[m].indexed =>
                            /\ rec[m] # None /\ Entry(rec[m]) = Entry(rec'[m])
                            /\ Listed(row[m], rec[m], now, overrun)
    BY DEF Evolves
  <2>1. ModelKnows(rec[m], row[m], ids, now, overrun)
    BY DEF AffinityInv, ModelSafe
  <2>2. CASE rec'[m] = rec[m]
    <3>1. Evolves(rec[m], rec[m], ids, now, now)
      BY <1>1, SameEvolves DEF Typed
    <3> QED
      BY <2>1, <2>2, <3>1 DEF ModelKnows
  <2>3. CASE rec'[m] # rec[m]
    <3>1. rec[m] \in Bindings
      BY <1>1, <2>3 DEF Typed
    <3>2. rec[m].gen <= rec[m].gen /\ rec[m].gen \in Nat
      BY <3>1, AffinityAssumption DEF Bindings
    <3> QED
      BY <2>1, <2>3, <3>1, <3>2 DEF ModelKnows, Evolves
  <2> QED
    BY <2>2, <2>3
<1> QED
  BY <1>1, <1>2, Rewrites

LEMMA ClearIfIsSafe ==
    ASSUME AffinityInv, NEW g \in Managers, NEW m \in Models, ClearIfBindingId(g, m)
    PROVE  AffinityInv'
<1> DEFINE e == mgr[g].seen[m]
           s == Cleared(rec[m], e)
<1>1. now <= now /\ Typed
  BY Numbers DEF AffinityInv
<1>2. UNCHANGED <<row, task, ids, now, overrun>> /\ mgr[g].op = "clearAll"
  BY DEF ClearIfBindingId
<1>3. rec' = [rec EXCEPT ![m] = s]
  BY DEF ClearIfBindingId
<1>4. /\ s \in Bindings \cup {None}
      /\ s # None => /\ rec[m] # None /\ Entry(rec[m]) # e /\ Entry(s) = Entry(rec[m]) /\ s.id = rec[m].id
                     /\ s.gen = rec[m].gen /\ Deadline(s) = Deadline(rec[m]) /\ s.indexed = FALSE
  BY <1>1, ClearedIs DEF Typed
<1> HIDE DEF s
<1>5. /\ rec' \in [Models -> Bindings \cup {None}] /\ rec'[m] = s
      /\ \A n \in Models : n # m => rec'[n] = rec[n]
  BY <1>1, <1>3, <1>4 DEF Typed
<1>6. Gone(e, rec'[m], now)
  BY <1>4, <1>5 DEF Gone
<1>7. PICK q \in ManagerRecords : mgr' = [mgr EXCEPT ![g] = q] /\ StagedAs(q, g, m, "remove")
  <2>1. g \in Managers \cup {Alarm} /\ Stage(g, m, "remove")
    BY DEF ClearIfBindingId
  <2> QED
    BY <1>1, <2>1, Staged
<1>8. alarm' = Schedule(rec') \/ (alarm' = alarm /\ (s = None => rec[m] = None))
  BY <1>5 DEF ClearIfBindingId
<1>9. Typed'
  <2>1. alarm' \in 0..MaxTime + TTL \cup {None}
    BY <1>1, <1>5, <1>8, ScheduleIsEarly DEF Typed
  <2>2. mgr' \in [Managers \cup {Alarm} -> ManagerRecords]
    BY <1>1, <1>7 DEF Typed
  <2> QED
    BY <1>1, <1>2, <1>5, <2>1, <2>2 DEF Typed
<1>10. Advances /\ \A n \in Models : ModelSafe(n)'
  BY <1>2, <1>4, <1>5, <1>9, Clears
<1>11. \A h \in Managers \cup {Alarm} : mgr'[h] # mgr[h] => ManagerSafe(h)'
  BY <1>2, <1>6, <1>7, <1>10, StagedStays
<1>12. AlarmSafe'
  <2>1. CASE alarm' = Schedule(rec')
    BY <1>9, <2>1, AlarmScheduled
  <2>2. CASE alarm' = alarm
    <3>1. mgr'[Alarm] = mgr[Alarm]
      BY <1>1, <1>7, AffinityAssumption DEF Typed
    <3> QED
      BY <1>1, <1>2, <1>4, <1>5, <1>9, <2>2, <3>1, AlarmUnmoved
  <2> QED
    BY <1>8, <2>1, <2>2
<1> QED
  BY <1>2, <1>10, <1>11, <1>12, Closes

LEMMA CommitClearIsSafe ==
    ASSUME AffinityInv, NEW g \in Managers, CommitClear(g)
    PROVE  AffinityInv'
<1> DEFINE k == mgr[g]
           stage == [m \in Models |-> IF k.stage[m] = "got" THEN "remove" ELSE "done"]
           l == [k EXCEPT !.op = "remove"]
           q == [l EXCEPT !.stage = stage]
           s(m) == Cleared(rec[m], k.seen[m])
<1>1. now <= now /\ Typed /\ ids \in Nat /\ k \in ManagerRecords
  BY Numbers DEF AffinityInv, Typed
<1>2. UNCHANGED <<row, task, ids, now, overrun>> /\ alarm' = Schedule(rec') /\ k.op = "clearOne"
  BY DEF CommitClear
<1>3. rec' = [m \in Models |-> IF k.stage[m] = "got" THEN s(m) ELSE rec[m]]
  BY DEF CommitClear
<1>4. \A m \in Models :
         /\ s(m) \in Bindings \cup {None}
         /\ s(m) # None => /\ rec[m] # None /\ Entry(rec[m]) # k.seen[m] /\ Entry(s(m)) = Entry(rec[m])
                           /\ s(m).id = rec[m].id /\ s(m).gen = rec[m].gen
                           /\ Deadline(s(m)) = Deadline(rec[m]) /\ s(m).indexed = FALSE
  BY <1>1, ClearedIs DEF Typed
<1>5. mgr' = [mgr EXCEPT ![g] = q]
  <2>1. mgr' = [mgr EXCEPT ![g].op = "remove",
                           ![g].stage = [m \in Models |-> IF @[m] = "got" THEN "remove" ELSE "done"]]
    BY DEF CommitClear
  <2>2. l.stage = k.stage
    BY <1>1 DEF ManagerRecords
  <2> HIDE DEF q
  <2>3. mgr' = [mgr EXCEPT ![g] =
                  [l EXCEPT !.stage = [m \in Models |-> IF l.stage[m] = "got" THEN "remove" ELSE "done"]]]
    BY <2>1
  <2> HIDE DEF l
  <2> QED
    BY <2>2, <2>3 DEF q
<1>6. q \in ManagerRecords /\ q.op = "remove" /\ q.stage = stage /\ q.seen = k.seen
      /\ q.bind = k.bind /\ q.from = k.from
  <2>1. stage \in [Models -> {"done", "check", "remove", "get", "got"}]
    OBVIOUS
  <2> HIDE DEF stage
  <2> QED
    BY <1>1, <2>1 DEF ManagerRecords, Operations
<1>7. \A m \in Models : rec'[m] = IF k.stage[m] = "got" THEN s(m) ELSE rec[m]
  BY <1>3
<1>8. \A m \in Models : q.stage[m] = "remove" => rec'[m] = s(m)
  BY <1>6, <1>7
<1> HIDE DEF s, q, l, k, stage
<1>9. rec' \in [Models -> Bindings \cup {None}]
  BY <1>1, <1>3, <1>4 DEF Typed
<1>10. Typed'
  <2>1. alarm' \in 0..MaxTime + TTL \cup {None}
    BY <1>2, <1>9, ScheduleIsEarly
  <2>2. mgr' \in [Managers \cup {Alarm} -> ManagerRecords]
    BY <1>1, <1>5, <1>6 DEF Typed
  <2> QED
    BY <1>1, <1>2, <1>9, <2>1, <2>2 DEF Typed
<1>11. Advances /\ \A n \in Models : ModelSafe(n)'
  BY <1>2, <1>4, <1>7, <1>10, Clears
<1>12. \A m \in Models : ManagerKnows(q, m, rec'[m], ids', now')
  <2> SUFFICES ASSUME NEW m \in Models
               PROVE  ManagerKnows(q, m, rec'[m], ids', now')
    OBVIOUS
  <2>1. ManagerKnows(k, m, rec'[m], ids', now')
    BY <1>11, RequestStays DEF k
  <2>2. q.stage[m] = "remove" => Gone(k.seen[m], rec'[m], now')
    BY <1>4, <1>8 DEF Gone
  <2> QED
    BY <1>6, <2>1, <2>2 DEF ManagerKnows
<1>13. \A h \in Managers \cup {Alarm} : mgr'[h] # mgr[h] => ManagerSafe(h)'
  BY <1>1, <1>5, <1>6, <1>12, OneManager
<1>14. AlarmSafe'
  BY <1>2, <1>10, AlarmScheduled
<1> QED
  BY <1>2, <1>11, <1>13, <1>14, Closes

LEMMA ExpireIsSafe ==
    ASSUME AffinityInv, Expire
    PROVE  AffinityInv'
<1> DEFINE expired == {m \in Bound : ~Active(rec[m])}
           seen == [m \in Models |-> IF m \in expired THEN Entry(rec[m]) ELSE None]
           stage == [m \in Models |-> IF m \in expired THEN "remove" ELSE "done"]
           u == [op |-> "unregister", stage |-> stage, bind |-> [m \in Models |-> None],
                 seen |-> seen, from |-> 0]
           q == IF expired = {} THEN Rest ELSE u
<1>1. now <= now /\ Typed /\ ids \in Nat
  BY Numbers DEF AffinityInv
<1>2. UNCHANGED <<row, task, ids, now, overrun>> /\ alarm' = Schedule(rec')
  BY DEF Expire
<1>3. \A m \in Models : rec'[m] = IF m \in expired THEN None ELSE rec[m]
  BY DEF Expire
<1>4. rec' \in [Models -> Bindings \cup {None}]
  <2>1. rec' = [m \in Models |-> IF m \in expired THEN None ELSE rec[m]]
    BY DEF Expire
  <2> HIDE DEF expired
  <2> QED
    BY <1>1, <2>1 DEF Typed
<1>5. mgr' = [mgr EXCEPT ![Alarm] = q]
  <2> DEFINE l1 == [Rest EXCEPT !.op = "unregister"]
             l2 == [l1 EXCEPT !.seen = seen]
             l3 == [l2 EXCEPT !.stage = stage]
  <2>1. mgr' = [mgr EXCEPT ![Alarm] = IF expired = {} THEN Rest ELSE l3]
    BY DEF Expire
  <2>2. l1 = [op |-> "unregister", stage |-> Rest.stage, bind |-> Rest.bind, seen |-> Rest.seen, from |-> 0]
    BY DEF Rest
  <2> HIDE DEF l1, seen, stage
  <2>3. l2 = [op |-> "unregister", stage |-> Rest.stage, bind |-> Rest.bind, seen |-> seen, from |-> 0]
    BY <2>2
  <2> HIDE DEF l2
  <2>4. l3 = [op |-> "unregister", stage |-> stage, bind |-> Rest.bind, seen |-> seen, from |-> 0]
    BY <2>3
  <2>5. Rest.bind = [m \in Models |-> None]
    BY DEF Rest
  <2>6. l3 = u
    BY <2>4, <2>5
  <2> HIDE DEF l3, u, expired
  <2> QED
    BY <2>1, <2>6
<1>6. \A m \in Models : m \in expired => rec[m] \in Bindings /\ Entry(rec[m]) \in Entries
  BY <1>1, EntryOf DEF Bound, Typed
<1>7. u \in ManagerRecords
  <2>1. stage \in [Models -> {"done", "check", "remove", "get", "got"}]
    OBVIOUS
  <2>2. [m \in Models |-> None] \in [Models -> EntryType]
    BY DEF EntryType
  <2>3. seen \in [Models -> EntryType]
    <3> HIDE DEF expired
    <3> QED
      BY <1>6 DEF EntryType, Entries
  <2> HIDE DEF stage, seen
  <2> QED
    BY <2>1, <2>2, <2>3 DEF ManagerRecords, Operations
<1>8. \A m \in Models : ManagerKnows(u, m, rec'[m], ids', now')
  <2> SUFFICES ASSUME NEW m \in Models
               PROVE  ManagerKnows(u, m, rec'[m], ids', now')
    OBVIOUS
  <2>1. u.op = "unregister" /\ u.from = 0 /\ u.seen[m] = seen[m] /\ u.bind[m] = None
        /\ (u.stage[m] = "remove" => m \in expired)
    OBVIOUS
  <2>2. m \in expired => rec'[m] = None
    BY <1>3
  <2>3. Known(seen[m], rec'[m], ids)
    <3>1. CASE m \in expired
      <4>1. seen[m] = Entry(rec[m]) /\ rec[m] # None
        BY <3>1 DEF Bound
      <4>2. Entry(rec[m]).id = rec[m].id /\ rec[m].id <= ids
        BY <1>6, <3>1, <4>1, EntryOf DEF AffinityInv, ModelSafe, ModelKnows
      <4> HIDE DEF seen, expired
      <4> QED
        BY <2>2, <3>1, <4>1, <4>2 DEF Known
    <3>2. CASE m \notin expired
      <4>1. seen[m] = None
        BY <3>2
      <4> QED
        BY <4>1 DEF Known
    <3> QED
      BY <3>1, <3>2
  <2> HIDE DEF u, seen, expired
  <2>4. u.stage[m] = "remove" => Gone(u.seen[m], rec'[m], now')
    BY <2>1, <2>2 DEF Gone
  <2> QED
    BY <1>1, <1>2, <2>1, <2>3, <2>4 DEF ManagerKnows, Known
<1>9. q \in ManagerRecords /\ \A m \in Models : ManagerKnows(q, m, rec'[m], ids', now')
  <2> HIDE DEF u, expired
  <2>1. ids' \in Nat
    BY <1>1, <1>2
  <2> QED
    BY <1>7, <1>8, <2>1, RestKnows
<1> HIDE DEF q, expired
<1>10. /\ mgr' \in [Managers \cup {Alarm} -> ManagerRecords]
       /\ \A h \in Managers \cup {Alarm} : mgr'[h] # mgr[h] => ManagerSafe(h)'
  <2>1. Alarm \in Managers \cup {Alarm}
    OBVIOUS
  <2> QED
    BY <1>1, <1>5, <1>9, <2>1, OneManager
<1>11. Typed'
  <2>1. alarm' \in 0..MaxTime + TTL \cup {None}
    BY <1>2, <1>4, ScheduleIsEarly
  <2> QED
    BY <1>1, <1>2, <1>4, <1>10, <2>1 DEF Typed
<1>12. Advances /\ \A n \in Models : ModelSafe(n)'
  BY <1>2, <1>3, <1>11, Clears
<1>13. AlarmSafe'
  BY <1>2, <1>11, AlarmScheduled
<1> QED
  BY <1>2, <1>10, <1>12, <1>13, Closes

-----------------------------------------------------------------------------
(* resolve().                                                                *)

LEMMA RescheduleIsEarly ==
    ASSUME AffinityInv, Typed', NEW m \in Models, UNCHANGED <<mgr, now>>,
           rec'[m] \in Bindings, \A n \in Models : n # m => rec'[n] = rec[n],
           NEW previous, alarm' = Reschedule(rec', previous, Deadline(rec'[m]))
    PROVE  AlarmSafe'
<1> DEFINE d == Deadline(rec'[m])
           moved == alarm # None /\ alarm \notin {Deadline(r) : r \in previous}
<1>1. alarm' = IF moved THEN Min({alarm, d}) ELSE Schedule(rec')
  BY DEF Reschedule
<1>2. CASE ~moved
  BY <1>1, <1>2, AlarmScheduled
<1>3. CASE moved
  <2>1. d \in Nat /\ alarm \in Nat /\ now \in Nat
    BY <1>3, EntryOf, AffinityAssumption DEF Typed, AffinityInv
  <2>2. alarm' = Min({alarm, d})
    BY <1>1, <1>3
  <2> HIDE DEF d
  <2>3. alarm' \in {alarm, d} /\ alarm' <= alarm /\ alarm' <= d /\ alarm' \in Nat
    BY <2>1, <2>2, MinOfTwo
  <2>4. alarm' # None
    BY <2>3, AffinityAssumption
  <2> SUFFICES ASSUME NEW n \in Models
               PROVE  AlarmKnows(alarm', mgr'[Alarm].op = "alarm", rec'[n], now')
    BY DEF AlarmSafe
  <2>5. CASE n = m
    <3>1. alarm' <= Max({d, now})
      BY <2>1, <2>3, MaxOfTwo
    <3> QED
      BY <2>4, <2>5, <3>1 DEF AlarmKnows, d
  <2>6. CASE n # m
    <3>1. AlarmKnows(alarm, mgr[Alarm].op = "alarm", rec[n], now) /\ rec'[n] = rec[n]
      BY <2>6 DEF AffinityInv, AlarmSafe
    <3>2. CASE rec[n] = None
      BY <2>4, <3>1, <3>2 DEF AlarmKnows
    <3>3. CASE rec[n] # None
      <4> DEFINE c == Deadline(rec[n])
      <4>1. c \in Int
        BY <3>3, EntryOf DEF AffinityInv, Typed
      <4>2. alarm <= Max({c, now})
        BY <1>3, <3>1, <3>3 DEF AlarmKnows
      <4> HIDE DEF c
      <4>3. alarm' <= Max({c, now})
        BY <2>1, <2>3, <4>1, <4>2, MaxOfTwo
      <4> QED
        BY <2>4, <3>1, <4>3 DEF AlarmKnows, c
    <3> QED
      BY <3>2, <3>3
  <2> QED
    BY <2>5, <2>6
<1> QED
  BY <1>2, <1>3

LEMMA RescheduleIsTime ==
    ASSUME Typed, NEW bindings \in [Models -> Bindings \cup {None}], NEW previous,
           NEW next \in 0..MaxTime + TTL
    PROVE  Reschedule(bindings, previous, next) \in 0..MaxTime + TTL \cup {None}
<1>1. alarm # None => Min({alarm, next}) \in 0..MaxTime + TTL
  BY MinOfTwo, AffinityAssumption DEF Typed
<1> QED
  BY <1>1, ScheduleIsEarly DEF Reschedule

LEMMA ResolveIsSafe ==
    ASSUME AffinityInv, NEW m \in Models, NEW list \in CandidateLists, Resolve(m, list)
    PROVE  AffinityInv' /\ Keeps
<1> DEFINE current == rec[m]
           stored == IF Active(current) THEN current ELSE None
           old == IF stored = None THEN None ELSE stored.choice
<1>1. now <= now /\ Typed /\ ids \in Nat /\ now \in Nat /\ now \in 0..MaxTime /\ ids <= ids + 1
  BY Numbers DEF AffinityInv, Typed
<1>2. PICK decision \in Decisions[list][old] :
        LET changed == decision.status # "hit"
            next == [choice |-> decision.choice, updated |-> now,
                     id |-> IF changed THEN ids + 1 ELSE stored.id,
                     gen |-> IF ~changed THEN stored.gen
                             ELSE IF current = None THEN 1 ELSE current.gen + 1,
                     indexed |-> StillIndexed(stored, changed)]
            obsolete == IF changed /\ current # None THEN Entry(current) ELSE None
        IN  /\ next.id <= MaxBindings /\ next.gen <= MaxGeneration
            /\ rec' = [rec EXCEPT ![m] = next]
            /\ alarm' = Reschedule(rec', {current} \ {None}, Deadline(next))
            /\ ids' = IF changed THEN ids + 1 ELSE ids
            /\ IF obsolete = None /\ next.indexed THEN UNCHANGED task
               ELSE \E t \in Tasks :
                      /\ task[t].pc = "idle"
                      /\ task' = [task EXCEPT ![t] =
                            [pc |-> IF obsolete = None THEN "register" ELSE "unregister", m |-> m,
                             obsolete |-> obsolete, cand |-> Entry(next), seen |-> None, tries |-> 0]]
            /\ UNCHANGED <<row, mgr, now, overrun>>
  BY DEF Resolve
<1> DEFINE changed == decision.status # "hit"
           id == IF changed THEN ids + 1 ELSE stored.id
           gen == IF ~changed THEN stored.gen ELSE IF current = None THEN 1 ELSE current.gen + 1
           next == [choice |-> decision.choice, updated |-> now, id |-> id, gen |-> gen,
                    indexed |-> StillIndexed(stored, changed)]
           obsolete == IF changed /\ current # None THEN Entry(current) ELSE None
           q == [pc |-> IF obsolete = None THEN "register" ELSE "unregister", m |-> m,
                 obsolete |-> obsolete, cand |-> Entry(next), seen |-> None, tries |-> 0]
<1>3. /\ next.id <= MaxBindings /\ next.gen <= MaxGeneration
      /\ rec' = [rec EXCEPT ![m] = next]
      /\ alarm' = Reschedule(rec', {current} \ {None}, Deadline(next))
      /\ ids' = IF changed THEN ids + 1 ELSE ids
      /\ UNCHANGED <<row, mgr, now, overrun>>
  BY <1>2
<1>4. UNCHANGED task \/ \E t \in Tasks : task' = [task EXCEPT ![t] = q]
  BY <1>2
<1>5. current \in Bindings \cup {None} /\ ModelKnows(current, row[m], ids, now, overrun)
  BY <1>1 DEF Typed, AffinityInv, ModelSafe
<1>6. stored # None => stored = current /\ current # None /\ Deadline(current) > now
  BY DEF Active
<1>7. decision.choice \in Offered /\ (~changed => stored # None)
  <2>1. old \in Offered \cup {None}
    BY <1>5, <1>6 DEF Bindings
  <2> HIDE DEF old
  <2>2. decision.choice \in Offered /\ (decision.status = "hit" => old # None)
    BY <1>2, <2>1, DecisionOffered
  <2> QED
    BY <2>2 DEF old
<1>8. id \in 1..MaxBindings /\ gen \in 1..MaxGeneration
  <2>1. next.id = id /\ next.gen = gen
    OBVIOUS
  <2>2. id <= MaxBindings /\ gen <= MaxGeneration
    BY <1>3, <2>1
  <2>3. changed => id = ids + 1 /\ gen \in Nat /\ gen >= 1
    BY <1>5, AffinityAssumption DEF Bindings
  <2>4. ~changed => id \in 1..MaxBindings /\ gen \in 1..MaxGeneration
    BY <1>5, <1>6, <1>7 DEF Bindings
  <2> HIDE DEF id, gen, changed
  <2> QED
    BY <1>1, <2>2, <2>3, <2>4, AffinityAssumption
<1>9. next \in Bindings
  <2>1. StillIndexed(stored, changed) \in BOOLEAN
    BY DEF StillIndexed
  <2> HIDE DEF id, gen, stored, changed
  <2> QED
    BY <1>1, <1>7, <1>8, <2>1 DEF Bindings
<1>10. /\ next.id = id /\ next.gen = gen /\ Entry(next) \in Entries /\ Entry(next).id = id
       /\ Entry(next).gen = gen /\ Deadline(next) \in 0..MaxTime + TTL
  <2>1. next.id = id /\ next.gen = gen
    OBVIOUS
  <2> HIDE DEF next
  <2> QED
    BY <1>9, <2>1, EntryOf
<1>11. ~changed => /\ stored = current /\ current # None /\ current \in Bindings /\ Deadline(current) > now
                   /\ id = current.id /\ gen = current.gen
  BY <1>5, <1>6, <1>7
<1>12. changed => id = ids + 1
  OBVIOUS
<1>13. next.indexed => ~changed /\ current.indexed
  BY <1>6 DEF StillIndexed
<1>14. /\ q.m = m /\ q.cand = Entry(next) /\ q.obsolete = obsolete
       /\ q.pc = IF obsolete = None THEN "register" ELSE "unregister"
  OBVIOUS
<1>15. obsolete # None => changed /\ current # None /\ current \in Bindings /\ obsolete = Entry(current)
  BY <1>5
<1>16. obsolete \in EntryType
  <2>1. current \in Bindings => Entry(current) \in EntryType
    BY EntryOf DEF Entries, EntryType
  <2> QED
    BY <1>15, <2>1 DEF EntryType
<1>17. q \in TaskRecords
  <2> HIDE DEF obsolete, next
  <2> QED
    BY <1>10, <1>16 DEF TaskRecords, EntryType
<1> HIDE DEF changed, id, gen, next, obsolete, q, stored, current
<1>18. /\ rec' \in [Models -> Bindings \cup {None}] /\ rec'[m] = next
       /\ \A n \in Models : n # m => rec'[n] = rec[n]
  BY <1>1, <1>3, <1>9 DEF Typed
<1>19. ids' \in 0..MaxBindings /\ ids <= ids' /\ ids' \in Nat /\ id <= ids'
  <2>1. CASE changed
    BY <1>1, <1>3, <1>8, <1>12, <2>1
  <2>2. CASE ~changed
    BY <1>1, <1>3, <1>5, <1>11, <2>2 DEF ModelKnows, Typed
  <2> QED
    BY <2>1, <2>2
<1>20. Evolves(current, next, ids, now, now)
  <2>1. CASE changed
    BY <1>1, <1>10, <1>12, <2>1 DEF Evolves
  <2>2. CASE ~changed
    BY <1>8, <1>10, <1>11, <2>2 DEF Evolves
  <2> QED
    BY <2>1, <2>2
<1>21. next.indexed => /\ current # None /\ Entry(current) = Entry(next)
                       /\ Listed(row[m], current, now, overrun)
  <2>1. ~changed => Entry(current) = Entry(next)
    BY <1>10, <1>11 DEF Entry
  <2> QED
    BY <1>5, <1>11, <1>13, <2>1 DEF ModelKnows
<1>22. TaskKnows(q, rec'[q.m], row'[q.m], ids', now', overrun')
  <2>1. Known(Entry(next), next, ids')
    BY <1>8, <1>10, <1>19 DEF Known
  <2>2. obsolete # None => obsolete.id <= ids /\ next.id = ids + 1 /\ obsolete.id \in Nat
    BY <1>5, <1>10, <1>12, <1>15, EntryOf, AffinityAssumption DEF ModelKnows, Bindings
  <2>3. Known(obsolete, next, ids')
    BY <1>1, <1>19, <2>2 DEF Known
  <2>4. obsolete # None => Gone(obsolete, next, now)
    BY <1>1, <1>10, <1>12, <1>15, <2>2 DEF Gone
  <2> QED
    BY <1>3, <1>14, <1>18, <2>1, <2>3, <2>4 DEF TaskKnows
<1>23. /\ task' \in [Tasks -> TaskRecords \cup {NoTask}]
       /\ \A j \in Tasks : task'[j] # task[j] => TaskSafe(j)'
  <2>1. CASE UNCHANGED task
    BY <1>1, <2>1 DEF Typed
  <2>2. CASE \E t \in Tasks : task' = [task EXCEPT ![t] = q]
    BY <1>1, <1>17, <1>22, <2>2, OneTask
  <2> QED
    BY <1>4, <2>1, <2>2
<1>24. Typed'
  <2>1. alarm' \in 0..MaxTime + TTL \cup {None}
    <3> DEFINE d == Deadline(next)
               previous == {current} \ {None}
    <3>1. d \in 0..MaxTime + TTL /\ alarm' = Reschedule(rec', previous, d)
      BY <1>3, <1>10
    <3> HIDE DEF d, previous
    <3> QED
      BY <1>1, <1>18, <3>1, RescheduleIsTime
  <2> QED
    BY <1>1, <1>3, <1>18, <1>19, <1>23, <2>1 DEF Typed
<1>25. Advances /\ \A n \in Models : ModelSafe(n)'
  <2>1. \A n \in Models :
           /\ Evolves(rec[n], rec'[n], ids, now, now)
           /\ rec'[n] # None => rec'[n].id <= ids'
           /\ rec'[n] # None /\ rec'[n].indexed =>
                 /\ rec[n] # None /\ Entry(rec[n]) = Entry(rec'[n])
                 /\ Listed(row[n], rec[n], now, overrun)
    <3> SUFFICES ASSUME NEW n \in Models
                 PROVE  /\ Evolves(rec[n], rec'[n], ids, now, now)
                        /\ rec'[n] # None => rec'[n].id <= ids'
                        /\ rec'[n] # None /\ rec'[n].indexed =>
                              /\ rec[n] # None /\ Entry(rec[n]) = Entry(rec'[n])
                              /\ Listed(row[n], rec[n], now, overrun)
      OBVIOUS
    <3>1. CASE n = m
      BY <1>10, <1>18, <1>19, <1>20, <1>21, <3>1 DEF current
    <3>2. CASE n # m
      <4>1. Evolves(rec[n], rec[n], ids, now, now) /\ ModelKnows(rec[n], row[n], ids, now, overrun)
            /\ rec[n] \in Bindings \cup {None}
        BY <1>1, SameEvolves DEF Typed, AffinityInv, ModelSafe
      <4>2. rec[n] # None => rec[n].id <= ids'
        BY <1>1, <1>19, <4>1, AffinityAssumption DEF ModelKnows, Bindings
      <4> QED
        BY <1>18, <3>2, <4>1, <4>2 DEF ModelKnows
    <3> QED
      BY <3>1, <3>2
  <2> QED
    BY <1>3, <1>19, <1>24, <2>1, Rewrites
<1>26. AlarmSafe'
  <2> DEFINE previous == {current} \ {None}
  <2>1. alarm' = Reschedule(rec', previous, Deadline(rec'[m])) /\ rec'[m] \in Bindings
    BY <1>3, <1>9, <1>18
  <2> HIDE DEF previous
  <2> QED
    BY <1>3, <1>18, <1>24, <2>1, RescheduleIsEarly
<1>27. Keeps
  BY <1>9, <1>18, BindingIsSomething DEF Keeps
<1> QED
  BY <1>3, <1>23, <1>25, <1>26, <1>27, Closes

-----------------------------------------------------------------------------
(* The invariant, and what it is for.                                        *)

LEMMA AffinityStarts == Init => AffinityInv
<1> SUFFICES ASSUME Init
             PROVE  AffinityInv
  OBVIOUS
<1>1. Typed
  BY RestKnows, AffinityAssumption DEF Init, Typed, EntryType
<1>2. \A m \in Models : ModelSafe(m)
  BY DEF Init, ModelSafe, ModelKnows, Known
<1>3. \A i \in Tasks : TaskSafe(i)
  BY NoneIsNoEntry DEF Init, TaskSafe
<1>4. \A g \in Managers \cup {Alarm} : ManagerSafe(g)
  BY RestKnows DEF Init, ManagerSafe
<1>5. AlarmSafe
  BY DEF Init, AlarmSafe, AlarmKnows
<1> QED
  BY <1>1, <1>2, <1>3, <1>4, <1>5 DEF AffinityInv

LEMMA AffinityIdles ==
    ASSUME AffinityInv, UNCHANGED vars
    PROVE  AffinityInv'
<1>1. now <= now /\ Typed /\ Typed'
  BY Numbers DEF AffinityInv, vars, Typed
<1>2. Advances /\ \A m \in Models : ModelSafe(m)'
  BY <1>1, Quiet DEF vars
<1>3. AlarmSafe'
  BY <1>1, AlarmUnmoved DEF vars
<1> QED
  BY <1>2, <1>3, Closes DEF vars

LEMMA AffinityStep ==
    ASSUME AffinityInv, GenerationsLast, GenerationsLast', [Next]_vars
    PROVE  AffinityInv'
<1>1. ASSUME NEW m \in Models, NEW list \in CandidateLists, Resolve(m, list)
      PROVE  AffinityInv'
  BY <1>1, ResolveIsSafe
<1>2. ASSUME NEW i \in Tasks,
             \/ Unregister(i) \/ Register(i) \/ Confirm(i) \/ Overtake(i) \/ Withdraw(i) \/ Abandon(i)
      PROVE  AffinityInv'
  BY <1>2, UnregisterIsSafe, RegisterIsSafe, ConfirmIsSafe, OvertakeIsSafe, WithdrawIsSafe, AbandonIsSafe
<1>3. ASSUME NEW g \in Managers, List(g) \/ ClearAll(g) \/ CommitClear(g)
      PROVE  AffinityInv'
  BY <1>3, ReadIndexIsSafe, CommitClearIsSafe DEF List, ClearAll
<1>4. ASSUME NEW g \in Managers, NEW models \in {{m} : m \in Models} \cup {Models}, ClearManaged(g, models)
      PROVE  AffinityInv'
  <2>1. models \in SUBSET Models
    OBVIOUS
  <2> QED
    BY <1>4, <2>1, ClearManagedIsSafe
<1>5. ASSUME NEW g \in Managers, NEW m \in Models,
             ListStatus(g, m) \/ ClearIfBindingId(g, m) \/ GetIndexed(g, m)
      PROVE  AffinityInv'
  BY <1>5, ListStatusIsSafe, ClearIfIsSafe, GetIndexedIsSafe
<1>6. ASSUME NEW g \in Managers \cup {Alarm}, Die(g) \/ \E m \in Models : RemoveRow(g, m)
      PROVE  AffinityInv'
  BY <1>6, DieIsSafe, RemoveRowIsSafe
<1>7. CASE Fire \/ Expire \/ Tick
  BY <1>7, FireIsSafe, ExpireIsSafe, TickIsSafe
<1>8. CASE UNCHANGED vars
  BY <1>8, AffinityIdles
<1> QED
  BY <1>1, <1>2, <1>3, <1>4, <1>5, <1>6, <1>7, <1>8 DEF Next

\* Whatever a list offers is what the code and the definition of Wanted make of
\* any account: resolveStoredAffinity() leaves an account only when outranked.
LEMMA OfferedIsSound == Offered \subseteq Sound
BY StoredIsWanted DEF Sound

LEMMA InvariantIsEnough ==
    ASSUME AffinityInv
    PROVE  BindingsAreSound
<1>1. Typed
  BY DEF AffinityInv
<1>2. TypeOK
  <2>1. \A m \in Models : rec[m] # None =>
          /\ Entry(rec[m]) \in EntryType /\ rec[m].choice \in Offered
          /\ rec[m].updated \in 0..MaxTime /\ rec[m].indexed \in BOOLEAN
    BY <1>1, EntryOf DEF Typed, Bindings, Entries, EntryType
  <2>2. \A t \in Tasks : task[t].pc # "idle" =>
          task[t].cand \in EntryType /\ task[t].obsolete \in EntryType /\ task[t].tries < Attempts
    BY TaskAt DEF AffinityInv, TaskRecords, Entries, EntryType, Attempts
  <2> QED
    BY <1>1, <2>1, <2>2 DEF TypeOK, Typed
<1>3. MarkedIsListed
  BY DEF AffinityInv, ModelSafe, ModelKnows, Listed, MarkedIsListed, Active
<1>4. ExpiryIsScheduled
  BY DEF AffinityInv, AlarmSafe, AlarmKnows, ExpiryIsScheduled, Bound
<1>5. StaysUnlessOutranked
  BY <1>1, OfferedIsSound DEF StaysUnlessOutranked, Bound, Typed, Bindings
<1> QED
  BY <1>2, <1>3, <1>4, <1>5 DEF BindingsAreSound

LEMMA InvariantHolds == Spec /\ []GenerationsLast => []AffinityInv
<1>1. AffinityInv /\ GenerationsLast /\ GenerationsLast' /\ [Next]_vars => AffinityInv'
  BY AffinityStep
<1> QED
  BY <1>1, AffinityStarts, PTL DEF Spec

\* Of a client's bindings (resolve(), ensureIndexed(), alarm()): while
\* generations last, one marked as listed is listed with its present
\* generation, whatever tasks, clears and expiries are still under way; each
\* has a wake-up in time; and none moves to another account unless outranked.
THEOREM AffinityInvariant == Spec /\ []GenerationsLast => []BindingsAreSound
<1>1. AffinityInv => BindingsAreSound
  BY InvariantIsEnough
<1> QED
  BY <1>1, InvariantHolds, PTL

-----------------------------------------------------------------------------
(* Clearing.                                                                 *)

\* What a step deletes, unless it has expired, its request has read.
LEMMA ClearIsInformed ==
    ASSUME AffinityInv, GenerationsLast, [Next]_vars, NEW m \in Models, Active(rec[m]), rec'[m] = None
    PROVE  \E g \in Managers : mgr[g].op # "none" /\ rec[m].id <= mgr[g].from
<1> DEFINE Read(g) == mgr[g].op # "none" /\ rec[m].id <= mgr[g].from
<1>1. rec[m] # None /\ rec[m] \in Bindings /\ Typed /\ rec'[m] # rec[m]
  BY DEF Active, AffinityInv, Typed
<1>2. \A e : Cleared(rec[m], e) = None => Entry(rec[m]) = e
  <2> SUFFICES ASSUME NEW e, Cleared(rec[m], e) = None, Entry(rec[m]) # e
               PROVE  FALSE
    OBVIOUS
  <2> DEFINE u == [rec[m] EXCEPT !.indexed = FALSE]
  <2>1. u \in Bindings
    BY <1>1 DEF Bindings
  <2>2. Cleared(rec[m], e) = u
    BY <1>1 DEF Cleared
  <2> QED
    BY <2>1, <2>2, BindingIsSomething
<1>3. ASSUME NEW g \in Managers, mgr[g].op \in {"clearAll", "clearOne"}, Entry(rec[m]) = mgr[g].seen[m]
      PROVE  Read(g)
  <2>1. ManagerKnows(mgr[g], m, rec[m], ids, now)
    BY DEF AffinityInv, ManagerSafe
  <2>2. Entry(rec[m]) # None /\ Entry(rec[m]).id = rec[m].id
    BY <1>1, EntryOf, NoneIsNoEntry
  <2> QED
    BY <1>3, <2>1, <2>2 DEF ManagerKnows, ReadBy
<1>4. ~Keeps
  BY <1>1 DEF Keeps
<1>5. ASSUME NEW g \in Managers, CommitClear(g)
      PROVE  Read(g)
  <2>1. mgr[g].op = "clearOne" /\ Cleared(rec[m], mgr[g].seen[m]) = None
    BY <1>1, <1>5 DEF CommitClear
  <2> QED
    BY <1>2, <1>3, <2>1
<1>6. ASSUME NEW g \in Managers, NEW n \in Models, ClearIfBindingId(g, n)
      PROVE  Read(g)
  <2>1. mgr[g].op = "clearAll" /\ Cleared(rec[m], mgr[g].seen[m]) = None
    BY <1>1, <1>6 DEF ClearIfBindingId, Typed
  <2> QED
    BY <1>2, <1>3, <2>1
<1>7. ~Expire
  BY <1>1 DEF Expire, Bound
<1>8. rec' = rec \/ \E g \in Managers : Read(g)
  <2>1. ASSUME NEW i \in Tasks,
               \/ Unregister(i) \/ Register(i) \/ Confirm(i) \/ Overtake(i) \/ Withdraw(i) \/ Abandon(i)
        PROVE  rec' = rec
    BY <1>4, <2>1, ConfirmIsSafe, OvertakeIsSafe DEF Unregister, Register, Withdraw, Abandon
  <2>2. ASSUME NEW g \in Managers,
               \/ List(g) \/ ClearAll(g) \/ CommitClear(g)
               \/ \E models \in {{n} : n \in Models} \cup {Models} : ClearManaged(g, models)
        PROVE  rec' = rec \/ Read(g)
    BY <1>5, <2>2 DEF List, ClearAll, ReadIndex, ClearManaged
  <2>3. ASSUME NEW g \in Managers, NEW n \in Models,
               ListStatus(g, n) \/ ClearIfBindingId(g, n) \/ GetIndexed(g, n)
        PROVE  rec' = rec \/ Read(g)
    BY <1>6, <2>3 DEF ListStatus, GetIndexed
  <2>4. ASSUME NEW g \in Managers \cup {Alarm}, Die(g) \/ \E n \in Models : RemoveRow(g, n)
        PROVE  rec' = rec
    BY <2>4 DEF Die, RemoveRow
  <2>5. CASE Fire \/ Expire \/ Tick \/ UNCHANGED vars
    BY <1>7, <2>5 DEF Fire, Tick, vars
  <2>6. ASSUME NEW n \in Models, NEW list \in CandidateLists, Resolve(n, list)
        PROVE  FALSE
    BY <1>4, <2>6, ResolveIsSafe
  <2> HIDE DEF Read
  <2> QED
    BY <2>1, <2>2, <2>3, <2>4, <2>5, <2>6 DEF Next
<1> QED
  BY <1>1, <1>8

\* session-bindings.ts: whatever a conditional clear deletes, if it has not
\* expired, is no younger than what the request had read by then.
THEOREM ClearsAreInformed == Spec /\ []GenerationsLast => ClearsOnlyWhatItSaw
<1> DEFINE Informed == \A m \in Models : Active(rec[m]) /\ rec'[m] = None =>
                         \E g \in Managers : mgr[g].op # "none" /\ rec[m].id <= mgr[g].from
<1>1. AffinityInv /\ GenerationsLast /\ [Next]_vars => Informed
  BY ClearIsInformed
<1>2. Spec /\ []GenerationsLast => [][Informed]_vars
  <2> HIDE DEF Informed
  <2> QED
    BY <1>1, InvariantHolds, PTL DEF Spec
<1> QED
  BY <1>2 DEF ClearsOnlyWhatItSaw
=============================================================================
