------------------------ MODULE AdministrationProofs ------------------------
(***************************************************************************)
(* Proofs about the two parts of the administration run that decide who    *)
(* gets where.                                                             *)
(*                                                                         *)
(* ProxyGroup, for any nodes, owners, revisions, requests, thresholds and  *)
(* times: bindings lead to usable nodes, the health record of a node is a  *)
(* faithful digest of the reports told, and a request changes its node     *)
(* once.                                                                   *)
(*                                                                         *)
(* Access, for any browsers, requests, settings and configurations:        *)
(* whoever is admitted has signed in, an authorization starts for the      *)
(* provider the administrator saw, and a request becomes the client whose  *)
(* key it carries.                                                         *)
(***************************************************************************)
EXTENDS ProxyGroup, Access, FiniteSetTheorems, WellFoundedInduction, TLAPS

-----------------------------------------------------------------------------
(* The inductive invariant. *)

\* A report has an id of its own.
ReportsAreOne ==
    /\ IsFiniteSet(mail) /\ IsFiniteSet(told)
    /\ \A e \in mail \cup told : e.id <= dials /\ e.at <= now
    /\ \A e, f \in mail \cup told : e.id = f.id => e = f

\* A request that may still switch has tried a single node, and one that has
\* switched has used up its allowance.
RequestIsBounded(t) ==
    /\ t.pc \in {"select", "record"} =>
          /\ ~t.switched /\ \A x, y \in t.tried : x = y
          /\ t.tried # {} => ~t.spent
    /\ t.pc = "record" => ~t.spent
    /\ t.pc \in {"dial", "sent"} =>
          /\ t.lease \in Leases
          /\ \A x, y \in t.tried \ {t.lease.node} : x = y
          /\ ~t.switched => t.tried \subseteq {t.lease.node}
    /\ IF t.pc = "idle" THEN t.tried = {} ELSE t.rev \in Revisions /\ t.owner \in Owners
    /\ t.hops = 0 \/ (t.hops = 1 /\ t.spent)

RequestsAreBounded == \A q \in Requests : RequestIsBounded(req[q])

\* The reports told of a generation of node n.
Mine(T, n, gen) == {e \in T : e.node = n /\ e.gen = gen}

\* The health record h tells at time t what the reports M amount to: the last
\* success, and the failures that came after it and are recent.
SuccessesCount(h, M) ==
    \A e \in M : e.ok => h.success # None /\ e.at <= h.success
SuccessIsTold(h, M, t) ==
    h.success # None /\ t - h.success < Window => \E e \in M : e.ok /\ e.at = h.success
Counts(f, M, t) == ~f.ok /\ t - f.at < Window /\ \A s \in M : s.ok => s.at < f.at
Kept(f) == [id |-> f.id, at |-> f.at]
FailuresCount(h, M, t) ==
    \A f \in M : Counts(f, M, t) => Kept(f) \in h.failures
FailuresAreTold(h, M, t) ==
    \A x \in h.failures :
       /\ h.success # None => h.success < x.at
       /\ t - x.at < Window => \E f \in M : ~f.ok /\ Kept(f) = x
Tells(h, M, t) ==
    /\ SuccessesCount(h, M) /\ SuccessIsTold(h, M, t)
    /\ FailuresCount(h, M, t) /\ FailuresAreTold(h, M, t)

\* While a node does not cool its record tells what it was told; nothing is
\* told of one that is switched off.
HealthIsTold(n) ==
    node[n] # None =>
       /\ IsFiniteSet(node[n].health.failures)
       /\ Cardinality(node[n].health.failures) <= Threshold
       /\ node[n].health.success # None => node[n].health.success <= now
       /\ node[n].health.cooling # None => node[n].health.cooling <= now + Cooldown
       /\ node[n].disabled => node[n].health.gen \notin Known(n)
       /\ node[n].health.cooling = None =>
             /\ Cardinality(node[n].health.failures) < Threshold
             /\ Tells(node[n].health, Mine(told, n, node[n].health.gen), now)

GroupInv ==
    /\ Typed /\ Consistent /\ BindingsAreUsable /\ ReportsAreOne /\ RequestsAreBounded
    /\ \A n \in Nodes : HealthIsTold(n)

-----------------------------------------------------------------------------
(* Numbers and generations. *)

LEMMA Least ==
  ASSUME NEW S \in SUBSET Nat, S # {}
  PROVE  Min(S) \in S
<1> DEFINE R == OpToRel(<, Nat)
<1>1. \A m, n \in Nat : m < n => <<m, n>> \in R
  BY DEF OpToRel
<1>2. IsWellFoundedOn(R, Nat)
  BY NatLessThanWellFounded
<1> HIDE DEF R
<1>3. PICK n \in S : \A m \in S : ~ (<<m, n>> \in R)
  BY <1>2, WFMin
<1>4. \A m \in S : m \in Nat /\ n \in Nat /\ ~ (m < n)
  BY <1>1, <1>3
<1>5. \A m \in S : n <= m
  BY <1>4
<1> QED BY <1>5 DEF Min

LEMMA MaxOfTwo ==
  ASSUME NEW a \in Int, NEW b \in Int
  PROVE  Max({a, b}) = IF a >= b THEN a ELSE b
BY DEF Max

\* A set of numbers is missing one.
LEMMA Unused ==
  ASSUME NEW K, IsFiniteSet(K)
  PROVE  /\ Min((1..Cardinality(K) + 1) \ K) \in Nat
         /\ Min((1..Cardinality(K) + 1) \ K) \notin K
<1>1. Cardinality(K) \in Nat
  BY FS_CardinalityType
<1> DEFINE I == 1..Cardinality(K) + 1
<1>2. IsFiniteSet(I) /\ Cardinality(I) = Cardinality(K) + 1
  BY <1>1, FS_Interval
<1>3. ~ (I \subseteq K)
  BY <1>1, <1>2, FS_Subset
<1>4. Min(I \ K) \in I \ K
  BY <1>1, <1>3, Least
<1> QED BY <1>1, <1>4

LEMMA ImageIsFinite ==
  ASSUME NEW S, IsFiniteSet(S), NEW f, DOMAIN f = S
  PROVE  IsFiniteSet({f[x] : x \in S}) /\ Cardinality({f[x] : x \in S}) <= Cardinality(S)
<1> DEFINE g == [x \in S |-> f[x]]
<1>1. g \in Surjection(S, {f[x] : x \in S})
  BY DEF Surjection
<1> QED BY <1>1, FS_Surjection

LEMMA KnownIsFinite ==
  ASSUME ReportsAreOne, NEW n
  PROVE  IsFiniteSet(Known(n))
<1> DEFINE E == {e \in mail \cup told : e.node = n}
           Q == {q \in Requests : req[q].lease # None /\ req[q].lease.node = n}
           f == [e \in E |-> e.gen]
           g == [q \in Q |-> req[q].lease.gen]
<1>1. IsFiniteSet(E)
  BY FS_Union, FS_Subset DEF ReportsAreOne
<1>2. IsFiniteSet(Q)
  BY FS_Subset, ProxyAssumption
<1>3. IsFiniteSet({f[e] : e \in E})
  BY <1>1, ImageIsFinite
<1>4. IsFiniteSet({g[q] : q \in Q})
  BY <1>2, ImageIsFinite
<1>5. Known(n) = {f[e] : e \in E} \cup {g[q] : q \in Q}
  BY DEF Known
<1> HIDE DEF E, Q, f, g
<1> QED BY <1>3, <1>4, <1>5, FS_Union

LEMMA NewGeneration ==
  ASSUME ReportsAreOne, NEW n
  PROVE  NewGen(n) \in Nat /\ NewGen(n) \notin Known(n)
BY KnownIsFinite, Unused DEF NewGen

LEMMA FreshRecord ==
  ASSUME ReportsAreOne, NEW n
  PROVE  Fresh(n) \in Healths
BY NewGeneration DEF Fresh, Healths

-----------------------------------------------------------------------------
(* Revisions with the same signature say the same of strategy and nodes. *)

LEMMA SignatureIsTrue ==
  ASSUME NEW r \in Revisions
  PROVE  /\ Signature(r) \in Revisions
         /\ Configs[Signature(r)].strategy = Configs[r].strategy
         /\ Configs[Signature(r)].nodes = Configs[r].nodes
<1> DEFINE S == {s \in Revisions : /\ Configs[s].strategy = Configs[r].strategy
                                  /\ Configs[s].nodes = Configs[r].nodes}
<1>1. S \in SUBSET Nat /\ r \in S
  BY ProxyAssumption
<1>2. Min(S) \in S
  BY <1>1, Least
<1>3. Signature(r) = Min(S)
  BY DEF Signature, Signatures
<1> QED BY <1>2, <1>3

-----------------------------------------------------------------------------
(* What a health record tells, as reports come and time passes. *)

Recent(M, t) == {e \in M : t - e.at < Window}

LEMMA TellsNothing ==
  ASSUME NEW h, h.failures = {}, h.success = None, NEW t
  PROVE  Tells(h, {}, t)
BY DEF Tells, SuccessesCount, SuccessIsTold, FailuresCount, FailuresAreTold

\* Forgetting what is old, on either side, changes nothing.
LEMMA TellsRecent ==
  ASSUME NEW h \in Healths, NEW g \in Healths, NEW M \in SUBSET Outcomes, NEW t \in Nat,
         Tells(h, M, t), g.success = h.success, g.failures \subseteq h.failures,
         \A x \in h.failures : t - x.at < Window => x \in g.failures
  PROVE  Tells(g, Recent(M, t), t)
<1> USE NoneAssumption, ProxyAssumption DEF Tells, Recent, Healths, Outcomes
<1>1. SuccessesCount(g, Recent(M, t))
  BY DEF SuccessesCount
<1>2. SuccessIsTold(g, Recent(M, t), t)
  BY DEF SuccessIsTold
<1>3. FailuresCount(g, Recent(M, t), t)
  <2> SUFFICES ASSUME NEW f \in Recent(M, t), Counts(f, Recent(M, t), t)
               PROVE  Kept(f) \in g.failures
    BY DEF FailuresCount
  <2>1. Counts(f, M, t)
    BY DEF Counts
  <2> QED BY <2>1 DEF FailuresCount, Counts, Kept
<1>4. FailuresAreTold(g, Recent(M, t), t)
  BY DEF FailuresAreTold, Kept
<1> QED BY <1>1, <1>2, <1>3, <1>4

LEMMA TellsLater ==
  ASSUME NEW h \in Healths, NEW M \in SUBSET Outcomes, NEW t \in Nat, Tells(h, M, t)
  PROVE  Tells(h, M, t + 1)
<1> USE NoneAssumption, ProxyAssumption DEF Tells, Healths, Outcomes
<1>1. SuccessIsTold(h, M, t + 1)
  BY DEF SuccessIsTold
<1>2. FailuresCount(h, M, t + 1)
  BY DEF FailuresCount, Counts
<1>3. FailuresAreTold(h, M, t + 1)
  BY DEF FailuresAreTold
<1> QED BY <1>1, <1>2, <1>3

LEMMA TellsSuccess ==
  ASSUME NEW h \in Healths, NEW M \in SUBSET Outcomes, NEW t \in Nat, Tells(h, M, t),
         NEW e \in Outcomes, e.ok
  PROVE  Tells(Succeeded(h, e), Recent(M \cup {e}, t), t)
<1> DEFINE last == IF h.success = None THEN e.at ELSE Max({h.success, e.at})
           R == Recent(M \cup {e}, t)
           g == Succeeded(h, e)
<1>1. /\ last \in Nat /\ e.at <= last
      /\ h.success # None => h.success <= last /\ last \in {h.success, e.at}
      /\ h.success = None => last = e.at
  BY MaxOfTwo, NoneAssumption DEF Healths, Outcomes
<1>2. g.success = last /\ g.failures = {x \in h.failures : x.at > last}
  BY DEF Succeeded, Healths
<1> HIDE DEF last, g
<1> USE NoneAssumption, ProxyAssumption DEF Tells, Healths, Outcomes
<1>3. SuccessesCount(g, R)
  BY <1>1, <1>2 DEF SuccessesCount, Recent
<1>4. SuccessIsTold(g, R, t)
  BY <1>1, <1>2 DEF SuccessIsTold, Recent
<1>5. FailuresCount(g, R, t)
  <2> SUFFICES ASSUME NEW f \in R, Counts(f, R, t)
               PROVE  Kept(f) \in g.failures
    BY DEF FailuresCount
  <2>1. f \in M /\ t - f.at < Window /\ ~f.ok
    BY DEF Counts, Recent
  <2>2. \A s \in M \cup {e} : s.ok => s.at < f.at
    BY <2>1 DEF Counts, Recent
  <2>3. Kept(f) \in h.failures
    BY <2>1, <2>2 DEF FailuresCount, Counts
  <2>4. last < f.at
    <3>1. CASE last = e.at
      BY <3>1, <2>2
    <3>2. CASE h.success # None /\ last = h.success /\ t - last < Window
      BY <3>2, <2>2 DEF SuccessIsTold
    <3>3. CASE ~ (t - last < Window)
      BY <3>3, <2>1, <1>1
    <3> QED BY <1>1, <3>1, <3>2, <3>3
  <2> QED BY <1>2, <2>3, <2>4 DEF Kept
<1>6. FailuresAreTold(g, R, t)
  <2> SUFFICES ASSUME NEW x \in g.failures
               PROVE  /\ g.success # None => g.success < x.at
                      /\ t - x.at < Window => \E f \in R : ~f.ok /\ Kept(f) = x
    BY DEF FailuresAreTold
  <2> QED BY <1>1, <1>2 DEF FailuresAreTold, Recent, Kept
<1> QED BY <1>3, <1>4, <1>5, <1>6 DEF g

\* A failure that does not count, or is added.
LEMMA TellsFailure ==
  ASSUME NEW h \in Healths, NEW M \in SUBSET Outcomes, NEW t \in Nat, Tells(h, M, t),
         NEW e \in Outcomes, ~e.ok, NEW g \in Healths, g.success = h.success,
         IF t - e.at >= Window \/ (h.success # None /\ e.at <= h.success)
         THEN g.failures = h.failures ELSE g.failures = h.failures \cup {Kept(e)}
  PROVE  Tells(g, Recent(M \cup {e}, t), t)
<1> DEFINE R == Recent(M \cup {e}, t)
<1> USE NoneAssumption, ProxyAssumption DEF Tells, Healths, Outcomes
<1>1. SuccessesCount(g, R)
  BY DEF SuccessesCount, Recent
<1>2. SuccessIsTold(g, R, t)
  BY DEF SuccessIsTold, Recent
<1>3. FailuresCount(g, R, t)
  <2> SUFFICES ASSUME NEW f \in R, Counts(f, R, t)
               PROVE  Kept(f) \in g.failures
    BY DEF FailuresCount
  <2>1. \A s \in M : s.ok => s.at < f.at
    BY DEF Counts, Recent
  <2>2. t - f.at < Window /\ ~f.ok
    BY DEF Counts
  <2>3. CASE f = e
    <3>1. ~ (h.success # None /\ e.at <= h.success)
      BY <2>1, <2>2, <2>3 DEF SuccessIsTold
    <3> QED BY <2>2, <2>3, <3>1
  <2>4. CASE f # e
    BY <2>1, <2>2, <2>4 DEF FailuresCount, Counts, Recent
  <2> QED BY <2>3, <2>4
<1>4. FailuresAreTold(g, R, t)
  <2> SUFFICES ASSUME NEW x \in g.failures
               PROVE  /\ g.success # None => g.success < x.at
                      /\ t - x.at < Window => \E f \in R : ~f.ok /\ Kept(f) = x
    BY DEF FailuresAreTold
  <2>1. CASE x \in h.failures
    BY <2>1 DEF FailuresAreTold, Recent, Kept
  <2>2. CASE x = Kept(e) /\ t - e.at < Window /\ (h.success = None \/ e.at > h.success)
    BY <2>2 DEF Kept, Recent
  <2>3. CASE /\ g.failures = h.failures \cup {Kept(e)}
             /\ ~ (t - e.at >= Window \/ (h.success # None /\ e.at <= h.success))
    <3>1. t - e.at < Window /\ (h.success = None \/ e.at > h.success)
      BY <2>3
    <3> QED BY <2>1, <2>2, <2>3, <3>1
  <2> QED BY <2>1, <2>3
<1> QED BY <1>1, <1>2, <1>3, <1>4

\* As many failures are kept as count.
LEMMA CountedAreKept ==
  ASSUME NEW h \in Healths, NEW M \in SUBSET Outcomes, NEW t \in Nat, Tells(h, M, t),
         IsFiniteSet(h.failures), IsFiniteSet(M),
         \A e, f \in M : e.id = f.id => e = f
  PROVE  Cardinality({f \in M : Counts(f, M, t)}) <= Cardinality(h.failures)
<1> DEFINE C == {f \in M : Counts(f, M, t)}
           k == [f \in C |-> Kept(f)]
<1>1. k \in Injection(C, h.failures)
  <2>1. k \in [C -> h.failures]
    BY DEF Tells, FailuresCount
  <2>2. \A e, f \in C : k[e] = k[f] => e = f
    BY DEF Kept
  <2> QED BY <2>1, <2>2 DEF Injection, IsInjective
<1> QED BY <1>1, FS_Injection

LEMMA KeptAreCounted ==
  ASSUME NEW h \in Healths, NEW M \in SUBSET Outcomes, NEW t \in Nat, Tells(h, M, t),
         IsFiniteSet(M), NEW e \in Outcomes
  PROVE  Cardinality({x \in h.failures : t - x.at < Window} \cup {Kept(e)})
            <= Cardinality({f \in M : Counts(f, M, t)} \cup {e})
<1> DEFINE C == {f \in M : Counts(f, M, t)} \cup {e}
           X == {x \in h.failures : t - x.at < Window} \cup {Kept(e)}
           k == [f \in C |-> Kept(f)]
<1>1. IsFiniteSet(C)
  BY FS_Subset, FS_AddElement
<1>2. \A x \in X : \E f \in C : Kept(f) = x
  <2> SUFFICES ASSUME NEW x \in h.failures, t - x.at < Window
               PROVE  \E f \in M : Counts(f, M, t) /\ Kept(f) = x
    OBVIOUS
  <2>1. PICK f \in M : ~f.ok /\ Kept(f) = x
    BY DEF Tells, FailuresAreTold
  <2>2. f.at = x.at
    BY <2>1 DEF Kept
  <2>3. \A s \in M : s.ok => s.at < x.at
    BY NoneAssumption DEF Tells, FailuresAreTold, SuccessesCount, Healths, Outcomes
  <2> QED BY <2>1, <2>2, <2>3 DEF Counts
<1>3. X \subseteq {k[f] : f \in C}
  BY <1>2
<1>4. IsFiniteSet({k[f] : f \in C}) /\ Cardinality({k[f] : f \in C}) <= Cardinality(C)
  BY <1>1, ImageIsFinite
<1>5. IsFiniteSet(X) /\ Cardinality(X) <= Cardinality({k[f] : f \in C})
  BY <1>3, <1>4, FS_Subset
<1>6. /\ Cardinality(C) \in Nat /\ Cardinality(X) \in Nat
      /\ Cardinality({k[f] : f \in C}) \in Nat
  BY <1>1, <1>4, <1>5, FS_CardinalityType
<1> QED BY <1>4, <1>5, <1>6

-----------------------------------------------------------------------------
(* Taking over a configuration. *)

LEMMA SyncedConfiguration ==
  ASSUME GroupInv, NEW r \in Revisions, NEW full \in BOOLEAN, ~Stale(r, full)
  PROVE  /\ SyncedMeta(r) \in Metadata /\ SyncedMeta(r).signature = Signature(r)
         /\ Signature(SyncedMeta(r).rev) = Signature(r)
         /\ meta # None => SyncedMeta(r).rev >= meta.rev
         /\ SyncedOwners(r, full) \in OwnerKeys \cup {None}
         /\ SyncedOwners(r, full) # None =>
               SyncedOwners(r, full).keys = Configs[SyncedOwners(r, full).rev].owners
         /\ owners # None =>
               SyncedOwners(r, full) # None /\ SyncedOwners(r, full).rev >= owners.rev
<1> USE ProxyAssumption, NoneAssumption DEF GroupInv, Typed, Consistent, Stale
<1>1. Signature(r) \in Revisions
  BY SignatureIsTrue
<1>2. /\ SyncedMeta(r) \in Metadata /\ SyncedMeta(r).signature = Signature(r)
      /\ Signature(SyncedMeta(r).rev) = Signature(r)
      /\ meta # None => SyncedMeta(r).rev >= meta.rev
  <2>1. CASE meta = None
    BY <1>1, <2>1 DEF SyncedMeta, Metadata
  <2>2. CASE meta # None
    <3>1. meta \in Metadata /\ meta.rev \in Nat /\ r \in Nat
      BY <2>2 DEF Metadata
    <3>2. SyncedMeta(r).rev = IF r >= meta.rev THEN r ELSE meta.rev
      BY <2>2, <3>1, MaxOfTwo DEF SyncedMeta
    <3> QED BY <1>1, <2>2, <3>1, <3>2 DEF SyncedMeta, Metadata
  <2> QED BY <2>1, <2>2
<1>4. /\ SyncedOwners(r, full) \in OwnerKeys \cup {None}
      /\ SyncedOwners(r, full) # None =>
               SyncedOwners(r, full).keys = Configs[SyncedOwners(r, full).rev].owners
      /\ owners # None =>
               SyncedOwners(r, full) # None /\ SyncedOwners(r, full).rev >= owners.rev
  <2>1. CASE ~full \/ (SameOwners(r) /\ r <= owners.rev)
    <3>1. SyncedOwners(r, full) = owners /\ (owners # None => owners.rev \in Nat)
      BY <2>1 DEF SyncedOwners, OwnerKeys
    <3> QED BY <3>1
  <2>2. CASE full /\ ~ (SameOwners(r) /\ r <= owners.rev)
    <3>1. SyncedOwners(r, full) = [rev |-> r, keys |-> Configs[r].owners]
      BY <2>2 DEF SyncedOwners
    <3>2. SyncedOwners(r, full) \in OwnerKeys
      BY <3>1 DEF OwnerKeys
    <3>3. owners # None => r >= owners.rev
      <4>1. r \in Nat /\ (owners # None => owners.rev \in Nat)
        BY DEF OwnerKeys
      <4>2. owners # None /\ r < owners.rev => Configs[r].owners = owners.keys
        BY <2>2
      <4> QED BY <2>2, <4>1, <4>2 DEF SameOwners
    <3> QED BY <3>1, <3>2, <3>3
  <2> QED BY <2>1, <2>2
<1> QED BY <1>2, <1>4

LEMMA SyncedRecord ==
  ASSUME GroupInv, NEW r \in Revisions, NEW n \in Nodes
  PROVE  /\ SyncedNode(r, n) \in NodeRecords \cup {None}
         /\ SyncedNode(r, n) = None <=> n \notin DOMAIN Configs[r].nodes
         /\ SyncedNode(r, n) # None =>
               /\ SyncedNode(r, n).fingerprint = Configs[r].nodes[n].fingerprint
               /\ SyncedNode(r, n).disabled = Configs[r].nodes[n].disabled
               /\ \/ SyncedNode(r, n).health = Fresh(n)
                  \/ /\ node[n] # None /\ SyncedNode(r, n).health = node[n].health
                     /\ SyncedNode(r, n).disabled = node[n].disabled
<1> USE NoneAssumption DEF GroupInv
<1>1. node[n] \in NodeRecords \cup {None}
  BY DEF Typed
<1>2. CASE SameNodes(r)
  <2>1. meta # None /\ meta.rev \in Revisions /\ Signature(meta.rev) = Signature(r)
    BY <1>2 DEF SameNodes, Consistent, Typed, Metadata
  <2>2. Configs[meta.rev].nodes = Configs[r].nodes
    BY <2>1, SignatureIsTrue
  <2>3. SyncedNode(r, n) = node[n]
    BY <1>2 DEF SyncedNode
  <2> QED BY <1>1, <2>1, <2>2, <2>3 DEF Consistent
<1>3. CASE ~SameNodes(r) /\ n \in DOMAIN Configs[r].nodes
  <2>1. Configs[r].nodes[n] \in NodeConfigs
    BY <1>3, ProxyAssumption
  <2>2. Fresh(n) \in Healths
    BY FreshRecord
  <2>3. ~Renewed(r, n) => /\ node[n] \in NodeRecords
                          /\ node[n].fingerprint = Configs[r].nodes[n].fingerprint
                          /\ node[n].disabled = Configs[r].nodes[n].disabled
    BY <1>1, <1>3 DEF Renewed
  <2>4. SyncedNode(r, n) =
          [fingerprint |-> Configs[r].nodes[n].fingerprint, priority |-> Configs[r].nodes[n].priority,
           disabled |-> Configs[r].nodes[n].disabled,
           health |-> IF Renewed(r, n) THEN Fresh(n) ELSE node[n].health]
    BY <1>3 DEF SyncedNode
  <2>5. SyncedNode(r, n) \in NodeRecords
    BY <2>1, <2>2, <2>3, <2>4 DEF NodeRecords, NodeConfigs
  <2>6. SyncedNode(r, n) # None
    BY <2>5
  <2>7. CASE Renewed(r, n)
    BY <1>3, <2>4, <2>5, <2>6, <2>7
  <2>8. CASE ~Renewed(r, n)
    BY <1>3, <2>3, <2>4, <2>5, <2>6, <2>8
  <2> QED BY <2>7, <2>8
<1>4. CASE ~SameNodes(r) /\ n \notin DOMAIN Configs[r].nodes
  BY <1>4 DEF SyncedNode
<1> QED BY <1>2, <1>3, <1>4

\* A record as it is, without what is too old, ...
Aged(h, g) ==
    \/ g = h
    \/ h.cooling = None /\ g = [h EXCEPT !.failures = {f \in @ : now - f.at < Window}]

LEMMA CurrentRecord ==
  ASSUME ReportsAreOne, now \in Nat, NEW n, NEW h \in Healths
  PROVE  /\ Current(n, h) \in Healths
         /\ Current(n, h) = Fresh(n) \/ Aged(h, Current(n, h))
         /\ h.cooling = None =>
               /\ Current(n, h).cooling = None
               /\ Current(n, h) = [h EXCEPT !.failures = {f \in @ : now - f.at < Window}]
BY FreshRecord, NoneAssumption DEF Current, Elapsed, Aged, Healths, Fresh

\* ... or a new one: what taking over revision r may make of a node.
Follows(r, n, x) ==
    IF SyncedNode(r, n) = None THEN x = None
    ELSE \E h \in {SyncedNode(r, n).health, Current(n, SyncedNode(r, n).health), Fresh(n)} :
            x = [SyncedNode(r, n) EXCEPT !.health = h]

Moves(n, x) ==
    \/ x = None
    \/ x \in NodeRecords /\ x.health = Fresh(n)
    \/ /\ node[n] # None /\ x \in NodeRecords
       /\ x.disabled = node[n].disabled /\ Aged(node[n].health, x.health)

LEMMA FollowingMoves ==
  ASSUME GroupInv, NEW r \in Revisions, NEW n \in Nodes, NEW x, Follows(r, n, x)
  PROVE  /\ x \in NodeRecords \cup {None} /\ Moves(n, x)
         /\ x = None <=> SyncedNode(r, n) = None
         /\ x # None =>
               /\ x.fingerprint = SyncedNode(r, n).fingerprint
               /\ x.disabled = SyncedNode(r, n).disabled
               /\ SyncedNode(r, n).health.cooling = None => x.health.cooling = None
<1> USE NoneAssumption
<1> DEFINE y == SyncedNode(r, n)
<1>1. CASE y = None
  BY <1>1 DEF Follows, Moves
<1>2. CASE y # None
  <2>1. y \in NodeRecords /\ y.health \in Healths
    BY <1>2, SyncedRecord DEF NodeRecords
  <2>2. Fresh(n) \in Healths /\ Fresh(n).cooling = None
    BY FreshRecord DEF GroupInv, Fresh
  <2>3. now \in Nat /\ ReportsAreOne
    BY ProxyAssumption DEF GroupInv, Typed
  <2>4. PICK h \in {y.health, Current(n, y.health), Fresh(n)} : x = [y EXCEPT !.health = h]
    BY <1>2 DEF Follows
  <2>5. /\ h \in Healths /\ (h = Fresh(n) \/ Aged(y.health, h))
        /\ y.health.cooling = None => h.cooling = None
    BY <2>1, <2>2, <2>3, <2>4, CurrentRecord DEF Aged
  <2>6. /\ x \in NodeRecords /\ x.health = h /\ x.disabled = y.disabled
        /\ x.fingerprint = y.fingerprint
    BY <2>1, <2>4, <2>5 DEF NodeRecords
  <2>7. x # None
    BY <2>6
  <2>8. Moves(n, x)
    <3>1. CASE h = Fresh(n)
      BY <3>1, <2>6 DEF Moves
    <3>2. CASE Aged(y.health, h) /\ y.health = Fresh(n)
      <4>1. h = Fresh(n)
        BY <3>2 DEF Aged, Fresh
      <4> QED BY <4>1, <3>1
    <3>3. CASE Aged(y.health, h) /\ node[n] # None /\ y.health = node[n].health /\ y.disabled = node[n].disabled
      BY <3>3, <2>6 DEF Moves
    <3> QED BY <1>2, <2>5, <3>1, <3>2, <3>3, SyncedRecord
  <2> QED BY <1>2, <2>5, <2>6, <2>7, <2>8
<1> QED BY <1>1, <1>2

\* Nothing has been told of a new generation.
LEMMA NothingTold ==
  ASSUME ReportsAreOne, NEW n
  PROVE  Mine(told, n, Fresh(n).gen) = {}
BY NewGeneration DEF Mine, Fresh, Known

LEMMA HealthMoves ==
  ASSUME GroupInv, NEW n \in Nodes, Moves(n, node'[n]), NEW E, told' = Remembered(E), now' = now,
         \A e \in E : e.node # n \/ node'[n] = None \/ e.gen # node'[n].health.gen,
         node'[n] # None /\ node'[n].disabled => Known(n)' \subseteq Known(n)
  PROVE  HealthIsTold(n)'
<1> SUFFICES ASSUME node'[n] # None
             PROVE  HealthIsTold(n)'
  BY DEF HealthIsTold
<1> DEFINE g == node'[n].health
<1>1. now \in Nat /\ ReportsAreOne /\ told \subseteq Outcomes
  BY ProxyAssumption DEF GroupInv, Typed
<1>2. Mine(told', n, g.gen) = Recent(Mine(told, n, g.gen), now)
  BY DEF Mine, Recent, Remembered
<1>3. CASE g = Fresh(n)
  <2>1. /\ g.failures = {} /\ g.success = None /\ g.cooling = None
        /\ g.gen \notin Known(n)
    BY <1>1, <1>3, NewGeneration DEF Fresh
  <2>2. Mine(told', n, g.gen) = {}
    BY <1>1, <1>2, <1>3, NothingTold DEF Recent
  <2>3. IsFiniteSet({}) /\ Cardinality({}) = 0
    BY FS_EmptySet
  <2>4. Tells(g, Mine(told', n, g.gen), now)
    BY <2>1, <2>2, TellsNothing
  <2> QED BY <2>1, <2>3, <2>4, ProxyAssumption DEF HealthIsTold
<1>4. CASE node[n] # None /\ node'[n].disabled = node[n].disabled /\ Aged(node[n].health, g)
  <2> DEFINE h == node[n].health
  <2>1. h \in Healths /\ HealthIsTold(n)
    BY <1>4, NoneAssumption DEF GroupInv, Typed, NodeRecords
  <2>2. /\ g \in Healths /\ g.gen = h.gen /\ g.success = h.success /\ g.cooling = h.cooling
        /\ g.failures \subseteq h.failures
        /\ \A x \in h.failures : now - x.at < Window => x \in g.failures
    BY <1>4, <2>1 DEF Aged, Healths
  <2>3. /\ IsFiniteSet(g.failures) /\ Cardinality(g.failures) <= Cardinality(h.failures)
        /\ Cardinality(g.failures) \in Nat /\ Cardinality(h.failures) \in Nat
    BY <1>4, <2>1, <2>2, FS_Subset, FS_CardinalityType DEF HealthIsTold
  <2>4. g.cooling = None => Tells(g, Mine(told', n, g.gen), now)
    <3>1. Mine(told, n, h.gen) \in SUBSET Outcomes
      BY <1>1 DEF Mine
    <3> HIDE DEF g, h
    <3>2. g.cooling = None => Tells(h, Mine(told, n, h.gen), now)
      BY <1>4, <2>1, <2>2 DEF HealthIsTold, h
    <3> QED BY <1>1, <1>2, <2>1, <2>2, <3>1, <3>2, TellsRecent
  <2> QED BY <1>4, <2>1, <2>2, <2>3, <2>4, ProxyAssumption DEF HealthIsTold
<1> QED BY <1>3, <1>4 DEF Moves

\* What becomes of the bindings when a configuration is taken over: an owner
\* gets another node only if it could not use its own.
Rebound(r, full, o) ==
    \/ bind'[o] = SyncedBinding(r, full, o)
    \/ /\ bind'[o] # None =>
             /\ bind'[o] \in Nodes /\ node'[bind'[o]] # None /\ ~node'[bind'[o]].disabled
             /\ node'[bind'[o]].health.cooling = None
             /\ SyncedOwners(r, full) = None \/ o \in SyncedOwners(r, full).keys
       /\ bind[o] # None /\ SyncedBinding(r, full, o) = bind[o] =>
             \/ node'[bind[o]] = None \/ node'[bind[o]].disabled
             \/ node'[bind[o]].health.cooling # None

LEMMA ConfigurationStep ==
  ASSUME GroupInv, NEW r \in Revisions, NEW full \in BOOLEAN, ~Stale(r, full),
         meta' = SyncedMeta(r), owners' = SyncedOwners(r, full), told' = Remembered({}), now' = now,
         node' = [n \in Nodes |-> node'[n]], \A n \in Nodes : Follows(r, n, node'[n]),
         bind' = [o \in Owners |-> bind'[o]], \A o \in Owners : Rebound(r, full, o),
         \A n \in Nodes : node'[n] # None /\ node'[n].disabled => Known(n)' \subseteq Known(n)
  PROVE  /\ meta' \in Metadata \cup {None} /\ owners' \in OwnerKeys \cup {None}
         /\ node' \in [Nodes -> NodeRecords \cup {None}] /\ bind' \in [Owners -> Nodes \cup {None}]
         /\ Consistent' /\ BindingsAreUsable' /\ \A n \in Nodes : HealthIsTold(n)'
         /\ KeepsLatest /\ KeepsBindings /\ CoolsByFailures
<1> USE NoneAssumption
<1>1. \A n \in Nodes :
         /\ node'[n] \in NodeRecords \cup {None} /\ Moves(n, node'[n])
         /\ node'[n] = None <=> n \notin DOMAIN Configs[r].nodes
         /\ node'[n] # None =>
               /\ node'[n].fingerprint = Configs[r].nodes[n].fingerprint
               /\ node'[n].disabled = Configs[r].nodes[n].disabled
               /\ SyncedNode(r, n).health.cooling = None => node'[n].health.cooling = None
  BY FollowingMoves, SyncedRecord
<1>2. /\ meta' \in Metadata /\ meta'.rev \in Revisions /\ meta'.signature = Signature(r)
      /\ Signature(meta'.rev) = Signature(r) /\ meta' # None
      /\ Configs[meta'.rev].nodes = Configs[r].nodes
      /\ Configs[meta'.signature].strategy = Configs[r].strategy
  <2>1. /\ meta' \in Metadata /\ meta'.signature = Signature(r) /\ Signature(meta'.rev) = Signature(r)
    BY SyncedConfiguration
  <2>2. meta'.rev \in Revisions /\ meta' # None
    BY <2>1 DEF Metadata
  <2> QED BY <2>1, <2>2, SignatureIsTrue
<1>3. Consistent'
  BY <1>1, <1>2, SyncedConfiguration DEF Consistent
<1>4. KeepsLatest
  BY <1>3, SyncedConfiguration DEF KeepsLatest
<1>5. \A n \in Nodes : HealthIsTold(n)'
  BY <1>1, HealthMoves
<1>6. CoolsByFailures
  <2> SUFFICES ASSUME NEW n \in Nodes, node[n] # None, node[n].health.cooling = None, node'[n] # None
               PROVE  node'[n].health.cooling = None
    BY DEF CoolsByFailures
  <2>1. node[n].health \in Healths
    BY DEF GroupInv, Typed, NodeRecords
  <2>2. CASE node'[n].health = Fresh(n)
    BY <2>2 DEF Fresh
  <2>3. CASE Aged(node[n].health, node'[n].health)
    BY <2>1, <2>3 DEF Aged, Healths
  <2> QED BY <1>1, <2>2, <2>3 DEF Moves
<1>7. \A o \in Owners : bind[o] # None /\ SyncedBinding(r, full, o) = bind[o] =>
         /\ bind[o] \in Nodes /\ node'[bind[o]] # None /\ ~node'[bind[o]].disabled
         /\ node'[bind[o]].health.cooling = None
         /\ SyncedOwners(r, full) = None \/ o \in SyncedOwners(r, full).keys
  <2> SUFFICES ASSUME NEW o \in Owners, bind[o] # None, SyncedBinding(r, full, o) = bind[o]
               PROVE  /\ bind[o] \in Nodes /\ node'[bind[o]] # None /\ ~node'[bind[o]].disabled
                      /\ node'[bind[o]].health.cooling = None
                      /\ SyncedOwners(r, full) = None \/ o \in SyncedOwners(r, full).keys
    OBVIOUS
  <2> DEFINE n == bind[o]
  <2>1. /\ n \in Nodes /\ node[n] # None /\ ~node[n].disabled /\ node[n].health.cooling = None
        /\ owners = None \/ o \in owners.keys
    BY DEF GroupInv, Typed, BindingsAreUsable
  <2>2. SyncedNode(r, n) # None /\ ~SyncedNode(r, n).disabled
    <3>1. CASE SameNodes(r)
      BY <2>1, <3>1 DEF SyncedNode
    <3>2. CASE ~SameNodes(r)
      BY <3>2 DEF SyncedBinding
    <3> QED BY <3>1, <3>2
  <2>3. SyncedNode(r, n).health.cooling = None
    <3>1. SyncedNode(r, n).health \in {Fresh(n), node[n].health}
      BY <2>1, <2>2, SyncedRecord
    <3> QED BY <2>1, <3>1 DEF Fresh
  <2>4. SyncedOwners(r, full) = None \/ o \in SyncedOwners(r, full).keys
    BY <2>1 DEF SyncedBinding, SyncedOwners, SameOwners
  <2> QED BY <1>1, <2>1, <2>2, <2>3, <2>4, SyncedRecord
<1>8. \A o \in Owners : SyncedBinding(r, full, o) \in {bind[o], None}
  BY DEF SyncedBinding
<1>9. BindingsAreUsable' /\ bind' \in [Owners -> Nodes \cup {None}]
  <2> SUFFICES ASSUME NEW o \in Owners, bind'[o] # None
               PROVE  /\ bind'[o] \in Nodes /\ node'[bind'[o]] # None /\ ~node'[bind'[o]].disabled
                      /\ node'[bind'[o]].health.cooling = None
                      /\ owners' = None \/ o \in owners'.keys
    BY DEF BindingsAreUsable
  <2> QED BY <1>7, <1>8 DEF Rebound
<1>10. KeepsBindings
  <2> SUFFICES ASSUME NEW o \in Owners, bind[o] # None, bind'[o] # bind[o]
               PROVE  \/ node'[bind[o]] = None \/ node'[bind[o]].disabled
                      \/ node'[bind[o]].health.cooling # None
                      \/ owners' # None /\ o \notin owners'.keys
                      \/ Configs[meta'.signature].strategy # Configs[meta.signature].strategy
    BY DEF KeepsBindings
  <2>1. CASE SyncedBinding(r, full, o) = bind[o]
    <3>1. bind'[o] # SyncedBinding(r, full, o)
      BY <2>1
    <3>2. \/ node'[bind[o]] = None \/ node'[bind[o]].disabled
          \/ node'[bind[o]].health.cooling # None
      BY <2>1, <3>1 DEF Rebound
    <3> QED BY <3>2
  <2>2. CASE full /\ ~SameOwners(r) /\ o \notin Configs[r].owners
    <3>1. owners'.keys = Configs[r].owners /\ owners' \in OwnerKeys
      BY <2>2, ProxyAssumption DEF SyncedOwners, OwnerKeys
    <3> QED BY <2>2, <3>1
  <2>3. CASE meta # None /\ Configs[meta.signature].strategy # Configs[r].strategy
    BY <1>2, <2>3
  <2>4. CASE SyncedNode(r, bind[o]) = None \/ SyncedNode(r, bind[o]).disabled
    <3>1. bind[o] \in Nodes
      BY DEF GroupInv, Typed
    <3> QED BY <1>1, <2>4, <3>1, SyncedRecord
  <2> QED BY <2>1, <2>2, <2>3, <2>4 DEF SyncedBinding
<1>11. node' \in [Nodes -> NodeRecords \cup {None}] /\ owners' \in OwnerKeys \cup {None}
  BY <1>1, SyncedConfiguration
<1> QED BY <1>2, <1>3, <1>4, <1>5, <1>6, <1>9, <1>10, <1>11

-----------------------------------------------------------------------------
(* The steps. *)

StepIsJust == GroupInv' /\ KeepsLatest /\ KeepsBindings /\ CoolsByFailures

LEMMA GroupInit == Init => GroupInv
<1> SUFFICES ASSUME Init PROVE GroupInv
  OBVIOUS
<1> USE ProxyAssumption, NoneAssumption DEF Init
<1>1. Typed
  <2>1. NoRequest \in RequestRecords
    BY DEF NoRequest, RequestRecords
  <2>2. limit.time \in Nat
    OBVIOUS
  <2> QED BY <2>1, <2>2 DEF Typed
<1>2. Consistent /\ BindingsAreUsable
  BY DEF Consistent, BindingsAreUsable
<1>3. ReportsAreOne
  BY FS_EmptySet DEF ReportsAreOne
<1>4. RequestsAreBounded
  BY DEF RequestsAreBounded, RequestIsBounded, NoRequest
<1>5. \A n \in Nodes : HealthIsTold(n)
  BY DEF HealthIsTold
<1> QED BY <1>1, <1>2, <1>3, <1>4, <1>5 DEF GroupInv

LEMMA ObjectStays ==
  ASSUME GroupInv, UNCHANGED <<object, told, now>>, \A n \in Nodes : Known(n)' \subseteq Known(n)
  PROVE  /\ Consistent' /\ BindingsAreUsable' /\ \A n \in Nodes : HealthIsTold(n)'
         /\ KeepsLatest /\ KeepsBindings /\ CoolsByFailures
<1> USE DEF GroupInv, object
<1>1. Consistent' /\ BindingsAreUsable'
  BY DEF Consistent, BindingsAreUsable
<1>2. \A n \in Nodes : HealthIsTold(n)'
  BY DEF HealthIsTold
<1>3. (meta # None => meta.rev \in Nat) /\ (owners # None => owners.rev \in Nat)
  BY ProxyAssumption DEF Typed, Metadata, OwnerKeys
<1>4. KeepsLatest
  BY <1>1, <1>3 DEF KeepsLatest
<1>5. KeepsBindings /\ CoolsByFailures
  BY DEF KeepsBindings, CoolsByFailures
<1> QED BY <1>1, <1>2, <1>4, <1>5

\* A step of one request that leaves the group's object alone; it may report.
LEMMA RequestStep ==
  ASSUME GroupInv, UNCHANGED <<object, told, now, limit>>, NEW q \in Requests,
         req' \in [Requests -> RequestRecords], \A p \in Requests \ {q} : req'[p] = req[p],
         RequestIsBounded(req'[q]), req'[q].lease \in {None, req[q].lease},
         \/ mail' \subseteq mail /\ dials' = dials
         \/ /\ dials' = dials + 1 /\ req[q].lease # None
            /\ \E ok \in BOOLEAN : mail' = mail \cup {Report(q, ok)}
  PROVE  StepIsJust
<1> USE ProxyAssumption, NoneAssumption DEF GroupInv
<1>1. Typed' /\ ReportsAreOne'
  <2>1. now \in Nat /\ dials \in Nat /\ IsFiniteSet(mail) /\ mail \cup told \subseteq Outcomes
    BY DEF Typed, ReportsAreOne
  <2>2. CASE mail' \subseteq mail /\ dials' = dials
    BY <2>1, <2>2, FS_Subset DEF Typed, ReportsAreOne, object
  <2>3. CASE dials' = dials + 1 /\ req[q].lease # None /\ \E ok \in BOOLEAN : mail' = mail \cup {Report(q, ok)}
    <3>1. PICK ok \in BOOLEAN : mail' = mail \cup {Report(q, ok)}
      BY <2>3
    <3>2. req[q].lease \in Leases
      BY <2>3 DEF Typed, RequestRecords
    <3>3. /\ Report(q, ok) \in Outcomes /\ Report(q, ok).id = dials + 1
          /\ Report(q, ok).at = now
      BY <2>1, <3>2 DEF Report, Leases, Outcomes
    <3>4. Typed'
      BY <2>1, <2>3, <3>1, <3>3 DEF Typed, object
    <3>5. IsFiniteSet(mail')
      BY <2>1, <3>1, FS_AddElement
    <3>6. \A e \in mail' \cup told' :
             e = Report(q, ok) \/ (e \in mail \cup told /\ e.id <= dials /\ e.at <= now /\ e.id \in Nat)
      BY <2>1, <3>1 DEF ReportsAreOne, Outcomes
    <3> QED BY <2>1, <2>3, <3>3, <3>4, <3>5, <3>6 DEF ReportsAreOne
  <2> QED BY <2>2, <2>3
<1>2. RequestsAreBounded'
  BY DEF RequestsAreBounded
<1>3. \A n \in Nodes : Known(n)' \subseteq Known(n)
  <2> SUFFICES ASSUME NEW n \in Nodes, NEW g \in Known(n)' PROVE g \in Known(n)
    OBVIOUS
  <2>1. \A e \in mail' :
           \/ e \in mail
           \/ /\ req[q].lease # None
              /\ e.node = req[q].lease.node /\ e.gen = req[q].lease.gen
    BY DEF Report
  <2>2. CASE \E e \in mail' \cup told' : e.node = n /\ g = e.gen
    BY <2>1, <2>2 DEF Known
  <2>3. CASE \E p \in Requests : req'[p].lease # None /\ req'[p].lease.node = n /\ g = req'[p].lease.gen
    BY <2>3 DEF Known
  <2> QED BY <2>2, <2>3 DEF Known
<1> QED BY <1>1, <1>2, <1>3, ObjectStays DEF StepIsJust

LEMMA StartStep ==
  ASSUME GroupInv, NEW q \in Requests, NEW r \in Revisions, NEW full \in BOOLEAN, NEW o \in Owners,
         Start(q, r, full, o)
  PROVE  StepIsJust
<1>1. /\ req' \in [Requests -> RequestRecords] /\ RequestIsBounded(req'[q])
      /\ req'[q].lease = None
  BY DEF GroupInv, Typed, Start, NoRequest, RequestRecords, RequestIsBounded
<1> QED BY <1>1, RequestStep DEF Start, object

\* A request that is over.
LEMMA Ended ==
  ASSUME GroupInv, NEW q \in Requests, End(q)
  PROVE  /\ req' \in [Requests -> RequestRecords] /\ RequestIsBounded(req'[q])
         /\ req'[q].lease = None /\ \A p \in Requests \ {q} : req'[p] = req[p]
BY DEF GroupInv, Typed, End, NoRequest, RequestRecords, RequestIsBounded

LEMMA EndStep ==
  ASSUME GroupInv, NEW q \in Requests, SelectFails(q) \/ Abort(q) \/ Lose(q)
  PROVE  StepIsJust
<1>1. End(q) /\ UNCHANGED <<object, told, now, limit>> /\ mail' \subseteq mail /\ dials' = dials
  BY DEF SelectFails, Abort, Lose
<1> QED BY <1>1, Ended, RequestStep

LEMMA ConnectStep ==
  ASSUME GroupInv, NEW q \in Requests, Connect(q)
  PROVE  StepIsJust
<1>1. req[q] \in RequestRecords /\ RequestIsBounded(req[q]) /\ req[q].pc = "dial"
  BY DEF GroupInv, Typed, RequestsAreBounded, Connect
<1>2. req[q].lease \in Leases /\ req[q].lease.node \in Nodes /\ req[q].lease # None
  BY <1>1, NoneAssumption DEF RequestIsBounded, Leases
<1> DEFINE tried == req[q].tried \cup {req[q].lease.node}
<1>tried. tried \in SUBSET Nodes
  BY <1>1, <1>2 DEF RequestRecords
<1>3. req'[q] = [req[q] EXCEPT !.pc = "sent", !.tried = @ \cup {req[q].lease.node}]
  BY DEF Connect, GroupInv, Typed
<1>4. /\ req'[q] \in RequestRecords /\ req'[q].lease = req[q].lease
      /\ RequestIsBounded(req'[q])
  <2>1. /\ req'[q] \in RequestRecords /\ req'[q].pc = "sent" /\ req'[q].tried = tried
        /\ req'[q].lease = req[q].lease /\ req'[q].rev = req[q].rev
        /\ req'[q].owner = req[q].owner /\ req'[q].switched = req[q].switched
        /\ req'[q].spent = req[q].spent /\ req'[q].hops = req[q].hops
    <3>1. req'[q] = [req[q] EXCEPT !.pc = "sent", !.tried = tried]
      BY <1>3
    <3> HIDE DEF tried
    <3> QED BY <1>1, <1>tried, <3>1 DEF RequestRecords
  <2> QED BY <1>1, <2>1 DEF RequestIsBounded
<1>5. req' \in [Requests -> RequestRecords] /\ \A p \in Requests \ {q} : req'[p] = req[p]
  BY <1>4 DEF Connect, GroupInv, Typed
<1>6. mail' = mail \cup {Report(q, TRUE)} /\ dials' = dials + 1 /\ UNCHANGED <<object, told, now, limit>>
  BY DEF Connect
<1> QED BY <1>2, <1>4, <1>5, <1>6, RequestStep

LEMMA ProxyFailsStep ==
  ASSUME GroupInv, NEW q \in Requests, NEW late \in BOOLEAN, ProxyFails(q, late)
  PROVE  StepIsJust
<1>1. req[q] \in RequestRecords /\ RequestIsBounded(req[q]) /\ req[q].pc = "dial" /\ dials \in Nat
  BY DEF GroupInv, Typed, RequestsAreBounded, ProxyFails
<1>2. req[q].lease \in Leases /\ req[q].lease.node \in Nodes /\ req[q].lease # None
  BY <1>1, NoneAssumption DEF RequestIsBounded, Leases
<1> DEFINE tried == req[q].tried \cup {req[q].lease.node}
<1>tried. tried \in SUBSET Nodes
  BY <1>1, <1>2 DEF RequestRecords
<1>3. mail' = mail \cup {Report(q, FALSE)} /\ dials' = dials + 1 /\ UNCHANGED <<object, told, now, limit>>
  BY DEF ProxyFails
<1>4. CASE MaySwitch(req[q]) /\ ~late
  <2>1. req'[q] = [req[q] EXCEPT !.pc = "record", !.event = dials + 1, !.tried = tried]
    BY <1>4 DEF ProxyFails, GroupInv, Typed
  <2>2. /\ req'[q] \in RequestRecords /\ req'[q].lease = req[q].lease
        /\ RequestIsBounded(req'[q])
    <3>1. /\ req'[q] \in RequestRecords /\ req'[q].pc = "record" /\ req'[q].tried = tried
          /\ req'[q].lease = req[q].lease /\ req'[q].rev = req[q].rev
          /\ req'[q].owner = req[q].owner /\ req'[q].switched = req[q].switched
          /\ req'[q].spent = req[q].spent /\ req'[q].hops = req[q].hops
      <4>1. dials + 1 \in Nat
        BY <1>1
      <4> HIDE DEF tried
      <4> QED BY <1>1, <1>tried, <2>1, <4>1 DEF RequestRecords
    <3>2. \A x, y \in req'[q].tried : x = y
      BY <1>1, <1>4, <3>1 DEF RequestIsBounded, MaySwitch
    <3> QED BY <1>1, <1>4, <3>1, <3>2 DEF RequestIsBounded, MaySwitch
  <2>3. req' \in [Requests -> RequestRecords] /\ \A p \in Requests \ {q} : req'[p] = req[p]
    BY <1>4, <2>2 DEF ProxyFails, GroupInv, Typed
  <2> QED BY <1>2, <1>3, <2>2, <2>3, RequestStep
<1>5. CASE ~ (MaySwitch(req[q]) /\ ~late)
  BY <1>2, <1>3, <1>5, Ended, RequestStep DEF ProxyFails
<1> QED BY <1>4, <1>5

LEMMA TargetRejectsStep ==
  ASSUME GroupInv, NEW q \in Requests, NEW late \in BOOLEAN, TargetRejects(q, late)
  PROVE  StepIsJust
<1>1. req[q] \in RequestRecords /\ RequestIsBounded(req[q]) /\ req[q].pc = "dial"
  BY DEF GroupInv, Typed, RequestsAreBounded, TargetRejects
<1>2. req[q].lease \in Leases /\ req[q].lease.node \in Nodes
  BY <1>1 DEF RequestIsBounded, Leases
<1> DEFINE tried == req[q].tried \cup {req[q].lease.node}
<1>tried. tried \in SUBSET Nodes
  BY <1>1, <1>2 DEF RequestRecords
<1>3. UNCHANGED <<object, mail, dials, now, told, limit>>
  BY DEF TargetRejects
<1>4. CASE MaySwitch(req[q]) /\ ~late
  <2>1. req'[q] = [req[q] EXCEPT !.pc = "select", !.tried = tried]
    BY <1>4 DEF TargetRejects, GroupInv, Typed
  <2>2. /\ req'[q] \in RequestRecords /\ req'[q].lease = req[q].lease
        /\ RequestIsBounded(req'[q])
    <3>1. /\ req'[q] \in RequestRecords /\ req'[q].pc = "select" /\ req'[q].tried = tried
          /\ req'[q].lease = req[q].lease /\ req'[q].rev = req[q].rev
          /\ req'[q].owner = req[q].owner /\ req'[q].switched = req[q].switched
          /\ req'[q].spent = req[q].spent /\ req'[q].hops = req[q].hops
      <4> HIDE DEF tried
      <4> QED BY <1>1, <1>tried, <2>1 DEF RequestRecords
    <3>2. \A x, y \in req'[q].tried : x = y
      BY <1>1, <1>4, <3>1 DEF RequestIsBounded, MaySwitch
    <3> QED BY <1>1, <1>4, <3>1, <3>2 DEF RequestIsBounded, MaySwitch
  <2>3. req' \in [Requests -> RequestRecords] /\ \A p \in Requests \ {q} : req'[p] = req[p]
    BY <1>4, <2>2 DEF TargetRejects, GroupInv, Typed
  <2> QED BY <1>3, <2>2, <2>3, RequestStep
<1>5. CASE ~ (MaySwitch(req[q]) /\ ~late)
  BY <1>3, <1>5, Ended, RequestStep DEF TargetRejects
<1> QED BY <1>4, <1>5

LEMMA RetryStep ==
  ASSUME GroupInv, NEW q \in Requests, Retry(q)
  PROVE  StepIsJust
<1>1. req[q] \in RequestRecords /\ RequestIsBounded(req[q]) /\ req[q].pc = "sent"
  BY DEF GroupInv, Typed, RequestsAreBounded, Retry
<1>2. req'[q] = [req[q] EXCEPT !.pc = "dial"]
  BY DEF Retry, GroupInv, Typed
<1>3. /\ req'[q] \in RequestRecords /\ req'[q].lease = req[q].lease
      /\ RequestIsBounded(req'[q])
  BY <1>1, <1>2 DEF RequestRecords, RequestIsBounded
<1>4. req' \in [Requests -> RequestRecords] /\ \A p \in Requests \ {q} : req'[p] = req[p]
  BY <1>3 DEF Retry, GroupInv, Typed
<1> QED BY <1>3, <1>4, RequestStep DEF Retry

LEMMA NextAccountStep ==
  ASSUME GroupInv, NEW q \in Requests, NEW o \in Owners, NextAccount(q, o)
  PROVE  StepIsJust
<1>1. req[q] \in RequestRecords /\ RequestIsBounded(req[q]) /\ req[q].pc = "sent"
  BY DEF GroupInv, Typed, RequestsAreBounded, NextAccount
<1>2. req'[q] = [NoRequest EXCEPT !.pc = "select", !.rev = req[q].rev, !.full = TRUE,
                                  !.owner = o, !.spent = req[q].spent, !.hops = req[q].hops]
  BY DEF NextAccount, GroupInv, Typed
<1>3. /\ req'[q] \in RequestRecords /\ req'[q].lease = None
      /\ RequestIsBounded(req'[q])
  <2>1. /\ req'[q] \in RequestRecords /\ req'[q].pc = "select" /\ req'[q].tried = {}
        /\ req'[q].lease = None /\ req'[q].rev = req[q].rev /\ req'[q].owner = o
        /\ req'[q].switched = FALSE /\ req'[q].spent = req[q].spent /\ req'[q].hops = req[q].hops
    BY <1>1, <1>2 DEF RequestRecords, NoRequest
  <2> QED BY <1>1, <2>1 DEF RequestIsBounded
<1>4. req' \in [Requests -> RequestRecords] /\ \A p \in Requests \ {q} : req'[p] = req[p]
  BY <1>3 DEF NextAccount, GroupInv, Typed
<1> QED BY <1>3, <1>4, RequestStep DEF NextAccount

\* Time passes: reports grow older, and what counted may not count any more.
LEMMA TickStep ==
  ASSUME GroupInv, Tick
  PROVE  StepIsJust
<1> USE ProxyAssumption, NoneAssumption DEF GroupInv, Tick, object
<1>1. now \in Nat /\ limit.time \in Nat /\ told \subseteq Outcomes /\ mail \subseteq Outcomes
  BY DEF Typed
<1>2. Typed'
  BY <1>1 DEF Typed
<1>3. ReportsAreOne'
  BY <1>1 DEF ReportsAreOne, Outcomes
<1>4. RequestsAreBounded' /\ Consistent' /\ BindingsAreUsable'
  BY DEF RequestsAreBounded, Consistent, BindingsAreUsable
<1>5. ASSUME NEW n \in Nodes PROVE HealthIsTold(n)'
  <2> SUFFICES ASSUME node[n] # None PROVE HealthIsTold(n)'
    BY DEF HealthIsTold
  <2> DEFINE h == node[n].health
  <2>1. h \in Healths /\ HealthIsTold(n)
    BY DEF Typed, NodeRecords
  <2>2. Known(n)' = Known(n)
    BY DEF Known
  <2>3. Mine(told, n, h.gen) \in SUBSET Outcomes
    BY <1>1 DEF Mine
  <2>4. h.cooling = None => Tells(h, Mine(told, n, h.gen), now + 1)
    BY <1>1, <2>1, <2>3, TellsLater DEF HealthIsTold
  <2>5. (h.success # None => h.success \in Nat) /\ (h.cooling # None => h.cooling \in Nat)
    BY <2>1 DEF Healths
  <2> QED BY <1>1, <2>1, <2>2, <2>4, <2>5 DEF HealthIsTold
<1>6. (meta # None => meta.rev \in Nat) /\ (owners # None => owners.rev \in Nat)
  BY ProxyAssumption DEF Typed, Metadata, OwnerKeys
<1>7. KeepsLatest /\ KeepsBindings /\ CoolsByFailures
  BY <1>4, <1>6 DEF KeepsLatest, KeepsBindings, CoolsByFailures
<1> QED BY <1>2, <1>3, <1>4, <1>5, <1>7 DEF StepIsJust

\* A call of the console, or the configuration part of a selection.
LEMMA ConsoleStep ==
  ASSUME GroupInv, NEW r \in Revisions, ~Stale(r, TRUE),
         meta' = SyncedMeta(r), owners' = SyncedOwners(r, TRUE), told' = Remembered({}),
         node' = [n \in Nodes |-> node'[n]], \A n \in Nodes : Follows(r, n, node'[n]),
         bind' = [o \in Owners |-> SyncedBinding(r, TRUE, o)],
         UNCHANGED <<req, mail, dials, now, limit>>
  PROVE  StepIsJust
<1>1. told' \subseteq told
  BY DEF Remembered
<1>2. \A n \in Nodes : Known(n)' \subseteq Known(n)
  BY <1>1 DEF Known
<1>3. bind' = [o \in Owners |-> bind'[o]] /\ \A o \in Owners : Rebound(r, TRUE, o)
  BY DEF Rebound
<1>4. /\ meta' \in Metadata \cup {None} /\ owners' \in OwnerKeys \cup {None}
      /\ node' \in [Nodes -> NodeRecords \cup {None}] /\ bind' \in [Owners -> Nodes \cup {None}]
      /\ Consistent' /\ BindingsAreUsable' /\ \A n \in Nodes : HealthIsTold(n)'
      /\ KeepsLatest /\ KeepsBindings /\ CoolsByFailures
  BY <1>2, <1>3, ConfigurationStep
<1>5. Typed' /\ RequestsAreBounded'
  BY <1>1, <1>4 DEF GroupInv, Typed, RequestsAreBounded
<1>6. ReportsAreOne'
  BY <1>1, FS_Subset DEF GroupInv, ReportsAreOne
<1> QED BY <1>4, <1>5, <1>6 DEF GroupInv, StepIsJust

\* What select() and getStatus() see is the node as it follows from the revision.
LEMMA SeenFollows ==
  ASSUME GroupInv, NEW r \in Revisions, NEW n \in Nodes
  PROVE  Follows(r, n, Seen(r, n))
BY SyncedRecord, NoneAssumption DEF Seen, Follows, NodeRecords

LEMMA GetStatusStep ==
  ASSUME GroupInv, NEW r \in Revisions, GetStatus(r)
  PROVE  StepIsJust
<1>1. node' = [n \in Nodes |-> node'[n]] /\ \A n \in Nodes : node'[n] = Seen(r, n)
  BY DEF GetStatus, Sync
<1> QED BY <1>1, SeenFollows, ConsoleStep DEF GetStatus, Sync

LEMMA ClearStep ==
  ASSUME GroupInv, NEW r \in Revisions, NEW n \in Nodes, Clear(r, n)
  PROVE  StepIsJust
<1>1. node' = [m \in Nodes |-> node'[m]]
  BY DEF Clear
<1>2. ASSUME NEW m \in Nodes PROVE Follows(r, m, node'[m])
  <2>1. CASE m = n
    <3>1. node'[m] = [SyncedNode(r, n) EXCEPT !.health = Fresh(n)] /\ SyncedNode(r, n) # None
      BY <2>1, SyncedRecord DEF Clear
    <3> QED BY <2>1, <3>1 DEF Follows
  <2>2. CASE m # n
    <3>1. node'[m] = SyncedNode(r, m)
      BY <2>2 DEF Clear
    <3>2. SyncedNode(r, m) \in NodeRecords =>
             SyncedNode(r, m) = [SyncedNode(r, m) EXCEPT !.health = SyncedNode(r, m).health]
      BY DEF NodeRecords
    <3> QED BY <3>1, <3>2, SyncedRecord DEF Follows
  <2> QED BY <2>1, <2>2
<1> QED BY <1>1, <1>2, ConsoleStep DEF Clear

\* A node is chosen among the healthy ones.
LEMMA ChosenIsHealthy ==
  ASSUME NEW r, NEW full, NEW o, NEW exclude, NEW chosen,
         chosen \in Selectable(r, full, o, exclude, Healthy(r))
  PROVE  chosen \in Healthy(r)
BY DEF Selectable, Eligible

LEMMA SelectNodeStep ==
  ASSUME GroupInv, NEW q \in Requests, NEW chosen \in Nodes \cup {None}, SelectNode(q, chosen)
  PROVE  StepIsJust
<1> DEFINE t == req[q]
           r == t.rev
           full == t.full
           o == t.owner
<1> USE NoneAssumption
<1>1. t \in RequestRecords /\ RequestIsBounded(t) /\ t.pc = "select"
  BY DEF GroupInv, Typed, RequestsAreBounded, SelectNode
<1>2. r \in Revisions /\ full \in BOOLEAN /\ o \in Owners
  BY <1>1 DEF RequestRecords, RequestIsBounded
<1>3. Select(r, full, o, t.tried, chosen) /\ UNCHANGED <<mail, dials, now, limit>>
  BY DEF SelectNode
<1>4. /\ ~Stale(r, full) /\ meta' = SyncedMeta(r) /\ owners' = SyncedOwners(r, full)
      /\ told' = Remembered({}) /\ told' \subseteq told
      /\ node' = [n \in Nodes |-> node'[n]] /\ \A n \in Nodes : node'[n] = Seen(r, n)
  BY <1>3 DEF Select, Sync, Remembered
<1>5. \A n \in Nodes : Follows(r, n, node'[n])
  BY <1>2, <1>4, SeenFollows
<1>6. chosen # None =>
         chosen \in Nodes /\ node'[chosen] # None /\ ~node'[chosen].disabled
         /\ node'[chosen].health.cooling = None
  <2>1. chosen # None => chosen \in Healthy(r)
    BY <1>3, ChosenIsHealthy DEF Select
  <2> QED BY <1>4, <2>1 DEF Healthy
<1>7. \A x \in Owners : Rebound(r, full, x)
  <2> SUFFICES ASSUME NEW x \in Owners, bind'[x] # SyncedBinding(r, full, x)
               PROVE  Rebound(r, full, x)
    BY DEF Rebound
  <2>1. x = o /\ ReplacesBinding(r, full, o, t.tried, Healthy(r)) /\ bind'[x] = chosen
    BY <1>3 DEF Select
  <2>2. SyncedOwners(r, full) = None \/ o \in SyncedOwners(r, full).keys
    BY <2>1 DEF ReplacesBinding
  <2>3. SyncedBinding(r, full, o) \notin Healthy(r)
    BY <2>1 DEF ReplacesBinding
  <2>4. bind[o] # None => bind[o] \in Nodes
    BY <1>2 DEF GroupInv, Typed
  <2>5. bind[o] # None /\ SyncedBinding(r, full, o) = bind[o] =>
           \/ node'[bind[o]] = None \/ node'[bind[o]].disabled
           \/ node'[bind[o]].health.cooling # None
    BY <1>4, <2>3, <2>4 DEF Healthy
  <2> QED BY <1>6, <2>1, <2>2, <2>5 DEF Rebound
<1>8. bind' = [x \in Owners |-> bind'[x]]
  BY <1>3 DEF Select
<1>9. CASE chosen = None
  <2>1. End(q)
    BY <1>9 DEF SelectNode
  <2>2. /\ req' \in [Requests -> RequestRecords] /\ RequestIsBounded(req'[q])
        /\ req'[q].lease = None /\ \A p \in Requests \ {q} : req'[p] = req[p]
    BY <2>1, Ended
  <2>3. \A n \in Nodes : Known(n)' \subseteq Known(n)
    BY <1>3, <1>4, <2>2 DEF Known
  <2> QED BY <1>2, <1>3, <1>4, <1>5, <1>7, <1>8, <2>2, <2>3, ConfigurationStep, FS_Subset
          DEF StepIsJust, GroupInv, Typed, ReportsAreOne, RequestsAreBounded
<1>10. CASE chosen # None
  <2> DEFINE lease == [node |-> chosen, gen |-> node'[chosen].health.gen]
  <2>1. node'[chosen] \in NodeRecords
    BY <1>2, <1>5, <1>6, <1>10, FollowingMoves
  <2>2. lease \in Leases
    BY <1>6, <1>10, <2>1 DEF NodeRecords, Healths, Leases
  <2>3. /\ req' = [req EXCEPT ![q] = req'[q]]
        /\ req'[q] = [t EXCEPT !.pc = "dial", !.lease = lease, !.switched = t.tried # {},
                              !.spent = t.spent \/ t.tried # {},
                              !.hops = IF t.tried # {} THEN t.hops + 1 ELSE t.hops]
    BY <1>10 DEF SelectNode, GroupInv, Typed
  <2>4. /\ req'[q] \in RequestRecords /\ req'[q].pc = "dial" /\ req'[q].lease = lease
        /\ req'[q].tried = t.tried /\ req'[q].switched = (t.tried # {})
        /\ req'[q].spent = (t.spent \/ t.tried # {}) /\ req'[q].rev = t.rev /\ req'[q].owner = t.owner
        /\ req'[q].hops = IF t.tried # {} THEN t.hops + 1 ELSE t.hops
    <3> HIDE DEF lease
    <3>1. (t.tried # {}) \in BOOLEAN /\ (t.spent \/ t.tried # {}) \in BOOLEAN
      OBVIOUS
    <3>2. (IF t.tried # {} THEN t.hops + 1 ELSE t.hops) \in Nat
      BY <1>1 DEF RequestRecords
    <3> QED BY <1>1, <2>2, <2>3, <3>1, <3>2 DEF RequestRecords
  <2>5. RequestIsBounded(req'[q])
    <3> HIDE DEF lease
    <3>1. lease \in Leases /\ t.rev \in Revisions /\ t.owner \in Owners
      BY <1>2, <2>2
    <3>2. CASE t.tried = {}
      <4>1. t.hops = 0 \/ (t.hops = 1 /\ t.spent)
        BY <1>1 DEF RequestIsBounded
      <4>2. /\ req'[q].tried = {} /\ req'[q].hops = t.hops
            /\ t.spent => req'[q].spent
        BY <2>4, <3>2
      <4> QED BY <2>4, <3>1, <4>1, <4>2 DEF RequestIsBounded
    <3>3. CASE t.tried # {}
      <4>1. t.hops = 0 /\ \A x, y \in t.tried : x = y
        BY <1>1, <3>3 DEF RequestIsBounded
      <4>2. req'[q].hops = 1
        BY <2>4, <3>3, <4>1
      <4>3. req'[q].spent /\ req'[q].switched
        BY <2>4, <3>3, Zenon
      <4> QED BY <2>4, <3>1, <4>1, <4>2, <4>3 DEF RequestIsBounded
    <3> QED BY <3>2, <3>3
  <2>6. req' \in [Requests -> RequestRecords] /\ \A p \in Requests \ {q} : req'[p] = req[p]
    BY <2>3, <2>4 DEF GroupInv, Typed
  <2>7. ASSUME NEW n \in Nodes, node'[n] # None, node'[n].disabled
        PROVE  Known(n)' \subseteq Known(n)
    <3>1. n # chosen
      BY <1>6, <1>10, <2>7
    <3> QED BY <1>3, <1>4, <2>4, <2>6, <3>1 DEF Known
  <2> HIDE DEF lease
  <2> QED BY <1>2, <1>3, <1>4, <1>5, <1>7, <1>8, <2>5, <2>6, <2>7, ConfigurationStep, FS_Subset
          DEF StepIsJust, GroupInv, Typed, ReportsAreOne, RequestsAreBounded
<1> QED BY <1>9, <1>10

LEMMA ReportMoves ==
  ASSUME GroupInv, NEW e \in mail, NEW n \in Nodes, Moves(n, node'[n]), told' = Remembered({e}),
         now' = now, e.node # n \/ node'[n] = None \/ e.gen # node'[n].health.gen,
         \A k \in Nodes : Known(k)' \subseteq Known(k)
  PROVE  HealthIsTold(n)'
BY HealthMoves

\* What a report makes of a node's record: it goes on telling what was told, and
\* starts a cooldown only when failures enough count.
LEMMA ObservedRecord ==
  ASSUME GroupInv, NEW e \in mail, NEW n \in Nodes, e.node = n, node[n] # None, ~node[n].disabled,
         node'[n] = [node[n] EXCEPT !.health = Observed(n, node[n].health, e)],
         told' = Remembered({e}), now' = now, \A k \in Nodes : Known(k)' \subseteq Known(k)
  PROVE  /\ node'[n] \in NodeRecords /\ node'[n].fingerprint = node[n].fingerprint
         /\ ~node'[n].disabled /\ node'[n].health = Observed(n, node[n].health, e)
         /\ HealthIsTold(n)'
         /\ node[n].health.cooling = None /\ node'[n].health.cooling # None =>
               /\ e.gen = node[n].health.gen /\ ~e.ok
               /\ Cardinality(Counting(n) \cup {e}) >= Threshold
<1> DEFINE h == node[n].health
           c == Current(n, h)
           g == Observed(n, h, e)
           M == Mine(told, n, h.gen)
           F == c.failures \cup {Kept(e)}
<1>1. /\ now \in Nat /\ ReportsAreOne /\ told \subseteq Outcomes /\ e \in Outcomes
      /\ node[n] \in NodeRecords /\ h \in Healths /\ HealthIsTold(n)
      /\ e.at <= now /\ e.gen \in Known(n)
  BY NoneAssumption, ProxyAssumption DEF GroupInv, Typed, NodeRecords, ReportsAreOne, Known
<1>2. /\ c \in Healths /\ (c = Fresh(n) \/ Aged(h, c))
      /\ h.cooling = None => c.cooling = None /\ c = [h EXCEPT !.failures = {f \in @ : now - f.at < Window}]
  <2> HIDE DEF h
  <2> QED
    BY <1>1, CurrentRecord
<1> USE NoneAssumption, ProxyAssumption
<1> SUFFICES /\ g \in Healths
             /\ node'[n] = [node[n] EXCEPT !.health = g] /\ node'[n] \in NodeRecords => HealthIsTold(n)'
             /\ h.cooling = None /\ g.cooling # None =>
                   /\ e.gen = h.gen /\ ~e.ok
                   /\ Cardinality(Counting(n) \cup {e}) >= Threshold
  <2> HIDE DEF g
  <2>1. g \in Healths => node'[n] \in NodeRecords
    BY <1>1 DEF NodeRecords, g
  <2> QED BY <1>1, <2>1 DEF NodeRecords, g
<1>3. CASE Ignored(c, e)
  <2>1. g = c
    BY <1>3 DEF Observed
  <2>2. SUFFICES ASSUME node'[n] = [node[n] EXCEPT !.health = c], node'[n] \in NodeRecords
                 PROVE  HealthIsTold(n)'
    BY <1>2, <2>1
  <2>3. node'[n].health = c /\ node'[n].disabled = node[n].disabled /\ node'[n] # None
    BY <1>1, <2>2 DEF NodeRecords
  <2>4. CASE c.gen # e.gen
    <3>1. Moves(n, node'[n])
      BY <1>1, <1>2, <2>2, <2>3 DEF Moves
    <3>2. e.gen # node'[n].health.gen
      BY <2>3, <2>4
    <3> QED BY <3>1, <3>2, ReportMoves
  <2>5. CASE c.gen = e.gen
    <3>1. c.cooling # None
      BY <1>3, <2>5 DEF Ignored
    <3>2. c = h
      BY <1>1, <1>2, <3>1 DEF Aged, Fresh
    <3> QED BY <1>1, <2>3, <3>1, <3>2 DEF HealthIsTold
  <2> QED BY <2>4, <2>5
<1>4. CASE ~Ignored(c, e)
  <2>1. c.gen = e.gen /\ c.cooling = None
    BY <1>4 DEF Ignored
  <2>2. c # Fresh(n)
    BY <1>1, <2>1, NewGeneration DEF Fresh
  <2>3. h.cooling = None
    BY <1>1, <1>2, <2>1, <2>2 DEF Aged
  <2>4. c = [h EXCEPT !.failures = {f \in @ : now - f.at < Window}]
    BY <1>2, <2>3
  <2>5. /\ c.gen = h.gen /\ c.success = h.success
        /\ c.failures = {f \in h.failures : now - f.at < Window}
    BY <1>1, <2>4 DEF Healths
  <2>6. /\ IsFiniteSet(h.failures) /\ Cardinality(h.failures) < Threshold
        /\ h.success # None => h.success <= now
        /\ Tells(h, M, now)
    BY <1>1, <2>3 DEF HealthIsTold
  <2>7. /\ IsFiniteSet(c.failures) /\ Cardinality(c.failures) \in Nat
        /\ Cardinality(c.failures) < Threshold
    <3>1. c.failures \subseteq h.failures
      BY <2>5
    <3>2. /\ IsFiniteSet(c.failures) /\ Cardinality(c.failures) <= Cardinality(h.failures)
      BY <2>6, <3>1, FS_Subset
    <3>3. Cardinality(c.failures) \in Nat /\ Cardinality(h.failures) \in Nat
      BY <2>6, <3>2, FS_CardinalityType
    <3> QED BY <2>6, <3>2, <3>3
  <2>8. M \in SUBSET Outcomes /\ IsFiniteSet(M) /\ M \subseteq told
    BY <1>1, FS_Subset DEF Mine, ReportsAreOne
  <2> DEFINE R == Recent(M, now)
  <2>9. Tells(c, R, now) /\ R \in SUBSET Outcomes
    <3>1. Tells(c, R, now)
      BY <1>1, <1>2, <2>5, <2>6, <2>8, TellsRecent
    <3> QED BY <2>8, <3>1 DEF Recent
  <2>10. ASSUME NEW x, node'[n] = [node[n] EXCEPT !.health = x], node'[n] \in NodeRecords,
                x.gen = h.gen
         PROVE  Mine(told', n, x.gen) = Recent(R \cup {e}, now)
    <3>1. node'[n].health = x /\ node'[n] # None
      BY <1>1, <2>10 DEF NodeRecords
    <3>2. e.gen = x.gen
      BY <2>1, <2>5, <2>10
    <3>3. \A y : y.node = n => (y \in told' <=> /\ y \in told \cup {e} /\ y.gen = x.gen
                                              /\ now - y.at < Window)
      BY <3>1 DEF Remembered
    <3>4. \A y : y \in Mine(told', n, x.gen) <=> y \in Recent(R \cup {e}, now)
      <4> HIDE DEF h
      <4> QED BY <2>10, <3>2, <3>3 DEF Mine, Recent
    <3> QED BY <3>4
  <2>11. ASSUME NEW x \in Healths, x.gen = h.gen, x.cooling = None, IsFiniteSet(x.failures),
                Cardinality(x.failures) < Threshold, x.success # None => x.success <= now,
                Tells(x, Recent(R \cup {e}, now), now),
                node'[n] = [node[n] EXCEPT !.health = x], node'[n] \in NodeRecords
         PROVE  HealthIsTold(n)'
    <3>1. /\ node'[n].health = x /\ node'[n] # None /\ ~node'[n].disabled
      BY <1>1, <2>11 DEF NodeRecords
    <3>2. Tells(x, Mine(told', n, x.gen), now)
      BY <2>10, <2>11
    <3>3. Cardinality(x.failures) \in Nat
      BY <2>11, FS_CardinalityType
    <3> HIDE DEF R
    <3> QED BY <2>11, <3>1, <3>2, <3>3 DEF HealthIsTold
  <2>12. CASE e.ok
    <3> DEFINE last == IF c.success = None THEN e.at ELSE Max({c.success, e.at})
    <3>1. g = Succeeded(c, e)
      BY <1>4, <2>12 DEF Observed
    <3>2. last \in Nat /\ last <= now /\ last # None
      <4>1. e.at \in Nat /\ (c.success # None => c.success \in Nat /\ c.success <= now)
        BY <1>1, <2>5, <2>6 DEF Healths, Outcomes
      <4> HIDE DEF c
      <4>2. CASE c.success = None
        BY <1>1, <4>1, <4>2
      <4>3. CASE c.success # None
        <5>1. last = IF c.success >= e.at THEN c.success ELSE e.at
          BY <4>1, <4>3, MaxOfTwo
        <5> QED BY <1>1, <4>1, <4>3, <5>1
      <4> QED BY <4>2, <4>3
    <3>3. g = [c EXCEPT !.success = last, !.failures = {f \in c.failures : f.at > last}]
      BY <3>1 DEF Succeeded
    <3> HIDE DEF last, c, g
    <3>4. /\ g.gen = c.gen /\ g.cooling = c.cooling /\ g.success = last
          /\ g.failures = {f \in c.failures : f.at > last} /\ g \in Healths
      BY <1>2, <3>2, <3>3 DEF Healths
    <3>5. g.failures \subseteq c.failures
      BY <3>4
    <3>6. IsFiniteSet(g.failures) /\ Cardinality(g.failures) < Threshold
      <4>1. IsFiniteSet(g.failures) /\ Cardinality(g.failures) <= Cardinality(c.failures)
        BY <2>7, <3>5, FS_Subset
      <4>2. Cardinality(g.failures) \in Nat
        BY <4>1, FS_CardinalityType
      <4> QED BY <2>7, <4>1, <4>2
    <3>7. Tells(g, Recent(R \cup {e}, now), now)
      BY <1>1, <1>2, <2>9, <2>12, <3>1, TellsSuccess
    <3>8. g.cooling = None /\ g.gen = h.gen
      BY <2>1, <2>5, <3>4
    <3> QED BY <2>11, <3>2, <3>4, <3>6, <3>7, <3>8
  <2>13. CASE ~e.ok
    <3> DEFINE late == now - e.at >= Window \/ (c.success # None /\ e.at <= c.success)
    <3>1. g = Failed(n, c, e) /\ Kept(e) = [id |-> e.id, at |-> e.at]
      BY <1>4, <2>13 DEF Observed, Kept
    <3>2. /\ IsFiniteSet(F) /\ Cardinality(F) \in Nat /\ Cardinality(F) <= Threshold
          /\ F \in SUBSET [id : Nat, at : Nat]
      <4>1. IsFiniteSet(F) /\ Cardinality(F) <= Cardinality(c.failures) + 1
        <5> HIDE DEF c
        <5> DEFINE S == c.failures
        <5>1. IsFiniteSet(S) /\ Cardinality(S) \in Nat
          BY <2>7
        <5>2. F = S \cup {Kept(e)}
          OBVIOUS
        <5> HIDE DEF S, F
        <5>3. /\ IsFiniteSet(S \cup {Kept(e)})
              /\ Cardinality(S \cup {Kept(e)}) =
                    IF Kept(e) \in S THEN Cardinality(S) ELSE Cardinality(S) + 1
          BY <5>1, FS_AddElement, Zenon
        <5>4. Cardinality(F) <= Cardinality(S) + 1
          BY <5>1, <5>2, <5>3
        <5> QED BY <5>2, <5>3, <5>4 DEF S
      <4>2. Cardinality(F) \in Nat
        BY <4>1, FS_CardinalityType
      <4>3. F \in SUBSET [id : Nat, at : Nat]
        BY <1>1, <1>2 DEF Kept, Healths, Outcomes
      <4> QED BY <2>7, <4>1, <4>2, <4>3
    <3>3. CASE late
      <4>1. g = c
        BY <3>1, <3>3 DEF Failed
      <4> HIDE DEF g, c
      <4>2. Tells(g, Recent(R \cup {e}, now), now)
        BY <1>1, <1>2, <2>9, <2>13, <3>3, <4>1, TellsFailure
      <4> QED BY <1>2, <2>1, <2>5, <2>6, <2>7, <2>11, <4>1, <4>2
    <3>4. CASE ~late /\ Cardinality(F) < Threshold
      <4>1. g = [c EXCEPT !.failures = F]
        BY <3>1, <3>2, <3>4 DEF Failed
      <4> HIDE DEF g, c, F
      <4>2. /\ g.gen = c.gen /\ g.cooling = c.cooling /\ g.success = c.success
            /\ g.failures = F /\ g \in Healths
        BY <1>2, <3>2, <4>1 DEF Healths
      <4>3. Tells(g, Recent(R \cup {e}, now), now)
        BY <1>1, <1>2, <2>9, <2>13, <3>4, <4>2, TellsFailure DEF F
      <4> QED BY <2>1, <2>5, <2>6, <2>11, <3>2, <3>4, <4>2, <4>3
    <3>5. CASE ~late /\ ~ (Cardinality(F) < Threshold)
      <4>1. g = [c EXCEPT !.failures = F, !.gen = NewGen(n), !.cooling = now + Cooldown]
        BY <3>1, <3>2, <3>5 DEF Failed
      <4>2. NewGen(n) \in Nat
        BY <1>1, NewGeneration
      <4>3. {f \in M : Counts(f, M, now)} = Counting(n)
        BY DEF Mine, Counts, Counting
      <4>4. Cardinality(F) <= Cardinality(Counting(n) \cup {e})
        <5>1. F = {x \in h.failures : now - x.at < Window} \cup {Kept(e)}
          BY <2>5
        <5> HIDE DEF F, M
        <5> QED BY <1>1, <2>6, <2>8, <4>3, <5>1, KeptAreCounted
      <4>5. Cardinality(Counting(n) \cup {e}) \in Nat
        BY <2>8, <4>3, FS_Subset, FS_AddElement, FS_CardinalityType
      <4>6. Cardinality(Counting(n) \cup {e}) >= Threshold
        BY <3>2, <3>5, <4>4, <4>5
      <4> HIDE DEF g, c, F
      <4>7. /\ g.cooling = now + Cooldown /\ g.success = c.success
            /\ g.failures = F /\ g \in Healths
        <5>1. now + Cooldown \in Nat
          BY <1>1
        <5> QED BY <1>2, <3>2, <4>1, <4>2, <5>1 DEF Healths
      <4>8. ASSUME node'[n] = [node[n] EXCEPT !.health = g], node'[n] \in NodeRecords
            PROVE  HealthIsTold(n)'
        <5>1. node'[n].health = g /\ ~node'[n].disabled
          BY <1>1, <4>8 DEF NodeRecords
        <5> QED BY <1>1, <2>5, <2>6, <3>2, <4>7, <5>1 DEF HealthIsTold
      <4> QED BY <2>1, <2>5, <2>13, <4>6, <4>7, <4>8
    <3> QED BY <3>2, <3>3, <3>4, <3>5
  <2> QED BY <2>12, <2>13
<1> QED BY <1>3, <1>4

\* A report arrives: nodes it is not about, or whose generation is over, only age.
LEMMA DeliverStep ==
  ASSUME GroupInv, NEW e \in mail, Deliver(e)
  PROVE  StepIsJust
<1> USE NoneAssumption, ProxyAssumption
<1> DEFINE m == e.node
<1>1. /\ told' = Remembered({e}) /\ mail' = mail \ {e} /\ UNCHANGED <<meta, owners, dials, now, limit>>
      /\ told' \subseteq told \cup {e} /\ mail \subseteq Outcomes /\ told \subseteq Outcomes
      /\ e \in Outcomes /\ m \in Nodes
  BY DEF Deliver, Observe, object, Remembered, GroupInv, Typed, Outcomes
<1>2. ASSUME NEW p \in Requests
      PROVE  req'[p] \in RequestRecords /\ RequestIsBounded(req'[p]) /\ req'[p].lease = req[p].lease
  <2>1. req[p] \in RequestRecords /\ RequestIsBounded(req[p])
    BY DEF GroupInv, Typed, RequestsAreBounded
  <2>2. CASE req[p].pc = "record" /\ req[p].event = e.id
    <3>1. req'[p] = [req[p] EXCEPT !.pc = "select", !.event = None]
      BY <2>2 DEF Deliver
    <3> QED BY <2>1, <2>2, <3>1 DEF RequestRecords, RequestIsBounded
  <2>3. CASE ~ (req[p].pc = "record" /\ req[p].event = e.id)
    <3>1. req'[p] = req[p]
      BY <2>3 DEF Deliver
    <3> QED BY <2>1, <3>1
  <2> QED BY <2>2, <2>3
<1>3. req' \in [Requests -> RequestRecords] /\ RequestsAreBounded'
  BY <1>2 DEF Deliver, RequestsAreBounded
<1>4. \A n \in Nodes : Known(n)' \subseteq Known(n)
  BY <1>1, <1>2 DEF Known
<1>5. ReportsAreOne'
  <2>1. IsFiniteSet(mail) /\ IsFiniteSet(told) /\ IsFiniteSet(told \cup {e})
    BY FS_AddElement DEF GroupInv, ReportsAreOne
  <2>2. IsFiniteSet(mail') /\ IsFiniteSet(told') /\ mail' \cup told' \subseteq mail \cup told
    BY <1>1, <2>1, FS_Subset
  <2> QED BY <1>1, <2>2 DEF GroupInv, ReportsAreOne
<1>6. /\ node' \in [Nodes -> NodeRecords \cup {None}] /\ bind' \in [Owners -> Nodes \cup {None}]
      /\ \A n \in Nodes :
            /\ node'[n] = None <=> node[n] = None
            /\ node[n] # None => /\ node'[n].fingerprint = node[n].fingerprint
                                 /\ node'[n].disabled = node[n].disabled
      /\ \A n \in Nodes : HealthIsTold(n)'
      /\ \A n \in Nodes \ {m} : node'[n] = node[n]
      /\ node[m] # None /\ node[m].health.cooling = None /\ node'[m].health.cooling # None =>
            /\ e.gen = node[m].health.gen /\ ~e.ok
            /\ Cardinality(Counting(m) \cup {e}) >= Threshold
      /\ \A o \in Owners : \/ bind'[o] = bind[o] /\ (bind[o] = m => node'[m] = node[m] \/ node'[m].health.cooling = None)
                           \/ bind'[o] = None /\ bind[o] = m /\ node'[m].health.cooling # None
  <2>1. CASE node[m] = None \/ node[m].disabled
    <3>1. node' = node /\ bind' = bind
      BY <2>1 DEF Deliver, Observe, object
    <3>2. ASSUME NEW n \in Nodes PROVE HealthIsTold(n)'
      <4>1. Moves(n, node'[n])
        BY <3>1 DEF Moves, Aged, GroupInv, Typed
      <4>2. n = m /\ node[m] # None => e.gen # node[m].health.gen
        <5>1. e.gen \in Known(m)
          BY DEF Known
        <5> QED BY <2>1, <5>1 DEF GroupInv, HealthIsTold
      <4> QED BY <1>1, <1>4, <3>1, <4>1, <4>2, ReportMoves
    <3> QED BY <2>1, <3>1, <3>2 DEF GroupInv, Typed, BindingsAreUsable
  <2>2. CASE node[m] # None /\ ~node[m].disabled
    <3> DEFINE next == Observed(m, node[m].health, e)
    <3>1. /\ node' = [node EXCEPT ![m] = [node[m] EXCEPT !.health = next]]
          /\ bind' = [o \in Owners |-> IF next.cooling # None /\ bind[o] = m /\ next # node[m].health
                                       THEN None ELSE bind[o]]
      BY <2>2 DEF Deliver, Observe
    <3>2. /\ node'[m] = [node[m] EXCEPT !.health = next]
          /\ \A n \in Nodes \ {m} : node'[n] = node[n]
          /\ node' = [n \in Nodes |-> node'[n]]
      BY <1>1, <3>1 DEF GroupInv, Typed
    <3>3. /\ node'[m] \in NodeRecords /\ node'[m].fingerprint = node[m].fingerprint
          /\ ~node'[m].disabled /\ node'[m].health = next
          /\ HealthIsTold(m)'
          /\ node[m].health.cooling = None /\ node'[m].health.cooling # None =>
                /\ e.gen = node[m].health.gen /\ ~e.ok
                /\ Cardinality(Counting(m) \cup {e}) >= Threshold
      BY <1>1, <1>4, <2>2, <3>2, ObservedRecord
    <3>4. ASSUME NEW n \in Nodes \ {m} PROVE HealthIsTold(n)'
      <4>1. Moves(n, node'[n])
        BY <3>2 DEF Moves, Aged, GroupInv, Typed
      <4> QED BY <1>1, <1>4, <3>2, <4>1, ReportMoves
    <3> HIDE DEF next
    <3>5. node' \in [Nodes -> NodeRecords \cup {None}]
      BY <3>2, <3>3 DEF GroupInv, Typed
    <3>6. bind' \in [Owners -> Nodes \cup {None}]
      BY <3>1 DEF GroupInv, Typed
    <3>7. \A o \in Owners :
             \/ bind'[o] = bind[o] /\ (bind[o] = m => node'[m] = node[m] \/ node'[m].health.cooling = None)
             \/ bind'[o] = None /\ bind[o] = m /\ node'[m].health.cooling # None
      <4>1. next = node[m].health => node'[m] = node[m]
        <5>1. node[m] \in NodeRecords
          BY <1>1, <2>2 DEF GroupInv, Typed
        <5> QED BY <3>2, <5>1 DEF NodeRecords
      <4> QED BY <3>1, <3>3, <4>1
    <3>8. \A n \in Nodes :
             /\ node'[n] = None <=> node[n] = None
             /\ node[n] # None => /\ node'[n].fingerprint = node[n].fingerprint
                                  /\ node'[n].disabled = node[n].disabled
      <4>1. node[m].disabled = FALSE /\ node'[m].disabled = FALSE
        BY <2>2, <3>3, <1>1 DEF GroupInv, Typed, NodeRecords
      <4>2. node'[m] # None
        BY <3>3
      <4> SUFFICES ASSUME NEW n \in Nodes
                   PROVE  /\ node'[n] = None <=> node[n] = None
                          /\ node[n] # None => /\ node'[n].fingerprint = node[n].fingerprint
                                               /\ node'[n].disabled = node[n].disabled
        OBVIOUS
      <4>3. CASE n = m
        BY <2>2, <3>3, <4>1, <4>2, <4>3
      <4>4. CASE n # m
        BY <3>2, <4>4
      <4> QED BY <4>3, <4>4
    <3> QED BY <1>1, <3>2, <3>3, <3>4, <3>5, <3>6, <3>7, <3>8
  <2> QED BY <2>1, <2>2
<1>7. Consistent'
  BY <1>1, <1>6 DEF GroupInv, Consistent
<1>8. BindingsAreUsable'
  BY <1>1, <1>6 DEF GroupInv, BindingsAreUsable
<1>9. KeepsLatest
  <2>1. (meta # None => meta.rev \in Nat) /\ (owners # None => owners.rev \in Nat)
    BY DEF GroupInv, Typed, Metadata, OwnerKeys
  <2> QED BY <1>1, <1>7, <2>1 DEF KeepsLatest
<1>10. KeepsBindings
  BY <1>6 DEF KeepsBindings
<1>11. CoolsByFailures
  BY <1>6 DEF CoolsByFailures
<1>12. Typed'
  BY <1>1, <1>3, <1>6 DEF GroupInv, Typed
<1> QED BY <1>3, <1>5, <1>6, <1>7, <1>8, <1>9, <1>10, <1>11, <1>12 DEF GroupInv, StepIsJust

LEMMA NextStep ==
  ASSUME GroupInv, Next
  PROVE  StepIsJust
<1>1. limit.revs \subseteq Revisions /\ limit.reqs \subseteq Requests
  BY ProxyAssumption DEF GroupInv, Typed
<1>2. CASE Tick
  BY <1>2, TickStep
<1>3. CASE \E r \in limit.revs : GetStatus(r) \/ \E n \in Nodes : Clear(r, n)
  BY <1>1, <1>3, GetStatusStep, ClearStep
<1>4. ASSUME NEW q \in limit.reqs, NEW r \in limit.revs, NEW full \in BOOLEAN, NEW o \in Owners,
             Start(q, r, full, o)
      PROVE  StepIsJust
  BY <1>1, <1>4, StartStep
<1>5. ASSUME NEW q \in limit.reqs, NEW chosen \in Nodes \cup {None}, SelectNode(q, chosen)
      PROVE  StepIsJust
  BY <1>1, <1>5, SelectNodeStep
<1>6. ASSUME NEW q \in limit.reqs, NEW late \in BOOLEAN, ProxyFails(q, late) \/ TargetRejects(q, late)
      PROVE  StepIsJust
  BY <1>1, <1>6, ProxyFailsStep, TargetRejectsStep
<1>7. ASSUME NEW q \in limit.reqs, SelectFails(q) \/ Connect(q) \/ Retry(q) \/ Abort(q) \/ Lose(q)
      PROVE  StepIsJust
  BY <1>1, <1>7, EndStep, ConnectStep, RetryStep
<1>8. ASSUME NEW q \in limit.reqs, NEW o \in Owners, NextAccount(q, o)
      PROVE  StepIsJust
  BY <1>1, <1>8, NextAccountStep
<1>9. CASE \E e \in mail : Deliver(e)
  BY <1>9, DeliverStep
<1> QED BY <1>2, <1>3, <1>4, <1>5, <1>6, <1>7, <1>8, <1>9 DEF Next

LEMMA Stutter ==
  ASSUME GroupInv, UNCHANGED vars
  PROVE  GroupInv'
<1> USE DEF GroupInv, vars
<1>1. Typed' /\ ReportsAreOne' /\ RequestsAreBounded'
  BY DEF Typed, ReportsAreOne, RequestsAreBounded, object
<1>2. \A n \in Nodes : Known(n)' \subseteq Known(n)
  BY DEF Known
<1> QED BY <1>1, <1>2, ObjectStays

LEMMA FewElements ==
  ASSUME NEW S, NEW l, (\A x, y \in S : x = y) \/ (\A x, y \in S \ {l} : x = y)
  PROVE  Cardinality(S) <= 2
<1>1. PICK k : S \subseteq {k, l}
  <2>1. CASE S \ {l} = {}
    BY <2>1
  <2>2. CASE S \ {l} # {}
    <3>1. PICK k \in S : k # l
      BY <2>2
    <3>2. \A x \in S : x = k \/ x = l
      BY <3>1
    <3> QED BY <3>2
  <2> QED BY <2>1, <2>2
<1>2. IsFiniteSet({k, l}) /\ Cardinality({k, l}) <= 2
  <2>1. IsFiniteSet({k}) /\ Cardinality({k}) = 1
    BY FS_Singleton
  <2>2. {k, l} = {k} \cup {l}
    OBVIOUS
  <2> QED BY <2>1, <2>2, FS_AddElement
<1>3. IsFiniteSet(S) /\ Cardinality(S) <= Cardinality({k, l})
  BY <1>1, <1>2, FS_Subset
<1>4. Cardinality(S) \in Nat /\ Cardinality({k, l}) \in Nat
  BY <1>2, <1>3, FS_CardinalityType
<1> QED BY <1>2, <1>3, <1>4

\* The record of a node tells as many failures as count against it.
LEMMA InvariantIsSound == GroupInv => GroupIsSound
<1> SUFFICES ASSUME GroupInv PROVE GroupIsSound
  OBVIOUS
<1> USE NoneAssumption, ProxyAssumption DEF GroupInv
<1>1. ASSUME NEW q \in Requests PROVE Cardinality(req[q].tried) <= 2 /\ req[q].hops <= 1
  <2>1. RequestIsBounded(req[q]) /\ req[q] \in RequestRecords
    BY DEF RequestsAreBounded, Typed
  <2>2. req[q].hops <= 1
    BY <2>1 DEF RequestIsBounded
  <2> DEFINE S == req[q].tried
             l == req[q].lease.node
  <2>3. (\A x, y \in S : x = y) \/ (\A x, y \in S \ {l} : x = y)
    BY <2>1 DEF RequestIsBounded, RequestRecords
  <2> HIDE DEF S, l
  <2>4. Cardinality(S) <= 2
    BY <2>3, FewElements
  <2> QED BY <2>2, <2>4 DEF S
<1>2. TypeOK
  BY <1>1 DEF TypeOK, HealthIsTold
<1>3. ASSUME NEW n \in Nodes, node[n] # None, node[n].health.cooling = None
      PROVE  Cardinality(Counting(n)) < Threshold
  <2> DEFINE h == node[n].health
             M == Mine(told, n, h.gen)
  <2>1. h \in Healths /\ now \in Nat /\ M \in SUBSET Outcomes
    BY <1>3 DEF Typed, NodeRecords, Mine
  <2>2. /\ IsFiniteSet(h.failures) /\ Cardinality(h.failures) < Threshold /\ Tells(h, M, now)
    BY <1>3 DEF HealthIsTold
  <2>3. IsFiniteSet(M) /\ \A e, f \in M : e.id = f.id => e = f
    BY FS_Subset DEF ReportsAreOne, Mine
  <2>4. {f \in M : Counts(f, M, now)} = Counting(n)
    BY DEF Mine, Counts, Counting
  <2>5. Cardinality(Counting(n)) \in Nat /\ Cardinality(h.failures) \in Nat
    BY <2>2, <2>3, <2>4, FS_Subset, FS_CardinalityType
  <2>6. Cardinality(Counting(n)) <= Cardinality(h.failures)
    <3> HIDE DEF h, M
    <3> QED BY <2>1, <2>2, <2>3, <2>4, CountedAreKept
  <2> QED BY <2>2, <2>5, <2>6
<1> QED BY <1>1, <1>2, <1>3 DEF GroupIsSound, NodeFailuresCool, SwitchesOnce

-----------------------------------------------------------------------------
\* Whatever requests, reports and console calls come in whatever order, the
\* health record of a node that does not cool tells exactly the recent failures
\* and the last success reported of its generation (observeProxyHealth), and a
\* request that may still switch has tried a single node (createProxyTransport).
THEOREM GroupInvariant == Spec => []GroupInv
<1>1. GroupInv /\ [Next]_vars => GroupInv'
  BY NextStep, Stutter DEF StepIsJust
<1> QED BY <1>1, GroupInit, PTL DEF Spec

\* ProxyGroupCoordinator: bindings lead to nodes that can be used, enough
\* failures cool a node however late or disordered they are told, and a request
\* leaves its node for another once.
THEOREM GroupSoundness == Spec => []GroupIsSound
BY GroupInvariant, InvariantIsSound, PTL

\* No step takes the group back to an older revision, moves an owner off a node
\* that still serves, or cools a node without failures enough.
THEOREM GroupJustice == Spec => GroupStepsAreJust
<1>1. GroupInv /\ [Next]_vars => [KeepsLatest /\ KeepsBindings /\ CoolsByFailures]_vars
  BY NextStep DEF StepIsJust
<1> QED BY <1>1, GroupInvariant, PTL DEF Spec, GroupStepsAreJust

-----------------------------------------------------------------------------
(* Access.                                                                   *)

(* Signing in.  What a cookie vouches for is on record: the login cookie     *)
(* for an attempt that its own browser has made, the session cookie for a    *)
(* code that was used.  A code is used once, so what it was used for stays.  *)

Attempt == [browser : Browsers, issuer : Issuers, client : {s.client : s \in Settings}]
IssuedCode == [attempt : DOMAIN attempts, user : Users, used : Nat \cup {Nothing}]

Ledger ==
    /\ env \in Settings /\ clock \in Nat
    /\ attempts \in Seq(Attempt)
    /\ codes \in SUBSET IssuedCode
    /\ \A c, d \in codes : c.attempt = d.attempt => c = d

\* What cookies and requests know, with a table of attempts and one of codes.
LoginKnown(t, b, table) ==
    t # Nothing => t.claims.attempt \in DOMAIN table /\ table[t.claims.attempt].browser = b

\* The code that a session was made of.
Behind(c, b, t, table) ==
    LET s == t.claims
    IN  /\ c.used \in Nat /\ t.expires <= c.used + Lifetime
        /\ c.user.sub = s.sub /\ c.user.email = s.email
        /\ table[c.attempt] = [browser |-> b, issuer |-> s.issuer, client |-> s.client]

SessionKnown(t, b, table, book) ==
    t # Nothing => t.expires \in Nat /\ \E c \in book : Behind(c, b, t, table)

VisitFields == {"step", "kind", "browser", "env", "fetch", "login", "code"}

VisitKnown(r, table) ==
    r.step # "idle" =>
        /\ DOMAIN r = VisitFields
        /\ r.browser \in Browsers /\ r.env \in Settings
        /\ r.kind = "callback" =>
             /\ r.login.attempt \in DOMAIN table
             /\ table[r.login.attempt].browser = r.browser

Jars ==
    /\ DOMAIN jar = Browsers /\ \A b \in Browsers : DOMAIN jar[b] = {"login", "session"}
    /\ \A b \in Browsers : /\ LoginKnown(jar[b].login, b, attempts)
                          /\ SessionKnown(jar[b].session, b, attempts, codes)

VisitsOK == DOMAIN visits = Visits /\ \A v \in Visits : VisitKnown(visits[v], attempts)

SignInInv == Ledger /\ Jars /\ VisitsOK

\* No session lives longer than Lifetime.
LEMMA LongestLife ==
    /\ Lifetime \in Nat
    /\ \A s \in Settings : s.ttl <= Lifetime
<1>1. \E t \in {s.ttl : s \in Settings} : \A s \in Settings : s.ttl <= t
  BY AccessAssumption
<1>2. Lifetime \in {s.ttl : s \in Settings} /\ \A s \in Settings : s.ttl <= Lifetime
  BY <1>1 DEF Lifetime
<1> QED
  BY <1>2, AccessAssumption

\* A longer table of attempts knows all that the shorter one did, and so does a
\* book that still has every code that was used.
Longer(table, longer) ==
    \A n \in DOMAIN table : n \in DOMAIN longer /\ longer[n] = table[n]

Keeps(book, newer) == \A c \in book : c.used \in Nat => c \in newer

LEMMA KnownStays ==
    ASSUME NEW table, NEW longer, Longer(table, longer),
           NEW book, NEW newer, Keeps(book, newer), \A c \in book : c.attempt \in DOMAIN table,
           NEW x, NEW b
    PROVE  /\ VisitKnown(x, table) => VisitKnown(x, longer)
           /\ LoginKnown(x, b, table) => LoginKnown(x, b, longer)
           /\ SessionKnown(x, b, table, book) => SessionKnown(x, b, longer, newer)
<1>1. VisitKnown(x, table) => VisitKnown(x, longer)
  BY DEF VisitKnown, Longer
<1>2. LoginKnown(x, b, table) => LoginKnown(x, b, longer)
  BY DEF LoginKnown, Longer
<1>3. SessionKnown(x, b, table, book) => SessionKnown(x, b, longer, newer)
  BY DEF SessionKnown, Behind, Keeps, Longer
<1> QED
  BY <1>1, <1>2, <1>3

\* What is known stays known when attempts and codes are added.
Remembers == Longer(attempts, attempts') /\ Keeps(codes, codes')

LEMMA CookiesStay ==
    ASSUME SignInInv, Remembers, NEW b \in Browsers
    PROVE  /\ jar'[b].login = jar[b].login => LoginKnown(jar'[b].login, b, attempts')
           /\ jar'[b].session = jar[b].session => SessionKnown(jar'[b].session, b, attempts', codes')
<1>1. \A c \in codes : c.attempt \in DOMAIN attempts
  BY DEF SignInInv, Ledger, IssuedCode
<1>2. LoginKnown(jar[b].login, b, attempts) /\ SessionKnown(jar[b].session, b, attempts, codes)
  BY DEF SignInInv, Jars
<1> QED
  BY <1>1, <1>2, KnownStays DEF Remembers

LEMMA VisitsStay ==
    ASSUME SignInInv, Remembers, NEW v \in Visits
    PROVE  VisitKnown(visits[v], attempts')
<1>1. \A c \in codes : c.attempt \in DOMAIN attempts
  BY DEF SignInInv, Ledger, IssuedCode
<1>2. VisitKnown(visits[v], attempts)
  BY DEF SignInInv, VisitsOK
<1> QED
  BY <1>1, <1>2, KnownStays DEF Remembers

\* Nothing new: attempts and codes stay.
LEMMA SameBooks ==
    ASSUME UNCHANGED <<attempts, codes>>
    PROVE  Remembers
BY DEF Remembers, Longer, Keeps

\* A request moves on, or a new one begins that knows its attempt.
LEMMA VisitMoves ==
    ASSUME SignInInv, Remembers, NEW v \in Visits, NEW r, visits' = [visits EXCEPT ![v] = r],
           VisitKnown(r, attempts')
    PROVE  VisitsOK'
<1>1. DOMAIN visits' = Visits /\ visits'[v] = r /\ \A u \in Visits \ {v} : visits'[u] = visits[u]
  BY DEF SignInInv, VisitsOK
<1>2. \A u \in Visits : VisitKnown(visits'[u], attempts')
  BY <1>1, VisitsStay
<1> QED
  BY <1>1, <1>2 DEF VisitsOK

\* A browser gets another login cookie, or none, and another session, or none.
LEMMA JarMoves ==
    ASSUME SignInInv, Remembers, NEW b \in Browsers, NEW login, NEW session,
           jar' = [jar EXCEPT ![b].login = login, ![b].session = session],
           LoginKnown(login, b, attempts'), SessionKnown(session, b, attempts', codes')
    PROVE  Jars'
<1>1. /\ DOMAIN jar' = Browsers /\ DOMAIN jar'[b] = {"login", "session"}
      /\ jar'[b].login = login /\ jar'[b].session = session
      /\ \A x \in Browsers \ {b} : jar'[x] = jar[x]
  BY DEF SignInInv, Jars
<1>2. \A x \in Browsers : DOMAIN jar'[x] = {"login", "session"}
  BY <1>1 DEF SignInInv, Jars
<1>3. \A x \in Browsers : /\ LoginKnown(jar'[x].login, x, attempts')
                          /\ SessionKnown(jar'[x].session, x, attempts', codes')
  BY <1>1, CookiesStay
<1> QED
  BY <1>1, <1>2, <1>3 DEF Jars

-----------------------------------------------------------------------------
(* The steps of signing in. *)

\* A part of a request's record changes that nothing is known of.
LEMMA SameVisit ==
    ASSUME NEW r, NEW table, VisitKnown(r, table), r.step # "idle", NEW step, NEW n
    PROVE  /\ VisitKnown([r EXCEPT !.step = step], table)
           /\ VisitKnown([r EXCEPT !.step = step, !.fetch = n], table)
<1>1. DOMAIN r = VisitFields
  BY DEF VisitKnown
<1> QED
  BY <1>1 DEF VisitKnown, VisitFields

LEMMA DiscoveryKeeps ==
    ASSUME SignInInv, NEW v \in Visits, Lookup(v) \/ Cached(v)
    PROVE  SignInInv'
<1>1. visits[v].step # "idle" /\ UNCHANGED <<env, clock, jar, attempts, codes>>
  BY DEF Lookup, Cached
<1>2. Remembers
  BY <1>1, SameBooks
<1>3. VisitKnown(visits[v], attempts)
  BY DEF SignInInv, VisitsOK
<1>4. VisitsOK'
  <2>1. ASSUME NEW step, visits' = [visits EXCEPT ![v].step = step]
        PROVE  VisitsOK'
    <3>1. visits' = [visits EXCEPT ![v] = [visits[v] EXCEPT !.step = step]]
      BY <2>1
    <3>2. VisitKnown([visits[v] EXCEPT !.step = step], attempts')
      BY <1>1, <1>3, SameVisit
    <3> QED
      BY <3>1, <3>2, <1>2, VisitMoves
  <2>2. ASSUME NEW step, NEW n, visits' = [visits EXCEPT ![v].step = step, ![v].fetch = n]
        PROVE  VisitsOK'
    <3> DEFINE r == [visits[v] EXCEPT !.step = step, !.fetch = n]
    <3>1. visits' = [visits EXCEPT ![v] = r]
      BY <2>2 DEF SignInInv, VisitsOK
    <3>2. VisitKnown(r, attempts')
      BY <1>1, <1>3, SameVisit
    <3> HIDE DEF r
    <3> QED
      BY <3>1, <3>2, <1>2, VisitMoves
  <2> QED
    BY <2>1, <2>2 DEF Lookup, Cached, Fetch
<1>5. Jars' /\ Ledger'
  BY <1>1 DEF SignInInv, Jars, Ledger, IssuedCode, Attempt
<1> QED
  BY <1>4, <1>5 DEF SignInInv

\* A browser loses its login cookie.
LEMMA ClearsLogin ==
    ASSUME SignInInv, Remembers, NEW b \in Browsers, ClearLogin(b)
    PROVE  Jars'
<1>1. jar' = [jar EXCEPT ![b].login = Nothing, ![b].session = jar[b].session]
  BY DEF ClearLogin, SignInInv, Jars
<1>2. LoginKnown(Nothing, b, attempts')
  BY DEF LoginKnown
<1>3. SessionKnown(jar[b].session, b, attempts', codes')
  BY KnownStays DEF SignInInv, Jars, Ledger, IssuedCode, Remembers
<1> QED
  BY <1>1, <1>2, <1>3, JarMoves

LEMMA Ends ==
    ASSUME NEW table
    PROVE  VisitKnown(NoVisit, table)
BY DEF VisitKnown, NoVisit

LEMMA FetchedKeeps ==
    ASSUME SignInInv, NEW v \in Visits, Fetched(v)
    PROVE  SignInInv'
<1>1. visits[v].step = "fetching" /\ UNCHANGED <<env, clock, attempts, codes>>
  BY DEF Fetched
<1>2. Remembers
  BY <1>1, SameBooks
<1>3. VisitKnown(visits[v], attempts)
  BY DEF SignInInv, VisitsOK
<1>4. visits[v].browser \in Browsers
  BY <1>1, <1>3 DEF VisitKnown
<1>5. Ledger'
  BY <1>1 DEF SignInInv, Ledger, IssuedCode, Attempt
<1>6. CASE UNCHANGED jar /\ visits' = [visits EXCEPT ![v].step = "discovered"]
  <2>1. visits' = [visits EXCEPT ![v] = [visits[v] EXCEPT !.step = "discovered"]]
    BY <1>6
  <2>2. VisitKnown([visits[v] EXCEPT !.step = "discovered"], attempts')
    BY <1>1, <1>3, SameVisit
  <2>3. VisitsOK' /\ Jars'
    BY <2>1, <2>2, <1>1, <1>2, <1>6, VisitMoves DEF Jars, SignInInv
  <2> QED
    BY <2>3, <1>5 DEF SignInInv
<1>7. CASE Done(v) /\ (UNCHANGED jar \/ ClearLogin(visits[v].browser))
  <2>1. VisitsOK'
    BY <1>2, <1>7, Ends, VisitMoves DEF Done, Visit
  <2>2. Jars'
    BY <1>1, <1>2, <1>4, <1>7, ClearsLogin DEF Jars, SignInInv
  <2> QED
    BY <2>1, <2>2, <1>5 DEF SignInInv
<1> QED
  BY <1>6, <1>7 DEF Fetched

\* Steps that touch neither cookies, requests nor what they know.
LEMMA OutsideKeeps ==
    ASSUME SignInInv,
           \/ \E n \in DOMAIN fetches, ok \in BOOLEAN : FetchEnds(n, ok)
           \/ \E e \in Settings : Restart(e)
           \/ Pass
    PROVE  SignInInv'
<1>1. UNCHANGED <<jar, attempts, codes, visits>> /\ env' \in Settings /\ clock' \in Nat
  <2>1. CASE \E n \in DOMAIN fetches, ok \in BOOLEAN : FetchEnds(n, ok)
    BY <2>1 DEF FetchEnds, SignInInv, Ledger
  <2>2. CASE \E e \in Settings : Restart(e)
    BY <2>2 DEF Restart, SignInInv, Ledger
  <2>3. CASE Pass
    BY <2>3 DEF Pass, SignInInv, Ledger
  <2> QED
    BY <2>1, <2>2, <2>3
<1> QED
  BY <1>1 DEF SignInInv, Ledger, IssuedCode, Attempt, Jars, VisitsOK

LEMMA SignInKeeps ==
    ASSUME SignInInv, NEW v \in Visits, NEW b \in Browsers, SignIn(v, b)
    PROVE  SignInInv'
<1> DEFINE r == [step |-> "discover", kind |-> "login", browser |-> b, env |-> env, fetch |-> 0,
                 login |-> Nothing, code |-> Nothing]
<1>1. visits' = [visits EXCEPT ![v] = r] /\ UNCHANGED <<env, clock, jar, attempts, codes>>
  BY DEF SignIn, Visit
<1>2. VisitKnown(r, attempts')
  BY DEF VisitKnown, VisitFields, SignInInv, Ledger
<1> HIDE DEF r
<1>3. VisitsOK'
  BY <1>1, <1>2, SameBooks, VisitMoves
<1> QED
  BY <1>1, <1>3 DEF SignInInv, Ledger, IssuedCode, Attempt, Jars

\* The cookie of a new attempt knows it, and it is this browser's.
LEMMA RedirectKeeps ==
    ASSUME SignInInv, NEW v \in Visits, Redirect(v)
    PROVE  SignInInv'
<1> DEFINE r == visits[v]
           b == visits[v].browser
           a == [browser |-> b, issuer |-> r.env.issuer, client |-> r.env.client]
           n == Len(attempts) + 1
           login == Seal([attempt |-> n], r.env.secret, LoginTtl)
<1>1. /\ b \in Browsers /\ r.env \in Settings
      /\ attempts' = Append(attempts, a) /\ UNCHANGED <<env, clock, codes>>
      /\ jar' = [jar EXCEPT ![b].login = login] /\ Done(v)
  BY DEF Redirect, SignInInv, VisitsOK, VisitKnown
<1>2. attempts \in Seq(Attempt) /\ a \in Attempt
  BY <1>1 DEF SignInInv, Ledger, Attempt, Issuers
<1>3. /\ attempts' \in Seq(Attempt) /\ n \in DOMAIN attempts' /\ attempts'[n] = a
      /\ Longer(attempts, attempts')
  BY <1>1, <1>2 DEF Longer
<1>4. Remembers
  BY <1>1, <1>3 DEF Remembers, Keeps
<1>5. LoginKnown(login, b, attempts')
  BY <1>3 DEF LoginKnown, Seal
<1> HIDE DEF login, n
<1>6. Jars'
  <2>1. jar' = [jar EXCEPT ![b].login = login, ![b].session = jar[b].session]
    BY <1>1 DEF SignInInv, Jars
  <2>2. SessionKnown(jar[b].session, b, attempts', codes')
    BY <1>1, <1>4, KnownStays DEF SignInInv, Jars, Ledger, IssuedCode, Remembers
  <2> QED
    BY <2>1, <2>2, <1>1, <1>4, <1>5, JarMoves
<1>7. VisitsOK'
  BY <1>1, <1>4, Ends, VisitMoves DEF Done, Visit
<1>8. Ledger'
  <2>1. codes \in SUBSET [attempt : DOMAIN attempts', user : Users, used : Nat \cup {Nothing}]
    BY <1>3 DEF Longer, SignInInv, Ledger, IssuedCode
  <2> QED
    BY <2>1, <1>1, <1>3 DEF SignInInv, Ledger, IssuedCode, Attempt
<1> QED
  BY <1>6, <1>7, <1>8 DEF SignInInv

LEMMA GrantKeeps ==
    ASSUME SignInInv, NEW n \in DOMAIN attempts, NEW u \in Users, Grant(n, u)
    PROVE  SignInInv'
<1> DEFINE code == [attempt |-> n, user |-> u, used |-> Nothing]
<1>1. /\ codes' = codes \cup {code} /\ UNCHANGED <<env, clock, jar, attempts, visits>>
      /\ \A c \in codes : c.attempt # n
  BY DEF Grant
<1>2. code \in IssuedCode
  BY DEF IssuedCode
<1>3. Ledger'
  <2>1. codes' \in SUBSET IssuedCode
    BY <1>1, <1>2 DEF SignInInv, Ledger
  <2>2. \A c, d \in codes' : c.attempt = d.attempt => c = d
    BY <1>1 DEF SignInInv, Ledger
  <2> QED
    BY <2>1, <2>2, <1>1 DEF SignInInv, Ledger, IssuedCode, Attempt
<1>4. Remembers
  BY <1>1 DEF Remembers, Longer, Keeps
<1>5. Jars'
  BY <1>1, <1>4, CookiesStay DEF SignInInv, Jars
<1>6. VisitsOK'
  BY <1>1, <1>4, VisitsStay DEF SignInInv, VisitsOK
<1> QED
  BY <1>3, <1>5, <1>6 DEF SignInInv

LEMMA CallbackKeeps ==
    ASSUME SignInInv, NEW v \in Visits, NEW b \in Browsers, NEW code, NEW state, Callback(v, b, code, state)
    PROVE  SignInInv'
<1> DEFINE login == Open(jar[b].login, env.secret)
           r == [step |-> "discover", kind |-> "callback", browser |-> b, env |-> env,
                 fetch |-> 0, login |-> login, code |-> code]
<1>1. UNCHANGED <<env, clock, attempts, codes>> /\ Remembers
  BY SameBooks DEF Callback
<1>2. Ledger'
  BY <1>1 DEF SignInInv, Ledger, IssuedCode, Attempt
<1>3. CASE ClearLogin(b) /\ UNCHANGED visits
  <2>1. VisitsOK'
    BY <1>1, <1>3 DEF SignInInv, VisitsOK
  <2> QED
    BY <2>1, <1>1, <1>2, <1>3, ClearsLogin DEF SignInInv
<1>4. CASE login # Nothing /\ Visit(v, r) /\ UNCHANGED jar
  <2>1. login = jar[b].login.claims /\ jar[b].login # Nothing
    BY <1>4 DEF Open
  <2>2. login.attempt \in DOMAIN attempts /\ attempts[login.attempt].browser = b
    BY <2>1 DEF SignInInv, Jars, LoginKnown
  <2>3. VisitKnown(r, attempts')
    BY <2>2, <1>1 DEF VisitKnown, VisitFields, SignInInv, Ledger
  <2> HIDE DEF r
  <2>4. VisitsOK'
    BY <2>3, <1>1, <1>4, VisitMoves DEF Visit
  <2>5. Jars'
    BY <1>1, <1>4 DEF SignInInv, Jars
  <2> QED
    BY <2>4, <2>5, <1>2 DEF SignInInv
<1> QED
  BY <1>3, <1>4 DEF Callback

\* A code is exchanged once: what it was used for stays, and it makes a session
\* only of this browser's own attempt, for the provider and client of the
\* settings that the request was taken with.
LEMMA ExchangeKeeps ==
    ASSUME SignInInv, NEW v \in Visits, Exchange(v)
    PROVE  SignInInv'
<1> DEFINE r == visits[v]
           b == visits[v].browser
           used(c) == [c EXCEPT !.used = IF c.attempt = r.code THEN clock ELSE @]
           fine == Exchanges(r.code, r.env, r.login)
           user == (CHOOSE c \in codes : c.attempt = r.code).user
           mints == /\ fine /\ Verified(r.code, user, r.env, r.login)
                    /\ IdentityAllowed(r.env, user.email)
           session == IF mints THEN Mint(user, r.env) ELSE jar[b].session
<1>1. /\ b \in Browsers /\ r.env \in Settings
      /\ r.login.attempt \in DOMAIN attempts /\ attempts[r.login.attempt].browser = b
  BY DEF Exchange, SignInInv, VisitsOK, VisitKnown
<1>2. /\ UNCHANGED <<env, clock, attempts>> /\ Done(v)
      /\ codes' = IF fine THEN {used(c) : c \in codes} ELSE codes
      /\ jar' = [jar EXCEPT ![b].login = Nothing, ![b].session = session]
  BY <1>1 DEF Exchange, SignInInv, Jars
<1>3. \A c \in codes : /\ c \in IssuedCode /\ used(c) \in IssuedCode
                       /\ used(c).attempt = c.attempt /\ used(c).user = c.user
                       /\ used(c).used = IF c.attempt = r.code THEN clock ELSE c.used
  BY DEF SignInInv, Ledger, IssuedCode
<1>4. fine => \A c \in codes : c.attempt = r.code => c.used = Nothing
  BY DEF Exchanges, SignInInv, Ledger
<1>5. \A c \in codes : c.used \in Nat /\ fine => used(c) = c
  BY <1>3, <1>4, AccessAssumption DEF IssuedCode
<1> HIDE DEF used
<1>6. Remembers
  <2>1. Keeps(codes, codes')
    BY <1>2, <1>5 DEF Keeps
  <2> QED
    BY <2>1, <1>2 DEF Remembers, Longer
<1>7. Ledger'
  <2>1. codes' \in SUBSET IssuedCode
    BY <1>2, <1>3 DEF SignInInv, Ledger
  <2>2. \A c, d \in codes' : c.attempt = d.attempt => c = d
    BY <1>2, <1>3 DEF SignInInv, Ledger
  <2> QED
    BY <2>1, <2>2, <1>2 DEF SignInInv, Ledger, IssuedCode, Attempt
<1>8. SessionKnown(session, b, attempts', codes')
  <2>1. CASE ~mints
    <3>1. SessionKnown(jar[b].session, b, attempts', codes')
      BY <1>1, <1>6, KnownStays DEF SignInInv, Jars, Ledger, IssuedCode, Remembers
    <3> QED
      BY <3>1, <2>1
  <2>2. CASE mints
    <3> DEFINE c == CHOOSE x \in codes : x.attempt = r.code
               s == [sub |-> user.sub, email |-> user.email, issuer |-> r.env.issuer,
                     client |-> r.env.client]
               t == [claims |-> s, secret |-> r.env.secret, expires |-> clock + r.env.ttl]
    <3>1. session = t
      BY <2>2 DEF Mint, Seal
    <3>2. c \in codes /\ c.attempt = r.code /\ user = c.user
      BY <2>2 DEF Exchanges
    <3> HIDE DEF c
    <3>3. used(c) \in codes' /\ used(c).used = clock /\ used(c).attempt = r.code /\ used(c).user = user
      <4>1. used(c) \in codes'
        BY <3>2, <2>2, <1>2
      <4>2. used(c).used = clock /\ used(c).attempt = c.attempt /\ used(c).user = c.user
        BY <3>2, <1>3
      <4> QED
        BY <4>1, <4>2, <3>2
    <3>4. attempts[r.code] = [browser |-> b, issuer |-> r.env.issuer, client |-> r.env.client]
      <4>1. attempts[r.code].client = r.env.client /\ attempts[r.code].issuer = r.env.issuer
            /\ attempts[r.code].browser = b /\ r.code \in DOMAIN attempts
        BY <2>2, <1>1 DEF Exchanges, Verified
      <4>2. attempts[r.code] \in Attempt
        BY <4>1 DEF SignInInv, Ledger
      <4> QED
        BY <4>1, <4>2 DEF Attempt
    <3>5. clock \in Nat /\ r.env.ttl \in Nat /\ r.env.ttl <= Lifetime /\ Lifetime \in Nat
      BY <1>1, LongestLife, AccessAssumption DEF SignInInv, Ledger
    <3>6. t.expires \in Nat /\ t.expires <= clock + Lifetime
      BY <3>5
    <3>7. Behind(used(c), b, t, attempts')
      BY <3>3, <3>4, <3>5, <3>6, <1>2 DEF Behind
    <3> HIDE DEF t
    <3> QED
      BY <3>1, <3>3, <3>6, <3>7 DEF SessionKnown
  <2> QED
    BY <2>1, <2>2
<1> HIDE DEF session, user, fine, mints
<1>9. Jars'
  <2>1. LoginKnown(Nothing, b, attempts')
    BY DEF LoginKnown
  <2> QED
    BY <2>1, <1>1, <1>2, <1>6, <1>8, JarMoves
<1>10. VisitsOK'
  BY <1>2, <1>6, Ends, VisitMoves DEF Done, Visit
<1> QED
  BY <1>7, <1>9, <1>10 DEF SignInInv

LEMMA LogoutKeeps ==
    ASSUME SignInInv, NEW b \in Browsers, Logout(b)
    PROVE  SignInInv'
<1>1. jar' = [jar EXCEPT ![b] = NoCookies] /\ UNCHANGED <<env, clock, attempts, codes, visits>>
  BY DEF Logout
<1>2. Jars'
  BY <1>1 DEF SignInInv, Jars, NoCookies, LoginKnown, SessionKnown
<1>3. Ledger' /\ VisitsOK'
  BY <1>1 DEF SignInInv, Ledger, IssuedCode, Attempt, VisitsOK
<1> QED
  BY <1>2, <1>3 DEF SignInInv

LEMMA SignInBegins ==
    ASSUME SignInInit
    PROVE  SignInInv
<1>1. Ledger
  BY DEF SignInInit, Ledger, IssuedCode, Attempt
<1>2. Jars
  BY DEF SignInInit, Jars, NoCookies, LoginKnown, SessionKnown
<1>3. VisitsOK
  BY DEF SignInInit, VisitsOK, VisitKnown, NoVisit
<1> QED
  BY <1>1, <1>2, <1>3 DEF SignInInv

LEMMA SignInStep ==
    ASSUME SignInInv, [SignInNext]_signInVars
    PROVE  SignInInv'
<1>1. CASE UNCHANGED signInVars
  BY <1>1 DEF signInVars, SignInInv, Ledger, IssuedCode, Attempt, Jars, VisitsOK
<1>2. CASE SignInNext
  <2>1. ASSUME NEW v \in Visits, Lookup(v) \/ Cached(v) \/ Fetched(v) \/ Redirect(v) \/ Exchange(v)
        PROVE  SignInInv'
    BY <2>1, DiscoveryKeeps, FetchedKeeps, RedirectKeeps, ExchangeKeeps
  <2>2. ASSUME NEW v \in Visits, NEW b \in Browsers,
               \/ SignIn(v, b)
               \/ \E code \in {c.attempt : c \in codes} \cup {Nothing}, state \in DOMAIN attempts :
                     Callback(v, b, code, state)
        PROVE  SignInInv'
    BY <2>2, SignInKeeps, CallbackKeeps
  <2>3. ASSUME NEW n \in DOMAIN attempts, NEW u \in Users, Grant(n, u)
        PROVE  SignInInv'
    BY <2>3, GrantKeeps
  <2>4. ASSUME NEW b \in Browsers, Logout(b)
        PROVE  SignInInv'
    BY <2>4, LogoutKeeps
  <2> QED
    BY <1>2, <2>1, <2>2, <2>3, <2>4, OutsideKeeps DEF SignInNext
<1> QED
  BY <1>1, <1>2

\* What cookies vouch for is on record, in every state.
THEOREM SignInInvariant == SignInSpec => []SignInInv
<1>1. SignInInit => SignInInv
  BY SignInBegins
<1>2. SignInInv /\ [SignInNext]_signInVars => SignInInv'
  BY SignInStep
<1> QED
  BY <1>1, <1>2, PTL DEF SignInSpec

\* Whoever is admitted has signed in: in this browser, at the provider and for
\* the client configured now, no longer ago than a session lives, as an identity
\* allowed now.  The state, the code that works once and the binding of a
\* session to provider and client carry this, with the verifier or without it.
THEOREM SignedIn == SignInSpec => []AdmittedHaveSignedIn
<1>1. SignInInv => AdmittedHaveSignedIn
  <2> SUFFICES ASSUME SignInInv, NEW b \in Browsers, Admitted(b)
               PROVE  \E c \in codes :
                        LET s == AuthenticateSession(b)
                        IN  /\ c.used # Nothing /\ c.user.sub = s.sub /\ c.user.email = s.email
                            /\ attempts[c.attempt] = [browser |-> b, issuer |-> env.issuer, client |-> env.client]
                            /\ clock < c.used + Lifetime
                            /\ env.allowed # {} => c.user.email \in env.allowed
    BY DEF AdmittedHaveSignedIn
  <2> DEFINE t == jar[b].session
             s == AuthenticateSession(b)
  <2>1. /\ s = Open(t, env.secret) /\ s # Nothing
        /\ s.issuer = env.issuer /\ s.client = env.client /\ IdentityAllowed(env, s.email)
    BY DEF Admitted, AuthenticateSession
  <2>2. t # Nothing /\ s = t.claims /\ clock < t.expires
    BY <2>1 DEF Open
  <2>3. t.expires \in Nat /\ \E c \in codes : Behind(c, b, t, attempts)
    BY <2>2 DEF SignInInv, Jars, SessionKnown
  <2>4. PICK c \in codes : Behind(c, b, t, attempts)
    BY <2>3
  <2> HIDE DEF s, t
  <2>5. clock < c.used + Lifetime /\ c.used # Nothing
    BY <2>2, <2>3, <2>4, LongestLife, AccessAssumption DEF Behind, SignInInv, Ledger
  <2>6. /\ c.user.sub = s.sub /\ c.user.email = s.email
        /\ attempts[c.attempt] = [browser |-> b, issuer |-> env.issuer, client |-> env.client]
    BY <2>1, <2>2, <2>4 DEF Behind
  <2>7. env.allowed # {} => c.user.email \in env.allowed
    BY <2>1, <2>6 DEF IdentityAllowed
  <2> USE DEF s
  <2> QED
    BY <2>5, <2>6, <2>7
<1> QED
  BY <1>1, SignInInvariant, PTL

-----------------------------------------------------------------------------
(* Requests about accounts.  A request that has read the provider in the     *)
(* version its administrator saw may rely on it, since versions stay as they *)
(* were committed; and the row of an account names one provider for good.    *)

RouteFields == {"step", "provider", "type", "ref", "group", "version"}
Recognised == {"proxy", "account", "run"}

CallKnown(r, table) ==
    r.step \in {"state", "resource"} \cup Recognised =>
        /\ DOMAIN r = RouteFields
        /\ r.ref \in Refs /\ r.type \in Types /\ r.version \in DOMAIN table
        /\ r.step \in Recognised => Saved(table[r.version], r.provider, r.type)

OwnerOf(s) == [provider |-> s.provider, type |-> s.type]

RoutesInv ==
    /\ commits \in Seq(Configurations) /\ commits # <<>>
    /\ DOMAIN calls = Calls /\ \A c \in Calls : CallKnown(calls[c], commits)
    /\ DOMAIN owned = Refs
    /\ \A s \in started :
         /\ s.ref \in Refs /\ s.type \in Types /\ s.version \in DOMAIN commits
         /\ Saved(commits[s.version], s.provider, s.type)
         /\ owned[s.ref] = OwnerOf(s)

LEMMA CallMoves ==
    ASSUME RoutesInv, NEW c \in Calls, NEW r, CallKnown(r, commits),
           calls' = [calls EXCEPT ![c] = r], UNCHANGED <<commits, owned, started>>
    PROVE  RoutesInv'
<1>1. \A x \in Calls : CallKnown(calls'[x], commits)
  BY DEF RoutesInv
<1> QED
  BY <1>1 DEF RoutesInv

LEMMA AnswerKnown ==
    ASSUME NEW table
    PROVE  CallKnown(NoCall, table)
BY DEF CallKnown, NoCall, Recognised

\* The reads that only let a request pass or answer it.
LEMMA ReadKeeps ==
    ASSUME RoutesInv, NEW c \in Calls,
           ReadState(c) \/ ReadResource(c) \/ ReadProxies(c) \/ CheckAccount(c)
    PROVE  RoutesInv'
<1>1. UNCHANGED <<commits, owned, started>>
  BY DEF ReadState, ReadResource, ReadProxies, CheckAccount
<1>2. CASE Answer(c)
  BY <1>1, <1>2, AnswerKnown, CallMoves DEF Answer
<1>3. ASSUME NEW step, Go(c, step), DOMAIN calls[c] = RouteFields, calls[c].ref \in Refs, calls[c].type \in Types,
             calls[c].version \in DOMAIN commits, step \in {"resource"} \cup Recognised,
             step \in Recognised => Saved(commits[calls[c].version], calls[c].provider, calls[c].type)
      PROVE  RoutesInv'
  <2> DEFINE r == [calls[c] EXCEPT !.step = step]
  <2>1. calls' = [calls EXCEPT ![c] = r]
    BY <1>3 DEF Go
  <2>2. /\ DOMAIN r = RouteFields /\ r.step = step /\ r.ref = calls[c].ref
        /\ r.version = calls[c].version /\ r.provider = calls[c].provider /\ r.type = calls[c].type
    BY <1>3 DEF RouteFields
  <2>3. CallKnown(r, commits)
    BY <1>3, <2>2 DEF CallKnown
  <2> HIDE DEF r
  <2> QED
    BY <1>1, <2>1, <2>3, CallMoves
<1>4. CallKnown(calls[c], commits) /\ Version \in DOMAIN commits
  BY DEF RoutesInv, Version
<1>5. CASE ReadState(c)
  BY <1>2, <1>3, <1>4, <1>5 DEF ReadState, At, CallKnown, Recognised
<1>6. CASE ReadResource(c)
  BY <1>2, <1>3, <1>4, <1>6 DEF ReadResource, At, CallKnown, Recognised, CurrentConfig
<1>7. CASE ReadProxies(c)
  BY <1>2, <1>3, <1>4, <1>7 DEF ReadProxies, At, CallKnown, Recognised
<1>8. CASE CheckAccount(c)
  BY <1>2, <1>3, <1>4, <1>8 DEF CheckAccount, At, CallKnown, Recognised
<1> QED
  BY <1>5, <1>6, <1>7, <1>8

LEMMA AskKeeps ==
    ASSUME RoutesInv, NEW c \in Calls, NEW p, NEW t \in Types, NEW r \in Refs, NEW g, NEW v \in 1..Version,
           Ask(c, p, t, r, g, v)
    PROVE  RoutesInv'
<1> DEFINE x == [step |-> "state", provider |-> p, type |-> t, ref |-> r, group |-> g, version |-> v]
<1>1. CallKnown(x, commits)
  BY DEF CallKnown, RouteFields, Recognised, RoutesInv, Version
<1>2. calls' = [calls EXCEPT ![c] = x] /\ UNCHANGED <<commits, owned, started>>
  BY DEF Ask
<1> HIDE DEF x
<1> QED
  BY <1>1, <1>2, CallMoves

\* An account's row is written once.
LEMMA StartKeeps ==
    ASSUME RoutesInv, NEW c \in Calls, StartAuthorization(c)
    PROVE  RoutesInv'
<1> DEFINE call == calls[c]
           row == [provider |-> call.provider, type |-> call.type]
           new == [provider |-> call.provider, type |-> call.type, ref |-> call.ref, version |-> call.version]
<1>1. /\ call.ref \in Refs /\ call.type \in Types /\ call.version \in DOMAIN commits
      /\ Saved(commits[call.version], call.provider, call.type)
      /\ Answer(c) /\ UNCHANGED commits
  BY DEF StartAuthorization, At, RoutesInv, CallKnown, Recognised
<1>2. calls' = [calls EXCEPT ![c] = NoCall]
  BY <1>1 DEF Answer
<1>3. CASE UNCHANGED <<owned, started>>
  BY <1>1, <1>2, <1>3, AnswerKnown, CallMoves
<1>4. CASE /\ owned[call.ref] \in {Nothing, row}
           /\ owned' = [owned EXCEPT ![call.ref] = row]
           /\ started' = started \cup {new}
  <2>1. OwnerOf(new) = row /\ new.ref = call.ref /\ new.version = call.version
        /\ new.provider = call.provider /\ new.type = call.type
    BY DEF OwnerOf
  <2>2. ASSUME NEW s \in started
        PROVE  owned[s.ref] # Nothing
    <3>1. /\ owned[s.ref] = OwnerOf(s) /\ commits[s.version] \in Configurations
          /\ s.type \in Types /\ s.provider \in DOMAIN commits[s.version].types
      BY <2>2 DEF RoutesInv, Saved
    <3>2. OwnerOf(s) \in [provider : UNION {DOMAIN x.types : x \in Configurations}, type : Types]
      BY <3>1 DEF OwnerOf
    <3> QED
      BY <3>1, <3>2, AccessAssumption
  <2>3. \A s \in started : owned'[s.ref] = OwnerOf(s)
    BY <1>4, <2>2 DEF RoutesInv
  <2>4. owned'[new.ref] = OwnerOf(new) /\ DOMAIN owned' = Refs
    BY <1>1, <1>4, <2>1 DEF RoutesInv
  <2>5. \A x \in Calls : CallKnown(calls'[x], commits)
    BY <1>2, AnswerKnown DEF RoutesInv
  <2> HIDE DEF new
  <2>6. \A s \in started' :
           /\ s.ref \in Refs /\ s.type \in Types /\ s.version \in DOMAIN commits
           /\ Saved(commits[s.version], s.provider, s.type)
           /\ owned'[s.ref] = OwnerOf(s)
    BY <1>1, <1>4, <2>1, <2>3, <2>4 DEF RoutesInv
  <2> QED
    BY <1>1, <1>2, <2>4, <2>5, <2>6 DEF RoutesInv
<1> QED
  BY <1>3, <1>4 DEF StartAuthorization

LEMMA OperationKeeps ==
    ASSUME RoutesInv, NEW c \in Calls,
           \/ \E ref \in Refs, type \in Types : Operate(c, ref, type)
           \/ \E reset \in BOOLEAN : Operated(c, reset)
           \/ ClearCooldowns(c)
    PROVE  RoutesInv'
<1>1. UNCHANGED <<commits, owned, started>>
  BY DEF Operate, Operated, ClearCooldowns
<1>2. CASE Answer(c)
  BY <1>1, <1>2, AnswerKnown, CallMoves DEF Answer
<1>3. ASSUME NEW ref, NEW type, Operate(c, ref, type)
      PROVE  RoutesInv'
  <2> DEFINE r == [step |-> "operating", ref |-> ref, type |-> type]
  <2>1. CallKnown(r, commits) /\ calls' = [calls EXCEPT ![c] = r]
    BY <1>3 DEF CallKnown, Recognised, Operate
  <2> HIDE DEF r
  <2> QED
    BY <1>1, <2>1, CallMoves
<1>4. CASE Go(c, "clearing")
  <2> DEFINE r == [calls[c] EXCEPT !.step = "clearing"]
  <2>1. calls' = [calls EXCEPT ![c] = r]
    BY <1>4 DEF Go
  <2>2. r.step = "clearing" \/ r.step = calls[c].step
    OBVIOUS
  <2>3. CallKnown(r, commits)
    BY DEF CallKnown, Recognised
  <2> HIDE DEF r
  <2> QED
    BY <1>1, <2>1, <2>3, CallMoves
<1> QED
  BY <1>2, <1>3, <1>4 DEF Operated, ClearCooldowns

LEMMA CommitKeeps ==
    ASSUME RoutesInv, NEW x \in Configurations, Commit(x)
    PROVE  RoutesInv'
<1>1. commits' = Append(commits, x) /\ UNCHANGED <<owned, calls, started>>
  BY DEF Commit
<1>2. commits' \in Seq(Configurations) /\ commits' # <<>> /\ Longer(commits, commits')
  BY <1>1 DEF RoutesInv, Longer
<1> QED
  BY <1>1, <1>2 DEF RoutesInv, CallKnown, Longer

LEMMA RoutesBegin ==
    ASSUME RoutesInit
    PROVE  RoutesInv
BY DEF RoutesInit, RoutesInv, CallKnown, NoCall, Recognised

LEMMA RoutesStep ==
    ASSUME RoutesInv, [RoutesNext]_routeVars
    PROVE  RoutesInv'
<1>1. CASE UNCHANGED routeVars
  BY <1>1 DEF routeVars, RoutesInv
<1>2. CASE RoutesNext
  <2>1. ASSUME NEW c \in Calls,
               ReadState(c) \/ ReadResource(c) \/ ReadProxies(c) \/ CheckAccount(c) \/ StartAuthorization(c)
        PROVE  RoutesInv'
    BY <2>1, ReadKeeps, StartKeeps
  <2>2. ASSUME NEW c \in Calls,
               \E p \in Providers, t \in Types, r \in Refs, v \in 1..Version,
                  g \in {Nothing} \cup UNION {x.groups : x \in Configurations} : Ask(c, p, t, r, g, v)
        PROVE  RoutesInv'
    BY <2>2, AskKeeps
  <2>3. ASSUME NEW x \in Configurations, Commit(x)
        PROVE  RoutesInv'
    BY <2>3, CommitKeeps
  <2> QED
    BY <1>2, <2>1, <2>2, <2>3, OperationKeeps DEF RoutesNext
<1> QED
  BY <1>1, <1>2

\* An authorization runs only for a provider that had its type in the version
\* the administrator acted on, and an account never serves two providers: the
\* version is checked in the same read as the provider, and the account's row
\* is written once.
THEOREM StartedAsSeen == RoutesSpec => []StartsAsSeen
<1>1. RoutesInit => RoutesInv
  BY RoutesBegin
<1>2. RoutesInv /\ [RoutesNext]_routeVars => RoutesInv'
  BY RoutesStep
<1>3. RoutesInv => StartsAsSeen
  <2> SUFFICES ASSUME RoutesInv
               PROVE  StartsAsSeen
    OBVIOUS
  <2>1. \A s \in started : Saved(commits[s.version], s.provider, s.type)
    BY DEF RoutesInv
  <2>2. ASSUME NEW s \in started, NEW t \in started, s.ref = t.ref
        PROVE  s.provider = t.provider /\ s.type = t.type
    <3>1. OwnerOf(s) = OwnerOf(t)
      BY <2>2 DEF RoutesInv
    <3> QED
      BY <3>1 DEF OwnerOf
  <2> QED
    BY <2>1, <2>2 DEF StartsAsSeen
<1> QED
  BY <1>1, <1>2, <1>3, PTL DEF RoutesSpec

(* Clients.  What a waiting request uses was computed from the keys that     *)
(* were configured when it asked: from those configured now, unless they     *)
(* were replaced after it came.                                              *)

Computation == [keys : {KeysOf(es) : es \in EntryLists}, status : {"pending", "done", "failed"}]

Found == {Nothing} \cup UNION {{es[i] : i \in DOMAIN es} : es \in EntryLists}

Caller == [step : {"idle", "digested", "waiting", "answered"}, tokens : SUBSET Keys,
           uses : Nat, since : Nat, found : Found]

\* What a caller waits for, with the entries, their changes and a table of computations.
Waits(r, es, n, table) ==
    /\ r.since <= n
    /\ r.step = "waiting" =>
         /\ r.uses \in DOMAIN table
         /\ r.since = n => table[r.uses].keys = KeysOf(es)

KeysInv ==
    /\ entries \in EntryLists /\ changes \in Nat
    /\ digests \in Seq(Computation) /\ cached \in 0..Len(digests)
    /\ callers \in [Callers -> Caller]
    /\ \A c \in Callers : Waits(callers[c], entries, changes, digests)

\* A set of numbers has a least one, so "the first entry that matches" is one that matches.
LEMMA LeastNumber ==
    ASSUME NEW S \in SUBSET Nat, S # {}
    PROVE  \E i \in S : \A j \in S : i <= j
<1> DEFINE R == OpToRel(<, Nat)
<1>1. IsWellFoundedOn(R, Nat)
  BY NatLessThanWellFounded
<1>2. R = {ss \in Nat \X Nat : ss[1] < ss[2]}
  BY DEF OpToRel
<1> HIDE DEF R
<1>3. PICK i \in S : \A j \in S : ~ (<<j, i>> \in R)
  BY <1>1, WFMin
<1>4. \A j \in S : ~(j < i)
  BY <1>2, <1>3
<1> QED
  BY <1>3, <1>4

LEMMA First ==
    ASSUME entries \in EntryLists, NEW S \in SUBSET DOMAIN entries, S # {}
    PROVE  (CHOOSE i \in S : \A j \in S : i <= j) \in S
<1>1. DOMAIN entries = 1..Len(entries) /\ Len(entries) \in Nat
  BY AccessAssumption
<1>2. S \in SUBSET Nat
  BY <1>1
<1>3. \E i \in S : \A j \in S : i <= j
  BY <1>2, LeastNumber
<1> QED
  BY <1>3

\* One caller moves; the others wait as before.
LEMMA CallerMoves ==
    ASSUME KeysInv, UNCHANGED <<entries, changes>>,
           NEW c \in Callers, NEW r \in Caller, callers' = [callers EXCEPT ![c] = r],
           digests' \in Seq(Computation), cached' \in 0..Len(digests'),
           \A n \in DOMAIN digests : n \in DOMAIN digests' /\ digests'[n].keys = digests[n].keys,
           Waits(r, entries, changes, digests')
    PROVE  KeysInv'
<1>1. callers' \in [Callers -> Caller]
  BY DEF KeysInv
<1>2. ASSUME NEW d \in Callers
      PROVE  Waits(callers'[d], entries, changes, digests')
  <2>1. CASE d = c
    BY <2>1 DEF KeysInv
  <2>2. CASE d # c
    BY <2>2 DEF KeysInv, Waits
  <2> QED
    BY <2>1, <2>2
<1> QED
  BY <1>1, <1>2 DEF KeysInv

LEMMA PresentKeeps ==
    ASSUME KeysInv, NEW c \in Callers, NEW tokens \in SUBSET Keys, Present(c, tokens)
    PROVE  KeysInv'
<1> DEFINE step == IF tokens = {} THEN "answered" ELSE "digested"
           r == [step |-> step, tokens |-> tokens, uses |-> 0, since |-> changes, found |-> Nothing]
           bare == [Idling EXCEPT !.tokens = tokens]
           dated == [bare EXCEPT !.since = changes]
<1>1. r = [dated EXCEPT !.step = step]
  <2>1. bare = [step |-> "idle", tokens |-> tokens, uses |-> 0, since |-> 0, found |-> Nothing]
    BY DEF Idling
  <2> HIDE DEF bare
  <2>2. dated = [step |-> "idle", tokens |-> tokens, uses |-> 0, since |-> changes, found |-> Nothing]
    BY <2>1
  <2> HIDE DEF dated, step
  <2> QED
    BY <2>2
<1>2. step \in {"answered", "digested"}
  OBVIOUS
<1> HIDE DEF step
<1>3. r \in Caller
  BY <1>2 DEF Caller, Found, KeysInv
<1>4. Waits(r, entries, changes, digests)
  BY <1>2 DEF Waits, KeysInv
<1>5. callers' = [callers EXCEPT ![c] = r] /\ UNCHANGED <<entries, changes, digests, cached>>
  BY <1>1 DEF Present, step
<1> HIDE DEF r
<1> QED
  BY <1>3, <1>4, <1>5, CallerMoves DEF KeysInv

LEMMA ConfiguredKeeps ==
    ASSUME KeysInv, NEW c \in Callers, Configured(c)
    PROVE  KeysInv'
<1> DEFINE hit == cached # 0 /\ digests[cached].keys = KeysOf(entries)
           n == IF hit THEN cached ELSE Len(digests) + 1
           r == [callers[c] EXCEPT !.uses = n, !.step = "waiting"]
           fresh == [keys |-> KeysOf(entries), status |-> "pending"]
<1>1. callers' = [callers EXCEPT ![c] = r] /\ cached' = n /\ UNCHANGED <<entries, changes>>
  BY DEF Configured, KeysInv
<1>2. digests' = IF hit THEN digests ELSE Append(digests, fresh)
  BY DEF Configured
<1>3. fresh \in Computation
  BY DEF KeysInv, Computation
<1>4. /\ digests' \in Seq(Computation) /\ n \in DOMAIN digests' /\ cached' \in 0..Len(digests')
      /\ digests'[n].keys = KeysOf(entries)
      /\ \A m \in DOMAIN digests : m \in DOMAIN digests' /\ digests'[m] = digests[m]
  <2> HIDE DEF fresh
  <2>1. fresh.keys = KeysOf(entries)
    BY DEF fresh
  <2>2. CASE hit
    BY <1>1, <1>2, <2>2 DEF KeysInv
  <2>3. CASE ~hit
    BY <1>1, <1>2, <1>3, <2>1, <2>3 DEF KeysInv
  <2> QED
    BY <2>2, <2>3
<1>5. n \in Nat
  BY DEF KeysInv
<1> HIDE DEF n
<1>6. callers[c] \in Caller /\ r \in Caller
  BY <1>5 DEF KeysInv, Caller
<1>7. r.uses = n /\ r.since = callers[c].since
  BY <1>6 DEF Caller
<1>8. Waits(r, entries, changes, digests')
  BY <1>4, <1>7 DEF Waits, KeysInv
<1> HIDE DEF r
<1> QED
  BY <1>1, <1>4, <1>6, <1>8, CallerMoves

LEMMA ComputedKeeps ==
    ASSUME KeysInv, NEW n \in DOMAIN digests, NEW ok \in BOOLEAN, Computed(n, ok)
    PROVE  KeysInv'
<1>1. UNCHANGED <<entries, changes, callers>>
  BY DEF Computed
<1>2. digests' \in Seq(Computation) /\ Len(digests') = Len(digests)
  <2> DEFINE e == [digests[n] EXCEPT !.status = IF ok THEN "done" ELSE "failed"]
  <2>1. digests[n] \in Computation
    BY DEF KeysInv
  <2>2. e \in Computation
    BY <2>1 DEF Computation
  <2>3. digests' = [digests EXCEPT ![n] = e]
    BY DEF Computed
  <2> HIDE DEF e
  <2> QED
    BY <2>2, <2>3 DEF KeysInv
<1>3. \A m \in DOMAIN digests : m \in DOMAIN digests' /\ digests'[m].keys = digests[m].keys
  BY DEF Computed, KeysInv, Computation
<1>4. cached' \in 0..Len(digests')
  BY <1>2 DEF Computed, KeysInv
<1> QED
  BY <1>1, <1>2, <1>3, <1>4 DEF KeysInv, Waits

LEMMA MatchKeeps ==
    ASSUME KeysInv, NEW c \in Callers, Match(c)
    PROVE  KeysInv'
<1> DEFINE matches == {i \in DOMAIN entries : Matches(c, i)}
           found == IF digests[callers[c].uses].status = "failed" \/ matches = {} THEN Nothing
                    ELSE entries[CHOOSE i \in matches : \A j \in matches : i <= j]
           r == [callers[c] EXCEPT !.step = "answered", !.found = found]
<1>1. /\ callers' = [callers EXCEPT ![c].step = "answered", ![c].found = found]
      /\ UNCHANGED <<entries, changes, digests, cached>>
  BY DEF Match
<1>2. found \in Found
  <2>1. matches # {} => (CHOOSE i \in matches : \A j \in matches : i <= j) \in matches
    BY First DEF KeysInv
  <2>2. entries \in EntryLists
    BY DEF KeysInv
  <2>3. \A i \in DOMAIN entries : entries[i] \in Found
    BY <2>2 DEF Found
  <2>4. Nothing \in Found
    BY DEF Found
  <2> QED
    BY <2>1, <2>3, <2>4
<1> HIDE DEF found
<1>3. callers' = [callers EXCEPT ![c] = r]
  BY <1>1 DEF KeysInv
<1>4. r \in Caller
  BY <1>2 DEF KeysInv, Caller
<1>5. r.step = "answered" /\ r.since = callers[c].since
  BY DEF KeysInv, Caller
<1>6. Waits(r, entries, changes, digests)
  BY <1>5 DEF Waits, KeysInv
<1> HIDE DEF r
<1> QED
  BY <1>1, <1>4, <1>6, <1>3, CallerMoves DEF KeysInv

LEMMA ReplaceKeeps ==
    ASSUME KeysInv, NEW es \in EntryLists, Replace(es)
    PROVE  KeysInv'
<1>1. entries' = es /\ changes' = changes + 1 /\ UNCHANGED <<digests, cached, callers>>
  BY DEF Replace
<1>2. ASSUME NEW c \in Callers
      PROVE  Waits(callers[c], es, changes + 1, digests)
  BY DEF KeysInv, Waits, Caller
<1> QED
  BY <1>1, <1>2 DEF KeysInv

LEMMA KeysBegin ==
    ASSUME KeysInit
    PROVE  KeysInv
BY DEF KeysInit, KeysInv, Idling, Waits, Caller, Found, Computation

LEMMA KeysStep ==
    ASSUME KeysInv, [KeysNext]_keyVars
    PROVE  KeysInv'
<1>1. CASE UNCHANGED keyVars
  BY <1>1 DEF keyVars, KeysInv
<1>2. CASE KeysNext
  BY <1>2, PresentKeeps, ConfiguredKeeps, ComputedKeeps, MatchKeeps, ReplaceKeeps DEF KeysNext
<1> QED
  BY <1>1, <1>2

\* The answer of a match.  The entry found matches, so its key is among the
\* tokens and is configured; and if the computation started from the keys that
\* are configured, the entries that match are those whose key is presented.
LEMMA MatchIsCurrent ==
    ASSUME KeysInv, NEW c \in Callers, Match(c)
    PROVE  AnswerIsCurrent
<1> DEFINE matches == {i \in DOMAIN entries : Matches(c, i)}
           first == CHOOSE i \in matches : \A j \in matches : i <= j
           known == {i \in DOMAIN entries : entries[i].key \in callers[c].tokens}
           status == digests[callers[c].uses].status
<1>1. callers'[c].found = IF status = "failed" \/ matches = {} THEN Nothing ELSE entries[first]
  BY DEF Match, KeysInv, Caller
<1>2. \A d \in Callers : d # c => callers'[d] = callers[d]
  BY DEF Match, KeysInv
<1>3. matches \subseteq known
  BY DEF Matches
<1>4. matches # {} => first \in matches
  BY First DEF KeysInv
<1>5. callers'[c].found # Nothing => \E i \in known : entries[i] = callers'[c].found
  BY <1>1, <1>3, <1>4
<1>6. callers[c].since = changes => matches = known
  <2> SUFFICES ASSUME callers[c].since = changes
               PROVE  known \subseteq matches
    BY <1>3
  <2>1. digests[callers[c].uses].keys = KeysOf(entries)
    BY DEF KeysInv, Waits, Match
  <2> QED
    BY <2>1 DEF Matches, KeysOf
<1>7. callers[c].since = changes /\ status = "done" =>
        IF known = {} THEN callers'[c].found = Nothing
        ELSE callers'[c].found = entries[CHOOSE i \in known : \A j \in known : i <= j]
  BY <1>1, <1>6
<1> HIDE DEF matches
<1> QED
  BY <1>2, <1>5, <1>7 DEF AnswerIsCurrent

LEMMA OnlyMatchAnswers ==
    ASSUME KeysInv, [KeysNext]_keyVars
    PROVE  AnswerIsCurrent
<1>1. CASE UNCHANGED callers
  BY <1>1 DEF AnswerIsCurrent
<1>2. ASSUME NEW c \in Callers, NEW tokens \in SUBSET Keys, Present(c, tokens)
      PROVE  AnswerIsCurrent
  BY <1>2 DEF Present, AnswerIsCurrent, KeysInv
<1>3. ASSUME NEW c \in Callers, Configured(c)
      PROVE  AnswerIsCurrent
  BY <1>3 DEF Configured, AnswerIsCurrent, KeysInv
<1> QED
  BY <1>1, <1>2, <1>3, MatchIsCurrent DEF KeysNext, keyVars, Computed, Replace

\* A request becomes a client who is configured at that moment and whose key it
\* carries, whatever is replaced while digests are computed; and the first such
\* client, if nothing was replaced since it came and the computation succeeded.
THEOREM ClientsAreCurrent == KeysSpec => ClientIsCurrent
<1>1. KeysInit => KeysInv
  BY KeysBegin
<1>2. KeysInv /\ [KeysNext]_keyVars => KeysInv'
  BY KeysStep
<1>3. KeysInv /\ [KeysNext]_keyVars => [AnswerIsCurrent]_keyVars
  BY OnlyMatchAnswers
<1> QED
  BY <1>1, <1>2, <1>3, PTL DEF KeysSpec, ClientIsCurrent
=============================================================================
