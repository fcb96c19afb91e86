------------------------- MODULE ControlPlaneProofs -------------------------
(***************************************************************************)
(* Proofs about ControlPlane, for any administrators, workers, requests,   *)
(* operation ids and initial configuration, and whatever a request does to *)
(* the rows (what the services do stays unexpanded): the calls amount to   *)
(* ConfigRegister, and what an administrator or an inference request is    *)
(* told is so.                                                             *)
(***************************************************************************)
EXTENDS ControlPlane, TLAPS

-----------------------------------------------------------------------------
(* The inductive invariant. *)

Fields == {"pc", "sent", "reads", "seen", "base", "config", "work"}
Working == {"recover", "replay", "before", "rows", "after", "commit", "confirm"}
Reading == {"before", "rows", "after"}

AllRequests == UNION {Suites[t].requests : t \in DOMAIN Suites}

\* Every version has its document, every operation its version.
RegisterInv ==
    /\ suite \in DOMAIN Suites
    /\ version \in Nat \ {0} /\ DOMAIN snapshots = 1..version
    /\ \A o \in DOMAIN operations :
          /\ operations[o].version \in 1..version
          /\ operations[o] = [version |-> operations[o].expected + 1,
                              actor |-> operations[o].actor,
                              request |-> operations[o].request,
                              expected |-> operations[o].expected]

\* Nobody sends a call about a version that is still to come.
Sendable(s) ==
    /\ s.actor \in Actors /\ s.op \in Operations /\ s.q \in AllRequests
    /\ s.expected \in 1..version
ConsoleInv ==
    /\ DOMAIN sent = Actors /\ \A a \in Actors : sent[a] # None => Sendable(sent[a])
    /\ view \in [Actors -> Nat] /\ \A a \in Actors : view[a] \in 1..version

\* The document a restore would write now.
Document(q) ==
    IF q.kind # "restore" THEN None
    ELSE PreserveCurrentSecrets(snapshots[q.source], snapshots[version])
Restorable(q) == q.kind = "restore" => q.source \in DOMAIN snapshots /\ Document(q) # None

Typed(w) ==
    /\ calls[w].pc \in Working \cup {"idle", "answered"}
    /\ calls[w].pc # "idle" => Sendable(calls[w].sent)
    /\ calls[w].pc \in Working => DOMAIN calls[w] = Fields
    /\ calls[w].pc = "recover" => calls[w].sent.q.kind = "restore"

\* As long as the version a call was made on is the current one, its operation
\* was not committed by another call, ...
Unused(w) ==
    calls[w].pc \in Reading \cup {"commit"} /\ calls[w].sent.op \in DOMAIN operations
        => version > calls[w].sent.expected

\* ... the document it recovered is the one to restore, ...
Recovers(w) ==
    calls[w].pc \in Reading \cup {"replay"} /\ version = calls[w].sent.expected
        => calls[w].config = Document(calls[w].sent.q) /\ Restorable(calls[w].sent.q)

\* ... the rows between two equal versions are the current ones, ...
Reads(w) ==
    /\ calls[w].pc \in {"rows", "after"} => calls[w].seen \in Nat /\ calls[w].seen <= version
    /\ calls[w].pc = "after" /\ calls[w].seen = version => calls[w].base = rows

\* ... and what it is about to commit is what the request makes of them.
Wanted(q) == Worked(rows, stored, version + 1, q, Document(q))
Proposes(w) ==
    calls[w].pc = "commit" /\ version = calls[w].sent.expected =>
        LET work == Wanted(calls[w].sent.q) IN
        /\ Restorable(calls[w].sent.q) /\ work.ok
        /\ calls[w].work = [rows |-> CommittedRows(rows, work.rows), pending |-> work.pending,
                            config |-> CompileSnapshot(work.rows)]

\* "Saved" is said of what is recorded.
Answers(w) ==
    calls[w].pc = "answered" /\ calls[w].outcome = "saved" =>
        LET s == calls[w].sent IN
        /\ calls[w].version = s.expected + 1 /\ s.op \in DOMAIN operations
        /\ operations[s.op] = [version |-> s.expected + 1, actor |-> s.actor,
                               request |-> s.q, expected |-> s.expected]

CallOK(w) == Typed(w) /\ Unused(w) /\ Recovers(w) /\ Reads(w) /\ Proposes(w) /\ Answers(w)
CallInv == DOMAIN calls = Workers /\ \A w \in Workers : CallOK(w)

\* What is cached or served is the document of a version.
Loaded(l) ==
    /\ loads[l].pc = "loading" => loads[l].version \in DOMAIN snapshots
    /\ loads[l].pc = "serving" =>
          /\ loads[l].started \in DOMAIN snapshots
          /\ loads[l].config = [revision |-> loads[l].started,
                                config |-> snapshots[loads[l].started]]
LoadInv ==
    /\ DOMAIN loads = Loads /\ \A l \in Loads : Loaded(l)
    /\ cache # None =>
          \E v \in DOMAIN snapshots : cache = [revision |-> v, config |-> snapshots[v]]

ControlInv == RegisterInv /\ ConsoleInv /\ CallInv /\ LoadInv

-----------------------------------------------------------------------------
(* What a commit does to the tables. *)

LEMMA Inserted ==
  ASSUME NEW table, NEW new
  PROVE  /\ DOMAIN Insert(table, new) = DOMAIN table \cup DOMAIN new
         /\ \A i \in DOMAIN table : Insert(table, new)[i] = table[i]
         /\ \A i \in DOMAIN new : i \notin DOMAIN table => Insert(table, new)[i] = new[i]
BY DEF Insert

\* The step by which a call makes a version.
Makes(w) ==
    LET s == calls[w].sent IN
    /\ calls[w].pc = "commit" /\ version = s.expected
    /\ version' = version + 1 /\ rows' = calls[w].work.rows
    /\ stored' = Insert(stored, calls[w].work.pending)
    /\ snapshots' = Insert(snapshots, [v \in {version + 1} |-> calls[w].work.config])
    /\ operations' = Insert(operations, Logged(s))

\* What is kept by it, whichever call it is.
LEMMA Kept ==
  ASSUME ControlInv, NEW w \in Workers, Makes(w)
  PROVE  /\ calls[w].sent.op \notin DOMAIN operations
         /\ DOMAIN operations' = DOMAIN operations \cup {calls[w].sent.op}
         /\ \A o \in DOMAIN operations : operations'[o] = operations[o]
         /\ operations'[calls[w].sent.op] =
              [version |-> version + 1, actor |-> calls[w].sent.actor,
               request |-> calls[w].sent.q, expected |-> version]
         /\ DOMAIN snapshots' = 1..version'
         /\ \A v \in 1..version : snapshots'[v] = snapshots[v]
         /\ snapshots'[version + 1] = calls[w].work.config
<1> DEFINE s == calls[w].sent
<1>1. Sendable(s) /\ s.op \notin DOMAIN operations /\ version = s.expected /\ version \in Nat
  BY DEF ControlInv, RegisterInv, CallInv, CallOK, Typed, Unused, Makes, Sendable
<1>2. /\ DOMAIN Logged(s) = {s.op}
      /\ Logged(s)[s.op] = [version |-> version + 1, actor |-> s.actor,
                            request |-> s.q, expected |-> version]
  BY <1>1 DEF Logged
<1>3. operations' = Insert(operations, Logged(s))
  BY DEF Makes
<1>4. snapshots' = Insert(snapshots, [v \in {version + 1} |-> calls[w].work.config])
      /\ version' = version + 1
  BY DEF Makes
<1>5. DOMAIN snapshots = 1..version /\ version + 1 \notin 1..version
      /\ 1..(version + 1) = 1..version \cup {version + 1}
  BY <1>1 DEF ControlInv, RegisterInv
<1>6. /\ DOMAIN operations' = DOMAIN operations \cup {s.op}
      /\ \A o \in DOMAIN operations : operations'[o] = operations[o]
      /\ operations'[s.op] = Logged(s)[s.op]
  <2> DEFINE new == Logged(s)
  <2>1. /\ operations' = Insert(operations, new) /\ DOMAIN new = {s.op}
        /\ new[s.op] = Logged(s)[s.op] /\ s.op \notin DOMAIN operations
    BY <1>1, <1>2, <1>3
  <2> HIDE DEF new, s
  <2>2. /\ DOMAIN Insert(operations, new) = DOMAIN operations \cup DOMAIN new
        /\ \A i \in DOMAIN operations : Insert(operations, new)[i] = operations[i]
        /\ \A i \in DOMAIN new : i \notin DOMAIN operations => Insert(operations, new)[i] = new[i]
    BY Inserted
  <2> QED BY <2>1, <2>2
<1>7. /\ DOMAIN snapshots' = 1..version'
      /\ \A v \in 1..version : snapshots'[v] = snapshots[v]
      /\ snapshots'[version + 1] = calls[w].work.config
  <2> DEFINE new == [v \in {version + 1} |-> calls[w].work.config]
  <2>1. DOMAIN new = {version + 1} /\ new[version + 1] = calls[w].work.config
        /\ snapshots' = Insert(snapshots, new)
    BY <1>4
  <2> HIDE DEF new
  <2>2. /\ DOMAIN Insert(snapshots, new) = DOMAIN snapshots \cup DOMAIN new
        /\ \A i \in DOMAIN snapshots : Insert(snapshots, new)[i] = snapshots[i]
        /\ \A i \in DOMAIN new : i \notin DOMAIN snapshots => Insert(snapshots, new)[i] = new[i]
    BY Inserted
  <2> QED BY <1>4, <1>5, <2>1, <2>2
<1> QED BY <1>1, <1>2, <1>6, <1>7

LEMMA CommitMakes ==
  ASSUME NEW w \in Workers, Commit(w)
  PROVE  UNCHANGED register \/ Makes(w)
BY DEF Commit, Fence, Makes, register

-----------------------------------------------------------------------------
(* Calls while the register stays, and when another call changes it. *)

LEMMA Stays ==
  ASSUME UNCHANGED register, NEW w \in Workers, CallOK(w), calls'[w] = calls[w]
  PROVE  CallOK(w)'
<1> USE DEF register, CallOK
<1>1. Typed(w)'
  BY DEF Typed, Sendable
<1>2. Unused(w)'
  BY DEF Unused
<1>3. Recovers(w)'
  BY DEF Recovers, Document, Restorable
<1>4. Reads(w)'
  BY DEF Reads
<1>5. Proposes(w)'
  BY DEF Proposes, Document, Restorable, Wanted
<1>6. Answers(w)'
  BY DEF Answers
<1> QED BY <1>1, <1>2, <1>3, <1>4, <1>5, <1>6

LEMMA Passes ==
  ASSUME ControlInv, NEW x \in Workers, Makes(x),
         NEW w \in Workers, CallOK(w), calls'[w] = calls[w]
  PROVE  CallOK(w)'
<1>1. version' = version + 1 /\ version \in Nat
  BY DEF Makes, ControlInv, RegisterInv
<1>2. calls[w].pc # "idle" => calls[w].sent.expected \in Nat /\ calls[w].sent.expected < version'
  BY <1>1 DEF CallOK, Typed, Sendable
<1>3. Typed(w)'
  BY <1>1 DEF CallOK, Typed, Sendable
<1>4. Unused(w)' /\ Recovers(w)' /\ Proposes(w)'
  BY <1>1, <1>2 DEF Unused, Recovers, Proposes, Reading
<1>5. Reads(w)'
  BY <1>1 DEF CallOK, Reads
<1>6. Answers(w)'
  BY Kept DEF CallOK, Answers
<1> QED BY <1>3, <1>4, <1>5, <1>6 DEF CallOK

\* A step of one call that changes nothing else.
LEMMA LocalStep ==
  ASSUME ControlInv, NEW w \in Workers, NEW c, Step(w, c), Local, CallOK(w)'
  PROVE  ControlInv'
<1>1. RegisterInv' /\ ConsoleInv' /\ LoadInv'
  BY DEF ControlInv, RegisterInv, ConsoleInv, Sendable, LoadInv, Loaded, Local, register, gateway
<1>2. DOMAIN calls' = Workers /\ \A x \in Workers \ {w} : calls'[x] = calls[x]
  BY DEF Step, ControlInv, CallInv
<1>3. \A x \in Workers : CallOK(x)'
  BY <1>2, Stays DEF ControlInv, CallInv, Local
<1> QED BY <1>1, <1>2, <1>3 DEF ControlInv, CallInv

\* A call that ends with an answer.
LEMMA Answered ==
  ASSUME ControlInv, NEW w \in Workers, calls[w].pc \in Working, NEW outcome, NEW v,
         Step(w, Answer(calls[w], outcome, v)), Local,
         LET s == calls[w].sent IN
         outcome = "saved" =>
            /\ v = s.expected + 1 /\ s.op \in DOMAIN operations
            /\ operations[s.op] = [version |-> s.expected + 1, actor |-> s.actor,
                                   request |-> s.q, expected |-> s.expected]
  PROVE  ControlInv'
<1>1. calls'[w] = Answer(calls[w], outcome, v)
  BY DEF Step, ControlInv, CallInv
<1>2. /\ calls'[w].pc = "answered" /\ calls'[w].sent = calls[w].sent
      /\ calls'[w].outcome = outcome /\ calls'[w].version = v
  BY <1>1 DEF Answer
<1>3. Sendable(calls[w].sent)
  BY DEF ControlInv, CallInv, CallOK, Typed, Working
<1>4. Typed(w)'
  BY <1>2, <1>3 DEF Typed, Working, Sendable, Local, register
<1>5. Unused(w)' /\ Recovers(w)' /\ Reads(w)' /\ Proposes(w)'
  BY <1>2 DEF Unused, Recovers, Reads, Proposes, Reading
<1>6. Answers(w)'
  BY <1>2 DEF Answers, Local, register
<1>7. CallOK(w)'
  BY <1>4, <1>5, <1>6 DEF CallOK
<1> QED BY <1>7, LocalStep

\* What an operation id stands for.
LEMMA Replayed ==
  ASSUME ControlInv, NEW w \in Workers, calls[w].pc \in Working, NEW unused,
         Step(w, Replay(calls[w], unused)), Local,
         calls[w].sent.op \in DOMAIN operations
  PROVE  ControlInv'
<1> DEFINE s == calls[w].sent
           prior == operations[s.op]
<1>1. prior = [version |-> prior.expected + 1, actor |-> prior.actor,
               request |-> prior.request, expected |-> prior.expected]
  BY DEF ControlInv, RegisterInv
<1>2. prior.version = prior.expected + 1
  BY <1>1
<1>3. CASE prior.actor = s.actor /\ prior.request = s.q /\ prior.expected = s.expected
  <2>1. Replay(calls[w], unused) = Answer(calls[w], "saved", prior.version)
    BY <1>3 DEF Replay
  <2> QED BY <1>1, <1>2, <1>3, <2>1, Answered
<1>4. CASE ~(prior.actor = s.actor /\ prior.request = s.q /\ prior.expected = s.expected)
  <2>1. Replay(calls[w], unused) = Answer(calls[w], "conflict", 0)
    BY <1>4 DEF Replay
  <2> QED BY <2>1, Answered
<1> QED BY <1>3, <1>4

\* A call that goes on.
LEMMA Advanced ==
  ASSUME ControlInv, NEW w \in Workers, calls[w].pc \in Working, NEW c, Step(w, c), Local,
         DOMAIN c = Fields, c.sent = calls[w].sent, c.pc \in Working \ {"recover"},
         Unused(w)', Recovers(w)', Reads(w)', Proposes(w)'
  PROVE  ControlInv'
<1>1. calls'[w] = c
  BY DEF Step, ControlInv, CallInv
<1>2. Typed(w)'
  BY <1>1 DEF ControlInv, CallInv, CallOK, Typed, Working, Sendable, Local, register
<1>3. Answers(w)'
  BY <1>1 DEF Answers, Working
<1> QED BY <1>2, <1>3, LocalStep DEF CallOK

-----------------------------------------------------------------------------
(* The steps of a call. *)

\* What the fields of a call become when it goes on.
LEMMA Updated ==
  ASSUME ControlInv, NEW w \in Workers, calls[w].pc \in Working
  PROVE  DOMAIN calls[w] = Fields /\ DOMAIN calls = Workers /\ CallOK(w)
         /\ calls[w].sent.expected \in 1..version /\ version \in Nat
BY DEF ControlInv, RegisterInv, CallInv, CallOK, Typed, Working, Sendable

LEMMA RecoverStep ==
  ASSUME ControlInv, NEW w \in Workers, Recover(w)
  PROVE  ControlInv'
<1> DEFINE q == calls[w].sent.q
           config == IF q.source \in DOMAIN snapshots
                     THEN PreserveCurrentSecrets(snapshots[q.source], snapshots[version])
                     ELSE None
           next == [calls[w] EXCEPT !.pc = "replay", !.config = config]
           unused == IF maintenance THEN Answer(calls[w], "conflict", 0)
                     ELSE IF config = None THEN Answer(calls[w], "invalid", 0) ELSE next
<1>1. calls[w].pc = "recover" /\ calls[w].pc \in Working /\ Local /\ Step(w, Replay(calls[w], unused))
  BY DEF Recover, Working
<1>2. CASE calls[w].sent.op \in DOMAIN operations
  BY <1>1, <1>2, Replayed
<1>3. CASE calls[w].sent.op \notin DOMAIN operations
  <2>1. Step(w, unused)
    BY <1>1, <1>3 DEF Replay
  <2>2. CASE maintenance
    BY <1>1, <2>1, <2>2, Answered
  <2>3. CASE ~maintenance /\ config = None
    BY <1>1, <2>1, <2>3, Answered
  <2>4. CASE ~maintenance /\ config # None
    <3>1. Step(w, next)
      BY <2>1, <2>4
    <3>2. DOMAIN next = Fields /\ next.sent = calls[w].sent /\ next.pc = "replay" /\ next.config = config
      BY <1>1, Updated DEF Fields
    <3>3. calls'[w] = next
      BY <1>1, <3>1, Updated DEF Step
    <3>4. config = Document(q) /\ Restorable(q)
      BY <1>1, <2>4, Updated DEF CallOK, Typed, Document, Restorable
    <3> HIDE DEF next, config
    <3>5. Unused(w)' /\ Reads(w)' /\ Proposes(w)'
      BY <3>2, <3>3 DEF Unused, Reads, Proposes, Reading
    <3>6. Recovers(w)'
      BY <1>1, <3>2, <3>3, <3>4 DEF Recovers, Document, Restorable, Local, register
    <3> QED BY <1>1, <3>1, <3>2, <3>5, <3>6, Advanced DEF Working
  <2> QED BY <2>2, <2>3, <2>4
<1> QED BY <1>2, <1>3

LEMMA ReplayFirstStep ==
  ASSUME ControlInv, NEW w \in Workers, ReplayFirst(w)
  PROVE  ControlInv'
<1> DEFINE next == [calls[w] EXCEPT !.pc = "before"]
<1>1. calls[w].pc = "replay" /\ calls[w].pc \in Working /\ Local /\ Step(w, Replay(calls[w], next))
  BY DEF ReplayFirst, Working
<1>2. CASE calls[w].sent.op \in DOMAIN operations
  BY <1>1, <1>2, Replayed
<1>3. CASE calls[w].sent.op \notin DOMAIN operations
  <2>1. Step(w, next)
    BY <1>1, <1>3 DEF Replay
  <2>2. /\ DOMAIN next = Fields /\ next.sent = calls[w].sent /\ next.pc = "before"
        /\ next.config = calls[w].config
    BY <1>1, Updated DEF Fields
  <2>3. calls'[w] = next
    BY <1>1, <2>1, Updated DEF Step
  <2> HIDE DEF next
  <2>4. Unused(w)' /\ Reads(w)' /\ Proposes(w)'
    BY <1>1, <1>3, <2>2, <2>3 DEF Unused, Reads, Proposes, Local, register
  <2>5. Recovers(w)'
    BY <1>1, <2>2, <2>3, Updated
       DEF CallOK, Recovers, Document, Restorable, Local, register, Reading
  <2> QED BY <1>1, <2>1, <2>2, <2>4, <2>5, Advanced DEF Working
<1> QED BY <1>2, <1>3

LEMMA ReadStep ==
  ASSUME ControlInv, NEW w \in Workers, ReadBefore(w) \/ ReadRows(w)
  PROVE  ControlInv'
<1> DEFINE next == IF calls[w].pc = "before"
                   THEN [calls[w] EXCEPT !.pc = "rows", !.seen = version, !.reads = @ + 1]
                   ELSE [calls[w] EXCEPT !.pc = "after", !.base = rows]
<1>1. /\ calls[w].pc \in {"before", "rows"} /\ calls[w].pc \in Working /\ Local
      /\ Step(w, next)
  BY DEF ReadBefore, ReadRows, Working
<1>2. /\ DOMAIN next = Fields /\ next.sent = calls[w].sent /\ next.config = calls[w].config
      /\ next.pc = IF calls[w].pc = "before" THEN "rows" ELSE "after"
      /\ next.seen = IF calls[w].pc = "before" THEN version ELSE calls[w].seen
      /\ calls[w].pc = "rows" => next.base = rows
  BY <1>1, Updated DEF Fields
<1>3. calls'[w] = next
  BY <1>1, Updated DEF Step
<1> HIDE DEF next
<1>4. Unused(w)' /\ Recovers(w)'
  BY <1>1, <1>2, <1>3, Updated
     DEF CallOK, Unused, Recovers, Document, Restorable, Local, register, Reading
<1>5. Proposes(w)'
  BY <1>2, <1>3 DEF Proposes
<1>6. UNCHANGED <<version, rows>> /\ version \in Nat /\ Reads(w)
  BY <1>1 DEF Local, register, ControlInv, RegisterInv, CallInv, CallOK
<1>7. Reads(w)'
  <2>1. CASE calls[w].pc = "before"
    <3>1. next.pc = "rows" /\ next.seen = version
      BY <1>2, <2>1
    <3> QED BY <1>3, <1>6, <3>1 DEF Reads
  <2>2. CASE calls[w].pc = "rows"
    <3>1. next.pc = "after" /\ next.seen = calls[w].seen /\ next.base = rows
      BY <1>2, <2>2
    <3> QED BY <1>3, <1>6, <2>2, <3>1 DEF Reads
  <2> QED BY <1>1, <2>1, <2>2
<1> QED BY <1>1, <1>2, <1>4, <1>5, <1>7, Advanced DEF Working

LEMMA ReadAfterStep ==
  ASSUME ControlInv, NEW w \in Workers, ReadAfter(w)
  PROVE  ControlInv'
<1> DEFINE c == calls[w]
           q == c.sent.q
           again == [c EXCEPT !.pc = "before", !.base = None]
           work == Worked(c.base, stored, c.sent.expected + 1, q, c.config)
           changes == [rows |-> CommittedRows(c.base, work.rows), pending |-> work.pending,
                       config |-> CompileSnapshot(work.rows)]
           ready == [c EXCEPT !.pc = "commit", !.config = None, !.base = None, !.work = changes]
<1>1. c.pc = "after" /\ c.pc \in Working /\ Local
  BY DEF ReadAfter, Working
<1>2. \/ Step(w, Answer(c, "conflict", 0)) \/ Step(w, Answer(c, "invalid", 0))
      \/ Step(w, again)
      \/ c.seen = version /\ version = c.sent.expected /\ work.ok /\ Step(w, ready)
  BY DEF ReadAfter, Stale, Prepared, Ready
<1>3. CASE Step(w, Answer(c, "conflict", 0)) \/ Step(w, Answer(c, "invalid", 0))
  BY <1>1, <1>3, Answered
<1>4. CASE Step(w, again)
  <2>1. /\ DOMAIN again = Fields /\ again.sent = c.sent /\ again.pc = "before"
        /\ again.config = c.config
    BY <1>1, Updated DEF Fields
  <2>2. calls'[w] = again
    BY <1>1, <1>4, Updated DEF Step
  <2> HIDE DEF again
  <2>3. Unused(w)' /\ Recovers(w)' /\ Reads(w)' /\ Proposes(w)'
    BY <1>1, <2>1, <2>2, Updated
       DEF CallOK, Unused, Recovers, Reads, Proposes, Document, Restorable, Local, register, Reading
  <2> QED BY <1>1, <1>4, <2>1, <2>3, Advanced DEF Working
<1>5. CASE c.seen = version /\ version = c.sent.expected /\ work.ok /\ Step(w, ready)
  <2>1. DOMAIN ready = Fields /\ ready.sent = c.sent /\ ready.pc = "commit" /\ ready.work = changes
    BY <1>1, Updated DEF Fields
  <2>2. calls'[w] = ready
    BY <1>1, <1>5, Updated DEF Step
  <2>3. c.base = rows /\ c.config = Document(q) /\ Restorable(q) /\ work = Wanted(q)
    BY <1>1, <1>5, Updated DEF CallOK, Reads, Recovers, Reading, Wanted
  <2>4. changes = [rows |-> CommittedRows(rows, Wanted(q).rows), pending |-> Wanted(q).pending,
                   config |-> CompileSnapshot(Wanted(q).rows)]
    BY <2>3
  <2>5. Wanted(q).ok
    BY <1>5, <2>3
  <2> HIDE DEF ready, changes, work
  <2>6. Proposes(w)'
    BY <1>1, <2>1, <2>2, <2>3, <2>4, <2>5
       DEF Proposes, Document, Restorable, Wanted, Local, register
  <2>7. Unused(w)' /\ Recovers(w)' /\ Reads(w)'
    BY <1>1, <2>1, <2>2, Updated DEF CallOK, Unused, Recovers, Reads, Local, register, Reading
  <2> QED BY <1>1, <1>5, <2>1, <2>6, <2>7, Advanced DEF Working
<1> QED BY <1>2, <1>3, <1>4, <1>5

LEMMA ConfirmStep ==
  ASSUME ControlInv, NEW w \in Workers, Confirm(w)
  PROVE  ControlInv'
<1> DEFINE c == calls[w]
           conflict == Answer(c, "conflict", 0)
           reply == Replay(c, conflict)
<1>1. /\ c.pc = "confirm" /\ c.pc \in Working /\ Local
      /\ Step(w, conflict) \/ Step(w, reply)
  BY DEF Confirm, Working
<1>2. CASE Step(w, conflict)
  BY <1>1, <1>2, Answered
<1>3. CASE Step(w, reply) /\ c.sent.op \in DOMAIN operations
  BY <1>1, <1>3, Replayed
<1>4. CASE Step(w, reply) /\ c.sent.op \notin DOMAIN operations
  <2>1. reply = conflict
    BY <1>4 DEF Replay
  <2> QED BY <1>1, <1>2, <1>4, <2>1
<1> QED BY <1>1, <1>2, <1>3, <1>4

-----------------------------------------------------------------------------
(* The other steps. *)

\* A commit moves the register on, or the fence keeps everything as it is.
LEMMA CommitStep ==
  ASSUME ControlInv, NEW w \in Workers, Commit(w)
  PROVE  ControlInv'
<1> DEFINE next == [calls[w] EXCEPT !.pc = "confirm", !.work = None]
<1>1. /\ calls[w].pc = "commit" /\ calls[w].pc \in Working /\ Step(w, next)
      /\ UNCHANGED <<suite, maintenance, sent, view, made, gateway>>
  BY DEF Commit, Working
<1>2. DOMAIN next = Fields /\ next.sent = calls[w].sent /\ next.pc = "confirm"
  BY <1>1, Updated DEF Fields
<1>3. DOMAIN calls' = Workers /\ calls'[w] = next /\ \A x \in Workers \ {w} : calls'[x] = calls[x]
  BY <1>1, Updated DEF Step
<1> HIDE DEF next
<1>4. Unused(w)' /\ Recovers(w)' /\ Reads(w)' /\ Proposes(w)' /\ Answers(w)'
  BY <1>2, <1>3 DEF Unused, Recovers, Reads, Proposes, Answers, Reading
<1>5. CASE UNCHANGED register
  BY <1>1, <1>2, <1>4, <1>5, Advanced DEF Working, Local
<1>6. CASE Makes(w)
  <2>1. version' = version + 1 /\ version \in Nat \ {0} /\ version = calls[w].sent.expected
    BY <1>6 DEF Makes, ControlInv, RegisterInv
  <2>2. RegisterInv'
    <3>1. suite' \in DOMAIN Suites
      BY <1>1 DEF ControlInv, RegisterInv
    <3>2. DOMAIN snapshots' = 1..version'
      BY <1>6, Kept
    <3>3. ASSUME NEW o \in DOMAIN operations'
          PROVE  /\ operations'[o].version \in 1..version'
                 /\ operations'[o] = [version |-> operations'[o].expected + 1,
                                      actor |-> operations'[o].actor,
                                      request |-> operations'[o].request,
                                      expected |-> operations'[o].expected]
      <4>1. CASE o \in DOMAIN operations
        <5>1. operations'[o] = operations[o]
          BY <1>6, <4>1, Kept
        <5>2. /\ operations[o].version \in 1..version
              /\ operations[o] = [version |-> operations[o].expected + 1,
                                  actor |-> operations[o].actor,
                                  request |-> operations[o].request,
                                  expected |-> operations[o].expected]
          BY <4>1 DEF ControlInv, RegisterInv
        <5> QED BY <2>1, <5>1, <5>2
      <4>2. CASE o = calls[w].sent.op
        <5>1. operations'[o] = [version |-> version + 1, actor |-> calls[w].sent.actor,
                                request |-> calls[w].sent.q, expected |-> version]
          BY <1>6, <4>2, Kept
        <5> QED BY <2>1, <5>1
      <4>3. DOMAIN operations' = DOMAIN operations \cup {calls[w].sent.op}
        BY <1>6, Kept
      <4> QED BY <4>1, <4>2, <4>3
    <3>4. version' \in Nat \ {0}
      BY <2>1
    <3> QED BY <3>1, <3>2, <3>3, <3>4 DEF RegisterInv
  <2>3. ConsoleInv'
    BY <1>1, <2>1 DEF ControlInv, ConsoleInv, Sendable
  <2>4. Typed(w)'
    BY <1>1, <1>2, <1>3, <2>1, Updated DEF CallOK, Typed, Sendable, Working
  <2>5. \A x \in Workers \ {w} : CallOK(x)'
    BY <1>3, <1>6, Passes DEF ControlInv, CallInv
  <2>6. LoadInv'
    <3>1. 1..version \subseteq 1..version' /\ DOMAIN snapshots = 1..version
      BY <2>1 DEF ControlInv, RegisterInv
    <3> QED BY <1>1, <1>6, <3>1, Kept DEF ControlInv, LoadInv, Loaded, gateway
  <2> QED BY <1>3, <1>4, <2>2, <2>3, <2>4, <2>5, <2>6 DEF ControlInv, CallInv, CallOK
<1> QED BY <1>5, <1>6, CommitMakes

\* A worker takes a call.
LEMMA Taken ==
  ASSUME ControlInv, NEW w \in Workers, NEW s, Sendable(s), Step(w, Fresh(s)),
         UNCHANGED <<register, suite, view, gateway>>, ConsoleInv'
  PROVE  ControlInv'
<1> DEFINE c == Fresh(s)
<1>1. /\ DOMAIN c = Fields /\ c.sent = s /\ c.config = None
      /\ c.pc = IF s.q.kind = "restore" THEN "recover" ELSE "replay"
  BY DEF Fresh, Fields
<1>2. DOMAIN calls' = Workers /\ calls'[w] = c /\ \A x \in Workers \ {w} : calls'[x] = calls[x]
  BY DEF Step, ControlInv, CallInv
<1> HIDE DEF c
<1>3. Typed(w)'
  BY <1>1, <1>2 DEF Typed, Working, Sendable, register
<1>4. Unused(w)' /\ Reads(w)' /\ Proposes(w)' /\ Answers(w)'
  BY <1>1, <1>2 DEF Unused, Reads, Proposes, Answers, Reading
<1>5. Recovers(w)'
  BY <1>1, <1>2 DEF Recovers, Document, Restorable, Reading
<1>6. \A x \in Workers \ {w} : CallOK(x)'
  BY <1>2, Stays DEF ControlInv, CallInv
<1>7. RegisterInv' /\ LoadInv'
  BY DEF ControlInv, RegisterInv, LoadInv, Loaded, register, gateway
<1> QED BY <1>2, <1>3, <1>4, <1>5, <1>6, <1>7 DEF ControlInv, CallInv, CallOK

LEMMA SendStep ==
  ASSUME ControlInv, NEW a \in Suites[suite].actors, NEW w \in Suites[suite].workers,
         Begin(a, w) \/ Repeat(a, w)
  PROVE  ControlInv'
<1>1. a \in Actors /\ w \in Workers /\ suite \in DOMAIN Suites
  BY ControlAssumption DEF ControlInv, RegisterInv
<1>2. CASE Begin(a, w)
  <2>1. PICK q \in Suites[suite].requests, op \in Suites[suite].operations :
           LET s == [actor |-> a, op |-> op, q |-> q, expected |-> view[a]]
           IN  Step(w, Fresh(s)) /\ sent' = [sent EXCEPT ![a] = s]
    BY <1>2 DEF Begin
  <2> DEFINE s == [actor |-> a, op |-> op, q |-> q, expected |-> view[a]]
  <2>2. s.actor = a /\ s.op = op /\ s.q = q /\ s.expected = view[a]
    OBVIOUS
  <2>3. Step(w, Fresh(s)) /\ sent' = [sent EXCEPT ![a] = s]
    BY <2>1
  <2>4. UNCHANGED <<register, suite, view, gateway>>
    BY <1>2 DEF Begin
  <2> HIDE DEF s
  <2>5. Sendable(s)
    BY <1>1, <2>2, ControlAssumption DEF Sendable, ControlInv, ConsoleInv, AllRequests
  <2>6. ConsoleInv'
    BY <2>3, <2>4, <2>5 DEF ControlInv, ConsoleInv, Sendable, register
  <2> QED BY <1>1, <2>3, <2>4, <2>5, <2>6, Taken
<1>3. CASE Repeat(a, w)
  <2>1. Step(w, Fresh(sent[a])) /\ UNCHANGED <<register, suite, sent, view, gateway>> /\ sent[a] # None
    BY <1>3 DEF Repeat
  <2>2. ConsoleInv' /\ Sendable(sent[a])
    BY <1>1, <2>1 DEF ControlInv, ConsoleInv, Sendable, register
  <2> QED BY <1>1, <2>1, <2>2, Taken
<1> QED BY <1>2, <1>3

\* A call that is over: answered, or dead with its worker.
LEMMA EndStep ==
  ASSUME ControlInv, NEW w \in Workers, Receive(w) \/ Crash(w)
  PROVE  ControlInv'
<1>1. Step(w, Idle) /\ UNCHANGED <<register, suite, gateway>>
  BY DEF Receive, Crash, Local
<1>2. DOMAIN calls' = Workers /\ calls'[w].pc = "idle" /\ \A x \in Workers \ {w} : calls'[x] = calls[x]
  BY <1>1 DEF Step, Idle, ControlInv, CallInv
<1>3. CallOK(w)'
  BY <1>2 DEF CallOK, Typed, Unused, Recovers, Reads, Proposes, Answers, Working, Reading
<1>4. \A x \in Workers \ {w} : CallOK(x)'
  BY <1>1, <1>2, Stays DEF ControlInv, CallInv
<1>5. RegisterInv' /\ LoadInv'
  BY <1>1 DEF ControlInv, RegisterInv, LoadInv, Loaded, register, gateway
<1>6. ConsoleInv'
  <2>1. CASE UNCHANGED <<sent, view>>
    BY <1>1, <2>1 DEF ControlInv, ConsoleInv, Sendable, register
  <2>2. CASE ~UNCHANGED <<sent, view>>
    <3> DEFINE c == calls[w]
               a == c.sent.actor
    <3>1. /\ c.pc = "answered" /\ sent' = [sent EXCEPT ![a] = None]
          /\ view' = [view EXCEPT ![a] = IF c.outcome = "saved" THEN c.version ELSE @]
      BY <2>2 DEF Receive, Crash, Local
    <3>2. CallOK(w) /\ a \in Actors
      BY <3>1 DEF ControlInv, CallInv, CallOK, Typed, Sendable
    <3>3. c.outcome = "saved" => c.version \in 1..version
      <4> SUFFICES ASSUME c.outcome = "saved" PROVE c.version \in 1..version
        OBVIOUS
      <4>1. /\ c.version = c.sent.expected + 1 /\ c.sent.op \in DOMAIN operations
            /\ operations[c.sent.op].version = c.sent.expected + 1
        BY <3>1, <3>2 DEF CallOK, Answers
      <4> QED BY <4>1 DEF ControlInv, RegisterInv
    <3> HIDE DEF a, c
    <3> QED BY <1>1, <3>1, <3>2, <3>3 DEF ControlInv, ConsoleInv, Sendable, register, RegisterInv
  <2> QED BY <2>1, <2>2
<1> QED BY <1>2, <1>3, <1>4, <1>5, <1>6 DEF ControlInv, CallInv

\* Steps of consoles, inference requests and the operator.
LEMMA OutsideStep ==
  ASSUME ControlInv, UNCHANGED <<register, suite, calls>>, ConsoleInv', LoadInv'
  PROVE  ControlInv'
<1>1. \A x \in Workers : CallOK(x)'
  BY Stays DEF ControlInv, CallInv
<1>2. RegisterInv'
  BY DEF ControlInv, RegisterInv, register
<1> QED BY <1>1, <1>2 DEF ControlInv, CallInv

LEMMA ReloadStep ==
  ASSUME ControlInv, NEW a \in Suites[suite].actors, Reload(a)
  PROVE  ControlInv'
<1>1. a \in Actors
  BY ControlAssumption DEF ControlInv, RegisterInv
<1>2. UNCHANGED <<register, suite, calls, gateway>>
      /\ view' = [view EXCEPT ![a] = version] /\ sent' = [sent EXCEPT ![a] = None]
  BY DEF Reload
<1>3. ConsoleInv'
  BY <1>1, <1>2 DEF ControlInv, ConsoleInv, Sendable, RegisterInv, register
<1>4. LoadInv'
  BY <1>2 DEF ControlInv, LoadInv, Loaded, register, gateway
<1> QED BY <1>2, <1>3, <1>4, OutsideStep

LEMMA LoadStep ==
  ASSUME ControlInv, NEW l \in Suites[suite].loads,
         LoadVersion(l) \/ LoadConfig(l) \/ LoadDone(l)
  PROVE  ControlInv'
<1>1. l \in Loads /\ DOMAIN loads = Loads /\ version \in DOMAIN snapshots
  BY ControlAssumption DEF ControlInv, RegisterInv, LoadInv
<1>2. UNCHANGED <<register, suite, calls, sent, view>>
  BY DEF LoadVersion, LoadConfig, LoadDone, call
<1>3. ConsoleInv'
  BY <1>2 DEF ControlInv, ConsoleInv, Sendable, register
<1>4. LoadInv'
  <2>1. CASE LoadVersion(l) \/ LoadDone(l)
    <3>1. /\ cache' = cache
          /\ \/ loads' = [loads EXCEPT ![l] = [pc |-> "refused"]]
             \/ loads' = [loads EXCEPT ![l] = [pc |-> "loading", version |-> version]]
             \/ loads' = [loads EXCEPT ![l] = [pc |-> "ready"]]
      BY <2>1 DEF LoadVersion, LoadDone
    <3>2. Loaded(l)'
      BY <1>1, <1>2, <3>1 DEF Loaded, register
    <3> QED BY <1>1, <1>2, <3>1, <3>2 DEF ControlInv, LoadInv, Loaded, register
  <2>2. CASE LoadConfig(l)
    <3> DEFINE v == loads[l].version
               config == IF Usable(l) THEN cache ELSE [revision |-> v, config |-> snapshots[v]]
    <3>1. /\ loads[l].pc = "loading" /\ cache' = config
          /\ loads' = [loads EXCEPT ![l] = [pc |-> "serving", started |-> v, config |-> config]]
      BY <2>2 DEF LoadConfig
    <3>2. v \in DOMAIN snapshots
      BY <1>1, <3>1 DEF ControlInv, LoadInv, Loaded
    <3>3. config = [revision |-> v, config |-> snapshots[v]]
      <4>1. CASE ~Usable(l)
        BY <4>1
      <4>2. CASE Usable(l)
        <5>1. PICK u \in DOMAIN snapshots : cache = [revision |-> u, config |-> snapshots[u]]
          BY <4>2 DEF Usable, ControlInv, LoadInv
        <5>2. u = v
          BY <4>2, <5>1 DEF Usable
        <5> QED BY <4>2, <5>1, <5>2
      <4> QED BY <4>1, <4>2
    <3> HIDE DEF v, config
    <3>4. /\ loads'[l].pc = "serving" /\ loads'[l].started = v /\ loads'[l].config = config
          /\ DOMAIN loads' = Loads /\ \A k \in Loads \ {l} : loads'[k] = loads[k]
      BY <1>1, <3>1
    <3>5. Loaded(l)'
      BY <1>2, <3>2, <3>3, <3>4 DEF Loaded, register
    <3> QED BY <1>1, <1>2, <3>1, <3>2, <3>3, <3>4, <3>5 DEF ControlInv, LoadInv, Loaded, register
  <2> QED BY <2>1, <2>2
<1> QED BY <1>2, <1>3, <1>4, OutsideStep

LEMMA ControlInit ==
  ASSUME Init
  PROVE  ControlInv
<1>1. RegisterInv
  BY DEF Init, RegisterInv
<1>2. ConsoleInv
  BY DEF Init, ConsoleInv, Sendable
<1>3. DOMAIN calls = Workers /\ \A w \in Workers : calls[w].pc = "idle"
  BY DEF Init, Idle
<1>4. CallInv
  BY <1>3 DEF CallInv, CallOK, Typed, Unused, Recovers, Reads, Proposes, Answers, Working, Reading
<1>5. LoadInv
  BY DEF Init, LoadInv, Loaded
<1> QED BY <1>1, <1>2, <1>4, <1>5 DEF ControlInv

LEMMA ControlStep ==
  ASSUME ControlInv, [Next]_vars
  PROVE  ControlInv'
<1>1. ASSUME NEW a \in Suites[suite].actors, NEW w \in Suites[suite].workers,
             Begin(a, w) \/ Repeat(a, w)
      PROVE  ControlInv'
  BY <1>1, SendStep
<1>2. ASSUME NEW a \in Suites[suite].actors, Reload(a)
      PROVE  ControlInv'
  BY <1>2, ReloadStep
<1>3. ASSUME NEW w \in Workers, Receive(w) \/ Crash(w)
      PROVE  ControlInv'
  BY <1>3, EndStep
<1>4. ASSUME NEW w \in Workers, CallStep(w)
      PROVE  ControlInv'
  BY <1>4, RecoverStep, ReplayFirstStep, ReadStep, ReadAfterStep, CommitStep, ConfirmStep
     DEF CallStep
<1>5. ASSUME NEW l \in Suites[suite].loads,
             LoadVersion(l) \/ LoadConfig(l) \/ LoadDone(l)
      PROVE  ControlInv'
  BY <1>5, LoadStep
<1>6. CASE SetMaintenance \/ UNCHANGED vars
  <2>1. UNCHANGED <<register, suite, calls, sent, view, gateway>>
    BY <1>6 DEF SetMaintenance, vars, call
  <2>2. ConsoleInv' /\ LoadInv'
    BY <2>1 DEF ControlInv, ConsoleInv, Sendable, LoadInv, Loaded, register, gateway
  <2> QED BY <2>1, <2>2, OutsideStep
<1> QED BY <1>1, <1>2, <1>3, <1>4, <1>5, <1>6 DEF Next

\* Every state the calls reach satisfies the inductive invariant.
THEOREM ControlInvariant == Spec => []ControlInv
<1>1. Init => ControlInv
  BY ControlInit
<1>2. ControlInv /\ [Next]_vars => ControlInv'
  BY ControlStep
<1> QED BY <1>1, <1>2, PTL DEF Spec

\* An answer "saved" names the version that very request made, and an inference
\* request is served the document that was current when it asked (store.ts
\* replay and write, config/store.ts loadConfig).
THEOREM Truth == Spec => []AnswersAreTrue
<1>1. ControlInv => AnswersAreTrue
  <2> SUFFICES ASSUME ControlInv PROVE AnswersAreTrue
    OBVIOUS
  <2>1. SavedIsRecorded
    BY DEF ControlInv, CallInv, CallOK, Answers, SavedIsRecorded
  <2>2. LoadIsFresh
    BY DEF ControlInv, LoadInv, Loaded, LoadIsFresh
  <2> QED BY <2>1, <2>2 DEF AnswersAreTrue
<1> QED BY <1>1, ControlInvariant, PTL

-----------------------------------------------------------------------------
(* The calls implement the register. *)

LEMMA RegisterInit ==
  ASSUME Init
  PROVE  Register!Init
<1>1. DOMAIN [v \in {1} |-> CompileSnapshot(FirstRows)] = {1}
      /\ [v \in {1} |-> CompileSnapshot(FirstRows)][1] = CompileSnapshot(FirstRows)
  OBVIOUS
<1>2. DOMAIN [o \in {} |-> None] = {}
  OBVIOUS
<1> QED BY <1>1, <1>2 DEF Init, Register!Init

\* What a call commits is its request applied to the version before.
LEMMA Applies ==
  ASSUME ControlInv, NEW w \in Workers, Makes(w)
  PROVE  Register!Next
<1> DEFINE s == calls[w].sent
           work == Wanted(s.q)
<1>1. /\ s.actor \in Actors /\ s.op \in Operations /\ s.q \in AllRequests
      /\ version = s.expected /\ version' = version + 1
  BY DEF ControlInv, CallInv, CallOK, Typed, Sendable, Makes, Working
<1>2. /\ Restorable(s.q) /\ work.ok
      /\ calls[w].work = [rows |-> CommittedRows(rows, work.rows), pending |-> work.pending,
                          config |-> CompileSnapshot(work.rows)]
  BY DEF ControlInv, CallInv, CallOK, Proposes, Makes
<1>3. /\ rows' = CommittedRows(rows, work.rows)
      /\ stored' = Insert(stored, work.pending)
      /\ snapshots' = Insert(snapshots, [v \in {version + 1} |-> CompileSnapshot(work.rows)])
      /\ operations' = Insert(operations, Logged(s))
  BY <1>2 DEF Makes
<1>4. s.op \notin DOMAIN operations
  BY Kept
<1>5. operations' = Register!Put(operations, s.op,
          [version |-> version + 1, actor |-> s.actor, request |-> s.q, expected |-> version])
  BY <1>1, <1>3, <1>4 DEF Insert, Logged, Register!Put
<1>6. snapshots' = Register!Put(snapshots, version + 1, CompileSnapshot(work.rows))
  <2>1. version + 1 \notin DOMAIN snapshots
    BY DEF ControlInv, RegisterInv
  <2> QED BY <1>3, <2>1 DEF Insert, Register!Put
<1>7. Register!Recovered(s.q) = Document(s.q)
  BY DEF Register!Recovered, Document
<1>8. Register!Result(work)
  BY <1>2, <1>3, <1>6 DEF Register!Result, Insert
<1>9. Register!Apply(s.actor, s.op, s.q)
  BY <1>1, <1>2, <1>4, <1>5, <1>7, <1>8 DEF Register!Apply, Restorable, Wanted
<1> QED BY <1>1, <1>9 DEF Register!Next, AllRequests

LEMMA RegisterStep ==
  ASSUME ControlInv, [Next]_vars
  PROVE  [Register!Next]_(Register!register)
<1>1. CASE \E w \in Workers : Commit(w)
  BY <1>1, CommitMakes, Applies DEF register, Register!register
<1>2. CASE ~ \E w \in Workers : Commit(w)
  <2>1. UNCHANGED register
    BY <1>2 DEF Next, vars, Begin, Repeat, Reload, Receive, Crash, CallStep, Recover, ReplayFirst,
                ReadBefore, ReadRows, ReadAfter, Confirm, LoadVersion, LoadConfig, LoadDone,
                SetMaintenance, Local
  <2> QED BY <2>1 DEF register, Register!register
<1> QED BY <1>1, <1>2

\* The control plane implements the register: each of its versions is one
\* request, applied once and as a whole to the version before it (store.ts
\* write and restore, transaction.ts commitConfiguration).
THEOREM Refinement == Spec => ImplementsRegister
<1>1. Init => Register!Init
  BY RegisterInit
<1>2. ControlInv /\ [Next]_vars => [Register!Next]_(Register!register)
  BY RegisterStep
<1> QED BY <1>1, <1>2, ControlInvariant, PTL DEF Spec, ImplementsRegister, Register!Spec
=============================================================================
