----------------------------- MODULE QuotaReset -----------------------------
(***************************************************************************)
(* Spending a reset credit when every Codex account is out of quota        *)
(* (providers/codex/resets.ts with the lease of gateway/health/).          *)
(*                                                                         *)
(* Any number of gateway requests may find every account cooling for quota.*)
(* Each looks for credits, then competes for a lease whose record also     *)
(* keeps the pending operation, so that whoever holds the lease next       *)
(* repeats the same redemption instead of buying another one.  Leases      *)
(* expire under a slow holder, requests die, answers get lost, accounts    *)
(* recover or are cooled again while all this goes on.                     *)
(***************************************************************************)
EXTENDS Integers, FiniteSets

CONSTANTS
    Requests,      \* gateway requests
    Credentials,   \* accounts of the provider
    NoCredential,
    MaxCooldown,   \* bound: a cooldown's end is one of 1..MaxCooldown
    MaxCredits     \* bound: reset credits per account

ASSUME ResetAssumption ==
    /\ NoCredential \notin Credentials \cup Requests
    /\ MaxCooldown \in Nat \ {0} /\ MaxCredits \in Nat

VARIABLES
    cool,       \* the quota cooldown stored for each credential (0: none)
    credits,    \* reset credits each account still has upstream
    redeemed,   \* upstream: redemption ids it has honoured
    lease,      \* the stored lease, with its pending operation
    pc, view, op,        \* per request: progress, discovered cooldowns, operation
    conf,       \* per request: the enabled accounts of its configuration snapshot
    todo,       \* per request: accounts whose cooldown is still to be verified
    open,       \* history: redemptions honoured and not yet completed here
    forgotten   \* history: ids of operations that were completed as refused

vars == <<cool, credits, redeemed, lease, pc, view, op, conf, todo, open, forgotten>>

\* A redemption id is drawn once per operation: the request that draws it can
\* stand for it, since a request draws at most one.
NoOp == [credential |-> NoCredential, id |-> NoCredential, until |-> 0]
NoLease == [owner |-> NoCredential, live |-> FALSE, operation |-> NoOp]

Operation == [credential : Credentials, id : Requests, until : 1..MaxCooldown] \cup {NoOp}

Init ==
    /\ cool = [c \in Credentials |-> 0]
    /\ credits = [c \in Credentials |-> MaxCredits]
    /\ redeemed = {} /\ lease = NoLease
    /\ pc = [r \in Requests |-> "start"]
    /\ view = [r \in Requests |-> [c \in Credentials |-> 0]]
    /\ op = [r \in Requests |-> NoOp]
    /\ conf \in [Requests -> SUBSET Credentials] /\ todo = [r \in Requests |-> {}]
    /\ open = {} /\ forgotten = {}

-----------------------------------------------------------------------------
\* The accounts' health, changed by other requests, time and administrators.

\* recordCredentialQuotaCooldown: never shortens a cooldown.
Exhaust(c, u) ==
    /\ u > cool[c]
    /\ cool' = [cool EXCEPT ![c] = u]
    /\ UNCHANGED <<credits, redeemed, lease, pc, view, op, conf, todo, open, forgotten>>

\* The cooldown ends, or an administrator clears it.
Recover(c) ==
    /\ cool[c] > 0
    /\ cool' = [cool EXCEPT ![c] = 0]
    /\ UNCHANGED <<credits, redeemed, lease, pc, view, op, conf, todo, open, forgotten>>

\* The stored lease reaches its `until'.
LeaseExpires ==
    /\ lease.live
    /\ lease' = [lease EXCEPT !.live = FALSE]
    /\ UNCHANGED <<cool, credits, redeemed, pc, view, op, conf, todo, open, forgotten>>

-----------------------------------------------------------------------------
\* consumeCodexResetForExhaustion, one step per remote call.

Leave(r) == pc' = [pc EXCEPT ![r] = "done"]

\* Discovery reads one account at a time; what it has read may be stale.
Discover(r, c) ==
    /\ pc[r] = "start" /\ c \in conf[r]
    /\ cool[c] > 0 /\ credits[c] > 0
    /\ view' = [view EXCEPT ![r][c] = cool[c]]
    /\ UNCHANGED <<cool, credits, redeemed, lease, pc, op, conf, todo, open, forgotten>>

\* Mutant: the pending operation is not carried over.
ClaimedAfresh(r) == [owner |-> r, live |-> TRUE, operation |-> NoOp]

Claimed(r) == [owner |-> r, live |-> TRUE, operation |-> lease.operation]

\* claimLease: a live lease refuses; an expired one is taken over with its
\* pending operation.
Claim(r) ==
    /\ pc[r] = "start" /\ ~lease.live
    /\ lease' = Claimed(r)
    /\ op' = [op EXCEPT ![r] = lease'.operation]
    /\ todo' = [todo EXCEPT ![r] = IF lease'.operation = NoOp THEN conf[r] ELSE {}]
    /\ pc' = [pc EXCEPT ![r] = IF lease'.operation = NoOp THEN "verify" ELSE "prepare"]
    /\ UNCHANGED <<cool, credits, redeemed, view, conf, open, forgotten>>

ClaimRefused(r) ==
    /\ pc[r] = "start" /\ lease.live
    /\ Leave(r)
    /\ UNCHANGED <<cool, credits, redeemed, lease, view, op, conf, todo, open, forgotten>>

Candidates(r) == {c \in Credentials : view[r][c] > 0}

\* The accounts are read once more, one at a time.
Verify(r, c) ==
    /\ pc[r] = "verify" /\ c \in todo[r] /\ cool[c] > 0
    /\ todo' = [todo EXCEPT ![r] = @ \ {c}]
    /\ UNCHANGED <<cool, credits, redeemed, lease, pc, view, op, conf, open, forgotten>>

\* None had recovered when it was read: choose a discovered credit.
Choose(r) ==
    /\ pc[r] = "verify" /\ todo[r] = {}
    /\ \E c \in Candidates(r) :
           op' = [op EXCEPT ![r] = [credential |-> c, id |-> r, until |-> view[r][c]]]
    /\ pc' = [pc EXCEPT ![r] = "prepare"]
    /\ UNCHANGED <<cool, credits, redeemed, lease, view, conf, todo, open, forgotten>>

\* releaseLease, in the finally: only the owner's; a pending operation stays
\* unless it was completed, and is held for a while after a failure.
Released(r, completed, hold) ==
    IF lease.owner # r THEN lease
    ELSE LET pending == IF completed THEN NoOp ELSE lease.operation IN
         IF hold \/ pending # NoOp
         THEN [lease EXCEPT !.operation = pending, !.live = hold] ELSE NoLease

GiveUp(r, completed, hold) == lease' = Released(r, completed, hold) /\ Leave(r)

\* An account recovered, or discovery found nothing that still counts.
Unneeded(r) ==
    /\ pc[r] = "verify"
    /\ \/ (\E c \in todo[r] : cool[c] = 0) /\ GiveUp(r, FALSE, FALSE)
       \/ todo[r] = {} /\ Candidates(r) = {} /\ GiveUp(r, FALSE, TRUE)
    /\ UNCHANGED <<cool, credits, redeemed, view, op, conf, todo, open, forgotten>>

Holds(r) == lease.owner = r /\ lease.live

\* prepareResetLease: store the operation before anything is paid for; one that
\* is already pending takes precedence.
Prepare(r) ==
    /\ pc[r] = "prepare" /\ op[r].credential \in conf[r] /\ Holds(r)
    /\ LET pending == IF lease.operation = NoOp THEN op[r] ELSE lease.operation IN
       /\ lease' = [lease EXCEPT !.operation = pending]
       /\ op' = [op EXCEPT ![r] = pending]
    /\ pc' = [pc EXCEPT ![r] = "spend"]
    /\ UNCHANGED <<cool, credits, redeemed, view, conf, todo, open, forgotten>>

PrepareRefused(r) ==
    /\ pc[r] = "prepare" /\ (op[r].credential \notin conf[r] \/ ~Holds(r))
    /\ GiveUp(r, FALSE, TRUE)
    /\ UNCHANGED <<cool, credits, redeemed, view, op, conf, todo, open, forgotten>>

\* Upstream (external) honours a redemption id once and answers a repetition
\* "already redeemed"; it refuses an account without credits, and, for the moment,
\* one that has nothing to reset: the same id may be honoured later.
Redeem(r) ==
    \/ UNCHANGED <<credits, redeemed, open>>
    \/ /\ op[r].id \notin redeemed /\ credits[op[r].credential] > 0
       /\ redeemed' = redeemed \cup {op[r].id} /\ open' = open \cup {op[r].id}
       /\ credits' = [credits EXCEPT ![op[r].credential] = @ - 1]

Spend(r) ==
    /\ pc[r] = "spend" /\ Redeem(r)
    /\ pc' = [pc EXCEPT ![r] = IF op[r].id \in redeemed' THEN "honoured" ELSE "refused"]
    /\ UNCHANGED <<cool, lease, view, op, conf, todo, forgotten>>

\* The call fails, with or without effect: the operation stays pending.
SpendFails(r) ==
    /\ pc[r] = "spend"
    /\ Redeem(r)
    /\ GiveUp(r, FALSE, TRUE)
    /\ UNCHANGED <<cool, view, op, conf, todo, forgotten>>

\* The second prepareResetLease: a result that comes too late completes nothing.
\* An operation that was refused, for good or for the moment, is completed.
Confirm(r) ==
    /\ pc[r] \in {"honoured", "refused"}
    /\ IF ~Holds(r) THEN GiveUp(r, FALSE, TRUE)
       ELSE IF pc[r] = "refused" THEN GiveUp(r, TRUE, TRUE)
       ELSE pc' = [pc EXCEPT ![r] = "clear"] /\ UNCHANGED lease
    /\ forgotten' = IF Holds(r) /\ pc[r] = "refused" THEN forgotten \cup {op[r].id} ELSE forgotten
    /\ UNCHANGED <<cool, credits, redeemed, view, op, conf, todo, open>>

\* clearQuotaCooldownUntil: only the cooldown the credit was spent on is cleared.
Clear(r) ==
    /\ pc[r] = "clear"
    /\ cool' = [cool EXCEPT ![op[r].credential] = IF @ = op[r].until THEN 0 ELSE @]
    /\ pc' = [pc EXCEPT ![r] = "cleared"]
    /\ UNCHANGED <<credits, redeemed, lease, view, op, conf, todo, open, forgotten>>

\* The finally after that.
Complete(r) ==
    /\ pc[r] = "cleared" /\ GiveUp(r, TRUE, FALSE)
    /\ open' = IF lease.owner = r THEN open \ {op[r].id} ELSE open
    /\ UNCHANGED <<cool, credits, redeemed, view, op, conf, todo, forgotten>>

\* A remote call of the rest of the work fails: release and keep the operation.
StepFails(r) ==
    /\ pc[r] \in {"verify", "prepare", "honoured", "refused", "clear"}
    /\ GiveUp(r, FALSE, TRUE)
    /\ UNCHANGED <<cool, credits, redeemed, view, op, conf, todo, open, forgotten>>

\* The request's isolate is gone; its lease is left to expire.
Die(r) ==
    /\ pc[r] # "done" /\ Leave(r)
    /\ UNCHANGED <<cool, credits, redeemed, lease, view, op, conf, todo, open, forgotten>>

Next ==
    \/ \E c \in Credentials : (\E u \in 1..MaxCooldown : Exhaust(c, u)) \/ Recover(c)
    \/ LeaseExpires
    \/ \E r \in Requests :
          \/ \E c \in Credentials : Discover(r, c) \/ Verify(r, c)
          \/ Claim(r) \/ ClaimRefused(r) \/ Choose(r) \/ Unneeded(r)
          \/ Prepare(r) \/ PrepareRefused(r) \/ Spend(r) \/ SpendFails(r)
          \/ Confirm(r) \/ Clear(r) \/ Complete(r) \/ StepFails(r) \/ Die(r)

Spec == Init /\ [][Next]_vars

-----------------------------------------------------------------------------
\* Values have their types; an operation that is open at the provider was redeemed.
TypeOK ==
    /\ cool \in [Credentials -> 0..MaxCooldown]
    /\ credits \in [Credentials -> 0..MaxCredits]
    /\ redeemed \subseteq Requests /\ open \subseteq redeemed /\ forgotten \subseteq Requests
    /\ lease \in [owner : Requests \cup {NoCredential}, live : BOOLEAN, operation : Operation]
    /\ pc \in [Requests -> {"start", "verify", "prepare", "spend", "honoured",
                            "refused", "clear", "cleared", "done"}]
    /\ view \in [Requests -> [Credentials -> 0..MaxCooldown]]
    /\ op \in [Requests -> Operation] /\ conf \in [Requests -> SUBSET Credentials]
    /\ todo \in [Requests -> SUBSET Credentials]

\* A redemption that was paid for stays recorded in the lease until its holder
\* has completed it, whoever dies, is late or loses an answer: the next holder
\* repeats it and buys nothing new.  The exception, here and below, is an operation
\* that a holder has completed because it was refused: one that is paid for after
\* all is paid for by a request that had stored it before.
PaidIsRemembered == open \subseteq {lease.operation.id} \cup forgotten

\* Requests that are about to pay would pay for one and the same redemption: a
\* slow holder whose lease was taken over cannot buy a second reset, unless the
\* operation it had stored was forgotten, and a holder never buys such a one.
Buyable(r) == pc[r] = "spend" /\ op[r].id \notin redeemed /\ credits[op[r].credential] > 0
OnePurchase ==
    /\ \A r, q \in Requests : Buyable(r) /\ Buyable(q) =>
          op[r].id = op[q].id \/ {op[r].id, op[q].id} \cap forgotten # {}
    /\ \A r \in Requests : Buyable(r) /\ lease.owner = r => op[r].id \notin forgotten

\* A credit is spent once for each operation, and what was paid for is
\* remembered until it is completed.
CreditsAreSpentOnce == TypeOK /\ PaidIsRemembered /\ OnePurchase
=============================================================================
