-------------------------- MODULE QuotaResetProofs --------------------------
(***************************************************************************)
(* Proofs about QuotaReset, for any number of requests, accounts, credits  *)
(* and cooldowns: a redemption that was paid for is remembered, and no two *)
(* requests are about to pay for different ones.                           *)
(***************************************************************************)
EXTENDS QuotaReset, TLAPS

-----------------------------------------------------------------------------
(* The inductive invariant. *)

\* Requests that have stored an operation in the lease before they pay.
Stored == {"spend", "honoured", "refused", "clear", "cleared"}
Paid == {"honoured", "clear", "cleared"}

\* An operation is known by its id, and a request that has drawn none has not
\* been named by any.
DrawnOnce ==
    /\ \A r, q \in Requests : op[r].id = op[q].id => op[r] = op[q]
    /\ \A r \in Requests : op[r].id = lease.operation.id => op[r] = lease.operation
    /\ \A r \in Requests : pc[r] \in {"start", "verify"} =>
          /\ r \notin redeemed \cup forgotten /\ lease.operation.id # r
          /\ \A q \in Requests : op[q].id # r

\* What a request pays for is an operation, and as long as the lease is its
\* own the lease tells which.
HeldIsStored ==
    \A r \in Requests : pc[r] \in Stored =>
        /\ op[r] # NoOp
        /\ lease.owner = r => lease.operation = op[r]

\* What a request has been told was paid for was.
OutcomeIsKept == \A r \in Requests : pc[r] \in Paid => op[r].id \in redeemed

\* A holder neither has nor stores an operation that was forgotten.
ForgottenIsGone ==
    /\ lease.operation.id \notin forgotten
    /\ \A r \in Requests : pc[r] = "prepare" /\ lease.owner = r => op[r].id \notin forgotten

\* Only the operation the lease tells can still be bought, and those that were
\* forgotten while a slow request had stored them.
BuyableIsPending ==
    \A r \in Requests : Buyable(r) => lease.operation = op[r] \/ op[r].id \in forgotten

ResetInv ==
    /\ TypeOK /\ DrawnOnce /\ HeldIsStored /\ OutcomeIsKept
    /\ ForgottenIsGone /\ BuyableIsPending /\ PaidIsRemembered

-----------------------------------------------------------------------------
LEMMA ResetInit == Init => ResetInv
BY ResetAssumption DEF Init, ResetInv, TypeOK, DrawnOnce, HeldIsStored, OutcomeIsKept,
   ForgottenIsGone, BuyableIsPending, PaidIsRemembered, Buyable, NoOp, NoLease, Operation, Stored, Paid

\* Steps that leave operations, payments and the lease's record alone: they may
\* end a request, expire the lease or change what is read.
LEMMA QuietStep ==
  ASSUME ResetInv, TypeOK',
         UNCHANGED <<credits, redeemed, op, open, forgotten>>,
         lease'.operation = lease.operation,
         \A r \in Requests : lease'.owner = r => lease.owner = r,
         \A r \in Requests : \/ pc'[r] = pc[r] \/ pc'[r] = "done"
                             \/ pc[r] \in Paid /\ pc'[r] \in Paid
  PROVE  ResetInv'
<1> USE DEF ResetInv, TypeOK, Paid
<1>1. DrawnOnce'
  BY DEF DrawnOnce
<1>2. HeldIsStored'
  BY DEF HeldIsStored, Stored
<1>3. OutcomeIsKept'
  BY DEF OutcomeIsKept, Paid
<1>4. BuyableIsPending'
  BY DEF BuyableIsPending, Buyable
<1>5. PaidIsRemembered'
  BY DEF PaidIsRemembered
<1>6. ForgottenIsGone'
  BY DEF ForgottenIsGone
<1> QED BY <1>1, <1>2, <1>3, <1>4, <1>5, <1>6

\* A request that ends without having completed its operation leaves the
\* pending one in the lease.
LEMMA Kept ==
  ASSUME TypeOK, NEW r \in Requests, NEW hold \in BOOLEAN, GiveUp(r, FALSE, hold)
  PROVE  /\ lease'.operation = lease.operation
         /\ \A q \in Requests : lease'.owner = q => lease.owner = q
         /\ \A q \in Requests : pc'[q] = pc[q] \/ pc'[q] = "done"
BY ResetAssumption DEF GiveUp, Released, Leave, TypeOK, NoLease

\* Types are kept by every action.
LEMMA TypeStep == ResetInv /\ [Next]_vars => TypeOK'
<1> SUFFICES ASSUME ResetInv, [Next]_vars PROVE TypeOK'
  OBVIOUS
<1> USE ResetAssumption DEF ResetInv, TypeOK, Operation, NoOp, NoLease
<1>1. ASSUME NEW c \in Credentials, (\E u \in 1..MaxCooldown : Exhaust(c, u)) \/ Recover(c)
      PROVE  TypeOK'
  <2>1. cool' \in [Credentials -> 0..MaxCooldown]
    <3>1. \E u \in 0..MaxCooldown : cool' = [cool EXCEPT ![c] = u]
      BY <1>1 DEF Exhaust, Recover
    <3> QED BY <3>1
  <2> QED BY <1>1, <2>1 DEF Exhaust, Recover
<1>2. CASE LeaseExpires
  BY <1>2 DEF LeaseExpires
<1>3. ASSUME NEW r \in Requests, NEW c \in Credentials, Discover(r, c) \/ Verify(r, c)
      PROVE  TypeOK'
  <2>1. /\ view' \in [Requests -> [Credentials -> 0..MaxCooldown]]
        /\ todo' \in [Requests -> SUBSET Credentials]
    <3>1. CASE Discover(r, c)
      <4>1. view' = [view EXCEPT ![r] = [@ EXCEPT ![c] = cool[c]]] /\ todo' = todo
        BY <3>1 DEF Discover
      <4>2. [view[r] EXCEPT ![c] = cool[c]] \in [Credentials -> 0..MaxCooldown]
        OBVIOUS
      <4> QED BY <4>1, <4>2
    <3>2. CASE Verify(r, c)
      BY <3>2 DEF Verify
    <3> QED BY <1>3, <3>1, <3>2
  <2> QED BY <1>3, <2>1 DEF Discover, Verify
<1>4. ASSUME NEW r \in Requests, Claim(r) PROVE TypeOK'
  BY <1>4 DEF Claim, Claimed
<1>5. ASSUME NEW r \in Requests, Choose(r) PROVE TypeOK'
  BY <1>5 DEF Choose, Candidates
<1>6. ASSUME NEW r \in Requests, NEW completed \in BOOLEAN, NEW hold \in BOOLEAN,
             GiveUp(r, completed, hold)
      PROVE  /\ lease' \in [owner : Requests \cup {NoCredential}, live : BOOLEAN, operation : Operation]
             /\ pc' \in [Requests -> {"start", "verify", "prepare", "spend", "honoured",
                                     "refused", "clear", "cleared", "done"}]
  BY <1>6 DEF GiveUp, Released, Leave
<1>7. ASSUME NEW r \in Requests, pc[r] = "spend", Redeem(r)
      PROVE  /\ credits' \in [Credentials -> 0..MaxCredits]
             /\ redeemed' \subseteq Requests /\ open' \subseteq redeemed'
  <2>1. op[r].credential \in Credentials /\ op[r].id \in Requests
    BY <1>7 DEF HeldIsStored, Stored
  <2>2. CASE UNCHANGED <<credits, redeemed, open>>
    BY <2>2
  <2>3. CASE ~UNCHANGED <<credits, redeemed, open>>
    <3>1. /\ credits[op[r].credential] \in 1..MaxCredits
          /\ credits' = [credits EXCEPT ![op[r].credential] = @ - 1]
          /\ redeemed' = redeemed \cup {op[r].id} /\ open' = open \cup {op[r].id}
      BY <1>7, <2>1, <2>3 DEF Redeem
    <3>2. credits[op[r].credential] - 1 \in 0..MaxCredits
      BY <3>1
    <3> QED BY <2>1, <3>1, <3>2
  <2> QED BY <2>2, <2>3
<1>8. ASSUME NEW r \in Requests, ClaimRefused(r) \/ Die(r) PROVE TypeOK'
  BY <1>8 DEF ClaimRefused, Die, Leave
<1>9. ASSUME NEW r \in Requests,
             Unneeded(r) \/ PrepareRefused(r) \/ StepFails(r) \/ Complete(r)
      PROVE  TypeOK'
  <2>1. CASE Unneeded(r) \/ PrepareRefused(r) \/ StepFails(r)
    BY <1>6, <2>1 DEF Unneeded, PrepareRefused, StepFails
  <2>2. CASE Complete(r)
    BY <1>6, <2>2 DEF Complete
  <2> QED BY <1>9, <2>1, <2>2
<1>10. ASSUME NEW r \in Requests, Prepare(r) PROVE TypeOK'
  BY <1>10 DEF Prepare
<1>11. ASSUME NEW r \in Requests, Spend(r) PROVE TypeOK'
  BY <1>7, <1>11 DEF Spend
<1>12. ASSUME NEW r \in Requests, SpendFails(r) PROVE TypeOK'
  BY <1>6, <1>7, <1>12 DEF SpendFails
<1>13. ASSUME NEW r \in Requests, Confirm(r) PROVE TypeOK'
  <2>1. op[r].id \in Requests
    BY <1>13 DEF Confirm, HeldIsStored, Stored
  <2>2. forgotten' \subseteq Requests
    BY <1>13, <2>1 DEF Confirm
  <2> QED BY <1>6, <1>13, <2>2 DEF Confirm
<1>14. ASSUME NEW r \in Requests, Clear(r) PROVE TypeOK'
  <2>1. op[r].credential \in Credentials
    BY <1>14 DEF Clear, HeldIsStored, Stored
  <2> QED BY <1>14, <2>1 DEF Clear
<1>15. CASE UNCHANGED vars
  BY <1>15 DEF vars
<1> QED
  BY <1>1, <1>2, <1>3, <1>4, <1>5, <1>8, <1>9, <1>10, <1>11, <1>12, <1>13, <1>14, <1>15 DEF Next

\* Taking the lease over takes its pending operation over.
LEMMA ClaimStep ==
  ASSUME ResetInv, TypeOK', NEW r \in Requests, Claim(r)
  PROVE  ResetInv'
<1> USE ResetAssumption DEF ResetInv, TypeOK, Claim, Claimed
<1>1. DrawnOnce'
  BY DEF DrawnOnce, NoOp
<1>2. HeldIsStored'
  BY DEF HeldIsStored, Stored
<1>3. OutcomeIsKept'
  BY DEF OutcomeIsKept, Paid
<1>4. BuyableIsPending'
  BY DEF BuyableIsPending, Buyable
<1>5. PaidIsRemembered'
  BY DEF PaidIsRemembered
<1>6. ForgottenIsGone'
  BY DEF ForgottenIsGone
<1> QED BY <1>1, <1>2, <1>3, <1>4, <1>5, <1>6

\* An operation that is drawn is one that nobody knows yet.
LEMMA ChooseStep ==
  ASSUME ResetInv, TypeOK', NEW r \in Requests, Choose(r)
  PROVE  ResetInv'
<1> USE ResetAssumption DEF ResetInv, TypeOK, Choose
<1>1. DrawnOnce'
  BY DEF DrawnOnce
<1>2. HeldIsStored'
  BY DEF HeldIsStored, Stored
<1>3. OutcomeIsKept'
  BY DEF OutcomeIsKept, Paid
<1>4. BuyableIsPending'
  BY DEF BuyableIsPending, Buyable
<1>5. PaidIsRemembered'
  BY DEF PaidIsRemembered
<1>6. ForgottenIsGone'
  BY DEF ForgottenIsGone, DrawnOnce
<1> QED BY <1>1, <1>2, <1>3, <1>4, <1>5, <1>6

\* Storing an operation: either the lease has none, and then nothing can be
\* bought yet, or the one it has is taken instead.
LEMMA PrepareStep ==
  ASSUME ResetInv, TypeOK', NEW r \in Requests, Prepare(r)
  PROVE  ResetInv'
<1> USE ResetAssumption DEF ResetInv, TypeOK, Prepare, Holds
<1> DEFINE pending == IF lease.operation = NoOp THEN op[r] ELSE lease.operation
<1>1. lease'.operation = pending /\ op' = [op EXCEPT ![r] = pending] /\ lease'.owner = r
  OBVIOUS
<1>2. pending # NoOp
  BY DEF NoOp
<1>3. DrawnOnce'
  BY <1>1 DEF DrawnOnce, NoOp
<1>4. HeldIsStored'
  BY <1>1, <1>2 DEF HeldIsStored, Stored
<1>5. OutcomeIsKept'
  BY <1>1 DEF OutcomeIsKept, Paid
<1>6. BuyableIsPending'
  <2>1. ASSUME NEW q \in Requests, q # r, Buyable(q)' PROVE lease'.operation = op'[q] \/ op'[q].id \in forgotten'
    <3>1. op[q] # NoOp /\ (lease.operation = op[q] \/ op[q].id \in forgotten)
      BY <1>1, <2>1 DEF BuyableIsPending, Buyable, HeldIsStored, Stored
    <3> QED BY <1>1, <2>1, <3>1
  <2>2. lease'.operation = op'[r]
    BY <1>1
  <2> QED BY <2>1, <2>2 DEF BuyableIsPending
<1>7. PaidIsRemembered'
  BY <1>1 DEF PaidIsRemembered, NoOp
<1>8. ForgottenIsGone'
  BY <1>1 DEF ForgottenIsGone
<1> QED BY <1>3, <1>4, <1>5, <1>6, <1>7, <1>8

\* Paying: only the pending operation or a forgotten one can be bought.
LEMMA PayStep ==
  ASSUME ResetInv, TypeOK', NEW r \in Requests, pc[r] = "spend", Redeem(r),
         UNCHANGED <<op, forgotten>>, lease'.operation = lease.operation,
         \A q \in Requests : lease'.owner = q => lease.owner = q,
         \A q \in Requests \ {r} : pc'[q] = pc[q],
         pc'[r] \in {"done", IF op[r].id \in redeemed' THEN "honoured" ELSE "refused"}
  PROVE  ResetInv'
<1> USE DEF ResetInv, TypeOK
<1> DEFINE c == op[r].credential
<1>1. c \in Credentials /\ op[r].id \in Requests /\ op[r] # NoOp
  BY DEF HeldIsStored, Stored, Operation
<1>2. HeldIsStored' /\ ForgottenIsGone'
  BY DEF HeldIsStored, Stored, ForgottenIsGone
<1>3. CASE UNCHANGED <<credits, redeemed, open>>
  <2>1. DrawnOnce'
    BY <1>3 DEF DrawnOnce
  <2>2. OutcomeIsKept'
    BY <1>3 DEF OutcomeIsKept, Paid
  <2>3. BuyableIsPending' /\ PaidIsRemembered'
    BY <1>3 DEF BuyableIsPending, Buyable, PaidIsRemembered
  <2> QED BY <1>2, <2>1, <2>2, <2>3
<1>4. CASE ~UNCHANGED <<credits, redeemed, open>>
  <2>1. /\ op[r].id \notin redeemed /\ credits[c] > 0
        /\ credits' = [credits EXCEPT ![c] = @ - 1]
        /\ redeemed' = redeemed \cup {op[r].id} /\ open' = open \cup {op[r].id}
    BY <1>1, <1>4 DEF Redeem
  <2>2. lease.operation = op[r] \/ op[r].id \in forgotten
    BY <2>1 DEF BuyableIsPending, Buyable
  <2>3. DrawnOnce'
    BY <2>1 DEF DrawnOnce
  <2>4. OutcomeIsKept'
    BY <2>1 DEF OutcomeIsKept, Paid
  <2>5. BuyableIsPending'
    <3> SUFFICES ASSUME NEW q \in Requests, Buyable(q)'
                 PROVE  lease'.operation = op'[q] \/ op'[q].id \in forgotten'
      BY DEF BuyableIsPending
    <3>1. q # r /\ pc[q] = "spend" /\ op[q].id \notin redeemed
      BY <2>1 DEF Buyable
    <3>2. op[q].credential \in Credentials
      BY <3>1 DEF HeldIsStored, Stored, Operation
    <3>3. credits[op[q].credential] > 0
      BY <1>1, <2>1, <3>2 DEF Buyable
    <3> QED BY <3>1, <3>3 DEF BuyableIsPending, Buyable
  <2>6. PaidIsRemembered'
    BY <2>1, <2>2 DEF PaidIsRemembered
  <2> QED BY <1>2, <2>3, <2>4, <2>5, <2>6
<1> QED BY <1>3, <1>4

\* Completing an operation: it was paid for, so nobody can buy it any more and no
\* payment is left open, or it was refused and is forgotten.
LEMMA CompletedStep ==
  ASSUME ResetInv, TypeOK', NEW r \in Requests,
         lease.owner = r, lease'.operation = NoOp, lease'.owner \in {r, NoCredential},
         UNCHANGED <<credits, redeemed, op>>, pc' = [pc EXCEPT ![r] = "done"],
         \/ pc[r] \in Paid /\ forgotten' = forgotten /\ open' = open \ {op[r].id}
         \/ pc[r] = "refused" /\ forgotten' = forgotten \cup {op[r].id} /\ open' = open
  PROVE  ResetInv'
<1> USE ResetAssumption DEF ResetInv, TypeOK
<1>1. lease.operation = op[r] /\ op[r].id \in Requests
  BY DEF HeldIsStored, Stored, Paid, Operation
<1>2. DrawnOnce'
  BY <1>1 DEF DrawnOnce, NoOp, Operation, Paid
<1>3. HeldIsStored'
  BY DEF HeldIsStored, Stored
<1>4. OutcomeIsKept'
  BY DEF OutcomeIsKept, Paid
<1>5. BuyableIsPending'
  <2> SUFFICES ASSUME NEW q \in Requests, Buyable(q)' PROVE op[q].id \in forgotten'
    BY DEF BuyableIsPending
  <2>1. q # r /\ Buyable(q)
    BY DEF Buyable
  <2>2. op[q] = op[r] \/ op[q].id \in forgotten
    BY <1>1, <2>1 DEF BuyableIsPending
  <2> QED BY <2>1, <2>2 DEF OutcomeIsKept, Buyable, Paid
<1>6. PaidIsRemembered'
  BY <1>1 DEF PaidIsRemembered
<1>7. ForgottenIsGone'
  BY <1>1 DEF ForgottenIsGone, NoOp
<1> QED BY <1>2, <1>3, <1>4, <1>5, <1>6, <1>7

-----------------------------------------------------------------------------
\* Every step keeps the invariant.
LEMMA ResetStep == ResetInv /\ [Next]_vars => ResetInv'
<1> SUFFICES ASSUME ResetInv, [Next]_vars PROVE ResetInv'
  OBVIOUS
<1>0. TypeOK /\ TypeOK'
  BY TypeStep DEF ResetInv
<1>1. ASSUME NEW c \in Credentials, (\E u \in 1..MaxCooldown : Exhaust(c, u)) \/ Recover(c)
      PROVE  ResetInv'
  BY <1>0, <1>1, QuietStep DEF Exhaust, Recover
<1>2. CASE LeaseExpires
  BY <1>0, <1>2, QuietStep DEF LeaseExpires, TypeOK
<1>3. ASSUME NEW r \in Requests, NEW c \in Credentials, Discover(r, c) \/ Verify(r, c)
      PROVE  ResetInv'
  BY <1>0, <1>3, QuietStep DEF Discover, Verify
<1>4. ASSUME NEW r \in Requests, Claim(r) PROVE ResetInv'
  BY <1>0, <1>4, ClaimStep
<1>5. ASSUME NEW r \in Requests, Choose(r) PROVE ResetInv'
  BY <1>0, <1>5, ChooseStep
<1>6. ASSUME NEW r \in Requests, Prepare(r) PROVE ResetInv'
  BY <1>0, <1>6, PrepareStep
<1>7. ASSUME NEW r \in Requests, ClaimRefused(r) \/ Die(r) PROVE ResetInv'
  BY <1>0, <1>7, QuietStep DEF ClaimRefused, Die, Leave, TypeOK
<1>8. ASSUME NEW r \in Requests, NEW hold \in BOOLEAN, GiveUp(r, FALSE, hold),
             UNCHANGED <<credits, redeemed, op, open, forgotten>>
      PROVE  ResetInv'
  BY <1>0, <1>8, Kept, QuietStep
<1>9. ASSUME NEW r \in Requests, Unneeded(r) \/ PrepareRefused(r) \/ StepFails(r) PROVE ResetInv'
  BY <1>8, <1>9 DEF Unneeded, PrepareRefused, StepFails
<1>10. ASSUME NEW r \in Requests, Spend(r) PROVE ResetInv'
  <2>1. /\ pc[r] = "spend" /\ Redeem(r) /\ UNCHANGED <<lease, op, forgotten>>
        /\ pc' = [pc EXCEPT ![r] = IF op[r].id \in redeemed' THEN "honoured" ELSE "refused"]
    BY <1>10 DEF Spend
  <2>2. /\ \A q \in Requests \ {r} : pc'[q] = pc[q]
        /\ pc'[r] = IF op[r].id \in redeemed' THEN "honoured" ELSE "refused"
    BY <1>0, <2>1 DEF TypeOK
  <2> QED BY <1>0, <2>1, <2>2, PayStep
<1>11. ASSUME NEW r \in Requests, SpendFails(r) PROVE ResetInv'
  <2>1. /\ pc[r] = "spend" /\ GiveUp(r, FALSE, TRUE) /\ UNCHANGED <<op, forgotten>> /\ Redeem(r)
    BY <1>11 DEF SpendFails
  <2>2. (\A q \in Requests \ {r} : pc'[q] = pc[q]) /\ pc'[r] = "done"
    BY <1>0, <2>1 DEF GiveUp, Leave, TypeOK
  <2> QED BY <1>0, <2>1, <2>2, Kept, PayStep
<1>12. ASSUME NEW r \in Requests, Confirm(r) PROVE ResetInv'
  <2>1. CASE ~Holds(r)
    BY <1>8, <1>12, <2>1 DEF Confirm
  <2>2. CASE Holds(r) /\ pc[r] = "refused"
    <3>1. /\ lease.owner = r /\ lease'.operation = NoOp /\ lease'.owner = r
          /\ pc' = [pc EXCEPT ![r] = "done"] /\ UNCHANGED <<credits, redeemed, op, open>>
          /\ forgotten' = forgotten \cup {op[r].id}
      BY <1>0, <1>12, <2>2 DEF Confirm, Holds, GiveUp, Released, Leave, TypeOK
    <3> QED BY <1>0, <2>2, <3>1, CompletedStep
  <2>3. CASE Holds(r) /\ pc[r] # "refused"
    <3>1. /\ pc[r] = "honoured" /\ pc' = [pc EXCEPT ![r] = "clear"]
          /\ UNCHANGED <<lease, credits, redeemed, op, open, forgotten>>
      BY <1>12, <2>3 DEF Confirm
    <3> QED BY <1>0, <3>1, QuietStep DEF TypeOK, Paid
  <2> QED BY <2>1, <2>2, <2>3
<1>13. ASSUME NEW r \in Requests, Clear(r) PROVE ResetInv'
  BY <1>0, <1>13, QuietStep DEF Clear, TypeOK, Paid
<1>14. ASSUME NEW r \in Requests, Complete(r) PROVE ResetInv'
  <2>1. CASE lease.owner # r
    BY <1>0, <1>14, <2>1, QuietStep DEF Complete, GiveUp, Released, Leave, TypeOK
  <2>2. CASE lease.owner = r
    <3>1. /\ pc[r] = "cleared" /\ lease' = NoLease /\ pc' = [pc EXCEPT ![r] = "done"]
          /\ open' = open \ {op[r].id} /\ UNCHANGED <<credits, redeemed, op, forgotten>>
      BY <1>14, <2>2 DEF Complete, GiveUp, Released, Leave
    <3> QED BY <1>0, <2>2, <3>1, CompletedStep DEF NoLease, Paid
  <2> QED BY <2>1, <2>2
<1>15. CASE UNCHANGED vars
  BY <1>0, <1>15, QuietStep DEF vars
<1> QED
  BY <1>1, <1>2, <1>3, <1>4, <1>5, <1>6, <1>7, <1>9, <1>10, <1>11, <1>12, <1>13, <1>14, <1>15
     DEF Next

\* The inductive invariant holds in every reachable state.
THEOREM ResetInvariant == Spec => []ResetInv
BY ResetInit, ResetStep, PTL DEF Spec

\* Whatever dies, is late or is answered in vain, a reset credit is spent once
\* for each operation, and what was paid for stays in the lease until it is
\* completed (consumeCodexResetForExhaustion with the lease of the health object),
\* except by slow requests whose operation a successor completed as refused.
THEOREM SpentOnce == Spec => []CreditsAreSpentOnce
<1>1. ResetInv => CreditsAreSpentOnce
  BY DEF ResetInv, CreditsAreSpentOnce, OnePurchase, BuyableIsPending, ForgottenIsGone,
         HeldIsStored, Stored, Buyable
<1> QED BY ResetInvariant, <1>1, PTL
=============================================================================
