------------------------------- MODULE Health -------------------------------
(***************************************************************************)
(* Cooldowns of a provider and of one of its credentials (gateway/health/).*)
(*                                                                         *)
(* Both are objects that load a small record, change it and store it under *)
(* the object's serialisation.  The provider's counts failures in a window *)
(* and cools down at a threshold; the credential's cools at once on an     *)
(* authentication failure, or until the instant its quota resets.  Stale   *)
(* records are normalised when they are next read, so a record in storage  *)
(* may be out of date at any time.                                         *)
(***************************************************************************)
EXTENDS HealthRecord, Sequences, FiniteSets

CONSTANT
    Quotas       \* how far away a quota reset can be; 0 is an instant gone by

VARIABLES
    provider, credential,   \* the stored records of the two objects
    run                     \* history: ages of the failures counted in a row

vars == <<provider, credential, run>>

-----------------------------------------------------------------------------
Init == provider = Fresh /\ credential = Fresh /\ run = <<>>

RecordFailure ==
    /\ provider' = Failure(provider)
    /\ run' = IF Snapshot(provider).cooling = None THEN Append(run, 0) ELSE run
    /\ UNCHANGED credential

RecordSuccess ==
    /\ provider' = Success(provider) /\ run' = <<>>
    /\ UNCHANGED credential

ClearProvider == provider' = Fresh /\ run' = <<>> /\ UNCHANGED credential

GetStatus ==
    /\ provider' = Snapshot(provider) /\ credential' = Snapshot(credential)
    /\ run' = IF provider.cooling = 0 THEN <<>> ELSE run

RecordImmediateFailure ==
    credential' = ImmediateFailure(credential) /\ UNCHANGED <<provider, run>>

RecordCooldownUntil ==
    /\ \E u \in Quotas : credential' = CooldownUntil(credential, u)
    /\ UNCHANGED <<provider, run>>

ClearCredential == credential' = Fresh /\ UNCHANGED <<provider, run>>

ClearQuotaCooldownUntil ==
    /\ \E u \in Quotas : credential' = ClearQuota(credential, u)
    /\ UNCHANGED <<provider, run>>

Tick ==
    /\ provider' = Older(provider) /\ credential' = Older(credential)
    /\ run' = LET aged == [i \in DOMAIN run |-> run[i] + 1] IN
              IF provider.cooling \in {0, 1} THEN <<>>
              ELSE SelectSeq(aged, LAMBDA a : a < Window)

Next ==
    \/ RecordFailure \/ RecordSuccess \/ ClearProvider \/ GetStatus
    \/ RecordImmediateFailure \/ RecordCooldownUntil
    \/ ClearCredential \/ ClearQuotaCooldownUntil \/ Tick

Spec == Init /\ [][Next]_vars

-----------------------------------------------------------------------------
\* Records have their types, and only a cooldown has a reason.
TypeOK ==
    /\ provider \in Record /\ credential \in Record /\ run \in Seq(Nat)
    /\ \A h \in {provider, credential} : h.cooling = None => h.reason = NoReason

\* A provider cools down only for Threshold failures in a row, none of them
\* older than the window: no failure that a success, a clear, an expired window
\* or an earlier cooldown has settled is counted again.
CooldownIsEarned ==
    [][~Cooling(provider) /\ Cooling(provider') =>
          Cardinality({i \in DOMAIN run' : run'[i] < Window}) >= Threshold]_vars

\* A credential's cooldown is never shortened by a later, milder event, and
\* only time, an administrator or the reset spent on it end a quota cooldown.
CooldownHolds ==
    [][Cooling(credential) =>
          \/ credential'.cooling >= credential.cooling
          \/ Tick \/ ClearCredential
          \/ /\ credential.reason = Quota /\ credential.cooling \in Quotas
             /\ ClearQuotaCooldownUntil]_vars
=============================================================================
