---------------------------- MODULE HealthRecord ----------------------------
(***************************************************************************)
(* The record a health object keeps (gateway/health/health.ts): a failure  *)
(* window and a cooldown, and what each report makes of it.                *)
(*                                                                         *)
(* Time is relative: `age' is the age of the failure window, `cooling' the *)
(* time left; None stands for null and 0 for a deadline in the past.       *)
(***************************************************************************)
EXTENDS Integers

CONSTANTS
    Threshold,   \* FAILURE_THRESHOLD
    Window,      \* FAILURE_WINDOW_MS
    Cooldown     \* COOLDOWN_MS

ASSUME HealthAssumption ==
    Threshold \in Nat \ {0} /\ Window \in Nat \ {0} /\ Cooldown \in Nat \ {0}

None == -1
Quota == "quota"
NoReason == "none"
Fresh == [failures |-> 0, age |-> None, cooling |-> None, reason |-> NoReason]

\* snapshot(): a cooldown that is over and a window that is over are forgotten.
Snapshot(h) ==
    LET cooled == IF h.cooling = 0 THEN Fresh ELSE h IN
    IF cooled.cooling = None /\ cooled.age >= Window
    THEN [cooled EXCEPT !.failures = 0, !.age = None] ELSE cooled

\* The failure is counted in the running window, or opens one.
Counted(h) ==
    IF h.age = None \/ h.age >= Window
    THEN [h EXCEPT !.failures = 1, !.age = 0]
    ELSE [h EXCEPT !.failures = @ + 1]

Failure(h) ==
    LET s == Snapshot(h)
        c == Counted(s) IN
    IF s.cooling # None THEN s
    ELSE IF c.failures >= Threshold THEN [c EXCEPT !.cooling = Cooldown] ELSE c

\* Mutant: an immediate failure always restarts the standard cooldown.
ImmediateFailureShortens(h) ==
    LET s == Snapshot(h)
        c == IF s.cooling = None THEN Counted(s) ELSE s IN
    [c EXCEPT !.cooling = Cooldown, !.reason = NoReason]

ImmediateFailure(h) ==
    LET s == Snapshot(h)
        c == IF s.cooling = None THEN Counted(s) ELSE s IN
    IF s.cooling = None \/ s.cooling < Cooldown
    THEN [c EXCEPT !.cooling = Cooldown, !.reason = NoReason] ELSE c

Success(h) == IF Snapshot(h).reason = Quota THEN Snapshot(h) ELSE Fresh

CooldownUntil(h, until) ==
    LET s == Snapshot(h) IN
    IF until > 0 /\ (s.cooling = None \/ until >= s.cooling)
    THEN [s EXCEPT !.cooling = until, !.reason = Quota] ELSE s

\* The record a spent reset may clear: the very quota cooldown it was spent on.
ClearQuota(h, until) ==
    IF h.cooling > 0 /\ h.reason = Quota /\ h.cooling = until THEN Fresh ELSE h

\* Time passes; ages past the window are all alike.
Older(h) == [h EXCEPT !.age = IF @ \in 0..(Window - 1) THEN @ + 1 ELSE @,
                      !.cooling = IF @ > 0 THEN @ - 1 ELSE @]

Record == [failures : Nat, age : Int, cooling : Int, reason : {NoReason, Quota}]

Cooling(h) == h.cooling > 0
=============================================================================
