----------------------------- MODULE MCObjects ------------------------------
(***************************************************************************)
(* The storage of an object under several invocations, and the pages of    *)
(* one under a reader.                                                     *)
(***************************************************************************)
EXTENDS CachedObject, TLC

CONSTANTS i1, i2, r1, k1, k2, v1

VARIABLE part

\* Overwrite a key, delete it, delete one while writing the other, or clear
\* the object.
MCChanges ==
  {[clear |-> FALSE, set |-> (k1 :> x @@ k2 :> Keep)] : x \in {v1, Null}}
    \cup {[clear |-> FALSE, set |-> (k1 :> Null @@ k2 :> v1)],
          [clear |-> TRUE, set |-> (k1 :> Keep @@ k2 :> Keep)]}

\* Two invocations of two batches each that contend for one key; or one of
\* three, which lists the keys while a reader looks them up.
Contended ==
    /\ \A r \in Readers : rpc[r] = "idle"
    /\ \A i \in Invocations :
          /\ batches[i] <= 2 /\ ~batch[i].change.clear /\ batch[i].change.set[k2] = Keep
          /\ fetch[i].field \notin Pages \cup {k2}
Listed ==
    /\ \E i \in Invocations : \A j \in Invocations \ {i} : pc[j] = "idle"
    /\ \A i \in Invocations : batch[i].change.set # (k1 :> Null @@ k2 :> Keep)

Symmetry == Permutations(Invocations)

MCInit == Init /\ part \in {"contended", "listed"}
MCNext ==
    /\ Next /\ UNCHANGED part
    /\ IF part = "contended" THEN Contended' ELSE Listed'
MCSpec == MCInit /\ [][MCNext]_<<vars, part>>
=============================================================================
