------------------------------ MODULE MCQuota -------------------------------
(***************************************************************************)
(* Codex accounts that have run out: several requests that spend their     *)
(* reset credits.                                                          *)
(***************************************************************************)
EXTENDS QuotaReset, TLC

Symmetry == Permutations(Requests) \cup Permutations(Credentials)

\* At most one request has other accounts configured than the rest.
MCInit ==
    /\ Init
    /\ Cardinality({r \in Requests : conf[r] # Credentials}) <= 1

MCSpec == MCInit /\ [][Next]_vars
=============================================================================
