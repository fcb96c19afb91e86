---------------------------- MODULE ConfigRegister ----------------------------
(***************************************************************************)
(* What the control plane promises: the configuration is a register whose  *)
(* every version is one request applied, as a whole, to the version before *)
(* it.  A request is applied under an operation id at most once, and a     *)
(* restore takes the settings of an old version but the secrets of the     *)
(* version it replaces.                                                    *)
(***************************************************************************)
EXTENDS Integers

CONSTANTS
    Requests, Actors, Operations,
    None,                          \* null or undefined
    Worked(_, _, _, _, _),         \* what a request makes of rows and secrets, if it may
    CommittedRows(_, _),           \* the tables after the rows it leaves were written
    CompileSnapshot(_),            \* the document those rows are
    PreserveCurrentSecrets(_, _)   \* an old document with the secrets of a newer one

VARIABLES
    version,      \* config_meta.version
    rows,         \* the entity tables
    stored,       \* secret_versions: id -> text
    snapshots,    \* config_snapshots: version -> document
    operations    \* config_operations: id -> the request it committed

register == <<version, rows, stored, snapshots, operations>>

Put(table, id, row) == [i \in DOMAIN table \cup {id} |-> IF i = id THEN row ELSE table[i]]

Init ==
    /\ version = 1 /\ DOMAIN operations = {}
    /\ DOMAIN snapshots = {1} /\ snapshots[1] = CompileSnapshot(rows)

\* The document a restore writes.
Recovered(q) ==
    IF q.kind # "restore" THEN None
    ELSE PreserveCurrentSecrets(snapshots[q.source], snapshots[version])

\* Secrets are only ever added.
Result(w) ==
    /\ w.ok
    /\ rows' = CommittedRows(rows, w.rows)
    /\ stored' = [i \in DOMAIN stored \cup DOMAIN w.pending |->
                     IF i \in DOMAIN stored THEN stored[i] ELSE w.pending[i]]
    /\ snapshots' = Put(snapshots, version + 1, CompileSnapshot(w.rows))

\* The log entry tells the requests apart before the work of one is compared
\* with the rows.
Apply(actor, op, q) ==
    /\ op \notin DOMAIN operations
    /\ operations' = Put(operations, op, [version |-> version + 1, actor |-> actor,
                                          request |-> q, expected |-> version])
    /\ q.kind = "restore" => q.source \in DOMAIN snapshots /\ Recovered(q) # None
    /\ Result(Worked(rows, stored, version + 1, q, Recovered(q)))

Next ==
    /\ version' = version + 1
    /\ \E actor \in Actors, op \in Operations, q \in Requests : Apply(actor, op, q)

Spec == Init /\ [][Next]_register
=============================================================================
