-------------------------- MODULE ObjectContract --------------------------
(***************************************************************************)
(* What the standard runtime promises the code of a durable object, with   *)
(* no cache, lease or fence in sight: a change is committed only when all  *)
(* that its invocation has read or written is still the stored state, an   *)
(* answer is given only then, and a lease-free read returns what is stored *)
(* at the moment it is served.  CachedObject is shown to implement this.   *)
(***************************************************************************)
CONSTANTS
  Invocations, Readers, Keys, Field, Memo, Null, Unfilled,
  Commits,          \* every change a commit may carry
  View(_, _),       \* the value of a field for given rows
  Applied(_, _)     \* the rows after a change

VARIABLES
  items,     \* the stored rows
  view,      \* what each invocation believes the fields to be
  failed,    \* invocations whose write failed or whose outcome is unknown
  answered,  \* the reply of each invocation
  served     \* the item that each lease-free reader was given

vars == <<items, view, failed, answered, served>>

\* Everything known in m is what the stored rows say.
Consistent(m, rows) == \A f \in Field : m[f] # Unfilled => m[f] = View(f, rows)

Init ==
  /\ items = [k \in Keys |-> Null]
  /\ view = [i \in Invocations |-> [f \in Field |-> Unfilled]]
  /\ failed = [i \in Invocations |-> FALSE]
  /\ answered = [i \in Invocations |-> "none"]
  /\ served = [r \in Readers |-> Unfilled]

\* Learning, forgetting or failing is private to the invocation.
Observe(i) ==
  /\ view' \in [Invocations -> Memo]
  /\ \A j \in Invocations \ {i} : view'[j] = view[j]
  /\ \/ UNCHANGED failed
     \/ failed' = [failed EXCEPT ![i] = TRUE]
  /\ UNCHANGED <<items, answered, served>>

Commit(i, c) ==
  /\ Consistent(view[i], items)
  /\ items' = Applied(items, c)
  /\ UNCHANGED <<view, failed, answered, served>>

Answer(i) ==
  /\ answered[i] = "none"
  /\ \/ answered' = [answered EXCEPT ![i] = "error"]
     \/ /\ failed[i] \/ Consistent(view[i], items)
        /\ answered' = [answered EXCEPT ![i] = "ok"]
  /\ UNCHANGED <<items, view, failed, served>>

Serve(r, k) ==
  /\ served[r] = Unfilled
  /\ served' = [served EXCEPT ![r] = <<k, items[k]>>]
  /\ UNCHANGED <<items, view, failed, answered>>

Next ==
  \/ \E i \in Invocations : Observe(i) \/ Answer(i) \/ \E c \in Commits : Commit(i, c)
  \/ \E r \in Readers, k \in Keys : Serve(r, k)

Spec == Init /\ [][Next]_vars
===========================================================================
