---------------------------- MODULE ClientStream ----------------------------
(***************************************************************************)
(* The stream of events a client reads, in either dialect.                 *)
(*                                                                         *)
(*   "start"        response.created, message_start                        *)
(*   "open"         response.output_item.added, content_block_start        *)
(*   "part"         response.content_part.added and its summary form       *)
(*   "delta"        any delta of an item or a block                        *)
(*   "close"        response.output_item.done, content_block_stop          *)
(*   "end"          response.completed, response.incomplete, message_stop  *)
(*   "error"        response.failed, error                                 *)
(*                                                                         *)
(* `from' is the upstream item an event stems from.                        *)
(***************************************************************************)
EXTENDS Integers, Sequences

StreamEvent(type, index, from) == [type |-> type, index |-> index, from |-> from]

LOCAL At(s, type, index) == {k \in DOMAIN s : s[k].type = type /\ s[k].index = index}
LOCAL Opened(s) == {s[k].index : k \in {j \in DOMAIN s : s[j].type = "open"}}

\* What a client may rely on: one start first and one end last; an item is
\* opened once, then written, then closed once, and never written afterwards;
\* what an item is written comes from one item of the provider; and when the
\* stream ends well every item is closed and their indexes have no gaps.
WellFormed(s) ==
    /\ \A k \in DOMAIN s : s[k].type = "start" => k = 1
    /\ s # <<>> => s[1].type \in {"start", "error"}
    /\ \A k \in DOMAIN s : s[k].type \in {"end", "error"} => k = Len(s)
    /\ \A i \in Opened(s) :
          /\ \A j, k \in At(s, "open", i) : j = k
          /\ \A j, k \in At(s, "close", i) : j = k
          /\ \A j, k \in At(s, "part", i) : j = k
    /\ \A k \in DOMAIN s : s[k].type \in {"part", "delta", "close"} =>
          /\ \E j \in At(s, "open", s[k].index) : j < k
          /\ \A j \in At(s, "close", s[k].index) : k <= j
    /\ \A j, k \in DOMAIN s :
          s[j].type = "delta" /\ s[k].type = "delta" /\ s[j].index = s[k].index => s[j].from = s[k].from
    /\ s # <<>> /\ s[Len(s)].type = "end" =>
          /\ \A i \in Opened(s) : At(s, "close", i) # {} /\ \A j \in 0..i : j \in Opened(s)

\* The deltas that came from an upstream item.
Written(s, from) == Len(SelectSeq(s, LAMBDA e : e.type = "delta" /\ e.from = from))
=============================================================================
