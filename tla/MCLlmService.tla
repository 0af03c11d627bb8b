----------------------------- MODULE MCLlmService -----------------------------
(* Instances of LlmService for TLC. *)
EXTENDS LlmService

Asks(id, args) == [content |-> "null", calls |-> <<[id |-> id, args |-> args]>>]

\* Every shape of content with no call; of a single call, each field varied on
\* its own; and two pairs.
AllBodies ==
    {[content |-> c, calls |-> <<>>] : c \in {"text", "null", "other"}}
    \cup {Asks(raw.id, raw.args) :
             raw \in {r \in RawCall : r.id = "text" \/ r.args = "object"}}
    \cup {[content |-> "text",
           calls |-> <<[id |-> "text", args |-> "json_object"], [id |-> "text", args |-> a]>>] :
             a \in {"object", "not_json"}}

\* Below, within and beyond the limits of the first two delays.
SomeJitters == {-5, 1, 9}
=============================================================================
