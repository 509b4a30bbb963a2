--------------------------- MODULE MCDeepSeekEncodings ---------------------------
(***************************************************************************)
(* Instances of DeepSeekEncodings: every conversation of MaxShort messages *)
(* of any kind, of MaxLong messages of the kinds that merging, sorting and *)
(* forgetting are about, and of calls with MaxLong results and texts.      *)
(***************************************************************************)
EXTENDS DeepSeekEncodings

CONSTANTS a, b,          \* the ids of two calls
          MaxShort, MaxLong
ASSUME BoundsAssumption == MaxShort \in Nat /\ MaxLong \in Nat

M(role) == [role |-> role, empty |-> FALSE, reasoning |-> FALSE, calls |-> <<>>, call |-> NoId,
            task |-> "none", tools |-> FALSE, prefix |-> FALSE, malformed |-> FALSE]

Answer(reasoning, calls) ==
    [M("assistant") EXCEPT !.reasoning = reasoning, !.calls = calls]
Result(id) == [M("tool") EXCEPT !.call = id]

Kinds ==
    {M(role) : role \in {"system", "developer", "user", "latest_reminder", "other"}}
    \cup {[M("user") EXCEPT !.malformed = TRUE]}
    \cup {[M("developer") EXCEPT !.tools = TRUE], [M("developer") EXCEPT !.empty = TRUE]}
    \cup {[M("user") EXCEPT !.task = t] : t \in {"action", "query", "odd"}}
    \cup {Answer(r, c) : r \in BOOLEAN, c \in {<<>>, <<a, b>>}}
    \cup {Result(id) : id \in {a, b, NoId}}

Common ==
    {M("user"), M("developer"), M("system"), Answer(TRUE, <<>>), Answer(TRUE, <<a, b>>),
     Answer(FALSE, <<>>), Result(a), Result(b)}

\* A prefix is only left on the last message, which is an assistant's.
Prefixed == {[Answer(r, c) EXCEPT !.prefix = TRUE] : r \in BOOLEAN, c \in {<<>>, <<a>>}}

\* Calls, one of them without an id or twice, their results, and users' texts with a task
\* or without one.
Called == {<<Answer(TRUE, calls)>> \o after :
              calls \in {<<a, b, a>>, <<b, a, NoId>>},
              after \in [1 .. MaxLong -> {Result(a), Result(b), Result(NoId), M("user"),
                                         [M("user") EXCEPT !.task = "query"]}]}

MCConversations ==
    UNION {[1 .. n -> Kinds] : n \in 0 .. MaxShort}
    \cup UNION {[1 .. n -> Common] : n \in 0 .. MaxLong}
    \cup Called
    \cup {Append(c, m) : c \in UNION {[1 .. n -> Common] : n \in 0 .. 1}, m \in Prefixed}
================================================================================
