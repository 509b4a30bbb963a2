---------------------------- MODULE MCRequestCompat ----------------------------
(***************************************************************************)
(* Instances of RequestCompat: every combination of the thinking fields    *)
(* with one short conversation, and every conversation of at most          *)
(* MaxMessages messages with a few combinations of the thinking fields.    *)
(***************************************************************************)
EXTENDS RequestCompat

CONSTANTS MaxMessages     \* the length of a conversation
ASSUME MaxMessages \in Nat

Messages == {m \in Message : m.role # "assistant" => ~m.reasoning}
Conversations == UNION {[1 .. n -> Messages] : n \in 0 .. MaxMessages}

Question == [role |-> "user", prefix |-> "absent", reasoning |-> FALSE]
Shortest == [thinking |-> "absent", nested |-> "absent", enable |-> "absent",
           effort |-> "absent", clear |-> "absent", kwargs |-> "absent",
           cont |-> "absent", gen |-> "absent", messages |-> <<Question>>]

ThinkingRequests == {r \in
    {[Shortest EXCEPT !.thinking = t, !.nested = n, !.enable = e, !.effort = f,
                    !.clear = c, !.kwargs = k] :
        t \in Bools \cup Objects \cup {"absent", "odd"},
        n \in Bools \cup Absence,
        e \in Bools \cup {"absent", "odd"},
        f \in Efforts \cup Absence \cup OtherEfforts,
        c \in Bools \cup Absence,
        k \in Bools \cup {"absent"}} :
    r.nested # "absent" => r.thinking \in Objects}

ContinuationRequests ==
    {[Shortest EXCEPT !.thinking = t, !.effort = f, !.cont = c, !.gen = g, !.messages = m] :
        t \in {"absent", "enabled"}, f \in {"absent", "other"},
        c \in Bools \cup {"absent", "odd"}, g \in Bools \cup {"absent", "odd"},
        m \in Conversations}

AllRequests == ThinkingRequests \cup ContinuationRequests

GLM52 == [renderer |-> "hf", minimalDisables |-> TRUE, clearDefault |-> "false"]
Other(renderer) ==
    [renderer |-> renderer, minimalDisables |-> FALSE, clearDefault |-> "absent"]
AllProfiles == {GLM52} \cup {Other(renderer) : renderer \in Renderers}
================================================================================
