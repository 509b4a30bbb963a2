---------------------------- MODULE KimiEncoding ----------------------------
(***************************************************************************)
(* How Kimi K3 turns a conversation into tokens: build_chat_segments of    *)
(* encoding_k3.py puts tool results in the order of their calls and writes *)
(* the messages as segments, and KimiK3Renderer.encode (renderers.py)      *)
(* encodes each segment with one of two tokenizers.  Segments that may     *)
(* become special tokens are written by the encoder only; the rest is the  *)
(* client's text, which may well contain the text of a special token.      *)
(*                                                                         *)
(* A message is its role and what the encoder looks at; `at` is its place  *)
(* in the request.  A string of arguments is a sequence of lexemes.  The   *)
(* wording of the encoder's own messages, attributes other than a role, a  *)
(* name and an index, tool schemas and images (the service strips media)   *)
(* are left out.                                                           *)
(*                                                                         *)
(* A definition whose name begins with Bug is a wrong variant of the one   *)
(* after it: a mistake the code could contain.                             *)
(***************************************************************************)
EXTENDS Naturals, Sequences, FiniteSets, SequencesExt

CONSTANTS Requests,  \* what clients may send
          CallIds,   \* the ids of tool calls
          Names,     \* the names of tools
          Nothing    \* no id, no name

Roles == {"system", "user", "assistant", "tool", "other"}
\* Text: none, ordinary, or with the text of a special token in it.
Texts == {"", "plain", "marker"}
\* A string of arguments as _parse_arguments_object reads it: where a value is due, all
\* of it is one lexeme ("string", or "value" for any other, a nested object too), and a
\* brace there begins no value.  "junk" is no JSON.
Lexemes == {"{", "}", ":", ",", "string", "value", "junk"}
Call == [id : CallIds \cup {Nothing}, name : Names \cup {Nothing},
         arguments : Seq(Lexemes), marked : BOOLEAN]
Message == [role : Roles, at : Nat, text : Texts, reasoning : Texts, name : Names \cup {Nothing},
            tools : BOOLEAN, calls : Seq(Call), call : CallIds \cup {Nothing}]

\* Tools in the request, thinking_effort, tool_choice and response_format (whether they
\* speak to the model), add_generation_prompt, which a continuation turns off.
Options == [tools : BOOLEAN, effort : {"max", "odd"}, toolChoice : BOOLEAN, format : BOOLEAN,
            generate : BOOLEAN]

ASSUME RequestsAssumption ==
    /\ Requests \subseteq [messages : Seq(Message), options : Options, thinking : BOOLEAN]
    /\ \A r \in Requests : \A i \in 1..Len(r.messages) : r.messages[i].at = i
ASSUME NothingAssumption == Nothing \notin CallIds \cup Names

\* What a segment says: a control token, a tag, a word of an attribute or of the encoder's
\* own messages, or what text of the client it is.
Tags == {"message", "think", "response", "tools", "call", "argument", "json"}
Labels ==
    {"open", "close", "sep", "end_of_msg"} \cup Tags \cup Roles
    \cup {"tool-declare", "thinking-effort", "tool-choice", "response-format", "instruction",
          "tool name", "index", "content", "reasoning"}

\* A segment: whether allow_special is set, whether its text contains a special
\* token, what it is (`at`: of which message, argument or index) and a name.
Segment == [special : BOOLEAN, marked : BOOLEAN, text : Labels, at : Nat,
            name : Names \cup {Nothing}]

VARIABLES sent,       \* the messages of the request
          options,
          thinking,
          stage,      \* "order", "begin", "render", "encode", "done"
          next,       \* the message the stage has come to
          calls,      \* the tool_calls of the last assistant
          run,        \* the results since the last message of another role
          ordered,    \* what normalize_xtml_tool_result_messages has put out
          toolIndex,  \* tool_index
          segments,
          tokens,
          error       \* why the encoder raised

inputs == <<sent, options, thinking>>
k3Vars == <<inputs, stage, next, calls, run, ordered, toolIndex, segments, tokens, error>>

K3Start(r) ==
    /\ sent = r.messages /\ options = r.options /\ thinking = r.thinking
    /\ stage = "order"
    /\ next = 1
    /\ calls = <<>>
    /\ run = <<>>
    /\ ordered = <<>>
    /\ toolIndex = 0
    /\ segments = <<>>
    /\ tokens = <<>>
    /\ error = "none"
K3Init == \E r \in Requests : K3Start(r)

-----------------------------------------------------------------------------
(***************************************************************************)
(* normalize_xtml_tool_result_messages                                     *)
(***************************************************************************)
Ids(cs) == {cs[k].id : k \in 1..Len(cs)} \ {Nothing}

\* _tool_call_id_index: the first call with this id.
Position(id, cs) ==
    CHOOSE k \in 1..Len(cs) : cs[k].id = id /\ \A l \in 1..(k - 1) : cs[l].id # id

Matched(ms, cs) == \A i \in 1..Len(ms) : ms[i].call \in Ids(cs)

\* The results that sort before the i-th: by position, then by arrival.
BugBefore(ms, cs, i) == {j \in 1..Len(ms) : j < i}
Before(ms, cs, i) ==
    {j \in 1..Len(ms) :
        \/ Position(ms[j].call, cs) < Position(ms[i].call, cs)
        \/ Position(ms[j].call, cs) = Position(ms[i].call, cs) /\ j < i}

\* The result takes the name of its call, if that has one.
Named(m, cs) ==
    LET name == cs[Position(m.call, cs)].name
    IN IF name = Nothing THEN m ELSE [m EXCEPT !.name = name]

BugOrdered(ms, cs) ==
    LET known == SelectSeq(ms, LAMBDA m : m.call \in Ids(cs))
    IN [k \in 1..Len(known) |->
            Named(known[CHOOSE i \in 1..Len(known) : Cardinality(Before(known, cs, i)) = k - 1], cs)]
Ordered(ms, cs) ==
    IF ~Matched(ms, cs) THEN ms
    ELSE [k \in 1..Len(ms) |->
            Named(ms[CHOOSE i \in 1..Len(ms) : Cardinality(Before(ms, cs, i)) = k - 1], cs)]

InRun == next <= Len(sent) /\ sent[next].role = "tool"

\* A message of another role.
Pass ==
    /\ stage = "order"
    /\ run = <<>>
    /\ next <= Len(sent)
    /\ ~InRun
    /\ ordered' = Append(ordered, sent[next])
    /\ calls' = IF sent[next].role = "assistant" THEN sent[next].calls ELSE calls
    /\ next' = next + 1
    /\ UNCHANGED <<inputs, stage, run, toolIndex, segments, tokens, error>>

Collect ==
    /\ stage = "order"
    /\ InRun
    /\ run' = Append(run, sent[next])
    /\ next' = next + 1
    /\ UNCHANGED <<inputs, stage, calls, ordered, toolIndex, segments, tokens, error>>

EndRun ==
    /\ stage = "order"
    /\ run # <<>>
    /\ ~InRun
    /\ ordered' = ordered \o Ordered(run, calls)
    /\ run' = <<>>
    /\ UNCHANGED <<inputs, stage, next, calls, toolIndex, segments, tokens, error>>

EndOrder ==
    /\ stage = "order"
    /\ run = <<>>
    /\ next > Len(sent)
    /\ stage' = "begin"
    /\ next' = 1
    /\ calls' = <<>>
    /\ UNCHANGED <<inputs, run, ordered, toolIndex, segments, tokens, error>>

-----------------------------------------------------------------------------
(***************************************************************************)
(* normalize_tool_arguments, for a string                                  *)
(***************************************************************************)
Lex(s, i) == IF i \in 1..Len(s) THEN s[i] ELSE "end"

\* A key, a colon and a value from lexeme i on.
PairAt(s, i) ==
    Lex(s, i) = "string" /\ Lex(s, i + 1) = ":" /\ Lex(s, i + 2) \in {"string", "value"}

\* _parse_arguments_object: the number of pairs from lexeme i on, or 0 if it raises.
BugPairs(s) ==
    LET pairs[i \in 1..(Len(s) + 4)] ==
            IF Lex(s, i) = "}" THEN 1
            ELSE IF ~PairAt(s, i) THEN 0
            ELSE IF Lex(s, i + 3) = "}" THEN 1
            ELSE IF Lex(s, i + 3) # "," \/ pairs[i + 4] = 0 THEN 0
            ELSE pairs[i + 4] + 1
    IN pairs[2]
Pairs(s) ==
    LET pairs[i \in 1..(Len(s) + 4)] ==
            IF ~PairAt(s, i) THEN 0
            ELSE IF Lex(s, i + 3) = "}" THEN 1
            ELSE IF Lex(s, i + 3) # "," \/ pairs[i + 4] = 0 THEN 0
            ELSE pairs[i + 4] + 1
    IN pairs[2]

\* No string gives no arguments, a string that is no object goes out as it is.
IsRaw(s) ==
    /\ s # <<>>
    /\ Lex(s, 1) # "{" \/ (Lex(s, 2) # "}" /\ Pairs(s) = 0)

ArgumentCount(s) == IF Lex(s, 2) = "}" \/ IsRaw(s) \/ s = <<>> THEN 0 ELSE Pairs(s)

-----------------------------------------------------------------------------
(***************************************************************************)
(* build_chat_segments                                                     *)
(***************************************************************************)
\* The control tokens "open", "close", "sep", "end_of_msg".
Control(token) ==
    [special |-> TRUE, marked |-> TRUE, text |-> token, at |-> 0, name |-> Nothing]
\* Words of the encoder: tags, attributes.
Word(word) == [special |-> FALSE, marked |-> FALSE, text |-> word, at |-> 0, name |-> Nothing]
\* Text of the client.
Free(text, what, at) ==
    IF text = "" THEN <<>>
    ELSE <<[special |-> FALSE, marked |-> text = "marker", text |-> what, at |-> at,
            name |-> Nothing]>>

Index(k) == [Word("index") EXCEPT !.at = k]
Tool(name, at) == [Word("tool name") EXCEPT !.name = name, !.at = at]

Open(tag, attributes) == <<Control("open"), Word(tag)>> \o attributes \o <<Control("sep")>>
Close(tag) == <<Control("close"), Word(tag), Control("sep")>>
Element(tag, attributes, body) == Open(tag, attributes) \o body \o Close(tag)
Whole(role, attributes, body) ==
    Element("message", <<Word(role)>> \o attributes, body) \o <<Control("end_of_msg")>>

Internal(kind) == Whole("system", <<Word(kind)>>, <<Word("instruction")>>)

CallElement(c, k, at) ==
    LET text == IF c.marked THEN "marker" ELSE "plain"
        arguments == [j \in 1..ArgumentCount(c.arguments) |->
                         Element("argument", <<Index(j)>>, Free(text, "argument", at))]
    IN Element("call", <<Tool(c.name, 0), Index(k)>>,
               IF IsRaw(c.arguments) THEN Element("json", <<>>, Free(text, "json", at))
               ELSE FlattenSeq(arguments))

\* The think channel is there in thinking mode, even if it is empty.
Answer(m) ==
    LET elements == [k \in 1..Len(m.calls) |-> CallElement(m.calls[k], k, m.at)]
    IN (IF thinking THEN Element("think", <<>>, Free(m.reasoning, "reasoning", m.at)) ELSE <<>>)
       \o Element("response", <<>>, Free(m.text, "content", m.at))
       \o (IF m.calls = <<>> THEN <<>> ELSE Element("tools", <<>>, FlattenSeq(elements)))

NameOf(m) == IF m.name = Nothing THEN <<>> ELSE <<Tool(m.name, m.at)>>

\* The name of a result: its own, or that of the call with its number.
ResultName(m) ==
    IF m.name # Nothing THEN m.name
    ELSE IF toolIndex < Len(calls) THEN calls[toolIndex + 1].name
    ELSE Nothing

Body(m) ==
    CASE m.role = "assistant" -> Whole("assistant", NameOf(m), Answer(m))
      [] m.role = "system" /\ m.tools -> Whole("system", <<>>, <<Word("tools")>>)
      [] m.role = "tool" -> Whole("tool", <<Tool(ResultName(m), m.at), Index(toolIndex + 1)>>,
                                  Free(m.text, "content", m.at))
      [] OTHER -> Whole(m.role, NameOf(m), Free(m.text, "content", m.at))

\* A call or a result without a name, a role the encoder does not know.
Refused(m) ==
    \/ m.role = "other"
    \/ m.role = "tool" /\ ResultName(m) = Nothing
    \/ m.role = "assistant" /\ \E k \in 1..Len(m.calls) : m.calls[k].name = Nothing

Begin ==
    /\ stage = "begin"
    /\ ~(thinking /\ options.effort = "odd")
    /\ segments' = (IF options.tools THEN Internal("tool-declare") ELSE <<>>)
                   \o (IF thinking THEN Internal("thinking-effort") ELSE <<>>)
    /\ stage' = "render"
    /\ UNCHANGED <<inputs, next, calls, run, ordered, toolIndex, tokens, error>>

RefuseEffort ==
    /\ stage = "begin"
    /\ thinking /\ options.effort = "odd"
    /\ error' = "effort"
    /\ stage' = "done"
    /\ UNCHANGED <<inputs, next, calls, run, ordered, toolIndex, segments, tokens>>

\* An assistant resets the count of results.
BugRender ==
    /\ stage = "render"
    /\ next <= Len(ordered)
    /\ ~Refused(ordered[next])
    /\ segments' = segments \o Body(ordered[next])
    /\ calls' = IF ordered[next].role = "assistant" THEN ordered[next].calls ELSE calls
    /\ toolIndex' = IF ordered[next].role = "tool" THEN toolIndex + 1 ELSE toolIndex
    /\ next' = next + 1
    /\ UNCHANGED <<inputs, stage, run, ordered, tokens, error>>
Render ==
    /\ stage = "render"
    /\ next <= Len(ordered)
    /\ ~Refused(ordered[next])
    /\ segments' = segments \o Body(ordered[next])
    /\ calls' = IF ordered[next].role = "assistant" THEN ordered[next].calls ELSE calls
    /\ toolIndex' = CASE ordered[next].role = "assistant" -> 0
                      [] ordered[next].role = "tool" -> toolIndex + 1
                      [] OTHER -> toolIndex
    /\ next' = next + 1
    /\ UNCHANGED <<inputs, stage, run, ordered, tokens, error>>

Raise ==
    /\ stage = "render"
    /\ next <= Len(ordered)
    /\ Refused(ordered[next])
    /\ error' = "message"
    /\ stage' = "done"
    /\ UNCHANGED <<inputs, next, calls, run, ordered, toolIndex, segments, tokens>>

\* The message of the answer and its first channel, both left open.
OpenAnswer == Open("message", <<Word("assistant")>>)
              \o Open(IF thinking THEN "think" ELSE "response", <<>>)

EndRender ==
    /\ stage = "render"
    /\ next > Len(ordered)
    /\ segments' = segments
                   \o (IF options.toolChoice THEN Internal("tool-choice") ELSE <<>>)
                   \o (IF options.format THEN Internal("response-format") ELSE <<>>)
                   \o (IF options.generate THEN OpenAnswer ELSE <<>>)
    /\ stage' = "encode"
    /\ UNCHANGED <<inputs, next, calls, run, ordered, toolIndex, tokens, error>>

-----------------------------------------------------------------------------
(***************************************************************************)
(* KimiK3Renderer.encode                                                   *)
(***************************************************************************)
\* Gigatoken makes a special token of its text wherever it finds it; the template
\* tokenizer does not with allow_special_tokens=False.
ByGigatoken(segment) == [control |-> segment.marked, segment |-> segment]
ByTemplateTokenizer(segment) == [control |-> FALSE, segment |-> segment]

BugEncoded(segment) == ByGigatoken(segment)
Encoded(segment) ==
    IF segment.special \/ ~segment.marked THEN ByGigatoken(segment)
    ELSE ByTemplateTokenizer(segment)

Encode ==
    /\ stage = "encode"
    /\ tokens' = [i \in 1..Len(segments) |-> Encoded(segments[i])]
    /\ stage' = "done"
    /\ UNCHANGED <<inputs, next, calls, run, ordered, toolIndex, segments, error>>

K3Next ==
    \/ Pass \/ Collect \/ EndRun \/ EndOrder
    \/ Begin \/ RefuseEffort \/ Render \/ Raise \/ EndRender
    \/ Encode

K3Spec == K3Init /\ [][K3Next]_k3Vars

-----------------------------------------------------------------------------
(***************************************************************************)
(* Properties                                                              *)
(***************************************************************************)
IsOrdered == stage \notin {"order"}

\* Messages i to j are results.
OneRun(ms, i, j) == \A k \in i..j : ms[k].role = "tool"
SameRun(ms, i, j) == OneRun(ms, i, j) /\ OneRun(ms, j, i)
RunStart(ms, i) == CHOOSE k \in 1..i : OneRun(ms, k, i) /\ (k = 1 \/ ms[k - 1].role # "tool")
RunEnd(ms, i) ==
    CHOOSE k \in i..Len(ms) : OneRun(ms, i, k) /\ (k = Len(ms) \/ ms[k + 1].role # "tool")
RunOf(ms, i) == SubSeq(ms, RunStart(ms, i), RunEnd(ms, i))

\* The calls of the last assistant before message i.
CallsBefore(ms, i) ==
    LET assistants == {k \in 1..(i - 1) : ms[k].role = "assistant"}
    IN IF assistants = {} THEN <<>>
       ELSE ms[CHOOSE k \in assistants : \A l \in assistants : l <= k].calls

\* The state has the expected shape.
K3TypeOK ==
    /\ sent \in Seq(Message) /\ ordered \in Seq(Message) /\ run \in Seq(Message)
    /\ calls \in Seq(Call)
    /\ options \in Options /\ thinking \in BOOLEAN
    /\ segments \in Seq(Segment)
    /\ tokens \in Seq([control : BOOLEAN, segment : Segment])
    /\ stage \in {"order", "begin", "render", "encode", "done"}
    /\ next \in 1..(Len(sent) + 1)
    /\ toolIndex \in Nat
    /\ error \in {"none", "effort", "message"}

\* Ordering results loses no message, doubles none and moves none out of its run;
\* but for the name of a result it changes nothing (encoding_k3.py:389-468).
EveryMessageOnce ==
    IsOrdered =>
        /\ Len(ordered) = Len(sent)
        /\ \A i \in 1..Len(sent) :
              /\ ordered[i].role # "tool" => ordered[i] = sent[i]
              /\ \E k \in 1..Len(sent) :
                    /\ k = i \/ SameRun(sent, i, k)
                    /\ [ordered[k] EXCEPT !.name = sent[i].name] = sent[i]

\* The results of a run that answers nothing but calls of the last assistant come in
\* the order of the calls and bear their names; any other run is left as it was
\* (encoding_k3.py:395-406).
ResultsFollowCalls ==
    IsOrdered =>
        \A i \in 1..Len(ordered) : ordered[i].role = "tool" =>
            LET cs == CallsBefore(ordered, i)
            IN IF \A k \in 1..Len(ordered) :
                     SameRun(ordered, i, k) => ordered[k].call \in Ids(cs)
               THEN /\ \E k \in 1..Len(cs) :
                          /\ cs[k].id = ordered[i].call
                          /\ cs[k].name \in {ordered[i].name, Nothing}
                    /\ \A k \in (i + 1)..Len(ordered) : SameRun(ordered, i, k) =>
                          \E p, q \in 1..Len(cs) :
                              /\ p <= q
                              /\ cs[p].id = ordered[i].call /\ cs[q].id = ordered[k].call
                              /\ \A o \in 1..(q - 1) : cs[o].id # ordered[k].call
               ELSE ordered[i] = sent[i]

\* A run that answers every call of the assistant before it once is written with the
\* name and the number of the calls, whatever order and names the client gave
\* (encoding_k3.py:395-406, 656-680).
IndexNamesTheCall ==
    stage \in {"encode", "done"} /\ error = "none" =>
        \A i \in 1..Len(ordered) :
            LET cs == CallsBefore(ordered, i)
                rs == RunOf(ordered, i)
                complete ==
                    /\ RunStart(ordered, i) > 1
                    /\ ordered[RunStart(ordered, i) - 1].role = "assistant"
                    /\ Len(rs) = Len(cs)
                    /\ Cardinality(Ids(cs)) = Len(cs)
                    /\ {rs[k].call : k \in 1..Len(rs)} = Ids(cs)
            IN ordered[i].role = "tool" /\ complete =>
                  \E k \in 1..Len(cs), s \in 1..Len(segments) :
                      /\ cs[k].id = ordered[i].call
                      /\ segments[s] = Tool(cs[k].name, ordered[i].at)
                      /\ segments[s + 1] = Index(k)

\* The closed form of what _parse_arguments_object takes: an object of n pairs, and
\* whatever follows it.
IsObject(s, n) ==
    /\ Lex(s, 1) = "{"
    /\ n = 0 => Lex(s, 2) = "}"
    /\ \A k \in 1..n :
          /\ PairAt(s, 4 * k - 2)
          /\ Lex(s, 4 * k + 1) = IF k = n THEN "}" ELSE ","

\* A string of arguments goes out as it is exactly if it does not begin with an
\* object, and otherwise as the pairs of that object (encoding_k3.py:275-303).
ArgumentsAreTheObject ==
    \A i \in 1..Len(sent) : \A k \in 1..Len(sent[i].calls) :
        LET s == sent[i].calls[k].arguments
        IN /\ IsRaw(s) <=> s # <<>> /\ \A n \in 0..Len(s) : ~IsObject(s, n)
           /\ ~IsRaw(s) /\ s # <<>> => IsObject(s, ArgumentCount(s))

\* What a model can read from the control tokens: where elements begin and end.
Opened(i) == tokens[i].control /\ tokens[i].segment.text = "open"
Closed(i) == tokens[i].control /\ tokens[i].segment.text = "close"
Level(i) == Cardinality({k \in 1..i : Opened(k)}) - Cardinality({k \in 1..i : Closed(k)})
Tag(i) == tokens[i + 1].segment.text
MessagesTo(i) == {k \in 1..i : Opened(k) /\ Tag(k) = "message"}

\* The control tokens of the prompt tell the conversation, whatever text the client
\* sent: no text becomes one, elements are closed in the order they were opened, and the
\* messages read are the instructions, those of the client with their roles, and, if
\* one is asked for, the open answer; without one nothing is left open
\* (encoding_k3.py:584-754, renderers.py:257-278).
ControlsTellTheConversation ==
    tokens # <<>> =>
        /\ \A i \in 1..Len(tokens) : tokens[i].control <=> segments[i].special
        /\ \A i \in 1..Len(tokens) : Closed(i) =>
              \E k \in 1..(i - 1) :
                  /\ Opened(k) /\ Tag(k) = Tag(i) /\ Level(k) = Level(i) + 1
                  /\ \A l \in k..(i - 1) : Level(l) > Level(i)
        /\ \A i \in 1..Len(tokens) : segments[i].text = "end_of_msg" => Level(i) = 0
        /\ Level(Len(tokens)) = IF options.generate THEN 2 ELSE 0
        /\ LET one(given) == IF given THEN 1 ELSE 0
               before == one(options.tools) + one(thinking)
               behind == one(options.toolChoice) + one(options.format) + one(options.generate)
           IN /\ \A i \in 1..Len(sent) : \E k \in 1..Len(tokens) :
                    /\ k \in MessagesTo(k) /\ Cardinality(MessagesTo(k)) = before + i
                    /\ tokens[k + 2].segment.text = sent[i].role
              /\ Cardinality(MessagesTo(Len(tokens))) = before + Len(sent) + behind
=============================================================================
