---------------------------- MODULE DeepSeekEncodings ----------------------------
(***************************************************************************)
(* How the renderers of the DeepSeek models turn a conversation into a     *)
(* prompt: parse_chat_messages (chat_utils.py), the renderers' own system  *)
(* message with the tools (renderers.py) and the encode_messages of        *)
(* V3.2, V4 and V4.1, which merge tool results into user messages, put     *)
(* them in the order of the calls, forget earlier reasoning and write the  *)
(* messages one after the other.                                           *)
(*                                                                         *)
(* A message is its role and what the encoders look at; its content is     *)
(* the number of the message, its place in the request (0 for the system   *)
(* message with the tools).  A prompt is a sequence of chunks: a piece of  *)
(* content or a token the encoder adds.  Wording, the text of the tools,   *)
(* of the effort and of calls, end-of-sentence tokens, images, and the     *)
(* content_blocks a client sends itself are left out.  "other" is a role   *)
(* the encoders do not know; the effort is one they do (RequestCompat).    *)
(* drop_thinking is TRUE for V4 and V4.1, since the template kwargs of a   *)
(* client are no input of the service.                                     *)
(*                                                                         *)
(* A definition whose name begins with Bug is a wrong variant of the one   *)
(* after it: a mistake the code could contain.                             *)
(***************************************************************************)
EXTENDS Naturals, Sequences, FiniteSets

CONSTANTS Conversations,  \* the messages clients may send
          CallIds,        \* the ids of tool calls
          NoId            \* a call or a result without id

Encoders == {"v32", "v4", "v41"}
Roles == {"system", "developer", "user", "assistant", "tool", "latest_reminder", "other"}
Ids   == CallIds \cup {NoId}
Tasks == {"none", "action", "query", "odd"}    \* "query" stands for all but action

Message == [role : Roles, empty : BOOLEAN, reasoning : BOOLEAN, calls : Seq(Ids), call : Ids,
            task : Tasks, tools : BOOLEAN, prefix : BOOLEAN, malformed : BOOLEAN]

ASSUME ConversationsAssumption == Conversations \subseteq Seq(Message)
ASSUME NoIdAssumption == NoId \notin CallIds

Block == [type : {"text", "result"}, at : Nat, call : Ids]
Turn  == [role : Roles, at : Nat, empty : BOOLEAN, reasoning : BOOLEAN, calls : Seq(Ids),
          call : Ids, task : Tasks, tools : BOOLEAN, prefix : BOOLEAN, blocks : Seq(Block)]

Contents == {"system", "developer", "text", "result", "reminder", "content"}
Tokens   == {"Assistant", "think", "reasoning", "endthink", "calls", "results", "endresults",
             "task"}
Chunk    == [kind : Contents \cup Tokens, at : Nat]
C(kind, m) == [kind |-> kind, at |-> m.at]

VARIABLES sent,          \* the messages of the request
          hasTools,      \* whether the request has tools
          thinking,      \* thinking_mode = "thinking"
          encoder,
          stage,         \* the pass that is made: "parse", "merge", "sort", "forget", "render"
          next,          \* the message the pass has come to
          conversation,  \* the messages the pass reads
          written,       \* the messages the pass has written so far
          order,         \* the calls last_tool_call_order was made from
          prompt,
          error          \* why the parser or the encoder raised

inputs == <<sent, hasTools, thinking, encoder>>
vars == <<inputs, stage, next, conversation, written, order, prompt, error>>

Init == /\ sent \in Conversations
        /\ hasTools \in BOOLEAN
        /\ thinking \in BOOLEAN
        /\ encoder \in Encoders
        /\ stage = "parse"
        /\ next = 1
        /\ conversation = <<>>
        /\ written = <<>>
        /\ order = <<>>
        /\ prompt = <<>>
        /\ error = "none"

--------------------------------------------------------------------------------
(* Parsing. *)

\* Reasoning and calls are only taken from assistants, a call's id only from results,
\* tools only from developers.
ParsedMessage(m, i) ==
    [role      |-> m.role, at |-> i, empty |-> m.empty, task |-> m.task, prefix |-> m.prefix,
     reasoning |-> m.role = "assistant" /\ m.reasoning,
     calls     |-> IF m.role = "assistant" THEN m.calls ELSE <<>>,
     call      |-> IF m.role = "tool" THEN m.call ELSE NoId,
     tools     |-> m.role = "developer" /\ m.tools,
     blocks    |-> <<>>]

ToolsMessage ==
    [role |-> "system", at |-> 0, empty |-> TRUE, reasoning |-> FALSE, calls |-> <<>>,
     call |-> NoId, task |-> "none", tools |-> TRUE, prefix |-> FALSE, blocks |-> <<>>]

Parsed == (IF hasTools THEN <<ToolsMessage>> ELSE <<>>)
              \o [i \in 1 .. Len(sent) |-> ParsedMessage(sent[i], i)]

\* A part of the content, or a call or its arguments, is none the parser takes.
Malformed == \E i \in 1 .. Len(sent) : sent[i].malformed

Parse == /\ stage = "parse"
         /\ ~Malformed
         /\ conversation' = Parsed
         /\ stage' = IF encoder = "v32" THEN "forget" ELSE "merge"
         /\ UNCHANGED <<inputs, next, written, order, prompt, error>>

RefuseToParse == /\ stage = "parse"
                 /\ Malformed
                 /\ error' = "malformed"
                 /\ stage' = "done"
                 /\ UNCHANGED <<inputs, next, conversation, written, order, prompt>>

--------------------------------------------------------------------------------
(* merge_tool_messages *)

EndsWithUser(ms) == ms # <<>> /\ ms[Len(ms)].role = "user"
TextBlock(m)   == [type |-> "text", at |-> m.at, call |-> NoId]
ResultBlock(m) == [type |-> "result", at |-> m.at, call |-> m.call]

AppendBlock(ms, block) == [ms EXCEPT ![Len(ms)].blocks = Append(@, block)]

\* A user's text is not merged into a message with a task, a result is.
BugMerged(ms, m) ==
    CASE m.role = "tool" -> Append(ms, [m EXCEPT !.role = "user", !.blocks = <<ResultBlock(m)>>])
      [] OTHER -> Append(ms, m)
Merged(ms, m) ==
    CASE m.role = "tool" /\ EndsWithUser(ms) -> AppendBlock(ms, ResultBlock(m))
      [] m.role = "tool" /\ ~EndsWithUser(ms) ->
            Append(ms, [m EXCEPT !.role = "user", !.task = "none", !.call = NoId,
                                 !.blocks = <<ResultBlock(m)>>])
      [] m.role = "user" /\ EndsWithUser(ms) /\ ms[Len(ms)].task = "none" ->
            AppendBlock(ms, TextBlock(m))
      [] m.role = "user" /\ ~(EndsWithUser(ms) /\ ms[Len(ms)].task = "none") ->
            Append(ms, [m EXCEPT !.blocks = <<TextBlock(m)>>])
      [] OTHER -> Append(ms, m)

Merge == /\ stage = "merge"
         /\ next <= Len(conversation)
         /\ written' = Merged(written, conversation[next])
         /\ next' = next + 1
         /\ UNCHANGED <<inputs, stage, conversation, order, prompt, error>>

EndMerge == /\ stage = "merge"
            /\ next > Len(conversation)
            /\ conversation' = written
            /\ written' = <<>>
            /\ stage' = "sort"
            /\ next' = 1
            /\ UNCHANGED <<inputs, order, prompt, error>>

--------------------------------------------------------------------------------
(* sort_tool_results_by_call_order *)

\* The place of an id among the calls; the last one counts if it is there twice.
Place(id, calls) ==
    CHOOSE k \in 1 .. Len(calls) :
        calls[k] = id /\ \A l \in k + 1 .. Len(calls) : calls[l] # id

\* An id no call has comes with the first call.
Key(block, calls) ==
    IF block.call # NoId /\ \E k \in 1 .. Len(calls) : calls[k] = block.call
    THEN Place(block.call, calls) ELSE 1

Results(blocks) == {i \in 1 .. Len(blocks) : blocks[i].type = "result"}

\* The results before i in the message, and before i in the order of their keys.
Before(blocks, i) == {j \in Results(blocks) : j < i}
Ahead(blocks, calls, i) ==
    {j \in Results(blocks) :
        \/ Key(blocks[j], calls) < Key(blocks[i], calls)
        \/ Key(blocks[j], calls) = Key(blocks[i], calls) /\ j < i}

\* Texts stay where they are, the places of the results are filled in order.
BugSorted(blocks, calls) ==
    SelectSeq(blocks, LAMBDA b : b.type = "result")
        \o SelectSeq(blocks, LAMBDA b : b.type = "text")
Sorted(blocks, calls) ==
    [i \in 1 .. Len(blocks) |->
        IF i \in Results(blocks)
        THEN blocks[CHOOSE j \in Results(blocks) :
                        Cardinality(Ahead(blocks, calls, j)) = Cardinality(Before(blocks, i))]
        ELSE blocks[i]]

Sortable(m) == /\ m.role = "user"
               /\ Cardinality(Results(m.blocks)) > 1
               /\ \E k \in 1 .. Len(order) : order[k] # NoId

BugCallOrder(calls, m) == IF m.role = "assistant" THEN m.calls ELSE calls
CallOrder(calls, m) == IF m.role = "assistant" /\ m.calls # <<>> THEN m.calls ELSE calls

Sort == /\ stage = "sort"
        /\ next <= Len(conversation)
        /\ order' = CallOrder(order, conversation[next])
        /\ conversation' = IF Sortable(conversation[next])
                           THEN [conversation EXCEPT ![next].blocks = Sorted(@, order)]
                           ELSE conversation
        /\ next' = next + 1
        /\ UNCHANGED <<inputs, stage, written, prompt, error>>

EndSort == /\ stage = "sort"
           /\ next > Len(conversation)
           /\ stage' = "forget"
           /\ next' = 1
           /\ UNCHANGED <<inputs, conversation, written, order, prompt, error>>

--------------------------------------------------------------------------------
(* drop_thinking_messages *)

HasText(m) == \E k \in 1 .. Len(m.blocks) : m.blocks[k].type = "text"

\* V4.1: results alone do not begin a turn, a system message that is not the first does.
BeginsTurn(ms, i) ==
    IF encoder = "v41"
    THEN \/ ms[i].role = "user" /\ HasText(ms[i])
         \/ ms[i].role = "system" /\ i > 1
    ELSE ms[i].role \in {"user", "developer"}

\* find_last_user_index; 0 if there is none.
LastUser(ms) ==
    IF \E i \in 1 .. Len(ms) : BeginsTurn(ms, i)
    THEN CHOOSE i \in 1 .. Len(ms) :
            BeginsTurn(ms, i) /\ \A j \in i + 1 .. Len(ms) : ~BeginsTurn(ms, j)
    ELSE 0

\* Whether earlier reasoning is forgotten: V3.2 if the user has the last word, V4 and V4.1
\* if no message defines tools.
BugDrops(ms) == encoder # "v32" \/ (ms # <<>> /\ ms[Len(ms)].role = "user")
Drops(ms) == IF encoder = "v32"
             THEN ms # <<>> /\ ms[Len(ms)].role = "user"
             ELSE \A i \in 1 .. Len(ms) : ~ms[i].tools

KeptRoles == IF encoder = "v32" THEN {"user", "system", "tool"}
             ELSE {"user", "system", "tool", "latest_reminder"}

BugKept(ms, i) == ms[i].role \in KeptRoles \/ i > LastUser(ms)
Kept(ms, i) == ms[i].role \in KeptRoles \/ i >= LastUser(ms)

\* Of what is not kept, an assistant's message remains without its reasoning.
Remaining(ms, i) ==
    IF Kept(ms, i) THEN <<ms[i]>>
    ELSE IF ms[i].role = "assistant" THEN <<[ms[i] EXCEPT !.reasoning = FALSE]>>
    ELSE <<>>

Forgets == thinking /\ Drops(conversation)

Forget == /\ stage = "forget"
          /\ Forgets
          /\ next <= Len(conversation)
          /\ written' = written \o Remaining(conversation, next)
          /\ next' = next + 1
          /\ UNCHANGED <<inputs, stage, conversation, order, prompt, error>>

EndForget == /\ stage = "forget"
             /\ Forgets => next > Len(conversation)
             /\ conversation' = IF Forgets THEN written ELSE conversation
             /\ written' = <<>>
             /\ stage' = "render"
             /\ next' = 1
             /\ UNCHANGED <<inputs, order, prompt, error>>

--------------------------------------------------------------------------------
(* render_message of V4 and V4.1 *)

Mode == IF thinking THEN "think" ELSE "endthink"

AfterTask(ms, i) == i > 1 /\ ms[i - 1].task # "none"

\* Reasoning is written even when there is none, and closed.
ReasoningChunks(m) == (IF m.reasoning THEN <<C("reasoning", m)>> ELSE <<>>) \o <<C("endthink", m)>>

CallChunks(m) == IF m.calls = <<>> THEN <<>> ELSE <<C("calls", m)>>

Body(ms, i) ==
    LET m == ms[i]
    IN CASE m.role = "user" ->
              [k \in 1 .. Len(m.blocks) |-> [kind |-> m.blocks[k].type, at |-> m.blocks[k].at]]
         [] m.role = "assistant" ->
              (IF /\ thinking /\ ~AfterTask(ms, i)
                  /\ ~Drops(ms) \/ i > LastUser(ms)
               THEN ReasoningChunks(m) ELSE <<>>)
              \o <<C("content", m)>> \o CallChunks(m)
         [] m.role = "latest_reminder" -> <<C("reminder", m)>>
         [] m.role \in {"system", "developer"} -> <<C(m.role, m)>>

\* What comes next is not an answer: nothing is appended.
Continued(ms, i) ==
    i < Len(ms) /\ ms[i + 1].role \notin {"assistant", "latest_reminder"}

AsksForAnswer(ms, i) ==
    IF encoder = "v41" THEN ms[i].role = "user" \/ (ms[i].role = "system" /\ i > 1)
    ELSE ms[i].role \in {"user", "developer"}

BugTransition(ms, i) ==
    LET m == ms[i]
    IN CASE Continued(ms, i) -> <<>>
         [] ~Continued(ms, i) /\ m.task = "none" /\ AsksForAnswer(ms, i) ->
              <<C("Assistant", m),
                C(IF thinking /\ (~Drops(ms) \/ i > LastUser(ms))
                  THEN "think" ELSE "endthink", m)>>
         [] OTHER -> <<>>
Transition(ms, i) ==
    LET m == ms[i]
    IN CASE Continued(ms, i) -> <<>>
         [] ~Continued(ms, i) /\ m.task = "action" ->
              <<C("Assistant", m), C(Mode, m), C("task", m)>>
         [] ~Continued(ms, i) /\ m.task = "query" -> <<C("task", m)>>
         [] ~Continued(ms, i) /\ m.task = "none" /\ AsksForAnswer(ms, i) ->
              <<C("Assistant", m),
                C(IF thinking /\ (~Drops(ms) \/ i >= LastUser(ms))
                  THEN "think" ELSE "endthink", m)>>
         [] OTHER -> <<>>

\* V4.1 knows no developer.
Refusal(ms, i) ==
    CASE ms[i].role = "other" -> "role"
      [] ms[i].role = "developer" /\ encoder = "v41" -> "role"
      [] ms[i].role = "developer" /\ encoder = "v4" /\ ms[i].empty -> "developer"
      [] ~Continued(ms, i) /\ ms[i].task = "odd" -> "task"
      [] OTHER -> "none"

--------------------------------------------------------------------------------
(* render_message of V3.2 *)

\* The message the results up to i belong to; 0 if they begin the conversation.
Caller(ms, i) ==
    IF \E j \in 1 .. i - 1 : ms[j].role # "tool"
    THEN CHOOSE j \in 1 .. i - 1 :
            ms[j].role # "tool" /\ \A k \in j + 1 .. i - 1 : ms[k].role = "tool"
    ELSE 0

\* messages[-1] is the last message.
CallsFor(ms, i) == LET j == Caller(ms, i) IN ms[IF j = 0 THEN Len(ms) ELSE j].calls

BodyV32(ms, i) ==
    LET m == ms[i]
        mode == C(IF thinking /\ i = LastUser(ms) THEN "think" ELSE "endthink", m)
        nth == i - Caller(ms, i)
    IN CASE m.role = "system" -> <<C("system", m)>>
         [] m.role = "developer" -> <<C("developer", m), C("Assistant", m), mode>>
         [] m.role = "user" -> <<C("text", m), C("Assistant", m), mode>>
         [] m.role = "tool" ->
              (IF nth = 1 THEN <<C("results", m)>> ELSE <<>>)
              \o <<C("result", m)>>
              \o (IF nth = Len(CallsFor(ms, i))
                  THEN <<C("endresults", m),
                         C(IF thinking /\ i >= LastUser(ms) THEN "think" ELSE "endthink", m)>>
                  ELSE <<>>)
         [] m.role = "assistant" ->
              IF m.calls = <<>> /\ m.prefix THEN <<C("content", m)>>
              ELSE (IF thinking /\ i > LastUser(ms) THEN ReasoningChunks(m) ELSE <<>>)
                   \o <<C("content", m)>> \o CallChunks(m)

RefusalV32(ms, i) ==
    LET m == ms[i]  j == Caller(ms, i)
    IN CASE m.role \in {"other", "latest_reminder"} -> "role"
         [] m.role = "developer" /\ m.empty -> "developer"
         [] m.role = "tool" /\ i # 1 /\ (j = 0 \/ ms[j].role # "assistant") -> "order"
         [] m.role = "tool" /\ Len(CallsFor(ms, i)) < i - j -> "order"
         [] /\ m.role = "assistant" /\ thinking /\ i > LastUser(ms)
            /\ ~m.reasoning /\ m.calls = <<>> -> "reasoning"
         [] OTHER -> "none"

--------------------------------------------------------------------------------
(* encode_messages *)

\* V3.2 renders as many messages as it was given, the others as many as are left.
Rounds == IF encoder = "v32" THEN Len(Parsed) ELSE Len(conversation)

RefusalOf(ms, i) == IF i > Len(ms) THEN "range"
                    ELSE IF encoder = "v32" THEN RefusalV32(ms, i) ELSE Refusal(ms, i)

Rendered(ms, i) == IF encoder = "v32" THEN BodyV32(ms, i)
                  ELSE Body(ms, i) \o Transition(ms, i)

Render == /\ stage = "render"
          /\ next <= Rounds
          /\ RefusalOf(conversation, next) = "none"
          /\ prompt' = prompt \o Rendered(conversation, next)
          /\ next' = next + 1
          /\ UNCHANGED <<inputs, stage, conversation, written, order, error>>

Raise == /\ stage = "render"
         /\ next <= Rounds
         /\ RefusalOf(conversation, next) # "none"
         /\ error' = RefusalOf(conversation, next)
         /\ stage' = "done"
         /\ UNCHANGED <<inputs, next, conversation, written, order, prompt>>

EndRender == /\ stage = "render"
             /\ next > Rounds
             /\ stage' = "done"
             /\ UNCHANGED <<inputs, next, conversation, written, order, prompt, error>>

Next == \/ Parse \/ RefuseToParse
        \/ Merge \/ EndMerge
        \/ Sort \/ EndSort
        \/ Forget \/ EndForget
        \/ Render \/ Raise \/ EndRender

Spec == Init /\ [][Next]_vars

--------------------------------------------------------------------------------
(* Properties. *)

Stages == {"parse", "merge", "sort", "forget", "render", "done"}

\* Messages keep their shape through every pass; after merging there are no results but
\* in the blocks of users, and every user has blocks.
TypeOK ==
    /\ sent \in Seq(Message)
    /\ hasTools \in BOOLEAN /\ thinking \in BOOLEAN /\ encoder \in Encoders
    /\ stage \in Stages
    /\ next \in Nat \ {0}
    /\ conversation \in Seq(Turn) /\ written \in Seq(Turn)
    /\ order \in Seq(Ids)
    /\ prompt \in Seq(Chunk)
    /\ error \in {"none", "malformed", "role", "developer", "task", "order", "reasoning", "range"}
    /\ encoder # "v32" /\ stage \in {"sort", "forget", "render"} =>
          \A i \in 1 .. Len(conversation) :
             /\ conversation[i].role # "tool"
             /\ conversation[i].role = "user" => conversation[i].blocks # <<>>

Encoded == stage = "done" /\ error = "none"

\* What the encoders should make of a request, said of the request itself.
\* The message that begins the last turn; with V4 a result begins one, too.
Turns(i) ==
    LET role == sent[i].role
    IN CASE encoder = "v32" -> role \in {"user", "developer"}
         [] encoder = "v4" -> role \in {"user", "developer", "tool"}
         [] encoder = "v41" -> role = "user" \/ (role = "system" /\ (i > 1 \/ hasTools))

InLastTurn(i) == \A j \in i + 1 .. Len(sent) : ~Turns(j)

\* Whether the encoder forgets what is before the last turn.
IsForgetful ==
    /\ thinking
    /\ IF encoder = "v32" THEN sent # <<>> /\ sent[Len(sent)].role = "user"
       ELSE ~hasTools /\ \A i \in 1 .. Len(sent) : ~(sent[i].role = "developer" /\ sent[i].tools)

Forgotten(i) ==
    /\ IsForgetful /\ ~InLastTurn(i)
    /\ \/ sent[i].role \in {"developer", "other"}
       \/ sent[i].role = "latest_reminder" /\ encoder = "v32"

Pieces(p) == Cardinality({q \in 1 .. p : prompt[q].kind \in Contents /\ prompt[q].at > 0})

\* Every message of the conversation is in a prompt once, but for the developer messages
\* (and those with an unknown role) that a thinking model forgets with the earlier
\* turns: nothing is counted twice or gets lost on the way through merging and sorting.
EveryMessageOnce ==
    Encoded =>
        \A i \in 1 .. Len(sent) :
            Cardinality({p \in 1 .. Len(prompt) : prompt[p].kind \in Contents /\ prompt[p].at = i})
                = IF Forgotten(i) THEN 0 ELSE 1

\* A message that is no result stands in the prompt where it stood in the conversation:
\* sorting results moves nothing else (deepseek_v4_encoding.py:483-492).
OnlyResultsMove ==
    Encoded =>
        \A p \in 1 .. Len(prompt) :
            prompt[p].kind \in Contents \ {"result"} /\ prompt[p].at > 0 =>
                Pieces(p) = Cardinality({i \in 1 .. prompt[p].at : ~Forgotten(i)})

\* The last calls up to message i are those of message j.
HasCalls(j) == sent[j].role = "assistant" /\ sent[j].calls # <<>>
AreLastCalls(j, i) == j \in 1 .. i /\ HasCalls(j) /\ \A l \in j + 1 .. i : ~HasCalls(l)

\* There are only users' texts and results from i to k, and no task since j.
AreTogether(j, i, k) ==
    /\ \A l \in (i .. k) \cup (k .. i) : sent[l].role \in {"tool", "user"}
    /\ \A l \in (j .. i) \cup (j .. k) : sent[l].task = "none"

\* Result i says that it is that of call a of message j.
Answers(j, a, i) ==
    /\ sent[i].call # NoId
    /\ \A l \in 1 .. Len(sent[j].calls) : sent[j].calls[l] = sent[i].call <=> l = a

\* Results that come after the same calls, with only users' texts and other results
\* between them and no task since the calls, are in the order of the calls, if they say
\* which call they answer (V4 and V4.1; V3.2 leaves them as they are).
ResultsInCallOrder ==
    Encoded /\ encoder # "v32" =>
        \A p, q \in 1 .. Len(prompt) :
            prompt[p].kind = "result" /\ prompt[q].kind = "result" =>
                \A j \in 1 .. Len(sent) :
                    /\ AreLastCalls(j, prompt[p].at)
                    /\ AreTogether(j, prompt[p].at, prompt[q].at)
                    => \A a, b \in 1 .. Len(sent[j].calls) :
                          Answers(j, a, prompt[p].at) /\ Answers(j, b, prompt[q].at) /\ a < b
                              => p < q

\* Each answer follows what it answers: a user, a developer, results (for V3.2 as many
\* as there were calls), with V4.1 also a system message; V3.2 has system messages first.
\* A reminder does not follow what an answer is due to: V4 and V4.1 open the answer before it.
\* The encoder knows all roles: forgetting an unknown one can make a system message the first.
WellFormed ==
    /\ \A i \in 1 .. Len(sent) : sent[i].task = "none" /\ ~sent[i].prefix
    /\ \A i \in 1 .. Len(sent) : sent[i].role # "other"
    /\ \A i \in 1 .. Len(sent) : encoder = "v41" => sent[i].role # "developer"
    /\ \A i \in 2 .. Len(sent) : sent[i].role = "latest_reminder" =>
                                  sent[i - 1].role \in {"assistant", "latest_reminder"}
    /\ encoder = "v32" => \A i \in 2 .. Len(sent) :
                              sent[i].role = "system" => sent[i - 1].role = "system"
    /\ \A i \in 1 .. Len(sent) :
         sent[i].role = "assistant" =>
            /\ i > 1
            /\ \/ sent[i - 1].role \in {"user", "developer"}
               \/ encoder # "v32" /\ sent[i - 1].role = "tool"
               \/ encoder = "v41" /\ sent[i - 1].role = "system" /\ i > 2
               \/ /\ encoder = "v32"
                  /\ \E j \in 1 .. i - 2 :
                        /\ sent[j].role = "assistant" /\ Len(sent[j].calls) = i - 1 - j
                        /\ \A k \in j + 1 .. i - 1 : sent[k].role = "tool"

\* The token that opens reasoning and the reasoning after it are decided at different
\* messages, by an index each; in a well-formed conversation they agree: what is opened
\* is closed at once or is the end of the prompt, and there is no reasoning outside.
ThinkingIsClosed ==
    Encoded /\ WellFormed =>
        \A p \in 1 .. Len(prompt) :
            /\ prompt[p].kind = "think" /\ p < Len(prompt) =>
                  \/ prompt[p + 1].kind = "endthink"
                  \/ prompt[p + 1].kind = "reasoning" /\ prompt[p + 2].kind = "endthink"
            /\ prompt[p].kind = "reasoning" => p > 1 /\ prompt[p - 1].kind = "think"

\* The reasoning of an answer is in the prompt if the model thinks and the answer belongs
\* to the last turn or, with V4 and V4.1, tools are defined, and not otherwise.
ReasoningOfTheLastTurn ==
    Encoded /\ (\A i \in 1 .. Len(sent) : sent[i].task = "none" /\ ~sent[i].prefix) =>
        \A i \in 1 .. Len(sent) :
            (\E p \in 1 .. Len(prompt) : prompt[p] = [kind |-> "reasoning", at |-> i])
            <=> /\ thinking
                /\ sent[i].role = "assistant" /\ sent[i].reasoning
                /\ InLastTurn(i) \/ (encoder # "v32" /\ ~IsForgetful)

\* An encoder renders the messages there are: the check at the head of V3.2's
\* render_message (deepseek_v32_encoding.py:124) never fails.
IndexInRange == error # "range"
================================================================================
