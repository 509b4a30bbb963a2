--------------------------- MODULE DeepSeekProofs ---------------------------
(***************************************************************************)
(* Proofs about DeepSeekEncodings, for any conversations, of any length.   *)
(*                                                                         *)
(* The properties speak of the finished prompt; the invariant follows the  *)
(* messages of the request through the passes.  A piece of the prompt is   *)
(* known by the number of its message; the operators take the request as   *)
(* an argument, because it does not change.                                *)
(***************************************************************************)
EXTENDS DeepSeekEncodings, OrderLemmas, SequenceTheorems, FiniteSetTheorems, TLAPS

--------------------------------------------------------------------------------
(***************************************************************************)
(* The inductive invariant                                                 *)
(***************************************************************************)
First(h) == IF h THEN 0 ELSE 1

\* What the parser makes of message a; 0 is the system message with the tools.
Original(s, a) == IF a = 0 THEN ToolsMessage ELSE ParsedMessage(s[a], a)

\* Whether turn t brings message a into the prompt.
IsMerged(e, t) == e # "v32" /\ t.role = "user"
Has(e, t, a) ==
    IF IsMerged(e, t) THEN \E k \in 1 .. Len(t.blocks) : t.blocks[k].at = a ELSE t.at = a

BlockFits(s, b) ==
    /\ b.at \in 1 .. Len(s)
    /\ s[b.at].role = IF b.type = "text" THEN "user" ELSE "tool"
    /\ b.type = "result" => b.call = s[b.at].call

\* The last message merged into turn t.
Last(t) == t.at + Len(t.blocks) - 1

\* The blocks of a user are users' texts and results, from message t.at on each message
\* once; a text is at its place.
BlocksFit(s, t) ==
    /\ t.at <= Last(t)
    /\ \A k \in 1 .. Len(t.blocks) :
          /\ BlockFits(s, t.blocks[k])
          /\ t.blocks[k].at \in t.at .. Last(t)
          /\ t.blocks[k].type = "text" => t.blocks[k].at = t.at + k - 1
    /\ \A k, l \in 1 .. Len(t.blocks) : t.blocks[k].at = t.blocks[l].at => k = l
    /\ \A a \in t.at .. Last(t) : \E k \in 1 .. Len(t.blocks) : t.blocks[k].at = a

TurnFits(s, h, e, t) ==
    /\ t.at \in First(h) .. Len(s)
    /\ IsMerged(e, t) =>
          /\ ~t.tools /\ ~t.reasoning /\ t.calls = <<>>
          /\ t.task \in {"none", Original(s, t.at).task}
          /\ BlocksFit(s, t)
    /\ ~IsMerged(e, t) =>
          /\ t.role = "tool" => e = "v32"
          /\ \E r \in BOOLEAN : t = [Original(s, t.at) EXCEPT !.reasoning = r]
          /\ t.reasoning => Original(s, t.at).reasoning

\* Turns are made of messages of the request and stand in their order.
Line(s, h, e, ms) ==
    /\ \A i \in 1 .. Len(ms) : TurnFits(s, h, e, ms[i])
    /\ \A i, j \in 1 .. Len(ms) : i < j =>
          \A a \in 0 .. Len(s) : Has(e, ms[i], a) => a < ms[j].at

\* The turns up to n bring message a into the prompt.
Reaches(e, ms, n, a) == \E i \in 1 .. n : Has(e, ms[i], a)

\* Message a is left out; that of the tools never is.
Gone(a) == a > 0 /\ Forgotten(a)

MergeInv ==
    /\ conversation = Parsed
    /\ next <= Len(Parsed) + 1
    /\ Line(sent, hasTools, encoder, written)
    /\ \A a \in First(hasTools) .. Len(sent) :
          Reaches(encoder, written, Len(written), a) <=> a < next - 1 + First(hasTools)
    /\ \A i \in 1 .. Len(written) : written[i].at < next - 1 + First(hasTools)

WholeInv ==
    /\ Line(sent, hasTools, encoder, conversation)
    /\ \A a \in First(hasTools) .. Len(sent) :
          Reaches(encoder, conversation, Len(conversation), a)

\* The pass has come to message next and has left out what is forgotten.
ForgetInv ==
    /\ encoder = "v32" => conversation = Parsed
    /\ next <= Len(conversation) + 1
    /\ ~Forgets => next = 1
    /\ Line(sent, hasTools, encoder, written)
    /\ \A a \in First(hasTools) .. Len(sent) :
          Reaches(encoder, written, Len(written), a)
          <=> Reaches(encoder, conversation, next - 1, a) /\ ~Gone(a)
    /\ Len(written) <= next - 1
    /\ encoder = "v32" /\ (\E i \in 1 .. next - 1 : Gone(conversation[i].at)) =>
          Len(written) < next - 1

\* What the encoder renders.
LeftInv ==
    /\ Line(sent, hasTools, encoder, conversation)
    /\ \A a \in First(hasTools) .. Len(sent) :
          Reaches(encoder, conversation, Len(conversation), a) <=> ~Gone(a)
    /\ encoder = "v32" =>
          /\ Len(conversation) <= Len(Parsed)
          /\ (\E a \in 1 .. Len(sent) : Gone(a)) => Len(conversation) < Len(Parsed)

\* Of the messages, the chunks w have those of A, each once.
Tells(w, A) ==
    /\ w \in Seq(Chunk)
    /\ \A p \in 1 .. Len(w) : w[p].kind \in Contents => w[p].at \in A
    /\ \A a \in A : \E p \in 1 .. Len(w) : w[p].kind \in Contents /\ w[p].at = a
    /\ \A p, q \in 1 .. Len(w) :
          w[p].kind \in Contents /\ w[q].kind \in Contents /\ w[p].at = w[q].at => p = q

Reached(n) == {a \in First(hasTools) .. Len(sent) : Reaches(encoder, conversation, n, a)}

PromptInv ==
    /\ next <= Len(conversation) + 1
    /\ Tells(prompt, Reached(next - 1))
    /\ stage = "done" /\ error = "none" => next > Rounds

Rendering == stage \in {"render", "done"} /\ error # "malformed"

IInv ==
    /\ TypeOK
    /\ stage # "done" => error = "none"
    /\ stage = "parse" => next = 1 /\ written = <<>> /\ prompt = <<>>
    /\ stage \in {"merge", "sort"} => encoder # "v32"
    /\ stage \in {"merge", "sort", "forget"} => prompt = <<>>
    /\ stage = "merge" => MergeInv
    /\ stage = "sort" => WholeInv /\ written = <<>>
    /\ stage = "forget" => WholeInv /\ ForgetInv
    /\ Rendering => LeftInv /\ PromptInv

--------------------------------------------------------------------------------
(***************************************************************************)
(* Sorting                                                                 *)
(***************************************************************************)
\* How blocks are sorted: results change places with results, each has one place, and
\* a result of an earlier call comes first.
Permutes(f, blocks, calls) ==
    /\ \A i, j \in 1 .. Len(blocks) : f[i] = f[j] => i = j
    /\ \A j \in 1 .. Len(blocks) : \E i \in 1 .. Len(blocks) : f[i] = j
    /\ \A i \in 1 .. Len(blocks) :
          /\ Sorted(blocks, calls)[i] = blocks[f[i]]
          /\ IF i \in Results(blocks) THEN f[i] \in Results(blocks) ELSE f[i] = i
    /\ \A i, j \in Results(blocks) : i < j => f[i] \in Ahead(blocks, calls, f[j])

LEMMA KeyType ==
    ASSUME NEW block, NEW calls \in Seq(Ids)
    PROVE  Key(block, calls) \in Nat
<1>. DEFINE At == {k \in 1 .. Len(calls) : calls[k] = block.call}
<1>1. CASE block.call # NoId /\ \E k \in 1 .. Len(calls) : calls[k] = block.call
  <2>1. PICK k \in At : \A l \in At : l <= k
    <3>1. Len(calls) \in Nat /\ At \in SUBSET (1 .. Len(calls)) /\ At # {}
      BY <1>1
    <3>. HIDE DEF At
    <3>. QED
      BY <3>1, LastOfNumbers
  <2>2. calls[k] = block.call /\ \A l \in k + 1 .. Len(calls) : calls[l] # block.call
    BY <2>1
  <2>3. Place(block.call, calls) \in 1 .. Len(calls)
    BY <2>1, <2>2 DEF Place
  <2>. QED
    BY <1>1, <2>3 DEF Key
<1>2. CASE ~(block.call # NoId /\ \E k \in 1 .. Len(calls) : calls[k] = block.call)
  BY <1>2 DEF Key
<1>. QED
  BY <1>1, <1>2

LEMMA SortedPermutes ==
    ASSUME NEW blocks \in Seq(Block), NEW calls \in Seq(Ids)
    PROVE  /\ Sorted(blocks, calls) \in Seq(Block)
           /\ Len(Sorted(blocks, calls)) = Len(blocks)
           /\ \E f \in [1 .. Len(blocks) -> 1 .. Len(blocks)] : Permutes(f, blocks, calls)
<1>. DEFINE R == Results(blocks)
            n == Len(blocks)
            before == [i \in R |-> Before(blocks, i)]
            ahead == [i \in R |-> Ahead(blocks, calls, i)]
<1>1. n \in Nat /\ IsFiniteSet(R) /\ R \subseteq 1 .. n
  <2>1. n \in Nat /\ IsFiniteSet(1 .. n)
    BY FS_Interval
  <2>2. R \in SUBSET (1 .. n)
    BY DEF Results
  <2>. QED
    BY <2>1, <2>2, FS_Subset
<1>2. \A i \in R : Key(blocks[i], calls) \in Nat
  BY KeyType
<1>3. /\ \A i \in R : Cardinality(before[i]) \in 0 .. Cardinality(R) - 1
      /\ \A i, j \in R : j \in before[i] => Cardinality(before[j]) < Cardinality(before[i])
      /\ \A m \in 0 .. Cardinality(R) - 1 : \E i \in R : Cardinality(before[i]) = m
  <2>1. /\ before \in [R -> SUBSET R]
        /\ \A i \in R : i \notin before[i]
        /\ \A i, j \in R : i # j => i \in before[j] \/ j \in before[i]
        /\ \A i, j \in R : j \in before[i] => before[j] \subseteq before[i]
    BY <1>1 DEF Before
  <2>. HIDE DEF before, R
  <2>. QED
    BY <1>1, <2>1, RanksAreReached
<1>4. /\ \A i \in R : Cardinality(ahead[i]) \in 0 .. Cardinality(R) - 1
      /\ \A i, j \in R : j \in ahead[i] => Cardinality(ahead[j]) < Cardinality(ahead[i])
      /\ \A m \in 0 .. Cardinality(R) - 1 : \E i \in R : Cardinality(ahead[i]) = m
      /\ \A i \in R : i \notin ahead[i]
      /\ \A i, j \in R : i # j => i \in ahead[j] \/ j \in ahead[i]
  <2>1. /\ ahead \in [R -> SUBSET R]
        /\ \A i \in R : i \notin ahead[i]
        /\ \A i, j \in R : i # j => i \in ahead[j] \/ j \in ahead[i]
        /\ \A i, j \in R : j \in ahead[i] => ahead[j] \subseteq ahead[i]
    BY <1>1, <1>2 DEF Ahead
  <2>. HIDE DEF ahead, R
  <2>. QED
    BY <1>1, <2>1, RanksAreReached
<1>. DEFINE Taken(i) == CHOOSE j \in Results(blocks) :
                            Cardinality(Ahead(blocks, calls, j)) = Cardinality(Before(blocks, i))
            f == [i \in 1 .. n |-> IF i \in R THEN Taken(i) ELSE i]
<1>5. \A i \in R : Taken(i) \in R /\ Cardinality(ahead[Taken(i)]) = Cardinality(before[i])
  <2>. SUFFICES ASSUME NEW i \in R
                PROVE  Taken(i) \in R /\ Cardinality(ahead[Taken(i)]) = Cardinality(before[i])
    OBVIOUS
  <2>1. \E j \in R : Cardinality(ahead[j]) = Cardinality(before[i])
    <3>. HIDE DEF ahead, before, R
    <3>. QED
      BY <1>3, <1>4
  <2>2. \E j \in R : Cardinality(Ahead(blocks, calls, j)) = Cardinality(Before(blocks, i))
    BY <2>1
  <2>3. Taken(i) \in R /\ Cardinality(Ahead(blocks, calls, Taken(i))) = Cardinality(Before(blocks, i))
    BY <2>2
  <2>. HIDE DEF Taken
  <2>. QED
    BY <2>3
<1>6. \A i \in 1 .. n : /\ f[i] \in 1 .. n
                        /\ i \in R => f[i] \in R /\ Cardinality(ahead[f[i]]) = Cardinality(before[i])
                        /\ i \notin R => f[i] = i
  <2>. HIDE DEF Taken, R, ahead, before
  <2>. QED
    BY <1>1, <1>5
<1>7. \A i \in 1 .. n : Sorted(blocks, calls)[i] = blocks[f[i]]
  BY DEF Sorted
<1>8. f \in [1 .. n -> 1 .. n]
  BY <1>6
<1>9. Sorted(blocks, calls) \in Seq(Block) /\ Len(Sorted(blocks, calls)) = n
  <2>1. ASSUME NEW i \in 1 .. n PROVE Sorted(blocks, calls)[i] \in Block
    <3>1. f[i] \in 1 .. n /\ Sorted(blocks, calls)[i] = blocks[f[i]]
      BY <1>6, <1>7
    <3>. HIDE DEF f
    <3>. QED
      BY <3>1
  <2>2. /\ DOMAIN Sorted(blocks, calls) = 1 .. n
        /\ Sorted(blocks, calls) = [i \in 1 .. n |-> Sorted(blocks, calls)[i]]
    BY DEF Sorted
  <2>. QED
    BY <1>1, <2>1, <2>2
<1>. HIDE DEF f, Taken, ahead, before, R
<1>10. ASSUME NEW i \in R, NEW j \in R, i < j
       PROVE  f[i] \in ahead[f[j]]
  <2>1. i \in before[j]
    BY <1>10, <1>1 DEF Before, before, R
  <2>2. Cardinality(before[i]) < Cardinality(before[j])
    BY <1>3, <2>1
  <2>3. f[i] \in R /\ f[j] \in R /\ Cardinality(ahead[f[i]]) < Cardinality(ahead[f[j]])
    BY <1>1, <1>6, <2>2
  <2>4. f[i] # f[j] /\ f[j] \notin ahead[f[i]]
    <3>1. Cardinality(ahead[f[i]]) \in Int /\ Cardinality(ahead[f[j]]) \in Int
      BY <1>4, <2>3
    <3>2. f[j] \in ahead[f[i]] => Cardinality(ahead[f[j]]) < Cardinality(ahead[f[i]])
      BY <1>4, <2>3
    <3>. QED
      BY <2>3, <3>1, <3>2
  <2>. QED
    BY <1>4, <2>3, <2>4
<1>11. ASSUME NEW i \in 1 .. n, NEW j \in 1 .. n, f[i] = f[j] PROVE i = j
  <2>1. ASSUME NEW k \in R, NEW l \in R, k < l PROVE f[k] # f[l]
    <3>1. f[k] \in ahead[f[l]] /\ f[l] \in R
      BY <1>1, <1>6, <1>10, <2>1
    <3>2. f[l] \notin ahead[f[l]]
      BY <1>4, <3>1
    <3>. QED
      BY <3>1, <3>2
  <2>2. CASE i \in R /\ j \in R
    <3>1. i \in Nat /\ j \in Nat
      OBVIOUS
    <3>2. ~(i < j) /\ ~(j < i)
      BY <1>11, <2>1, <2>2
    <3>. QED
      BY <3>1, <3>2
  <2>3. CASE ~(i \in R /\ j \in R)
    BY <1>6, <1>11, <2>3
  <2>. QED
    BY <2>2, <2>3
<1>12. ASSUME NEW j \in 1 .. n PROVE \E i \in 1 .. n : f[i] = j
  <2>1. CASE j \in R
    <3>1. PICK i \in R : Cardinality(before[i]) = Cardinality(ahead[j])
      BY <1>3, <1>4, <2>1
    <3>2. f[i] \in R /\ Cardinality(ahead[f[i]]) = Cardinality(ahead[j])
      BY <1>1, <1>6, <3>1
    <3>3. Cardinality(ahead[f[i]]) \in Int /\ Cardinality(ahead[j]) \in Int
      BY <1>4, <2>1, <3>2
    <3>4. f[i] # j => f[i] \in ahead[j] \/ j \in ahead[f[i]]
      BY <1>4, <2>1, <3>2
    <3>5. f[i] \in ahead[j] => Cardinality(ahead[f[i]]) < Cardinality(ahead[j])
      BY <1>4, <2>1, <3>2
    <3>6. j \in ahead[f[i]] => Cardinality(ahead[j]) < Cardinality(ahead[f[i]])
      BY <1>4, <2>1, <3>2
    <3>7. f[i] = j
      BY <3>2, <3>3, <3>4, <3>5, <3>6
    <3>. QED
      BY <1>1, <3>1, <3>7
  <2>2. CASE j \notin R
    BY <1>6, <2>2
  <2>. QED
    BY <2>1, <2>2
<1>13. Permutes(f, blocks, calls)
  <2>1. \A i, j \in R : i < j => f[i] \in Ahead(blocks, calls, f[j])
    <3>1. \A i \in R : ahead[i] = Ahead(blocks, calls, i) /\ f[i] \in R
      BY <1>1, <1>6 DEF ahead
    <3>. QED
      BY <1>10, <3>1
  <2>. QED
    BY <1>6, <1>7, <1>11, <1>12, <2>1 DEF Permutes, R
<1>. QED
  BY <1>8, <1>9, <1>13

--------------------------------------------------------------------------------
(***************************************************************************)
(* Parsing and merging                                                     *)
(***************************************************************************)
LEMMA TurnFields ==
    ASSUME NEW t \in Turn
    PROVE  /\ t.role \in Roles /\ t.at \in Nat /\ t.blocks \in Seq(Block) /\ t.calls \in Seq(Ids)
           /\ t.task \in Tasks /\ t.call \in Ids
           /\ t.reasoning \in BOOLEAN /\ t.tools \in BOOLEAN /\ t.empty \in BOOLEAN
BY DEF Turn

LEMMA OriginalFacts ==
    ASSUME NEW s \in Seq(Message), NEW a \in 0 .. Len(s)
    PROVE  /\ Original(s, a) \in Turn
           /\ Original(s, a).at = a
           /\ Original(s, a).blocks = <<>>
           /\ a = 0 => Original(s, a).role = "system"
           /\ a > 0 => Original(s, a).role = s[a].role
           /\ Original(s, a).role = "tool" => a > 0 /\ Original(s, a).call = s[a].call
           /\ Original(s, a).role # "assistant" =>
                 ~Original(s, a).reasoning /\ Original(s, a).calls = <<>>
           /\ Original(s, a).tools <=> a = 0 \/ (s[a].role = "developer" /\ s[a].tools)
<1>1. CASE a = 0
  BY <1>1 DEF Original, ToolsMessage, Turn, Ids, Roles, Tasks
<1>2. CASE a > 0
  <2>1. a \in 1 .. Len(s) /\ s[a] \in Message
    BY <1>2
  <2>2. Original(s, a) = ParsedMessage(s[a], a)
    BY <1>2 DEF Original
  <2>3. /\ ParsedMessage(s[a], a).at = a /\ ParsedMessage(s[a], a).blocks = <<>>
        /\ ParsedMessage(s[a], a).role = s[a].role
        /\ s[a].role = "tool" => ParsedMessage(s[a], a).call = s[a].call
        /\ s[a].role # "assistant" => ~ParsedMessage(s[a], a).reasoning
                                      /\ ParsedMessage(s[a], a).calls = <<>>
        /\ ParsedMessage(s[a], a).tools <=> s[a].role = "developer" /\ s[a].tools
    BY <2>1 DEF ParsedMessage, Message
  <2>4. ParsedMessage(s[a], a) \in Turn
    BY <2>1 DEF ParsedMessage, Message, Turn, Ids
  <2>. QED
    BY <1>2, <2>2, <2>3, <2>4
<1>. QED
  BY <1>1, <1>2

LEMMA ParsedFacts ==
    ASSUME sent \in Seq(Message), hasTools \in BOOLEAN
    PROVE  /\ Parsed \in Seq(Turn)
           /\ Len(Parsed) = Len(sent) + 1 - First(hasTools)
           /\ \A k \in 1 .. Len(Parsed) :
                 /\ k - 1 + First(hasTools) \in First(hasTools) .. Len(sent)
                 /\ Parsed[k] = Original(sent, k - 1 + First(hasTools))
<1>. DEFINE messages == [i \in 1 .. Len(sent) |-> ParsedMessage(sent[i], i)]
            tools == IF hasTools THEN <<ToolsMessage>> ELSE <<>>
<1>1. Len(sent) \in Nat
  OBVIOUS
<1>2. \A i \in 1 .. Len(sent) : ParsedMessage(sent[i], i) = Original(sent, i)
  BY <1>1 DEF Original
<1>3. \A i \in 1 .. Len(sent) : messages[i] = Original(sent, i) /\ messages[i] \in Turn
  BY <1>1, <1>2, OriginalFacts
<1>4. messages \in Seq(Turn) /\ Len(messages) = Len(sent)
  BY <1>1, <1>3
<1>5. Original(sent, 0) = ToolsMessage /\ ToolsMessage \in Turn
  BY <1>1, OriginalFacts DEF Original
<1>6. tools \in Seq(Turn) /\ Len(tools) = 1 - First(hasTools) /\ (hasTools => tools[1] = ToolsMessage)
  BY <1>5 DEF First
<1>7. Parsed = tools \o messages
  BY DEF Parsed
<1>. HIDE DEF messages, tools
<1>8. /\ Parsed \in Seq(Turn)
      /\ Len(Parsed) = Len(tools) + Len(messages)
      /\ \A k \in 1 .. Len(Parsed) :
            Parsed[k] = IF k <= Len(tools) THEN tools[k] ELSE messages[k - Len(tools)]
  BY <1>4, <1>6, <1>7, ConcatProperties
<1>9. ASSUME NEW k \in 1 .. Len(Parsed)
      PROVE  Parsed[k] = Original(sent, k - 1 + First(hasTools))
  <2>1. CASE hasTools /\ k = 1
    BY <1>5, <1>6, <1>8, <2>1 DEF First
  <2>2. CASE hasTools /\ k # 1
    <3>1. k - 1 \in 1 .. Len(sent) /\ Parsed[k] = messages[k - 1]
      BY <1>1, <1>4, <1>6, <1>8, <2>2 DEF First
    <3>. QED
      BY <1>3, <2>2, <3>1 DEF First
  <2>3. CASE ~hasTools
    <3>1. k \in 1 .. Len(sent) /\ Parsed[k] = messages[k]
      BY <1>1, <1>4, <1>6, <1>8, <2>3 DEF First
    <3>. QED
      BY <1>3, <2>3, <3>1 DEF First
  <2>. QED
    BY <2>1, <2>2, <2>3
<1>10. First(hasTools) \in 0 .. 1 /\ Len(Parsed) = Len(sent) + 1 - First(hasTools)
  BY <1>1, <1>4, <1>6, <1>8 DEF First
<1>11. \A k \in 1 .. Len(Parsed) : k - 1 + First(hasTools) \in First(hasTools) .. Len(sent)
  BY <1>1, <1>10
<1>. QED
  BY <1>8, <1>9, <1>10, <1>11

\* ms becomes ms2, which has one message more, n, and no later one.
Grows(s, h, e, ms, ms2, n) ==
    /\ ms2 \in Seq(Turn)
    /\ Line(s, h, e, ms2)
    /\ \A a \in First(h) .. Len(s) :
          Reaches(e, ms2, Len(ms2), a) <=> Reaches(e, ms, Len(ms), a) \/ a = n
    /\ \A i \in 1 .. Len(ms2) : ms2[i].at <= n

LEMMA AppendTurn ==
    ASSUME NEW s \in Seq(Message), NEW h \in BOOLEAN, NEW e \in Encoders,
           NEW ms \in Seq(Turn), Line(s, h, e, ms), NEW n \in First(h) .. Len(s),
           \A i \in 1 .. Len(ms) : ms[i].at < n,
           \A i \in 1 .. Len(ms) : \A a \in 0 .. Len(s) : Has(e, ms[i], a) => a < n,
           NEW t \in Turn, TurnFits(s, h, e, t), t.at = n,
           \A a \in 0 .. Len(s) : Has(e, t, a) <=> a = n
    PROVE  Grows(s, h, e, ms, Append(ms, t), n)
<1>. DEFINE ms2 == Append(ms, t)
<1>1. Len(ms) \in Nat /\ Len(s) \in Nat /\ First(h) \in Nat /\ n \in Nat
  BY DEF First
<1>2. /\ ms2 \in Seq(Turn) /\ Len(ms2) = Len(ms) + 1
      /\ \A i \in 1 .. Len(ms) : ms2[i] = ms[i]
      /\ ms2[Len(ms) + 1] = t
  OBVIOUS
<1>. HIDE DEF ms2
<1>3. \A i \in 1 .. Len(ms2) : TurnFits(s, h, e, ms2[i]) /\ ms2[i].at <= n
  <2>. SUFFICES ASSUME NEW i \in 1 .. Len(ms2) PROVE TurnFits(s, h, e, ms2[i]) /\ ms2[i].at <= n
    OBVIOUS
  <2>1. CASE i \in 1 .. Len(ms)
    <3>1. TurnFits(s, h, e, ms[i]) /\ ms[i].at < n /\ ms[i] \in Turn
      BY <2>1 DEF Line
    <3>2. ms[i].at \in Nat
      BY <3>1, TurnFields
    <3>. QED
      BY <1>1, <1>2, <2>1, <3>1, <3>2
  <2>2. CASE i = Len(ms) + 1
    BY <1>1, <1>2, <2>2
  <2>. QED
    BY <1>1, <1>2, <2>1, <2>2
<1>4. \A i, j \in 1 .. Len(ms2) : i < j =>
          \A a \in 0 .. Len(s) : Has(e, ms2[i], a) => a < ms2[j].at
  <2>. SUFFICES ASSUME NEW i \in 1 .. Len(ms2), NEW j \in 1 .. Len(ms2), i < j,
                       NEW a \in 0 .. Len(s), Has(e, ms2[i], a)
                PROVE  a < ms2[j].at
    OBVIOUS
  <2>1. i \in 1 .. Len(ms) /\ Has(e, ms[i], a)
    <3>1. i \in 1 .. Len(ms)
      BY <1>1, <1>2
    <3>. QED
      BY <1>2, <3>1
  <2>2. CASE j \in 1 .. Len(ms)
    BY <1>2, <2>1, <2>2 DEF Line
  <2>3. CASE j = Len(ms) + 1
    BY <1>2, <2>1, <2>3
  <2>4. j \in 1 .. Len(ms) \/ j = Len(ms) + 1
    BY <1>1, <1>2
  <2>. QED
    BY <2>2, <2>3, <2>4
<1>5. ASSUME NEW a \in First(h) .. Len(s)
      PROVE  Reaches(e, ms2, Len(ms2), a) <=> Reaches(e, ms, Len(ms), a) \/ a = n
  <2>1. a \in 0 .. Len(s)
    BY <1>1
  <2>2. Has(e, ms2[Len(ms) + 1], a) <=> a = n
    BY <1>2, <2>1
  <2>3. \A i \in 1 .. Len(ms) : Has(e, ms2[i], a) <=> Has(e, ms[i], a)
    BY <1>2
  <2>4. /\ \A i \in 1 .. Len(ms2) : i \in 1 .. Len(ms) \/ i = Len(ms) + 1
        /\ \A i \in 1 .. Len(ms) : i \in 1 .. Len(ms2)
        /\ Len(ms) + 1 \in 1 .. Len(ms2)
    BY <1>1, <1>2
  <2>. QED
    BY <2>2, <2>3, <2>4, Zenon DEF Reaches
<1>. QED
  BY <1>2, <1>3, <1>4, <1>5 DEF Grows, Line, ms2

\* The last turn, if it is a user's, ends with the message before n.
LEMMA LastMerged ==
    ASSUME NEW s \in Seq(Message), NEW h \in BOOLEAN, NEW e \in Encoders, e # "v32",
           NEW ms \in Seq(Turn), Line(s, h, e, ms), EndsWithUser(ms),
           NEW n \in First(h) .. Len(s),
           \A i \in 1 .. Len(ms) : ms[i].at < n,
           \A i \in 1 .. Len(ms) : \A a \in 0 .. Len(s) : Has(e, ms[i], a) => a < n,
           \A a \in First(h) .. n - 1 : Reaches(e, ms, Len(ms), a)
    PROVE  Last(ms[Len(ms)]) = n - 1
<1>. DEFINE z == Len(ms)
            t == ms[z]
<1>1. z \in Nat /\ Len(s) \in Nat /\ First(h) \in Nat /\ n \in Nat /\ z \in 1 .. z
  BY DEF First, EndsWithUser
<1>2. t \in Turn /\ TurnFits(s, h, e, t) /\ t.role = "user" /\ t.at < n
  BY <1>1 DEF Line, EndsWithUser
<1>3. t.at \in Nat /\ Len(t.blocks) \in Nat /\ Last(t) \in Int
  BY <1>2, TurnFields DEF Last
<1>4. IsMerged(e, t) /\ BlocksFit(s, t)
  BY <1>2 DEF IsMerged, TurnFits
<1>5. n - 1 \in First(h) .. n - 1 /\ n - 1 \in 0 .. Len(s)
  BY <1>1, <1>2 DEF TurnFits
<1>6. PICK i \in 1 .. z : Has(e, ms[i], n - 1)
  BY <1>5 DEF Reaches
<1>7. i < z => n - 1 < t.at
  BY <1>1, <1>5, <1>6 DEF Line
<1>8. Has(e, t, n - 1)
  BY <1>1, <1>2, <1>3, <1>6, <1>7
<1>. HIDE DEF t, z
<1>9. PICK k \in 1 .. Len(t.blocks) : t.blocks[k].at = n - 1
  BY <1>4, <1>8 DEF Has
<1>10. n - 1 \in t.at .. Last(t)
  BY <1>4, <1>9 DEF BlocksFit
<1>11. Last(t) \in t.at .. Last(t)
  BY <1>3, <1>10
<1>12. PICK l \in 1 .. Len(t.blocks) : t.blocks[l].at = Last(t)
  BY <1>4, <1>11 DEF BlocksFit
<1>13. Last(t) \in 0 .. Len(s) /\ Has(e, t, Last(t))
  <2>1. t.blocks[l].at \in 1 .. Len(s)
    BY <1>4 DEF BlocksFit, BlockFits
  <2>. QED
    BY <1>4, <1>12, <2>1 DEF Has
<1>14. Last(t) < n
  BY <1>1, <1>13 DEF t, z
<1>. QED
  BY <1>1, <1>3, <1>10, <1>14 DEF t, z

LEMMA AppendToTurn ==
    ASSUME NEW s \in Seq(Message), NEW h \in BOOLEAN, NEW e \in Encoders, e # "v32",
           NEW ms \in Seq(Turn), Line(s, h, e, ms), EndsWithUser(ms),
           NEW n \in First(h) .. Len(s),
           \A i \in 1 .. Len(ms) : ms[i].at < n,
           \A i \in 1 .. Len(ms) : \A a \in 0 .. Len(s) : Has(e, ms[i], a) => a < n,
           \A a \in First(h) .. n - 1 : Reaches(e, ms, Len(ms), a),
           NEW b \in Block, b.at = n, BlockFits(s, b)
    PROVE  Grows(s, h, e, ms, AppendBlock(ms, b), n)
<1>. DEFINE ms2 == AppendBlock(ms, b)
            z == Len(ms)
<1>1. z \in Nat /\ Len(s) \in Nat /\ First(h) \in Nat /\ n \in Nat /\ z \in 1 .. z
  BY DEF First, EndsWithUser
<1>2. /\ ms[z] \in Turn /\ ms[z].role = "user" /\ IsMerged(e, ms[z])
      /\ TurnFits(s, h, e, ms[z]) /\ BlocksFit(s, ms[z])
      /\ ms[z].blocks \in Seq(Block) /\ ms[z].at \in Nat /\ ms[z].at < n
  <2>1. ms[z] \in Turn /\ TurnFits(s, h, e, ms[z]) /\ ms[z].role = "user" /\ ms[z].at < n
    BY <1>1 DEF Line, EndsWithUser
  <2>2. ms[z].at \in Nat /\ ms[z].blocks \in Seq(Block)
    BY <2>1, TurnFields
  <2>. QED
    BY <2>1, <2>2 DEF IsMerged, TurnFits
<1>. DEFINE last == [ms[z] EXCEPT !.blocks = Append(ms[z].blocks, b)]
            c == Len(ms[z].blocks)
<1>3. /\ c \in Nat /\ Len(last.blocks) = c + 1
      /\ \A k \in 1 .. c : last.blocks[k] = ms[z].blocks[k]
      /\ last.blocks[c + 1] = b
      /\ last \in Turn
      /\ last.at = ms[z].at /\ last.role = ms[z].role /\ last.tools = ms[z].tools
      /\ last.reasoning = ms[z].reasoning /\ last.calls = ms[z].calls /\ last.task = ms[z].task
  <2>1. c \in Nat /\ Append(ms[z].blocks, b) \in Seq(Block)
    BY <1>2
  <2>2. last.blocks = Append(ms[z].blocks, b)
    BY <1>2 DEF Turn
  <2>3. last \in Turn
    BY <1>2, <2>1 DEF Turn
  <2>. QED
    BY <1>2, <2>1, <2>2, <2>3 DEF Turn
<1>4. /\ ms2 \in Seq(Turn) /\ Len(ms2) = z
      /\ \A i \in 1 .. z : ms2[i] = IF i = z THEN last ELSE ms[i]
  <2>1. ms2 = [ms EXCEPT ![z] = last]
    BY DEF AppendBlock
  <2>. HIDE DEF ms2, last
  <2>. QED
    BY <1>1, <1>3, <2>1
<1>. HIDE DEF ms2, last
<1>5. \A a \in 0 .. Len(s) : Has(e, last, a) <=> Has(e, ms[z], a) \/ a = n
  <2>. SUFFICES ASSUME NEW a \in 0 .. Len(s)
                PROVE  Has(e, last, a) <=> Has(e, ms[z], a) \/ a = n
    OBVIOUS
  <2>1. Has(e, ms[z], a) <=> \E k \in 1 .. c : ms[z].blocks[k].at = a
    BY <1>2 DEF Has
  <2>2. Has(e, last, a) <=> \E k \in 1 .. c + 1 : last.blocks[k].at = a
    BY <1>2, <1>3 DEF Has, IsMerged
  <2>3. last.blocks[c + 1].at = n
    BY <1>3
  <2>4. \A k \in 1 .. c : last.blocks[k].at = ms[z].blocks[k].at
    BY <1>3
  <2>5. \A k \in 1 .. c + 1 : k \in 1 .. c \/ k = c + 1
    BY <1>3
  <2>6. c + 1 \in 1 .. c + 1 /\ \A k \in 1 .. c : k \in 1 .. c + 1
    BY <1>3
  <2>. QED
    BY <2>1, <2>2, <2>3, <2>4, <2>5, <2>6, Zenon
<1>6. TurnFits(s, h, e, last)
  <2>1. \A k \in 1 .. c : /\ ms[z].blocks[k].at < n /\ BlockFits(s, ms[z].blocks[k])
                          /\ ms[z].blocks[k].at \in 0 .. Len(s)
    <3>. SUFFICES ASSUME NEW k \in 1 .. c
                  PROVE  /\ ms[z].blocks[k].at < n /\ BlockFits(s, ms[z].blocks[k])
                         /\ ms[z].blocks[k].at \in 0 .. Len(s)
      OBVIOUS
    <3>1. BlockFits(s, ms[z].blocks[k])
      BY <1>2 DEF BlocksFit
    <3>2. ms[z].blocks[k].at \in 0 .. Len(s)
      BY <1>1, <3>1 DEF BlockFits
    <3>3. Has(e, ms[z], ms[z].blocks[k].at)
      BY <1>2 DEF Has
    <3>. QED
      BY <1>1, <3>1, <3>2, <3>3
  <2>2. ms[z].at + c = n
    <3>1. Last(ms[z]) = n - 1
      BY LastMerged
    <3>2. \A x, y, k \in Nat : x + y - 1 = k - 1 => x + y = k
      OBVIOUS
    <3>. QED
      BY <1>1, <1>2, <1>3, <3>1, <3>2 DEF Last
  <2>3. last.blocks[c + 1].at = n /\ BlockFits(s, last.blocks[c + 1])
    BY <1>3
  <2>4. Last(last) = n /\ last.at <= n
    BY <1>1, <1>2, <1>3, <2>2 DEF Last
  <2>5. \A k \in 1 .. c + 1 : k \in 1 .. c \/ k = c + 1
    BY <1>3
  <2>6. \A k \in 1 .. c + 1 :
           /\ BlockFits(s, last.blocks[k])
           /\ last.blocks[k].at \in last.at .. n
           /\ last.blocks[k].type = "text" => last.blocks[k].at = last.at + k - 1
    <3>1. ASSUME NEW k \in 1 .. c
          PROVE  /\ BlockFits(s, last.blocks[k])
                 /\ last.blocks[k].at \in last.at .. n
                 /\ last.blocks[k].type = "text" => last.blocks[k].at = last.at + k - 1
      <4>1. /\ BlockFits(s, ms[z].blocks[k])
            /\ ms[z].blocks[k].at \in ms[z].at .. ms[z].at + c - 1
            /\ ms[z].blocks[k].type = "text" => ms[z].blocks[k].at = ms[z].at + k - 1
        BY <1>2 DEF BlocksFit, Last
      <4>2. last.blocks[k] = ms[z].blocks[k]
        BY <1>3
      <4>. QED
        BY <1>1, <1>2, <1>3, <2>2, <4>1, <4>2
    <3>2. /\ last.blocks[c + 1].at \in last.at .. n
          /\ last.blocks[c + 1].at = last.at + (c + 1) - 1
      BY <1>1, <1>2, <1>3, <2>2, <2>3, <2>4
    <3>. QED
      BY <2>3, <2>5, <3>1, <3>2
  <2>7. \A k, l \in 1 .. c + 1 : last.blocks[k].at = last.blocks[l].at => k = l
    <3>1. \A k, l \in 1 .. c : last.blocks[k].at = last.blocks[l].at => k = l
      <4>. SUFFICES ASSUME NEW k \in 1 .. c, NEW l \in 1 .. c, last.blocks[k].at = last.blocks[l].at
                    PROVE  k = l
        OBVIOUS
      <4>1. ms[z].blocks[k].at = ms[z].blocks[l].at
        BY <1>3
      <4>. QED
        BY <1>2, <4>1 DEF BlocksFit
    <3>2. \A k \in 1 .. c : last.blocks[k].at # n
      <4>. SUFFICES ASSUME NEW k \in 1 .. c PROVE last.blocks[k].at # n
        OBVIOUS
      <4>1. last.blocks[k].at < n
        BY <1>3, <2>1
      <4>. QED
        BY <1>1, <4>1
    <3>. QED
      BY <2>3, <2>5, <3>1, <3>2
  <2>8. \A a \in last.at .. n : \E k \in 1 .. c + 1 : last.blocks[k].at = a
    <3>. SUFFICES ASSUME NEW a \in last.at .. n PROVE \E k \in 1 .. c + 1 : last.blocks[k].at = a
      OBVIOUS
    <3>1. CASE a = n
      BY <1>3, <2>3, <3>1
    <3>2. CASE a # n
      <4>1. a \in ms[z].at .. ms[z].at + c - 1
        BY <1>1, <1>2, <1>3, <2>2, <3>2
      <4>2. PICK k \in 1 .. c : ms[z].blocks[k].at = a
        BY <1>2, <4>1 DEF BlocksFit, Last
      <4>3. last.blocks[k].at = a /\ k \in 1 .. c + 1
        BY <1>3, <4>2
      <4>. QED
        BY <4>3
    <3>. QED
      BY <3>1, <3>2
  <2>9. BlocksFit(s, last)
    BY <1>3, <2>4, <2>6, <2>7, <2>8 DEF BlocksFit
  <2>10. IsMerged(e, last) /\ last.task \in {"none", Original(s, last.at).task}
    BY <1>2, <1>3 DEF TurnFits, IsMerged
  <2>11. last.at \in First(h) .. Len(s)
    BY <1>2, <1>3 DEF TurnFits
  <2>. QED
    BY <1>2, <1>3, <2>9, <2>10, <2>11 DEF TurnFits
<1>7. \A i \in 1 .. z : TurnFits(s, h, e, ms2[i]) /\ ms2[i].at = ms[i].at /\ ms[i].at \in Nat
  <2>. SUFFICES ASSUME NEW i \in 1 .. z
                PROVE  TurnFits(s, h, e, ms2[i]) /\ ms2[i].at = ms[i].at /\ ms[i].at \in Nat
    OBVIOUS
  <2>1. TurnFits(s, h, e, ms[i]) /\ ms[i] \in Turn
    BY DEF Line
  <2>2. ms[i].at \in Nat
    BY <2>1, TurnFields
  <2>3. CASE i = z
    BY <1>3, <1>4, <1>6, <2>2, <2>3
  <2>4. CASE i # z
    BY <1>4, <2>1, <2>2, <2>4
  <2>. QED
    BY <2>3, <2>4
<1>8. \A i, j \in 1 .. z : i < j =>
          \A a \in 0 .. Len(s) : Has(e, ms2[i], a) => a < ms2[j].at
  <2>. SUFFICES ASSUME NEW i \in 1 .. z, NEW j \in 1 .. z, i < j,
                       NEW a \in 0 .. Len(s), Has(e, ms2[i], a)
                PROVE  a < ms2[j].at
    OBVIOUS
  <2>1. Has(e, ms[i], a)
    BY <1>1, <1>4
  <2>. QED
    BY <1>7, <2>1 DEF Line
<1>9. ASSUME NEW a \in First(h) .. Len(s)
      PROVE  Reaches(e, ms2, z, a) <=> Reaches(e, ms, z, a) \/ a = n
  <2>1. a \in 0 .. Len(s)
    BY <1>1
  <2>2. Has(e, ms2[z], a) <=> Has(e, ms[z], a) \/ a = n
    BY <1>1, <1>4, <1>5, <2>1
  <2>3. \A i \in 1 .. z : i # z => (Has(e, ms2[i], a) <=> Has(e, ms[i], a))
    BY <1>4
  <2>. QED
    BY <1>1, <2>2, <2>3 DEF Reaches
<1>10. \A i \in 1 .. z : ms2[i].at <= n
  BY <1>1, <1>7
<1>. QED
  BY <1>4, <1>7, <1>8, <1>9, <1>10 DEF Grows, Line, ms2

LEMMA MergedGrows ==
    ASSUME NEW s \in Seq(Message), NEW h \in BOOLEAN, NEW e \in Encoders, e # "v32",
           NEW ms \in Seq(Turn), Line(s, h, e, ms), NEW n \in First(h) .. Len(s),
           \A i \in 1 .. Len(ms) : ms[i].at < n,
           \A i \in 1 .. Len(ms) : \A a \in 0 .. Len(s) : Has(e, ms[i], a) => a < n,
           \A a \in First(h) .. n - 1 : Reaches(e, ms, Len(ms), a)
    PROVE  Grows(s, h, e, ms, Merged(ms, Original(s, n)), n)
<1>. DEFINE m == Original(s, n)
<1>1. Len(s) \in Nat /\ First(h) \in 0 .. 1 /\ n \in 0 .. Len(s)
  BY DEF First
<1>2. /\ m \in Turn /\ m.at = n /\ m.blocks = <<>>
      /\ n = 0 => m.role = "system"
      /\ n > 0 => m.role = s[n].role
      /\ m.role = "tool" => n > 0 /\ m.call = s[n].call
      /\ m.role # "assistant" => ~m.reasoning /\ m.calls = <<>>
      /\ m.tools <=> n = 0 \/ (s[n].role = "developer" /\ s[n].tools)
  BY <1>1, OriginalFacts
<1>3. m.role = "user" => n > 0
  BY <1>1, <1>2
<1>. HIDE DEF m
<1>4. m.role = "tool" => ResultBlock(m) \in Block /\ ResultBlock(m).at = n /\ BlockFits(s, ResultBlock(m))
  <2>1. m.at \in Nat /\ m.call \in Ids
    BY <1>2, TurnFields
  <2>. QED
    BY <1>1, <1>2, <2>1 DEF ResultBlock, BlockFits, Block
<1>5. m.role = "user" => TextBlock(m) \in Block /\ TextBlock(m).at = n /\ BlockFits(s, TextBlock(m))
  <2>1. m.at \in Nat
    BY <1>2, TurnFields
  <2>. QED
    BY <1>1, <1>2, <1>3, <2>1 DEF TextBlock, BlockFits, Block, Ids
<1>6. ASSUME NEW t \in Turn, NEW b \in Block, b.at = n, BlockFits(s, b),
             t.role = "user", t.at = n, t.blocks = <<b>>, ~t.tools, ~t.reasoning, t.calls = <<>>,
             t.task \in {"none", m.task}
      PROVE  Grows(s, h, e, ms, Append(ms, t), n)
  <2>1. Len(t.blocks) = 1 /\ t.blocks[1] = b
    BY <1>6
  <2>2. IsMerged(e, t)
    BY <1>6 DEF IsMerged
  <2>3. BlocksFit(s, t)
    <3>1. Last(t) = n
      BY <1>1, <1>6, <2>1 DEF Last
    <3>2. \A k \in 1 .. Len(t.blocks) : k = 1
      BY <2>1
    <3>3. \A a \in t.at .. Last(t) : a = n
      BY <1>1, <1>6, <3>1
    <3>4. 1 \in 1 .. Len(t.blocks) /\ n \in t.at .. Last(t) /\ t.at <= Last(t) /\ t.at + 1 - 1 = n
      BY <1>1, <1>6, <2>1, <3>1
    <3>. QED
      BY <1>6, <2>1, <3>2, <3>3, <3>4 DEF BlocksFit
  <2>4. TurnFits(s, h, e, t)
    BY <1>6, <2>2, <2>3 DEF TurnFits, m
  <2>5. \A a \in 0 .. Len(s) : Has(e, t, a) <=> a = n
    BY <1>6, <2>1, <2>2 DEF Has
  <2>. QED
    BY <1>6, <2>4, <2>5, AppendTurn
<1>7. CASE m.role = "tool" /\ EndsWithUser(ms)
  <2>1. Merged(ms, m) = AppendBlock(ms, ResultBlock(m))
    BY <1>7 DEF Merged
  <2>. QED
    BY <1>4, <1>7, <2>1, AppendToTurn DEF m
<1>8. CASE m.role = "tool" /\ ~EndsWithUser(ms)
  <2>. DEFINE t == [m EXCEPT !.role = "user", !.task = "none", !.call = NoId,
                             !.blocks = <<ResultBlock(m)>>]
  <2>1. Merged(ms, m) = Append(ms, t)
    BY <1>8 DEF Merged
  <2>2. <<ResultBlock(m)>> \in Seq(Block)
    BY <1>4, <1>8
  <2>3. /\ t \in Turn /\ t.role = "user" /\ t.at = n /\ t.blocks = <<ResultBlock(m)>>
        /\ ~t.tools /\ ~t.reasoning /\ t.calls = <<>> /\ t.task \in {"none", m.task}
    <3>1. ~m.tools /\ ~m.reasoning /\ m.calls = <<>>
      BY <1>2, <1>8
    <3>. QED
      BY <1>2, <2>2, <3>1 DEF Turn, Roles, Tasks, Ids
  <2>. HIDE DEF t
  <2>. QED
    BY <1>4, <1>6, <1>8, <2>1, <2>3 DEF m
<1>9. CASE m.role = "user" /\ EndsWithUser(ms) /\ ms[Len(ms)].task = "none"
  <2>1. Merged(ms, m) = AppendBlock(ms, TextBlock(m))
    BY <1>9 DEF Merged
  <2>. QED
    BY <1>5, <1>9, <2>1, AppendToTurn DEF m
<1>10. CASE m.role = "user" /\ ~(EndsWithUser(ms) /\ ms[Len(ms)].task = "none")
  <2>. DEFINE t == [m EXCEPT !.blocks = <<TextBlock(m)>>]
  <2>1. Merged(ms, m) = Append(ms, t)
    BY <1>10 DEF Merged
  <2>2. <<TextBlock(m)>> \in Seq(Block)
    BY <1>5, <1>10
  <2>3. /\ t \in Turn /\ t.role = "user" /\ t.at = n /\ t.blocks = <<TextBlock(m)>>
        /\ ~t.tools /\ ~t.reasoning /\ t.calls = <<>> /\ t.task \in {"none", m.task}
    <3>1. ~m.tools /\ ~m.reasoning /\ m.calls = <<>>
      BY <1>2, <1>3, <1>10
    <3>. QED
      BY <1>2, <1>10, <2>2, <3>1 DEF Turn
  <2>. HIDE DEF t
  <2>. QED
    BY <1>5, <1>6, <1>10, <2>1, <2>3 DEF m
<1>11. CASE m.role \notin {"tool", "user"}
  <2>1. Merged(ms, m) = Append(ms, m)
    BY <1>11 DEF Merged
  <2>2. ~IsMerged(e, m)
    BY <1>11 DEF IsMerged
  <2>3. m.reasoning \in BOOLEAN /\ m = [m EXCEPT !.reasoning = m.reasoning]
    BY <1>2 DEF Turn
  <2>4. TurnFits(s, h, e, m)
    BY <1>2, <1>11, <2>2, <2>3 DEF TurnFits, m
  <2>5. \A a \in 0 .. Len(s) : Has(e, m, a) <=> a = n
    BY <1>2, <2>2 DEF Has
  <2>. QED
    BY <1>2, <2>1, <2>4, <2>5, AppendTurn DEF m
<1>. QED
  BY <1>7, <1>8, <1>9, <1>10, <1>11

LEMMA MergeStep ==
    ASSUME sent \in Seq(Message), hasTools \in BOOLEAN, encoder \in Encoders, encoder # "v32",
           written \in Seq(Turn), next \in Nat \ {0}, MergeInv, Merge
    PROVE  MergeInv' /\ written' \in Seq(Turn)
<1>. DEFINE n == next - 1 + First(hasTools)
<1>1. /\ Parsed \in Seq(Turn)
      /\ Len(Parsed) = Len(sent) + 1 - First(hasTools)
      /\ next \in 1 .. Len(Parsed)
      /\ n \in First(hasTools) .. Len(sent)
      /\ Parsed[next] = Original(sent, n)
  BY ParsedFacts DEF MergeInv, Merge
<1>2. Len(sent) \in Nat /\ First(hasTools) \in 0 .. 1
  BY DEF First
<1>3. ASSUME NEW i \in 1 .. Len(written), NEW a \in 0 .. Len(sent), Has(encoder, written[i], a)
      PROVE  a < n
  <2>1. CASE a \in First(hasTools) .. Len(sent)
    <3>1. Reaches(encoder, written, Len(written), a)
      BY <1>3 DEF Reaches
    <3>. QED
      BY <2>1, <3>1 DEF MergeInv
  <2>2. CASE a \notin First(hasTools) .. Len(sent)
    BY <1>1, <1>2, <2>2
  <2>. QED
    BY <2>1, <2>2
<1>4. Grows(sent, hasTools, encoder, written, Merged(written, Original(sent, n)), n)
  <2>1. Line(sent, hasTools, encoder, written) /\ \A i \in 1 .. Len(written) : written[i].at < n
    BY DEF MergeInv
  <2>2. \A a \in First(hasTools) .. n - 1 : Reaches(encoder, written, Len(written), a)
    BY <1>1, <1>2 DEF MergeInv
  <2>. HIDE DEF n
  <2>. QED
    BY <1>1, <1>3, <2>1, <2>2, MergedGrows
<1>5. /\ UNCHANGED <<inputs, stage, conversation, order, prompt, error>>
      /\ next' = next + 1
      /\ written' = Merged(written, Original(sent, n))
  BY <1>1 DEF Merge, MergeInv
<1>6. Grows(sent, hasTools, encoder, written, written', n)
  BY <1>4, <1>5
<1>7. Parsed' = Parsed
  BY <1>5 DEF Parsed, inputs
<1>8. /\ next' <= Len(Parsed) + 1
      /\ Line(sent, hasTools, encoder, written')
      /\ \A a \in First(hasTools) .. Len(sent) :
            Reaches(encoder, written', Len(written'), a) <=> a < n + 1
      /\ \A i \in 1 .. Len(written') : written'[i].at < n + 1
  <2>1. next' <= Len(Parsed) + 1
    BY <1>1, <1>2, <1>5
  <2>2. written' \in Seq(Turn) /\ Line(sent, hasTools, encoder, written')
    BY <1>6 DEF Grows
  <2>3. ASSUME NEW a \in First(hasTools) .. Len(sent)
        PROVE  Reaches(encoder, written', Len(written'), a) <=> a < n + 1
    <3>1. Reaches(encoder, written', Len(written'), a) <=> a < n \/ a = n
      BY <1>6 DEF Grows, MergeInv
    <3>. QED
      BY <1>1, <1>2, <3>1
  <2>4. ASSUME NEW i \in 1 .. Len(written') PROVE written'[i].at < n + 1
    <3>1. written'[i].at <= n /\ written'[i] \in Turn
      BY <1>6, <2>2 DEF Grows
    <3>2. written'[i].at \in Nat
      BY <3>1, TurnFields
    <3>. QED
      BY <1>1, <1>2, <3>1, <3>2
  <2>. QED
    BY <2>1, <2>2, <2>3, <2>4
<1>9. n + 1 = next' - 1 + First(hasTools)
  BY <1>1, <1>2, <1>5
<1>10. MergeInv'
  <2>1. conversation' = Parsed'
    BY <1>5, <1>7 DEF MergeInv
  <2>2. sent' = sent /\ hasTools' = hasTools /\ encoder' = encoder
    BY <1>5 DEF inputs
  <2>. HIDE DEF n
  <2>. QED
    BY <1>7, <1>8, <1>9, <2>1, <2>2 DEF MergeInv
<1>. QED
  BY <1>6, <1>10 DEF Grows

\* TypeOK but for its last conjunct, which follows from the line of the turns.
Types ==
    /\ sent \in Seq(Message)
    /\ hasTools \in BOOLEAN /\ thinking \in BOOLEAN /\ encoder \in Encoders
    /\ stage \in Stages
    /\ next \in Nat \ {0}
    /\ conversation \in Seq(Turn) /\ written \in Seq(Turn)
    /\ order \in Seq(Ids)
    /\ prompt \in Seq(Chunk)
    /\ error \in {"none", "malformed", "role", "developer", "task", "order", "reasoning", "range"}

LEMMA LineHasShape ==
    ASSUME NEW s, NEW h, NEW e, e # "v32", NEW ms, Line(s, h, e, ms)
    PROVE  \A i \in 1 .. Len(ms) : /\ ms[i].role # "tool"
                                   /\ ms[i].role = "user" => ms[i].blocks # <<>>
<1>. SUFFICES ASSUME NEW i \in 1 .. Len(ms)
              PROVE  ms[i].role # "tool" /\ (ms[i].role = "user" => ms[i].blocks # <<>>)
  OBVIOUS
<1>1. TurnFits(s, h, e, ms[i])
  BY DEF Line
<1>2. ASSUME ms[i].role = "user" PROVE ms[i].blocks # <<>>
  <2>1. ms[i].at <= ms[i].at + Len(ms[i].blocks) - 1 /\ ms[i].at \in First(h) .. Len(s)
    BY <1>1, <1>2 DEF TurnFits, IsMerged, BlocksFit, Last
  <2>. QED
    BY <2>1
<1>3. ms[i].role # "tool"
  BY <1>1 DEF TurnFits, IsMerged
<1>. QED
  BY <1>2, <1>3

LEMMA TypesHold ==
    ASSUME TypeOK
    PROVE  Types
BY DEF Types, TypeOK

LEMMA InitStep ==
    ASSUME Init
    PROVE  IInv
<1>1. Types
  <2>1. sent \in Seq(Message)
    BY ConversationsAssumption DEF Init
  <2>. QED
    BY <2>1 DEF Init, Types, Stages
<1>2. TypeOK
  BY <1>1, LineHasShape DEF Init, Types, TypeOK
<1>. QED
  BY <1>2 DEF Init, IInv, Rendering

LEMMA ParsedIsWhole ==
    ASSUME sent \in Seq(Message), hasTools \in BOOLEAN, encoder = "v32"
    PROVE  /\ Line(sent, hasTools, encoder, Parsed)
           /\ \A a \in First(hasTools) .. Len(sent) : Reaches(encoder, Parsed, Len(Parsed), a)
<1>1. /\ Len(sent) \in Nat /\ First(hasTools) \in 0 .. 1
      /\ Parsed \in Seq(Turn)
      /\ Len(Parsed) = Len(sent) + 1 - First(hasTools)
      /\ \A k \in 1 .. Len(Parsed) :
            /\ k - 1 + First(hasTools) \in First(hasTools) .. Len(sent)
            /\ Parsed[k] = Original(sent, k - 1 + First(hasTools))
  BY ParsedFacts DEF First
<1>2. \A t, a : Has(encoder, t, a) <=> t.at = a
  BY DEF Has, IsMerged
<1>3. \A k \in 1 .. Len(Parsed) : Parsed[k].at = k - 1 + First(hasTools)
  BY <1>1, OriginalFacts
<1>4. ASSUME NEW k \in 1 .. Len(Parsed)
      PROVE  TurnFits(sent, hasTools, encoder, Parsed[k])
  <2>1. Parsed[k] \in Turn /\ Parsed[k].reasoning \in BOOLEAN
    BY <1>1, TurnFields
  <2>2. Parsed[k] = [Original(sent, Parsed[k].at) EXCEPT !.reasoning = Parsed[k].reasoning]
    BY <1>1, <1>3, <2>1 DEF Turn
  <2>3. Parsed[k].at \in First(hasTools) .. Len(sent)
    BY <1>1, <1>3
  <2>4. Parsed[k].reasoning => Original(sent, Parsed[k].at).reasoning
    BY <1>1, <1>3
  <2>. QED
    BY <2>1, <2>2, <2>3, <2>4 DEF TurnFits, IsMerged
<1>5. ASSUME NEW a \in First(hasTools) .. Len(sent)
      PROVE  Reaches(encoder, Parsed, Len(Parsed), a)
  <2>1. a + 1 - First(hasTools) \in 1 .. Len(Parsed)
    BY <1>1
  <2>2. Parsed[a + 1 - First(hasTools)].at = a
    BY <1>1, <1>3, <2>1
  <2>. QED
    BY <1>2, <2>1, <2>2 DEF Reaches
<1>6. \A i, j \in 1 .. Len(Parsed) : i < j => Parsed[i].at < Parsed[j].at
  BY <1>1, <1>3
<1>. QED
  BY <1>2, <1>4, <1>5, <1>6 DEF Line

LEMMA ParseStep ==
    ASSUME IInv, Parse
    PROVE  IInv'
<1>1. /\ Types /\ next = 1 /\ written = <<>> /\ prompt = <<>> /\ error = "none"
  BY TypesHold DEF IInv, Parse
<1>2. /\ UNCHANGED <<inputs, next, written, order, prompt, error>>
      /\ conversation' = Parsed /\ Parsed' = Parsed
      /\ stage' = IF encoder = "v32" THEN "forget" ELSE "merge"
  BY DEF Parse, Parsed, inputs
<1>3. /\ Parsed \in Seq(Turn) /\ Len(Parsed) \in Nat
      /\ Len(Parsed) = Len(sent) + 1 - First(hasTools)
  BY <1>1, ParsedFacts DEF Types
<1>4. Types'
  BY <1>1, <1>2, <1>3 DEF Types, inputs, Stages
<1>5. /\ Line(sent, hasTools, encoder, <<>>)
      /\ \A a : ~Reaches(encoder, <<>>, 0, a)
  BY DEF Line, Reaches
<1>6. CASE encoder = "v32"
  <2>1. /\ Line(sent, hasTools, encoder, Parsed)
        /\ \A a \in First(hasTools) .. Len(sent) : Reaches(encoder, Parsed, Len(Parsed), a)
    BY <1>1, <1>6, ParsedIsWhole DEF Types
  <2>2. WholeInv' /\ Line(sent, hasTools, encoder, conversation)'
    BY <1>2, <2>1 DEF WholeInv, inputs
  <2>3. ForgetInv'
    <3>1. \A a : ~Reaches(encoder, Parsed, 0, a)
      BY DEF Reaches
    <3>2. conversation' = Parsed' /\ next' = 1 /\ written' = <<>> /\ next' - 1 = 0 /\ Len(written') = 0
      BY <1>1, <1>2
    <3>. QED
      BY <1>2, <1>3, <1>5, <3>1, <3>2 DEF ForgetInv, inputs
  <2>4. TypeOK'
    BY <1>4, <2>2, LineHasShape DEF Types, TypeOK
  <2>. QED
    BY <1>1, <1>2, <1>6, <2>2, <2>3, <2>4 DEF IInv, Rendering
<1>7. CASE encoder # "v32"
  <2>1. MergeInv'
    <3>1. First(hasTools) \in 0 .. 1
      BY DEF First
    <3>2. \A a \in First(hasTools) .. Len(sent) : ~(a < First(hasTools))
      BY <1>1, <3>1 DEF Types
    <3>3. /\ conversation' = Parsed' /\ next' = 1 /\ written' = <<>> /\ Len(written') = 0
          /\ next' - 1 + First(hasTools) = First(hasTools)
      BY <1>1, <1>2, <3>1
    <3>. QED
      BY <1>2, <1>3, <1>5, <3>2, <3>3 DEF MergeInv, inputs
  <2>2. TypeOK'
    BY <1>2, <1>4, <1>7 DEF Types, TypeOK
  <2>. QED
    BY <1>1, <1>2, <1>7, <2>1, <2>2 DEF IInv, Rendering, inputs
<1>. QED
  BY <1>6, <1>7

LEMMA RefuseToParseStep ==
    ASSUME IInv, RefuseToParse
    PROVE  IInv'
<1>1. Types
  BY TypesHold DEF IInv
<1>2. Types' /\ stage' = "done" /\ error' = "malformed"
  BY <1>1 DEF RefuseToParse, Types, inputs, Stages
<1>3. TypeOK'
  BY <1>2 DEF Types, TypeOK
<1>. QED
  BY <1>2, <1>3 DEF IInv, Rendering

LEMMA MergeInvStep ==
    ASSUME IInv, Merge
    PROVE  IInv'
<1>1. Types /\ MergeInv /\ encoder # "v32" /\ prompt = <<>> /\ error = "none" /\ stage = "merge"
  BY TypesHold DEF IInv, Merge
<1>2. MergeInv' /\ written' \in Seq(Turn)
  BY <1>1, MergeStep DEF Types
<1>3. UNCHANGED <<inputs, stage, conversation, order, prompt, error>> /\ next' = next + 1
  BY DEF Merge
<1>4. Types'
  BY <1>1, <1>2, <1>3 DEF Types, inputs
<1>5. TypeOK'
  BY <1>1, <1>3, <1>4 DEF Types, TypeOK
<1>. QED
  BY <1>1, <1>2, <1>3, <1>5 DEF IInv, Rendering, inputs

LEMMA EndMergeStep ==
    ASSUME IInv, EndMerge
    PROVE  IInv'
<1>1. Types /\ MergeInv /\ encoder # "v32" /\ prompt = <<>> /\ error = "none"
  BY TypesHold DEF IInv, EndMerge
<1>2. /\ UNCHANGED <<inputs, order, prompt, error>>
      /\ conversation' = written /\ written' = <<>> /\ stage' = "sort" /\ next' = 1
      /\ next > Len(conversation)
  BY DEF EndMerge
<1>3. /\ Len(Parsed) \in Nat /\ First(hasTools) \in 0 .. 1 /\ Len(sent) \in Nat
      /\ Len(Parsed) = Len(sent) + 1 - First(hasTools)
  BY <1>1, ParsedFacts DEF Types, First
<1>4. next - 1 + First(hasTools) = Len(sent) + 1
  BY <1>1, <1>2, <1>3 DEF MergeInv, Types
<1>5. /\ Line(sent, hasTools, encoder, written)
      /\ \A a \in First(hasTools) .. Len(sent) : Reaches(encoder, written, Len(written), a)
  BY <1>1, <1>3, <1>4 DEF MergeInv
<1>6. WholeInv' /\ Line(sent, hasTools, encoder, conversation)'
  BY <1>2, <1>5 DEF WholeInv, inputs
<1>7. Types'
  BY <1>1, <1>2 DEF Types, inputs, Stages
<1>8. TypeOK'
  BY <1>6, <1>7, LineHasShape DEF Types, TypeOK
<1>. QED
  BY <1>1, <1>2, <1>6, <1>8 DEF IInv, Rendering, inputs

--------------------------------------------------------------------------------
(***************************************************************************)
(* The passes after merging                                                *)
(***************************************************************************)
\* Turns that fit and have the messages the turns of ms have, in the same places.
LEMMA SameLine ==
    ASSUME NEW s \in Seq(Message), NEW h, NEW e, NEW ms, Line(s, h, e, ms),
           NEW ms2, Len(ms2) = Len(ms),
           \A i \in 1 .. Len(ms) :
              /\ TurnFits(s, h, e, ms2[i])
              /\ ms2[i].at = ms[i].at
              /\ \A a \in 0 .. Len(s) : Has(e, ms2[i], a) <=> Has(e, ms[i], a)
    PROVE  /\ Line(s, h, e, ms2)
           /\ \A a \in 0 .. Len(s) :
                 Reaches(e, ms2, Len(ms2), a) <=> Reaches(e, ms, Len(ms), a)
<1>1. \A i, j \in 1 .. Len(ms2) : i < j =>
          \A a \in 0 .. Len(s) : Has(e, ms2[i], a) => a < ms2[j].at
  BY DEF Line
<1>2. \A a \in 0 .. Len(s) : Reaches(e, ms2, Len(ms2), a) <=> Reaches(e, ms, Len(ms), a)
  BY DEF Reaches
<1>. QED
  BY <1>1, <1>2 DEF Line

LEMMA SortedTurn ==
    ASSUME NEW s \in Seq(Message), NEW h, NEW e, NEW t \in Turn, TurnFits(s, h, e, t),
           IsMerged(e, t), NEW calls \in Seq(Ids)
    PROVE  LET u == [t EXCEPT !.blocks = Sorted(t.blocks, calls)]
           IN  /\ u \in Turn /\ u.role = t.role /\ u.at = t.at
               /\ TurnFits(s, h, e, u)
               /\ \A a \in 0 .. Len(s) : Has(e, u, a) <=> Has(e, t, a)
<1>. DEFINE u == [t EXCEPT !.blocks = Sorted(t.blocks, calls)]
            n == Len(t.blocks)
<1>1. t.blocks \in Seq(Block) /\ n \in Nat
  BY TurnFields
<1>2. Sorted(t.blocks, calls) \in Seq(Block) /\ Len(Sorted(t.blocks, calls)) = n
  BY <1>1, SortedPermutes
<1>3. PICK f \in [1 .. n -> 1 .. n] : Permutes(f, t.blocks, calls)
  BY <1>1, SortedPermutes
<1>4. /\ u \in Turn /\ u.blocks = Sorted(t.blocks, calls)
      /\ u.role = t.role /\ u.at = t.at /\ u.tools = t.tools
      /\ u.reasoning = t.reasoning /\ u.calls = t.calls /\ u.task = t.task
  BY <1>2 DEF Turn
<1>. HIDE DEF u
<1>5. Len(u.blocks) = n /\ \A k \in 1 .. n : u.blocks[k] = t.blocks[f[k]]
  BY <1>2, <1>3, <1>4 DEF Permutes
<1>6. /\ \A k, l \in 1 .. n : f[k] = f[l] => k = l
      /\ \A l \in 1 .. n : \E k \in 1 .. n : f[k] = l
  BY <1>3 DEF Permutes
<1>7. \A a : (\E k \in 1 .. n : u.blocks[k].at = a) <=> (\E k \in 1 .. n : t.blocks[k].at = a)
  <2>. SUFFICES ASSUME NEW a
                PROVE  (\E k \in 1 .. n : u.blocks[k].at = a) <=> (\E k \in 1 .. n : t.blocks[k].at = a)
    OBVIOUS
  <2>1. ASSUME NEW k \in 1 .. n, u.blocks[k].at = a PROVE \E l \in 1 .. n : t.blocks[l].at = a
    <3>1. f[k] \in 1 .. n /\ t.blocks[f[k]].at = a
      BY <1>5, <2>1
    <3>. QED
      BY <3>1
  <2>2. ASSUME NEW l \in 1 .. n, t.blocks[l].at = a PROVE \E k \in 1 .. n : u.blocks[k].at = a
    <3>1. PICK k \in 1 .. n : f[k] = l
      BY <1>6
    <3>2. u.blocks[k].at = a
      BY <1>5, <2>2, <3>1
    <3>. QED
      BY <3>2
  <2>. QED
    BY <2>1, <2>2
<1>8. IsMerged(e, u)
  BY <1>4 DEF IsMerged
<1>9. \A a : Has(e, u, a) <=> Has(e, t, a)
  BY <1>5, <1>7, <1>8 DEF Has
<1>10. BlocksFit(s, u)
  <2>1. BlocksFit(s, t)
    BY DEF TurnFits
  <2>2. Last(u) = Last(t)
    BY <1>4, <1>5 DEF Last
  <2>5. ASSUME NEW k \in 1 .. n
        PROVE  /\ BlockFits(s, u.blocks[k])
               /\ u.blocks[k].at \in u.at .. Last(u)
               /\ u.blocks[k].type = "text" => u.blocks[k].at = u.at + k - 1
    <3>1. /\ f[k] \in 1 .. n /\ u.blocks[k] = t.blocks[f[k]]
          /\ k \notin Results(t.blocks) => f[k] = k
          /\ k \in Results(t.blocks) => f[k] \in Results(t.blocks)
      BY <1>3, <1>5 DEF Permutes
    <3>2. /\ BlockFits(s, t.blocks[f[k]])
          /\ t.blocks[f[k]].at \in t.at .. Last(t)
          /\ t.blocks[f[k]].type = "text" => t.blocks[f[k]].at = t.at + f[k] - 1
      BY <2>1, <3>1 DEF BlocksFit
    <3>3. t.blocks[f[k]].type = "text" => f[k] = k
      BY <3>1 DEF Results
    <3>. QED
      BY <1>4, <2>2, <3>1, <3>2, <3>3
  <2>3. \A k, l \in 1 .. n : u.blocks[k].at = u.blocks[l].at => k = l
    <3>. SUFFICES ASSUME NEW k \in 1 .. n, NEW l \in 1 .. n, u.blocks[k].at = u.blocks[l].at
                  PROVE  f[k] = f[l]
      BY <1>6
    <3>1. f[k] \in 1 .. n /\ f[l] \in 1 .. n /\ t.blocks[f[k]].at = t.blocks[f[l]].at
      BY <1>5
    <3>. QED
      BY <2>1, <3>1 DEF BlocksFit
  <2>4. \A a \in u.at .. Last(u) : \E k \in 1 .. n : u.blocks[k].at = a
    <3>1. \A a \in u.at .. Last(u) : \E l \in 1 .. n : t.blocks[l].at = a
      BY <1>4, <2>1, <2>2 DEF BlocksFit
    <3>. QED
      BY <1>7, <3>1
  <2>6. u.at <= Last(u)
    BY <1>4, <2>1, <2>2 DEF BlocksFit
  <2>. QED
    BY <1>5, <2>3, <2>4, <2>5, <2>6 DEF BlocksFit
<1>11. TurnFits(s, h, e, u)
  <2>1. u.task \in {"none", Original(s, u.at).task} /\ u.at \in First(h) .. Len(s)
    BY <1>4 DEF TurnFits
  <2>2. ~u.tools /\ ~u.reasoning /\ u.calls = <<>>
    BY <1>4 DEF TurnFits
  <2>. QED
    BY <1>8, <1>10, <2>1, <2>2 DEF TurnFits
<1>. QED
  BY <1>4, <1>9, <1>11 DEF u

LEMMA SortStep ==
    ASSUME IInv, Sort
    PROVE  IInv'
<1>1. /\ Types /\ WholeInv /\ written = <<>> /\ encoder # "v32"
      /\ prompt = <<>> /\ error = "none" /\ stage = "sort"
  BY TypesHold DEF IInv, Sort
<1>2. /\ UNCHANGED <<inputs, stage, written, prompt, error>>
      /\ next' = next + 1 /\ next \in 1 .. Len(conversation)
      /\ order' = CallOrder(order, conversation[next])
  BY <1>1 DEF Sort, Types
<1>3. /\ conversation[next] \in Turn
      /\ TurnFits(sent, hasTools, encoder, conversation[next])
      /\ Line(sent, hasTools, encoder, conversation)
  BY <1>1, <1>2 DEF Types, WholeInv, Line
<1>4. order' \in Seq(Ids)
  <2>1. conversation[next].calls \in Seq(Ids)
    BY <1>3, TurnFields
  <2>. QED
    BY <1>1, <1>2, <2>1 DEF CallOrder, Types
<1>5. /\ conversation' \in Seq(Turn) /\ Len(conversation') = Len(conversation)
      /\ \A i \in 1 .. Len(conversation) :
            /\ TurnFits(sent, hasTools, encoder, conversation'[i])
            /\ conversation'[i].at = conversation[i].at
            /\ \A a \in 0 .. Len(sent) :
                  Has(encoder, conversation'[i], a) <=> Has(encoder, conversation[i], a)
  <2>1. CASE Sortable(conversation[next])
    <3>. DEFINE u == [conversation[next] EXCEPT !.blocks = Sorted(conversation[next].blocks, order)]
    <3>1. IsMerged(encoder, conversation[next])
      BY <1>1, <2>1 DEF Sortable, IsMerged
    <3>2. /\ u \in Turn /\ u.role = conversation[next].role /\ u.at = conversation[next].at
          /\ TurnFits(sent, hasTools, encoder, u)
          /\ \A a \in 0 .. Len(sent) : Has(encoder, u, a) <=> Has(encoder, conversation[next], a)
      BY <1>1, <1>3, <3>1, SortedTurn DEF Types
    <3>3. conversation' = [conversation EXCEPT ![next] = u]
      BY <2>1 DEF Sort
    <3>. HIDE DEF u
    <3>. QED
      BY <1>1, <1>2, <1>3, <3>2, <3>3 DEF Types, Line
  <2>2. CASE ~Sortable(conversation[next])
    <3>1. conversation' = conversation
      BY <2>2 DEF Sort
    <3>. QED
      BY <1>1, <1>3, <3>1 DEF Types, Line
  <2>. QED
    BY <2>1, <2>2
<1>6. /\ Line(sent, hasTools, encoder, conversation')
      /\ \A a \in 0 .. Len(sent) :
            Reaches(encoder, conversation', Len(conversation'), a)
            <=> Reaches(encoder, conversation, Len(conversation), a)
  BY <1>1, <1>3, <1>5, SameLine DEF Types
<1>7. WholeInv' /\ Line(sent, hasTools, encoder, conversation)'
  <2>1. \A a \in First(hasTools) .. Len(sent) : a \in 0 .. Len(sent)
    BY <1>1 DEF First, Types
  <2>. QED
    BY <1>1, <1>2, <1>6, <2>1 DEF WholeInv, inputs
<1>8. Types'
  BY <1>1, <1>2, <1>4, <1>5 DEF Types, inputs
<1>9. TypeOK'
  BY <1>7, <1>8, LineHasShape DEF Types, TypeOK
<1>. QED
  BY <1>1, <1>2, <1>7, <1>9 DEF IInv, Rendering, inputs

LEMMA EndSortStep ==
    ASSUME IInv, EndSort
    PROVE  IInv'
<1>1. /\ Types /\ WholeInv /\ written = <<>> /\ encoder # "v32"
      /\ prompt = <<>> /\ error = "none"
  BY TypesHold DEF IInv, EndSort
<1>2. UNCHANGED <<inputs, conversation, written, order, prompt, error>>
      /\ stage' = "forget" /\ next' = 1
  BY DEF EndSort
<1>3. WholeInv' /\ Line(sent, hasTools, encoder, conversation)'
  BY <1>1, <1>2 DEF WholeInv, inputs
<1>4. ForgetInv'
  <2>1. /\ Line(sent, hasTools, encoder, <<>>)
        /\ \A ms, a : ~Reaches(encoder, ms, 0, a)
    BY DEF Line, Reaches
  <2>2. /\ encoder' = encoder /\ encoder' # "v32" /\ Len(conversation') \in Nat
        /\ written' = <<>> /\ Len(written') = 0 /\ next' = 1 /\ next' - 1 = 0
    BY <1>1, <1>2 DEF inputs, Types
  <2>. QED
    BY <1>2, <2>1, <2>2 DEF ForgetInv, inputs
<1>5. Types'
  BY <1>1, <1>2 DEF Types, inputs, Stages
<1>6. TypeOK'
  BY <1>3, <1>5, LineHasShape DEF Types, TypeOK
<1>. QED
  BY <1>1, <1>2, <1>3, <1>4, <1>6 DEF IInv, Rendering, inputs

LEMMA LastUserFacts ==
    ASSUME NEW ms, Len(ms) \in Nat
    PROVE  /\ LastUser(ms) \in 0 .. Len(ms)
           /\ LastUser(ms) # 0 => BeginsTurn(ms, LastUser(ms))
           /\ \A j \in 1 .. Len(ms) : BeginsTurn(ms, j) => j <= LastUser(ms)
           /\ \A k \in 1 .. Len(ms) :
                 k >= LastUser(ms) <=> \A j \in k + 1 .. Len(ms) : ~BeginsTurn(ms, j)
<1>. DEFINE T == {i \in 1 .. Len(ms) : BeginsTurn(ms, i)}
            u == LastUser(ms)
<1>1. CASE T = {}
  <2>1. \A i \in 1 .. Len(ms) : ~BeginsTurn(ms, i)
    BY <1>1
  <2>2. u = 0
    BY <2>1 DEF LastUser
  <2>. QED
    BY <2>1, <2>2
<1>2. CASE T # {}
  <2>1. PICK m \in T : \A k \in T : k <= m
    <3>1. T \in SUBSET (1 .. Len(ms))
      OBVIOUS
    <3>. HIDE DEF T
    <3>. QED
      BY <1>2, <3>1, LastOfNumbers
  <2>2. m \in 1 .. Len(ms) /\ BeginsTurn(ms, m) /\ \A j \in m + 1 .. Len(ms) : ~BeginsTurn(ms, j)
    BY <2>1
  <2>3. \E i \in 1 .. Len(ms) : BeginsTurn(ms, i)
    BY <2>2
  <2>4. /\ u \in 1 .. Len(ms) /\ BeginsTurn(ms, u)
        /\ \A j \in u + 1 .. Len(ms) : ~BeginsTurn(ms, j)
    BY <2>2, <2>3 DEF LastUser
  <2>. HIDE DEF u, T
  <2>5. \A j \in 1 .. Len(ms) : BeginsTurn(ms, j) => j <= u
    BY <2>4
  <2>6. \A k \in 1 .. Len(ms) : k >= u => \A j \in k + 1 .. Len(ms) : ~BeginsTurn(ms, j)
    BY <2>4
  <2>7. \A k \in 1 .. Len(ms) : (\A j \in k + 1 .. Len(ms) : ~BeginsTurn(ms, j)) => k >= u
    BY <2>4
  <2>. QED
    BY <2>4, <2>5, <2>6, <2>7 DEF u
<1>. QED
  BY <1>1, <1>2

\* The turns and the messages of the request.
LEMMA TurnFacts ==
    ASSUME Types, NEW t \in Turn, TurnFits(sent, hasTools, encoder, t)
    PROVE  /\ Has(encoder, t, t.at)
           /\ t.at \in First(hasTools) .. Len(sent)
           /\ \A a \in 0 .. Len(sent) : Has(encoder, t, a) => t.at <= a
           /\ IsMerged(encoder, t) =>
                 /\ ~t.tools
                 /\ \A a : Has(encoder, t, a) <=> a \in t.at .. Last(t)
                 /\ \A a \in 0 .. Len(sent) : Has(encoder, t, a) =>
                       a > 0 /\ sent[a].role \in {"user", "tool"}
           /\ ~IsMerged(encoder, t) =>
                 /\ \A a : Has(encoder, t, a) <=> a = t.at
                 /\ t.at = 0 => t.role = "system"
                 /\ t.at > 0 => t.role = sent[t.at].role
                 /\ t.tools <=> t.at = 0 \/ (sent[t.at].role = "developer" /\ sent[t.at].tools)
                 /\ t.role = "tool" => encoder = "v32"
<1>1. sent \in Seq(Message) /\ Len(sent) \in Nat /\ First(hasTools) \in 0 .. 1
  BY DEF Types, First
<1>2. t.at \in First(hasTools) .. Len(sent) /\ t.at \in 0 .. Len(sent)
  BY <1>1 DEF TurnFits
<1>3. CASE IsMerged(encoder, t)
  <2>1. BlocksFit(sent, t) /\ ~t.tools
    BY <1>3 DEF TurnFits
  <2>2. \A k \in 1 .. Len(t.blocks) :
           /\ t.blocks[k].at \in 1 .. Len(sent)
           /\ sent[t.blocks[k].at].role \in {"user", "tool"}
           /\ t.at <= t.blocks[k].at
    BY <1>1, <1>2, <2>1 DEF BlocksFit, BlockFits
  <2>3. \A a : Has(encoder, t, a) <=> \E k \in 1 .. Len(t.blocks) : t.blocks[k].at = a
    BY <1>3 DEF Has
  <2>4. \A a : Has(encoder, t, a) <=> a \in t.at .. Last(t)
    BY <2>1, <2>3 DEF BlocksFit
  <2>5. Has(encoder, t, t.at)
    <3>1. t.at \in t.at .. Last(t)
      <4>1. t.at <= Last(t) /\ t.at \in Nat /\ Len(t.blocks) \in Nat
        BY <1>1, <1>2, <2>1, TurnFields DEF BlocksFit
      <4>. QED
        BY <4>1 DEF Last
    <3>. QED
      BY <2>4, <3>1
  <2>. QED
    BY <1>2, <1>3, <2>1, <2>2, <2>3, <2>4, <2>5
<1>4. CASE ~IsMerged(encoder, t)
  <2>1. \A a : Has(encoder, t, a) <=> a = t.at
    BY <1>4 DEF Has
  <2>2. PICK r \in BOOLEAN : t = [Original(sent, t.at) EXCEPT !.reasoning = r]
    BY <1>4 DEF TurnFits
  <2>3. t.role = "tool" => encoder = "v32"
    BY <1>4 DEF TurnFits
  <2>4. Original(sent, t.at) \in Turn
    BY <1>1, <1>2, OriginalFacts
  <2>5. t.role = Original(sent, t.at).role /\ t.tools = Original(sent, t.at).tools
    BY <2>2, <2>4 DEF Turn
  <2>. QED
    BY <1>1, <1>2, <1>4, <2>1, <2>3, <2>5, OriginalFacts
<1>. QED
  BY <1>3, <1>4

\* The user has the last word, or tools are defined, in the turns as in the request.
LEMMA ForgetsIsForgetful ==
    ASSUME Types, WholeInv, encoder = "v32" => conversation = Parsed
    PROVE  Forgets <=> IsForgetful
<1>1. sent \in Seq(Message) /\ Len(sent) \in Nat /\ First(hasTools) \in 0 .. 1
  BY DEF Types, First
<1>2. CASE encoder = "v32"
  <2>1. /\ Len(Parsed) = Len(sent) + 1 - First(hasTools) /\ Len(Parsed) \in Nat /\ Parsed \in Seq(Turn)
        /\ \A k \in 1 .. Len(Parsed) : Parsed[k] = Original(sent, k - 1 + First(hasTools))
    BY <1>1, ParsedFacts DEF Types
  <2>2. CASE Len(Parsed) = 0
    <3>1. Parsed = <<>> /\ sent = <<>>
      BY <1>1, <2>1, <2>2 DEF First
    <3>. QED
      BY <1>2, <3>1 DEF Forgets, Drops, IsForgetful
  <2>3. CASE Len(Parsed) > 0
    <3>1. Parsed # <<>> /\ Parsed[Len(Parsed)] = Original(sent, Len(sent))
      BY <1>1, <2>1, <2>3
    <3>2. Parsed[Len(Parsed)].role = IF Len(sent) = 0 THEN "system" ELSE sent[Len(sent)].role
      BY <1>1, <3>1, OriginalFacts
    <3>3. sent = <<>> <=> Len(sent) = 0
      BY <1>1
    <3>. QED
      BY <1>2, <3>1, <3>2, <3>3 DEF Forgets, Drops, IsForgetful
  <2>. QED
    BY <2>1, <2>2, <2>3
<1>3. CASE encoder # "v32"
  <2>1. ASSUME NEW i \in 1 .. Len(conversation), conversation[i].tools
        PROVE  hasTools \/ \E a \in 1 .. Len(sent) : sent[a].role = "developer" /\ sent[a].tools
    <3>. DEFINE t == conversation[i]
    <3>1. t \in Turn /\ TurnFits(sent, hasTools, encoder, t)
      BY DEF Types, WholeInv, Line
    <3>2. t.at \in First(hasTools) .. Len(sent) /\ (t.at = 0 \/ (sent[t.at].role = "developer" /\ sent[t.at].tools))
      <4>. HIDE DEF t
      <4>1. t.tools
        BY <2>1 DEF t
      <4>. QED
        BY <3>1, <4>1, TurnFacts
    <3>3. CASE t.at = 0
      BY <3>2, <3>3 DEF First, Types
    <3>4. CASE t.at # 0
      BY <1>1, <3>2, <3>4
    <3>. QED
      BY <3>3, <3>4
  <2>2. ASSUME NEW a \in First(hasTools) .. Len(sent),
               a = 0 \/ (sent[a].role = "developer" /\ sent[a].tools)
        PROVE  \E i \in 1 .. Len(conversation) : conversation[i].tools
    <3>1. PICK i \in 1 .. Len(conversation) : Has(encoder, conversation[i], a)
      BY DEF WholeInv, Reaches
    <3>. DEFINE t == conversation[i]
    <3>2. t \in Turn /\ TurnFits(sent, hasTools, encoder, t) /\ Has(encoder, t, a) /\ a \in 0 .. Len(sent)
      BY <1>1, <3>1 DEF Types, WholeInv, Line
    <3>3. t.tools
      <4>. HIDE DEF t
      <4>. QED
        BY <2>2, <3>2, TurnFacts
    <3>. QED
      BY <3>3
  <2>3. (\E i \in 1 .. Len(conversation) : conversation[i].tools)
        <=> hasTools \/ \E a \in 1 .. Len(sent) : sent[a].role = "developer" /\ sent[a].tools
    <3>1. hasTools => 0 \in First(hasTools) .. Len(sent)
      BY <1>1 DEF First
    <3>2. \A a \in 1 .. Len(sent) : a \in First(hasTools) .. Len(sent)
      BY <1>1
    <3>. QED
      BY <2>1, <2>2, <3>1, <3>2
  <2>. QED
    BY <1>3, <2>3 DEF Forgets, Drops, IsForgetful
<1>. QED
  BY <1>2, <1>3

\* Every turn but the first begins a turn of the conversation if one of its messages does.
LEMMA BeginsIsTurns ==
    ASSUME Types, NEW ms \in Seq(Turn), Line(sent, hasTools, encoder, ms), NEW j \in 2 .. Len(ms)
    PROVE  BeginsTurn(ms, j) <=> \E b \in 1 .. Len(sent) : Has(encoder, ms[j], b) /\ Turns(b)
<1>1. sent \in Seq(Message) /\ Len(sent) \in Nat /\ First(hasTools) \in 0 .. 1 /\ Len(ms) \in Nat
  BY DEF Types, First
<1>. DEFINE t == ms[j]
<1>2. t \in Turn /\ TurnFits(sent, hasTools, encoder, t)
  BY <1>1 DEF Line
<1>3. t.at \in 1 .. Len(sent) /\ (t.at > 1 \/ hasTools)
  <2>1. ms[1] \in Turn /\ TurnFits(sent, hasTools, encoder, ms[1])
    BY <1>1 DEF Line
  <2>2. Has(encoder, ms[1], ms[1].at) /\ ms[1].at \in First(hasTools) .. Len(sent)
    BY <2>1, TurnFacts
  <2>3. ms[1].at < t.at
    BY <1>1, <2>2 DEF Line
  <2>4. t.at \in First(hasTools) .. Len(sent)
    BY <1>2, TurnFacts
  <2>. QED
    BY <1>1, <2>2, <2>3, <2>4 DEF First, Types
<1>4. CASE ~IsMerged(encoder, t)
  <2>1. t.role = sent[t.at].role /\ (t.role = "tool" => encoder = "v32")
    BY <1>2, <1>3, <1>4, TurnFacts
  <2>2. \A a : Has(encoder, t, a) <=> a = t.at
    BY <1>2, <1>4, TurnFacts
  <2>3. (\E b \in 1 .. Len(sent) : Has(encoder, t, b) /\ Turns(b)) <=> Turns(t.at)
    BY <1>3, <2>2
  <2>4. BeginsTurn(ms, j) <=> Turns(t.at)
    <3>1. encoder # "v32" => t.role # "user"
      BY <1>4 DEF IsMerged
    <3>2. encoder \in {"v32", "v4", "v41"} /\ j > 1
      BY <1>1 DEF Types, Encoders
    <3>3. t.at \in Nat /\ (t.at > 1 \/ hasTools)
      BY <1>1, <1>3
    <3>4. CASE encoder = "v41"
      <4>1. BeginsTurn(ms, j) <=> t.role = "system"
        BY <2>1, <3>1, <3>2, <3>4 DEF BeginsTurn
      <4>2. Turns(t.at) <=> sent[t.at].role \in {"user", "system"}
        BY <3>3, <3>4 DEF Turns
      <4>. QED
        BY <2>1, <3>1, <3>4, <4>1, <4>2
    <3>5. CASE encoder = "v4"
      <4>1. BeginsTurn(ms, j) <=> t.role \in {"user", "developer"}
        BY <3>5 DEF BeginsTurn
      <4>2. Turns(t.at) <=> sent[t.at].role \in {"user", "developer", "tool"}
        BY <3>5 DEF Turns
      <4>. QED
        BY <2>1, <3>5, <4>1, <4>2
    <3>6. CASE encoder = "v32"
      <4>1. BeginsTurn(ms, j) <=> t.role \in {"user", "developer"}
        BY <3>6 DEF BeginsTurn
      <4>2. Turns(t.at) <=> sent[t.at].role \in {"user", "developer"}
        BY <3>6 DEF Turns
      <4>. QED
        BY <2>1, <4>1, <4>2
    <3>. QED
      BY <3>2, <3>4, <3>5, <3>6
  <2>. QED
    BY <2>3, <2>4
<1>5. CASE IsMerged(encoder, t)
  <2>1. BlocksFit(sent, t) /\ encoder # "v32" /\ t.role = "user"
    BY <1>2, <1>5 DEF TurnFits, IsMerged
  <2>2. t.blocks \in Seq(Block)
    BY <1>2, TurnFields
  <2>3. \A k \in 1 .. Len(t.blocks) :
           /\ t.blocks[k].at \in 1 .. Len(sent)
           /\ t.blocks[k].type \in {"text", "result"}
           /\ sent[t.blocks[k].at].role = IF t.blocks[k].type = "text" THEN "user" ELSE "tool"
    <3>. SUFFICES ASSUME NEW k \in 1 .. Len(t.blocks)
                  PROVE  /\ BlockFits(sent, t.blocks[k])
                         /\ t.blocks[k].type \in {"text", "result"}
      BY DEF BlockFits
    <3>1. t.blocks[k] \in Block
      BY <2>2
    <3>. QED
      BY <2>1, <3>1 DEF BlocksFit, Block
  <2>4. \A a : Has(encoder, t, a) <=> \E k \in 1 .. Len(t.blocks) : t.blocks[k].at = a
    BY <1>5 DEF Has
  <2>5. \E k \in 1 .. Len(t.blocks) : TRUE
    <3>1. Has(encoder, t, t.at)
      BY <1>2, TurnFacts
    <3>. QED
      BY <2>4, <3>1
  <2>. HIDE DEF t
  <2>6. CASE encoder = "v4"
    <3>1. BeginsTurn(ms, j)
      BY <2>1, <2>6 DEF BeginsTurn, t
    <3>2. PICK k \in 1 .. Len(t.blocks) : TRUE
      BY <2>5
    <3>3. Turns(t.blocks[k].at)
      BY <2>3, <2>6 DEF Turns
    <3>. QED
      BY <2>3, <2>4, <3>1, <3>3 DEF t
  <2>7. CASE encoder = "v41"
    <3>1. BeginsTurn(ms, j) <=> \E k \in 1 .. Len(t.blocks) : t.blocks[k].type = "text"
      BY <2>1, <2>7 DEF BeginsTurn, HasText, t
    <3>2. \A k \in 1 .. Len(t.blocks) : t.blocks[k].type = "text" <=> Turns(t.blocks[k].at)
      BY <2>3, <2>7 DEF Turns
    <3>. QED
      BY <2>3, <2>4, <3>1, <3>2 DEF t
  <2>. QED
    BY <2>1, <2>6, <2>7 DEF Types, Encoders
<1>. QED
  BY <1>4, <1>5

\* As long as the messages of the last turn are there, the encoder's index of the last
\* user separates the last turn from the earlier ones.
LEMMA LastTurn ==
    ASSUME Types, NEW ms \in Seq(Turn), Line(sent, hasTools, encoder, ms),
           \A a \in 1 .. Len(sent) : InLastTurn(a) => Reaches(encoder, ms, Len(ms), a),
           NEW k \in 1 .. Len(ms), ~IsMerged(encoder, ms[k])
    PROVE  InLastTurn(ms[k].at) <=> \A j \in k + 1 .. Len(ms) : ~BeginsTurn(ms, j)
<1>1. sent \in Seq(Message) /\ Len(sent) \in Nat /\ First(hasTools) \in 0 .. 1 /\ Len(ms) \in Nat
  BY DEF Types, First
<1>. DEFINE a == ms[k].at
<1>2. ms[k] \in Turn /\ TurnFits(sent, hasTools, encoder, ms[k])
  BY <1>1 DEF Line
<1>3. a \in 0 .. Len(sent) /\ \A b : Has(encoder, ms[k], b) <=> b = a
  BY <1>1, <1>2, TurnFacts
<1>4. ASSUME NEW j \in k + 1 .. Len(ms), BeginsTurn(ms, j)
      PROVE  \E b \in a + 1 .. Len(sent) : Turns(b)
  <2>1. j \in 2 .. Len(ms) /\ j \in 1 .. Len(ms) /\ k < j
    BY <1>1
  <2>2. PICK b \in 1 .. Len(sent) : Has(encoder, ms[j], b) /\ Turns(b)
    BY <1>4, <2>1, BeginsIsTurns
  <2>3. ms[j] \in Turn /\ TurnFits(sent, hasTools, encoder, ms[j])
    BY <2>1 DEF Line
  <2>4. ms[j].at <= b /\ ms[j].at \in 0 .. Len(sent)
    BY <1>1, <2>2, <2>3, TurnFacts
  <2>5. a < ms[j].at
    BY <1>3, <2>1 DEF Line
  <2>. QED
    BY <1>1, <1>3, <2>2, <2>4, <2>5
<1>5. ASSUME NEW b \in a + 1 .. Len(sent), Turns(b)
      PROVE  \E j \in k + 1 .. Len(ms) : BeginsTurn(ms, j)
  <2>. DEFINE T == {c \in 1 .. Len(sent) : Turns(c)}
  <2>1. T \in SUBSET (1 .. Len(sent)) /\ b \in T
    BY <1>1, <1>3, <1>5
  <2>2. PICK c \in T : \A d \in T : d <= c
    <3>. HIDE DEF T
    <3>. QED
      BY <1>1, <2>1, LastOfNumbers
  <2>3. c \in 1 .. Len(sent) /\ Turns(c) /\ b <= c
    BY <2>1, <2>2
  <2>4. InLastTurn(c)
    BY <2>2, <2>3 DEF InLastTurn
  <2>5. PICK j \in 1 .. Len(ms) : Has(encoder, ms[j], c)
    BY <2>3, <2>4 DEF Reaches
  <2>6. a < c
    BY <1>1, <1>3, <2>3
  <2>7. j # k
    BY <1>1, <1>3, <2>5, <2>6
  <2>8. ~(j < k)
    <3>1. j < k => c < a
      BY <1>1, <2>3, <2>5 DEF Line
    <3>. QED
      BY <1>1, <1>3, <2>3, <2>6, <3>1
  <2>9. j \in k + 1 .. Len(ms) /\ j \in 2 .. Len(ms)
    BY <1>1, <2>7, <2>8
  <2>. QED
    BY <2>3, <2>5, <2>9, BeginsIsTurns
<1>. QED
  BY <1>4, <1>5 DEF InLastTurn

\* What the pass leaves of turn k: the turn if none of its messages is left out, and else
\* nothing.
LEMMA RemainingFacts ==
    ASSUME Types, WholeInv, encoder = "v32" => conversation = Parsed, Forgets,
           NEW k \in 1 .. Len(conversation)
    PROVE  \/ /\ Remaining(conversation, k) = <<>>
              /\ \A a \in 0 .. Len(sent) : Has(encoder, conversation[k], a) => Gone(a)
           \/ \E t \in Turn :
                /\ Remaining(conversation, k) = <<t>>
                /\ TurnFits(sent, hasTools, encoder, t)
                /\ t.at = conversation[k].at
                /\ \A a \in 0 .. Len(sent) : Has(encoder, t, a) <=> Has(encoder, conversation[k], a)
                /\ \A a \in 0 .. Len(sent) : Has(encoder, conversation[k], a) => ~Gone(a)
<1>. DEFINE t == conversation[k]
<1>1. /\ sent \in Seq(Message) /\ Len(sent) \in Nat /\ First(hasTools) \in 0 .. 1
      /\ conversation \in Seq(Turn) /\ Len(conversation) \in Nat
      /\ t \in Turn /\ TurnFits(sent, hasTools, encoder, t)
      /\ encoder \in {"v32", "v4", "v41"}
  BY DEF Types, WholeInv, Line, First, Encoders
<1>2. IsForgetful
  BY ForgetsIsForgetful
<1>3. CASE IsMerged(encoder, t)
  <2>1. t.role = "user" /\ t.role \in KeptRoles
    BY <1>3 DEF IsMerged, KeptRoles
  <2>2. Remaining(conversation, k) = <<t>>
    BY <2>1 DEF Remaining, Kept
  <2>3. \A a \in 0 .. Len(sent) : Has(encoder, t, a) => ~Gone(a)
    <3>1. \A a \in 0 .. Len(sent) : Has(encoder, t, a) => a > 0 /\ sent[a].role \in {"user", "tool"}
      BY <1>1, <1>3, TurnFacts
    <3>. QED
      BY <3>1 DEF Gone, Forgotten
  <2>. QED
    BY <1>1, <2>2, <2>3
<1>4. CASE ~IsMerged(encoder, t)
  <2>1. /\ \A a : Has(encoder, t, a) <=> a = t.at
        /\ t.at \in 0 .. Len(sent)
        /\ t.at = 0 => t.role = "system"
        /\ t.at > 0 => t.role = sent[t.at].role
        /\ t.role = "tool" => encoder = "v32"
    BY <1>1, <1>4, TurnFacts
  <2>2. k >= LastUser(conversation) <=> InLastTurn(t.at)
    <3>1. \A a \in 1 .. Len(sent) :
              InLastTurn(a) => Reaches(encoder, conversation, Len(conversation), a)
      BY <1>1 DEF WholeInv
    <3>2. Line(sent, hasTools, encoder, conversation)
      BY DEF WholeInv
    <3>3. InLastTurn(t.at)
          <=> \A j \in k + 1 .. Len(conversation) : ~BeginsTurn(conversation, j)
      BY <1>1, <1>4, <3>1, <3>2, LastTurn
    <3>4. k >= LastUser(conversation)
          <=> \A j \in k + 1 .. Len(conversation) : ~BeginsTurn(conversation, j)
      BY <1>1, LastUserFacts
    <3>. QED
      BY <3>3, <3>4
  <2>3. t.role \in {"system", "developer", "user", "assistant", "tool", "latest_reminder", "other"}
    BY <1>1, TurnFields DEF Roles
  <2>4. Gone(t.at) <=> /\ t.at > 0 /\ ~InLastTurn(t.at)
                       /\ \/ t.role \in {"developer", "other"}
                          \/ t.role = "latest_reminder" /\ encoder = "v32"
    BY <1>2, <2>1 DEF Gone, Forgotten
  <2>5. Kept(conversation, k) \/ t.role = "assistant" <=> ~Gone(t.at)
    <3>1. t.at > 0 \/ t.role = "system"
      BY <1>1, <2>1
    <3>. QED
      BY <1>1, <2>1, <2>2, <2>3, <2>4, <3>1 DEF Kept, KeptRoles
  <2>6. CASE Kept(conversation, k)
    <3>1. Remaining(conversation, k) = <<t>>
      BY <2>6 DEF Remaining
    <3>. QED
      BY <1>1, <2>1, <2>5, <2>6, <3>1
  <2>7. CASE ~Kept(conversation, k) /\ t.role = "assistant"
    <3>. DEFINE u == [t EXCEPT !.reasoning = FALSE]
    <3>1. Remaining(conversation, k) = <<u>>
      BY <2>7 DEF Remaining
    <3>2. u \in Turn /\ u.role = t.role /\ u.at = t.at /\ u.reasoning = FALSE /\ u.tools = t.tools
      BY <1>1 DEF Turn
    <3>3. u = [Original(sent, u.at) EXCEPT !.reasoning = FALSE]
      <4>1. Original(sent, t.at) \in Turn
        BY <1>1, <2>1, OriginalFacts
      <4>2. PICK r \in BOOLEAN : t = [Original(sent, t.at) EXCEPT !.reasoning = r]
        BY <1>1, <1>4 DEF TurnFits
      <4>. QED
        BY <3>2, <4>1, <4>2 DEF Turn
    <3>. HIDE DEF u
    <3>4. TurnFits(sent, hasTools, encoder, u)
      <4>1. ~IsMerged(encoder, u) /\ u.role # "tool"
        BY <2>7, <3>2 DEF IsMerged
      <4>2. u.at \in First(hasTools) .. Len(sent)
        BY <1>1, <3>2 DEF TurnFits
      <4>. QED
        BY <3>2, <3>3, <4>1, <4>2 DEF TurnFits
    <3>5. \A a : Has(encoder, u, a) <=> Has(encoder, t, a)
      BY <1>4, <3>2 DEF Has, IsMerged
    <3>. QED
      BY <2>1, <2>5, <2>7, <3>1, <3>2, <3>4, <3>5
  <2>8. CASE ~Kept(conversation, k) /\ t.role # "assistant"
    <3>1. Remaining(conversation, k) = <<>>
      BY <2>8 DEF Remaining
    <3>. QED
      BY <2>1, <2>5, <2>8, <3>1
  <2>. QED
    BY <2>6, <2>7, <2>8
<1>. QED
  BY <1>3, <1>4

LEMMA ReachesNext ==
    ASSUME NEW e, NEW ms, NEW n \in Nat \ {0}, NEW a
    PROVE  Reaches(e, ms, n, a) <=> Reaches(e, ms, n - 1, a) \/ Has(e, ms[n], a)
<1>1. \A i : i \in 1 .. n <=> i \in 1 .. n - 1 \/ i = n
  OBVIOUS
<1>. QED
  BY <1>1, Zenon DEF Reaches

LEMMA ForgetStep ==
    ASSUME IInv, Forget
    PROVE  IInv'
<1>1. /\ Types /\ WholeInv /\ ForgetInv /\ prompt = <<>> /\ error = "none" /\ stage = "forget"
      /\ Forgets
  BY TypesHold DEF IInv, Forget
<1>2. /\ UNCHANGED <<inputs, stage, conversation, order, prompt, error>>
      /\ next' = next + 1 /\ next \in 1 .. Len(conversation)
      /\ written' = written \o Remaining(conversation, next)
  BY <1>1 DEF Forget, Types
<1>3. /\ sent \in Seq(Message) /\ Len(sent) \in Nat /\ First(hasTools) \in 0 .. 1
      /\ written \in Seq(Turn) /\ Len(written) \in Nat
      /\ conversation \in Seq(Turn) /\ Len(conversation) \in Nat /\ next \in Nat \ {0}
      /\ (encoder = "v32" => conversation = Parsed)
  BY <1>1 DEF Types, First, ForgetInv
<1>4. \A a : Reaches(encoder, conversation, next, a)
             <=> Reaches(encoder, conversation, next - 1, a) \/ Has(encoder, conversation[next], a)
  BY <1>3, ReachesNext
<1>5. conversation[next] \in Turn /\ TurnFits(sent, hasTools, encoder, conversation[next])
  BY <1>1, <1>2, <1>3 DEF WholeInv, Line
<1>6. \A a \in First(hasTools) .. Len(sent) : a \in 0 .. Len(sent)
  BY <1>3
<1>. DEFINE Left == /\ written' \in Seq(Turn)
                    /\ Line(sent, hasTools, encoder, written')
                    /\ \A a \in First(hasTools) .. Len(sent) :
                          Reaches(encoder, written', Len(written'), a)
                          <=> Reaches(encoder, conversation, next, a) /\ ~Gone(a)
                    /\ Len(written') <= next
                    /\ encoder = "v32" /\ (\E i \in 1 .. next : Gone(conversation[i].at)) =>
                          Len(written') < next
<1>7. ASSUME Remaining(conversation, next) = <<>>,
             \A a \in 0 .. Len(sent) : Has(encoder, conversation[next], a) => Gone(a)
      PROVE  Left
  <2>1. written' = written
    BY <1>2, <1>3, <1>7
  <2>2. ASSUME NEW a \in First(hasTools) .. Len(sent)
        PROVE  Reaches(encoder, written', Len(written'), a)
               <=> Reaches(encoder, conversation, next, a) /\ ~Gone(a)
    <3>1. Reaches(encoder, written, Len(written), a)
          <=> Reaches(encoder, conversation, next - 1, a) /\ ~Gone(a)
      BY <1>1 DEF ForgetInv
    <3>2. Has(encoder, conversation[next], a) => Gone(a)
      BY <1>6, <1>7
    <3>. QED
      BY <1>4, <2>1, <3>1, <3>2
  <2>3. Line(sent, hasTools, encoder, written) /\ Len(written) <= next - 1
    BY <1>1 DEF ForgetInv
  <2>4. Len(written') <= next /\ Len(written') < next
    BY <1>3, <2>1, <2>3
  <2>. QED
    BY <1>3, <2>1, <2>2, <2>3, <2>4
<1>8. ASSUME NEW t \in Turn,
             Remaining(conversation, next) = <<t>>,
             TurnFits(sent, hasTools, encoder, t),
             t.at = conversation[next].at,
             \A a \in 0 .. Len(sent) : Has(encoder, t, a) <=> Has(encoder, conversation[next], a),
             \A a \in 0 .. Len(sent) : Has(encoder, conversation[next], a) => ~Gone(a)
      PROVE  Left
  <2>. DEFINE ms == Append(written, t)
              z == Len(written) + 1
  <2>1. written' = ms
    BY <1>2, <1>3, <1>8
  <2>2. /\ ms \in Seq(Turn) /\ Len(ms) = z /\ z \in Nat \ {0} /\ z - 1 = Len(written) /\ ms[z] = t
        /\ \A i \in 1 .. Len(written) : ms[i] = written[i]
        /\ \A i \in 1 .. z : i \in 1 .. Len(written) \/ i = z
    BY <1>3
  <2>. HIDE DEF ms, z
  <2>3. \A a : Reaches(encoder, ms, z, a) <=> Reaches(encoder, written, Len(written), a) \/ Has(encoder, t, a)
    <3>1. \A a : Reaches(encoder, ms, z, a) <=> Reaches(encoder, ms, z - 1, a) \/ Has(encoder, ms[z], a)
      BY <2>2, ReachesNext
    <3>2. \A a : Reaches(encoder, ms, Len(written), a) <=> Reaches(encoder, written, Len(written), a)
      BY <2>2 DEF Reaches
    <3>. QED
      BY <2>2, <3>1, <3>2
  <2>4. ASSUME NEW a \in First(hasTools) .. Len(sent)
        PROVE  Reaches(encoder, ms, z, a) <=> Reaches(encoder, conversation, next, a) /\ ~Gone(a)
    <3>1. Reaches(encoder, written, Len(written), a)
          <=> Reaches(encoder, conversation, next - 1, a) /\ ~Gone(a)
      BY <1>1 DEF ForgetInv
    <3>2. /\ Has(encoder, t, a) <=> Has(encoder, conversation[next], a)
          /\ Has(encoder, conversation[next], a) => ~Gone(a)
      BY <1>6, <1>8
    <3>. QED
      BY <1>4, <2>3, <3>1, <3>2
  <2>5. Line(sent, hasTools, encoder, written)
    BY <1>1 DEF ForgetInv
  <2>6. \A i \in 1 .. z : TurnFits(sent, hasTools, encoder, ms[i])
    BY <1>8, <2>2, <2>5 DEF Line
  <2>7. ASSUME NEW i \in 1 .. Len(written), NEW a \in 0 .. Len(sent), Has(encoder, written[i], a)
        PROVE  a < t.at
    <3>1. written[i] \in Turn /\ TurnFits(sent, hasTools, encoder, written[i])
      BY <1>3, <2>5 DEF Line
    <3>2. a \in First(hasTools) .. Len(sent)
      <4>1. written[i].at \in First(hasTools) .. Len(sent) /\ written[i].at <= a
        BY <1>1, <2>7, <3>1, TurnFacts
      <4>. QED
        BY <1>3, <4>1
    <3>3. Reaches(encoder, written, Len(written), a)
      BY <2>7 DEF Reaches
    <3>4. Reaches(encoder, conversation, next - 1, a)
      BY <1>1, <3>2, <3>3 DEF ForgetInv
    <3>5. PICK j \in 1 .. next - 1 : Has(encoder, conversation[j], a)
      BY <3>4 DEF Reaches
    <3>6. j \in 1 .. Len(conversation) /\ j < next
      BY <1>2, <1>3
    <3>. QED
      BY <1>1, <1>2, <1>8, <3>5, <3>6 DEF WholeInv, Line
  <2>8. ASSUME NEW i \in 1 .. z, NEW j \in 1 .. z, i < j,
               NEW a \in 0 .. Len(sent), Has(encoder, ms[i], a)
        PROVE  a < ms[j].at
    <3>1. i \in 1 .. Len(written) /\ Has(encoder, written[i], a)
      <4>1. i \in 1 .. Len(written)
        BY <1>3, <2>2, <2>8
      <4>. QED
        BY <2>2, <2>8, <4>1
    <3>2. CASE j = z
      BY <2>2, <2>7, <3>1, <3>2
    <3>3. CASE j \in 1 .. Len(written)
      BY <2>2, <2>5, <2>8, <3>1, <3>3 DEF Line
    <3>. QED
      BY <2>2, <3>2, <3>3
  <2>9. Line(sent, hasTools, encoder, ms)
    BY <2>2, <2>6, <2>8 DEF Line
  <2>10. Len(written) <= next - 1
    BY <1>1 DEF ForgetInv
  <2>11. ASSUME encoder = "v32", NEW i \in 1 .. next, Gone(conversation[i].at)
         PROVE  z < next
    <3>1. ~Gone(conversation[next].at)
      BY <1>1, <1>3, <1>5, <1>6, <1>8, TurnFacts
    <3>2. i \in 1 .. next - 1
      BY <1>3, <2>11, <3>1
    <3>3. Len(written) < next - 1
      BY <1>1, <2>11, <3>2 DEF ForgetInv
    <3>. QED
      BY <1>3, <2>2, <3>3
  <2>12. z <= next
    BY <1>3, <2>2, <2>10
  <2>. QED
    BY <2>1, <2>2, <2>4, <2>9, <2>11, <2>12
<1>9. Left
  <2>1. \/ /\ Remaining(conversation, next) = <<>>
           /\ \A a \in 0 .. Len(sent) : Has(encoder, conversation[next], a) => Gone(a)
        \/ \E t \in Turn :
             /\ Remaining(conversation, next) = <<t>>
             /\ TurnFits(sent, hasTools, encoder, t)
             /\ t.at = conversation[next].at
             /\ \A a \in 0 .. Len(sent) : Has(encoder, t, a) <=> Has(encoder, conversation[next], a)
             /\ \A a \in 0 .. Len(sent) : Has(encoder, conversation[next], a) => ~Gone(a)
    BY <1>1, <1>2, <1>3, RemainingFacts
  <2>. HIDE DEF Left
  <2>. QED
    BY <1>7, <1>8, <2>1
<1>10. /\ Parsed' = Parsed /\ \A a : Gone(a)' <=> Gone(a)
       /\ (Forgets <=> Forgets')
  BY <1>2 DEF Parsed, Gone, Forgotten, IsForgetful, InLastTurn, Turns, Forgets, Drops, inputs
<1>11. ForgetInv'
  <2>1. next' - 1 = next /\ next' <= Len(conversation) + 1
    BY <1>2, <1>3
  <2>. QED
    BY <1>1, <1>2, <1>3, <1>9, <1>10, <2>1 DEF ForgetInv, inputs
<1>12. WholeInv' /\ Line(sent, hasTools, encoder, conversation)'
  BY <1>1, <1>2 DEF WholeInv, inputs
<1>13. Types'
  BY <1>1, <1>2, <1>9 DEF Types, inputs
<1>14. TypeOK'
  BY <1>12, <1>13, LineHasShape DEF Types, TypeOK
<1>. QED
  BY <1>1, <1>2, <1>11, <1>12, <1>14 DEF IInv, Rendering, inputs

LEMMA TellsNothing == Tells(<<>>, {})
BY DEF Tells

LEMMA EndForgetStep ==
    ASSUME IInv, EndForget
    PROVE  IInv'
<1>1. Types /\ WholeInv /\ ForgetInv /\ prompt = <<>> /\ error = "none"
  BY TypesHold DEF IInv, EndForget
<1>2. /\ UNCHANGED <<inputs, order, prompt, error>>
      /\ stage' = "render" /\ next' = 1 /\ written' = <<>>
      /\ conversation' = IF Forgets THEN written ELSE conversation
      /\ Forgets => next > Len(conversation)
  BY DEF EndForget
<1>3. /\ sent \in Seq(Message) /\ Len(sent) \in Nat /\ First(hasTools) \in 0 .. 1
      /\ written \in Seq(Turn) /\ Len(written) \in Nat
      /\ conversation \in Seq(Turn) /\ Len(conversation) \in Nat /\ next \in Nat \ {0}
      /\ encoder = "v32" => conversation = Parsed
  BY <1>1 DEF Types, First, ForgetInv
<1>4. Forgets <=> IsForgetful
  BY <1>1, <1>3, ForgetsIsForgetful
<1>5. /\ conversation' \in Seq(Turn)
      /\ Line(sent, hasTools, encoder, conversation')
      /\ \A a \in First(hasTools) .. Len(sent) :
            Reaches(encoder, conversation', Len(conversation'), a) <=> ~Gone(a)
      /\ encoder = "v32" =>
            /\ Len(conversation') <= Len(Parsed)
            /\ (\E a \in 1 .. Len(sent) : Gone(a)) => Len(conversation') < Len(Parsed)
  <2>1. CASE Forgets
    <3>1. conversation' = written /\ next - 1 = Len(conversation)
      BY <1>1, <1>2, <1>3, <2>1 DEF ForgetInv
    <3>2. ASSUME NEW a \in First(hasTools) .. Len(sent)
          PROVE  Reaches(encoder, written, Len(written), a) <=> ~Gone(a)
      BY <1>1, <3>1 DEF ForgetInv, WholeInv
    <3>3. ASSUME encoder = "v32", NEW a \in 1 .. Len(sent), Gone(a)
          PROVE  Len(written) < Len(Parsed)
      <4>1. a \in First(hasTools) .. Len(sent)
        BY <1>3
      <4>2. PICK i \in 1 .. Len(conversation) : Has(encoder, conversation[i], a)
        BY <1>1, <4>1 DEF WholeInv, Reaches
      <4>3. conversation[i].at = a
        BY <3>3, <4>2 DEF Has, IsMerged
      <4>. QED
        BY <1>1, <1>3, <3>1, <3>3, <4>3 DEF ForgetInv
    <3>4. Len(written) <= Len(conversation) /\ Line(sent, hasTools, encoder, written)
      BY <1>1, <3>1 DEF ForgetInv
    <3>. QED
      BY <1>3, <3>1, <3>2, <3>3, <3>4
  <2>2. CASE ~Forgets
    <3>1. conversation' = conversation /\ \A a : ~Gone(a)
      BY <1>2, <1>4, <2>2 DEF Gone, Forgotten
    <3>. QED
      BY <1>1, <1>3, <3>1 DEF WholeInv
  <2>. QED
    BY <2>1, <2>2
<1>6. Parsed' = Parsed /\ \A a : Gone(a)' <=> Gone(a)
  BY <1>2 DEF Parsed, Gone, Forgotten, IsForgetful, InLastTurn, Turns, inputs
<1>7. LeftInv' /\ Line(sent, hasTools, encoder, conversation)'
  BY <1>2, <1>5, <1>6 DEF LeftInv, inputs
<1>8. PromptInv'
  <2>1. Reached(next - 1)' = {}
    BY <1>2 DEF Reached, Reaches
  <2>2. next' <= Len(conversation') + 1
    BY <1>2, <1>5
  <2>. QED
    BY <1>1, <1>2, <2>1, <2>2, TellsNothing DEF PromptInv
<1>9. Types'
  BY <1>1, <1>2, <1>5 DEF Types, inputs, Stages
<1>10. TypeOK'
  BY <1>7, <1>9, LineHasShape DEF Types, TypeOK
<1>. QED
  BY <1>1, <1>2, <1>7, <1>8, <1>10 DEF IInv, Rendering

--------------------------------------------------------------------------------
(***************************************************************************)
(* Rendering                                                               *)
(***************************************************************************)
\* What is rendered of turn i: tokens, the content of its messages, tokens.
Opens == [kind : Tokens, at : Nat]

ShowsReasoning(ms, i) ==
    /\ ms[i].role = "assistant" /\ thinking
    /\ IF encoder = "v32" THEN i > LastUser(ms) /\ ~(ms[i].calls = <<>> /\ ms[i].prefix)
       ELSE ~AfterTask(ms, i) /\ (~Drops(ms) \/ i > LastUser(ms))

Front(ms, i) ==
    IF ShowsReasoning(ms, i) THEN ReasoningChunks(ms[i])
    ELSE IF encoder = "v32" /\ ms[i].role = "tool" /\ i - Caller(ms, i) = 1
         THEN <<C("results", ms[i])>> ELSE <<>>

Kind(role) == CASE role = "user" -> "text"
                [] role = "tool" -> "result"
                [] role = "assistant" -> "content"
                [] role = "latest_reminder" -> "reminder"
                [] role \in {"system", "developer"} -> role

Middle(ms, i) ==
    IF IsMerged(encoder, ms[i])
    THEN [k \in 1 .. Len(ms[i].blocks) |->
             [kind |-> ms[i].blocks[k].type, at |-> ms[i].blocks[k].at]]
    ELSE <<C(Kind(ms[i].role), ms[i])>>

Calls(ms, i) ==
    IF ms[i].role = "assistant" /\ ~(encoder = "v32" /\ ms[i].calls = <<>> /\ ms[i].prefix)
    THEN CallChunks(ms[i]) ELSE <<>>

Thinks(ms, i, test) == C(IF thinking /\ test THEN "think" ELSE "endthink", ms[i])

End(ms, i) ==
    IF encoder # "v32" THEN Transition(ms, i)
    ELSE IF ms[i].role \in {"user", "developer"}
         THEN <<C("Assistant", ms[i]), Thinks(ms, i, i = LastUser(ms))>>
    ELSE IF ms[i].role = "tool" /\ i - Caller(ms, i) = Len(CallsFor(ms, i))
         THEN <<C("endresults", ms[i]), Thinks(ms, i, i >= LastUser(ms))>>
    ELSE <<>>

LEMMA ConcatTuples ==
    ASSUME NEW S, NEW x \in S, NEW y \in S, NEW z \in S
    PROVE  /\ <<>> \o <<x>> = <<x>>
           /\ <<x>> \o <<y>> = <<x, y>>
           /\ <<x>> \o <<y, z>> = <<x, y, z>>
<1>1. <<>> \o <<x>> = <<x>>
  OBVIOUS
<1>2. <<x>> \o <<y>> = <<x, y>>
  <2>. DEFINE w == <<x>> \o <<y>>
  <2>1. w \in Seq(S) /\ Len(w) = 2 /\ w[1] = x /\ w[2] = y
    OBVIOUS
  <2>. HIDE DEF w
  <2>2. w = <<x, y>>
    BY <2>1
  <2>. QED
    BY <2>2 DEF w
<1>3. <<x>> \o <<y, z>> = <<x, y, z>>
  <2>. DEFINE w == <<x>> \o <<y, z>>
  <2>1. <<x>> \in Seq(S) /\ <<y, z>> \in Seq(S)
    OBVIOUS
  <2>2. w \in Seq(S) /\ Len(w) = 3 /\ w[1] = x /\ w[2] = y /\ w[3] = z
    BY <2>1
  <2>. HIDE DEF w
  <2>3. w = <<x, y, z>>
    BY <2>2
  <2>. QED
    BY <2>3 DEF w
<1>. QED
  BY <1>1, <1>2, <1>3

LEMMA ReasoningIs ==
    ASSUME NEW m
    PROVE  ReasoningChunks(m) = IF m.reasoning THEN <<C("reasoning", m), C("endthink", m)>>
                                ELSE <<C("endthink", m)>>
<1>. DEFINE x == C("reasoning", m)
            y == C("endthink", m)
            S == {x, y}
<1>1. x \in S /\ y \in S
  OBVIOUS
<1>. HIDE DEF x, y, S
<1>2. <<x>> \o <<y>> = <<x, y>> /\ <<>> \o <<y>> = <<y>>
  BY <1>1, ConcatTuples
<1>. QED
  BY <1>2, Zenon DEF ReasoningChunks, x, y

LEMMA PartsAreTokens ==
    ASSUME NEW ms \in Seq(Turn), NEW i \in 1 .. Len(ms)
    PROVE  /\ Front(ms, i) \in Seq(Opens)
           /\ Calls(ms, i) \in Seq(Opens)
           /\ End(ms, i) \in Seq(Opens)
<1>1. \A kind \in Tokens : C(kind, ms[i]) \in Opens
  <2>1. ms[i].at \in Nat
    BY TurnFields
  <2>. QED
    BY <2>1 DEF C, Opens
<1>. DEFINE Chunks == {C(kind, ms[i]) : kind \in Tokens}
<1>2. Chunks \subseteq Opens
  BY <1>1
<1>3. /\ C("reasoning", ms[i]) \in Opens /\ C("endthink", ms[i]) \in Opens
      /\ C("results", ms[i]) \in Opens /\ C("calls", ms[i]) \in Opens
      /\ C("Assistant", ms[i]) \in Opens /\ C("think", ms[i]) \in Opens
      /\ C("endresults", ms[i]) \in Opens /\ C("task", ms[i]) \in Opens
  BY <1>1 DEF Tokens
<1>4. \A x, y, z \in Opens : <<>> \in Seq(Opens) /\ <<x>> \in Seq(Opens) /\ <<x, y>> \in Seq(Opens)
                             /\ <<x, y, z>> \in Seq(Opens)
  OBVIOUS
<1>5. Front(ms, i) \in Seq(Opens)
  <2>1. ReasoningChunks(ms[i]) = IF ms[i].reasoning
                                 THEN <<C("reasoning", ms[i]), C("endthink", ms[i])>>
                                 ELSE <<C("endthink", ms[i])>>
    BY ReasoningIs
  <2>. QED
    BY <1>3, <1>4, <2>1 DEF Front
<1>6. Calls(ms, i) \in Seq(Opens)
  BY <1>3, <1>4 DEF Calls, CallChunks
<1>7. /\ \A test : Thinks(ms, i, test) \in Opens
      /\ C(Mode, ms[i]) \in Opens
      /\ C(IF thinking /\ (~Drops(ms) \/ i >= LastUser(ms)) THEN "think" ELSE "endthink", ms[i])
            \in Opens
  BY <1>3 DEF Thinks, Mode
<1>8. Transition(ms, i) \in Seq(Opens)
  BY <1>3, <1>4, <1>7 DEF Transition
<1>9. End(ms, i) \in Seq(Opens)
  BY <1>3, <1>4, <1>7, <1>8 DEF End
<1>. QED
  BY <1>5, <1>6, <1>9

LEMMA MiddleType ==
    ASSUME NEW ms \in Seq(Turn), NEW i \in 1 .. Len(ms), ms[i].role # "other"
    PROVE  /\ Middle(ms, i) \in Seq(Chunk)
           /\ \A p \in 1 .. Len(Middle(ms, i)) : Middle(ms, i)[p].kind \in Contents
           /\ IsMerged(encoder, ms[i]) =>
                 /\ Len(Middle(ms, i)) = Len(ms[i].blocks)
                 /\ \A p \in 1 .. Len(ms[i].blocks) :
                       /\ Middle(ms, i)[p].kind = ms[i].blocks[p].type
                       /\ Middle(ms, i)[p].at = ms[i].blocks[p].at
           /\ ~IsMerged(encoder, ms[i]) =>
                 /\ Len(Middle(ms, i)) = 1
                 /\ Middle(ms, i)[1].kind = Kind(ms[i].role)
                 /\ Middle(ms, i)[1].at = ms[i].at
<1>1. /\ ms[i].at \in Nat /\ ms[i].blocks \in Seq(Block) /\ Len(ms[i].blocks) \in Nat
      /\ ms[i].role \in Roles
  BY TurnFields
<1>2. Kind(ms[i].role) \in Contents
  BY <1>1 DEF Kind, Contents, Roles
<1>3. CASE IsMerged(encoder, ms[i])
  <2>1. \A p \in 1 .. Len(ms[i].blocks) :
           /\ ms[i].blocks[p] \in Block
           /\ ms[i].blocks[p].type \in Contents /\ ms[i].blocks[p].at \in Nat
    <3>. SUFFICES ASSUME NEW p \in 1 .. Len(ms[i].blocks)
                  PROVE  /\ ms[i].blocks[p] \in Block
                         /\ ms[i].blocks[p].type \in Contents /\ ms[i].blocks[p].at \in Nat
      OBVIOUS
    <3>1. ms[i].blocks[p] \in Block
      BY <1>1
    <3>. QED
      BY <3>1 DEF Block, Contents
  <2>2. \A p \in 1 .. Len(ms[i].blocks) :
           [kind |-> ms[i].blocks[p].type, at |-> ms[i].blocks[p].at] \in Chunk
    BY <2>1 DEF Chunk
  <2>3. Middle(ms, i) = [k \in 1 .. Len(ms[i].blocks) |->
                            [kind |-> ms[i].blocks[k].type, at |-> ms[i].blocks[k].at]]
    BY <1>3 DEF Middle
  <2>. QED
    BY <1>1, <1>3, <2>1, <2>2, <2>3
<1>4. CASE ~IsMerged(encoder, ms[i])
  <2>1. Middle(ms, i) = <<C(Kind(ms[i].role), ms[i])>>
    BY <1>4 DEF Middle
  <2>2. /\ C(Kind(ms[i].role), ms[i]) \in Chunk
        /\ C(Kind(ms[i].role), ms[i]).kind = Kind(ms[i].role)
        /\ C(Kind(ms[i].role), ms[i]).at = ms[i].at
    BY <1>1, <1>2 DEF C, Chunk
  <2>. QED
    BY <1>2, <1>4, <2>1, <2>2
<1>. QED
  BY <1>3, <1>4

LEMMA RenderedParts ==
    ASSUME encoder \in Encoders, NEW ms \in Seq(Turn), NEW i \in 1 .. Len(ms),
           RefusalOf(ms, i) = "none",
           ms[i].role = "tool" => encoder = "v32"
    PROVE  /\ ms[i].role # "other"
           /\ Rendered(ms, i) = Front(ms, i) \o Middle(ms, i) \o Calls(ms, i) \o End(ms, i)
<1>. DEFINE m == ms[i]
            c == C(Kind(m.role), m)
<1>1. m \in Turn /\ m.role \in Roles /\ m.at \in Nat
  BY TurnFields
<1>2. /\ Front(ms, i) \in Seq(Opens) /\ Calls(ms, i) \in Seq(Opens) /\ End(ms, i) \in Seq(Opens)
  BY PartsAreTokens
<1>3. Opens \subseteq Chunk
  BY DEF Opens, Chunk
<1>4. /\ Front(ms, i) \in Seq(Chunk) /\ Calls(ms, i) \in Seq(Chunk) /\ End(ms, i) \in Seq(Chunk)
  BY <1>2, <1>3
<1>5. \A w \in Seq(Chunk) : <<>> \o w = w /\ w \o <<>> = w
  OBVIOUS
<1>6. CASE encoder = "v32"
  <2>1. RefusalV32(ms, i) = "none"
    BY <1>6 DEF RefusalOf
  <2>2. m.role \notin {"other", "latest_reminder"}
    BY <2>1 DEF RefusalV32
  <2>3. ~IsMerged(encoder, m) /\ Middle(ms, i) = <<c>>
    BY <1>6 DEF IsMerged, Middle
  <2>4. c \in Chunk /\ <<c>> \in Seq(Chunk)
    <3>1. Kind(m.role) \in Contents
      BY <1>1, <2>2 DEF Kind, Contents, Roles
    <3>. QED
      BY <1>1, <3>1 DEF C, Chunk
  <2>5. Rendered(ms, i) = BodyV32(ms, i)
    BY <1>6 DEF Rendered
  <2>. HIDE DEF c
  <2>6. CASE m.role = "system"
    <3>1. Front(ms, i) = <<>> /\ Calls(ms, i) = <<>> /\ End(ms, i) = <<>>
      BY <1>6, <2>6 DEF Front, ShowsReasoning, Calls, End
    <3>2. BodyV32(ms, i) = <<c>>
      BY <2>6 DEF BodyV32, c, Kind
    <3>. QED
      BY <1>4, <1>5, <2>2, <2>3, <2>4, <2>5, <3>1, <3>2
  <2>7. CASE m.role \in {"developer", "user"}
    <3>. DEFINE mode == Thinks(ms, i, i = LastUser(ms))
                a == C("Assistant", m)
    <3>1. Front(ms, i) = <<>> /\ Calls(ms, i) = <<>> /\ End(ms, i) = <<a, mode>>
      BY <1>6, <2>7 DEF Front, ShowsReasoning, Calls, End
    <3>2. BodyV32(ms, i) = <<c, a, mode>>
      BY <2>7 DEF BodyV32, c, Kind, Thinks
    <3>3. <<c>> \o <<a, mode>> = <<c, a, mode>>
      <4>1. <<a, mode>> \in Seq(Chunk) /\ <<a, mode>>[1] = a /\ <<a, mode>>[2] = mode /\ Len(<<a, mode>>) = 2
        BY <1>4, <3>1
      <4>2. a \in Chunk /\ mode \in Chunk
        <5>. HIDE DEF a, mode
        <5>. QED
          BY <4>1
      <4>. HIDE DEF a, mode
      <4>. QED
        BY <2>4, <4>2, ConcatTuples
    <3>4. <<a, mode>> \in Seq(Chunk)
      BY <1>4, <3>1
    <3>. HIDE DEF a, mode
    <3>. QED
      BY <1>5, <2>2, <2>3, <2>4, <2>5, <3>1, <3>2, <3>3, <3>4
  <2>8. CASE m.role = "tool"
    <3>. DEFINE mode == Thinks(ms, i, i >= LastUser(ms))
                e == C("endresults", m)
                r == C("results", m)
    <3>1. /\ Front(ms, i) = IF i - Caller(ms, i) = 1 THEN <<r>> ELSE <<>>
          /\ Calls(ms, i) = <<>>
          /\ End(ms, i) = IF i - Caller(ms, i) = Len(CallsFor(ms, i)) THEN <<e, mode>> ELSE <<>>
      BY <1>6, <2>8 DEF Front, ShowsReasoning, Calls, End
    <3>2. BodyV32(ms, i) = (IF i - Caller(ms, i) = 1 THEN <<r>> ELSE <<>>) \o <<c>>
                           \o (IF i - Caller(ms, i) = Len(CallsFor(ms, i)) THEN <<e, mode>> ELSE <<>>)
      BY <2>8 DEF BodyV32, c, Kind, Thinks
    <3>3. Front(ms, i) \o <<c>> \in Seq(Chunk)
      BY <1>4, <2>4
    <3>4. BodyV32(ms, i) = Front(ms, i) \o <<c>> \o End(ms, i)
      BY <3>1, <3>2
    <3>. HIDE DEF e, mode, r
    <3>. QED
      BY <1>4, <1>5, <2>2, <2>3, <2>5, <3>1, <3>3, <3>4
  <2>9. CASE m.role = "assistant"
    <3>1. End(ms, i) = <<>>
      BY <1>6, <2>9 DEF End
    <3>2. CASE m.calls = <<>> /\ m.prefix
      <4>1. Front(ms, i) = <<>> /\ Calls(ms, i) = <<>>
        BY <1>6, <2>9, <3>2 DEF Front, ShowsReasoning, Calls
      <4>2. BodyV32(ms, i) = <<c>>
        BY <2>9, <3>2 DEF BodyV32, c, Kind
      <4>. QED
        BY <1>5, <2>2, <2>3, <2>4, <2>5, <3>1, <4>1, <4>2
    <3>3. CASE ~(m.calls = <<>> /\ m.prefix)
      <4>1. /\ Front(ms, i) = IF thinking /\ i > LastUser(ms) THEN ReasoningChunks(m) ELSE <<>>
            /\ Calls(ms, i) = CallChunks(m)
        BY <1>6, <2>9, <3>3 DEF Front, ShowsReasoning, Calls
      <4>2. BodyV32(ms, i) = Front(ms, i) \o <<c>> \o Calls(ms, i)
        BY <2>9, <3>3, <4>1 DEF BodyV32, c, Kind
      <4>3. Front(ms, i) \o <<c>> \o Calls(ms, i) \in Seq(Chunk)
        <5>1. Front(ms, i) \o <<c>> \in Seq(Chunk)
          BY <1>4, <2>4
        <5>. QED
          BY <1>4, <5>1
      <4>. QED
        BY <1>5, <2>2, <2>3, <2>5, <3>1, <4>2, <4>3
    <3>. QED
      BY <3>2, <3>3
  <2>. QED
    BY <1>1, <2>2, <2>6, <2>7, <2>8, <2>9 DEF Roles
<1>7. CASE encoder # "v32"
  <2>1. Refusal(ms, i) = "none" /\ m.role # "tool"
    BY <1>7 DEF RefusalOf
  <2>2. m.role # "other"
    BY <2>1 DEF Refusal
  <2>3. Rendered(ms, i) = Body(ms, i) \o End(ms, i)
    BY <1>7 DEF Rendered, End
  <2>4. Middle(ms, i) \in Seq(Chunk)
    BY <2>2, MiddleType
  <2>5. Body(ms, i) = Front(ms, i) \o Middle(ms, i) \o Calls(ms, i)
    <3>1. CASE m.role = "assistant"
      <4>1. /\ Middle(ms, i) = <<C("content", m)>> /\ Calls(ms, i) = CallChunks(m)
            /\ Front(ms, i) = IF /\ thinking /\ ~AfterTask(ms, i)
                                 /\ ~Drops(ms) \/ i > LastUser(ms)
                              THEN ReasoningChunks(m) ELSE <<>>
        BY <1>7, <3>1 DEF Middle, IsMerged, Kind, Calls, Front, ShowsReasoning
      <4>. QED
        BY <3>1, <4>1 DEF Body
    <3>2. CASE m.role # "assistant"
      <4>1. Front(ms, i) = <<>> /\ Calls(ms, i) = <<>>
        BY <1>7, <3>2 DEF Front, ShowsReasoning, Calls
      <4>2. Body(ms, i) = Middle(ms, i)
        BY <1>1, <1>7, <2>1, <2>2, <3>2 DEF Body, Middle, IsMerged, Kind, Roles
      <4>. QED
        BY <1>5, <2>4, <4>1, <4>2
    <3>. QED
      BY <3>1, <3>2
  <2>. QED
    BY <2>2, <2>3, <2>5
<1>. QED
  BY <1>6, <1>7

LEMMA TokensTellNothing ==
    ASSUME NEW w \in Seq(Opens)
    PROVE  Tells(w, {})
<1>1. Opens \subseteq Chunk
  BY DEF Opens, Chunk
<1>2. \A p \in 1 .. Len(w) : w[p].kind \notin Contents
  <2>1. \A p \in 1 .. Len(w) : w[p].kind \in Tokens
    <3>. SUFFICES ASSUME NEW p \in 1 .. Len(w) PROVE w[p].kind \in Tokens
      OBVIOUS
    <3>1. w[p] \in Opens
      OBVIOUS
    <3>. QED
      BY <3>1 DEF Opens
  <2>. QED
    BY <2>1 DEF Tokens, Contents
<1>. QED
  BY <1>1, <1>2 DEF Tells

LEMMA TellsConcat ==
    ASSUME NEW w, NEW v, NEW A, NEW B, Tells(w, A), Tells(v, B), A \cap B = {}
    PROVE  Tells(w \o v, A \cup B)
<1>. DEFINE u == w \o v
            n == Len(w)
<1>1. /\ w \in Seq(Chunk) /\ v \in Seq(Chunk) /\ n \in Nat /\ Len(v) \in Nat
      /\ u \in Seq(Chunk) /\ Len(u) = n + Len(v)
      /\ \A p \in 1 .. n : u[p] = w[p]
      /\ \A p \in 1 .. Len(v) : u[n + p] = v[p]
  BY ConcatProperties DEF Tells
<1>. HIDE DEF u, n
<1>2. \A p \in 1 .. Len(u) : p \in 1 .. n \/ (p - n \in 1 .. Len(v) /\ p = n + (p - n))
  BY <1>1
<1>3. n = Len(w)
  BY DEF n
<1>4. ASSUME NEW p \in 1 .. Len(u), u[p].kind \in Contents
      PROVE  \/ p \in 1 .. n /\ u[p] = w[p] /\ u[p].at \in A
             \/ p - n \in 1 .. Len(v) /\ u[p] = v[p - n] /\ u[p].at \in B
  <2>1. CASE p \in 1 .. n
    BY <1>1, <1>3, <1>4, <2>1 DEF Tells
  <2>2. CASE p - n \in 1 .. Len(v) /\ p = n + (p - n)
    <3>1. u[p] = v[p - n]
      BY <1>1, <2>2
    <3>. QED
      BY <1>4, <2>2, <3>1 DEF Tells
  <2>. QED
    BY <1>2, <2>1, <2>2
<1>5. \A p \in 1 .. Len(u) : u[p].kind \in Contents => u[p].at \in A \cup B
  BY <1>4
<1>6. ASSUME NEW a \in A \cup B
      PROVE  \E p \in 1 .. Len(u) : u[p].kind \in Contents /\ u[p].at = a
  <2>1. CASE a \in A
    <3>1. PICK p \in 1 .. Len(w) : w[p].kind \in Contents /\ w[p].at = a
      BY <2>1 DEF Tells
    <3>2. p \in 1 .. Len(u) /\ u[p] = w[p]
      BY <1>1, <1>3
    <3>. QED
      BY <3>1, <3>2
  <2>2. CASE a \in B
    <3>1. PICK p \in 1 .. Len(v) : v[p].kind \in Contents /\ v[p].at = a
      BY <2>2 DEF Tells
    <3>2. n + p \in 1 .. Len(u) /\ u[n + p] = v[p]
      BY <1>1
    <3>. QED
      BY <3>1, <3>2
  <2>. QED
    BY <2>1, <2>2
<1>7. ASSUME NEW p \in 1 .. Len(u), NEW q \in 1 .. Len(u),
             u[p].kind \in Contents, u[q].kind \in Contents, u[p].at = u[q].at
      PROVE  p = q
  <2>1. CASE p \in 1 .. n /\ q \in 1 .. n /\ u[p] = w[p] /\ u[q] = w[q]
    <3>. HIDE DEF u
    <3>. QED
      BY <1>3, <1>7, <2>1 DEF Tells
  <2>2. CASE p - n \in 1 .. Len(v) /\ q - n \in 1 .. Len(v) /\ u[p] = v[p - n] /\ u[q] = v[q - n]
    <3>1. p - n = q - n
      BY <1>7, <2>2 DEF Tells
    <3>. QED
      BY <1>1, <3>1
  <2>3. ~(u[p].at \in A /\ u[q].at \in B) /\ ~(u[p].at \in B /\ u[q].at \in A)
    BY <1>7
  <2>. QED
    BY <1>4, <1>7, <2>1, <2>2, <2>3
<1>. QED
  BY <1>1, <1>5, <1>6, <1>7 DEF Tells, u

LEMMA RenderedTells ==
    ASSUME Types, LeftInv, NEW i \in 1 .. Len(conversation), RefusalOf(conversation, i) = "none"
    PROVE  Tells(Rendered(conversation, i),
                 {a \in First(hasTools) .. Len(sent) : Has(encoder, conversation[i], a)})
<1>. DEFINE t == conversation[i]
            A == {a \in First(hasTools) .. Len(sent) : Has(encoder, t, a)}
            w == Middle(conversation, i)
<1>1. /\ conversation \in Seq(Turn) /\ t \in Turn /\ TurnFits(sent, hasTools, encoder, t)
      /\ encoder \in Encoders
  BY DEF Types, LeftInv, Line
<1>2. t.role = "tool" => encoder = "v32"
  BY <1>1 DEF TurnFits, IsMerged
<1>3. /\ t.role # "other"
      /\ Rendered(conversation, i) = Front(conversation, i) \o w \o Calls(conversation, i)
                                     \o End(conversation, i)
  BY <1>1, <1>2, RenderedParts
<1>4. Tells(w, A)
  <2>1. /\ w \in Seq(Chunk)
        /\ \A p \in 1 .. Len(w) : w[p].kind \in Contents
    BY <1>1, <1>3, MiddleType
  <2>2. CASE IsMerged(encoder, t)
    <3>1. /\ Len(w) = Len(t.blocks)
          /\ \A p \in 1 .. Len(t.blocks) : w[p].at = t.blocks[p].at
      BY <1>1, <1>3, <2>2, MiddleType
    <3>2. BlocksFit(sent, t) /\ t.at \in First(hasTools) .. Len(sent)
      BY <1>1, <2>2 DEF TurnFits
    <3>3. \A a : Has(encoder, t, a) <=> \E p \in 1 .. Len(t.blocks) : t.blocks[p].at = a
      BY <2>2 DEF Has
    <3>4. \A p \in 1 .. Len(t.blocks) : t.blocks[p].at \in First(hasTools) .. Len(sent)
      <4>1. \A p \in 1 .. Len(t.blocks) : t.blocks[p].at \in 1 .. Len(sent)
        BY <3>2 DEF BlocksFit, BlockFits
      <4>. QED
        BY <4>1 DEF First
    <3>5. \A p \in 1 .. Len(w) : w[p].at \in A
      <4>. HIDE DEF w, t
      <4>. QED
        BY <3>1, <3>3, <3>4
    <3>6. \A a \in A : \E p \in 1 .. Len(w) : w[p].at = a
      <4>. HIDE DEF w, t
      <4>. QED
        BY <3>1, <3>3
    <3>7. \A p, q \in 1 .. Len(w) : w[p].at = w[q].at => p = q
      <4>1. \A p, q \in 1 .. Len(t.blocks) : t.blocks[p].at = t.blocks[q].at => p = q
        BY <3>2 DEF BlocksFit
      <4>. HIDE DEF w, t
      <4>. QED
        BY <3>1, <4>1
    <3>. HIDE DEF w, A
    <3>. QED
      BY <2>1, <3>5, <3>6, <3>7 DEF Tells
  <2>3. CASE ~IsMerged(encoder, t)
    <3>1. Len(w) = 1 /\ w[1].at = t.at
      BY <1>1, <1>3, <2>3, MiddleType
    <3>2. A = {t.at}
      BY <1>1, <2>3 DEF Has, TurnFits
    <3>3. \A p \in 1 .. Len(w) : p = 1 /\ 1 \in 1 .. Len(w)
      <4>. HIDE DEF w
      <4>. QED
        BY <3>1
    <3>4. 1 \in 1 .. Len(w)
      <4>. HIDE DEF w
      <4>. QED
        BY <3>1
    <3>. HIDE DEF w, A
    <3>. QED
      BY <2>1, <3>1, <3>2, <3>3, <3>4 DEF Tells
  <2>. QED
    BY <2>2, <2>3
<1>5. /\ Tells(Front(conversation, i), {}) /\ Tells(Calls(conversation, i), {})
      /\ Tells(End(conversation, i), {})
  BY <1>1, PartsAreTokens, TokensTellNothing
<1>. HIDE DEF w, A
<1>6. Tells(Front(conversation, i) \o w, {} \cup A)
  BY <1>4, <1>5, TellsConcat
<1>7. Tells(Front(conversation, i) \o w, A)
  BY <1>6
<1>8. Tells((Front(conversation, i) \o w) \o Calls(conversation, i), A \cup {})
  BY <1>5, <1>7, TellsConcat
<1>9. Tells((Front(conversation, i) \o w) \o Calls(conversation, i), A)
  BY <1>8
<1>10. Tells(((Front(conversation, i) \o w) \o Calls(conversation, i)) \o End(conversation, i), A \cup {})
  BY <1>5, <1>9, TellsConcat
<1>. QED
  BY <1>3, <1>10 DEF A

LEMMA RenderStep ==
    ASSUME IInv, Render
    PROVE  IInv'
<1>1. Types /\ LeftInv /\ PromptInv /\ stage = "render" /\ error # "malformed"
  BY TypesHold DEF IInv, Rendering, Render
<1>2. /\ UNCHANGED <<inputs, stage, conversation, written, order, error>>
      /\ next' = next + 1 /\ next \in Nat \ {0}
      /\ prompt' = prompt \o Rendered(conversation, next)
      /\ RefusalOf(conversation, next) = "none"
  BY <1>1 DEF Render, Types
<1>3. /\ sent \in Seq(Message) /\ Len(sent) \in Nat /\ First(hasTools) \in 0 .. 1
      /\ conversation \in Seq(Turn) /\ Len(conversation) \in Nat
  BY <1>1 DEF Types, First
<1>4. next \in 1 .. Len(conversation)
  BY <1>2, <1>3 DEF RefusalOf
<1>. DEFINE A == {a \in First(hasTools) .. Len(sent) : Has(encoder, conversation[next], a)}
<1>5. Tells(Rendered(conversation, next), A)
  BY <1>1, <1>2, <1>4, RenderedTells
<1>6. Reached(next) = Reached(next - 1) \cup A
  <2>1. \A a : Reaches(encoder, conversation, next, a)
               <=> Reaches(encoder, conversation, next - 1, a) \/ Has(encoder, conversation[next], a)
    BY <1>2, ReachesNext
  <2>. QED
    BY <2>1 DEF Reached
<1>7. Reached(next - 1) \cap A = {}
  <2>. SUFFICES ASSUME NEW a \in First(hasTools) .. Len(sent),
                       Reaches(encoder, conversation, next - 1, a),
                       Has(encoder, conversation[next], a)
                PROVE  FALSE
    BY DEF Reached
  <2>1. PICK i \in 1 .. next - 1 : Has(encoder, conversation[i], a)
    BY DEF Reaches
  <2>2. i \in 1 .. Len(conversation) /\ i < next /\ a \in 0 .. Len(sent)
    BY <1>3, <1>4
  <2>3. a < conversation[next].at
    BY <1>1, <1>4, <2>1, <2>2 DEF LeftInv, Line
  <2>4. conversation[next].at <= a /\ conversation[next].at \in First(hasTools) .. Len(sent)
    <3>1. conversation[next] \in Turn /\ TurnFits(sent, hasTools, encoder, conversation[next])
      BY <1>1, <1>3, <1>4 DEF LeftInv, Line
    <3>. QED
      BY <1>1, <2>2, <3>1, TurnFacts
  <2>. QED
    BY <1>3, <2>2, <2>3, <2>4
<1>8. Tells(prompt \o Rendered(conversation, next), Reached(next))
  <2>1. Tells(prompt, Reached(next - 1))
    BY <1>1 DEF PromptInv
  <2>. HIDE DEF A
  <2>. QED
    BY <1>5, <1>6, <1>7, <2>1, TellsConcat
<1>9. PromptInv'
  <2>1. next' - 1 = next /\ next' <= Len(conversation') + 1
    BY <1>2, <1>3, <1>4
  <2>2. Reached(next - 1)' = Reached(next)
    BY <1>2, <2>1 DEF Reached, inputs
  <2>3. stage' # "done"
    BY <1>1, <1>2
  <2>. QED
    BY <1>2, <1>8, <2>1, <2>2, <2>3 DEF PromptInv
<1>10. LeftInv' /\ Line(sent, hasTools, encoder, conversation)'
  <2>1. Parsed' = Parsed /\ \A a : Gone(a)' <=> Gone(a)
    BY <1>2 DEF Parsed, Gone, Forgotten, IsForgetful, InLastTurn, Turns, inputs
  <2>. QED
    BY <1>1, <1>2, <2>1 DEF LeftInv, inputs
<1>11. Types'
  <2>1. prompt' \in Seq(Chunk)
    BY <1>2, <1>8 DEF Tells
  <2>. QED
    BY <1>1, <1>2, <2>1 DEF Types, inputs
<1>12. TypeOK'
  BY <1>10, <1>11, LineHasShape DEF Types, TypeOK
<1>. QED
  BY <1>1, <1>2, <1>9, <1>10, <1>12 DEF IInv, Rendering

LEMMA LastSteps ==
    ASSUME IInv, Raise \/ EndRender
    PROVE  IInv'
<1>1. Types /\ LeftInv /\ PromptInv /\ stage = "render" /\ error # "malformed"
  BY TypesHold DEF IInv, Rendering, Raise, EndRender
<1>2. /\ UNCHANGED <<inputs, next, conversation, written, order, prompt>>
      /\ stage' = "done"
  BY DEF Raise, EndRender
<1>3. /\ error' \in {"none", "role", "developer", "task", "order", "reasoning", "range"} \cup {error}
      /\ error' = "none" => next > Rounds
  <2>1. CASE Raise
    <3>1. error' = RefusalOf(conversation, next) /\ error' # "none"
      BY <2>1 DEF Raise
    <3>2. RefusalOf(conversation, next) \in {"none", "role", "developer", "task", "order", "reasoning", "range"}
      BY DEF RefusalOf, Refusal, RefusalV32
    <3>. QED
      BY <3>1, <3>2
  <2>2. CASE EndRender
    BY <2>2 DEF EndRender
  <2>. QED
    BY <2>1, <2>2
<1>4. LeftInv'
  <2>1. Parsed' = Parsed /\ \A a : Gone(a)' <=> Gone(a)
    BY <1>2 DEF Parsed, Gone, Forgotten, IsForgetful, InLastTurn, Turns, inputs
  <2>. QED
    BY <1>1, <1>2, <2>1 DEF LeftInv, inputs
<1>5. PromptInv'
  <2>1. Reached(next - 1)' = Reached(next - 1) /\ Rounds' = Rounds
    BY <1>2 DEF Reached, Rounds, Parsed, inputs
  <2>. QED
    BY <1>1, <1>2, <1>3, <2>1 DEF PromptInv
<1>6. Types'
  BY <1>1, <1>2, <1>3 DEF Types, inputs, Stages
<1>7. TypeOK'
  BY <1>2, <1>6 DEF Types, TypeOK
<1>. QED
  BY <1>1, <1>2, <1>4, <1>5, <1>7 DEF IInv, Rendering

--------------------------------------------------------------------------------
(***************************************************************************)
(* The theorems                                                            *)
(***************************************************************************)
THEOREM IsInvariant == Spec => []IInv
<1>1. Init => IInv
  BY InitStep
<1>2. IInv /\ [Next]_vars => IInv'
  <2>1. IInv /\ UNCHANGED vars => IInv'
    <3>. SUFFICES ASSUME IInv, UNCHANGED vars PROVE IInv'
      OBVIOUS
    <3>1. /\ TypeOK' = TypeOK /\ Parsed' = Parsed /\ Forgets' = Forgets /\ Rounds' = Rounds
          /\ Reached(next - 1)' = Reached(next - 1)
          /\ \A a : Gone(a)' <=> Gone(a)
      BY DEF vars, inputs, TypeOK, Parsed, Forgets, Drops, Rounds, Reached, Gone, Forgotten,
             IsForgetful, InLastTurn, Turns
    <3>2. /\ MergeInv' = MergeInv /\ WholeInv' = WholeInv /\ PromptInv' = PromptInv
          /\ Rendering' = Rendering
      BY <3>1 DEF vars, inputs, MergeInv, WholeInv, PromptInv, Rendering
    <3>3. LeftInv => LeftInv'
      BY <3>1 DEF vars, inputs, LeftInv
    <3>4. ForgetInv => ForgetInv'
      BY <3>1 DEF vars, inputs, ForgetInv
    <3>. QED
      BY <3>1, <3>2, <3>3, <3>4 DEF vars, inputs, IInv
  <2>. QED
    BY <2>1, ParseStep, RefuseToParseStep, MergeInvStep, EndMergeStep, SortStep, EndSortStep,
       ForgetStep, EndForgetStep, RenderStep, LastSteps DEF Next
<1>. QED
  BY <1>1, <1>2, PTL DEF Spec

\* Turns, chunks and everything the passes keep have their types, whatever the conversation.
THEOREM TypeCorrect == Spec => []TypeOK
<1>1. IInv => TypeOK
  BY DEF IInv
<1>. QED
  BY <1>1, IsInvariant, PTL

\* What the finished prompt tells are the messages that are not forgotten.
LEMMA EncodedTells ==
    ASSUME IInv, Encoded
    PROVE  /\ Types /\ LeftInv
           /\ next = Len(conversation) + 1
           /\ Tells(prompt, {a \in First(hasTools) .. Len(sent) : ~Gone(a)})
<1>1. Types /\ LeftInv /\ PromptInv
  BY TypesHold DEF IInv, Rendering, Encoded
<1>2. /\ Len(conversation) \in Nat /\ next \in Nat /\ next <= Len(conversation) + 1 /\ next > Rounds
      /\ Len(Parsed) \in Nat
  <2>1. Len(Parsed) \in Nat
    BY <1>1, ParsedFacts DEF Types
  <2>. QED
    BY <1>1, <2>1 DEF PromptInv, Encoded, Types
<1>3. next = Len(conversation) + 1
  BY <1>1, <1>2 DEF Rounds, LeftInv
<1>4. Reached(next - 1) = {a \in First(hasTools) .. Len(sent) : ~Gone(a)}
  <2>1. next - 1 = Len(conversation)
    BY <1>2, <1>3
  <2>. QED
    BY <1>1, <2>1 DEF Reached, LeftInv
<1>. QED
  BY <1>1, <1>3, <1>4 DEF PromptInv

\* Every message that is not forgotten is in the prompt once, with any number of messages,
\* calls and results, in any order.
THEOREM MessagesAreOnce == Spec => []EveryMessageOnce
<1>1. IInv => EveryMessageOnce
  <2>. SUFFICES ASSUME IInv, Encoded, NEW i \in 1 .. Len(sent)
                PROVE  Cardinality({p \in 1 .. Len(prompt) :
                                        prompt[p].kind \in Contents /\ prompt[p].at = i})
                           = IF Forgotten(i) THEN 0 ELSE 1
    BY DEF EveryMessageOnce
  <2>. DEFINE P == {p \in 1 .. Len(prompt) : prompt[p].kind \in Contents /\ prompt[p].at = i}
              A == {a \in First(hasTools) .. Len(sent) : ~Gone(a)}
  <2>1. Tells(prompt, A) /\ Types
    BY EncodedTells
  <2>2. i \in A <=> ~Forgotten(i)
    BY <2>1 DEF First, Gone, Types
  <2>3. CASE Forgotten(i)
    <3>1. P = {}
      <4>. HIDE DEF A
      <4>. QED
        BY <2>1, <2>2, <2>3 DEF Tells
    <3>. QED
      BY <2>3, <3>1, FS_EmptySet
  <2>4. CASE ~Forgotten(i)
    <3>1. PICK p \in 1 .. Len(prompt) : prompt[p].kind \in Contents /\ prompt[p].at = i
      <4>. HIDE DEF A
      <4>. QED
        BY <2>1, <2>2, <2>4 DEF Tells
    <3>2. P = {p}
      <4>1. \A q \in 1 .. Len(prompt) : prompt[q].kind \in Contents /\ prompt[q].at = i => q = p
        <5>. HIDE DEF A
        <5>. QED
          BY <2>1, <3>1 DEF Tells
      <4>. QED
        BY <3>1, <4>1
    <3>3. Cardinality({p}) = 1
      BY FS_Singleton
    <3>. QED
      BY <2>4, <3>2, <3>3
  <2>. QED
    BY <2>3, <2>4
<1>. QED
  BY <1>1, IsInvariant, PTL
================================================================================
