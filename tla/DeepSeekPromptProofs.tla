------------------------- MODULE DeepSeekPromptProofs ------------------------
(***************************************************************************)
(* Proofs about what DeepSeekEncodings renders.  On top of IInv of         *)
(* DeepSeekProofs there is one invariant for each question: TurnsInv       *)
(* follows the turns of users through merging and sorting, PlacesInv what  *)
(* stands where in the prompt, ReasoningInv the reasoning of answers, and  *)
(* ClosedInv the tokens that open and close it.                            *)
(***************************************************************************)
EXTENDS DeepSeekProofs

--------------------------------------------------------------------------------
(***************************************************************************)
(* The turns of users                                                      *)
(***************************************************************************)
IsCalling(s, j) == s[j].role = "assistant" /\ s[j].calls # <<>>

\* j is the last of the messages before n that has calls.
LastCall(s, j, n) ==
    /\ j \in 1 .. n - 1
    /\ IsCalling(s, j)
    /\ \A l \in j + 1 .. n - 1 : ~IsCalling(s, l)

InCallOrder(blocks, calls) ==
    \A x, y \in Results(blocks) : x < y => Key(blocks[x], calls) <= Key(blocks[y], calls)

IsSorted(s, t) ==
    \A j \in 1 .. Len(s) : LastCall(s, j, t.at) => InCallOrder(t.blocks, s[j].calls)

\* Of the messages before n, the next one could not be merged into t.
RunEnds(s, t, n) ==
    Last(t) + 1 < n =>
        /\ s[Last(t) + 1].role # "tool"
        /\ s[Last(t) + 1].role = "user" => t.task # "none"

RunsEnd(s, e, ms, n) == \A i \in 1 .. Len(ms) : IsMerged(e, ms[i]) => RunEnds(s, ms[i], n)
AreSorted(s, e, ms, n) == \A i \in 1 .. n : IsMerged(e, ms[i]) => IsSorted(s, ms[i])

\* The calls the pass sorts by are the last ones before the turn it has come to.
OrderFits ==
    next <= Len(conversation) =>
        \A j \in 1 .. Len(sent) : LastCall(sent, j, conversation[next].at) => order = sent[j].calls

TurnsInv ==
    /\ stage = "parse" => conversation = <<>>
    /\ stage = "merge" => RunsEnd(sent, encoder, written, next - 1 + First(hasTools))
    /\ stage \in {"sort", "forget", "render", "done"} =>
          RunsEnd(sent, encoder, conversation, Len(sent) + 1)
    /\ stage = "sort" =>
          /\ next <= Len(conversation) + 1
          /\ AreSorted(sent, encoder, conversation, next - 1)
          /\ OrderFits
    /\ stage \in {"forget", "render", "done"} =>
          AreSorted(sent, encoder, conversation, Len(conversation))
    /\ stage = "forget" =>
          /\ RunsEnd(sent, encoder, written, Len(sent) + 1)
          /\ AreSorted(sent, encoder, written, Len(written))

LEMMA RunsGrow ==
    ASSUME NEW s \in Seq(Message), NEW h \in BOOLEAN, NEW e \in Encoders, e # "v32",
           NEW ms \in Seq(Turn), Line(s, h, e, ms), NEW n \in First(h) .. Len(s),
           \A i \in 1 .. Len(ms) : ms[i].at < n,
           \A i \in 1 .. Len(ms) : \A a \in 0 .. Len(s) : Has(e, ms[i], a) => a < n,
           \A a \in First(h) .. n - 1 : Reaches(e, ms, Len(ms), a),
           RunsEnd(s, e, ms, n)
    PROVE  RunsEnd(s, e, Merged(ms, Original(s, n)), n + 1)
<1>. DEFINE m == Original(s, n)
            ms2 == Merged(ms, m)
            z == Len(ms)
<1>1. /\ Len(s) \in Nat /\ First(h) \in 0 .. 1 /\ n \in 0 .. Len(s) /\ z \in Nat
      /\ m \in Turn /\ m.at = n /\ m.blocks = <<>>
      /\ n > 0 => m.role = s[n].role
      /\ m.role \in {"user", "tool"} => n > 0
  <2>1. Len(s) \in Nat /\ First(h) \in 0 .. 1 /\ n \in 0 .. Len(s) /\ z \in Nat
    BY DEF First
  <2>. QED
    BY <2>1, OriginalFacts
<1>2. ASSUME NEW i \in 1 .. z, IsMerged(e, ms[i]), Last(ms[i]) + 1 = n
      PROVE  i = z /\ EndsWithUser(ms)
  <2>1. ms[i] \in Turn /\ TurnFits(s, h, e, ms[i]) /\ BlocksFit(s, ms[i]) /\ ms[i].at \in Nat
    BY <1>2, TurnFields DEF Line, TurnFits
  <2>2. Last(ms[i]) \in ms[i].at .. Last(ms[i]) /\ Last(ms[i]) = n - 1 /\ n - 1 \in 0 .. Len(s)
    <3>1. ms[i].at <= Last(ms[i]) /\ Len(ms[i].blocks) \in Nat
      BY <2>1, TurnFields DEF BlocksFit
    <3>2. Last(ms[i]) \in Int
      BY <2>1, <3>1 DEF Last
    <3>. QED
      BY <1>1, <1>2, <2>1, <3>1, <3>2
  <2>3. Has(e, ms[i], n - 1)
    BY <1>2, <2>1, <2>2 DEF Has, BlocksFit
  <2>4. i < z => n - 1 < ms[z].at
    BY <1>1, <2>2, <2>3 DEF Line
  <2>5. ms[z].at \in Nat /\ ms[z].at < n
    BY <1>1, TurnFields
  <2>6. i = z
    BY <1>1, <2>4, <2>5
  <2>. QED
    BY <1>1, <1>2, <2>6 DEF EndsWithUser, IsMerged
<1>3. ASSUME NEW i \in 1 .. z, IsMerged(e, ms[i]),
             Last(ms[i]) + 1 = n => m.role # "tool" /\ (m.role = "user" => ms[i].task # "none")
      PROVE  RunEnds(s, ms[i], n + 1)
  <2>1. ms[i].at \in Nat /\ Len(ms[i].blocks) \in Nat /\ Last(ms[i]) \in Int
    BY TurnFields DEF Last
  <2>2. RunEnds(s, ms[i], n)
    BY <1>3 DEF RunsEnd
  <2>3. CASE Last(ms[i]) + 1 < n
    BY <1>1, <2>1, <2>2, <2>3 DEF RunEnds
  <2>4. CASE Last(ms[i]) + 1 = n
    <3>1. n > 0
      <4>1. BlocksFit(s, ms[i])
        BY <1>3 DEF Line, TurnFits
      <4>. QED
        BY <2>1, <2>4, <4>1 DEF BlocksFit
    <3>. QED
      BY <1>1, <1>3, <2>4, <3>1 DEF RunEnds
  <2>5. CASE ~(Last(ms[i]) + 1 < n) /\ Last(ms[i]) + 1 # n
    BY <1>1, <2>1, <2>5 DEF RunEnds
  <2>. QED
    BY <2>3, <2>4, <2>5
<1>4. ASSUME NEW t \in Turn, t.at = n, Len(t.blocks) = 1
      PROVE  RunEnds(s, t, n + 1)
  BY <1>1, <1>4 DEF RunEnds, Last
<1>. HIDE DEF m
<1>5. ASSUME NEW t \in Turn, ms2 = Append(ms, t), t.at = n, t.role = "user" => Len(t.blocks) = 1,
             EndsWithUser(ms) => m.role # "tool" /\ (m.role = "user" => ms[z].task # "none")
      PROVE  RunsEnd(s, e, ms2, n + 1)
  <2>1. /\ Len(ms2) = z + 1 /\ ms2[z + 1] = t
        /\ \A i \in 1 .. z : ms2[i] = ms[i]
        /\ \A i \in 1 .. z + 1 : i \in 1 .. z \/ i = z + 1
    BY <1>5
  <2>. HIDE DEF ms2
  <2>2. \A i \in 1 .. z : IsMerged(e, ms[i]) => RunEnds(s, ms[i], n + 1)
    BY <1>2, <1>3, <1>5
  <2>3. IsMerged(e, t) => RunEnds(s, t, n + 1)
    BY <1>4, <1>5 DEF IsMerged
  <2>. QED
    BY <2>1, <2>2, <2>3 DEF RunsEnd
<1>6. ASSUME NEW b, ms2 = AppendBlock(ms, b), EndsWithUser(ms)
      PROVE  RunsEnd(s, e, ms2, n + 1)
  <2>1. z \in 1 .. z /\ ms[z] \in Turn /\ ms[z].role = "user"
    BY <1>1, <1>6 DEF EndsWithUser
  <2>. DEFINE t == [ms[z] EXCEPT !.blocks = Append(ms[z].blocks, b)]
  <2>2. /\ t.at = ms[z].at /\ t.role = "user" /\ t.blocks = Append(ms[z].blocks, b)
        /\ t.task = ms[z].task
    BY <2>1 DEF Turn
  <2>3. Len(t.blocks) = Len(ms[z].blocks) + 1 /\ Len(ms[z].blocks) \in Nat /\ ms[z].at \in Nat
    BY <2>1, <2>2, TurnFields
  <2>4. /\ Len(ms2) = z /\ ms2[z] = t
        /\ \A i \in 1 .. z : i # z => ms2[i] = ms[i]
    <3>1. ms2 = [ms EXCEPT ![z] = t]
      BY <1>6 DEF AppendBlock
    <3>. HIDE DEF t, ms2
    <3>. QED
      BY <2>1, <3>1
  <2>. HIDE DEF t, ms2
  <2>5. \A i \in 1 .. z : i # z /\ IsMerged(e, ms[i]) => RunEnds(s, ms[i], n + 1)
    BY <1>2, <1>3
  <2>6. RunEnds(s, t, n + 1)
    <3>1. IsMerged(e, ms[z])
      BY <2>1 DEF IsMerged
    <3>2. Last(t) = Last(ms[z]) + 1
      BY <2>2, <2>3 DEF Last
    <3>3. Last(ms[z]) = n - 1
      BY <1>6, LastMerged
    <3>. QED
      BY <1>1, <3>2, <3>3 DEF RunEnds
  <2>. QED
    BY <2>4, <2>5, <2>6 DEF RunsEnd
<1>7. CASE m.role = "tool" /\ EndsWithUser(ms)
  <2>1. ms2 = AppendBlock(ms, ResultBlock(m))
    BY <1>7 DEF Merged
  <2>. QED
    BY <1>6, <1>7, <2>1 DEF m
<1>8. CASE m.role = "tool" /\ ~EndsWithUser(ms)
  <2>. DEFINE t == [m EXCEPT !.role = "user", !.task = "none", !.call = NoId,
                             !.blocks = <<ResultBlock(m)>>]
  <2>1. ms2 = Append(ms, t)
    BY <1>8 DEF Merged
  <2>2. t \in Turn /\ t.at = n /\ Len(t.blocks) = 1
    <3>1. ResultBlock(m) \in Block
      BY <1>1 DEF ResultBlock, Block, Turn
    <3>2. <<ResultBlock(m)>> \in Seq(Block)
      BY <3>1
    <3>3. t \in Turn /\ t.at = n /\ t.blocks = <<ResultBlock(m)>>
      BY <1>1, <3>2 DEF Turn, Roles, Tasks, Ids
    <3>. QED
      BY <3>3
  <2>. HIDE DEF t, ms2
  <2>. QED
    BY <1>5, <1>8, <2>1, <2>2 DEF m, ms2
<1>9. CASE m.role = "user" /\ EndsWithUser(ms) /\ ms[z].task = "none"
  <2>1. ms2 = AppendBlock(ms, TextBlock(m))
    BY <1>9 DEF Merged
  <2>. QED
    BY <1>6, <1>9, <2>1 DEF m
<1>10. CASE m.role = "user" /\ ~(EndsWithUser(ms) /\ ms[z].task = "none")
  <2>. DEFINE t == [m EXCEPT !.blocks = <<TextBlock(m)>>]
  <2>1. ms2 = Append(ms, t)
    BY <1>10 DEF Merged
  <2>2. t \in Turn /\ t.at = n /\ Len(t.blocks) = 1
    <3>1. TextBlock(m) \in Block
      BY <1>1 DEF TextBlock, Block, Turn, Ids
    <3>2. <<TextBlock(m)>> \in Seq(Block)
      BY <3>1
    <3>3. t \in Turn /\ t.at = n /\ t.blocks = <<TextBlock(m)>>
      BY <1>1, <3>2 DEF Turn
    <3>. QED
      BY <3>3
  <2>. HIDE DEF t, ms2
  <2>. QED
    BY <1>5, <1>10, <2>1, <2>2 DEF m, ms2
<1>11. CASE m.role \notin {"tool", "user"}
  <2>1. ms2 = Append(ms, m)
    BY <1>11 DEF Merged
  <2>. HIDE DEF ms2
  <2>. QED
    BY <1>1, <1>5, <1>11, <2>1 DEF m, ms2
<1>. QED
  BY <1>7, <1>8, <1>9, <1>10, <1>11

LEMMA SortedIsInOrder ==
    ASSUME NEW blocks \in Seq(Block), NEW calls \in Seq(Ids)
    PROVE  InCallOrder(Sorted(blocks, calls), calls)
<1>. DEFINE u == Sorted(blocks, calls)
            n == Len(blocks)
            R == Results(blocks)
<1>1. Len(u) = n /\ n \in Nat
  BY SortedPermutes
<1>2. PICK f \in [1 .. n -> 1 .. n] : Permutes(f, blocks, calls)
  BY SortedPermutes
<1>. HIDE DEF u
<1>3. \A i \in 1 .. n : /\ u[i] = blocks[f[i]]
                        /\ i \in R => f[i] \in R
                        /\ i \notin R => f[i] = i
  BY <1>2 DEF Permutes, u
<1>4. ASSUME NEW i \in Results(u) PROVE i \in R
  <2>1. i \in 1 .. n /\ u[i].type = "result"
    BY <1>1 DEF Results
  <2>2. i \notin R => blocks[i].type = "result"
    BY <1>3, <2>1
  <2>. QED
    BY <2>1, <2>2 DEF Results
<1>5. ASSUME NEW i \in R, NEW j \in R, i < j
      PROVE  Key(u[i], calls) <= Key(u[j], calls)
  <2>1. i \in 1 .. n /\ j \in 1 .. n
    BY DEF Results
  <2>2. f[i] \in Ahead(blocks, calls, f[j])
    BY <1>2, <1>5 DEF Permutes
  <2>3. Key(blocks[f[i]], calls) \in Nat /\ Key(blocks[f[j]], calls) \in Nat
    BY KeyType
  <2>4. Key(blocks[f[i]], calls) <= Key(blocks[f[j]], calls)
    BY <2>2, <2>3 DEF Ahead
  <2>. QED
    BY <1>3, <2>1, <2>4
<1>. QED
  BY <1>4, <1>5 DEF InCallOrder, u

\* What need not be sorted is in order: one result, or calls without ids.
LEMMA UnsortedIsInOrder ==
    ASSUME NEW blocks \in Seq(Block), NEW calls \in Seq(Ids),
           \/ ~(Cardinality(Results(blocks)) > 1)
           \/ \A k \in 1 .. Len(calls) : calls[k] = NoId
    PROVE  InCallOrder(blocks, calls)
<1>. SUFFICES ASSUME NEW x \in Results(blocks), NEW y \in Results(blocks), x < y
              PROVE  Key(blocks[x], calls) <= Key(blocks[y], calls)
  BY DEF InCallOrder
<1>1. CASE \A k \in 1 .. Len(calls) : calls[k] = NoId
  <2>1. Key(blocks[x], calls) = 1 /\ Key(blocks[y], calls) = 1
    BY <1>1 DEF Key
  <2>. QED
    BY <2>1
<1>2. CASE ~(Cardinality(Results(blocks)) > 1)
  <2>1. Results(blocks) \in SUBSET (1 .. Len(blocks)) /\ Len(blocks) \in Nat
    BY DEF Results
  <2>2. IsFiniteSet(Results(blocks))
    <3>1. IsFiniteSet(1 .. Len(blocks))
      BY <2>1, FS_Interval
    <3>. QED
      BY <2>1, <3>1, FS_Subset
  <2>. DEFINE X == {x}
              T == X \cup {y}
  <2>3. T \in SUBSET Results(blocks) /\ y \notin X
    BY <2>1
  <2>4. Cardinality(X) = 1 /\ IsFiniteSet(X)
    BY FS_Singleton
  <2>. HIDE DEF X
  <2>5. Cardinality(T) = Cardinality(X) + 1
    BY <2>3, <2>4, FS_AddElement
  <2>. HIDE DEF T
  <2>6. Cardinality(T) <= Cardinality(Results(blocks))
    BY <2>2, <2>3, FS_Subset
  <2>7. Cardinality(Results(blocks)) \in Nat
    BY <2>2, FS_CardinalityType
  <2>. QED
    BY <1>2, <2>4, <2>5, <2>6, <2>7
<1>. QED
  BY <1>1, <1>2

LEMMA MergeTurns ==
    ASSUME IInv, TurnsInv, Merge
    PROVE  TurnsInv'
<1>. DEFINE n == next - 1 + First(hasTools)
<1>1. Types /\ MergeInv /\ encoder # "v32" /\ stage = "merge"
  BY TypesHold DEF IInv, Merge
<1>2. /\ Len(sent) \in Nat /\ First(hasTools) \in 0 .. 1
      /\ Len(Parsed) = Len(sent) + 1 - First(hasTools)
      /\ next \in 1 .. Len(Parsed)
      /\ n \in First(hasTools) .. Len(sent)
      /\ Parsed[next] = Original(sent, n)
  BY <1>1, ParsedFacts DEF Types, MergeInv, Merge, First
<1>3. /\ UNCHANGED <<inputs, stage>> /\ next' = next + 1
      /\ written' = Merged(written, Original(sent, n))
  BY <1>1, <1>2 DEF Merge, MergeInv
<1>4. /\ Line(sent, hasTools, encoder, written)
      /\ \A i \in 1 .. Len(written) : written[i].at < n
      /\ \A a \in First(hasTools) .. Len(sent) : Reaches(encoder, written, Len(written), a) <=> a < n
  BY <1>1 DEF MergeInv
<1>5. \A i \in 1 .. Len(written) : \A a \in 0 .. Len(sent) : Has(encoder, written[i], a) => a < n
  <2>. SUFFICES ASSUME NEW i \in 1 .. Len(written), NEW a \in 0 .. Len(sent),
                       Has(encoder, written[i], a)
                PROVE  a < n
    OBVIOUS
  <2>1. CASE a \in First(hasTools) .. Len(sent)
    BY <1>4, <2>1 DEF Reaches
  <2>2. CASE a \notin First(hasTools) .. Len(sent)
    BY <1>2, <2>2
  <2>. QED
    BY <2>1, <2>2
<1>6. \A a \in First(hasTools) .. n - 1 : Reaches(encoder, written, Len(written), a)
  BY <1>2, <1>4
<1>7. RunsEnd(sent, encoder, written, n)
  BY <1>1 DEF TurnsInv
<1>8. RunsEnd(sent, encoder, Merged(written, Original(sent, n)), n + 1)
  <2>. HIDE DEF n
  <2>. QED
    BY <1>1, <1>2, <1>4, <1>5, <1>6, <1>7, RunsGrow DEF Types
<1>9. n + 1 = next' - 1 + First(hasTools)
  BY <1>2, <1>3
<1>. HIDE DEF n
<1>. QED
  BY <1>1, <1>3, <1>8, <1>9 DEF TurnsInv, inputs

\* A message that is there and comes before turn k is in an earlier turn.
LEMMA EarlierTurn ==
    ASSUME Types, NEW ms \in Seq(Turn), Line(sent, hasTools, encoder, ms),
           NEW k \in 1 .. Len(ms), NEW a \in 0 .. Len(sent),
           NEW i \in 1 .. Len(ms), Has(encoder, ms[i], a), a < ms[k].at
    PROVE  i < k
<1>1. Len(ms) \in Nat /\ Len(sent) \in Nat /\ First(hasTools) \in 0 .. 1
  BY DEF Types, First
<1>2. \A l \in 1 .. Len(ms) :
         /\ ms[l] \in Turn /\ TurnFits(sent, hasTools, encoder, ms[l])
         /\ Has(encoder, ms[l], ms[l].at)
         /\ ms[l].at \in First(hasTools) .. Len(sent)
         /\ \A b \in 0 .. Len(sent) : Has(encoder, ms[l], b) => ms[l].at <= b
  BY TurnFacts DEF Line
<1>3. CASE i = k
  BY <1>1, <1>2, <1>3
<1>4. CASE k < i
  <2>1. ms[k].at < ms[i].at
    BY <1>1, <1>2, <1>4 DEF Line
  <2>. QED
    BY <1>1, <1>2, <2>1
<1>. QED
  BY <1>1, <1>3, <1>4

LEMMA EndMergeTurns ==
    ASSUME IInv, TurnsInv, EndMerge
    PROVE  TurnsInv'
<1>1. Types /\ MergeInv /\ encoder # "v32" /\ stage = "merge"
  BY TypesHold DEF IInv, EndMerge
<1>2. /\ UNCHANGED inputs /\ conversation' = written /\ stage' = "sort" /\ next' = 1
      /\ order' = order /\ next > Len(conversation)
  BY DEF EndMerge
<1>3. /\ Len(Parsed) \in Nat /\ First(hasTools) \in 0 .. 1 /\ Len(sent) \in Nat
      /\ Len(Parsed) = Len(sent) + 1 - First(hasTools)
  BY <1>1, ParsedFacts DEF Types, First
<1>4. next - 1 + First(hasTools) = Len(sent) + 1
  BY <1>1, <1>2, <1>3 DEF MergeInv, Types
<1>5. RunsEnd(sent, encoder, written, Len(sent) + 1)
  BY <1>1, <1>4 DEF TurnsInv
<1>6. OrderFits'
  <2>. SUFFICES ASSUME 1 <= Len(written), NEW j \in 1 .. Len(sent),
                       LastCall(sent, j, written[1].at)
                PROVE  FALSE
    BY <1>2 DEF OrderFits, inputs
  <2>1. written \in Seq(Turn) /\ Line(sent, hasTools, encoder, written) /\ Len(written) \in Nat
    BY <1>1 DEF Types, MergeInv
  <2>2. j < written[1].at
    <3>1. written[1].at \in Nat
      BY <2>1, TurnFields
    <3>. QED
      BY <3>1 DEF LastCall
  <2>3. j \in First(hasTools) .. Len(sent) /\ j \in 0 .. Len(sent)
    BY <1>3
  <2>4. Reaches(encoder, written, Len(written), j)
    BY <1>1, <1>3, <1>4, <2>3 DEF MergeInv
  <2>5. PICK i \in 1 .. Len(written) : Has(encoder, written[i], j)
    BY <2>4 DEF Reaches
  <2>6. i < 1
    BY <1>1, <2>1, <2>2, <2>3, <2>5, EarlierTurn
  <2>. QED
    BY <2>6
<1>7. AreSorted(sent, encoder, conversation, next - 1)' /\ next' <= Len(conversation') + 1
  BY <1>1, <1>2 DEF AreSorted, Types
<1>. QED
  BY <1>2, <1>5, <1>6, <1>7 DEF TurnsInv, inputs

\* Calls that come before the next turn are those of this one or of an earlier one.
LEMMA CallsBeforeNext ==
    ASSUME Types, WholeInv, NEW k \in 1 .. Len(conversation) - 1, NEW j \in 1 .. Len(sent),
           LastCall(sent, j, conversation[k + 1].at)
    PROVE  /\ j # conversation[k].at => LastCall(sent, j, conversation[k].at)
           /\ j # conversation[k].at =>
                 ~(conversation[k].role = "assistant" /\ conversation[k].calls # <<>>)
           /\ j = conversation[k].at =>
                 conversation[k].role = "assistant" /\ conversation[k].calls = sent[j].calls
<1>. DEFINE t == conversation[k]
            n == conversation[k + 1].at
<1>1. /\ conversation \in Seq(Turn) /\ Len(conversation) \in Nat /\ Len(sent) \in Nat
      /\ sent \in Seq(Message)
      /\ First(hasTools) \in 0 .. 1 /\ k \in 1 .. Len(conversation) /\ k + 1 \in 1 .. Len(conversation)
      /\ Line(sent, hasTools, encoder, conversation)
  BY DEF Types, First, WholeInv
<1>2. /\ t \in Turn /\ TurnFits(sent, hasTools, encoder, t)
      /\ t.at \in First(hasTools) .. Len(sent)
      /\ \A a \in 0 .. Len(sent) : Has(encoder, t, a) => t.at <= a
  <2>1. t \in Turn /\ TurnFits(sent, hasTools, encoder, t)
    BY <1>1 DEF Line
  <2>. QED
    BY <2>1, TurnFacts
<1>3. n \in Nat /\ t.at < n
  <2>1. conversation[k + 1] \in Turn
    BY <1>1
  <2>2. Has(encoder, t, t.at) /\ t.at \in 0 .. Len(sent) /\ k < k + 1
    BY <1>1, <1>2, TurnFacts
  <2>. QED
    BY <1>1, <2>1, <2>2, TurnFields DEF Line
<1>4. /\ j \in 1 .. n - 1 /\ IsCalling(sent, j)
      /\ \A l \in j + 1 .. n - 1 : ~IsCalling(sent, l)
  BY DEF LastCall
<1>5. ~IsMerged(encoder, t) => \E r \in BOOLEAN : t = [Original(sent, t.at) EXCEPT !.reasoning = r]
  BY <1>2 DEF TurnFits
<1>6. ASSUME ~IsMerged(encoder, t), t.at > 0, sent[t.at].role = "assistant"
      PROVE  t.role = "assistant" /\ t.calls = sent[t.at].calls
  <2>1. t.at \in 1 .. Len(sent)
    BY <1>2, <1>6
  <2>2. Original(sent, t.at) \in Turn
    BY <1>1, <2>1, OriginalFacts
  <2>3. Original(sent, t.at).role = "assistant" /\ Original(sent, t.at).calls = sent[t.at].calls
    BY <1>6 DEF Original, ParsedMessage
  <2>. QED
    BY <1>5, <1>6, <2>2, <2>3 DEF Turn
<1>7. ASSUME t.role = "assistant", t.calls # <<>>
      PROVE  t.at > 0 /\ IsCalling(sent, t.at)
  <2>1. ~IsMerged(encoder, t)
    BY <1>7 DEF IsMerged
  <2>2. t.at > 0 /\ sent[t.at].role = "assistant"
    BY <1>1, <1>2, <1>7, <2>1, TurnFacts
  <2>. QED
    BY <1>6, <1>7, <2>1, <2>2 DEF IsCalling
<1>8. ASSUME j = t.at
      PROVE  t.role = "assistant" /\ t.calls = sent[j].calls
  <2>1. sent[t.at].role = "assistant" /\ t.at > 0
    BY <1>4, <1>8 DEF IsCalling
  <2>2. ~IsMerged(encoder, t)
    <3>1. Has(encoder, t, t.at) /\ t.at \in 0 .. Len(sent)
      BY <1>1, <1>2, TurnFacts
    <3>2. IsMerged(encoder, t) => sent[t.at].role \in {"user", "tool"}
      BY <1>2, <3>1, TurnFacts
    <3>. QED
      BY <2>1, <3>2
  <2>. QED
    BY <1>6, <1>8, <2>1, <2>2
<1>9. ASSUME j # t.at
      PROVE  j < t.at
  <2>1. j \in First(hasTools) .. Len(sent) /\ j \in 0 .. Len(sent) /\ j < n
    BY <1>1, <1>3, <1>4
  <2>2. PICK i \in 1 .. Len(conversation) : Has(encoder, conversation[i], j)
    BY <2>1 DEF WholeInv, Reaches
  <2>3. i < k + 1
    BY <1>1, <2>1, <2>2, EarlierTurn
  <2>4. CASE i = k
    <3>1. Has(encoder, t, j)
      BY <2>2, <2>4
    <3>2. IsMerged(encoder, t) => sent[j].role \in {"user", "tool"}
      BY <1>2, <2>1, <3>1, TurnFacts
    <3>3. ~IsMerged(encoder, t)
      BY <1>4, <3>2 DEF IsCalling
    <3>. QED
      BY <1>2, <1>9, <3>1, <3>3, TurnFacts
  <2>5. CASE i < k
    BY <1>1, <2>1, <2>2, <2>5 DEF Line
  <2>. QED
    BY <1>1, <2>3, <2>4, <2>5
<1>10. ASSUME j # t.at
       PROVE  LastCall(sent, j, t.at) /\ ~(t.role = "assistant" /\ t.calls # <<>>)
  <2>1. j < t.at
    BY <1>9, <1>10
  <2>2. \A l \in j + 1 .. t.at - 1 : ~IsCalling(sent, l)
    BY <1>1, <1>2, <1>3, <1>4
  <2>3. t.at \in j + 1 .. n - 1
    BY <1>1, <1>2, <1>3, <1>4, <2>1
  <2>4. ~IsCalling(sent, t.at)
    BY <1>4, <2>3
  <2>5. j \in 1 .. t.at - 1
    BY <1>1, <1>2, <1>3, <1>4, <2>1
  <2>. QED
    BY <1>4, <1>7, <2>2, <2>4, <2>5 DEF LastCall
<1>. QED
  BY <1>8, <1>10

LEMMA SortTurns ==
    ASSUME IInv, TurnsInv, Sort
    PROVE  TurnsInv'
<1>1. Types /\ WholeInv /\ encoder # "v32" /\ stage = "sort"
  BY TypesHold DEF IInv, Sort
<1>2. /\ UNCHANGED <<inputs, stage, written>> /\ next' = next + 1 /\ next \in 1 .. Len(conversation)
      /\ order' = CallOrder(order, conversation[next])
      /\ conversation' = IF Sortable(conversation[next])
                         THEN [conversation EXCEPT ![next].blocks = Sorted(@, order)]
                         ELSE conversation
  BY <1>1 DEF Sort, Types
<1>. DEFINE t == conversation[next]
            u == conversation'[next]
<1>3. /\ conversation \in Seq(Turn) /\ Len(conversation) \in Nat /\ order \in Seq(Ids)
      /\ t \in Turn /\ t.blocks \in Seq(Block) /\ t.at \in Nat
      /\ TurnFits(sent, hasTools, encoder, t)
      /\ Len(sent) \in Nat
  <2>1. t \in Turn /\ conversation \in Seq(Turn) /\ order \in Seq(Ids) /\ Len(sent) \in Nat
    BY <1>1, <1>2 DEF Types
  <2>. QED
    BY <1>1, <1>2, <2>1, TurnFields DEF WholeInv, Line
<1>4. /\ Len(conversation') = Len(conversation)
      /\ \A i \in 1 .. Len(conversation) : i # next => conversation'[i] = conversation[i]
  <2>1. CASE Sortable(conversation[next])
    <3>. DEFINE v == [conversation[next] EXCEPT !.blocks = Sorted(conversation[next].blocks, order)]
    <3>1. conversation' = [conversation EXCEPT ![next] = v]
      BY <1>2, <2>1
    <3>. HIDE DEF v
    <3>. QED
      BY <1>2, <1>3, <3>1
  <2>2. CASE ~Sortable(conversation[next])
    BY <1>2, <2>2
  <2>. QED
    BY <2>1, <2>2
<1>5. /\ u.at = t.at /\ u.role = t.role /\ u.task = t.task /\ Len(u.blocks) = Len(t.blocks)
      /\ IsMerged(encoder, t) => InCallOrder(u.blocks, order)
  <2>1. CASE Sortable(t)
    <3>. DEFINE v == [t EXCEPT !.blocks = Sorted(t.blocks, order)]
    <3>1. u = v
      BY <1>2, <1>3, <2>1
    <3>2. Sorted(t.blocks, order) \in Seq(Block) /\ Len(Sorted(t.blocks, order)) = Len(t.blocks)
      BY <1>3, SortedPermutes
    <3>3. /\ v.at = t.at /\ v.role = t.role /\ v.task = t.task
          /\ v.blocks = Sorted(t.blocks, order)
      BY <1>3, <3>2 DEF Turn
    <3>4. InCallOrder(Sorted(t.blocks, order), order)
      BY <1>3, SortedIsInOrder
    <3>. HIDE DEF u, v, t
    <3>. QED
      BY <3>1, <3>2, <3>3, <3>4
  <2>2. CASE ~Sortable(t)
    <3>1. u = t
      BY <1>2, <2>2
    <3>2. IsMerged(encoder, t) => InCallOrder(t.blocks, order)
      <4>1. IsMerged(encoder, t) => \/ ~(Cardinality(Results(t.blocks)) > 1)
                                    \/ \A k \in 1 .. Len(order) : order[k] = NoId
        BY <2>2 DEF Sortable, IsMerged
      <4>. QED
        BY <1>3, <4>1, UnsortedIsInOrder
    <3>. QED
      BY <3>1, <3>2
  <2>. QED
    BY <2>1, <2>2
<1>. HIDE DEF u, t
<1>6. IsMerged(encoder, u) <=> IsMerged(encoder, t)
  BY <1>5 DEF IsMerged
<1>7. RunsEnd(sent, encoder, conversation', Len(sent) + 1)
  <2>1. RunsEnd(sent, encoder, conversation, Len(sent) + 1)
    BY <1>1 DEF TurnsInv
  <2>2. Last(u) = Last(t)
    BY <1>5 DEF Last
  <2>3. IsMerged(encoder, u) => RunEnds(sent, u, Len(sent) + 1)
    BY <1>2, <1>5, <1>6, <2>1, <2>2 DEF RunsEnd, RunEnds, t
  <2>. QED
    BY <1>4, <2>1, <2>3 DEF RunsEnd, u
<1>8. AreSorted(sent, encoder, conversation', next)
  <2>1. AreSorted(sent, encoder, conversation, next - 1) /\ OrderFits
    BY <1>1 DEF TurnsInv
  <2>2. IsMerged(encoder, u) => IsSorted(sent, u)
    <3>1. \A j \in 1 .. Len(sent) : LastCall(sent, j, t.at) => order = sent[j].calls
      BY <1>2, <2>1 DEF OrderFits, t
    <3>. QED
      BY <1>5, <1>6, <3>1 DEF IsSorted
  <2>3. \A i \in 1 .. next : i \in 1 .. next - 1 \/ i = next
    BY <1>2
  <2>4. \A i \in 1 .. next - 1 : i \in 1 .. Len(conversation) /\ i # next
    BY <1>2, <1>3
  <2>. QED
    BY <1>4, <2>1, <2>2, <2>3, <2>4 DEF AreSorted, u
<1>9. OrderFits'
  <2>. SUFFICES ASSUME next + 1 <= Len(conversation), NEW j \in 1 .. Len(sent),
                       LastCall(sent, j, conversation[next + 1].at)
                PROVE  order' = sent[j].calls
    <3>1. next + 1 <= Len(conversation) => conversation'[next + 1] = conversation[next + 1]
      BY <1>2, <1>3, <1>4
    <3>. QED
      BY <1>2, <1>4, <3>1 DEF OrderFits, inputs
  <2>1. next \in 1 .. Len(conversation) - 1
    BY <1>2, <1>3
  <2>2. /\ j # t.at => LastCall(sent, j, t.at)
        /\ j # t.at => ~(t.role = "assistant" /\ t.calls # <<>>)
        /\ j = t.at => t.role = "assistant" /\ t.calls = sent[j].calls
    BY <1>1, <2>1, CallsBeforeNext DEF t
  <2>3. sent[j].calls # <<>>
    BY DEF LastCall, IsCalling
  <2>4. j # t.at => order = sent[j].calls
    BY <1>1, <1>2, <2>2 DEF TurnsInv, OrderFits, t
  <2>. QED
    BY <1>2, <2>2, <2>3, <2>4 DEF CallOrder, t
<1>10. next' - 1 = next /\ next' <= Len(conversation') + 1
  BY <1>2, <1>3, <1>4
<1>. QED
  BY <1>1, <1>2, <1>7, <1>8, <1>9, <1>10 DEF TurnsInv, inputs

LEMMA EndSortTurns ==
    ASSUME IInv, TurnsInv, EndSort
    PROVE  TurnsInv'
<1>1. Types /\ written = <<>> /\ stage = "sort" /\ next > Len(conversation)
  BY TypesHold DEF IInv, EndSort
<1>2. UNCHANGED <<inputs, conversation, written>> /\ stage' = "forget"
  BY DEF EndSort
<1>3. next - 1 = Len(conversation)
  BY <1>1 DEF Types, TurnsInv
<1>4. RunsEnd(sent, encoder, <<>>, Len(sent) + 1) /\ AreSorted(sent, encoder, <<>>, 0)
  BY DEF RunsEnd, AreSorted
<1>5. Len(written') = 0 /\ written' = <<>>
  BY <1>1, <1>2
<1>. QED
  BY <1>1, <1>2, <1>3, <1>4, <1>5 DEF TurnsInv, inputs

LEMMA ForgetTurns ==
    ASSUME IInv, TurnsInv, Forget
    PROVE  TurnsInv'
<1>1. Types /\ stage = "forget"
  BY TypesHold DEF IInv, Forget
<1>2. /\ UNCHANGED <<inputs, stage, conversation>>
      /\ next \in 1 .. Len(conversation)
      /\ written' = written \o Remaining(conversation, next)
  BY <1>1 DEF Forget, Types
<1>3. /\ written \in Seq(Turn) /\ Len(written) \in Nat /\ conversation[next] \in Turn
  BY <1>1, <1>2 DEF Types
<1>4. /\ RunsEnd(sent, encoder, conversation, Len(sent) + 1)
      /\ AreSorted(sent, encoder, conversation, Len(conversation))
      /\ RunsEnd(sent, encoder, written, Len(sent) + 1)
      /\ AreSorted(sent, encoder, written, Len(written))
  BY <1>1 DEF TurnsInv
<1>5. \/ Remaining(conversation, next) = <<>>
      \/ \E t \in Turn : /\ Remaining(conversation, next) = <<t>>
                         /\ IsMerged(encoder, t) => t = conversation[next]
  <2>1. CASE Kept(conversation, next)
    BY <1>3, <2>1 DEF Remaining
  <2>2. CASE ~Kept(conversation, next) /\ conversation[next].role = "assistant"
    <3>. DEFINE u == [conversation[next] EXCEPT !.reasoning = FALSE]
    <3>1. Remaining(conversation, next) = <<u>>
      BY <2>2 DEF Remaining
    <3>2. u \in Turn /\ u.role = "assistant"
      BY <1>3, <2>2 DEF Turn
    <3>3. ~IsMerged(encoder, u)
      BY <3>2 DEF IsMerged
    <3>. QED
      BY <3>1, <3>2, <3>3
  <2>3. CASE ~Kept(conversation, next) /\ conversation[next].role # "assistant"
    BY <2>3 DEF Remaining
  <2>. QED
    BY <2>1, <2>2, <2>3
<1>6. CASE Remaining(conversation, next) = <<>>
  <2>1. written' = written
    BY <1>2, <1>3, <1>6
  <2>. QED
    BY <1>1, <1>2, <1>4, <2>1 DEF TurnsInv, inputs
<1>7. ASSUME NEW t \in Turn, Remaining(conversation, next) = <<t>>,
             IsMerged(encoder, t) => t = conversation[next]
      PROVE  TurnsInv'
  <2>1. /\ Len(written') = Len(written) + 1 /\ written'[Len(written) + 1] = t
        /\ \A i \in 1 .. Len(written) : written'[i] = written[i]
        /\ \A i \in 1 .. Len(written) + 1 : i \in 1 .. Len(written) \/ i = Len(written) + 1
    <3>1. written' = Append(written, t)
      BY <1>2, <1>3, <1>7
    <3>. QED
      BY <1>3, <3>1
  <2>2. IsMerged(encoder, t) => RunEnds(sent, t, Len(sent) + 1) /\ IsSorted(sent, t)
    BY <1>2, <1>4, <1>7 DEF RunsEnd, AreSorted
  <2>3. RunsEnd(sent, encoder, written', Len(sent) + 1)
    BY <1>4, <2>1, <2>2 DEF RunsEnd
  <2>4. AreSorted(sent, encoder, written', Len(written'))
    BY <1>4, <2>1, <2>2 DEF AreSorted
  <2>. QED
    BY <1>1, <1>2, <1>4, <2>3, <2>4 DEF TurnsInv, inputs
<1>. QED
  BY <1>5, <1>6, <1>7

LEMMA TurnsAreInvariant == Spec => []TurnsInv
<1>1. Init => TurnsInv
  BY DEF Init, TurnsInv
<1>2. IInv /\ TurnsInv /\ [Next]_vars => TurnsInv'
  <2>. SUFFICES ASSUME IInv, TurnsInv, [Next]_vars PROVE TurnsInv'
    OBVIOUS
  <2>1. CASE Parse
    <3>1. /\ stage' \in {"forget", "merge"} /\ (stage' = "forget" => encoder' = "v32")
          /\ written' = <<>>
      BY <2>1 DEF Parse, IInv, inputs
    <3>2. \A t : ~IsMerged("v32", t)
      BY DEF IsMerged
    <3>3. \A s, e, n : RunsEnd(s, e, <<>>, n)
      BY DEF RunsEnd
    <3>. QED
      BY <3>1, <3>2, <3>3 DEF TurnsInv, RunsEnd, AreSorted
  <2>2. CASE RefuseToParse
    <3>1. conversation' = <<>> /\ stage' = "done"
      BY <2>2 DEF RefuseToParse, TurnsInv
    <3>2. \A s, e, n : RunsEnd(s, e, <<>>, n) /\ AreSorted(s, e, <<>>, Len(<<>>))
      BY DEF RunsEnd, AreSorted
    <3>. QED
      BY <3>1, <3>2 DEF TurnsInv
  <2>3. CASE EndForget
    <3>1. Types /\ ForgetInv /\ stage = "forget" /\ stage' = "render" /\ UNCHANGED inputs
          /\ conversation' \in {conversation, written}
      BY <2>3, TypesHold DEF EndForget, IInv
    <3>. QED
      BY <3>1 DEF TurnsInv, inputs
  <2>4. CASE Render \/ Raise \/ EndRender
    <3>1. UNCHANGED <<inputs, conversation>> /\ stage = "render" /\ stage' \in {"render", "done"}
      BY <2>4 DEF Render, Raise, EndRender
    <3>. QED
      BY <3>1 DEF TurnsInv, inputs
  <2>5. CASE UNCHANGED vars
    BY <2>5 DEF TurnsInv, OrderFits, vars, inputs
  <2>. QED
    BY <2>1, <2>2, <2>3, <2>4, <2>5, MergeTurns, EndMergeTurns, SortTurns, EndSortTurns,
       ForgetTurns DEF Next
<1>. QED
  BY <1>1, <1>2, IsInvariant, PTL DEF Spec


--------------------------------------------------------------------------------
(***************************************************************************)
(* The pieces of the prompt                                                *)
(***************************************************************************)
IsPiece(c) == c.kind \in Contents /\ c.at > 0

Counted(w, p) == {q \in 1 .. p : IsPiece(w[q])}

\* The messages up to n that the prompt has.
Left(n) == {i \in 1 .. n : ~Forgotten(i)}

TextsInPlace(w) ==
    \A p \in 1 .. Len(w) :
        IsPiece(w[p]) /\ w[p].kind # "result" =>
            Cardinality(Counted(w, p)) = Cardinality(Left(w[p].at))

ResultsAreResults(w) ==
    encoder # "v32" =>
        \A p \in 1 .. Len(w) :
            w[p].kind = "result" => w[p].at \in 1 .. Len(sent) /\ sent[w[p].at].role = "tool"

\* The prompt w has the blocks of turn t in their order.
Follows(w, t) ==
    \A x, y \in 1 .. Len(t.blocks) : x < y =>
        \A p, q \in 1 .. Len(w) :
            /\ w[p].kind \in Contents /\ w[p].at = t.blocks[x].at
            /\ w[q].kind \in Contents /\ w[q].at = t.blocks[y].at
            => p < q

BlocksFollow(w, n) ==
    \A i \in 1 .. n : IsMerged(encoder, conversation[i]) => Follows(w, conversation[i])

PlacesInv ==
    Rendering => /\ TextsInPlace(prompt)
                 /\ ResultsAreResults(prompt)
                 /\ BlocksFollow(prompt, next - 1)


LEMMA TwoParts ==
    ASSUME NEW x \in Seq(Chunk), NEW y \in Seq(Chunk)
    PROVE  /\ x \o y \in Seq(Chunk) /\ Len(x \o y) = Len(x) + Len(y)
           /\ \A p \in 1 .. Len(x) : (x \o y)[p] = x[p]
           /\ \A p \in 1 .. Len(y) : (x \o y)[Len(x) + p] = y[p]
  OBVIOUS

\* w consists of f, m, c and e.
ConsistsOf(w, f, m, c, e) ==
    /\ w \in Seq(Chunk)
    /\ Len(w) = Len(f) + Len(m) + Len(c) + Len(e)
    /\ \A p \in 1 .. Len(f) : w[p] = f[p]
    /\ \A p \in 1 .. Len(m) : w[Len(f) + p] = m[p]
    /\ \A p \in 1 .. Len(w) :
          \/ p \in 1 .. Len(f)
          \/ p - Len(f) \in 1 .. Len(m)
          \/ \E q \in 1 .. Len(c) : w[p] = c[q]
          \/ \E q \in 1 .. Len(e) : w[p] = e[q]

LEMMA FourParts ==
    ASSUME NEW f \in Seq(Chunk), NEW m \in Seq(Chunk), NEW c \in Seq(Chunk), NEW e \in Seq(Chunk)
    PROVE  ConsistsOf(f \o m \o c \o e, f, m, c, e)
<1>. DEFINE w == f \o m \o c \o e
<1>. DEFINE u == f \o m
            v == u \o c
<1>1. /\ u \in Seq(Chunk) /\ Len(u) = Len(f) + Len(m)
      /\ \A p \in 1 .. Len(f) : u[p] = f[p]
      /\ \A p \in 1 .. Len(m) : u[Len(f) + p] = m[p]
  BY TwoParts
<1>. HIDE DEF u
<1>2. /\ v \in Seq(Chunk) /\ Len(v) = Len(u) + Len(c)
      /\ \A p \in 1 .. Len(u) : v[p] = u[p]
      /\ \A p \in 1 .. Len(c) : v[Len(u) + p] = c[p]
  BY <1>1, TwoParts
<1>. HIDE DEF v
<1>3. /\ w \in Seq(Chunk) /\ Len(w) = Len(v) + Len(e)
      /\ \A p \in 1 .. Len(v) : w[p] = v[p]
      /\ \A p \in 1 .. Len(e) : w[Len(v) + p] = e[p]
  <2>. DEFINE x == v \o e
  <2>1. w = x
    BY DEF u, v, w
  <2>2. /\ x \in Seq(Chunk) /\ Len(x) = Len(v) + Len(e)
        /\ \A p \in 1 .. Len(v) : x[p] = v[p]
        /\ \A p \in 1 .. Len(e) : x[Len(v) + p] = e[p]
    BY <1>2, TwoParts
  <2>. HIDE DEF x, w
  <2>. QED
    BY <2>1, <2>2
<1>. HIDE DEF w
<1>4. Len(f) \in Nat /\ Len(m) \in Nat /\ Len(c) \in Nat /\ Len(e) \in Nat
  OBVIOUS
<1>5. \A p \in 1 .. Len(f) : w[p] = f[p]
  BY <1>1, <1>2, <1>3, <1>4
<1>6. \A p \in 1 .. Len(m) : w[Len(f) + p] = m[p]
  BY <1>1, <1>2, <1>3, <1>4
<1>7. ASSUME NEW p \in 1 .. Len(w), p \notin 1 .. Len(f), p - Len(f) \notin 1 .. Len(m)
      PROVE  \/ \E q \in 1 .. Len(c) : w[p] = c[q]
             \/ \E q \in 1 .. Len(e) : w[p] = e[q]
  <2>1. p > Len(u)
    BY <1>1, <1>3, <1>4, <1>7
  <2>2. CASE p <= Len(v)
    <3>1. p - Len(u) \in 1 .. Len(c) /\ p = Len(u) + (p - Len(u)) /\ p \in 1 .. Len(v)
      BY <1>1, <1>2, <1>4, <2>1, <2>2
    <3>2. w[p] = c[p - Len(u)]
      BY <1>2, <1>3, <3>1
    <3>. QED
      BY <3>1, <3>2
  <2>3. CASE p > Len(v)
    <3>1. p - Len(v) \in 1 .. Len(e) /\ p = Len(v) + (p - Len(v))
      BY <1>1, <1>2, <1>3, <1>4, <2>3
    <3>2. w[p] = e[p - Len(v)]
      BY <1>3, <3>1
    <3>. QED
      BY <3>1, <3>2
  <2>. QED
    BY <1>1, <1>2, <1>4, <2>2, <2>3
<1>8. Len(w) = Len(f) + Len(m) + Len(c) + Len(e)
  BY <1>1, <1>2, <1>3
<1>9. ConsistsOf(w, f, m, c, e)
  BY <1>3, <1>5, <1>6, <1>7, <1>8 DEF ConsistsOf
<1>. QED
  BY <1>9 DEF w

\* Where the pieces are in what is rendered of a turn.
LEMMA RenderedPlaces ==
    ASSUME encoder \in Encoders, NEW ms \in Seq(Turn), NEW i \in 1 .. Len(ms),
           RefusalOf(ms, i) = "none", ms[i].role = "tool" => encoder = "v32"
    PROVE  /\ Rendered(ms, i) \in Seq(Chunk)
           /\ Len(Front(ms, i)) \in Nat /\ Len(Middle(ms, i)) \in Nat
           /\ \A p \in 1 .. Len(Rendered(ms, i)) :
                 Rendered(ms, i)[p].kind \in Contents =>
                     p - Len(Front(ms, i)) \in 1 .. Len(Middle(ms, i))
           /\ \A r \in 1 .. Len(Middle(ms, i)) :
                 /\ Len(Front(ms, i)) + r \in 1 .. Len(Rendered(ms, i))
                 /\ Rendered(ms, i)[Len(Front(ms, i)) + r] = Middle(ms, i)[r]
<1>. DEFINE f == Front(ms, i)
            m == Middle(ms, i)
            c == Calls(ms, i)
            e == End(ms, i)
            w == Rendered(ms, i)
<1>1. /\ f \in Seq(Opens) /\ c \in Seq(Opens) /\ e \in Seq(Opens)
      /\ Opens \subseteq Chunk
  BY PartsAreTokens DEF Opens, Chunk
<1>2. f \in Seq(Chunk) /\ c \in Seq(Chunk) /\ e \in Seq(Chunk)
  BY <1>1
<1>3. ms[i].role # "other" /\ w = f \o m \o c \o e
  BY RenderedParts
<1>4. m \in Seq(Chunk)
  BY <1>3, MiddleType
<1>5. \A t \in Opens : t.kind \notin Contents
  BY DEF Opens, Tokens, Contents
<1>. HIDE DEF f, m, c, e, w
<1>6. /\ w \in Seq(Chunk)
      /\ Len(w) = Len(f) + Len(m) + Len(c) + Len(e)
      /\ \A p \in 1 .. Len(f) : w[p] = f[p]
      /\ \A p \in 1 .. Len(m) : w[Len(f) + p] = m[p]
      /\ \A p \in 1 .. Len(w) :
            \/ p \in 1 .. Len(f)
            \/ p - Len(f) \in 1 .. Len(m)
            \/ \E q \in 1 .. Len(c) : w[p] = c[q]
            \/ \E q \in 1 .. Len(e) : w[p] = e[q]
  <2>1. w = f \o m \o c \o e
    BY <1>3
  <2>. QED
    <3>1. ConsistsOf(f \o m \o c \o e, f, m, c, e)
      BY <1>2, <1>4, FourParts
    <3>2. ConsistsOf(w, f, m, c, e)
      BY <2>1, <3>1
    <3>. QED
      BY <3>2 DEF ConsistsOf
<1>7. Len(f) \in Nat /\ Len(m) \in Nat /\ Len(c) \in Nat /\ Len(e) \in Nat
  BY <1>2, <1>4
<1>8. /\ \A p \in 1 .. Len(f) : f[p].kind \notin Contents
      /\ \A p \in 1 .. Len(c) : c[p].kind \notin Contents
      /\ \A p \in 1 .. Len(e) : e[p].kind \notin Contents
  <2>1. /\ \A p \in 1 .. Len(f) : f[p] \in Opens
        /\ \A p \in 1 .. Len(c) : c[p] \in Opens
        /\ \A p \in 1 .. Len(e) : e[p] \in Opens
    BY <1>1
  <2>. QED
    BY <1>5, <2>1
<1>9. \A p \in 1 .. Len(w) : w[p].kind \in Contents => p - Len(f) \in 1 .. Len(m)
  BY <1>6, <1>8
<1>10. \A r \in 1 .. Len(m) : Len(f) + r \in 1 .. Len(w)
  BY <1>6, <1>7
<1>. QED
  BY <1>6, <1>7, <1>9, <1>10 DEF f, m, w

LEMMA CountedSize ==
    ASSUME NEW A \in SUBSET Nat, IsFiniteSet(A), NEW w, Tells(w, A)
    PROVE  /\ IsFiniteSet(Counted(w, Len(w)))
           /\ Cardinality(Counted(w, Len(w))) = Cardinality(A \ {0})
<1>. DEFINE P == Counted(w, Len(w))
            B == A \ {0}
            f == [b \in B |-> CHOOSE p \in 1 .. Len(w) : w[p].kind \in Contents /\ w[p].at = b]
<1>1. IsFiniteSet(B)
  BY FS_RemoveElement
<1>2. \A b \in B : f[b] \in 1 .. Len(w) /\ w[f[b]].kind \in Contents /\ w[f[b]].at = b
  BY DEF Tells
<1>3. \A p \in P : p \in 1 .. Len(w) /\ w[p].kind \in Contents /\ w[p].at \in B
  <2>1. \A p \in P : p \in 1 .. Len(w) /\ w[p].kind \in Contents /\ w[p].at > 0
    BY DEF Counted, IsPiece
  <2>2. \A p \in P : w[p].at \in A
    BY <2>1 DEF Tells
  <2>. QED
    BY <2>1, <2>2
<1>4. \A b \in B : f[b] \in P
  <2>1. \A b \in B : b > 0
    OBVIOUS
  <2>. HIDE DEF f, B
  <2>. QED
    BY <1>2, <2>1 DEF Counted, IsPiece
<1>5. f \in [B -> P]
  BY <1>4
<1>6. \A b, d \in B : f[b] = f[d] => b = d
  <2>. HIDE DEF f, B
  <2>. QED
    BY <1>2
<1>7. \A p \in P : \E b \in B : f[b] = p
  <2>. SUFFICES ASSUME NEW p \in P PROVE f[w[p].at] = p /\ w[p].at \in B
    OBVIOUS
  <2>1. w[p].at \in B /\ p \in 1 .. Len(w) /\ w[p].kind \in Contents
    BY <1>3
  <2>2. /\ f[w[p].at] \in 1 .. Len(w) /\ w[f[w[p].at]].kind \in Contents
        /\ w[f[w[p].at]].at = w[p].at
    BY <1>2, <2>1
  <2>. HIDE DEF f, B, P
  <2>. QED
    BY <2>1, <2>2 DEF Tells
<1>. HIDE DEF f, B, P
<1>8. f \in Bijection(B, P)
  BY <1>5, <1>6, <1>7 DEF Bijection, Injection, Surjection, IsInjective
<1>9. IsFiniteSet(P) /\ Cardinality(P) = Cardinality(B)
  BY <1>1, <1>8, FS_Bijection DEF ExistsBijection
<1>. QED
  BY <1>9 DEF P, B

\* The pieces of a longer prompt, up to the r-th piece of what is added after f tokens.
LEMMA CountedMore ==
    ASSUME NEW w \in Seq(Chunk), NEW v \in Seq(Chunk), NEW f \in Nat, NEW r \in Nat \ {0},
           f + r \in 1 .. Len(v),
           \A p \in 1 .. f : ~IsPiece(v[p]),
           \A p \in 1 .. r : IsPiece(v[f + p]),
           IsFiniteSet(Counted(w, Len(w)))
    PROVE  Cardinality(Counted(w \o v, Len(w) + (f + r))) = Cardinality(Counted(w, Len(w))) + r
<1>. DEFINE n == Len(w)
            u == w \o v
            P == Counted(w, n)
            Q == n + f + 1 .. n + f + r
<1>1. /\ n \in Nat /\ Len(v) \in Nat /\ Len(u) = n + Len(v)
      /\ \A p \in 1 .. n : u[p] = w[p]
      /\ \A p \in 1 .. Len(v) : u[n + p] = v[p]
  BY TwoParts
<1>. HIDE DEF u, n
<1>2. \A p \in 1 .. n : IsPiece(u[p]) <=> IsPiece(w[p])
  BY <1>1
<1>3. \A p \in n + 1 .. n + f : ~IsPiece(u[p])
  <2>. SUFFICES ASSUME NEW p \in n + 1 .. n + f PROVE ~IsPiece(u[p])
    OBVIOUS
  <2>1. p - n \in 1 .. f /\ p - n \in 1 .. Len(v) /\ p = n + (p - n)
    BY <1>1
  <2>2. u[p] = v[p - n]
    BY <1>1, <2>1
  <2>. QED
    BY <2>1, <2>2
<1>4. \A p \in Q : IsPiece(u[p])
  <2>. SUFFICES ASSUME NEW p \in Q PROVE IsPiece(u[p])
    OBVIOUS
  <2>1. p - n - f \in 1 .. r /\ f + (p - n - f) \in 1 .. Len(v) /\ p = n + (f + (p - n - f))
    BY <1>1
  <2>2. u[p] = v[f + (p - n - f)]
    BY <1>1, <2>1
  <2>. QED
    BY <2>1, <2>2
<1>5. Counted(u, n + (f + r)) = P \cup Q /\ P \cap Q = {}
  <2>1. \A p : p \in 1 .. n + (f + r) <=> p \in 1 .. n \/ p \in n + 1 .. n + f \/ p \in Q
    BY <1>1
  <2>2. \A p \in 1 .. n : p \notin Q
    BY <1>1
  <2>. HIDE DEF Q
  <2>. QED
    BY <1>2, <1>3, <1>4, <2>1, <2>2 DEF Counted
<1>6. IsFiniteSet(Q) /\ Cardinality(Q) = r
  <2>1. n + f + 1 \in Int /\ n + f + r \in Int /\ ~(n + f + 1 > n + f + r)
        /\ (n + f + r) - (n + f + 1) + 1 = r
    BY <1>1
  <2>. QED
    BY <2>1, FS_Interval
<1>7. IsFiniteSet(P)
  BY DEF n
<1>. HIDE DEF P, Q
<1>8. Cardinality(P \cup Q) = Cardinality(P) + Cardinality(Q) - Cardinality(P \cap Q)
  BY <1>6, <1>7, FS_Union
<1>9. Cardinality(P \cap Q) = 0 /\ Cardinality(P) \in Nat
  BY <1>5, <1>7, FS_EmptySet, FS_CardinalityType
<1>10. Cardinality(P \cup Q) = Cardinality(P) + r
  BY <1>6, <1>8, <1>9
<1>. QED
  BY <1>5, <1>10 DEF P, n, u


\* What the turns before n bring into the prompt is what is left of the messages before it.
LEMMA LeftBefore ==
    ASSUME Types, LeftInv, NEW n \in 1 .. Len(conversation)
    PROVE  /\ \A a \in Reached(n - 1) : a < conversation[n].at
           /\ Reached(n - 1) \ {0} = Left(conversation[n].at - 1)
           /\ IsFiniteSet(Reached(n - 1)) /\ Reached(n - 1) \in SUBSET Nat
<1>. DEFINE t == conversation[n]
<1>1. /\ Len(sent) \in Nat /\ First(hasTools) \in 0 .. 1 /\ Len(conversation) \in Nat
      /\ conversation \in Seq(Turn) /\ t \in Turn /\ t.at \in Nat
      /\ Line(sent, hasTools, encoder, conversation)
  <2>1. conversation \in Seq(Turn) /\ t \in Turn
    BY DEF Types
  <2>2. t.at \in Nat
    BY <2>1, TurnFields
  <2>. QED
    BY <2>1, <2>2 DEF Types, First, LeftInv
<1>2. t.at \in First(hasTools) .. Len(sent)
  BY <1>1 DEF Line, TurnFits
<1>3. ASSUME NEW a \in Reached(n - 1) PROVE a < t.at /\ ~Gone(a) /\ a \in First(hasTools) .. Len(sent)
  <2>1. PICK i \in 1 .. n - 1 : Has(encoder, conversation[i], a)
    BY DEF Reached, Reaches
  <2>2. i \in 1 .. Len(conversation) /\ i < n /\ a \in First(hasTools) .. Len(sent) /\ a \in 0 .. Len(sent)
    BY <1>1 DEF Reached
  <2>3. a < t.at
    BY <1>1, <2>1, <2>2 DEF Line
  <2>4. ~Gone(a)
    BY <2>1, <2>2 DEF LeftInv, Reaches
  <2>. QED
    BY <2>2, <2>3, <2>4
<1>4. ASSUME NEW a \in Left(t.at - 1) PROVE a \in Reached(n - 1) /\ a # 0
  <2>1. a \in 1 .. t.at - 1 /\ ~Gone(a)
    BY DEF Left, Gone
  <2>2. a \in First(hasTools) .. Len(sent) /\ a \in 0 .. Len(sent) /\ a < t.at /\ a # 0
    BY <1>1, <1>2, <2>1
  <2>3. PICK i \in 1 .. Len(conversation) : Has(encoder, conversation[i], a)
    BY <2>1, <2>2 DEF LeftInv, Reaches
  <2>4. i < n
    BY <1>1, <2>2, <2>3, EarlierTurn
  <2>5. i \in 1 .. n - 1
    BY <1>1, <2>4
  <2>. QED
    BY <2>2, <2>3, <2>5 DEF Reached, Reaches
<1>5. Reached(n - 1) \ {0} = Left(t.at - 1)
  <2>1. ASSUME NEW a \in Reached(n - 1) \ {0} PROVE a \in Left(t.at - 1)
    <3>1. a \in 1 .. t.at - 1 /\ ~Forgotten(a)
      BY <1>1, <1>2, <1>3 DEF Gone
    <3>. QED
      BY <3>1 DEF Left
  <2>. QED
    BY <1>4, <2>1
<1>6. IsFiniteSet(Reached(n - 1)) /\ Reached(n - 1) \in SUBSET Nat
  <2>1. Reached(n - 1) \in SUBSET (0 .. Len(sent))
    BY <1>1, <1>3
  <2>2. IsFiniteSet(0 .. Len(sent))
    BY <1>1, FS_Interval
  <2>. QED
    BY <2>1, <2>2, FS_Subset
<1>. QED
  BY <1>3, <1>5, <1>6

LEMMA LeftMore ==
    ASSUME NEW a \in Nat \ {0}, NEW r \in Nat \ {0}, \A x \in a .. a + r - 1 : ~Forgotten(x)
    PROVE  Cardinality(Left(a + r - 1)) = Cardinality(Left(a - 1)) + r
<1>. DEFINE P == Left(a - 1)
            Q == a .. a + r - 1
<1>1. Left(a + r - 1) = P \cup Q /\ P \cap Q = {}
  <2>1. \A x : x \in 1 .. a + r - 1 <=> x \in 1 .. a - 1 \/ x \in Q
    OBVIOUS
  <2>2. \A x \in 1 .. a - 1 : x \notin Q
    OBVIOUS
  <2>. HIDE DEF Q
  <2>. QED
    BY <2>1, <2>2 DEF Left, Q
<1>2. IsFiniteSet(Q) /\ Cardinality(Q) = r
  BY FS_Interval
<1>3. IsFiniteSet(P)
  <2>1. P \in SUBSET (1 .. a - 1) /\ IsFiniteSet(1 .. a - 1)
    BY FS_Interval DEF Left
  <2>. QED
    BY <2>1, FS_Subset
<1>. HIDE DEF P, Q
<1>4. Cardinality(P \cup Q) = Cardinality(P) + Cardinality(Q) - Cardinality(P \cap Q)
  BY <1>2, <1>3, FS_Union
<1>5. Cardinality(P \cap Q) = 0 /\ Cardinality(P) \in Nat
  BY <1>1, <1>3, FS_EmptySet, FS_CardinalityType
<1>6. Cardinality(P \cup Q) = Cardinality(P) + r
  BY <1>2, <1>4, <1>5
<1>. QED
  BY <1>1, <1>6 DEF P

\* A piece of a turn that is no result is at its place in the turn.
LEMMA PlaceInTurn ==
    ASSUME Types, LeftInv, NEW n \in 1 .. Len(conversation), conversation[n].role # "other",
           NEW r \in 1 .. Len(Middle(conversation, n)),
           Middle(conversation, n)[r].at > 0, Middle(conversation, n)[r].kind # "result"
    PROVE  /\ conversation[n].at \in Nat \ {0}
           /\ Middle(conversation, n)[r].at = conversation[n].at + r - 1
           /\ \A a \in conversation[n].at .. conversation[n].at + r - 1 : ~Forgotten(a)
           /\ \A x \in 1 .. r : IsPiece(Middle(conversation, n)[x])
<1>. DEFINE t == conversation[n]
            m == Middle(conversation, n)
<1>1. /\ conversation \in Seq(Turn) /\ t \in Turn /\ t.at \in Nat /\ Len(t.blocks) \in Nat
      /\ TurnFits(sent, hasTools, encoder, t)
  <2>1. conversation \in Seq(Turn) /\ t \in Turn
    BY DEF Types
  <2>. QED
    BY <2>1, TurnFields DEF LeftInv, Line
<1>2. /\ Len(m) \in Nat
      /\ \A p \in 1 .. Len(m) : m[p].kind \in Contents
      /\ IsMerged(encoder, t) =>
            /\ Len(m) = Len(t.blocks)
            /\ \A p \in 1 .. Len(t.blocks) : m[p].kind = t.blocks[p].type /\ m[p].at = t.blocks[p].at
      /\ ~IsMerged(encoder, t) => Len(m) = 1 /\ m[1].at = t.at
  <2>1. m \in Seq(Chunk)
    BY <1>1, MiddleType
  <2>. QED
    BY <1>1, <2>1, MiddleType
<1>3. ASSUME NEW a \in 1 .. Len(sent), Has(encoder, t, a) PROVE ~Forgotten(a)
  <2>1. a \in First(hasTools) .. Len(sent) /\ Reaches(encoder, conversation, Len(conversation), a)
    BY <1>3 DEF Reaches, First, Types
  <2>. QED
    BY <2>1 DEF LeftInv, Gone
<1>4. CASE IsMerged(encoder, t)
  <2>1. BlocksFit(sent, t) /\ t.at \in First(hasTools) .. Len(sent) /\ First(hasTools) \in 0 .. 1
    BY <1>1, <1>4 DEF TurnFits, First, Types
  <2>2. \A p \in 1 .. Len(t.blocks) :
           t.blocks[p].at \in 1 .. Len(sent) /\ t.blocks[p].type \in {"text", "result"}
    <3>. SUFFICES ASSUME NEW p \in 1 .. Len(t.blocks)
                  PROVE  t.blocks[p].at \in 1 .. Len(sent) /\ t.blocks[p].type \in {"text", "result"}
      OBVIOUS
    <3>1. t.blocks[p] \in Block
      BY <1>1, TurnFields
    <3>. QED
      BY <2>1, <3>1 DEF BlocksFit, BlockFits, Block
  <2>3. t.blocks[r].type = "text" /\ r \in 1 .. Len(t.blocks)
    BY <1>2, <1>4, <2>2
  <2>4. m[r].at = t.at + r - 1
    BY <1>2, <1>4, <2>1, <2>3 DEF BlocksFit
  <2>5. Has(encoder, t, t.at)
    BY <1>1, TurnFacts
  <2>6. t.at > 0
    BY <1>1, <1>4, <2>1, <2>5, TurnFacts DEF Types
  <2>7. ASSUME NEW a \in t.at .. t.at + r - 1 PROVE ~Forgotten(a)
    <3>1. a \in t.at .. Last(t)
      BY <1>1, <2>3 DEF Last
    <3>2. PICK k \in 1 .. Len(t.blocks) : t.blocks[k].at = a
      BY <2>1, <3>1 DEF BlocksFit
    <3>3. a \in 1 .. Len(sent) /\ Has(encoder, t, a)
      BY <1>4, <2>2, <3>2 DEF Has
    <3>. QED
      BY <1>3, <3>3
  <2>8. \A x \in 1 .. r : IsPiece(m[x])
    <3>1. \A x \in 1 .. r : x \in 1 .. Len(t.blocks) /\ x \in 1 .. Len(m)
      BY <1>2, <1>4, <2>3
    <3>2. \A x \in 1 .. r : m[x].at \in 1 .. Len(sent) /\ m[x].kind \in Contents
      BY <1>2, <1>4, <2>2, <3>1
    <3>. HIDE DEF m, t
    <3>. QED
      BY <3>2 DEF IsPiece
  <2>. QED
    BY <1>1, <2>4, <2>6, <2>7, <2>8
<1>5. CASE ~IsMerged(encoder, t)
  <2>1. r = 1 /\ m[1].at = t.at /\ m[1].kind \in Contents
    <3>1. r \in 1 .. Len(m)
      OBVIOUS
    <3>2. Len(m) = 1 /\ m[1].at = t.at
      BY <1>2, <1>5
    <3>. HIDE DEF m, t
    <3>3. r = 1 /\ 1 \in 1 .. Len(m)
      BY <3>1, <3>2
    <3>4. m[1].kind \in Contents
      BY <1>2, <3>3
    <3>. QED
      BY <3>2, <3>3, <3>4
  <2>2. t.at \in First(hasTools) .. Len(sent) /\ Has(encoder, t, t.at)
    BY <1>1, TurnFacts
  <2>3. t.at > 0 /\ t.at \in 1 .. Len(sent)
    BY <1>1, <2>1, <2>2
  <2>4. ~Forgotten(t.at)
    BY <1>3, <2>2, <2>3
  <2>5. \A a \in t.at .. t.at + r - 1 : a = t.at
    BY <1>1, <2>1
  <2>6. \A x \in 1 .. r : x = 1
    BY <2>1
  <2>7. IsPiece(m[1])
    BY <2>1, <2>3 DEF IsPiece
  <2>8. t.at = t.at + r - 1
    BY <1>1, <2>1
  <2>. HIDE DEF m, t
  <2>. QED
    BY <1>1, <2>1, <2>3, <2>4, <2>5, <2>6, <2>7, <2>8 DEF m, t
<1>. QED
  BY <1>4, <1>5


LEMMA RenderPlaces ==
    ASSUME IInv, PlacesInv, Render
    PROVE  PlacesInv'
<1>. DEFINE n == next
            t == conversation[n]
            w == prompt
            v == Rendered(conversation, n)
            u == w \o v
            f == Len(Front(conversation, n))
            m == Middle(conversation, n)
            A == {a \in First(hasTools) .. Len(sent) : Has(encoder, t, a)}
<1>1. Types /\ LeftInv /\ PromptInv /\ stage = "render" /\ error # "malformed"
  BY TypesHold DEF IInv, Rendering, Render
<1>2. /\ UNCHANGED <<inputs, stage, conversation, written, order, error>>
      /\ next' = n + 1 /\ n \in Nat \ {0} /\ prompt' = u
      /\ RefusalOf(conversation, n) = "none"
  BY <1>1 DEF Render, Types
<1>3. /\ Len(sent) \in Nat /\ First(hasTools) \in 0 .. 1
      /\ conversation \in Seq(Turn) /\ Len(conversation) \in Nat /\ encoder \in Encoders
  BY <1>1 DEF Types, First
<1>4. n \in 1 .. Len(conversation)
  BY <1>2, <1>3 DEF RefusalOf
<1>5. /\ t \in Turn /\ TurnFits(sent, hasTools, encoder, t)
      /\ t.at \in Nat /\ Len(t.blocks) \in Nat
      /\ t.role = "tool" => encoder = "v32"
  <2>1. t \in Turn /\ TurnFits(sent, hasTools, encoder, t)
    BY <1>1, <1>3, <1>4 DEF LeftInv, Line
  <2>. QED
    BY <1>1, <2>1, TurnFields, TurnFacts DEF IsMerged
<1>6. /\ v \in Seq(Chunk) /\ f \in Nat /\ Len(m) \in Nat
      /\ \A p \in 1 .. Len(v) : v[p].kind \in Contents => p - f \in 1 .. Len(m)
      /\ \A r \in 1 .. Len(m) : f + r \in 1 .. Len(v) /\ v[f + r] = m[r]
      /\ t.role # "other"
  BY <1>2, <1>3, <1>4, <1>5, RenderedPlaces, RenderedParts
<1>7. Tells(v, A) /\ Tells(w, Reached(n - 1))
  BY <1>1, <1>2, <1>4, RenderedTells DEF PromptInv
<1>8. /\ w \in Seq(Chunk) /\ Len(w) \in Nat /\ Len(v) \in Nat /\ Len(u) = Len(w) + Len(v)
      /\ \A p \in 1 .. Len(w) : u[p] = w[p]
      /\ \A p \in 1 .. Len(v) : u[Len(w) + p] = v[p]
  <2>1. w \in Seq(Chunk) /\ v \in Seq(Chunk)
    BY <1>7 DEF Tells
  <2>. HIDE DEF v
  <2>. QED
    BY <2>1, TwoParts
<1>9. \A p \in 1 .. Len(u) : \/ p \in 1 .. Len(w) /\ u[p] = w[p]
                             \/ /\ p - Len(w) \in 1 .. Len(v) /\ p = Len(w) + (p - Len(w))
                                /\ u[p] = v[p - Len(w)]
  <2>1. \A p \in 1 .. Len(u) : \/ p \in 1 .. Len(w)
                               \/ p - Len(w) \in 1 .. Len(v) /\ p = Len(w) + (p - Len(w))
    <3>. HIDE DEF u, v
    <3>. QED
      BY <1>8
  <2>. HIDE DEF u, v
  <2>. QED
    BY <1>8, <2>1
<1>10. TextsInPlace(w) /\ ResultsAreResults(w) /\ BlocksFollow(w, n - 1)
  BY <1>1 DEF PlacesInv, Rendering
<1>11. /\ \A a \in Reached(n - 1) : a < t.at
       /\ Reached(n - 1) \ {0} = Left(t.at - 1)
       /\ IsFiniteSet(Reached(n - 1)) /\ Reached(n - 1) \in SUBSET Nat
  BY <1>1, <1>4, LeftBefore
<1>12. ASSUME NEW p \in 1 .. Len(v), v[p].kind \in Contents
       PROVE  p - f \in 1 .. Len(m) /\ p = f + (p - f) /\ v[p] = m[p - f]
  <2>1. p - f \in 1 .. Len(m) /\ p = f + (p - f)
    BY <1>6, <1>12
  <2>. HIDE DEF v, m, f
  <2>. QED
    BY <1>6, <2>1
<1>. HIDE DEF u, v, f, m, A, w, t, n
<1>13. TextsInPlace(u)
  <2>. SUFFICES ASSUME NEW p \in 1 .. Len(u), IsPiece(u[p]), u[p].kind # "result"
                PROVE  Cardinality(Counted(u, p)) = Cardinality(Left(u[p].at))
    BY DEF TextsInPlace
  <2>1. CASE p \in 1 .. Len(w) /\ u[p] = w[p]
    <3>1. Counted(u, p) = Counted(w, p)
      <4>1. \A q \in 1 .. p : u[q] = w[q]
        BY <1>8, <2>1
      <4>. QED
        BY <4>1 DEF Counted
    <3>. QED
      BY <1>10, <2>1, <3>1 DEF TextsInPlace
  <2>2. CASE p - Len(w) \in 1 .. Len(v) /\ p = Len(w) + (p - Len(w)) /\ u[p] = v[p - Len(w)]
    <3>. DEFINE r == p - Len(w) - f
    <3>1. r \in 1 .. Len(m) /\ p - Len(w) = f + r /\ u[p] = m[r]
      <4>1. v[p - Len(w)].kind \in Contents
        BY <2>2 DEF IsPiece
      <4>. QED
        BY <1>12, <2>2, <4>1
    <3>. HIDE DEF r
    <3>2. /\ t.at \in Nat \ {0}
          /\ m[r].at = t.at + r - 1
          /\ \A a \in t.at .. t.at + r - 1 : ~Forgotten(a)
          /\ \A x \in 1 .. r : IsPiece(m[x])
      <4>1. m[r].at > 0 /\ m[r].kind # "result"
        BY <3>1 DEF IsPiece
      <4>. QED
        BY <1>1, <1>4, <1>6, <3>1, <4>1, PlaceInTurn DEF m, t, n
    <3>3. r \in Nat \ {0} /\ f + r \in 1 .. Len(v)
      BY <1>6, <3>1
    <3>4. \A q \in 1 .. f : ~IsPiece(v[q])
      <4>1. \A q \in 1 .. f : q \in 1 .. Len(v) /\ ~(q - f \in 1 .. Len(m))
        BY <1>6, <1>8, <3>3
      <4>. QED
        BY <1>6, <4>1 DEF IsPiece
    <3>5. \A x \in 1 .. r : IsPiece(v[f + x])
      <4>1. \A x \in 1 .. r : x \in 1 .. Len(m)
        BY <1>6, <3>1
      <4>. QED
        BY <1>6, <3>2, <4>1
    <3>6. /\ IsFiniteSet(Counted(w, Len(w)))
          /\ Cardinality(Counted(w, Len(w))) = Cardinality(Left(t.at - 1))
      BY <1>7, <1>11, CountedSize
    <3>7. Cardinality(Counted(u, Len(w) + (f + r))) = Cardinality(Left(t.at - 1)) + r
      <4>1. w \in Seq(Chunk) /\ v \in Seq(Chunk) /\ f \in Nat
        BY <1>6, <1>8
      <4>2. IsFiniteSet(Counted(w, Len(w)))
        BY <3>6
      <4>3. Cardinality(Counted(w \o v, Len(w) + (f + r))) = Cardinality(Counted(w, Len(w))) + r
        BY <3>3, <3>4, <3>5, <4>1, <4>2, CountedMore
      <4>. QED
        BY <3>6, <4>3 DEF u
    <3>8. Cardinality(Left(t.at + r - 1)) = Cardinality(Left(t.at - 1)) + r
      BY <3>2, <3>3, LeftMore
    <3>. QED
      BY <2>2, <3>1, <3>2, <3>7, <3>8
  <2>. QED
    BY <1>9, <2>1, <2>2
<1>14. ResultsAreResults(u)
  <2>. SUFFICES ASSUME encoder # "v32", NEW p \in 1 .. Len(u), u[p].kind = "result"
                PROVE  u[p].at \in 1 .. Len(sent) /\ sent[u[p].at].role = "tool"
    BY DEF ResultsAreResults
  <2>1. CASE p \in 1 .. Len(w) /\ u[p] = w[p]
    BY <1>10, <2>1 DEF ResultsAreResults
  <2>2. CASE p - Len(w) \in 1 .. Len(v) /\ u[p] = v[p - Len(w)]
    <3>1. PICK r \in 1 .. Len(m) : u[p] = m[r]
      <4>1. v[p - Len(w)].kind \in Contents
        BY <2>2 DEF Contents
      <4>. QED
        BY <1>12, <2>2, <4>1
    <3>2. CASE IsMerged(encoder, t)
      <4>1. /\ Len(m) = Len(t.blocks)
            /\ m[r].kind = t.blocks[r].type /\ m[r].at = t.blocks[r].at
        BY <1>3, <1>4, <1>6, <3>2, MiddleType DEF m, t
      <4>2. BlockFits(sent, t.blocks[r])
        BY <1>5, <3>2, <4>1 DEF TurnFits, BlocksFit
      <4>. QED
        BY <3>1, <4>1, <4>2 DEF BlockFits
    <3>3. CASE ~IsMerged(encoder, t)
      <4>1. Len(m) = 1 /\ m[1].kind = Kind(t.role)
        BY <1>3, <1>4, <1>6, <3>3, MiddleType DEF m, t
      <4>2. r = 1
        BY <4>1
      <4>3. t.role \in Roles
        BY <1>5, TurnFields
      <4>. QED
        BY <1>5, <1>6, <3>1, <4>1, <4>2, <4>3 DEF Kind, Roles
    <3>. QED
      BY <3>2, <3>3
  <2>. QED
    BY <1>9, <2>1, <2>2
<1>15. ASSUME NEW p \in 1 .. Len(u), u[p].kind \in Contents, u[p].at \in A
       PROVE  \E r \in 1 .. Len(m) : u[p] = m[r] /\ p = Len(w) + (f + r)
  <2>1. CASE p \in 1 .. Len(w) /\ u[p] = w[p]
    <3>1. u[p].at \in Reached(n - 1)
      BY <1>7, <1>15, <2>1 DEF Tells
    <3>2. u[p].at < t.at
      BY <1>11, <3>1
    <3>3. Has(encoder, t, u[p].at) /\ u[p].at \in 0 .. Len(sent)
      BY <1>3, <1>15 DEF A
    <3>4. t.at <= u[p].at
      BY <1>1, <1>5, <3>3, TurnFacts
    <3>. QED
      BY <1>5, <3>2, <3>3, <3>4
  <2>2. CASE p - Len(w) \in 1 .. Len(v) /\ p = Len(w) + (p - Len(w)) /\ u[p] = v[p - Len(w)]
    BY <1>12, <1>15, <2>2
  <2>. QED
    BY <1>9, <2>1, <2>2
<1>16. ASSUME NEW p \in 1 .. Len(u), u[p].kind \in Contents, u[p].at \notin A
       PROVE  p \in 1 .. Len(w) /\ u[p] = w[p]
  <2>1. CASE p - Len(w) \in 1 .. Len(v) /\ u[p] = v[p - Len(w)]
    BY <1>7, <1>16, <2>1 DEF Tells
  <2>. QED
    BY <1>9, <2>1
<1>17. Follows(u, t) \/ ~IsMerged(encoder, t)
  <2>. SUFFICES ASSUME IsMerged(encoder, t),
                       NEW x \in 1 .. Len(t.blocks), NEW y \in 1 .. Len(t.blocks), x < y,
                       NEW p \in 1 .. Len(u), NEW q \in 1 .. Len(u),
                       u[p].kind \in Contents, u[p].at = t.blocks[x].at,
                       u[q].kind \in Contents, u[q].at = t.blocks[y].at
                PROVE  p < q
    BY DEF Follows
  <2>1. BlocksFit(sent, t)
    BY <1>5 DEF TurnFits
  <2>2. /\ Len(m) = Len(t.blocks)
        /\ \A r \in 1 .. Len(m) : m[r].at = t.blocks[r].at
    BY <1>3, <1>4, <1>6, MiddleType DEF m, t
  <2>3. ASSUME NEW k \in 1 .. Len(t.blocks) PROVE t.blocks[k].at \in A
    <3>1. t.blocks[k].at \in 1 .. Len(sent)
      BY <2>1 DEF BlocksFit, BlockFits
    <3>2. Has(encoder, t, t.blocks[k].at)
      BY DEF Has
    <3>3. t.blocks[k].at \in First(hasTools) .. Len(sent)
      BY <1>3, <3>1
    <3>. QED
      BY <3>2, <3>3 DEF A
  <2>4. PICK r \in 1 .. Len(m) : u[p] = m[r] /\ p = Len(w) + (f + r)
    BY <1>15, <2>3
  <2>5. PICK s \in 1 .. Len(m) : u[q] = m[s] /\ q = Len(w) + (f + s)
    BY <1>15, <2>3
  <2>6. r = x /\ s = y
    BY <2>1, <2>2, <2>4, <2>5 DEF BlocksFit
  <2>. QED
    BY <1>6, <1>8, <2>4, <2>5, <2>6
<1>18. ASSUME NEW i \in 1 .. n - 1, IsMerged(encoder, conversation[i])
       PROVE  Follows(u, conversation[i])
  <2>1. i \in 1 .. Len(conversation) /\ i < n
    BY <1>3, <1>4
  <2>2. Follows(w, conversation[i])
    BY <1>10, <1>18 DEF BlocksFollow
  <2>3. ASSUME NEW k \in 1 .. Len(conversation[i].blocks) PROVE conversation[i].blocks[k].at \notin A
    <3>1. TurnFits(sent, hasTools, encoder, conversation[i])
      BY <1>1, <2>1 DEF LeftInv, Line
    <3>2. conversation[i].blocks[k].at \in 1 .. Len(sent)
      BY <1>18, <3>1 DEF TurnFits, BlocksFit, BlockFits
    <3>3. Has(encoder, conversation[i], conversation[i].blocks[k].at)
      BY <1>18 DEF Has
    <3>4. conversation[i].blocks[k].at < t.at
      <4>1. conversation[i].blocks[k].at \in 0 .. Len(sent)
        BY <1>3, <3>2
      <4>. QED
        BY <1>1, <1>4, <2>1, <3>3, <4>1 DEF LeftInv, Line, t
    <3>5. \A a \in A : t.at <= a /\ a \in Nat
      <4>1. \A a \in A : a \in 0 .. Len(sent) /\ Has(encoder, t, a)
        BY <1>3 DEF A
      <4>. QED
        BY <1>1, <1>3, <1>5, <4>1, TurnFacts
    <3>. QED
      BY <1>5, <3>2, <3>4, <3>5
  <2>. QED
    BY <1>16, <2>2, <2>3 DEF Follows
<1>19. BlocksFollow(u, n)
  <2>1. \A i \in 1 .. n : i \in 1 .. n - 1 \/ i = n
    BY <1>2
  <2>. QED
    BY <1>17, <1>18, <2>1 DEF BlocksFollow, t
<1>20. next' - 1 = n
  BY <1>2
<1>21. /\ TextsInPlace(prompt)' = TextsInPlace(prompt')
       /\ ResultsAreResults(prompt)' = ResultsAreResults(prompt')
       /\ BlocksFollow(prompt, next - 1)' = BlocksFollow(prompt', next' - 1)
  BY <1>2 DEF TextsInPlace, ResultsAreResults, BlocksFollow, Left, Forgotten, IsForgetful,
       InLastTurn, Turns, inputs
<1>. QED
  BY <1>2, <1>13, <1>14, <1>19, <1>20, <1>21 DEF PlacesInv


LEMMA PlacesAreInvariant == Spec => []PlacesInv
<1>1. Init => PlacesInv
  BY DEF Init, PlacesInv, Rendering
<1>2. IInv /\ PlacesInv /\ [Next]_vars => PlacesInv'
  <2>. SUFFICES ASSUME IInv, PlacesInv, [Next]_vars PROVE PlacesInv'
    OBVIOUS
  <2>1. CASE Parse \/ Merge \/ EndMerge \/ Sort \/ EndSort \/ Forget
    <3>1. stage' \notin {"render", "done"}
      BY <2>1 DEF Parse, Merge, EndMerge, Sort, EndSort, Forget
    <3>. QED
      BY <3>1 DEF PlacesInv, Rendering
  <2>2. CASE RefuseToParse
    BY <2>2 DEF RefuseToParse, PlacesInv, Rendering
  <2>3. CASE EndForget
    <3>1. prompt' = <<>> /\ next' - 1 = 0
      BY <2>3 DEF EndForget, IInv
    <3>. QED
      BY <3>1 DEF PlacesInv, TextsInPlace, ResultsAreResults, BlocksFollow
  <2>4. CASE Render
    BY <2>4, RenderPlaces
  <2>5. CASE Raise \/ EndRender \/ UNCHANGED vars
    <3>1. /\ UNCHANGED <<inputs, next, conversation, prompt>>
          /\ Rendering' => Rendering
      <4>1. CASE Raise
        BY <4>1 DEF Raise, IInv, Rendering
      <4>2. CASE EndRender
        BY <4>2 DEF EndRender, IInv, Rendering
      <4>3. CASE UNCHANGED vars
        BY <4>3 DEF vars, Rendering
      <4>. QED
        BY <2>5, <4>1, <4>2, <4>3
    <3>2. /\ TextsInPlace(prompt)' = TextsInPlace(prompt)
          /\ ResultsAreResults(prompt)' = ResultsAreResults(prompt)
          /\ BlocksFollow(prompt, next - 1)' = BlocksFollow(prompt, next - 1)
      BY <3>1 DEF TextsInPlace, ResultsAreResults, BlocksFollow, Left, Forgotten, IsForgetful,
         InLastTurn, Turns, inputs
    <3>. QED
      BY <3>1, <3>2 DEF PlacesInv
  <2>. QED
    BY <2>1, <2>2, <2>3, <2>4, <2>5 DEF Next
<1>. QED
  BY <1>1, <1>2, IsInvariant, PTL DEF Spec

\* What is no result has as many pieces before it as messages that are left: wherever it
\* stands, however many results are sorted around it.
THEOREM ResultsMoveAlone == Spec => []OnlyResultsMove
<1>1. PlacesInv => OnlyResultsMove
  <2>. SUFFICES ASSUME PlacesInv, Encoded, NEW p \in 1 .. Len(prompt),
                       prompt[p].kind \in Contents \ {"result"}, prompt[p].at > 0
                PROVE  Pieces(p) = Cardinality({i \in 1 .. prompt[p].at : ~Forgotten(i)})
    BY DEF OnlyResultsMove
  <2>1. TextsInPlace(prompt)
    BY DEF PlacesInv, Rendering, Encoded
  <2>2. Cardinality(Counted(prompt, p)) = Cardinality(Left(prompt[p].at))
    BY <2>1 DEF TextsInPlace, IsPiece
  <2>. QED
    BY <2>2 DEF Pieces, Counted, IsPiece, Left
<1>. QED
  BY <1>1, PlacesAreInvariant, PTL

LEMMA PlaceIs ==
    ASSUME NEW calls, Len(calls) \in Nat, NEW id, NEW a \in 1 .. Len(calls), calls[a] = id,
           \A l \in 1 .. Len(calls) : calls[l] = id => l = a
    PROVE  Place(id, calls) = a
<1>1. \A l \in a + 1 .. Len(calls) : calls[l] # id
  OBVIOUS
<1>2. \A k \in 1 .. Len(calls) :
         calls[k] = id /\ (\A l \in k + 1 .. Len(calls) : calls[l] # id) => k = a
  OBVIOUS
<1>. QED
  BY <1>1, <1>2 DEF Place

\* Results after the same calls, with only users' texts and results between them and no
\* task since the calls, are in one turn, and the calls are the last ones before it.
LEMMA SameTurn ==
    ASSUME Types, LeftInv, RunsEnd(sent, encoder, conversation, Len(sent) + 1),
           encoder # "v32",
           NEW j \in 1 .. Len(sent), sent[j].role = "assistant",
           NEW i \in 1 .. Len(sent), NEW k \in 1 .. Len(sent), j < i, i <= k,
           ~Gone(i),
           \A l \in i .. k : sent[l].role \in {"tool", "user"},
           \A l \in j .. i : sent[l].task = "none"
    PROVE  \E n \in 1 .. Len(conversation) :
              /\ IsMerged(encoder, conversation[n])
              /\ Has(encoder, conversation[n], i) /\ Has(encoder, conversation[n], k)
              /\ j < conversation[n].at /\ conversation[n].at <= i
<1>1. Len(sent) \in Nat /\ First(hasTools) \in 0 .. 1 /\ conversation \in Seq(Turn)
  BY DEF Types, First
<1>2. PICK n \in 1 .. Len(conversation) : Has(encoder, conversation[n], i)
  <2>1. i \in First(hasTools) .. Len(sent)
    BY <1>1
  <2>. QED
    BY <2>1 DEF LeftInv, Reaches
<1>. DEFINE t == conversation[n]
<1>3. /\ t \in Turn /\ TurnFits(sent, hasTools, encoder, t)
      /\ t.at \in Nat /\ Len(t.blocks) \in Nat /\ Last(t) \in Int
  <2>1. t \in Turn /\ TurnFits(sent, hasTools, encoder, t)
    BY <1>1 DEF LeftInv, Line
  <2>2. t.at \in Nat /\ Len(t.blocks) \in Nat
    BY <2>1, TurnFields
  <2>. QED
    BY <2>1, <2>2 DEF Last
<1>. HIDE DEF t
<1>4. IsMerged(encoder, t)
  <2>. SUFFICES ASSUME ~IsMerged(encoder, t) PROVE FALSE
    OBVIOUS
  <2>1. t.at = i
    BY <1>2, <1>3, TurnFacts DEF t
  <2>2. t.role = sent[i].role /\ (t.role = "tool" => encoder = "v32")
    BY <1>3, <2>1, TurnFacts
  <2>3. i \in i .. k
    BY <1>1
  <2>. QED
    BY <2>2, <2>3 DEF IsMerged
<1>5. i \in t.at .. Last(t)
  BY <1>2, <1>3, <1>4, TurnFacts DEF t
<1>6. j < t.at
  <2>. SUFFICES ASSUME ~(j < t.at) PROVE FALSE
    OBVIOUS
  <2>1. j \in t.at .. Last(t) /\ j \in 0 .. Len(sent)
    BY <1>1, <1>3, <1>5
  <2>2. Has(encoder, t, j)
    BY <1>3, <1>4, <2>1, TurnFacts
  <2>3. sent[j].role \in {"user", "tool"}
    BY <1>3, <1>4, <2>1, <2>2, TurnFacts
  <2>. QED
    BY <2>3
<1>7. t.task = "none"
  <2>1. t.at \in j .. i /\ t.at > 0
    BY <1>1, <1>3, <1>5, <1>6
  <2>2. Original(sent, t.at).task = sent[t.at].task
    BY <2>1 DEF Original, ParsedMessage
  <2>. QED
    BY <1>3, <1>4, <2>1, <2>2 DEF TurnFits
<1>8. k <= Last(t)
  <2>. SUFFICES ASSUME ~(k <= Last(t)) PROVE FALSE
    OBVIOUS
  <2>1. Last(t) + 1 \in i .. k /\ Last(t) + 1 < Len(sent) + 1
    BY <1>1, <1>3, <1>5
  <2>2. RunEnds(sent, t, Len(sent) + 1)
    BY <1>4 DEF RunsEnd, t
  <2>. QED
    BY <1>7, <2>1, <2>2 DEF RunEnds
<1>9. k \in t.at .. Last(t)
  BY <1>1, <1>3, <1>5, <1>8
<1>10. Has(encoder, t, k) /\ Has(encoder, t, i) /\ t.at <= i
  BY <1>3, <1>4, <1>5, <1>9, TurnFacts
<1>. QED
  BY <1>4, <1>6, <1>10 DEF t


\* Results that say which call they answer are in the order of the calls, for any number
\* of calls and results, wherever the results were sent.
THEOREM ResultsAreInCallOrder == Spec => []ResultsInCallOrder
<1>1. IInv /\ TurnsInv /\ PlacesInv => ResultsInCallOrder
  <2>. SUFFICES ASSUME IInv, TurnsInv, PlacesInv, Encoded, encoder # "v32",
                       NEW p \in 1 .. Len(prompt), NEW q \in 1 .. Len(prompt),
                       prompt[p].kind = "result", prompt[q].kind = "result",
                       NEW j \in 1 .. Len(sent),
                       AreLastCalls(j, prompt[p].at), AreTogether(j, prompt[p].at, prompt[q].at),
                       NEW a \in 1 .. Len(sent[j].calls), NEW b \in 1 .. Len(sent[j].calls),
                       Answers(j, a, prompt[p].at), Answers(j, b, prompt[q].at), a < b
                PROVE  p < q
    BY DEF ResultsInCallOrder
  <2>. DEFINE i == prompt[p].at
              k == prompt[q].at
              calls == sent[j].calls
  <2>1. /\ Types /\ LeftInv
        /\ Tells(prompt, {x \in First(hasTools) .. Len(sent) : ~Gone(x)})
        /\ next = Len(conversation) + 1
    BY EncodedTells
  <2>2. /\ RunsEnd(sent, encoder, conversation, Len(sent) + 1)
        /\ AreSorted(sent, encoder, conversation, Len(conversation))
        /\ ResultsAreResults(prompt) /\ BlocksFollow(prompt, Len(conversation))
    <3>1. next - 1 = Len(conversation)
      BY <2>1 DEF Types
    <3>. QED
      BY <3>1 DEF TurnsInv, PlacesInv, Rendering, Encoded
  <2>3. /\ i \in 1 .. Len(sent) /\ k \in 1 .. Len(sent)
        /\ sent[i].role = "tool" /\ sent[k].role = "tool"
    BY <2>2 DEF ResultsAreResults
  <2>4. /\ ~Gone(i) /\ ~Gone(k)
        /\ prompt[p].kind \in Contents /\ prompt[q].kind \in Contents
    <3>1. prompt[p].kind \in Contents /\ prompt[q].kind \in Contents
      BY DEF Contents
    <3>. QED
      BY <2>1, <3>1 DEF Tells
  <2>5. /\ j \in 1 .. Len(sent) /\ j \in 1 .. i /\ IsCalling(sent, j) /\ sent[j].role = "assistant"
        /\ \A l \in 1 .. i : IsCalling(sent, l) => l <= j
    <3>1. j \in 1 .. i /\ HasCalls(j) /\ \A l \in j + 1 .. i : ~HasCalls(l)
      BY DEF AreLastCalls
    <3>2. \A l \in 1 .. i : l <= j \/ l \in j + 1 .. i
      BY <2>3
    <3>. QED
      BY <3>1, <3>2 DEF HasCalls, IsCalling
  <2>6. Len(sent) \in Nat /\ calls \in Seq(Ids) /\ Len(calls) \in Nat
    <3>1. sent[j] \in Message
      BY <2>1, <2>5 DEF Types
    <3>2. calls \in Seq(Ids)
      BY <3>1 DEF Message
    <3>. QED
      BY <2>1, <3>2 DEF Types
  <2>7. /\ \A l \in (i .. k) \cup (k .. i) : sent[l].role \in {"tool", "user"}
        /\ \A l \in (j .. i) \cup (j .. k) : sent[l].task = "none"
    BY DEF AreTogether
  <2>8. /\ a \in 1 .. Len(calls) /\ b \in 1 .. Len(calls) /\ a < b
        /\ sent[i].call # NoId /\ sent[k].call # NoId
        /\ \A l \in 1 .. Len(calls) : calls[l] = sent[i].call <=> l = a
        /\ \A l \in 1 .. Len(calls) : calls[l] = sent[k].call <=> l = b
    BY DEF Answers
  <2>9. prompt[p].at = i /\ prompt[q].at = k
    OBVIOUS
  <2>. HIDE DEF i, k, calls
  <2>10. PICK n \in 1 .. Len(conversation) :
            /\ IsMerged(encoder, conversation[n])
            /\ Has(encoder, conversation[n], i) /\ Has(encoder, conversation[n], k)
            /\ j < conversation[n].at /\ conversation[n].at <= i
    <3>1. CASE i <= k
      <4>1. j < i
        <5>1. j # i
          BY <2>3, <2>5
        <5>. QED
          BY <2>3, <2>5, <5>1
      <4>. QED
        BY <2>1, <2>2, <2>3, <2>4, <2>5, <2>7, <3>1, <4>1, SameTurn
    <3>2. CASE ~(i <= k)
      <4>1. j < k
        <5>1. j \in k .. i => FALSE
          BY <2>5, <2>7
        <5>. QED
          BY <2>3, <2>5, <3>2, <5>1
      <4>2. k <= i
        BY <2>3, <3>2
      <4>3. PICK n \in 1 .. Len(conversation) :
               /\ IsMerged(encoder, conversation[n])
               /\ Has(encoder, conversation[n], k) /\ Has(encoder, conversation[n], i)
               /\ j < conversation[n].at /\ conversation[n].at <= k
        BY <2>1, <2>2, <2>3, <2>4, <2>5, <2>7, <4>1, <4>2, SameTurn
      <4>4. conversation[n].at \in Nat
        <5>1. conversation[n] \in Turn
          BY <2>1 DEF Types
        <5>. QED
          BY <5>1, TurnFields
      <4>5. conversation[n].at <= i
        BY <2>3, <3>2, <4>3, <4>4
      <4>. QED
        BY <4>3, <4>5
    <3>. QED
      BY <3>1, <3>2
  <2>. DEFINE t == conversation[n]
  <2>11. /\ t \in Turn /\ t.at \in Nat /\ Len(t.blocks) \in Nat /\ BlocksFit(sent, t)
         /\ j < t.at /\ t.at <= i /\ IsMerged(encoder, t)
    <3>1. t \in Turn
      BY <2>1 DEF Types
    <3>2. t.at \in Nat /\ Len(t.blocks) \in Nat
      BY <3>1, TurnFields
    <3>3. TurnFits(sent, hasTools, encoder, t)
      BY <2>1 DEF LeftInv, Line
    <3>. QED
      BY <2>10, <3>1, <3>2, <3>3 DEF TurnFits
  <2>12. InCallOrder(t.blocks, calls) /\ Follows(prompt, t)
    <3>1. LastCall(sent, j, t.at)
      <4>1. j \in 1 .. t.at - 1
        BY <2>3, <2>5, <2>11
      <4>2. \A l \in j + 1 .. t.at - 1 : ~IsCalling(sent, l)
        <5>1. \A l \in j + 1 .. t.at - 1 : l \in 1 .. i /\ ~(l <= j)
          BY <2>3, <2>5, <2>11
        <5>. QED
          BY <2>5, <5>1
      <4>. QED
        BY <2>5, <4>1, <4>2 DEF LastCall
    <3>2. IsSorted(sent, t)
      BY <2>2, <2>11 DEF AreSorted
    <3>. QED
      BY <2>2, <2>5, <2>11, <3>1, <3>2 DEF IsSorted, BlocksFollow, calls
  <2>13. PICK x \in 1 .. Len(t.blocks) : t.blocks[x].at = i
    BY <2>10 DEF Has
  <2>14. PICK y \in 1 .. Len(t.blocks) : t.blocks[y].at = k
    BY <2>10 DEF Has
  <2>. HIDE DEF t
  <2>15. ASSUME NEW z \in 1 .. Len(t.blocks), sent[t.blocks[z].at].role = "tool"
         PROVE  z \in Results(t.blocks) /\ t.blocks[z].call = sent[t.blocks[z].at].call
    <3>1. BlockFits(sent, t.blocks[z])
      BY <2>11 DEF BlocksFit
    <3>2. t.blocks[z] \in Block
      BY <2>11, TurnFields
    <3>3. t.blocks[z].type = "result"
      BY <2>15, <3>1, <3>2 DEF BlockFits, Block
    <3>. QED
      BY <3>1, <3>3 DEF BlockFits, Results
  <2>16. /\ x \in Results(t.blocks) /\ t.blocks[x].call = sent[i].call
         /\ y \in Results(t.blocks) /\ t.blocks[y].call = sent[k].call
    BY <2>3, <2>13, <2>14, <2>15
  <2>17. Key(t.blocks[x], calls) = a
    <3>1. Place(sent[i].call, calls) = a
      BY <2>6, <2>8, PlaceIs
    <3>. QED
      BY <2>8, <2>16, <3>1 DEF Key
  <2>18. Key(t.blocks[y], calls) = b
    <3>1. Place(sent[k].call, calls) = b
      BY <2>6, <2>8, PlaceIs
    <3>. QED
      BY <2>8, <2>16, <3>1 DEF Key
  <2>19. x < y
    <3>1. x # y
      BY <2>8, <2>16
    <3>2. ~(y < x)
      BY <2>6, <2>8, <2>12, <2>16, <2>17, <2>18 DEF InCallOrder
    <3>. QED
      BY <2>11, <3>1, <3>2
  <2>. QED
    BY <2>4, <2>9, <2>12, <2>13, <2>14, <2>19 DEF Follows
<1>. QED
  BY <1>1, IsInvariant, TurnsAreInvariant, PlacesAreInvariant, PTL


--------------------------------------------------------------------------------
(***************************************************************************)
(* The reasoning                                                           *)
(***************************************************************************)
\* An assistant's message has the reasoning it was sent with, or none if it is forgotten.
ReasoningFits(ms, forgotten) ==
    \A i \in 1 .. Len(ms) :
        ms[i].role = "assistant" =>
            (ms[i].reasoning <=> /\ sent[ms[i].at].reasoning
                                 /\ forgotten => InLastTurn(ms[i].at))

ReasoningShown(n) ==
    {a \in 1 .. Len(sent) :
        \E i \in 1 .. n : /\ conversation[i].at = a
                          /\ ShowsReasoning(conversation, i)
                          /\ conversation[i].reasoning}

ReasoningInv ==
    /\ stage = "merge" => ReasoningFits(written, FALSE)
    /\ stage \in {"sort", "forget"} => ReasoningFits(conversation, FALSE)
    /\ stage = "forget" => ReasoningFits(written, TRUE)
    /\ Rendering =>
          /\ ReasoningFits(conversation, IsForgetful)
          /\ \A a \in 1 .. Len(sent) :
                (\E p \in 1 .. Len(prompt) : prompt[p] = [kind |-> "reasoning", at |-> a])
                <=> a \in ReasoningShown(next - 1)

\* Chunks that are not the reasoning.
Quiet == [kind : Tokens \ {"reasoning"}, at : Nat]

LEMMA EndIsQuiet ==
    ASSUME NEW ms \in Seq(Turn), NEW i \in 1 .. Len(ms)
    PROVE  Calls(ms, i) \in Seq(Quiet) /\ End(ms, i) \in Seq(Quiet)
<1>1. /\ C("results", ms[i]) \in Quiet /\ C("calls", ms[i]) \in Quiet
      /\ C("Assistant", ms[i]) \in Quiet /\ C("think", ms[i]) \in Quiet
      /\ C("endthink", ms[i]) \in Quiet
      /\ C("endresults", ms[i]) \in Quiet /\ C("task", ms[i]) \in Quiet
  <2>1. ms[i].at \in Nat
    BY TurnFields
  <2>. QED
    BY <2>1 DEF C, Quiet, Tokens
<1>2. \A x, y, z \in Quiet : <<>> \in Seq(Quiet) /\ <<x>> \in Seq(Quiet) /\ <<x, y>> \in Seq(Quiet)
                             /\ <<x, y, z>> \in Seq(Quiet)
  OBVIOUS
<1>3. Calls(ms, i) \in Seq(Quiet)
  BY <1>1, <1>2 DEF Calls, CallChunks
<1>4. /\ \A test : Thinks(ms, i, test) \in Quiet
      /\ C(Mode, ms[i]) \in Quiet
      /\ C(IF thinking /\ (~Drops(ms) \/ i >= LastUser(ms)) THEN "think" ELSE "endthink", ms[i])
            \in Quiet
  BY <1>1 DEF Thinks, Mode
<1>5. Transition(ms, i) \in Seq(Quiet)
  BY <1>1, <1>2, <1>4 DEF Transition
<1>6. End(ms, i) \in Seq(Quiet)
  BY <1>1, <1>2, <1>4, <1>5 DEF End
<1>. QED
  BY <1>3, <1>6

\* The reasoning is written before the answer, if at all.
LEMMA ReasoningRendered ==
    ASSUME encoder \in Encoders, NEW ms \in Seq(Turn), NEW i \in 1 .. Len(ms),
           RefusalOf(ms, i) = "none", ms[i].role = "tool" => encoder = "v32", NEW a
    PROVE  (\E p \in 1 .. Len(Rendered(ms, i)) : Rendered(ms, i)[p] = [kind |-> "reasoning", at |-> a])
           <=> ShowsReasoning(ms, i) /\ ms[i].reasoning /\ ms[i].at = a
<1>. DEFINE f == Front(ms, i)
            m == Middle(ms, i)
            c == Calls(ms, i)
            e == End(ms, i)
            w == Rendered(ms, i)
            x == [kind |-> "reasoning", at |-> a]
<1>1. /\ f \in Seq(Opens) /\ c \in Seq(Quiet) /\ e \in Seq(Quiet)
      /\ Opens \subseteq Chunk /\ Quiet \subseteq Chunk
  BY PartsAreTokens, EndIsQuiet DEF Opens, Quiet, Chunk
<1>2. f \in Seq(Chunk) /\ c \in Seq(Chunk) /\ e \in Seq(Chunk) /\ Len(f) \in Nat
  BY <1>1
<1>3. ms[i].role # "other" /\ w = f \o m \o c \o e
  BY RenderedParts
<1>4. m \in Seq(Chunk) /\ \A p \in 1 .. Len(m) : m[p].kind \in Contents
  BY <1>3, MiddleType
<1>5. ConsistsOf(w, f, m, c, e)
  <2>. HIDE DEF f, m, c, e, w
  <2>1. ConsistsOf(f \o m \o c \o e, f, m, c, e)
    BY <1>2, <1>4, FourParts
  <2>. QED
    BY <1>3, <2>1
<1>6. f = IF ShowsReasoning(ms, i)
          THEN IF ms[i].reasoning THEN <<C("reasoning", ms[i]), C("endthink", ms[i])>>
               ELSE <<C("endthink", ms[i])>>
          ELSE IF encoder = "v32" /\ ms[i].role = "tool" /\ i - Caller(ms, i) = 1
          THEN <<C("results", ms[i])>> ELSE <<>>
  BY ReasoningIs DEF Front
<1>7. ASSUME ShowsReasoning(ms, i), ms[i].reasoning, ms[i].at = a
      PROVE  \E p \in 1 .. Len(w) : w[p] = x
  <2>1. Len(f) = 2 /\ f[1] = x
    BY <1>6, <1>7 DEF C
  <2>. HIDE DEF f, m, c, e, w, x
  <2>2. Len(m) \in Nat /\ Len(c) \in Nat /\ Len(e) \in Nat
    BY <1>2, <1>4
  <2>3. 1 \in 1 .. Len(w) /\ w[1] = f[1]
    BY <1>5, <2>1, <2>2 DEF ConsistsOf
  <2>. QED
    BY <2>1, <2>3
<1>8. ASSUME NEW p \in 1 .. Len(w), w[p] = x
      PROVE  ShowsReasoning(ms, i) /\ ms[i].reasoning /\ ms[i].at = a
  <2>1. x.kind = "reasoning" /\ x.at = a
    OBVIOUS
  <2>. HIDE DEF f, m, c, e, w, x
  <2>2. \A y \in Quiet : y.kind # "reasoning"
    BY DEF Quiet
  <2>3. /\ \A q \in 1 .. Len(c) : c[q] \in Quiet
        /\ \A q \in 1 .. Len(e) : e[q] \in Quiet
    BY <1>1
  <2>4. ~(p - Len(f) \in 1 .. Len(m))
    <3>. SUFFICES ASSUME p - Len(f) \in 1 .. Len(m) PROVE FALSE
      OBVIOUS
    <3>1. w \in Seq(Chunk) /\ Len(w) \in Nat
      BY <1>5 DEF ConsistsOf
    <3>2. p = Len(f) + (p - Len(f))
      BY <1>2, <3>1
    <3>3. w[Len(f) + (p - Len(f))] = m[p - Len(f)]
      BY <1>5 DEF ConsistsOf
    <3>4. w[p].kind \in Contents
      BY <1>4, <3>2, <3>3
    <3>. QED
      BY <1>8, <2>1, <3>4 DEF Contents
  <2>5. p \in 1 .. Len(f) /\ f[p] = x
    <3>1. \/ p \in 1 .. Len(f) /\ w[p] = f[p]
          \/ \E q \in 1 .. Len(c) : w[p] = c[q]
          \/ \E q \in 1 .. Len(e) : w[p] = e[q]
      BY <1>5, <2>4 DEF ConsistsOf
    <3>. QED
      BY <1>8, <2>1, <2>2, <2>3, <3>1
  <2>6. f[p].kind = "reasoning" /\ f[p].at = a
    BY <2>1, <2>5
  <2>7. /\ C("reasoning", ms[i]).at = ms[i].at
        /\ C("endthink", ms[i]).kind # "reasoning" /\ C("results", ms[i]).kind # "reasoning"
    BY DEF C
  <2>8. CASE ShowsReasoning(ms, i) /\ ms[i].reasoning
    <3>1. f = <<C("reasoning", ms[i]), C("endthink", ms[i])>>
      BY <1>6, <2>8
    <3>2. f[p] = C("reasoning", ms[i]) \/ f[p] = C("endthink", ms[i])
      BY <2>5, <3>1
    <3>. QED
      BY <2>6, <2>7, <2>8, <3>2
  <2>9. CASE ~(ShowsReasoning(ms, i) /\ ms[i].reasoning)
    <3>1. f = <<>> \/ f = <<C("endthink", ms[i])>> \/ f = <<C("results", ms[i])>>
      BY <1>6, <2>9
    <3>2. f[p] = C("endthink", ms[i]) \/ f[p] = C("results", ms[i])
      BY <2>5, <3>1
    <3>. QED
      BY <2>6, <2>7, <3>2
  <2>. QED
    BY <2>8, <2>9
<1>. QED
  BY <1>7, <1>8


\* One turn more that has its reasoning as it should.
LEMMA FitsAppend ==
    ASSUME NEW ms \in Seq(Turn), NEW t \in Turn, NEW g, ReasoningFits(ms, g),
           t.role = "assistant" =>
               (t.reasoning <=> sent[t.at].reasoning /\ (g => InLastTurn(t.at)))
    PROVE  ReasoningFits(Append(ms, t), g)
<1>1. /\ Len(ms) \in Nat /\ Len(Append(ms, t)) = Len(ms) + 1 /\ Append(ms, t)[Len(ms) + 1] = t
      /\ \A i \in 1 .. Len(ms) : Append(ms, t)[i] = ms[i]
      /\ \A i \in 1 .. Len(ms) + 1 : i \in 1 .. Len(ms) \/ i = Len(ms) + 1
  OBVIOUS
<1>. QED
  BY <1>1 DEF ReasoningFits

LEMMA MergeReasoning ==
    ASSUME IInv, ReasoningInv, Merge
    PROVE  ReasoningInv'
<1>. DEFINE m == conversation[next]
            ms == written
            z == Len(ms)
<1>1. /\ Types /\ MergeInv /\ stage = "merge"
      /\ UNCHANGED <<inputs, stage>> /\ written' = Merged(ms, m) /\ next \in 1 .. Len(conversation)
  BY TypesHold DEF IInv, Merge, Types
<1>2. /\ ms \in Seq(Turn) /\ z \in Nat /\ m \in Turn /\ ReasoningFits(ms, FALSE)
  <2>1. conversation \in Seq(Turn) /\ ms \in Seq(Turn)
    BY <1>1 DEF Types
  <2>2. ReasoningFits(written, FALSE)
    BY <1>1 DEF ReasoningInv
  <2>3. z \in Nat /\ m \in Turn
    BY <1>1, <2>1
  <2>. QED
    BY <2>1, <2>2, <2>3, Zenon
<1>3. m.role = "assistant" => (m.reasoning <=> sent[m.at].reasoning)
  <2>. DEFINE a == next - 1 + First(hasTools)
  <2>1. /\ m = Original(sent, a) /\ a \in 0 .. Len(sent) /\ sent \in Seq(Message)
    BY <1>1, ParsedFacts DEF Types, MergeInv, First
  <2>. HIDE DEF a, m
  <2>2. m.at = a /\ (a = 0 => m.role = "system")
    BY <2>1, OriginalFacts
  <2>3. a > 0 /\ m.role = "assistant" => (m.reasoning <=> sent[a].reasoning)
    BY <2>1, <2>2 DEF Original, ParsedMessage
  <2>. QED
    BY <2>1, <2>2, <2>3
<1>. HIDE DEF m, z
<1>4. ReasoningFits(Merged(ms, m), FALSE)
  <2>1. ASSUME NEW b, EndsWithUser(ms) PROVE ReasoningFits(AppendBlock(ms, b), FALSE)
    <3>. DEFINE t == [ms[z] EXCEPT !.blocks = Append(ms[z].blocks, b)]
                ms2 == AppendBlock(ms, b)
    <3>1. z \in 1 .. z /\ ms[z] \in Turn /\ ms[z].role = "user"
      BY <1>2, <2>1 DEF EndsWithUser, z
    <3>2. t.role = "user"
      BY <3>1 DEF Turn
    <3>3. Len(ms2) = z /\ ms2[z] = t /\ \A i \in 1 .. z : i # z => ms2[i] = ms[i]
      <4>1. ms2 = [ms EXCEPT ![z] = t]
        BY DEF AppendBlock, z
      <4>. HIDE DEF t, ms2
      <4>. QED
        BY <1>2, <3>1, <4>1 DEF z
    <3>. HIDE DEF t, ms2
    <3>4. \A i \in 1 .. z : i # z => ms2[i] = ms[i]
      BY <3>3
    <3>. QED
      BY <1>2, <3>2, <3>3, <3>4 DEF ReasoningFits, z, ms2
  <2>2. CASE m.role = "tool" /\ EndsWithUser(ms)
    <3>1. Merged(ms, m) = AppendBlock(ms, ResultBlock(m))
      BY <2>2 DEF Merged
    <3>. QED
      BY <2>1, <2>2, <3>1
  <2>3. CASE m.role = "tool" /\ ~EndsWithUser(ms)
    <3>. DEFINE t == [m EXCEPT !.role = "user", !.task = "none", !.call = NoId,
                               !.blocks = <<ResultBlock(m)>>]
    <3>1. Merged(ms, m) = Append(ms, t)
      BY <2>3 DEF Merged
    <3>2. t \in Turn /\ t.role = "user"
      <4>1. ResultBlock(m) \in Block
        BY <1>2 DEF ResultBlock, Block, Turn
      <4>2. <<ResultBlock(m)>> \in Seq(Block)
        BY <4>1
      <4>. QED
        BY <1>2, <4>2 DEF Turn, Roles, Tasks, Ids
    <3>. HIDE DEF t
    <3>. QED
      BY <1>2, <3>1, <3>2, FitsAppend
  <2>4. CASE m.role = "user" /\ EndsWithUser(ms) /\ ms[z].task = "none"
    <3>1. Merged(ms, m) = AppendBlock(ms, TextBlock(m))
      BY <2>4 DEF Merged, z
    <3>. QED
      BY <2>1, <2>4, <3>1
  <2>5. CASE m.role = "user" /\ ~(EndsWithUser(ms) /\ ms[z].task = "none")
    <3>. DEFINE t == [m EXCEPT !.blocks = <<TextBlock(m)>>]
    <3>1. Merged(ms, m) = Append(ms, t)
      BY <2>5 DEF Merged, z
    <3>2. t \in Turn /\ t.role = "user"
      <4>1. TextBlock(m) \in Block
        BY <1>2 DEF TextBlock, Block, Turn, Ids
      <4>2. <<TextBlock(m)>> \in Seq(Block)
        BY <4>1
      <4>. QED
        BY <1>2, <2>5, <4>2 DEF Turn
    <3>. HIDE DEF t
    <3>. QED
      BY <1>2, <3>1, <3>2, FitsAppend
  <2>6. CASE m.role \notin {"tool", "user"}
    <3>1. Merged(ms, m) = Append(ms, m)
      BY <2>6 DEF Merged
    <3>. QED
      BY <1>2, <1>3, <3>1, FitsAppend
  <2>. QED
    BY <2>2, <2>3, <2>4, <2>5, <2>6
<1>5. ReasoningFits(written', FALSE)
  BY <1>1, <1>4
<1>6. ReasoningFits(written, FALSE)' <=> ReasoningFits(written', FALSE)
  BY <1>1 DEF ReasoningFits, InLastTurn, Turns, inputs
<1>. QED
  BY <1>1, <1>5, <1>6 DEF ReasoningInv, Rendering

LEMMA SortReasoning ==
    ASSUME IInv, ReasoningInv, Sort
    PROVE  ReasoningInv'
<1>. DEFINE t == conversation[next]
            u == [t EXCEPT !.blocks = Sorted(t.blocks, order)]
<1>1. /\ Types /\ stage = "sort" /\ next \in 1 .. Len(conversation)
      /\ UNCHANGED <<inputs, stage>>
      /\ conversation' = IF Sortable(t) THEN [conversation EXCEPT ![next] = u] ELSE conversation
  BY TypesHold DEF IInv, Sort, Types
<1>2. /\ conversation \in Seq(Turn) /\ Len(conversation) \in Nat /\ t \in Turn
      /\ ReasoningFits(conversation, FALSE)
  <2>1. conversation \in Seq(Turn)
    BY <1>1 DEF Types
  <2>2. ReasoningFits(conversation, FALSE)
    BY <1>1 DEF ReasoningInv
  <2>3. Len(conversation) \in Nat /\ t \in Turn
    BY <1>1, <2>1
  <2>. QED
    BY <2>1, <2>2, <2>3, Zenon
<1>3. u.role = t.role /\ u.at = t.at /\ u.reasoning = t.reasoning
  BY <1>2 DEF Turn
<1>. HIDE DEF u
<1>4. /\ Len(conversation') = Len(conversation)
      /\ \A i \in 1 .. Len(conversation) :
            \/ conversation'[i] = conversation[i]
            \/ i = next /\ conversation'[i] = u
  BY <1>1, <1>2
<1>5. ReasoningFits(conversation', FALSE)
  BY <1>2, <1>3, <1>4 DEF ReasoningFits
<1>6. ReasoningFits(conversation, FALSE)' <=> ReasoningFits(conversation', FALSE)
  BY <1>1 DEF ReasoningFits, InLastTurn, Turns, inputs
<1>. QED
  BY <1>1, <1>5, <1>6 DEF ReasoningInv, Rendering

\* For an answer, being kept is belonging to the last turn.
LEMMA AnswersAreKept ==
    ASSUME Types, NEW ms \in Seq(Turn), Line(sent, hasTools, encoder, ms),
           \A a \in 1 .. Len(sent) : InLastTurn(a) => Reaches(encoder, ms, Len(ms), a),
           NEW k \in 1 .. Len(ms), ms[k].role = "assistant"
    PROVE  /\ InLastTurn(ms[k].at) <=> k >= LastUser(ms)
           /\ InLastTurn(ms[k].at) <=> k > LastUser(ms)
<1>1. Len(ms) \in Nat
  OBVIOUS
<1>2. /\ LastUser(ms) \in 0 .. Len(ms)
      /\ LastUser(ms) # 0 => BeginsTurn(ms, LastUser(ms))
      /\ k >= LastUser(ms) <=> \A j \in k + 1 .. Len(ms) : ~BeginsTurn(ms, j)
  BY <1>1, LastUserFacts
<1>3. ~IsMerged(encoder, ms[k]) /\ ~BeginsTurn(ms, k)
  BY DEF IsMerged, BeginsTurn
<1>4. InLastTurn(ms[k].at) <=> \A j \in k + 1 .. Len(ms) : ~BeginsTurn(ms, j)
  BY <1>3, LastTurn
<1>5. k # LastUser(ms)
  BY <1>1, <1>2, <1>3
<1>. QED
  BY <1>1, <1>2, <1>4, <1>5

LEMMA ForgetReasoning ==
    ASSUME IInv, ReasoningInv, Forget
    PROVE  ReasoningInv'
<1>. DEFINE t == conversation[next]
            u == [t EXCEPT !.reasoning = FALSE]
<1>1. /\ Types /\ WholeInv /\ stage = "forget" /\ next \in 1 .. Len(conversation)
      /\ UNCHANGED <<inputs, stage, conversation>>
      /\ written' = written \o Remaining(conversation, next)
  BY TypesHold DEF IInv, Forget, Types
<1>2. /\ conversation \in Seq(Turn) /\ Len(conversation) \in Nat /\ t \in Turn
      /\ written \in Seq(Turn)
      /\ ReasoningFits(conversation, FALSE) /\ ReasoningFits(written, TRUE)
  <2>1. conversation \in Seq(Turn) /\ written \in Seq(Turn)
    BY <1>1 DEF Types
  <2>2. ReasoningFits(conversation, FALSE) /\ ReasoningFits(written, TRUE)
    BY <1>1 DEF ReasoningInv
  <2>3. Len(conversation) \in Nat /\ t \in Turn
    BY <1>1, <2>1
  <2>. QED
    BY <2>1, <2>2, <2>3, Zenon
<1>3. t.role = "assistant" => /\ InLastTurn(t.at) <=> Kept(conversation, next)
                              /\ t.reasoning <=> sent[t.at].reasoning
  <2>. SUFFICES ASSUME t.role = "assistant"
                PROVE  /\ InLastTurn(t.at) <=> Kept(conversation, next)
                       /\ t.reasoning <=> sent[t.at].reasoning
    OBVIOUS
  <2>1. \A a \in 1 .. Len(sent) : InLastTurn(a) => Reaches(encoder, conversation, Len(conversation), a)
    BY <1>1 DEF WholeInv, Types, First
  <2>2. InLastTurn(t.at) <=> next >= LastUser(conversation)
    BY <1>1, <1>2, <2>1, AnswersAreKept DEF WholeInv
  <2>3. t.role \notin KeptRoles
    BY DEF KeptRoles
  <2>. QED
    BY <1>1, <1>2, <2>2, <2>3 DEF Kept, ReasoningFits
<1>4. u \in Turn /\ u.role = t.role /\ u.at = t.at /\ u.reasoning = FALSE
  BY <1>2 DEF Turn
<1>. HIDE DEF t, u
<1>5. \A x \in Turn : written \o <<x>> = Append(written, x)
  BY <1>2
<1>6. ReasoningFits(written', TRUE)
  <2>1. CASE Kept(conversation, next)
    <3>1. written' = Append(written, t)
      BY <1>1, <1>2, <1>5, <2>1 DEF Remaining, t
    <3>2. t.role = "assistant" =>
             (t.reasoning <=> sent[t.at].reasoning /\ (TRUE => InLastTurn(t.at)))
      BY <1>3, <2>1
    <3>. QED
      BY <1>2, <3>1, <3>2, FitsAppend
  <2>2. CASE ~Kept(conversation, next) /\ t.role = "assistant"
    <3>1. written' = Append(written, u)
      BY <1>1, <1>4, <1>5, <2>2 DEF Remaining, t, u
    <3>2. u.reasoning <=> sent[u.at].reasoning /\ (TRUE => InLastTurn(u.at))
      BY <1>3, <1>4, <2>2
    <3>. QED
      BY <1>2, <1>4, <3>1, <3>2, FitsAppend
  <2>3. CASE ~Kept(conversation, next) /\ t.role # "assistant"
    <3>1. Remaining(conversation, next) = <<>>
      BY <2>3 DEF Remaining, t
    <3>2. written' = written
      BY <1>1, <1>2, <3>1
    <3>. QED
      BY <1>2, <3>2
  <2>. QED
    BY <2>1, <2>2, <2>3
<1>7. /\ ReasoningFits(written, TRUE)' <=> ReasoningFits(written', TRUE)
      /\ ReasoningFits(conversation, FALSE)' <=> ReasoningFits(conversation, FALSE)
  BY <1>1 DEF ReasoningFits, InLastTurn, Turns, inputs
<1>. QED
  BY <1>1, <1>2, <1>6, <1>7 DEF ReasoningInv, Rendering


LEMMA RenderReasoning ==
    ASSUME IInv, ReasoningInv, Render
    PROVE  ReasoningInv'
<1>. DEFINE n == next
            t == conversation[n]
            v == Rendered(conversation, n)
            u == prompt \o v
            X(a) == [kind |-> "reasoning", at |-> a]
<1>1. Types /\ LeftInv /\ stage = "render" /\ error # "malformed"
  BY TypesHold DEF IInv, Rendering, Render
<1>2. /\ UNCHANGED <<inputs, stage, conversation, written, order, error>>
      /\ next' = n + 1 /\ n \in Nat \ {0} /\ prompt' = u
      /\ RefusalOf(conversation, n) = "none"
  BY <1>1 DEF Render, Types
<1>3. conversation \in Seq(Turn) /\ Len(conversation) \in Nat /\ encoder \in Encoders
  BY <1>1 DEF Types
<1>4. n \in 1 .. Len(conversation)
  BY <1>2, <1>3 DEF RefusalOf
<1>5. t.role = "tool" => encoder = "v32"
  BY <1>1, <1>4 DEF LeftInv, Line, TurnFits, IsMerged
<1>6. /\ ReasoningFits(conversation, IsForgetful)
      /\ \A a \in 1 .. Len(sent) :
            (\E p \in 1 .. Len(prompt) : prompt[p] = X(a)) <=> a \in ReasoningShown(n - 1)
  BY <1>1 DEF ReasoningInv, Rendering
<1>7. /\ Len(prompt) \in Nat /\ Len(v) \in Nat /\ Len(u) = Len(prompt) + Len(v)
      /\ \A p \in 1 .. Len(prompt) : u[p] = prompt[p]
      /\ \A p \in 1 .. Len(v) : u[Len(prompt) + p] = v[p]
  <2>1. prompt \in Seq(Chunk) /\ v \in Seq(Chunk)
    BY <1>1, <1>2, <1>3, <1>4, <1>5, RenderedPlaces DEF Types
  <2>. HIDE DEF v
  <2>. QED
    BY <2>1, TwoParts
<1>8. ASSUME NEW a \in 1 .. Len(sent)
      PROVE  (\E p \in 1 .. Len(u) : u[p] = X(a)) <=> a \in ReasoningShown(n)
  <2>1. (\E p \in 1 .. Len(v) : v[p] = X(a))
        <=> ShowsReasoning(conversation, n) /\ t.reasoning /\ t.at = a
    BY <1>2, <1>3, <1>4, <1>5, ReasoningRendered
  <2>2. a \in ReasoningShown(n)
        <=> a \in ReasoningShown(n - 1) \/ (ShowsReasoning(conversation, n) /\ t.reasoning /\ t.at = a)
    <3>1. \A i : i \in 1 .. n <=> i \in 1 .. n - 1 \/ i = n
      BY <1>2
    <3>. QED
      BY <3>1 DEF ReasoningShown
  <2>. HIDE DEF u, v, X, n, t
  <2>3. (\E p \in 1 .. Len(u) : u[p] = X(a))
        <=> (\E p \in 1 .. Len(prompt) : prompt[p] = X(a)) \/ (\E p \in 1 .. Len(v) : v[p] = X(a))
    <3>1. ASSUME NEW p \in 1 .. Len(u), u[p] = X(a)
          PROVE  (\E q \in 1 .. Len(prompt) : prompt[q] = X(a)) \/ (\E q \in 1 .. Len(v) : v[q] = X(a))
      <4>1. p \in 1 .. Len(prompt) \/ (p - Len(prompt) \in 1 .. Len(v) /\ p = Len(prompt) + (p - Len(prompt)))
        BY <1>7
      <4>2. CASE p \in 1 .. Len(prompt)
        BY <1>7, <3>1, <4>2
      <4>3. CASE p - Len(prompt) \in 1 .. Len(v) /\ p = Len(prompt) + (p - Len(prompt))
        <5>1. u[p] = v[p - Len(prompt)]
          BY <1>7, <4>3
        <5>. QED
          BY <3>1, <4>3, <5>1
      <4>. QED
        BY <4>1, <4>2, <4>3
    <3>2. ASSUME NEW p \in 1 .. Len(prompt), prompt[p] = X(a) PROVE \E q \in 1 .. Len(u) : u[q] = X(a)
      <4>1. p \in 1 .. Len(u)
        BY <1>7
      <4>. QED
        BY <1>7, <3>2, <4>1
    <3>3. ASSUME NEW p \in 1 .. Len(v), v[p] = X(a) PROVE \E q \in 1 .. Len(u) : u[q] = X(a)
      <4>1. Len(prompt) + p \in 1 .. Len(u)
        BY <1>7
      <4>. QED
        BY <1>7, <3>3, <4>1
    <3>. QED
      BY <3>1, <3>2, <3>3
  <2>. QED
    BY <1>6, <2>1, <2>2, <2>3 DEF n, X
<1>9. /\ ReasoningFits(conversation, IsForgetful)' <=> ReasoningFits(conversation, IsForgetful)
      /\ ReasoningShown(next - 1)' = ReasoningShown(n)
  <2>1. next' - 1 = n
    BY <1>2
  <2>2. \A i : ShowsReasoning(conversation, i)' <=> ShowsReasoning(conversation, i)
    BY <1>2 DEF ShowsReasoning, AfterTask, Drops, LastUser, BeginsTurn, inputs
  <2>3. ReasoningShown(next - 1)' = ReasoningShown(n)
    BY <1>2, <2>1, <2>2 DEF ReasoningShown, inputs
  <2>4. ReasoningFits(conversation, IsForgetful)' <=> ReasoningFits(conversation, IsForgetful)
    BY <1>2 DEF ReasoningFits, IsForgetful, InLastTurn, Turns, inputs
  <2>. QED
    BY <2>3, <2>4
<1>. HIDE DEF u, v, n
<1>10. Len(sent') = Len(sent) /\ stage' = "render"
  BY <1>1, <1>2 DEF inputs
<1>. QED
  BY <1>2, <1>6, <1>8, <1>9, <1>10 DEF ReasoningInv

LEMMA ReasoningIsInvariant == Spec => []ReasoningInv
<1>1. Init => ReasoningInv
  BY DEF Init, ReasoningInv, Rendering
<1>2. IInv /\ ReasoningInv /\ [Next]_vars => ReasoningInv'
  <2>. SUFFICES ASSUME IInv, ReasoningInv, [Next]_vars PROVE ReasoningInv'
    OBVIOUS
  <2>1. ASSUME NEW g PROVE ReasoningFits(<<>>, g)
    BY DEF ReasoningFits
  <2>2. CASE Parse
    <3>1. /\ UNCHANGED inputs /\ written' = <<>> /\ stage' \in {"merge", "forget"}
          /\ conversation' = Parsed
      BY <2>2 DEF Parse, IInv
    <3>2. ReasoningFits(Parsed, FALSE)
      <4>1. /\ Parsed \in Seq(Turn) /\ sent \in Seq(Message)
            /\ \A k \in 1 .. Len(Parsed) :
                  /\ k - 1 + First(hasTools) \in First(hasTools) .. Len(sent)
                  /\ Parsed[k] = Original(sent, k - 1 + First(hasTools))
        BY TypesHold, ParsedFacts DEF IInv, Types
      <4>2. \A a \in First(hasTools) .. Len(sent) :
               Original(sent, a).role = "assistant" =>
                   /\ Original(sent, a).at = a
                   /\ Original(sent, a).reasoning <=> sent[a].reasoning
        <5>. SUFFICES ASSUME NEW a \in First(hasTools) .. Len(sent),
                             Original(sent, a).role = "assistant"
                      PROVE  /\ Original(sent, a).at = a
                             /\ Original(sent, a).reasoning <=> sent[a].reasoning
          OBVIOUS
        <5>1. a \in 0 .. Len(sent)
          BY DEF First
        <5>2. Original(sent, a).at = a /\ a > 0 /\ sent[a].role = "assistant"
          BY <4>1, <5>1, OriginalFacts
        <5>3. Original(sent, a) = ParsedMessage(sent[a], a)
          BY <5>2 DEF Original
        <5>4. sent[a] \in Message
          BY <4>1, <5>1, <5>2
        <5>5. Original(sent, a).reasoning = (sent[a].role = "assistant" /\ sent[a].reasoning)
          BY <5>3 DEF ParsedMessage
        <5>. QED
          BY <5>2, <5>4, <5>5 DEF Message
      <4>. QED
        BY <4>1, <4>2 DEF ReasoningFits
    <3>3. /\ ReasoningFits(conversation, FALSE)' <=> ReasoningFits(Parsed, FALSE)
          /\ ReasoningFits(written, FALSE)' <=> ReasoningFits(<<>>, FALSE)
          /\ ReasoningFits(written, TRUE)' <=> ReasoningFits(<<>>, TRUE)
      BY <3>1 DEF ReasoningFits, InLastTurn, Turns, inputs
    <3>4. ReasoningFits(<<>>, FALSE) /\ ReasoningFits(<<>>, TRUE)
      BY <2>1
    <3>. QED
      BY <3>1, <3>2, <3>3, <3>4 DEF ReasoningInv, Rendering
  <2>3. CASE RefuseToParse
    BY <2>3 DEF RefuseToParse, ReasoningInv, Rendering
  <2>4. CASE EndMerge
    <3>1. UNCHANGED inputs /\ conversation' = written /\ stage = "merge" /\ stage' = "sort"
      BY <2>4 DEF EndMerge
    <3>2. ReasoningFits(conversation, FALSE)' <=> ReasoningFits(written, FALSE)
      BY <3>1 DEF ReasoningFits, InLastTurn, Turns, inputs
    <3>. QED
      BY <3>1, <3>2 DEF ReasoningInv, Rendering
  <2>5. CASE EndSort
    <3>1. /\ UNCHANGED <<inputs, conversation>> /\ written' = <<>> /\ stage = "sort"
          /\ stage' = "forget"
      BY <2>5 DEF EndSort, IInv
    <3>2. /\ ReasoningFits(conversation, FALSE)' <=> ReasoningFits(conversation, FALSE)
          /\ ReasoningFits(written, TRUE)' <=> ReasoningFits(<<>>, TRUE)
      BY <3>1 DEF ReasoningFits, InLastTurn, Turns, inputs
    <3>3. ReasoningFits(<<>>, TRUE)
      BY <2>1
    <3>. QED
      BY <3>1, <3>2, <3>3 DEF ReasoningInv, Rendering
  <2>6. CASE EndForget
    <3>1. /\ Types /\ WholeInv /\ ForgetInv /\ UNCHANGED inputs
          /\ conversation' = IF Forgets THEN written ELSE conversation
          /\ stage = "forget" /\ stage' = "render" /\ prompt' = <<>> /\ next' = 1
      BY <2>6, TypesHold DEF EndForget, IInv
    <3>2. Forgets <=> IsForgetful
      BY <3>1, ForgetsIsForgetful DEF ForgetInv
    <3>3. ReasoningFits(written, TRUE) /\ ReasoningFits(conversation, FALSE)
      BY <3>1 DEF ReasoningInv
    <3>4. ReasoningFits(conversation, IsForgetful)'
      <4>1. CASE Forgets
        <5>1. conversation' = written /\ IsForgetful'
          BY <3>1, <3>2, <4>1 DEF IsForgetful, inputs
        <5>. QED
          BY <3>1, <3>3, <5>1 DEF ReasoningFits, InLastTurn, Turns, inputs
      <4>2. CASE ~Forgets
        <5>1. conversation' = conversation /\ ~IsForgetful'
          BY <3>1, <3>2, <4>2 DEF IsForgetful, inputs
        <5>. QED
          BY <3>1, <3>3, <5>1 DEF ReasoningFits, InLastTurn, Turns, inputs
      <4>. QED
        BY <4>1, <4>2
    <3>5. /\ \A p \in 1 .. Len(prompt') : FALSE
          /\ ReasoningShown(next - 1)' = {}
      BY <3>1 DEF ReasoningShown
    <3>. QED
      BY <3>1, <3>4, <3>5 DEF ReasoningInv
  <2>7. CASE Raise \/ EndRender \/ UNCHANGED vars
    <3>1. /\ UNCHANGED <<inputs, next, conversation, prompt>>
          /\ Rendering' => Rendering
          /\ stage' = "done" \/ UNCHANGED vars
      <4>1. CASE Raise
        BY <4>1 DEF Raise, IInv, Rendering
      <4>2. CASE EndRender
        BY <4>2 DEF EndRender, IInv, Rendering
      <4>3. CASE UNCHANGED vars
        BY <4>3 DEF vars, Rendering
      <4>. QED
        BY <2>7, <4>1, <4>2, <4>3
    <3>2. /\ ReasoningFits(conversation, IsForgetful)' <=> ReasoningFits(conversation, IsForgetful)
          /\ ReasoningFits(conversation, FALSE)' <=> ReasoningFits(conversation, FALSE)
          /\ ReasoningShown(next - 1)' = ReasoningShown(next - 1)
      <4>1. \A i : ShowsReasoning(conversation, i)' <=> ShowsReasoning(conversation, i)
        BY <3>1 DEF ShowsReasoning, AfterTask, Drops, LastUser, BeginsTurn, inputs
      <4>2. ReasoningShown(next - 1)' = ReasoningShown(next - 1)
        BY <3>1, <4>1 DEF ReasoningShown, inputs
      <4>3. /\ ReasoningFits(conversation, IsForgetful)' <=> ReasoningFits(conversation, IsForgetful)
            /\ ReasoningFits(conversation, FALSE)' <=> ReasoningFits(conversation, FALSE)
        BY <3>1 DEF ReasoningFits, IsForgetful, InLastTurn, Turns, inputs
      <4>. QED
        BY <4>2, <4>3
    <3>3. CASE stage' = "done"
      BY <3>1, <3>2, <3>3 DEF ReasoningInv, inputs
    <3>4. CASE UNCHANGED vars
      <4>1. /\ ReasoningFits(written, TRUE)' <=> ReasoningFits(written, TRUE)
            /\ ReasoningFits(written, FALSE)' <=> ReasoningFits(written, FALSE)
        BY <3>4 DEF ReasoningFits, InLastTurn, Turns, vars, inputs
      <4>2. stage' = stage /\ prompt' = prompt /\ Len(sent') = Len(sent)
        BY <3>4 DEF vars, inputs
      <4>. QED
        BY <3>1, <3>2, <4>1, <4>2 DEF ReasoningInv
    <3>. QED
      BY <3>1, <3>3, <3>4
  <2>. QED
    BY <2>2, <2>3, <2>4, <2>5, <2>6, <2>7, MergeReasoning, SortReasoning, ForgetReasoning,
       RenderReasoning DEF Next
<1>. QED
  BY <1>1, <1>2, IsInvariant, PTL DEF Spec


\* Tools are defined in the turns that are left as in the request.
LEMMA DropsIsForgetful ==
    ASSUME Types, LeftInv, thinking, encoder # "v32"
    PROVE  Drops(conversation) <=> IsForgetful
<1>1. sent \in Seq(Message) /\ Len(sent) \in Nat /\ First(hasTools) \in 0 .. 1
  BY DEF Types, First
<1>. DEFINE Defines(a) == a = 0 \/ (sent[a].role = "developer" /\ sent[a].tools)
<1>2. ASSUME NEW i \in 1 .. Len(conversation), conversation[i].tools
      PROVE  \E a \in First(hasTools) .. Len(sent) : Defines(a)
  <2>. DEFINE t == conversation[i]
  <2>1. t \in Turn /\ TurnFits(sent, hasTools, encoder, t)
    BY DEF Types, LeftInv, Line
  <2>. HIDE DEF t
  <2>2. t.tools
    BY <1>2 DEF t
  <2>. QED
    BY <2>1, <2>2, TurnFacts
<1>3. ASSUME NEW a \in First(hasTools) .. Len(sent), Defines(a), ~Gone(a)
      PROVE  \E i \in 1 .. Len(conversation) : conversation[i].tools
  <2>1. PICK i \in 1 .. Len(conversation) : Has(encoder, conversation[i], a)
    BY <1>3 DEF LeftInv, Reaches
  <2>. DEFINE t == conversation[i]
  <2>2. /\ t \in Turn /\ TurnFits(sent, hasTools, encoder, t) /\ Has(encoder, t, a)
        /\ a \in 0 .. Len(sent)
    BY <1>1, <2>1 DEF Types, LeftInv, Line
  <2>3. t.tools
    <3>. HIDE DEF t
    <3>. QED
      BY <1>3, <2>2, TurnFacts
  <2>. QED
    BY <2>3
<1>4. (\E a \in First(hasTools) .. Len(sent) : Defines(a)) <=> ~IsForgetful
  <2>1. \A a \in 1 .. Len(sent) : a \in First(hasTools) .. Len(sent)
    BY <1>1
  <2>2. \A a \in First(hasTools) .. Len(sent) : a \in 1 .. Len(sent) \/ (a = 0 /\ hasTools)
    BY <1>1 DEF First, Types
  <2>3. hasTools => 0 \in First(hasTools) .. Len(sent)
    BY <1>1 DEF First
  <2>. QED
    BY <2>1, <2>2, <2>3 DEF IsForgetful
<1>5. ~IsForgetful => \A a : ~Gone(a)
  BY DEF Gone, Forgotten
<1>. HIDE DEF Defines
<1>. QED
  BY <1>2, <1>3, <1>4, <1>5 DEF Drops

\* In the turns that are left an answer is that of the request, and asked for by no task.
LEMMA AnswersLeft ==
    ASSUME Types, LeftInv,
           \A a \in 1 .. Len(sent) : sent[a].task = "none" /\ ~sent[a].prefix
    PROVE  /\ \A i \in 1 .. Len(conversation) : conversation[i].task = "none"
           /\ \A i \in 1 .. Len(conversation) : ~AfterTask(conversation, i)
           /\ \A i \in 1 .. Len(conversation) :
                 conversation[i].role = "assistant" =>
                    /\ conversation[i].at \in 1 .. Len(sent)
                    /\ sent[conversation[i].at].role = "assistant"
                    /\ ~conversation[i].prefix
           /\ \A a \in 1 .. Len(sent) :
                 sent[a].role = "assistant" =>
                    \E i \in 1 .. Len(conversation) :
                       conversation[i].role = "assistant" /\ conversation[i].at = a
<1>1. /\ sent \in Seq(Message) /\ Len(sent) \in Nat /\ First(hasTools) \in 0 .. 1
      /\ conversation \in Seq(Turn) /\ Len(conversation) \in Nat
  BY DEF Types, First
<1>2. ASSUME NEW i \in 1 .. Len(conversation)
      PROVE  conversation[i] \in Turn /\ TurnFits(sent, hasTools, encoder, conversation[i])
  BY <1>1 DEF LeftInv, Line
<1>3. \A a \in 0 .. Len(sent) : Original(sent, a).task = "none" /\ ~Original(sent, a).prefix
  BY <1>1 DEF Original, ParsedMessage, ToolsMessage
<1>4. ASSUME NEW t \in Turn, TurnFits(sent, hasTools, encoder, t)
      PROVE  t.task = "none" /\ (~IsMerged(encoder, t) => ~t.prefix)
  <2>1. t.at \in 0 .. Len(sent)
    BY <1>1, <1>4 DEF TurnFits
  <2>2. CASE IsMerged(encoder, t)
    BY <1>3, <1>4, <2>1, <2>2 DEF TurnFits
  <2>3. CASE ~IsMerged(encoder, t)
    <3>1. PICK r \in BOOLEAN : t = [Original(sent, t.at) EXCEPT !.reasoning = r]
      BY <1>4, <2>3 DEF TurnFits
    <3>2. Original(sent, t.at) \in Turn
      BY <1>1, <2>1, OriginalFacts
    <3>3. t.task = Original(sent, t.at).task /\ t.prefix = Original(sent, t.at).prefix
      BY <3>1, <3>2 DEF Turn
    <3>. QED
      BY <1>3, <2>1, <2>3, <3>3
  <2>. QED
    BY <2>2, <2>3
<1>5. \A i \in 1 .. Len(conversation) : ~AfterTask(conversation, i)
  <2>. SUFFICES ASSUME NEW i \in 1 .. Len(conversation), i > 1
                PROVE  conversation[i - 1].task = "none"
    BY DEF AfterTask
  <2>1. i - 1 \in 1 .. Len(conversation)
    BY <1>1
  <2>. QED
    BY <1>2, <1>4, <2>1
<1>6. ASSUME NEW i \in 1 .. Len(conversation), conversation[i].role = "assistant"
      PROVE  /\ conversation[i].at \in 1 .. Len(sent)
             /\ sent[conversation[i].at].role = "assistant"
             /\ ~conversation[i].prefix
  <2>. DEFINE t == conversation[i]
  <2>1. t \in Turn /\ TurnFits(sent, hasTools, encoder, t) /\ t.role = "assistant"
    BY <1>2, <1>6
  <2>. HIDE DEF t
  <2>2. ~IsMerged(encoder, t) /\ ~t.prefix
    BY <1>4, <2>1 DEF IsMerged
  <2>3. /\ t.at \in First(hasTools) .. Len(sent)
        /\ t.at = 0 => t.role = "system"
        /\ t.at > 0 => t.role = sent[t.at].role
    BY <2>1, <2>2, TurnFacts
  <2>4. t.at \in 1 .. Len(sent) /\ sent[t.at].role = "assistant"
    BY <1>1, <2>1, <2>3
  <2>. QED
    BY <2>2, <2>4 DEF t
<1>7. ASSUME NEW a \in 1 .. Len(sent), sent[a].role = "assistant"
      PROVE  \E i \in 1 .. Len(conversation) :
                conversation[i].role = "assistant" /\ conversation[i].at = a
  <2>1. ~Gone(a) /\ a \in First(hasTools) .. Len(sent) /\ a \in 0 .. Len(sent)
    BY <1>1, <1>7 DEF Gone, Forgotten
  <2>2. PICK i \in 1 .. Len(conversation) : Has(encoder, conversation[i], a)
    BY <2>1 DEF LeftInv, Reaches
  <2>. DEFINE t == conversation[i]
  <2>3. t \in Turn /\ TurnFits(sent, hasTools, encoder, t) /\ Has(encoder, t, a)
    BY <1>2, <2>2
  <2>4. t.role = "assistant" /\ t.at = a
    <3>. HIDE DEF t
    <3>1. ~IsMerged(encoder, t)
      BY <1>7, <2>1, <2>3, TurnFacts
    <3>. QED
      BY <1>1, <1>7, <2>3, <3>1, TurnFacts
  <2>. QED
    BY <2>4
<1>. QED
  BY <1>2, <1>4, <1>5, <1>6, <1>7

\* An answer of the turns that are left shows its reasoning if it belongs to the last turn,
\* or nothing is forgotten and the encoder is not V3.2's.
LEMMA ShownInLastTurn ==
    ASSUME Types, LeftInv,
           \A a \in 1 .. Len(sent) : sent[a].task = "none" /\ ~sent[a].prefix,
           NEW i \in 1 .. Len(conversation), conversation[i].role = "assistant"
    PROVE  ShowsReasoning(conversation, i)
           <=> /\ thinking
               /\ InLastTurn(conversation[i].at) \/ (encoder # "v32" /\ ~IsForgetful)
<1>1. conversation \in Seq(Turn) /\ Line(sent, hasTools, encoder, conversation)
  BY DEF Types, LeftInv
<1>2. \A a \in 1 .. Len(sent) : InLastTurn(a) => Reaches(encoder, conversation, Len(conversation), a)
  BY DEF LeftInv, Gone, Forgotten, First, Types
<1>3. InLastTurn(conversation[i].at) <=> i > LastUser(conversation)
  BY <1>1, <1>2, AnswersAreKept
<1>4. ~AfterTask(conversation, i) /\ ~conversation[i].prefix
  BY AnswersLeft
<1>5. CASE encoder = "v32"
  BY <1>3, <1>4, <1>5 DEF ShowsReasoning
<1>6. CASE encoder # "v32"
  BY <1>3, <1>4, <1>6, DropsIsForgetful DEF ShowsReasoning
<1>. QED
  BY <1>5, <1>6

\* Reasoning is written for the answers of the last turn, and for all if nothing is forgotten.
THEOREM ReasoningIsOfTheLastTurn == Spec => []ReasoningOfTheLastTurn
<1>1. IInv /\ ReasoningInv => ReasoningOfTheLastTurn
  <2>. SUFFICES ASSUME IInv, ReasoningInv, Encoded,
                       \A a \in 1 .. Len(sent) : sent[a].task = "none" /\ ~sent[a].prefix,
                       NEW a \in 1 .. Len(sent)
                PROVE  (\E p \in 1 .. Len(prompt) : prompt[p] = [kind |-> "reasoning", at |-> a])
                       <=> /\ thinking
                           /\ sent[a].role = "assistant" /\ sent[a].reasoning
                           /\ InLastTurn(a) \/ (encoder # "v32" /\ ~IsForgetful)
    BY DEF ReasoningOfTheLastTurn
  <2>1. Types /\ LeftInv /\ next - 1 = Len(conversation)
    <3>1. Types /\ LeftInv /\ next = Len(conversation) + 1 /\ Len(conversation) \in Nat
      BY EncodedTells DEF Types
    <3>. QED
      BY <3>1
  <2>2. /\ ReasoningFits(conversation, IsForgetful)
        /\ (\E p \in 1 .. Len(prompt) : prompt[p] = [kind |-> "reasoning", at |-> a])
           <=> a \in ReasoningShown(Len(conversation))
    BY <2>1 DEF ReasoningInv, Rendering, Encoded
  <2>. DEFINE Answer(i) == conversation[i].role = "assistant" /\ conversation[i].at = a
              Shown == InLastTurn(a) \/ (encoder # "v32" /\ ~IsForgetful)
  <2>3. ASSUME NEW i \in 1 .. Len(conversation), Answer(i)
        PROVE  /\ ShowsReasoning(conversation, i) <=> thinking /\ Shown
               /\ conversation[i].reasoning
                  <=> sent[a].reasoning /\ (IsForgetful => InLastTurn(a))
    <3>1. ShowsReasoning(conversation, i) <=> thinking /\ Shown
      BY <2>1, <2>3, ShownInLastTurn
    <3>2. conversation[i].reasoning <=> sent[a].reasoning /\ (IsForgetful => InLastTurn(a))
      BY <2>2, <2>3 DEF ReasoningFits
    <3>. QED
      BY <3>1, <3>2
  <2>4. sent[a].role = "assistant" <=> \E i \in 1 .. Len(conversation) : Answer(i)
    BY <2>1, AnswersLeft
  <2>5. a \in ReasoningShown(Len(conversation))
        <=> \E i \in 1 .. Len(conversation) :
               Answer(i) /\ ShowsReasoning(conversation, i) /\ conversation[i].reasoning
    <3>1. \A i : ShowsReasoning(conversation, i) => conversation[i].role = "assistant"
      BY DEF ShowsReasoning
    <3>. QED
      BY <3>1 DEF ReasoningShown
  <2>6. a \in ReasoningShown(Len(conversation))
        <=> thinking /\ sent[a].role = "assistant" /\ sent[a].reasoning /\ Shown
    <3>. HIDE DEF Answer
    <3>. QED
      BY <2>3, <2>4, <2>5
  <2>. QED
    BY <2>2, <2>6
<1>. QED
  BY <1>1, IsInvariant, ReasoningIsInvariant, PTL


--------------------------------------------------------------------------------
(***************************************************************************)
(* The tokens that open and close reasoning                                *)
(***************************************************************************)
\* What is rendered of turn i ends with the token that opens the reasoning of an answer.
Opening(ms, i) ==
    /\ thinking
    /\ IF encoder = "v32"
       THEN \/ ms[i].role \in {"user", "developer"} /\ i = LastUser(ms)
            \/ /\ ms[i].role = "tool" /\ i - Caller(ms, i) = Len(CallsFor(ms, i))
               /\ i >= LastUser(ms)
       ELSE /\ ~Continued(ms, i) /\ AsksForAnswer(ms, i)
            /\ ~Drops(ms) \/ i >= LastUser(ms)

IsOpen(w) == w # <<>> /\ w[Len(w)].kind = "think"

\* What is opened in w is closed, but for the last chunk, and there is no reasoning outside.
IsClosed(w) ==
    \A p \in 1 .. Len(w) :
        /\ w[p].kind = "think" /\ p < Len(w) => w[p + 1].kind \in {"endthink", "reasoning"}
        /\ w[p].kind = "reasoning" => /\ p > 1 /\ w[p - 1].kind = "think"
                                      /\ p < Len(w) /\ w[p + 1].kind = "endthink"

ClosedInv ==
    Rendering /\ WellFormed =>
        /\ IsClosed(prompt)
        /\ IsOpen(prompt) <=> next > 1 /\ Opening(conversation, next - 1)

\* w goes on with v, which begins with reasoning or its end if w ends with its beginning.
LEMMA ClosedAppend ==
    ASSUME NEW w \in Seq(Chunk), NEW v \in Seq(Chunk), IsClosed(w),
           \A p \in 1 .. Len(v) : v[p].kind = "think" => p = Len(v),
           \A p \in 1 .. Len(v) : v[p].kind = "reasoning" =>
               p = 1 /\ Len(v) >= 2 /\ v[2].kind = "endthink" /\ IsOpen(w),
           IsOpen(w) => Len(v) >= 1 /\ v[1].kind \in {"endthink", "reasoning"}
    PROVE  IsClosed(w \o v) /\ (IsOpen(w \o v) <=> IsOpen(v))
<1>. DEFINE u == w \o v
<1>1. /\ u \in Seq(Chunk) /\ Len(u) = Len(w) + Len(v) /\ Len(w) \in Nat /\ Len(v) \in Nat
      /\ \A p \in 1 .. Len(w) : u[p] = w[p]
      /\ \A p \in 1 .. Len(v) : u[Len(w) + p] = v[p]
  BY TwoParts
<1>2. \A x \in Seq(Chunk) : x = <<>> <=> Len(x) = 0
  OBVIOUS
<1>. HIDE DEF u
<1>3. IsOpen(u) <=> IsOpen(v)
  <2>1. CASE Len(v) = 0
    <3>1. v = <<>> /\ ~IsOpen(w) /\ Len(u) = Len(w)
      BY <1>1, <1>2, <2>1
    <3>2. Len(w) > 0 => u[Len(u)] = w[Len(w)]
      BY <1>1, <3>1
    <3>3. Len(w) = 0 => u = <<>>
      BY <1>1, <1>2, <3>1
    <3>4. Len(w) > 0 => w # <<>>
      BY <1>2
    <3>. QED
      BY <1>1, <3>1, <3>2, <3>3, <3>4 DEF IsOpen
  <2>2. CASE Len(v) > 0
    <3>1. v # <<>> /\ u # <<>> /\ Len(v) \in 1 .. Len(v)
      BY <1>1, <1>2, <2>2
    <3>2. u[Len(u)] = v[Len(v)]
      BY <1>1, <3>1
    <3>. QED
      BY <3>1, <3>2 DEF IsOpen
  <2>. QED
    BY <1>1, <2>1, <2>2
<1>4. ASSUME NEW p \in 1 .. Len(u)
      PROVE  /\ u[p].kind = "think" /\ p < Len(u) => u[p + 1].kind \in {"endthink", "reasoning"}
             /\ u[p].kind = "reasoning" => /\ p > 1 /\ u[p - 1].kind = "think"
                                           /\ p < Len(u) /\ u[p + 1].kind = "endthink"
  <2>1. CASE p < Len(w)
    <3>1. /\ p \in 1 .. Len(w) /\ p + 1 \in 1 .. Len(w) /\ u[p] = w[p] /\ u[p + 1] = w[p + 1]
          /\ p > 1 => u[p - 1] = w[p - 1]
      BY <1>1, <2>1
    <3>. QED
      BY <1>1, <2>1, <3>1 DEF IsClosed
  <2>2. CASE p = Len(w)
    <3>1. /\ p \in 1 .. Len(w) /\ u[p] = w[p] /\ w # <<>>
          /\ p < Len(u) => u[p + 1] = v[1]
      BY <1>1, <1>2, <2>2
    <3>2. u[p].kind = "think" <=> IsOpen(w)
      BY <2>2, <3>1 DEF IsOpen
    <3>3. u[p].kind # "reasoning"
      BY <1>1, <2>2, <3>1 DEF IsClosed
    <3>. QED
      BY <3>1, <3>2, <3>3
  <2>3. CASE p > Len(w)
    <3>. DEFINE q == p - Len(w)
    <3>1. q \in 1 .. Len(v) /\ u[p] = v[q] /\ p = Len(w) + q
      BY <1>1, <2>3
    <3>2. u[p].kind = "think" => p = Len(u)
      BY <1>1, <3>1
    <3>3. ASSUME u[p].kind = "reasoning"
          PROVE  /\ p > 1 /\ u[p - 1].kind = "think"
                 /\ p < Len(u) /\ u[p + 1].kind = "endthink"
      <4>1. q = 1 /\ Len(v) >= 2 /\ v[2].kind = "endthink" /\ IsOpen(w)
        BY <3>1, <3>3
      <4>2. Len(w) > 0 /\ w[Len(w)].kind = "think"
        BY <1>1, <1>2, <4>1 DEF IsOpen
      <4>3. p = Len(w) + 1 /\ u[p - 1] = w[Len(w)] /\ p + 1 = Len(w) + 2 /\ 2 \in 1 .. Len(v)
        BY <1>1, <3>1, <4>1, <4>2
      <4>4. u[p + 1] = v[2] /\ p < Len(u) /\ p > 1
        BY <1>1, <4>2, <4>3
      <4>. QED
        BY <4>1, <4>2, <4>3, <4>4
    <3>. QED
      BY <1>1, <3>2, <3>3
  <2>. QED
    BY <1>1, <2>1, <2>2, <2>3
<1>. QED
  BY <1>3, <1>4 DEF IsClosed, u

\* What is rendered of a turn without a task: reasoning at its head, its beginning at the end.
LEMMA EndOpens ==
    ASSUME NEW ms \in Seq(Turn), NEW i \in 1 .. Len(ms), ms[i].task = "none"
    PROVE  /\ Len(End(ms, i)) \in {0, 2}
           /\ Opening(ms, i) => Len(End(ms, i)) = 2 /\ End(ms, i)[2].kind = "think"
           /\ ~Opening(ms, i) => \A q \in 1 .. Len(End(ms, i)) : End(ms, i)[q].kind # "think"
           /\ \A q \in 1 .. Len(End(ms, i)) : q = 1 => End(ms, i)[q].kind # "think"
<1>. DEFINE e == End(ms, i)
            mode == e[2]
            Is(first, test) == /\ Len(e) = 2 /\ e[1].kind = first
                               /\ e[2].kind = IF thinking /\ test THEN "think" ELSE "endthink"
<1>1. \A x, y : Len(<<x, y>>) = 2 /\ <<x, y>>[1] = x /\ <<x, y>>[2] = y
  OBVIOUS
<1>2. \A q \in 1 .. 2 : q = 1 \/ q = 2
  OBVIOUS
<1>3. CASE encoder = "v32"
  <2>1. CASE ms[i].role \in {"user", "developer"}
    <3>1. Is("Assistant", i = LastUser(ms))
      BY <1>1, <1>3, <2>1 DEF End, Thinks, C
    <3>2. Opening(ms, i) <=> thinking /\ i = LastUser(ms)
      BY <1>3, <2>1 DEF Opening
    <3>. HIDE DEF e
    <3>. QED
      BY <1>2, <3>1, <3>2 DEF e
  <2>2. CASE ms[i].role = "tool" /\ i - Caller(ms, i) = Len(CallsFor(ms, i))
    <3>1. Is("endresults", i >= LastUser(ms))
      BY <1>1, <1>3, <2>2 DEF End, Thinks, C
    <3>2. Opening(ms, i) <=> thinking /\ i >= LastUser(ms)
      BY <1>3, <2>2 DEF Opening
    <3>. HIDE DEF e
    <3>. QED
      BY <1>2, <3>1, <3>2 DEF e
  <2>3. CASE /\ ms[i].role \notin {"user", "developer"}
             /\ ~(ms[i].role = "tool" /\ i - Caller(ms, i) = Len(CallsFor(ms, i)))
    <3>1. e = <<>> /\ ~Opening(ms, i)
      BY <1>3, <2>3 DEF End, Opening
    <3>. QED
      BY <3>1
  <2>. QED
    BY <2>1, <2>2, <2>3
<1>4. CASE encoder # "v32"
  <2>1. CASE ~Continued(ms, i) /\ AsksForAnswer(ms, i)
    <3>1. Is("Assistant", ~Drops(ms) \/ i >= LastUser(ms))
      BY <1>1, <1>4, <2>1 DEF End, Transition, C
    <3>2. Opening(ms, i) <=> thinking /\ (~Drops(ms) \/ i >= LastUser(ms))
      BY <1>4, <2>1 DEF Opening
    <3>. HIDE DEF e
    <3>. QED
      BY <1>2, <3>1, <3>2 DEF e
  <2>2. CASE ~(~Continued(ms, i) /\ AsksForAnswer(ms, i))
    <3>1. e = <<>> /\ ~Opening(ms, i)
      BY <1>4, <2>2 DEF End, Transition, Opening
    <3>. QED
      BY <3>1
  <2>. QED
    BY <2>1, <2>2
<1>. QED
  BY <1>3, <1>4

LEMMA FrontCloses ==
    ASSUME NEW ms, NEW i
    PROVE  /\ Len(Front(ms, i)) \in 0 .. 2
           /\ \A q \in 1 .. Len(Front(ms, i)) :
                 /\ Front(ms, i)[q].kind # "think"
                 /\ Front(ms, i)[q].kind = "reasoning" =>
                       /\ q = 1 /\ Len(Front(ms, i)) = 2 /\ Front(ms, i)[2].kind = "endthink"
                       /\ ShowsReasoning(ms, i)
           /\ ShowsReasoning(ms, i) =>
                 /\ Len(Front(ms, i)) >= 1
                 /\ Front(ms, i)[1].kind \in {"endthink", "reasoning"}
<1>. DEFINE f == Front(ms, i)
            r == C("reasoning", ms[i])
            e == C("endthink", ms[i])
            t == C("results", ms[i])
<1>1. f = IF ShowsReasoning(ms, i)
          THEN IF ms[i].reasoning THEN <<r, e>> ELSE <<e>>
          ELSE IF encoder = "v32" /\ ms[i].role = "tool" /\ i - Caller(ms, i) = 1
          THEN <<t>> ELSE <<>>
  BY ReasoningIs DEF Front
<1>2. r.kind = "reasoning" /\ e.kind = "endthink" /\ t.kind = "results"
  BY DEF C
<1>. HIDE DEF f, r, e, t
<1>3. CASE ShowsReasoning(ms, i) /\ ms[i].reasoning
  <2>1. f = <<r, e>>
    BY <1>1, <1>3
  <2>2. Len(f) = 2 /\ f[1] = r /\ f[2] = e /\ \A q \in 1 .. 2 : q = 1 \/ q = 2
    BY <2>1
  <2>. QED
    BY <1>2, <1>3, <2>2 DEF f
<1>4. CASE ShowsReasoning(ms, i) /\ ~ms[i].reasoning
  <2>1. f = <<e>>
    BY <1>1, <1>4
  <2>2. Len(f) = 1 /\ f[1] = e /\ \A q \in 1 .. 1 : q = 1
    BY <2>1
  <2>. QED
    BY <1>2, <1>4, <2>2 DEF f
<1>5. CASE ~ShowsReasoning(ms, i)
  <2>1. f = <<t>> \/ f = <<>>
    BY <1>1, <1>5
  <2>2. CASE f = <<t>>
    <3>1. Len(f) = 1 /\ f[1] = t /\ \A q \in 1 .. 1 : q = 1
      BY <2>2
    <3>. QED
      BY <1>2, <1>5, <3>1 DEF f
  <2>3. CASE f = <<>>
    <3>1. Len(f) = 0 /\ \A q \in 1 .. 0 : FALSE
      BY <2>3
    <3>. QED
      BY <1>5, <3>1 DEF f
  <2>. QED
    BY <2>1, <2>2, <2>3
<1>. QED
  BY <1>3, <1>4, <1>5


LEMMA RenderedTokens ==
    ASSUME encoder \in Encoders, NEW ms \in Seq(Turn), NEW i \in 1 .. Len(ms),
           RefusalOf(ms, i) = "none", ms[i].role = "tool" => encoder = "v32",
           ms[i].task = "none"
    PROVE  /\ Rendered(ms, i) \in Seq(Chunk)
           /\ IsOpen(Rendered(ms, i)) <=> Opening(ms, i)
           /\ \A p \in 1 .. Len(Rendered(ms, i)) :
                 /\ Rendered(ms, i)[p].kind = "think" => p = Len(Rendered(ms, i))
                 /\ Rendered(ms, i)[p].kind = "reasoning" =>
                       /\ p = 1 /\ Len(Rendered(ms, i)) >= 2 /\ Rendered(ms, i)[2].kind = "endthink"
                       /\ ShowsReasoning(ms, i)
           /\ ShowsReasoning(ms, i) =>
                 /\ Len(Rendered(ms, i)) >= 1
                 /\ Rendered(ms, i)[1].kind \in {"endthink", "reasoning"}
<1>. DEFINE f == Front(ms, i)
            m == Middle(ms, i)
            c == Calls(ms, i)
            x == f \o m \o c
            e == End(ms, i)
            w == Rendered(ms, i)
<1>1. /\ f \in Seq(Opens) /\ c \in Seq(Quiet) /\ e \in Seq(Quiet)
      /\ Opens \subseteq Chunk /\ Quiet \subseteq Chunk
  BY PartsAreTokens, EndIsQuiet DEF Opens, Quiet, Chunk
<1>2. /\ f \in Seq(Chunk) /\ c \in Seq(Chunk) /\ e \in Seq(Chunk)
      /\ Len(f) \in Nat /\ Len(c) \in Nat /\ Len(e) \in Nat
  BY <1>1
<1>3. ms[i].role # "other" /\ w = x \o e
  BY RenderedParts
<1>4. /\ m \in Seq(Chunk) /\ Len(m) \in Nat
      /\ \A p \in 1 .. Len(m) : m[p].kind \in Contents
  <2>1. m \in Seq(Chunk) /\ \A p \in 1 .. Len(m) : m[p].kind \in Contents
    BY <1>3, MiddleType
  <2>. QED
    BY <2>1
<1>5. \A q \in 1 .. Len(c) : c[q].kind \notin {"think", "reasoning"}
  <2>1. CASE c = <<>>
    BY <2>1
  <2>2. CASE c # <<>>
    <3>1. c = <<C("calls", ms[i])>>
      BY <2>2 DEF Calls, CallChunks
    <3>2. Len(c) = 1 /\ c[1].kind = "calls"
      BY <3>1 DEF C
    <3>. HIDE DEF c
    <3>. QED
      BY <3>2
  <2>. QED
    BY <2>1, <2>2
<1>6. /\ Len(f) \in 0 .. 2
      /\ \A q \in 1 .. Len(f) :
            /\ f[q].kind # "think"
            /\ f[q].kind = "reasoning" => /\ q = 1 /\ Len(f) = 2 /\ f[2].kind = "endthink"
                                          /\ ShowsReasoning(ms, i)
      /\ ShowsReasoning(ms, i) => Len(f) >= 1 /\ f[1].kind \in {"endthink", "reasoning"}
  BY FrontCloses
<1>7. /\ Len(e) \in {0, 2}
      /\ Opening(ms, i) => Len(e) = 2 /\ e[2].kind = "think"
      /\ ~Opening(ms, i) => \A q \in 1 .. Len(e) : e[q].kind # "think"
      /\ \A q \in 1 .. Len(e) : q = 1 => e[q].kind # "think"
      /\ \A q \in 1 .. Len(e) : e[q].kind # "reasoning"
  <2>1. \A q \in 1 .. Len(e) : e[q].kind # "reasoning"
    <3>1. \A y \in Quiet : y.kind # "reasoning"
      BY DEF Quiet
    <3>. HIDE DEF e
    <3>. QED
      BY <1>1, <3>1
  <2>. QED
    BY <2>1, EndOpens
<1>8. ConsistsOf(x, f, m, c, <<>>) /\ x \in Seq(Chunk)
  <2>. HIDE DEF f, m, c
  <2>1. x \in Seq(Chunk) /\ <<>> \in Seq(Chunk)
    <3>1. f \o m \in Seq(Chunk)
      BY <1>2, <1>4
    <3>. QED
      BY <1>2, <3>1
  <2>2. ConsistsOf(f \o m \o c \o <<>>, f, m, c, <<>>)
    BY <1>2, <1>4, <2>1, FourParts
  <2>3. x \o <<>> = x
    BY <2>1
  <2>. QED
    BY <2>1, <2>2, <2>3
<1>. HIDE DEF f, m, c, x, e, w
<1>9. /\ Len(x) = Len(f) + Len(m) + Len(c)
      /\ \A p \in 1 .. Len(f) : x[p] = f[p]
      /\ \A p \in 1 .. Len(x) :
            \/ p \in 1 .. Len(f)
            \/ p - Len(f) \in 1 .. Len(m) /\ x[p] = m[p - Len(f)]
            \/ \E q \in 1 .. Len(c) : x[p] = c[q]
  <2>1. Len(<<>>) = 0 /\ \A q \in 1 .. 0 : FALSE
    OBVIOUS
  <2>2. Len(x) = Len(f) + Len(m) + Len(c)
    BY <1>2, <1>4, <1>8, <2>1 DEF ConsistsOf
  <2>3. ASSUME NEW p \in 1 .. Len(x)
        PROVE  \/ p \in 1 .. Len(f)
               \/ p - Len(f) \in 1 .. Len(m) /\ x[p] = m[p - Len(f)]
               \/ \E q \in 1 .. Len(c) : x[p] = c[q]
    <3>1. \/ p \in 1 .. Len(f)
          \/ p - Len(f) \in 1 .. Len(m)
          \/ \E q \in 1 .. Len(c) : x[p] = c[q]
      BY <1>8, <2>1 DEF ConsistsOf
    <3>2. p - Len(f) \in 1 .. Len(m) => x[p] = m[p - Len(f)]
      <4>1. Len(x) \in Nat
        BY <1>8
      <4>2. p = Len(f) + (p - Len(f))
        BY <1>2, <4>1
      <4>. QED
        BY <1>8, <4>2 DEF ConsistsOf
    <3>. QED
      BY <3>1, <3>2
  <2>. QED
    BY <1>8, <2>2, <2>3 DEF ConsistsOf
<1>10. /\ w \in Seq(Chunk) /\ Len(w) = Len(x) + Len(e) /\ Len(x) \in Nat
       /\ \A p \in 1 .. Len(x) : w[p] = x[p]
       /\ \A p \in 1 .. Len(e) : w[Len(x) + p] = e[p]
  BY <1>2, <1>3, <1>8, TwoParts
<1>11. \A p \in 1 .. Len(x) : x[p].kind # "think" /\ (x[p].kind = "reasoning" => p \in 1 .. Len(f))
  BY <1>4, <1>5, <1>6, <1>9 DEF Contents
<1>12. ASSUME NEW p \in 1 .. Len(w)
       PROVE  \/ p \in 1 .. Len(x) /\ w[p] = x[p]
              \/ p - Len(x) \in 1 .. Len(e) /\ w[p] = e[p - Len(x)] /\ p = Len(x) + (p - Len(x))
  <2>1. CASE p <= Len(x)
    BY <1>10, <2>1
  <2>2. CASE p > Len(x)
    <3>1. p - Len(x) \in 1 .. Len(e) /\ p = Len(x) + (p - Len(x))
      BY <1>2, <1>10, <2>2
    <3>2. w[Len(x) + (p - Len(x))] = e[p - Len(x)]
      BY <1>10, <3>1
    <3>. QED
      BY <3>1, <3>2
  <2>. QED
    BY <1>10, <2>1, <2>2
<1>13. ASSUME NEW p \in 1 .. Len(w), w[p].kind = "think"
       PROVE  Opening(ms, i) /\ p = Len(w) /\ Len(e) = 2
  <2>1. p - Len(x) \in 1 .. Len(e) /\ w[p] = e[p - Len(x)]
    BY <1>11, <1>12, <1>13
  <2>2. Opening(ms, i) /\ p - Len(x) # 1
    BY <1>7, <1>13, <2>1
  <2>3. Len(e) = 2
    BY <1>7, <2>2
  <2>. QED
    BY <1>10, <2>1, <2>2, <2>3
<1>14. ASSUME NEW p \in 1 .. Len(w), w[p].kind = "reasoning"
       PROVE  p = 1 /\ Len(w) >= 2 /\ w[2].kind = "endthink" /\ ShowsReasoning(ms, i)
  <2>1. p \in 1 .. Len(x) /\ x[p].kind = "reasoning"
    BY <1>7, <1>12, <1>14
  <2>2. p \in 1 .. Len(f) /\ f[p].kind = "reasoning"
    BY <1>9, <1>11, <2>1
  <2>3. p = 1 /\ Len(f) = 2 /\ f[2].kind = "endthink" /\ ShowsReasoning(ms, i)
    BY <1>6, <2>2
  <2>4. 2 \in 1 .. Len(f) /\ 2 \in 1 .. Len(x) /\ 2 \in 1 .. Len(w)
    BY <1>2, <1>4, <1>9, <1>10, <2>3
  <2>5. w[2] = f[2]
    BY <1>9, <1>10, <2>4
  <2>. QED
    BY <1>10, <2>3, <2>4, <2>5
<1>15. ASSUME ShowsReasoning(ms, i)
       PROVE  Len(w) >= 1 /\ w[1].kind \in {"endthink", "reasoning"}
  <2>1. 1 \in 1 .. Len(f) /\ 1 \in 1 .. Len(x) /\ Len(w) >= 1
    BY <1>2, <1>4, <1>6, <1>9, <1>10, <1>15
  <2>2. w[1] = f[1]
    BY <1>9, <1>10, <2>1
  <2>. QED
    BY <1>6, <1>15, <2>1, <2>2
<1>16. IsOpen(w) <=> Opening(ms, i)
  <2>1. ASSUME IsOpen(w) PROVE Opening(ms, i)
    <3>1. Len(w) \in 1 .. Len(w) /\ w[Len(w)].kind = "think"
      <4>1. w \in Seq(Chunk) /\ w # <<>> /\ w[Len(w)].kind = "think"
        BY <1>10, <2>1 DEF IsOpen
      <4>2. Len(w) \in Nat /\ Len(w) # 0
        BY <4>1
      <4>. QED
        BY <4>1, <4>2
    <3>. QED
      BY <1>13, <3>1
  <2>2. ASSUME Opening(ms, i) PROVE IsOpen(w)
    <3>1. Len(e) = 2 /\ e[2].kind = "think"
      BY <1>7, <2>2
    <3>2. Len(w) = Len(x) + 2 /\ w[Len(w)] = e[2]
      <4>1. 2 \in 1 .. Len(e)
        BY <3>1
      <4>. QED
        BY <1>10, <3>1, <4>1
    <3>3. w # <<>>
      BY <1>10, <3>2
    <3>. QED
      BY <3>1, <3>2, <3>3 DEF IsOpen
  <2>. QED
    BY <2>1, <2>2
<1>. QED
  BY <1>10, <1>13, <1>14, <1>15, <1>16 DEF w


\* The message before that of a turn comes with the turn before it.
LEMMA Neighbour ==
    ASSUME Types, LeftInv, NEW n \in 1 .. Len(conversation),
           ~IsMerged(encoder, conversation[n]), conversation[n].at \in 1 .. Len(sent),
           conversation[n].at - 1 \in First(hasTools) .. Len(sent),
           ~Gone(conversation[n].at - 1)
    PROVE  /\ n - 1 \in 1 .. Len(conversation)
           /\ Has(encoder, conversation[n - 1], conversation[n].at - 1)
<1>. DEFINE a == conversation[n].at
<1>1. /\ Len(conversation) \in Nat /\ Len(sent) \in Nat /\ a \in 1 .. Len(sent)
      /\ First(hasTools) \in 0 .. 1
  BY DEF Types, First
<1>2. ASSUME NEW i \in 1 .. Len(conversation)
      PROVE  /\ Has(encoder, conversation[i], conversation[i].at)
             /\ conversation[i].at \in 0 .. Len(sent)
  <2>1. conversation[i] \in Turn /\ TurnFits(sent, hasTools, encoder, conversation[i])
    BY DEF Types, LeftInv, Line
  <2>2. Has(encoder, conversation[i], conversation[i].at)
        /\ conversation[i].at \in First(hasTools) .. Len(sent)
    BY <2>1, TurnFacts
  <2>. QED
    BY <1>1, <2>2
<1>3. \A i, j \in 1 .. Len(conversation) : i < j =>
         \A b \in 0 .. Len(sent) : Has(encoder, conversation[i], b) => b < conversation[j].at
  BY DEF LeftInv, Line
<1>4. PICK k \in 1 .. Len(conversation) : Has(encoder, conversation[k], a - 1)
  BY DEF LeftInv, Reaches
<1>5. k # n
  BY <1>1, <1>4 DEF Has
<1>. HIDE DEF a
<1>6. ~(n < k)
  <2>1. n < k => a < conversation[k].at
    BY <1>1, <1>2, <1>3 DEF a
  <2>2. Has(encoder, conversation[k], a - 1) => conversation[k].at <= a - 1
    <3>1. /\ conversation[k] \in Turn /\ TurnFits(sent, hasTools, encoder, conversation[k])
          /\ a - 1 \in 0 .. Len(sent)
      BY <1>1 DEF Types, LeftInv, Line
    <3>. QED
      BY <3>1, TurnFacts
  <2>. QED
    BY <1>1, <1>2, <1>4, <2>1, <2>2
<1>7. ~(k < n - 1)
  <2>. SUFFICES ASSUME k < n - 1 PROVE FALSE
    OBVIOUS
  <2>1. n - 1 \in 1 .. Len(conversation) /\ a - 1 \in 0 .. Len(sent)
    BY <1>1
  <2>2. a - 1 < conversation[n - 1].at
    BY <1>3, <1>4, <2>1
  <2>3. conversation[n - 1].at < a
    BY <1>1, <1>2, <1>3, <2>1 DEF a
  <2>. QED
    BY <1>1, <1>2, <2>1, <2>2, <2>3
<1>8. k = n - 1
  BY <1>1, <1>5, <1>6, <1>7
<1>. QED
  BY <1>4, <1>8 DEF a

\* Which turn calls and their results belong to.
LEMMA CallerIs ==
    ASSUME NEW ms, NEW i \in Nat, NEW j \in 0 .. i - 1,
           j # 0 => ms[j].role # "tool",
           \A k \in j + 1 .. i - 1 : ms[k].role = "tool"
    PROVE  Caller(ms, i) = j
<1>1. CASE j = 0
  <2>1. ~\E k \in 1 .. i - 1 : ms[k].role # "tool"
    BY <1>1
  <2>. QED
    BY <1>1, <2>1 DEF Caller
<1>2. CASE j # 0
  <2>. DEFINE Is(k) == ms[k].role # "tool" /\ \A l \in k + 1 .. i - 1 : ms[l].role = "tool"
  <2>1. j \in 1 .. i - 1 /\ Is(j)
    BY <1>2
  <2>2. \A k \in 1 .. i - 1 : Is(k) => k = j
    <3>. SUFFICES ASSUME NEW k \in 1 .. i - 1, Is(k) PROVE k = j
      OBVIOUS
    <3>1. ~(k < j)
      BY <2>1
    <3>2. ~(j < k)
      BY <2>1
    <3>. QED
      BY <2>1, <3>1, <3>2
  <2>3. Caller(ms, i) = CHOOSE k \in 1 .. i - 1 : Is(k)
    BY <2>1 DEF Caller
  <2>. HIDE DEF Is
  <2>. QED
    BY <2>1, <2>2, <2>3
<1>. QED
  BY <1>1, <1>2

LEMMA CallerFacts ==
    ASSUME NEW ms, NEW i \in Nat \ {0}
    PROVE  /\ Caller(ms, i) \in 0 .. i - 1
           /\ Caller(ms, i) # 0 => ms[Caller(ms, i)].role # "tool"
           /\ \A k \in Caller(ms, i) + 1 .. i - 1 : ms[k].role = "tool"
<1>. DEFINE T == {k \in 1 .. i - 1 : ms[k].role # "tool"}
<1>1. CASE T = {}
  <2>1. \A k \in 0 + 1 .. i - 1 : ms[k].role = "tool"
    BY <1>1
  <2>2. 0 \in 0 .. i - 1
    OBVIOUS
  <2>3. Caller(ms, i) = 0
    BY <2>1, <2>2, CallerIs
  <2>. QED
    BY <2>1, <2>2, <2>3
<1>2. CASE T # {}
  <2>1. i - 1 \in Nat /\ T \in SUBSET (1 .. i - 1)
    OBVIOUS
  <2>2. PICK j \in T : \A k \in T : k <= j
    <3>. HIDE DEF T
    <3>. QED
      BY <1>2, <2>1, LastOfNumbers
  <2>3. j \in 1 .. i - 1 /\ ms[j].role # "tool" /\ \A k \in j + 1 .. i - 1 : ms[k].role = "tool"
    BY <2>2
  <2>4. Caller(ms, i) = j
    BY <2>3, CallerIs
  <2>. QED
    BY <2>3, <2>4
<1>. QED
  BY <1>1, <1>2

\* A result belongs to the message the result before it belongs to, or to that before it.
LEMMA CallerNext ==
    ASSUME NEW ms, NEW n \in Nat, n > 1
    PROVE  Caller(ms, n) = IF ms[n - 1].role = "tool" THEN Caller(ms, n - 1) ELSE n - 1
<1>1. CASE ms[n - 1].role = "tool"
  <2>. DEFINE j == Caller(ms, n - 1)
  <2>1. /\ j \in 0 .. n - 2 /\ (j # 0 => ms[j].role # "tool")
        /\ \A k \in j + 1 .. n - 2 : ms[k].role = "tool"
    <3>1. n - 1 \in Nat \ {0} /\ (n - 1) - 1 = n - 2
      OBVIOUS
    <3>. QED
      BY <3>1, CallerFacts
  <2>. HIDE DEF j
  <2>2. j \in 0 .. n - 1 /\ \A k \in j + 1 .. n - 1 : ms[k].role = "tool"
    BY <1>1, <2>1
  <2>3. Caller(ms, n) = j
    BY <2>1, <2>2, CallerIs
  <2>. QED
    BY <1>1, <2>3 DEF j
<1>2. CASE ms[n - 1].role # "tool"
  <2>1. n - 1 \in 0 .. n - 1 /\ \A k \in (n - 1) + 1 .. n - 1 : ms[k].role = "tool"
    OBVIOUS
  <2>2. Caller(ms, n) = n - 1
    BY <1>2, <2>1, CallerIs
  <2>. QED
    BY <1>2, <2>2
<1>. QED
  BY <1>1, <1>2


\* A turn that is no user's is the message it comes from.
LEMMA TurnIsMessage ==
    ASSUME Types, LeftInv, NEW i \in 1 .. Len(conversation), ~IsMerged(encoder, conversation[i])
    PROVE  /\ conversation[i].at \in First(hasTools) .. Len(sent)
           /\ \A a : Has(encoder, conversation[i], a) <=> a = conversation[i].at
           /\ conversation[i].at = 0 => conversation[i].role = "system"
           /\ conversation[i].at > 0 =>
                 /\ conversation[i].role = sent[conversation[i].at].role
                 /\ conversation[i].role = "assistant" =>
                       conversation[i].calls = sent[conversation[i].at].calls
<1>. DEFINE t == conversation[i]
<1>1. /\ t \in Turn /\ TurnFits(sent, hasTools, encoder, t)
      /\ sent \in Seq(Message) /\ First(hasTools) \in 0 .. 1 /\ Len(sent) \in Nat
  BY DEF Types, LeftInv, Line, First
<1>2. ~IsMerged(encoder, t)
  OBVIOUS
<1>. HIDE DEF t
<1>3. /\ t.at \in First(hasTools) .. Len(sent)
      /\ \A a : Has(encoder, t, a) <=> a = t.at
      /\ t.at = 0 => t.role = "system"
      /\ t.at > 0 => t.role = sent[t.at].role
  BY <1>1, <1>2, TurnFacts
<1>4. PICK r \in BOOLEAN : t = [Original(sent, t.at) EXCEPT !.reasoning = r]
  BY <1>1, <1>2 DEF TurnFits
<1>5. Original(sent, t.at) \in Turn
  BY <1>1, <1>3, OriginalFacts
<1>6. t.calls = Original(sent, t.at).calls /\ t.role = Original(sent, t.at).role
  BY <1>4, <1>5 DEF Turn
<1>7. t.at > 0 /\ t.role = "assistant" => t.calls = sent[t.at].calls
  <2>. SUFFICES ASSUME t.at > 0, t.role = "assistant" PROVE t.calls = sent[t.at].calls
    OBVIOUS
  <2>1. t.at # 0
    BY <1>1, <1>3
  <2>2. Original(sent, t.at) = ParsedMessage(sent[t.at], t.at)
    BY <2>1 DEF Original
  <2>3. sent[t.at].role = "assistant"
    BY <1>3
  <2>. QED
    BY <1>6, <2>2, <2>3 DEF ParsedMessage
<1>. QED
  BY <1>3, <1>7 DEF t

\* With V3.2 the results of calls stand after them, as many as there are messages between.
LEMMA ResultsOfCalls ==
    ASSUME Types, LeftInv, encoder = "v32", NEW n \in 1 .. Len(conversation),
           NEW j \in 1 .. Len(sent), conversation[n].at - 1 > j, sent[j].role = "assistant",
           \A k \in j + 1 .. conversation[n].at - 1 : sent[k].role = "tool"
    PROVE  /\ n > 1 /\ Caller(conversation, n - 1) \in 1 .. n - 2
           /\ (n - 1) - Caller(conversation, n - 1) = conversation[n].at - 1 - j
           /\ CallsFor(conversation, n - 1) = sent[j].calls
<1>. DEFINE ms == conversation
            a == ms[n].at
<1>1. /\ Len(ms) \in Nat /\ Len(sent) \in Nat /\ First(hasTools) \in 0 .. 1
  BY DEF Types, First
<1>2. ASSUME NEW i \in 1 .. Len(ms)
      PROVE  /\ ~IsMerged(encoder, ms[i])
             /\ ms[i].at \in First(hasTools) .. Len(sent) /\ ms[i].at \in 0 .. Len(sent)
             /\ \A b : Has(encoder, ms[i], b) <=> b = ms[i].at
             /\ ms[i].at > 0 => /\ ms[i].role = sent[ms[i].at].role
                                /\ ms[i].role = "assistant" => ms[i].calls = sent[ms[i].at].calls
  <2>1. ~IsMerged(encoder, ms[i])
    BY DEF IsMerged
  <2>2. /\ ms[i].at \in First(hasTools) .. Len(sent)
        /\ \A b : Has(encoder, ms[i], b) <=> b = ms[i].at
        /\ ms[i].at > 0 => /\ ms[i].role = sent[ms[i].at].role
                           /\ ms[i].role = "assistant" => ms[i].calls = sent[ms[i].at].calls
    BY <2>1, TurnIsMessage
  <2>3. ms[i].at \in 0 .. Len(sent)
    BY <1>1, <2>2
  <2>. QED
    BY <2>1, <2>2, <2>3, Zenon
<1>3. \A i, k \in 1 .. Len(ms) : i < k => ms[i].at < ms[k].at
  BY <1>2 DEF LeftInv, Line
<1>4. ASSUME NEW b \in j .. a - 1
      PROVE  \E i \in 1 .. n - 1 : ms[i].at = b
  <2>1. b \in 1 .. Len(sent) /\ b \in First(hasTools) .. Len(sent) /\ b < a
    BY <1>1, <1>2
  <2>2. sent[b].role \in {"assistant", "tool"}
    <3>1. b = j \/ b \in j + 1 .. a - 1
      OBVIOUS
    <3>. QED
      BY <3>1
  <2>3. ~Gone(b)
    BY <2>2 DEF Gone, Forgotten
  <2>4. PICK i \in 1 .. Len(ms) : Has(encoder, ms[i], b)
    BY <2>1, <2>3 DEF LeftInv, Reaches
  <2>5. ms[i].at = b
    BY <1>2, <2>4
  <2>6. i < n
    <3>. SUFFICES ASSUME ~(i < n) PROVE FALSE
      OBVIOUS
    <3>1. i = n \/ n < i
      OBVIOUS
    <3>2. a <= ms[i].at
      <4>1. n < i => a < ms[i].at
        BY <1>3
      <4>. QED
        BY <1>1, <1>2, <3>1, <4>1
    <3>. QED
      BY <1>1, <1>2, <2>1, <2>5, <3>2
  <2>. QED
    BY <2>4, <2>5, <2>6
<1>5. /\ \E i \in 1 .. n - 1 : ms[i].at = j
      /\ \E i \in 1 .. n - 1 : ms[i].at = a - 1
  <2>1. a \in 0 .. Len(sent)
    BY <1>2
  <2>2. j \in j .. a - 1 /\ a - 1 \in j .. a - 1
    BY <1>1, <2>1
  <2>. QED
    BY <1>4, <2>2
<1>m. PICK m \in 1 .. n - 1 : ms[m].at = j
  BY <1>5
<1>6. PICK l \in 1 .. n - 1 : ms[l].at = a - 1
  BY <1>5
<1>7. m \in 1 .. Len(ms) /\ l \in 1 .. Len(ms) /\ m # l
  BY <1>1, <1>2, <1>m, <1>6
<1>. HIDE DEF a
<1>8. a \in 1 .. Len(sent) /\ a = ms[n].at /\ a - 1 > j
  BY <1>1, <1>2 DEF a
<1>9. ASSUME NEW i \in m + 1 .. n - 1
      PROVE  i \in 1 .. Len(ms) /\ ms[i].at \in j + 1 .. a - 1
  <2>1. i \in 1 .. Len(ms) /\ m < i /\ i < n
    BY <1>1, <1>7
  <2>2. ms[m].at < ms[i].at /\ ms[i].at < ms[n].at
    BY <1>3, <1>7, <2>1
  <2>3. ms[i].at \in Nat
    BY <1>2, <2>1
  <2>. QED
    BY <1>m, <1>8, <2>1, <2>2, <2>3
<1>10. m <= n - 2
  <2>1. ~(l < m)
    <3>1. l < m => ms[l].at < ms[m].at
      BY <1>3, <1>7
    <3>. QED
      BY <1>m, <1>6, <1>8, <3>1
  <2>. QED
    BY <1>1, <1>m, <1>6, <1>7, <2>1
<1>11. Caller(ms, n - 1) = m
  <2>1. \A k \in m + 1 .. (n - 1) - 1 : ms[k].role = "tool"
    <3>. SUFFICES ASSUME NEW k \in m + 1 .. (n - 1) - 1 PROVE ms[k].role = "tool"
      OBVIOUS
    <3>1. k \in m + 1 .. n - 1
      OBVIOUS
    <3>2. k \in 1 .. Len(ms) /\ ms[k].at \in j + 1 .. a - 1 /\ ms[k].at > 0
      BY <1>9, <3>1
    <3>. QED
      BY <1>2, <3>2 DEF a
  <2>2. ms[m].role # "tool"
    BY <1>2, <1>m, <1>7
  <2>3. n - 1 \in Nat /\ m \in 0 .. (n - 1) - 1
    BY <1>10
  <2>. QED
    BY <2>1, <2>2, <2>3, CallerIs
<1>12. (n - 1) - m = a - 1 - j
  <2>. DEFINE S == m + 1 .. n - 1
              T == j + 1 .. a - 1
              at == [i \in S |-> ms[i].at]
  <2>1. at \in [S -> T]
    BY <1>9
  <2>2. \A i, k \in S : at[i] = at[k] => i = k
    <3>. SUFFICES ASSUME NEW i \in S, NEW k \in S, at[i] = at[k] PROVE i = k
      OBVIOUS
    <3>1. i \in 1 .. Len(ms) /\ k \in 1 .. Len(ms) /\ ms[i].at = ms[k].at
      BY <1>9
    <3>2. ~(i < k) /\ ~(k < i)
      BY <1>2, <1>3, <3>1
    <3>. QED
      BY <3>1, <3>2
  <2>3. \A b \in T : \E i \in S : at[i] = b
    <3>. SUFFICES ASSUME NEW b \in T PROVE \E i \in S : at[i] = b
      OBVIOUS
    <3>1. b \in j .. a - 1
      BY <1>8
    <3>2. PICK i \in 1 .. n - 1 : ms[i].at = b
      BY <1>4, <3>1 DEF a
    <3>3. ~(i < m) /\ i # m
      <4>1. i \in 1 .. Len(ms)
        BY <1>1
      <4>2. i < m => ms[i].at < ms[m].at
        BY <1>3, <1>7, <4>1
      <4>. QED
        BY <1>m, <1>8, <3>2, <4>2
    <3>. QED
      BY <3>2, <3>3
  <2>4. at \in Bijection(S, T)
    <3>. HIDE DEF at, S, T
    <3>. QED
      BY <2>1, <2>2, <2>3 DEF Bijection, Injection, IsInjective, Surjection
  <2>5. IsFiniteSet(S) /\ IsFiniteSet(T) /\ Cardinality(S) = n - 1 - m /\ Cardinality(T) = a - 1 - j
    <3>1. m + 1 <= n - 1 /\ j + 1 <= a - 1 /\ m + 1 \in Int /\ n - 1 \in Int /\ j + 1 \in Int /\ a - 1 \in Int
      BY <1>8, <1>10
    <3>2. \A x, y \in Int : x <= y => IsFiniteSet(x .. y) /\ Cardinality(x .. y) = y - x + 1
      BY FS_Interval
    <3>3. /\ IsFiniteSet(S) /\ IsFiniteSet(T)
          /\ Cardinality(S) = (n - 1) - (m + 1) + 1 /\ Cardinality(T) = (a - 1) - (j + 1) + 1
      BY <3>1, <3>2
    <3>. QED
      BY <1>8, <3>3
  <2>6. Cardinality(S) = Cardinality(T)
    <3>. HIDE DEF at, S, T
    <3>. QED
      BY <2>4, <2>5, FS_Bijection DEF ExistsBijection
  <2>. QED
    BY <2>5, <2>6
<1>13. CallsFor(ms, n - 1) = sent[j].calls
  <2>1. CallsFor(ms, n - 1) = ms[m].calls
    BY <1>11 DEF CallsFor
  <2>2. ms[m].role = "assistant"
    BY <1>2, <1>m, <1>7
  <2>. QED
    BY <1>2, <1>m, <1>7, <2>1, <2>2
<1>. QED
  BY <1>10, <1>11, <1>12, <1>13 DEF a


\* What is opened is answered: the next message of a well-formed conversation is an answer
\* that shows its reasoning, if the encoder does not refuse it.
LEMMA OpeningIsAnswered ==
    ASSUME Types, LeftInv, WellFormed, NEW n \in 2 .. Len(conversation),
           RefusalOf(conversation, n) = "none", Opening(conversation, n - 1)
    PROVE  ShowsReasoning(conversation, n)
<1>. DEFINE ms == conversation
            i == n - 1
            t == ms[n]
<1>1. /\ Len(ms) \in Nat /\ Len(sent) \in Nat /\ First(hasTools) \in 0 .. 1
      /\ i \in 1 .. Len(ms) /\ n \in 1 .. Len(ms) /\ i + 1 = n
      /\ thinking /\ encoder \in Encoders
  BY DEF Types, First, Opening
<1>2. /\ LastUser(ms) \in 0 .. Len(ms)
      /\ \A j \in 1 .. Len(ms) : BeginsTurn(ms, j) => j <= LastUser(ms)
  BY <1>1, LastUserFacts
<1>3. /\ t \in Turn /\ ms[i] \in Turn /\ t.role \in Roles
      /\ ms[i].at \in 0 .. Len(sent) /\ ms[i].at < t.at /\ t.at \in 1 .. Len(sent)
  <2>1. t \in Turn /\ TurnFits(sent, hasTools, encoder, t)
    BY <1>1 DEF Types, LeftInv, Line
  <2>2. ms[i] \in Turn /\ TurnFits(sent, hasTools, encoder, ms[i])
    BY <1>1 DEF Types, LeftInv, Line
  <2>3. t.role \in Roles
    BY <2>1 DEF Turn
  <2>. HIDE DEF t
  <2>4. t.at \in First(hasTools) .. Len(sent)
    BY <2>1, TurnFacts
  <2>5. ms[i].at \in First(hasTools) .. Len(sent) /\ Has(encoder, ms[i], ms[i].at)
    BY <2>2, TurnFacts
  <2>6. ms[i].at \in 0 .. Len(sent)
    BY <1>1, <2>5
  <2>7. ms[i].at < t.at
    BY <1>1, <2>5, <2>6 DEF LeftInv, Line, t
  <2>. QED
    BY <1>1, <2>1, <2>2, <2>3, <2>4, <2>6, <2>7
<1>4. /\ ~AfterTask(ms, n)
      /\ t.role = "assistant" => ~t.prefix
  BY <1>1, AnswersLeft DEF WellFormed
\* The turn before t has the message before it, if t is no user's and that is not forgotten.
<1>5. ASSUME t.at > 1, ~IsMerged(encoder, t), ~Gone(t.at - 1)
      PROVE  Has(encoder, ms[i], t.at - 1)
  <2>1. t.at - 1 \in First(hasTools) .. Len(sent)
    BY <1>1, <1>3, <1>5
  <2>. QED
    BY <1>1, <1>3, <1>5, <2>1, Neighbour
<1>6. ~IsMerged(encoder, t) => t.role = sent[t.at].role
  BY <1>1, <1>3, TurnIsMessage
<1>7. ~IsMerged(encoder, ms[i]) =>
         /\ ms[i].at = 0 => ms[i].role = "system"
         /\ ms[i].at > 0 => ms[i].role = sent[ms[i].at].role
         /\ \A a : Has(encoder, ms[i], a) <=> a = ms[i].at
  BY <1>1, TurnIsMessage
<1>8. CASE encoder = "v32"
  <2>1. /\ i >= LastUser(ms) /\ ms[i].role \in {"user", "developer", "tool"}
        /\ ms[i].role = "tool" => i - Caller(ms, i) = Len(CallsFor(ms, i))
    BY <1>1, <1>2, <1>8 DEF Opening
  <2>2. t.role \notin {"user", "developer"}
    <3>1. ~BeginsTurn(ms, n)
      BY <1>1, <1>2, <2>1
    <3>. QED
      BY <1>8, <3>1 DEF BeginsTurn
  <2>3. RefusalV32(ms, n) = "none"
    BY <1>1, <1>8 DEF RefusalOf
  <2>4. t.role \notin {"other", "latest_reminder"}
    BY <2>3 DEF RefusalV32
  <2>5. t.role # "system"
    <3>. SUFFICES ASSUME t.role = "system" PROVE FALSE
      OBVIOUS
    <3>1. ~IsMerged(encoder, t) /\ ~IsMerged(encoder, ms[i]) /\ sent[t.at].role = "system"
      BY <1>6, <1>8 DEF IsMerged
    <3>2. CASE t.at = 1
      BY <1>3, <1>7, <2>1, <3>1, <3>2
    <3>3. CASE t.at > 1
      <4>1. sent[t.at - 1].role = "system" /\ t.at - 1 > 0
        BY <1>3, <1>8, <3>1, <3>3 DEF WellFormed
      <4>2. ~Gone(t.at - 1)
        BY <4>1 DEF Gone, Forgotten
      <4>3. ms[i].at = t.at - 1
        BY <1>5, <1>7, <3>1, <3>3, <4>2
      <4>. QED
        BY <1>7, <2>1, <3>1, <4>1, <4>3
    <3>. QED
      BY <1>3, <3>2, <3>3
  <2>6. t.role # "tool"
    <3>. SUFFICES ASSUME t.role = "tool" PROVE FALSE
      OBVIOUS
    <3>. DEFINE c == Caller(ms, n)
    <3>1. /\ c # 0 /\ ms[c].role = "assistant"
          /\ ~(Len(CallsFor(ms, n)) < n - c)
      <4>1. n # 1
        BY <1>1
      <4>. QED
        BY <2>3, <4>1 DEF RefusalV32
    <3>2. c = IF ms[i].role = "tool" THEN Caller(ms, i) ELSE i
      BY <1>1, CallerNext
    <3>3. ms[i].role = "tool" /\ c = Caller(ms, i)
      BY <2>1, <3>1, <3>2
    <3>4. CallsFor(ms, n) = CallsFor(ms, i)
      BY <3>1, <3>3 DEF CallsFor
    <3>5. c \in 0 .. i - 1 /\ i - c = Len(CallsFor(ms, n))
      BY <1>1, <2>1, <3>3, <3>4, CallerFacts
    <3>. HIDE DEF c
    <3>. QED
      BY <1>1, <3>1, <3>5 DEF c
  <2>7. t.role = "assistant"
    BY <1>3, <2>2, <2>4, <2>5, <2>6 DEF Roles
  <2>8. n > LastUser(ms)
    BY <1>1, <1>2, <2>1
  <2>. QED
    BY <1>1, <1>4, <1>8, <2>7, <2>8 DEF ShowsReasoning
<1>9. CASE encoder # "v32"
  <2>1. /\ ~Continued(ms, i) /\ AsksForAnswer(ms, i)
        /\ ~Drops(ms) \/ i >= LastUser(ms)
    BY <1>9 DEF Opening
  <2>2. t.role \in {"assistant", "latest_reminder"}
    BY <1>1, <2>1 DEF Continued
  <2>3. ~IsMerged(encoder, t)
    BY <2>2 DEF IsMerged
  <2>4. t.role # "latest_reminder"
    <3>. SUFFICES ASSUME t.role = "latest_reminder" PROVE FALSE
      OBVIOUS
    <3>1. sent[t.at].role = "latest_reminder"
      BY <1>6, <2>3
    <3>2. CASE t.at = 1
      <4>1. ms[i].at = 0
        BY <1>3, <3>2
      <4>2. ~IsMerged(encoder, ms[i])
        <5>1. ms[i] \in Turn /\ TurnFits(sent, hasTools, encoder, ms[i])
          BY <1>1 DEF Types, LeftInv, Line
        <5>. QED
          BY <4>1, <5>1, TurnFacts
      <4>3. ms[i].role = "system"
        BY <1>7, <4>1, <4>2
      <4>4. i > 1
        BY <1>1, <2>1, <4>3 DEF AsksForAnswer
      <4>5. ms[1] \in Turn /\ TurnFits(sent, hasTools, encoder, ms[1]) /\ 1 \in 1 .. Len(ms)
        BY <1>1 DEF Types, LeftInv, Line
      <4>6. /\ ms[1].at \in First(hasTools) .. Len(sent)
            /\ Has(encoder, ms[1], ms[1].at)
        BY <4>5, TurnFacts
      <4>7. ms[1].at \in 0 .. Len(sent)
        BY <1>1, <4>6
      <4>8. ms[1].at < ms[i].at
        BY <1>1, <4>4, <4>5, <4>6, <4>7 DEF LeftInv, Line
      <4>. QED
        BY <4>1, <4>7, <4>8
    <3>3. CASE t.at > 1
      <4>1. sent[t.at - 1].role \in {"assistant", "latest_reminder"} /\ t.at - 1 \in 1 .. Len(sent)
        BY <1>3, <3>1, <3>3 DEF WellFormed
      <4>2. ~Gone(t.at - 1)
        BY <1>9, <4>1 DEF Gone, Forgotten
      <4>3. Has(encoder, ms[i], t.at - 1)
        BY <1>5, <2>3, <3>3, <4>2
      <4>4. ~IsMerged(encoder, ms[i])
        <5>1. ms[i] \in Turn /\ TurnFits(sent, hasTools, encoder, ms[i])
          BY <1>1 DEF Types, LeftInv, Line
        <5>2. t.at - 1 \in 0 .. Len(sent)
          BY <4>1
        <5>. QED
          BY <4>1, <4>3, <5>1, <5>2, TurnFacts
      <4>5. ms[i].role = sent[t.at - 1].role
        BY <1>7, <4>1, <4>3, <4>4
      <4>. QED
        BY <2>1, <4>1, <4>5 DEF AsksForAnswer
    <3>. QED
      BY <1>3, <3>2, <3>3
  <2>5. ~Drops(ms) \/ n > LastUser(ms)
    BY <1>1, <1>2, <2>1
  <2>. QED
    BY <1>1, <1>4, <1>9, <2>2, <2>4, <2>5 DEF ShowsReasoning
<1>. QED
  BY <1>8, <1>9


\* Reasoning is opened: an answer that shows its reasoning follows what opens it.
LEMMA ReasoningIsOpened ==
    ASSUME Types, LeftInv, WellFormed, NEW n \in 1 .. Len(conversation),
           ShowsReasoning(conversation, n)
    PROVE  n > 1 /\ Opening(conversation, n - 1)
<1>. DEFINE ms == conversation
            i == n - 1
            a == ms[n].at
            b == a - 1
<1>1. /\ Len(ms) \in Nat /\ Len(sent) \in Nat /\ First(hasTools) \in 0 .. 1
      /\ sent \in Seq(Message) /\ encoder \in Encoders
  BY DEF Types, First
<1>2. /\ thinking /\ ms[n].role = "assistant" /\ ~IsMerged(encoder, ms[n])
      /\ encoder = "v32" => n > LastUser(ms)
      /\ encoder # "v32" => ~Drops(ms) \/ n > LastUser(ms)
  BY DEF ShowsReasoning, IsMerged
<1>3. /\ LastUser(ms) \in 0 .. Len(ms)
      /\ \A j \in 1 .. Len(ms) : BeginsTurn(ms, j) => j <= LastUser(ms)
  BY <1>1, LastUserFacts
<1>4. a \in 1 .. Len(sent) /\ sent[a].role = "assistant"
  BY <1>2, AnswersLeft DEF WellFormed
<1>5. InLastTurn(a) \/ (encoder # "v32" /\ ~IsForgetful)
  BY <1>2, ShownInLastTurn DEF WellFormed
<1>. HIDE DEF a
<1>6. /\ a > 1 /\ b \in 1 .. Len(sent)
      /\ \/ sent[b].role \in {"user", "developer"}
         \/ encoder # "v32" /\ sent[b].role = "tool"
         \/ encoder = "v41" /\ sent[b].role = "system" /\ a > 2
         \/ /\ encoder = "v32"
            /\ \E j \in 1 .. a - 2 :
                  /\ sent[j].role = "assistant" /\ Len(sent[j].calls) = a - 1 - j
                  /\ \A k \in j + 1 .. a - 1 : sent[k].role = "tool"
  <2>1. /\ a > 1
        /\ \/ sent[b].role \in {"user", "developer"}
           \/ encoder # "v32" /\ sent[b].role = "tool"
           \/ encoder = "v41" /\ sent[b].role = "system" /\ a > 2
           \/ /\ encoder = "v32"
              /\ \E j \in 1 .. a - 2 :
                    /\ sent[j].role = "assistant" /\ Len(sent[j].calls) = a - 1 - j
                    /\ \A k \in j + 1 .. a - 1 : sent[k].role = "tool"
    BY <1>4 DEF WellFormed
  <2>2. b \in 1 .. Len(sent)
    BY <1>1, <1>4, <2>1
  <2>. QED
    BY <2>1, <2>2
<1>7. ~Gone(b)
  <2>1. ~Turns(a)
    BY <1>1, <1>4 DEF Turns, Encoders
  <2>2. InLastTurn(a) => InLastTurn(b)
    <3>1. \A j \in b + 1 .. Len(sent) : j = a \/ j \in a + 1 .. Len(sent)
      BY <1>1, <1>4
    <3>. QED
      BY <2>1, <3>1 DEF InLastTurn
  <2>. QED
    BY <1>5, <2>2 DEF Gone, Forgotten
<1>8. i \in 1 .. Len(ms) /\ Has(encoder, ms[i], b) /\ n > 1 /\ i + 1 = n
  <2>1. b \in First(hasTools) .. Len(sent)
    BY <1>1, <1>6
  <2>2. i \in 1 .. Len(ms) /\ Has(encoder, ms[i], b)
    BY <1>2, <1>4, <1>7, <2>1, Neighbour DEF a
  <2>. QED
    BY <2>2
<1>9. /\ IsMerged(encoder, ms[i]) => sent[b].role \in {"user", "tool"}
      /\ ~IsMerged(encoder, ms[i]) => ms[i].at = b /\ ms[i].role = sent[b].role
  <2>1. ms[i] \in Turn /\ TurnFits(sent, hasTools, encoder, ms[i]) /\ b \in 0 .. Len(sent)
    BY <1>6, <1>8 DEF Types, LeftInv, Line
  <2>2. IsMerged(encoder, ms[i]) => sent[b].role \in {"user", "tool"}
    BY <1>8, <2>1, TurnFacts
  <2>3. ~IsMerged(encoder, ms[i]) => ms[i].at = b /\ ms[i].role = sent[b].role
    <3>1. ~IsMerged(encoder, ms[i]) => ms[i].at = b
      BY <1>8, <2>1, TurnFacts
    <3>2. ~IsMerged(encoder, ms[i]) /\ ms[i].at > 0 => ms[i].role = sent[ms[i].at].role
      BY <2>1, TurnFacts
    <3>. QED
      BY <1>6, <3>1, <3>2
  <2>. QED
    BY <2>2, <2>3
<1>10. CASE encoder = "v32"
  <2>1. ~IsMerged(encoder, ms[i]) /\ i >= LastUser(ms)
    BY <1>1, <1>2, <1>3, <1>8, <1>10 DEF IsMerged
  <2>2. CASE sent[b].role \in {"user", "developer"}
    <3>1. ms[i].role \in {"user", "developer"}
      BY <1>9, <2>1, <2>2
    <3>2. i <= LastUser(ms)
      BY <1>3, <1>8, <1>10, <3>1 DEF BeginsTurn
    <3>3. i = LastUser(ms)
      BY <1>3, <1>8, <2>1, <3>2
    <3>. QED
      BY <1>2, <1>8, <1>10, <3>1, <3>3 DEF Opening
  <2>3. CASE \E j \in 1 .. a - 2 :
                /\ sent[j].role = "assistant" /\ Len(sent[j].calls) = a - 1 - j
                /\ \A k \in j + 1 .. a - 1 : sent[k].role = "tool"
    <3>1. PICK j \in 1 .. a - 2 : /\ sent[j].role = "assistant" /\ Len(sent[j].calls) = a - 1 - j
                                  /\ \A k \in j + 1 .. a - 1 : sent[k].role = "tool"
      BY <2>3
    <3>2. j \in 1 .. Len(sent) /\ a - 1 > j /\ a - 1 \in j + 1 .. a - 1
      BY <1>1, <1>4
    <3>3. /\ (n - 1) - Caller(ms, n - 1) = a - 1 - j
          /\ CallsFor(ms, n - 1) = sent[j].calls
      BY <1>10, <3>1, <3>2, ResultsOfCalls DEF a
    <3>4. i - Caller(ms, i) = Len(CallsFor(ms, i))
      BY <3>1, <3>3
    <3>5. ms[i].role = "tool"
      BY <1>9, <2>1, <3>1, <3>2
    <3>. QED
      BY <1>2, <1>8, <1>10, <2>1, <3>4, <3>5 DEF Opening
  <2>. QED
    BY <1>6, <1>10, <2>2, <2>3
<1>11. CASE encoder # "v32"
  <2>1. ~Continued(ms, i)
    BY <1>2, <1>8 DEF Continued
  <2>2. ~Drops(ms) \/ i >= LastUser(ms)
    BY <1>1, <1>2, <1>3, <1>8, <1>11
  <2>3. AsksForAnswer(ms, i)
    <3>1. CASE sent[b].role \in {"user", "tool"}
      <4>1. ms[i].role = "user"
        <5>1. ms[i].role # "tool"
          <6>1. TurnFits(sent, hasTools, encoder, ms[i])
            BY <1>8 DEF LeftInv, Line
          <6>. QED
            BY <1>11, <6>1 DEF TurnFits, IsMerged
        <5>. QED
          BY <1>9, <1>11, <3>1, <5>1 DEF IsMerged
      <4>. QED
        BY <4>1 DEF AsksForAnswer
    <3>2. CASE sent[b].role = "developer"
      <4>1. encoder # "v41" /\ ms[i].role = "developer"
        BY <1>6, <1>9, <3>2 DEF WellFormed
      <4>. QED
        BY <4>1 DEF AsksForAnswer
    <3>3. CASE encoder = "v41" /\ sent[b].role = "system" /\ a > 2
      <4>1. ms[i].role = "system" /\ ms[i].at = b /\ ~IsMerged(encoder, ms[i])
        BY <1>9, <3>3
      <4>2. 1 \in 1 .. Len(sent) /\ 1 \in First(hasTools) .. Len(sent) /\ 1 \in 0 .. Len(sent) /\ 1 < b
        BY <1>1, <1>4, <1>6, <3>3
      <4>3. ~Gone(1)
        BY <3>3, <4>2 DEF WellFormed, Gone, Forgotten
      <4>4. PICK k \in 1 .. Len(ms) : Has(encoder, ms[k], 1)
        BY <4>2, <4>3 DEF LeftInv, Reaches
      <4>5. k # i
        BY <4>1, <4>2, <4>4 DEF Has
      <4>6. i < k => b < 1
        <5>1. ms[k] \in Turn /\ TurnFits(sent, hasTools, encoder, ms[k])
          BY DEF Types, LeftInv, Line
        <5>2. ms[k].at <= 1 /\ ms[k].at \in First(hasTools) .. Len(sent)
          BY <4>2, <4>4, <5>1, TurnFacts
        <5>3. b \in 0 .. Len(sent)
          BY <1>6
        <5>4. i < k => b < ms[k].at
          BY <1>8, <5>3 DEF LeftInv, Line
        <5>. QED
          BY <1>1, <1>6, <5>2, <5>4
      <4>7. i > 1
        BY <1>4, <1>8, <4>2, <4>5, <4>6
      <4>. QED
        BY <3>3, <4>1, <4>7 DEF AsksForAnswer
    <3>. QED
      BY <1>6, <1>11, <3>1, <3>2, <3>3
  <2>. QED
    BY <1>2, <1>8, <1>11, <2>1, <2>2, <2>3 DEF Opening
<1>. QED
  BY <1>8, <1>10, <1>11


LEMMA RenderClosed ==
    ASSUME IInv, ClosedInv, Render
    PROVE  ClosedInv'
<1>. DEFINE n == next
            t == conversation[n]
            v == Rendered(conversation, n)
            u == prompt \o v
<1>1. Types /\ LeftInv /\ stage = "render" /\ error # "malformed"
  BY TypesHold DEF IInv, Rendering, Render
<1>2. /\ UNCHANGED <<inputs, stage, conversation, written, order, error>>
      /\ next' = n + 1 /\ n \in Nat \ {0} /\ prompt' = u
      /\ RefusalOf(conversation, n) = "none"
  BY <1>1 DEF Render, Types
<1>3. /\ conversation \in Seq(Turn) /\ Len(conversation) \in Nat /\ encoder \in Encoders
      /\ prompt \in Seq(Chunk)
  BY <1>1 DEF Types
<1>4. n \in 1 .. Len(conversation)
  BY <1>2, <1>3 DEF RefusalOf
<1>5. t.role = "tool" => encoder = "v32"
  BY <1>1, <1>4 DEF LeftInv, Line, TurnFits, IsMerged
<1>6. /\ WellFormed' <=> WellFormed
      /\ \A i : Opening(conversation, i)' <=> Opening(conversation, i)
  BY <1>2 DEF WellFormed, Opening, Continued, AsksForAnswer, Caller, CallsFor, LastUser, BeginsTurn,
              Drops, inputs
<1>7. ASSUME WellFormed PROVE IsClosed(u) /\ (IsOpen(u) <=> Opening(conversation, n))
  <2>1. /\ IsClosed(prompt)
        /\ IsOpen(prompt) <=> n > 1 /\ Opening(conversation, n - 1)
    BY <1>1, <1>7 DEF ClosedInv, Rendering
  <2>2. t.task = "none"
    BY <1>1, <1>4, <1>7, AnswersLeft DEF WellFormed
  <2>3. /\ v \in Seq(Chunk)
        /\ IsOpen(v) <=> Opening(conversation, n)
        /\ \A p \in 1 .. Len(v) :
              /\ v[p].kind = "think" => p = Len(v)
              /\ v[p].kind = "reasoning" => /\ p = 1 /\ Len(v) >= 2 /\ v[2].kind = "endthink"
                                            /\ ShowsReasoning(conversation, n)
        /\ ShowsReasoning(conversation, n) => Len(v) >= 1 /\ v[1].kind \in {"endthink", "reasoning"}
    BY <1>2, <1>3, <1>4, <1>5, <2>2, RenderedTokens
  <2>4. n > 1 /\ Opening(conversation, n - 1) => ShowsReasoning(conversation, n)
    BY <1>1, <1>2, <1>3, <1>4, <1>7, OpeningIsAnswered
  <2>5. ShowsReasoning(conversation, n) => n > 1 /\ Opening(conversation, n - 1)
    BY <1>1, <1>4, <1>7, ReasoningIsOpened
  <2>6. IsOpen(prompt) <=> ShowsReasoning(conversation, n)
    BY <2>1, <2>4, <2>5
  <2>. HIDE DEF v
  <2>7. IsClosed(u) /\ (IsOpen(u) <=> IsOpen(v))
    BY <1>3, <2>1, <2>3, <2>6, ClosedAppend
  <2>. QED
    BY <2>3, <2>7
<1>. HIDE DEF u, v, t
<1>8. next' > 1 /\ next' - 1 = n
  BY <1>2
<1>9. /\ IsClosed(prompt)' <=> IsClosed(u)
      /\ IsOpen(prompt)' <=> IsOpen(u)
      /\ Opening(conversation, next - 1)' <=> Opening(conversation, n)
  BY <1>2, <1>6, <1>8 DEF IsClosed, IsOpen
<1>. QED
  BY <1>6, <1>7, <1>8, <1>9 DEF ClosedInv

LEMMA ClosedIsInvariant == Spec => []ClosedInv
<1>1. Init => ClosedInv
  BY DEF Init, ClosedInv, Rendering
<1>2. IInv /\ ClosedInv /\ [Next]_vars => ClosedInv'
  <2>. SUFFICES ASSUME IInv, ClosedInv, [Next]_vars PROVE ClosedInv'
    OBVIOUS
  <2>1. CASE Parse \/ Merge \/ EndMerge \/ Sort \/ EndSort \/ Forget
    <3>1. stage' \in {"merge", "sort", "forget"}
      BY <2>1 DEF Parse, Merge, EndMerge, Sort, EndSort, Forget
    <3>. QED
      BY <3>1 DEF ClosedInv, Rendering
  <2>2. CASE RefuseToParse
    BY <2>2 DEF RefuseToParse, ClosedInv, Rendering
  <2>3. CASE EndForget
    <3>1. prompt' = <<>> /\ next' = 1
      BY <2>3 DEF EndForget, IInv
    <3>. QED
      BY <3>1 DEF ClosedInv, IsClosed, IsOpen
  <2>4. CASE Raise \/ EndRender \/ UNCHANGED vars
    <3>1. /\ UNCHANGED <<inputs, next, conversation, prompt>>
          /\ Rendering' => Rendering
      <4>1. CASE Raise
        BY <4>1 DEF Raise, IInv, Rendering
      <4>2. CASE EndRender
        BY <4>2 DEF EndRender, IInv, Rendering
      <4>3. CASE UNCHANGED vars
        BY <4>3 DEF vars, Rendering
      <4>. QED
        BY <2>4, <4>1, <4>2, <4>3
    <3>2. /\ WellFormed' <=> WellFormed
          /\ Opening(conversation, next - 1)' <=> Opening(conversation, next - 1)
          /\ IsClosed(prompt)' <=> IsClosed(prompt)
          /\ IsOpen(prompt)' <=> IsOpen(prompt)
      BY <3>1 DEF WellFormed, Opening, Continued, AsksForAnswer, Caller, CallsFor, LastUser,
                  BeginsTurn, Drops, IsClosed, IsOpen, inputs
    <3>. QED
      BY <3>1, <3>2 DEF ClosedInv
  <2>. QED
    BY <2>1, <2>2, <2>3, <2>4, RenderClosed DEF Next
<1>. QED
  BY <1>1, <1>2, IsInvariant, PTL DEF Spec

\* In the prompt of a well-formed conversation what opens reasoning is followed by reasoning
\* or its end, and no reasoning is outside, though both are decided at different messages.
THEOREM ThinkingClosed == Spec => []ThinkingIsClosed
<1>1. IInv /\ ClosedInv => ThinkingIsClosed
  <2>. SUFFICES ASSUME IInv, ClosedInv, Encoded, WellFormed, NEW p \in 1 .. Len(prompt)
                PROVE  /\ prompt[p].kind = "think" /\ p < Len(prompt) =>
                             \/ prompt[p + 1].kind = "endthink"
                             \/ prompt[p + 1].kind = "reasoning" /\ prompt[p + 2].kind = "endthink"
                       /\ prompt[p].kind = "reasoning" => p > 1 /\ prompt[p - 1].kind = "think"
    BY DEF ThinkingIsClosed
  <2>1. IsClosed(prompt) /\ Len(prompt) \in Nat
    BY TypesHold DEF ClosedInv, Rendering, Encoded, IInv, Types
  <2>2. prompt[p].kind = "reasoning" => p > 1 /\ prompt[p - 1].kind = "think"
    BY <2>1 DEF IsClosed
  <2>3. ASSUME prompt[p].kind = "think", p < Len(prompt)
        PROVE  \/ prompt[p + 1].kind = "endthink"
               \/ prompt[p + 1].kind = "reasoning" /\ prompt[p + 2].kind = "endthink"
    <3>1. prompt[p + 1].kind \in {"endthink", "reasoning"} /\ p + 1 \in 1 .. Len(prompt)
      BY <2>1, <2>3 DEF IsClosed
    <3>2. prompt[p + 1].kind = "reasoning" => prompt[(p + 1) + 1].kind = "endthink"
      BY <2>1, <3>1 DEF IsClosed
    <3>3. (p + 1) + 1 = p + 2
      OBVIOUS
    <3>. QED
      BY <3>1, <3>2, <3>3
  <2>. QED
    BY <2>2, <2>3
<1>. QED
  BY <1>1, IsInvariant, ClosedIsInvariant, PTL
================================================================================
